----------------------------- MODULE TcpServer -----------------------------
(* TcpServer: the Acceptor and the table of connections on the base loop,   *)
(* each connection on an I/O loop of its own, and threads of the user that   *)
(* send on a connection, shut it down or force it to close at any moment.    *)
EXTENDS TcpConnection

CONSTANTS
    Users,       \* threads of the application, outside every loop
    MaxChunks,   \* bound: chunks sent by the peers
    MaxOps       \* bound: calls of shutdown and forceClose by the users

None == "none"
Absent == [Fresh EXCEPT !.st = None]
Idle == [conn |-> None, op |-> None, msg |-> None]

VARIABLES
    cn,          \* per connection its record, or Absent before accept
    todo,        \* per connection: the messages still to be sent, in their order
    user,        \* per user: what it read _state for and has not done yet
    chunks, ops, \* what MaxChunks and MaxOps bound
    backlog,     \* clients in the kernel's accept queue
    accepting,   \* the Acceptor's channel is reading
    idleFd,      \* the spare descriptor is open
    table,       \* _connections: connections the server holds
    destroyed    \* ~TcpServer has run

vars == <<cn, todo, user, chunks, ops, backlog, accepting, idleFd, table, destroyed>>
acceptor == <<backlog, accepting, idleFd, table, destroyed>>

Init ==
    /\ cn = [c \in Conns |-> Absent]
    /\ todo = [c \in Conns |-> [i \in DOMAIN Length |-> i]]
    /\ user = [u \in Users |-> Idle]
    /\ chunks = 0 /\ ops = 0 /\ backlog = {} /\ accepting = TRUE /\ idleFd = TRUE
    /\ table = {} /\ destroyed = FALSE

Alive == {c \in Conns : cn[c] # Absent}

-----------------------------------------------------------------------------
(* The base loop.                                                            *)

\* TcpServer::newConnection for a client accepted by Acceptor::handleRead.
NewConnection(c) ==
    /\ ~destroyed /\ accepting /\ c \in backlog
    /\ cn' = [cn EXCEPT ![c] = Queue(Fresh, <<"established">>)]
    /\ table' = table \cup {c} /\ backlog' = backlog \ {c}
    /\ UNCHANGED <<todo, user, chunks, ops, accepting, idleFd, destroyed>>

\* accept() finds no free descriptor: the spare one is given up to take the client
\* off the queue, and may not be had again; without it reading stops for a while.
Emfile(c) ==
    /\ ~destroyed /\ accepting /\ c \in backlog
    /\ IF idleFd THEN backlog' = backlog \ {c} /\ idleFd' \in BOOLEAN /\ UNCHANGED accepting
       ELSE accepting' = FALSE /\ UNCHANGED <<backlog, idleFd>>
    /\ UNCHANGED <<cn, todo, user, chunks, ops, table, destroyed>>

\* Mutant: the timer is forgotten.
AcceptAgain_Never == FALSE /\ UNCHANGED vars

\* The timer of the Acceptor.
AcceptAgain ==
    /\ ~destroyed /\ ~accepting /\ accepting' = TRUE
    /\ UNCHANGED <<cn, todo, user, chunks, ops, backlog, idleFd, table, destroyed>>

RemoveConnectionInLoop(c) ==
    /\ ~destroyed /\ c \in Alive /\ cn[c].removal > 0
    /\ table' = table \ {c}
    /\ cn' = [cn EXCEPT ![c] = Queue([@ EXCEPT !.removal = @ - 1], <<"destroyed">>)]
    /\ UNCHANGED <<todo, user, chunks, ops, backlog, accepting, idleFd, destroyed>>

\* ~TcpServer: the base loop does not run again.
Destroy ==
    /\ ~destroyed /\ destroyed' = TRUE /\ table' = {}
    /\ cn' = [c \in Conns |-> IF c \in table THEN Queue([cn[c] EXCEPT !.closeCb = FALSE], <<"destroyed">>)
                              ELSE cn[c]]
    /\ UNCHANGED <<todo, user, chunks, ops, backlog, accepting, idleFd>>

-----------------------------------------------------------------------------
(* The I/O loop of a connection: events, their write half, queued tasks.     *)

Becomes(c, r) == cn' = [cn EXCEPT ![c] = r]
NextMessage(c) == todo[c] # <<>> /\ todo' = [todo EXCEPT ![c] = Tail(@)]

\* The message callback of the user, with what it may do.
MessageCallback(c, r) ==
    \/ Becomes(c, r) /\ UNCHANGED todo
    \/ \E op \in {"send", "sendAsync"} :
         /\ NextMessage(c)
         /\ Becomes(c, CASE op = "sendAsync" -> SendAsync(r, Head(todo[c]))
                         [] r.st = "CONNECTED" -> SendInLoop(r, Head(todo[c]))
                         [] OTHER -> r)
    \/ (Becomes(c, Shutdown(r)) \/ Becomes(c, ForceClose(r))) /\ UNCHANGED todo

HandleRead(c, r) ==
    IF r.data > 0 THEN MessageCallback(c, [r EXCEPT !.data = @ - 1])
    ELSE Becomes(c, HandleClose(r)) /\ UNCHANGED todo

\* Channel::handleEvent up to the read callback; EPOLLOUT reported with it is
\* served afterwards.
HandleEvent(c) ==
    LET r == cn[c] IN
    /\ r.index = "added" /\ ~r.pend
    /\ \/ HangUp(r) /\ ~Readable(r) /\ Becomes(c, HandleClose(r)) /\ UNCHANGED todo
       \/ r.peer = "rst" /\ Readable(r) /\ Becomes(c, ForceCloseInLoop(r)) /\ UNCHANGED todo
       \/ /\ r.peer # "rst" /\ Readable(r)
          /\ HandleRead(c, [r EXCEPT !.pend = Writable(r)])
       \/ /\ r.peer # "rst" /\ ~HangUp(r) /\ ~Readable(r) /\ Writable(r)
          /\ Becomes(c, HandleWrite(r)) /\ UNCHANGED todo
    /\ UNCHANGED <<user, chunks, ops, acceptor>>

WriteHalf(c) ==
    /\ cn[c].pend
    /\ Becomes(c, HandleWrite([cn[c] EXCEPT !.pend = FALSE, !.excuse = @ \/ cn[c].st = "DISCONNECTED"]))
    /\ UNCHANGED <<todo, user, chunks, ops, acceptor>>

DoPendingJobs(c) ==
    /\ cn[c].tasks # <<>> /\ ~cn[c].pend
    /\ Becomes(c, RunTask([cn[c] EXCEPT !.tasks = Tail(@)], Head(cn[c].tasks)))
    /\ UNCHANGED <<todo, user, chunks, ops, acceptor>>

-----------------------------------------------------------------------------
(* A thread of the user: it reads the state of a connection it was told of,  *)
(* and acts on what it read in a second step.                                *)

Intends(u, c, op, m) == user' = [user EXCEPT ![u] = [conn |-> c, op |-> op, msg |-> m]]

UserSend(u, c) ==
    /\ NextMessage(c)
    /\ IF cn[c].st = "CONNECTED" THEN Intends(u, c, "send", Head(todo[c])) ELSE UNCHANGED user
    /\ UNCHANGED <<cn, ops>>

\* SendAwaiter::await_ready: a send at once, or a task that looks again.
UserSendAsync(u, c) ==
    /\ NextMessage(c)
    /\ LET st == cn[c].st IN
       \/ st # "DISCONNECTED" /\ Full(cn[c]) /\ Intends(u, c, "sendAsync", Head(todo[c]))
       \/ st = "CONNECTED" /\ ~Full(cn[c]) /\ Intends(u, c, "send", Head(todo[c]))
       \/ (st = "DISCONNECTED" \/ (st = "DISCONNECTING" /\ ~Full(cn[c]))) /\ UNCHANGED user
    /\ UNCHANGED <<cn, ops>>

UserShutdown(u, c) ==
    /\ ops < MaxOps /\ ops' = ops + 1 /\ cn[c].st = "CONNECTED"
    /\ Becomes(c, [cn[c] EXCEPT !.st = "DISCONNECTING"])
    /\ Intends(u, c, "shutdown", None) /\ UNCHANGED todo

UserForceClose(u, c) ==
    /\ ops < MaxOps /\ ops' = ops + 1 /\ Live(cn[c])
    /\ Intends(u, c, "forceClose", None) /\ UNCHANGED <<cn, todo>>

UserLooks(u) ==
    /\ user[u] = Idle
    /\ \E c \in Alive : cn[c].ups > 0 /\ \/ UserSend(u, c) \/ UserSendAsync(u, c)
                                         \/ UserShutdown(u, c) \/ UserForceClose(u, c)
    /\ UNCHANGED <<chunks, acceptor>>

UserActs(u) ==
    /\ user[u] # Idle
    /\ LET c == user[u].conn
           r == IF user[u].op # "forceClose" THEN cn[c]
                ELSE [cn[c] EXCEPT !.st = "DISCONNECTING", !.excuse = @ \/ cn[c].st = "DISCONNECTED"]
       IN  Becomes(c, Queue(r, <<user[u].op, user[u].msg>>))
    /\ user' = [user EXCEPT ![u] = Idle]
    /\ UNCHANGED <<todo, chunks, ops, acceptor>>

-----------------------------------------------------------------------------
(* Clients and the network (external).                                       *)

ClientConnects(c) ==
    /\ ~destroyed /\ cn[c] = Absent /\ c \notin backlog /\ backlog' = backlog \cup {c}
    /\ UNCHANGED <<cn, todo, user, chunks, ops, accepting, idleFd, table, destroyed>>

PeerSends(c) ==
    /\ chunks < MaxChunks /\ chunks' = chunks + 1 /\ cn[c].peer = "open" /\ cn[c].ups = 1
    /\ Becomes(c, [cn[c] EXCEPT !.data = @ + 1])
PeerReads(c) ==
    /\ cn[c].peer # "rst" /\ cn[c].room < SendBuffer
    /\ Becomes(c, [cn[c] EXCEPT !.room = SendBuffer]) /\ UNCHANGED chunks

\* A reset drops what the kernel has buffered.
PeerEnds(c)  == \E how \in {"fin", "rst"} :
    /\ cn[c].peer # "rst" /\ cn[c].peer # how /\ cn[c].dead = 0
    /\ Becomes(c, [cn[c] EXCEPT !.peer = how, !.data = IF how = "rst" THEN 0 ELSE @,
                                !.room = IF how = "rst" THEN SendBuffer ELSE @])
    /\ UNCHANGED chunks
Peer(c) == c \in Alive /\ (PeerSends(c) \/ PeerReads(c) \/ PeerEnds(c))
                         /\ UNCHANGED <<todo, user, ops, acceptor>>

-----------------------------------------------------------------------------

Base == AcceptAgain \/ Destroy \/ \E c \in Conns : NewConnection(c) \/ Emfile(c) \/ RemoveConnectionInLoop(c)
Loop(c) == HandleEvent(c) \/ WriteHalf(c) \/ DoPendingJobs(c)

Next ==
    \/ Base
    \/ \E c \in Alive : Loop(c) \/ Peer(c)
    \/ \E c \in Conns : ClientConnects(c)
    \/ \E u \in Users : UserLooks(u) \/ UserActs(u)

\* Loops serve events and tasks in turn, threads of the user go on, the peer reads
\* what it is sent unless it resets the connection, and a client that stays in the
\* accept queue meets a free descriptor at some time.
Spec ==
    /\ Init /\ [][Next]_vars
    /\ WF_vars(AcceptAgain)
    /\ \A c \in Conns :
         /\ SF_vars(NewConnection(c)) /\ WF_vars(RemoveConnectionInLoop(c))
         /\ WF_vars(c \in Alive /\ WriteHalf(c))
         /\ WF_vars(c \in Alive /\ HandleEvent(c)) /\ WF_vars(c \in Alive /\ DoPendingJobs(c))
         /\ WF_vars(c \in Alive /\ PeerReads(c) /\ UNCHANGED <<todo, user, ops, acceptor>>)
    /\ \A u \in Users : WF_vars(UserActs(u))

-----------------------------------------------------------------------------
(* Properties.                                                               *)

\* The life of a connection (TcpConnection.cpp:92, :320, TcpServer.h:195): the
\* user is told once that it is up and once that it is down, it is destroyed
\* once, and then it is in no table and not registered with epoll.  Excused are
\* the two places that write to a connection after its close: a forceClose()
\* overtaken between its load and its store (:321), and the EPOLLOUT half of the
\* event whose read half met the end of the stream (Channel.h:174).
ClosedOnce ==
    \A c \in Alive : ~cn[c].excuse =>
       /\ cn[c].ups <= 1 /\ cn[c].downs <= cn[c].ups /\ cn[c].dead <= 1
       /\ cn[c].dead = 1 => cn[c].downs = 1 /\ cn[c].index = "new" /\ c \notin table
       /\ (cn[c].index = "added") = (cn[c].st \in {"CONNECTED", "DISCONNECTING"} /\ cn[c].ups = 1)

\* The stream (sendInLoop, handleWrite, WriteQueue): what the kernel got and what
\* is queued are the accepted messages, whole and in the order they were accepted,
\* and nothing is queued without the loop waiting for the socket to take it.
StreamIntact ==
    \A c \in Alive : LET r == cn[c] IN
       /\ r.wire \o r.outq = FlattenSeq([i \in 1 .. Len(r.taken) |-> Units(r.taken[i])])
       /\ r.st \in {"CONNECTED", "DISCONNECTING"} /\ ~r.excuse =>
            /\ r.outq # <<>> => W \in r.events
            /\ r.shut => r.outq = <<>>

\* checkCoroutineResume has stopped at kMaxResumePerLoop (TcpConnection.cpp:289) and
\* what it resumed left nothing behind in the queue: the loop does not wait for
\* EPOLLOUT, so that no handleWrite will come for the writers that are still blocked.
LeftBehind(r) == r.cut /\ r.outq = <<>> /\ W \notin r.events /\ r.peer = "open"

\* A coroutine suspended by back pressure goes on: when the queue drains or when
\* the connection closes.  Left behind by the code are those beyond the limit of one
\* round whose predecessors wrote directly or not at all, for as long as nobody
\* else's message has to be queued and the peer stays; and those of a connection
\* that ends by the destructor of the server or one of the two late writes above:
\* it is destroyed, its waiters are not woken.
WritersResume ==
    \A c \in Conns : cn[c].blocked # <<>> ~>
        (cn[c].blocked = <<>> \/ LeftBehind(cn[c]) \/ destroyed \/ cn[c].excuse)

\* A connection whose peer is gone is destroyed, and a client in the accept queue
\* is accepted or turned away, also when descriptors run out.
GoneAreDestroyed ==
    \A c \in Conns :
       LET waits == \/ c \in Alive /\ cn[c].peer # "open" /\ cn[c].dead = 0
                    \/ c \in backlog /\ ~destroyed
       IN  waits ~> ~waits

=============================================================================
