----------------------------- MODULE TcpClient -----------------------------
(* TcpClient and its Connector: one attempt or one connection at a time,     *)
(* retries by timer, reconnecting after a loss, and the calls of a user's    *)
(* thread.  Everything but those calls runs on the client's loop.            *)
EXTENDS Naturals, Sequences

CONSTANTS
    Retry,        \* enableRetry() was called
    MaxConnects,  \* bound: calls of connect()
    MaxStops,     \* bound: calls of stop() and disconnect()
    MaxTimers     \* bound: retry timers pending at a time

VARIABLES
    cconnect,     \* TcpClient::_connect
    held,         \* TcpClient::_connection is set
    alive,        \* the client has not been destroyed
    wanted,       \* Connector::_connect
    state,        \* Connector::_state
    sock,         \* the Connector's socket: none, pending, established, failed
    timers,       \* retry timers pending
    conn,         \* the TcpConnection: none, up, closing (DISCONNECTING), down
    closeCb,      \* its close callback: client, or self once the client is gone
    queue,        \* tasks of this client in the loop's queue
    loop,         \* what the loop is in: idle, or removeConnection about to restart
    connects, stops,
    fds,          \* history: sockets opened and not closed
    stopped,      \* history: stop() was called and connect() not since
    overtaken,    \* history: stop() came between the test and the restart
    fatal,        \* history: an attempt ended with an error that is not retried
    asserted      \* history: startInLoop ran with a state other than DISCONNECTED

client    == <<cconnect, held, alive>>
connector == <<wanted, state, sock, timers>>
link      == <<conn, closeCb>>
bounds    == <<connects, stops>>
hist      == <<stopped, overtaken>>
vars == <<client, connector, link, queue, loop, bounds, fds, hist, fatal, asserted>>

Init ==
    /\ cconnect = TRUE /\ held = FALSE /\ alive = TRUE
    /\ wanted = FALSE /\ state = "DISCONNECTED" /\ sock = "none" /\ timers = 0
    /\ conn = "none" /\ closeCb = "client"
    /\ queue = <<>> /\ loop = "idle" /\ connects = 0 /\ stops = 0
    /\ fds = 0 /\ stopped = FALSE /\ overtaken = FALSE /\ fatal = FALSE /\ asserted = FALSE

-----------------------------------------------------------------------------
(* The user's thread.                                                        *)

\* The connection callback hands the user the connection, so calls may come at
\* any time until the client is destroyed.
Connect ==
    /\ alive /\ connects < MaxConnects /\ connects' = connects + 1
    /\ cconnect' = TRUE /\ wanted' = TRUE /\ stopped' = FALSE
    /\ queue' = Append(queue, "start")
    /\ UNCHANGED <<held, alive, state, sock, timers, link, loop, stops, fds, overtaken, fatal, asserted>>

\* Mutant: the Connector is not told before its task runs.
Stop_ClientOnly ==
    /\ alive /\ stops < MaxStops /\ stops' = stops + 1
    /\ cconnect' = FALSE /\ stopped' = TRUE
    /\ overtaken' = (loop = "restart")
    /\ queue' = Append(queue, "stop")
    /\ UNCHANGED <<held, alive, connector, link, loop, connects, fds, fatal, asserted>>

Stop ==
    /\ alive /\ stops < MaxStops /\ stops' = stops + 1
    /\ cconnect' = FALSE /\ wanted' = FALSE /\ stopped' = TRUE
    /\ overtaken' = (loop = "restart")
    /\ queue' = Append(queue, "stop")
    /\ UNCHANGED <<held, alive, state, sock, timers, link, loop, connects, fds, fatal, asserted>>

\* Only a connection that is up is shut down; an attempt goes on.
Disconnect ==
    /\ alive /\ stops < MaxStops /\ stops' = stops + 1
    /\ cconnect' = FALSE
    /\ IF held /\ conn = "up" THEN conn' = "closing" /\ queue' = Append(queue, "shutdown")
       ELSE UNCHANGED <<conn, queue>>
    /\ UNCHANGED <<held, alive, connector, closeCb, loop, connects, fds, hist, fatal, asserted>>

-----------------------------------------------------------------------------
(* Connector, on the loop thread.                                            *)

\* Mutant: retry() sets no timer.
TryConnect_Once(left) ==
    /\ timers' = left
    /\ \/ state' = "CONNECTING" /\ sock' = "pending" /\ fds' = fds + 1 /\ UNCHANGED fatal
       \/ state' = "DISCONNECTED" /\ UNCHANGED <<sock, fds, fatal>>

\* connect(): the call starts an attempt, fails in a way that is retried, or for
\* good; "left" is the number of timers that stay pending.
TryConnect(left) ==
    \/ /\ state' = "CONNECTING" /\ sock' = "pending" /\ fds' = fds + 1
       /\ timers' = left /\ UNCHANGED fatal
    \/ /\ left < MaxTimers /\ timers' = left + 1
       /\ state' = "DISCONNECTED" /\ UNCHANGED <<sock, fds, fatal>>
    \/ fatal' = TRUE /\ timers' = left /\ state' = "DISCONNECTED" /\ UNCHANGED <<sock, fds>>

\* The assertion ends the program.
StartInLoop(left) ==
    IF state # "DISCONNECTED"
    THEN asserted' = TRUE /\ UNCHANGED <<state, sock, timers, fds, fatal>>
    ELSE /\ UNCHANGED asserted
         /\ IF wanted THEN TryConnect(left)
            ELSE timers' = left /\ UNCHANGED <<state, sock, fds, fatal>>

\* Mutant: the socket of the attempt is not closed.
StopInLoop_Leaks ==
    IF state = "CONNECTING" THEN state' = "DISCONNECTED" /\ sock' = "none" /\ UNCHANGED fds
    ELSE UNCHANGED <<state, sock, fds>>

StopInLoop ==
    IF state = "CONNECTING" THEN state' = "DISCONNECTED" /\ sock' = "none" /\ fds' = fds - 1
    ELSE UNCHANGED <<state, sock, fds>>

\* The timer of retry().
RetryTimer ==
    /\ alive /\ loop = "idle" /\ timers > 0 /\ StartInLoop(timers - 1)
    /\ UNCHANGED <<client, wanted, link, queue, loop, bounds, hist>>

\* handleWrite of an attempt that succeeded, with TcpClient::newConnection.  The
\* previous connection's destruction is queued, and so runs, before the attempt
\* that replaces it is polled.
Connected ==
    /\ alive /\ loop = "idle" /\ sock = "established" /\ conn = "none"
    /\ sock' = "none" /\ state' = "CONNECTED"
    /\ IF wanted THEN held' = TRUE /\ conn' = "up" /\ closeCb' = "client" /\ UNCHANGED fds
       ELSE fds' = fds - 1 /\ UNCHANGED <<held, link>>
    /\ UNCHANGED <<cconnect, alive, wanted, timers, queue, loop, bounds, hist, fatal, asserted>>

\* handleWrite of a connection to itself, and retry.
ConnectedToSelf ==
    /\ alive /\ loop = "idle" /\ sock = "established"
    /\ sock' = "none" /\ state' = "DISCONNECTED" /\ fds' = fds - 1
    /\ IF wanted THEN timers < MaxTimers /\ timers' = timers + 1 ELSE UNCHANGED timers
    /\ UNCHANGED <<client, wanted, link, queue, loop, bounds, hist, fatal, asserted>>

\* The kernel finishes the attempt.  A failed one reports HUP and ERR without IN:
\* Channel::handleEvent looks for a close callback, the Connector has set none,
\* and nothing else is called (Channel.h:153).
AttemptEnds(how) ==
    /\ sock = "pending" /\ sock' = how
    /\ UNCHANGED <<client, wanted, state, timers, link, queue, loop, bounds, fds, hist, fatal, asserted>>

-----------------------------------------------------------------------------
(* The connection (its own life is in TcpConnection) and removeConnection.   *)

\* handleClose and the close callback.  The client forgets the connection, queues
\* its destruction and tests whether to reconnect; it restarts in a second step.
ConnectionCloses ==
    /\ loop = "idle" /\ conn \in {"up", "closing"} /\ conn' = "down"
    /\ queue' = Append(queue, "destroy")
    /\ IF closeCb = "client"
       THEN /\ held' = FALSE
            /\ loop' = IF Retry /\ cconnect THEN "restart" ELSE "idle"
       ELSE UNCHANGED <<held, loop>>
    /\ UNCHANGED <<cconnect, alive, connector, closeCb, bounds, fds, hist, fatal, asserted>>

\* Connector::restart.
Restart ==
    /\ loop = "restart" /\ loop' = "idle" /\ wanted' = TRUE
    /\ TryConnect(timers)
    /\ UNCHANGED <<client, link, queue, bounds, hist, asserted>>

\* ~TcpClient on the loop's thread: the connection no longer calls the client and
\* is closed, or the Connector stops at once; its timers find it gone.
Destroy ==
    /\ alive /\ loop = "idle" /\ alive' = FALSE /\ held' = FALSE /\ timers' = 0
    /\ IF held
       THEN /\ closeCb' = "self" /\ conn' = "closing" /\ queue' = Append(queue, "forceClose")
            /\ UNCHANGED <<wanted, state, sock, fds>>
       ELSE wanted' = FALSE /\ StopInLoop /\ UNCHANGED <<link, queue>>
    /\ UNCHANGED <<cconnect, loop, bounds, hist, fatal, asserted>>

Task ==
    /\ loop = "idle" /\ queue # <<>>
    /\ \/ /\ Head(queue) = "start" /\ queue' = Tail(queue)
          /\ StartInLoop(timers) /\ UNCHANGED conn
       \/ /\ Head(queue) = "stop" /\ queue' = Tail(queue)
          /\ StopInLoop /\ UNCHANGED <<timers, conn, fatal, asserted>>
       \/ /\ Head(queue) = "destroy" /\ queue' = Tail(queue)
          /\ conn' = "none" /\ fds' = fds - 1 /\ UNCHANGED <<state, sock, timers, fatal, asserted>>
       \/ /\ Head(queue) = "forceClose" /\ conn = "closing"
          /\ conn' = "down" /\ queue' = Append(Tail(queue), "destroy")
          /\ UNCHANGED <<state, sock, timers, fds, fatal, asserted>>
       \/ /\ Head(queue) = "shutdown" \/ (Head(queue) = "forceClose" /\ conn # "closing")
          /\ queue' = Tail(queue) /\ UNCHANGED <<conn, state, sock, timers, fds, fatal, asserted>>
    /\ UNCHANGED <<client, wanted, closeCb, loop, bounds, hist>>

-----------------------------------------------------------------------------
UserCalls == Connect \/ Stop \/ Disconnect
OnLoop == RetryTimer \/ Connected \/ ConnectedToSelf \/ ConnectionCloses \/ Restart \/ Destroy \/ Task
Kernel == \E how \in {"established", "failed"} : AttemptEnds(how)

\* An assertion that fails ends the program.
Next == ~asserted /\ (UserCalls \/ OnLoop \/ Kernel)

\* The loop runs its tasks and timers; a server that answers again and again is
\* met in the end.
Spec ==
    /\ Init /\ [][Next]_vars
    /\ WF_vars(~asserted /\ Task) /\ WF_vars(~asserted /\ Restart) /\ WF_vars(~asserted /\ RetryTimer)
    /\ SF_vars(~asserted /\ AttemptEnds("established")) /\ SF_vars(~asserted /\ Connected)

-----------------------------------------------------------------------------
Bit(b) == IF b THEN 1 ELSE 0

\* The Connector's state, its socket and the client's connection agree.
SocketsAgree ==
    /\ asserted => connects > 1
    /\ fds = Bit(sock # "none") + Bit(conn # "none")
    /\ (sock # "none") <=> (state = "CONNECTING")
    /\ held => conn \in {"up", "closing"} /\ state = "CONNECTED"

\* One connect() is one task, one timer, or one attempt or connection.
TimerAlone ==
    connects <= 1 /\ timers > 0 =>
       /\ timers = 1 /\ sock = "none" /\ ~held /\ state = "DISCONNECTED"
       /\ \A i \in DOMAIN queue : queue[i] # "start"

\* One attempt or one connection at a time, and no socket lost or closed twice
\* (removeAndResetChannel, cleanup and ~TcpConnection).  For a user that called
\* connect() once a pending retry timer is the only one and meets no attempt, no
\* connection and no start() on its way, so that startInLoop's assertion
\* (Connector.h:91) holds; after a second connect() all of these may be met and
\* the assertion may fail.
OneAttempt == SocketsAgree /\ TimerAlone

\* After stop() has been carried out the client makes no attempt and will make none,
\* unless the call came between removeConnection's test of _connect and the restart,
\* which sets Connector::_connect again (TcpClient.cpp:63-64, Connector.h:69).
StopHolds ==
    (stopped /\ ~overtaken /\ \A i \in DOMAIN queue : queue[i] # "stop")
        => sock = "none" /\ ~wanted

\* A client with enableRetry() that loses its connection is connected again, unless
\* it is told not to, destroyed, meets an error that is not retried or an attempt
\* fails after connect() returned, which nothing notices (Channel.h:153).
Reconnects ==
    loop = "restart"
        ~> conn = "up" \/ ~wanted \/ ~alive \/ fatal \/ asserted \/ sock = "failed"
=============================================================================
