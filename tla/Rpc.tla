-------------------------------- MODULE Rpc --------------------------------
(* The request/response core of KzRpc: RpcChannel (slot map of pending       *)
(* calls over a pool of TCP connections), RpcServer (routing on the I/O      *)
(* thread, handlers on the worker pool) and the header that ties an answer   *)
(* to its call.  A critical section of RpcChannel::_mutex is one step;       *)
(* resuming the coroutines it collected is done outside the lock, one step   *)
(* for each.  Connections are FIFO channels of messages that may break.      *)
EXTENDS Naturals, Sequences, SequencesExt, FiniteSets, FiniteSetsExt

CONSTANTS
    Callers,     \* coroutines that co_await RpcChannel::callMethod
    Conns,       \* the connections of the pool, _clients[i].connection()
    Kinds,       \* what a request meets at the server
    ExpandSize,  \* kSlotExpandSize, 1024 in the code
    MaxCalls     \* bound: calls made by all callers together

None == "none"
Main == "main"                        \* the thread that destroys the channel

ASSUME RpcAssumption ==
    /\ ExpandSize \in Nat \ {0} /\ MaxCalls \in Nat
    /\ Kinds \subseteq {"good", "no_service", "bad_data", "fails"}
    /\ IsFiniteSet(Callers) /\ IsFiniteSet(Conns)
    \* what stands for no caller, no connection and the destructor's thread
    /\ None \notin Callers \cup Conns /\ Main \notin Conns

Closed == "ERR_NETWORK_CLOSED"

\* The status RpcServer answers to a request of each kind.
Status == [kind \in Kinds |->
             CASE kind = "good"       -> "OK"
               [] kind = "no_service" -> "ERR_SERVICE_NOT_FOUND"
               [] kind = "bad_data"   -> "ERR_DESERIALIZE"
               [] kind = "fails"      -> "ERR_BUSINESS"]

VARIABLES
    slots,      \* sequence of Slot; index i stands for slot i - 1
    free,       \* _free_head, 0 for -1
    link,       \* per connection: connecting, up, broken (unnoticed), handled
    pc,         \* per caller: idle, picked, allocated, suspended
    call,       \* per caller: the call it is making (conn, id, kind) and its number
    c2s, s2c,   \* per connection: messages in flight each way
    jobs,       \* requests handed to the worker pool
    out,        \* per thread: calls it took from the map and still has to resume
    closing,    \* the destructor has failed the pending calls
    got,        \* history: per caller, how its last call was resumed
    exhausted,  \* history: some allocation emptied the free list
    wild        \* history: a call that was not pending was taken for one

vars == <<slots, free, link, pc, call, c2s, s2c, jobs, out, closing, got,
          exhausted, wild>>
net  == <<link, c2s, s2c, jobs>>
hist == <<exhausted, wild>>

NoCall == [conn |-> None, id |-> [slot |-> 0, version |-> 0], kind |-> "good", n |-> 0]

Init ==
    /\ slots = <<>> /\ free = 0
    /\ link = [k \in Conns |-> "connecting"]
    /\ pc = [c \in Callers |-> "idle"]
    /\ call = [c \in Callers |-> NoCall]
    /\ c2s = [k \in Conns |-> <<>>] /\ s2c = [k \in Conns |-> <<>>]
    /\ jobs = {}
    /\ out = [t \in Conns \cup {Main} |-> <<>>]
    /\ closing = FALSE
    /\ got = [c \in Callers |-> [n |-> 0, from |-> NoCall.id, status |-> Closed]]
    /\ exhausted = FALSE /\ wild = FALSE

-----------------------------------------------------------------------------
(* The slot map.  A free slot is linked by next; next = 0 marks a slot as    *)
(* occupied, and is also the next of the last free slot.  "live" is history: *)
(* the slot really holds a pending call.                                     *)

EmptySlot(next) == [caller |-> None, conn |-> None, version |-> 1, next |-> next, live |-> FALSE]

\* resize() by kSlotExpandSize and the chain of the new slots.
Grown == slots \o [i \in 1 .. ExpandSize |->
                     EmptySlot(IF i < ExpandSize THEN Len(slots) + i + 1 ELSE 0)]

\* A slot given back to the free list in front of `next'.
GivenBack(s, next) == [caller |-> s.caller, conn |-> s.conn, version |-> s.version + 1,
                       next |-> next, live |-> FALSE]

\* Mutant: the slot is not linked back.
Released_Leaks(i) == [slots EXCEPT ![i].version = @ + 1, ![i].live = FALSE]

\* The slots after slot i was put at the head of the free list.
Released(i) == [slots EXCEPT ![i] = GivenBack(@, free)]

Occupied(s) == s.next = 0

\* Whether findAndRemoveSlot finds the call of this request id.
Finds(id) ==
    /\ id.slot \in 1 .. Len(slots)
    /\ Occupied(slots[id.slot]) /\ slots[id.slot].version = id.version

\* Mutants: free slots are taken too; the last slot is skipped; every connection's.
Taken_FreeOnes(t) == {i \in 1 .. Len(slots) : t \in {Main, slots[i].conn}}
Taken_NotTheLast(t) == {i \in 1 .. Len(slots) - 1 : Occupied(slots[i]) /\ t \in {Main, slots[i].conn}}
Taken_AnyConnection(t) == {i \in 1 .. Len(slots) : Occupied(slots[i]) /\ slots[i].caller # None}

\* The occupied slots taken by the thread of a lost connection (only the calls made
\* on it) or by the destructor (all), and the map after they were given back in
\* index order.
Taken(t) == {i \in 1 .. Len(slots) : Occupied(slots[i]) /\ t \in {Main, slots[i].conn}}
AllReleased(taken) ==
    [i \in 1 .. Len(slots) |->
       IF i \notin taken THEN slots[i]
       ELSE LET before == {j \in taken : j < i}
            IN  GivenBack(slots[i], IF before = {} THEN free ELSE Max(before))]

\* The members of a finite set of numbers from the least to the greatest.
Ascending(S) == CHOOSE q \in [1 .. Cardinality(S) -> S] :
                    \A a, b \in 1 .. Cardinality(S) : a < b => q[a] < q[b]

-----------------------------------------------------------------------------
(* RpcCallAwaiter::await_suspend, on the thread of the caller.               *)

Connected(k) == link[k] \in {"up", "broken"}

\* pickConnection: the scan starts at a per-thread counter, so any connection
\* that looks connected may be the one; none at all fails the call at once.
Pick(c) ==
    /\ pc[c] = "idle" /\ MapThenSumSet(LAMBDA d : call[d].n, Callers) < MaxCalls /\ ~closing
    /\ \/ \E k \in Conns, kind \in Kinds :
            /\ Connected(k)
            /\ call' = [call EXCEPT ![c] = [conn |-> k, id |-> NoCall.id, kind |-> kind, n |-> call[c].n + 1]]
            /\ pc' = [pc EXCEPT ![c] = "picked"]
            /\ UNCHANGED got
       \/ /\ \A k \in Conns : ~Connected(k)
          /\ call' = [call EXCEPT ![c].n = @ + 1]
          /\ got' = [got EXCEPT ![c] = [n |-> call[c].n + 1, from |-> NoCall.id, status |-> Closed]]
          /\ UNCHANGED pc
    /\ UNCHANGED <<slots, free, net, out, closing, hist>>

AllocateSlot(c) ==
    /\ pc[c] = "picked"
    /\ LET map   == IF free = 0 THEN Grown ELSE slots
           i     == IF free = 0 THEN Len(slots) + 1 ELSE free
       IN  /\ slots' = [map EXCEPT ![i] = [caller |-> c, conn |-> call[c].conn, next |-> 0,
                                             version |-> @.version, live |-> TRUE]]
           /\ free' = map[i].next
           /\ exhausted' = (exhausted \/ map[i].next = 0)
           /\ call' = [call EXCEPT ![c].id = [slot |-> i, version |-> map[i].version]]
    /\ pc' = [pc EXCEPT ![c] = "allocated"]
    /\ UNCHANGED <<net, out, closing, got, wild>>

\* Serialise, EncodeHeader and sendAsync; a connection that is down drops it.
Send(c) ==
    /\ pc[c] = "allocated"
    /\ c2s' = IF link[call[c].conn] = "up"
              THEN [c2s EXCEPT ![call[c].conn] = Append(@, [id |-> call[c].id, kind |-> call[c].kind])]
              ELSE c2s
    /\ pc' = [pc EXCEPT ![c] = IF got[c].n = call[c].n THEN "idle" ELSE "suspended"]
    /\ UNCHANGED <<slots, free, link, call, s2c, jobs, out, closing, got, hist>>

-----------------------------------------------------------------------------
(* The client's I/O threads (one for each connection) and the destructor.    *)

\* setErrorFunc or the deserializer, then handle.resume(): outside the lock.
Resume(t) ==
    /\ out[t] # <<>>
    /\ LET r == Head(out[t])
       IN  /\ got' = [got EXCEPT ![r.caller] = [n |-> call[r.caller].n, from |-> r.id, status |-> r.status]]
           /\ pc' = [pc EXCEPT ![r.caller] = IF @ = "suspended" THEN "idle" ELSE @]
    /\ out' = [out EXCEPT ![t] = Tail(@)]
    /\ UNCHANGED <<slots, free, net, call, closing, hist>>

\* RpcChannel::onMessage for one complete response.
ClientMessage(k) ==
    /\ s2c[k] # <<>> /\ Connected(k) /\ out[k] = <<>>
    /\ LET m == Head(s2c[k])  i == m.id.slot
       IN  IF Finds(m.id)
           THEN /\ out' = [out EXCEPT ![k] = <<[caller |-> slots[i].caller, id |-> m.id, status |-> m.status]>>]
                /\ slots' = Released(i) /\ free' = i
           ELSE UNCHANGED <<out, slots, free>>
    /\ s2c' = [s2c EXCEPT ![k] = Tail(@)]
    /\ UNCHANGED <<link, pc, call, c2s, jobs, closing, got, hist>>

\* The common loop of failPendingOnConnection and forceFailAllPending.
Fail(t, taken) ==
    /\ slots' = AllReleased(taken)
    /\ free' = IF taken = {} THEN free ELSE Max(taken)
    /\ LET calls == Ascending({i \in taken : slots[i].caller # None})
       IN  out' = [out EXCEPT ![t] = @ \o [j \in DOMAIN calls |->
                     [caller |-> slots[calls[j]].caller, status |-> Closed,
                      id |-> [slot |-> calls[j], version |-> slots[calls[j]].version]]]]
    /\ wild' = \E i \in taken : slots[i].caller # None /\ ~slots[i].live
    /\ UNCHANGED exhausted

\* handleClose -> onConnection with a connection that is no longer connected.
ConnectionDown(k) ==
    /\ link[k] = "broken" /\ out[k] = <<>>
    /\ link' = [link EXCEPT ![k] = "handled"] /\ s2c' = [s2c EXCEPT ![k] = <<>>]
    /\ Fail(k, Taken(k))
    /\ UNCHANGED <<pc, call, c2s, jobs, closing, got>>

\* ~RpcChannel, once nobody is inside await_suspend: forceFailAllPending.
Destroy ==
    /\ ~closing /\ \A c \in Callers : pc[c] \in {"idle", "suspended"}
    /\ closing' = TRUE
    /\ Fail(Main, Taken(Main))
    /\ UNCHANGED <<net, pc, call, got>>

-----------------------------------------------------------------------------
(* RpcServer.                                                                *)

Answer(k, m) == IF link[k] = "up"
                THEN s2c' = [s2c EXCEPT ![k] = Append(@, [id |-> m.id, status |-> Status[m.kind]])]
                ELSE UNCHANGED s2c

\* onMessage on the server's I/O thread: an unknown service is answered here,
\* anything else is dispatched to the worker pool.
ServerMessage(k) ==
    /\ c2s[k] # <<>>
    /\ c2s' = [c2s EXCEPT ![k] = Tail(@)]
    /\ LET m == Head(c2s[k])
       IN  IF m.kind = "no_service" THEN Answer(k, m) /\ UNCHANGED jobs
           ELSE jobs' = jobs \cup {[conn |-> k, req |-> m]} /\ UNCHANGED s2c
    /\ UNCHANGED <<slots, free, link, pc, call, out, closing, got, hist>>

\* A worker runs MethodWrapper; jobs finish in any order.
Work(j) ==
    /\ jobs' = jobs \ {j}
    /\ Answer(j.conn, j.req)
    /\ UNCHANGED <<slots, free, link, pc, call, c2s, out, closing, got, hist>>

Connect(k) ==
    /\ link[k] = "connecting" /\ ~closing
    /\ link' = [link EXCEPT ![k] = "up"]
    /\ UNCHANGED <<slots, free, pc, call, c2s, s2c, jobs, out, closing, got, hist>>

\* The peer, the network or an invalid header ends the connection: requests
\* on the way are lost, answers already received can still be read.
Break(k) ==
    /\ link[k] = "up"
    /\ link' = [link EXCEPT ![k] = "broken"] /\ c2s' = [c2s EXCEPT ![k] = <<>>]
    /\ UNCHANGED <<slots, free, pc, call, s2c, jobs, out, closing, got, hist>>

-----------------------------------------------------------------------------

Await(c)  == Pick(c) \/ AllocateSlot(c) \/ Send(c)
Io(k)     == ClientMessage(k) \/ ConnectionDown(k)
Server(k) == ServerMessage(k) \/ \E j \in jobs : j.conn = k /\ Work(j)

\* A wild resume is undefined behaviour: nothing is described after it.
Next ==
    /\ ~wild
    /\ \/ \E c \in Callers : Await(c)
       \/ \E k \in Conns : Io(k) \/ Server(k) \/ Connect(k) \/ Break(k)
       \/ \E t \in Conns \cup {Main} : Resume(t)
       \/ Destroy

\* Threads of the two pools keep running; nothing has to connect or break, and
\* the channel need not be destroyed.
Spec ==
    /\ Init /\ [][Next]_vars
    /\ \A c \in Callers : WF_vars(~wild /\ (AllocateSlot(c) \/ Send(c)))
    /\ \A k \in Conns : WF_vars(~wild /\ Io(k)) /\ WF_vars(~wild /\ Server(k))
    /\ \A t \in Conns \cup {Main} : WF_vars(~wild /\ Resume(t))

-----------------------------------------------------------------------------
(* Properties.                                                               *)

\* The free list followed from the head, at most as many steps as there are slots.
FreeFrom[k \in Nat] == IF k = 0 THEN <<free>>
                       ELSE LET p == FreeFrom[k - 1]
                            IN  IF Last(p) = 0 THEN p ELSE Append(p, slots[Last(p)].next)
FreeList == ToSet(FreeFrom[Len(slots)]) \ {0}


Resumed(c) == got[c].n = call[c].n
Pending(c, id) == pc[c] \in {"allocated", "suspended"} /\ call[c].id = id /\ ~Resumed(c)
ToResume == UNION {ToSet(out[t]) : t \in Conns \cup {Main}}

\* A call is pending in one slot or on its way to be resumed by one thread, never both
\* (RpcChannel.h:230, 428).
PendingOnce ==
    ~wild =>
      /\ \A i \in 1 .. Len(slots) : slots[i].live =>
           /\ Pending(slots[i].caller, [slot |-> i, version |-> slots[i].version])
           /\ \A r \in ToResume : r.caller # slots[i].caller
      /\ \A r \in ToResume : Pending(r.caller, r.id)
      /\ \A t, u \in Conns \cup {Main} : \A a \in DOMAIN out[t], b \in DOMAIN out[u] :
           out[t][a].caller = out[u][b].caller => t = u /\ a = b

\* Types, and the slot map (RpcChannel.h:162, 206): as long as no stale call was
\* taken and the channel lives, the free list is a path over exactly the slots
\* without a call; a call is pending in one slot or on its way to be resumed by
\* one thread, never both, so no slot is handed out twice and none is leaked.
SlotMap ==
    /\ pc \in [Callers -> {"idle", "picked", "allocated", "suspended"}]
    /\ link \in [Conns -> {"connecting", "up", "broken", "handled"}]
    /\ free \in 0 .. Len(slots)
    /\ ~wild /\ ~closing =>
         /\ FreeList = {i \in 1 .. Len(slots) : ~slots[i].live}
         /\ Last(FreeFrom[Len(slots)]) = 0
    /\ PendingOnce

\* A request id is only believed while its call is pending: taking a call that
\* was already resumed needs a moment at which every slot was in use, because
\* the last free slot then carries the mark of an occupied one (:163, :458).
StaleOnlyAfterExhaustion == wild => exhausted

\* Each call is resumed once, with the answer to its own request or with the
\* error of a lost connection (onMessage, failPendingOnConnection).
OwnAnswerOnce ==
    [][~wild => \A c \in Callers : got'[c] # got[c] =>
         /\ got[c].n # call'[c].n /\ got'[c].n = call'[c].n
         /\ got'[c].from \in {call'[c].id, NoCall.id}
         /\ \/ got'[c].status = Status[call'[c].kind]
            \/ got'[c].status = Closed /\ (closing \/ (\A k \in Conns : ~Connected(k))
                                            \/ link[call[c].conn] = "handled")]_vars

\* A call registered before its connection was found down is resumed in the
\* end: answered, failed with the connection, or failed by the destructor.
\* (One registered later waits for ever: nothing times out, :297.)
Resolved ==
    \A c \in Callers :
       (pc[c] \in {"allocated", "suspended"} /\ link[call[c].conn] # "handled")
          ~> (pc[c] = "idle" \/ wild)

=============================================================================
