--------------------------- MODULE TcpConnection ---------------------------
(* One TCP connection: TcpConnection with its Channel, its registration in  *)
(* the Poller, its output queue and the coroutines blocked by back pressure. *)
(* A connection is a record; what the loop thread does in one callback is an *)
(* operator from records to records.  Assertions are compiled out, as in the *)
(* Release build: an operator says what the code does when they fail.        *)
EXTENDS Naturals, Sequences, SequencesExt, FiniteSets

CONSTANTS
    Conns,        \* connections
    Length,       \* bound: the messages sent on each connection, by their units
    HighWater,    \* _highWaterMark, in units
    SendBuffer,   \* units the kernel buffers until the peer reads them
    MaxResume     \* kMaxResumePerLoop

ASSUME TcpConnectionAssumption ==
    /\ Length \in Seq(Nat \ {0}) /\ HighWater \in Nat \ {0, 1}
    /\ SendBuffer \in Nat \ {0} /\ MaxResume \in Nat \ {0}

R == "read"
W == "write"

Fresh == [
    st      |-> "CONNECTING",  \* _state
    events  |-> {},            \* _channel._events
    index   |-> "new",         \* _channel._index: new, added, deleted
    outq    |-> <<>>,          \* _outputQueue, unit by unit
    blocked |-> <<>>,          \* _blockedCoroutines, by the message each wants to send
    tasks   |-> <<>>,          \* this connection's tasks in the queue of its loop
    pend    |-> FALSE,         \* the read half of an event is done, its EPOLLOUT is not
    peer    |-> "open",        \* peer and network: open, fin, rst
    data    |-> 0,             \* received and unread
    room    |-> SendBuffer,    \* free units of the kernel's send buffer
    shut    |-> FALSE,         \* shutdownWrite was called
    closeCb |-> TRUE,          \* _closeCallback still leads to the server
    removal |-> 0,             \* removeConnectionInLoop calls queued on the base loop
    wire    |-> <<>>,          \* history: units given to the kernel
    taken   |-> <<>>,          \* history: messages accepted by sendInLoop
    ups     |-> 0, downs |-> 0,\* history: calls of the user's connection callback
    dead    |-> 0,             \* history: connectDestroyed ran
    cut     |-> FALSE,         \* history: the last checkCoroutineResume ended at its limit
    excuse  |-> FALSE]         \* history: state or events were set after the close

Units(m) == [i \in 1 .. Length[m] |-> <<m, i>>]
Live(r) == r.st \in {"CONNECTED", "DISCONNECTING", "CONNECTING"}

\* Poller::updateChannel: what was not registered is added, whatever its events.
Update(r) ==
    CASE r.index \in {"new", "deleted"} -> [r EXCEPT !.index = "added"]
      [] r.index = "added" /\ r.events = {} -> [r EXCEPT !.index = "deleted"]
      [] OTHER -> r

\* Poller::removeChannel.
RemoveChannel(r) == [r EXCEPT !.index = "new"]

SetEvents(r, e) == Update([r EXCEPT !.events = e])

\* CoroutineQueue: first suspended, first resumed.
Block(r, m) == [r EXCEPT !.blocked = Append(@, m)]
Unblock(r) == [r EXCEPT !.blocked = Tail(@)]

\* WriteQueue::push_or_append: behind everything queued, in a new block or at the
\* end of the last one.
PushOrAppend(r, units) == [r EXCEPT !.outq = @ \o units]

-----------------------------------------------------------------------------
(* Closing.                                                                  *)

\* The state is only asserted.  User callback, closeCallback (which queues
\* removeConnectionInLoop), then every waiting coroutine drops its message.
HandleClose(r) ==
    LET s == SetEvents([r EXCEPT !.st = "DISCONNECTED"], {})
    IN  [s EXCEPT !.downs = @ + 1,
                  !.removal = IF r.closeCb THEN @ + 1 ELSE @,
                  !.blocked = <<>>, !.cut = FALSE]

\* Mutant: no look at the state.
ForceCloseInLoop_Unchecked(r) == HandleClose(r)

ForceCloseInLoop(r) == IF Live(r) THEN HandleClose(r) ELSE r

ShutdownInLoop(r) == IF W \in r.events THEN r ELSE [r EXCEPT !.shut = TRUE]

ConnectEstablished(r) ==
    IF r.st # "CONNECTING" THEN r
    ELSE [SetEvents([r EXCEPT !.st = "CONNECTED"], r.events \cup {R}) EXCEPT !.ups = @ + 1]

ConnectDestroyed(r) ==
    LET s == IF ~Live(r) THEN r
             ELSE [SetEvents([r EXCEPT !.st = "DISCONNECTED"], {}) EXCEPT !.downs = @ + 1]
    IN  [RemoveChannel(s) EXCEPT !.dead = @ + 1]

-----------------------------------------------------------------------------
(* Sending, on the loop thread.                                              *)

Reset(r) == r.peer = "rst" \/ r.shut       \* send() fails with EPIPE or ECONNRESET
Smaller(a, b) == IF a < b THEN a ELSE b

\* writev of the queue and WriteQueue::consume: the kernel takes n units of it.
Consume(r, n) == [r EXCEPT !.wire = @ \o SubSeq(r.outq, 1, n), !.room = @ - n,
                           !.outq = SubSeq(@, n + 1, Len(@))]

\* Mutant: a direct write although older units wait in the queue.
SendInLoop_Overtakes(r, m) ==
    IF r.st = "DISCONNECTED" THEN r
    ELSE LET n == Smaller(r.room, Length[m])
         IN  SetEvents([r EXCEPT !.wire = @ \o SubSeq(Units(m), 1, n), !.room = @ - n,
                                 !.taken = Append(@, m), !.outq = @ \o SubSeq(Units(m), n + 1, Length[m])],
                       r.events \cup IF n < Length[m] THEN {W} ELSE {})

\* Direct write if nothing is queued, then the rest behind the queue.
SendInLoop(r, m) ==
    IF r.st = "DISCONNECTED" THEN r
    ELSE LET direct == W \notin r.events /\ r.outq = <<>>
             n == IF direct THEN Smaller(r.room, Length[m]) ELSE 0
             s == PushOrAppend([r EXCEPT !.wire = @ \o SubSeq(Units(m), 1, n), !.room = @ - n,
                                         !.taken = Append(@, m)], SubSeq(Units(m), n + 1, Length[m]))
         IN  IF direct /\ Reset(r) THEN ForceCloseInLoop(r)
             ELSE IF n < Length[m] /\ W \notin r.events THEN SetEvents(s, r.events \cup {W})
             ELSE s

\* SendAwaiter::await_resume on the loop thread.
AwaitResume(r, m) ==
    IF r.st = "CONNECTED" THEN SendInLoop(r, m) ELSE r

Full(r) == Len(r.outq) >= HighWater

\* checkCoroutineResume: at most MaxResume coroutines, and none once it is full.
CheckCoroutineResume(r) ==
    LET s == FoldLeft(LAMBDA t, i : IF t.blocked = <<>> \/ Full(t) THEN t
                                    ELSE AwaitResume(Unblock(t), Head(t.blocked)),
                      r, [i \in 1 .. MaxResume |-> i])
    IN  [s EXCEPT !.cut = s.blocked # <<>> /\ ~Full(s)]

\* Mutant: the coroutines are only woken when the queue was drained by a shutdown.
HandleWrite_NoResume(r) ==
    IF Reset(r) THEN ForceCloseInLoop(r)
    ELSE IF r.room = 0 \/ r.outq = <<>> THEN r
    ELSE LET s == Consume(r, Smaller(r.room, Len(r.outq)))
             t == IF s.outq # <<>> THEN s ELSE SetEvents(s, s.events \ {W})
         IN  IF s.outq = <<>> /\ t.st = "DISCONNECTING" THEN ShutdownInLoop(t) ELSE t

HandleWrite(r) ==
    IF Reset(r) THEN ForceCloseInLoop(r)
    ELSE IF r.room = 0 \/ r.outq = <<>> THEN r          \* EAGAIN
    ELSE LET s == Consume(r, Smaller(r.room, Len(r.outq)))
             t == IF s.outq # <<>> THEN s ELSE SetEvents(s, s.events \ {W})
             u == IF s.outq = <<>> /\ t.st = "DISCONNECTING" THEN ShutdownInLoop(t) ELSE t
         IN  IF Len(u.outq) < HighWater \div 2 THEN CheckCoroutineResume(u) ELSE u

-----------------------------------------------------------------------------
(* What code on the loop thread may do with the connection, here in the      *)
(* user's message callback: send, co_await sendAsync, shutdown, forceClose.  *)

Queue(r, t) == [r EXCEPT !.tasks = Append(@, t)]

SendAsync(r, m) ==
    IF r.st = "DISCONNECTED" \/ ~Full(r) THEN AwaitResume(r, m)
    ELSE Block(r, m)

Shutdown(r) == IF r.st = "CONNECTED" THEN ShutdownInLoop([r EXCEPT !.st = "DISCONNECTING"]) ELSE r

ForceClose(r) == IF Live(r) THEN Queue([r EXCEPT !.st = "DISCONNECTING"], <<"forceClose">>) ELSE r

\* One task of the loop's queue.
RunTask(r, t) ==
    CASE t[1] = "established" -> ConnectEstablished(r)
      [] t[1] = "destroyed"   -> ConnectDestroyed(r)
      [] t[1] = "forceClose"  -> ForceCloseInLoop(r)
      [] t[1] = "shutdown"    -> ShutdownInLoop(r)
      [] t[1] = "send"        -> SendInLoop(r, t[2])
      [] t[1] = "sendAsync"   -> SendAsync(r, t[2])

-----------------------------------------------------------------------------
(* The kernel's report for a registered channel, and Channel::handleEvent.   *)

Readable(r) == R \in r.events /\ (r.data > 0 \/ r.peer # "open")
Writable(r) == W \in r.events /\ (r.room > 0 \/ Reset(r))
HangUp(r)   == r.peer = "rst" \/ (r.peer = "fin" /\ r.shut)

=============================================================================
