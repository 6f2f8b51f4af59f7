-------------------------- MODULE TcpClientProofs --------------------------
(***************************************************************************)
(* Proofs about TcpClient and its Connector, whatever the bounds on calls  *)
(* and timers: there is one attempt or one connection at a time, no socket *)
(* is lost, and stop() holds.                                              *)
(***************************************************************************)
EXTENDS TcpClient, TLAPS

Tasks == {"start", "stop", "shutdown", "destroy", "forceClose"}

Has(q, t)  == \E i \in DOMAIN q : q[i] = t
Once(q, t) == \A i, j \in DOMAIN q : q[i] = t /\ q[j] = t => i = j
-----------------------------------------------------------------------------
(***************************************************************************)
(* The queue of tasks.                                                     *)
(***************************************************************************)
\* queueInLoop: what a queue holds once a task is added.
LEMMA Queued ==
  ASSUME NEW q \in Seq(Tasks), NEW t \in Tasks
  PROVE  /\ Append(q, t) \in Seq(Tasks)
         /\ \A u : Has(Append(q, t), u) <=> Has(q, u) \/ u = t
         /\ \A u : Once(q, u) /\ (u # t \/ ~Has(q, u)) => Once(Append(q, t), u)
<1>1. /\ Append(q, t) \in Seq(Tasks)
      /\ DOMAIN Append(q, t) = 1 .. Len(q) + 1
      /\ \A i \in 1 .. Len(q) : Append(q, t)[i] = q[i]
      /\ Append(q, t)[Len(q) + 1] = t
  OBVIOUS
<1>2. DOMAIN q = 1 .. Len(q) /\ Len(q) \in Nat
  OBVIOUS
<1>3. ASSUME NEW u PROVE Has(Append(q, t), u) <=> Has(q, u) \/ u = t
  BY <1>1, <1>2 DEF Has
<1>4. ASSUME NEW u, Once(q, u), u # t \/ ~Has(q, u) PROVE Once(Append(q, t), u)
  BY <1>1, <1>2, <1>4 DEF Has, Once
<1>5. QED
  BY <1>1, <1>3, <1>4

\* doPendingJobs: what is left once the first task is taken.
LEMMA Dequeued ==
  ASSUME NEW q \in Seq(Tasks), q # <<>>
  PROVE  /\ Tail(q) \in Seq(Tasks) /\ Head(q) \in Tasks
         /\ \A u : Has(q, u) <=> Has(Tail(q), u) \/ u = Head(q)
         /\ \A u : Once(q, u) => Once(Tail(q), u)
         /\ \A u : Once(q, u) /\ u = Head(q) => ~Has(Tail(q), u)
<1>1. /\ Tail(q) \in Seq(Tasks) /\ Head(q) = q[1] /\ Head(q) \in Tasks
      /\ DOMAIN Tail(q) = 1 .. Len(q) - 1
      /\ \A i \in 1 .. Len(q) - 1 : Tail(q)[i] = q[i + 1]
  OBVIOUS
<1>2. DOMAIN q = 1 .. Len(q) /\ Len(q) \in Nat \ {0}
  OBVIOUS
<1>3. ASSUME NEW u PROVE Has(q, u) <=> Has(Tail(q), u) \/ u = Head(q)
  <2>1. ASSUME Has(q, u), u # Head(q) PROVE Has(Tail(q), u)
    <3>1. PICK i \in 1 .. Len(q) : q[i] = u
      BY <1>2, <2>1 DEF Has
    <3>2. i - 1 \in 1 .. Len(q) - 1 /\ Tail(q)[i - 1] = u
      BY <1>1, <1>2, <2>1, <3>1
    <3>3. QED
      BY <1>1, <3>2 DEF Has
  <2>2. QED
    BY <1>1, <1>2, <2>1 DEF Has
<1>4. ASSUME NEW u, Once(q, u) PROVE Once(Tail(q), u)
  BY <1>1, <1>2, <1>4 DEF Once
<1>5. ASSUME NEW u, Once(q, u), u = Head(q) PROVE ~Has(Tail(q), u)
  BY <1>1, <1>2, <1>5 DEF Once, Has
<1>6. QED
  BY <1>1, <1>3, <1>4, <1>5
-----------------------------------------------------------------------------
(***************************************************************************)
(* The inductive invariant.                                                *)
(***************************************************************************)
Types ==
  /\ cconnect \in BOOLEAN /\ held \in BOOLEAN /\ alive \in BOOLEAN /\ wanted \in BOOLEAN
  /\ state \in {"DISCONNECTED", "CONNECTING", "CONNECTED"}
  /\ sock \in {"none", "pending", "established", "failed"}
  /\ conn \in {"none", "up", "closing", "down"} /\ closeCb \in {"client", "self"}
  /\ loop \in {"idle", "restart"} /\ queue \in Seq(Tasks)
  /\ timers \in Nat /\ connects \in Nat
  /\ stopped \in BOOLEAN /\ overtaken \in BOOLEAN /\ asserted \in BOOLEAN

\* removeConnection, ~TcpClient: who looks after the connection, and when its
\* destruction is queued.
Connection ==
  /\ conn = "down" <=> Has(queue, "destroy")
  /\ Once(queue, "destroy")
  /\ conn \in {"up", "closing"} /\ closeCb = "client" => held
  /\ held => alive /\ closeCb = "client"
  /\ Has(queue, "forceClose") => ~alive
  /\ loop = "restart" => state = "CONNECTED" /\ ~held

\* startInLoop: a single call of connect() is one task, one timer or one attempt
\* or connection, never two of them.
SingleStart ==
  /\ connects = 0 => ~Has(queue, "start") /\ timers = 0 /\ state = "DISCONNECTED"
  /\ connects <= 1 =>
       /\ Once(queue, "start")
       /\ Has(queue, "start") => timers = 0 /\ state = "DISCONNECTED"
       /\ timers <= 1 /\ (timers = 1 => state = "DISCONNECTED")

\* stop(): what it leaves to its task is the attempt under way.
Stopping ==
  /\ stopped => ~cconnect
  /\ stopped /\ ~overtaken => ~wanted /\ loop = "idle"
  /\ stopped /\ ~overtaken /\ sock # "none" => Has(queue, "stop")

IInv == Types /\ SocketsAgree /\ Connection /\ SingleStart /\ Stopping

\* A client that was constructed and never told to connect.
LEMMA InitIInv == Init => IInv
<1> SUFFICES ASSUME Init PROVE IInv
  OBVIOUS
<1>1. queue = <<>> /\ \A u : ~Has(queue, u) /\ Once(queue, u)
  BY DEF Init, Has, Once
<1> USE DEF Init
<1>2. Types
  <2>1. queue \in Seq(Tasks)
    BY <1>1
  <2>2. /\ cconnect \in BOOLEAN /\ held \in BOOLEAN /\ alive \in BOOLEAN /\ wanted \in BOOLEAN
        /\ stopped \in BOOLEAN /\ overtaken \in BOOLEAN /\ asserted \in BOOLEAN
    BY Zenon
  <2>3. QED
    BY <2>1, <2>2 DEF Types
<1>3. SocketsAgree
  BY DEF SocketsAgree, Bit
<1>4. Connection /\ SingleStart /\ Stopping
  BY <1>1 DEF Connection, SingleStart, Stopping
<1>5. QED
  BY <1>2, <1>3, <1>4 DEF IInv

\* connect() of the user's thread.
LEMMA ConnectIInv == IInv /\ Connect => IInv'
<1> SUFFICES ASSUME IInv, Connect PROVE IInv'
  OBVIOUS
<1> USE DEF IInv, Connect, link
<1>1. /\ queue' \in Seq(Tasks)
      /\ \A u : Has(queue', u) <=> Has(queue, u) \/ u = "start"
      /\ \A u : Once(queue, u) /\ (u # "start" \/ ~Has(queue, u)) => Once(queue', u)
  BY Queued DEF Types, Tasks
<1>2. Types'
  <2>1. cconnect' \in BOOLEAN /\ wanted' \in BOOLEAN /\ stopped' \in BOOLEAN
    BY Zenon
  <2>2. QED
    BY <1>1, <2>1 DEF Types
<1>3. SocketsAgree'
  BY <1>1 DEF Types, SocketsAgree, Connection, SingleStart, Bit
<1>4. Connection'
  BY <1>1 DEF Types, SocketsAgree, Connection
<1>5. SingleStart'
  BY <1>1 DEF Types, SocketsAgree, Connection, SingleStart
<1>6. Stopping'
  BY <1>1 DEF Types, SocketsAgree, Connection, Stopping
<1>7. QED
  BY <1>2, <1>3, <1>4, <1>5, <1>6

\* stop() of the user's thread.
LEMMA StopIInv == IInv /\ Stop => IInv'
<1> SUFFICES ASSUME IInv, Stop PROVE IInv'
  OBVIOUS
<1> USE DEF IInv, Stop, connector, link
<1>1. /\ queue' \in Seq(Tasks)
      /\ \A u : Has(queue', u) <=> Has(queue, u) \/ u = "stop"
      /\ \A u : Once(queue, u) /\ (u # "stop" \/ ~Has(queue, u)) => Once(queue', u)
  BY Queued DEF Types, Tasks
<1>2. Types'
  BY <1>1 DEF Types
<1>3. SocketsAgree'
  BY <1>1 DEF Types, SocketsAgree, Connection, SingleStart, Bit
<1>4. Connection'
  BY <1>1 DEF Types, SocketsAgree, Connection
<1>5. SingleStart'
  BY <1>1 DEF Types, SocketsAgree, Connection, SingleStart
<1>6. Stopping'
  BY <1>1 DEF Types, SocketsAgree, Connection, Stopping
<1>7. QED
  BY <1>2, <1>3, <1>4, <1>5, <1>6

\* disconnect() of the user's thread.
LEMMA DisconnectIInv == IInv /\ Disconnect => IInv'
<1> SUFFICES ASSUME IInv, Disconnect PROVE IInv'
  OBVIOUS
<1> USE DEF IInv, Disconnect, connector, hist
<1>1. /\ queue' \in Seq(Tasks)
      /\ \A u \in Tasks \ {"shutdown"} : (Has(queue', u) <=> Has(queue, u))
                                      /\ (Once(queue, u) => Once(queue', u))
  <2>1. CASE held /\ conn = "up"
    BY ZenonT(40), <2>1, Queued DEF Types, Tasks
  <2>2. CASE ~(held /\ conn = "up")
    BY <2>2 DEF Types
  <2>3. QED
    BY <2>1, <2>2
<1>2. Types'
  BY ZenonT(40), <1>1 DEF Types
<1>3. SocketsAgree'
  BY <1>1 DEF Types, SocketsAgree, Connection, SingleStart, Bit
<1>4. Connection'
  BY <1>1 DEF Types, SocketsAgree, Connection, Tasks
<1>5. SingleStart'
  BY <1>1 DEF Types, SocketsAgree, Connection, SingleStart, Tasks
<1>6. Stopping'
  BY <1>1 DEF Types, SocketsAgree, Connection, Stopping, Tasks
<1>7. QED
  BY <1>2, <1>3, <1>4, <1>5, <1>6

\* The timer of retry().
LEMMA RetryTimerIInv == IInv /\ RetryTimer => IInv'
<1> SUFFICES ASSUME IInv, RetryTimer PROVE IInv'
  OBVIOUS
<1> USE DEF IInv, RetryTimer, StartInLoop, TryConnect, client, link, bounds, hist
<1>1. \A u : (Has(queue', u) <=> Has(queue, u)) /\ (Once(queue', u) <=> Once(queue, u))
  OBVIOUS
<1>2. Types'
  <2>1. asserted' \in BOOLEAN
    BY Zenon DEF Types
  <2>2. QED
    BY <1>1, <2>1 DEF Types
<1>3. SocketsAgree'
  BY <1>1 DEF Types, SocketsAgree, Connection, SingleStart, Bit
<1>4. Connection'
  BY <1>1 DEF Types, SocketsAgree, Connection
<1>5. SingleStart'
  BY <1>1 DEF Types, SocketsAgree, Connection, SingleStart
<1>6. Stopping'
  BY <1>1 DEF Types, SocketsAgree, Connection, Stopping
<1>7. QED
  BY <1>2, <1>3, <1>4, <1>5, <1>6

\* newConnection, or the socket is closed because nobody wants it any more.
LEMMA ConnectedIInv == IInv /\ Connected => IInv'
<1> SUFFICES ASSUME IInv, Connected PROVE IInv'
  OBVIOUS
<1> USE DEF IInv, Connected, link, bounds, hist
<1>1. \A u : (Has(queue', u) <=> Has(queue, u)) /\ (Once(queue', u) <=> Once(queue, u))
  OBVIOUS
<1>2. Types'
  BY <1>1 DEF Types
<1>3. SocketsAgree'
  BY <1>1 DEF Types, SocketsAgree, Connection, SingleStart, Bit
<1>4. Connection'
  BY <1>1 DEF Types, SocketsAgree, Connection
<1>5. SingleStart'
  BY <1>1 DEF Types, SocketsAgree, Connection, SingleStart
<1>6. Stopping'
  BY <1>1 DEF Types, SocketsAgree, Connection, Stopping
<1>7. QED
  BY <1>2, <1>3, <1>4, <1>5, <1>6

\* A connection to itself is given up.
LEMMA ConnectedToSelfIInv == IInv /\ ConnectedToSelf => IInv'
<1> SUFFICES ASSUME IInv, ConnectedToSelf PROVE IInv'
  OBVIOUS
<1> USE DEF IInv, ConnectedToSelf, client, link, bounds, hist
<1>1. \A u : (Has(queue', u) <=> Has(queue, u)) /\ (Once(queue', u) <=> Once(queue, u))
  OBVIOUS
<1>2. Types'
  BY <1>1 DEF Types
<1>3. SocketsAgree'
  BY <1>1 DEF Types, SocketsAgree, Connection, SingleStart, Bit
<1>4. Connection'
  BY <1>1 DEF Types, SocketsAgree, Connection
<1>5. SingleStart'
  BY <1>1 DEF Types, SocketsAgree, Connection, SingleStart
<1>6. Stopping'
  BY <1>1 DEF Types, SocketsAgree, Connection, Stopping
<1>7. QED
  BY <1>2, <1>3, <1>4, <1>5, <1>6

\* The kernel finishes an attempt.
LEMMA AttemptEndsIInv ==
  ASSUME NEW how \in {"established", "failed"}
  PROVE  IInv /\ AttemptEnds(how) => IInv'
BY DEF IInv, Types, SocketsAgree, Connection, SingleStart, Stopping, Bit,
       AttemptEnds, client, link, bounds, hist

\* removeConnection, up to its test.
LEMMA ConnectionClosesIInv == IInv /\ ConnectionCloses => IInv'
<1> SUFFICES ASSUME IInv, ConnectionCloses PROVE IInv'
  OBVIOUS
<1>1. queue \in Seq(Tasks) /\ "destroy" \in Tasks
  BY DEF IInv, Types, Tasks
<1>2. QED
  BY ZenonT(40), <1>1, Queued
  DEF IInv, Types, SocketsAgree, Connection, SingleStart, Stopping, Bit,
      ConnectionCloses, connector, bounds, hist

\* Connector::restart.
LEMMA RestartIInv == IInv /\ Restart => IInv'
BY DEF IInv, Types, SocketsAgree, Connection, SingleStart, Stopping, Bit,
       Restart, TryConnect, client, link, bounds, hist

\* ~TcpClient.
LEMMA DestroyIInv == IInv /\ Destroy => IInv'
<1> SUFFICES ASSUME IInv, Destroy PROVE IInv'
  OBVIOUS
<1> USE DEF IInv, Destroy, StopInLoop, link, bounds, hist
<1>1. CASE held
  <2>1. /\ queue' \in Seq(Tasks)
        /\ \A u : Has(queue', u) <=> Has(queue, u) \/ u = "forceClose"
        /\ \A u : Once(queue, u) /\ (u # "forceClose" \/ ~Has(queue, u)) => Once(queue', u)
    BY ZenonT(40), <1>1, Queued DEF Types, Tasks
  <2>2. Types'
    BY <1>1, <2>1 DEF Types
  <2>3. SocketsAgree'
    BY <1>1, <2>1 DEF Types, SocketsAgree, Connection, SingleStart, Bit
  <2>4. Connection'
    BY <1>1, <2>1 DEF Types, SocketsAgree, Connection
  <2>5. SingleStart'
    BY <1>1, <2>1 DEF Types, SocketsAgree, Connection, SingleStart
  <2>6. Stopping'
    BY <1>1, <2>1 DEF Types, SocketsAgree, Connection, Stopping
  <2>7. QED
    BY <2>2, <2>3, <2>4, <2>5, <2>6
<1>2. CASE ~held
  <2>1. queue' = queue
    BY <1>2
  <2>2. Types'
    BY <1>2, <2>1 DEF Types
  <2>3. SocketsAgree'
    BY <1>2, <2>1 DEF Types, SocketsAgree, Connection, SingleStart, Bit
  <2>4. Connection'
    BY <1>2, <2>1 DEF Types, SocketsAgree, Connection
  <2>5. SingleStart'
    BY <1>2, <2>1 DEF Types, SocketsAgree, Connection, SingleStart
  <2>6. Stopping'
    BY <1>2, <2>1 DEF Types, SocketsAgree, Connection, Stopping
  <2>7. QED
    BY <2>2, <2>3, <2>4, <2>5, <2>6
<1>3. QED
  BY <1>1, <1>2

\* doPendingJobs, one task.
LEMMA TaskIInv == IInv /\ Task => IInv'
<1> SUFFICES ASSUME IInv, Task PROVE IInv'
  OBVIOUS
<1>1. /\ queue \in Seq(Tasks) /\ queue # <<>>
      /\ Tail(queue) \in Seq(Tasks) /\ Head(queue) \in Tasks
  BY Dequeued DEF IInv, Types, Task
<1>2. /\ \A u : Has(queue, u) <=> Has(Tail(queue), u) \/ u = Head(queue)
      /\ \A u : Once(queue, u) => Once(Tail(queue), u)
      /\ \A u : Once(queue, u) /\ u = Head(queue) => ~Has(Tail(queue), u)
  BY <1>1, Dequeued
<1> USE DEF IInv, Task, client, bounds, hist, StartInLoop, TryConnect, StopInLoop
<1>3. CASE Head(queue) = "start"
  <2>1. queue' = Tail(queue)
    BY <1>3
  <2>2. Types'
    <3>1. asserted' \in BOOLEAN
      BY Zenon, <1>3 DEF Types
    <3>2. QED
      BY <1>1, <1>2, <1>3, <2>1, <3>1 DEF Types
  <2>3. SocketsAgree'
    BY <1>1, <1>2, <1>3, <2>1 DEF Types, SocketsAgree, Connection, SingleStart, Bit
  <2>4. Connection'
    BY <1>1, <1>2, <1>3, <2>1 DEF Types, SocketsAgree, Connection
  <2>5. SingleStart'
    BY <1>1, <1>2, <1>3, <2>1 DEF Types, SocketsAgree, Connection, SingleStart
  <2>6. Stopping'
    BY <1>1, <1>2, <1>3, <2>1 DEF Types, SocketsAgree, Connection, Stopping
  <2>7. QED
    BY <2>2, <2>3, <2>4, <2>5, <2>6
<1>4. CASE Head(queue) = "stop"
  <2>1. queue' = Tail(queue)
    BY <1>4
  <2>2. Types'
    BY <1>1, <1>2, <1>4, <2>1 DEF Types
  <2>3. SocketsAgree'
    BY <1>1, <1>2, <1>4, <2>1 DEF Types, SocketsAgree, Connection, SingleStart, Bit
  <2>4. Connection'
    BY <1>1, <1>2, <1>4, <2>1 DEF Types, SocketsAgree, Connection
  <2>5. SingleStart'
    BY <1>1, <1>2, <1>4, <2>1 DEF Types, SocketsAgree, Connection, SingleStart
  <2>6. Stopping'
    BY <1>1, <1>2, <1>4, <2>1 DEF Types, SocketsAgree, Connection, Stopping
  <2>7. QED
    BY <2>2, <2>3, <2>4, <2>5, <2>6
<1>5. CASE Head(queue) = "destroy"
  <2>1. queue' = Tail(queue)
    BY <1>5
  <2>2. Types'
    BY <1>1, <1>2, <1>5, <2>1 DEF Types
  <2>3. SocketsAgree'
    BY <1>1, <1>2, <1>5, <2>1 DEF Types, SocketsAgree, Connection, SingleStart, Bit
  <2>4. Connection'
    BY <1>1, <1>2, <1>5, <2>1 DEF Types, SocketsAgree, Connection
  <2>5. SingleStart'
    BY <1>1, <1>2, <1>5, <2>1 DEF Types, SocketsAgree, Connection, SingleStart
  <2>6. Stopping'
    BY <1>1, <1>2, <1>5, <2>1 DEF Types, SocketsAgree, Connection, Stopping
  <2>7. QED
    BY <2>2, <2>3, <2>4, <2>5, <2>6
<1>6. CASE Head(queue) = "forceClose" /\ conn = "closing"
  <2>1. /\ queue' \in Seq(Tasks) /\ conn' = "down"
        /\ \A u : Has(queue', u) <=> Has(Tail(queue), u) \/ u = "destroy"
        /\ \A u : Once(Tail(queue), u) /\ (u # "destroy" \/ ~Has(Tail(queue), u)) => Once(queue', u)
    BY ZenonT(40), <1>1, <1>6, Queued DEF Tasks
  <2>2. Types'
    BY <1>1, <1>2, <1>6, <2>1 DEF Types
  <2>3. SocketsAgree'
    BY <1>1, <1>2, <1>6, <2>1 DEF Types, SocketsAgree, Connection, SingleStart, Bit
  <2>4. Connection'
    BY <1>1, <1>2, <1>6, <2>1 DEF Types, SocketsAgree, Connection
  <2>5. SingleStart'
    BY <1>1, <1>2, <1>6, <2>1 DEF Types, SocketsAgree, Connection, SingleStart
  <2>6. Stopping'
    BY <1>1, <1>2, <1>6, <2>1 DEF Types, SocketsAgree, Connection, Stopping
  <2>7. QED
    BY <2>2, <2>3, <2>4, <2>5, <2>6
<1>7. CASE Head(queue) = "shutdown" \/ (Head(queue) = "forceClose" /\ conn # "closing")
  <2>1. queue' = Tail(queue)
    BY <1>7
  <2>2. Types'
    BY <1>1, <1>2, <1>7, <2>1 DEF Types
  <2>3. SocketsAgree'
    BY <1>1, <1>2, <1>7, <2>1 DEF Types, SocketsAgree, Connection, SingleStart, Bit
  <2>4. Connection'
    BY <1>1, <1>2, <1>7, <2>1 DEF Types, SocketsAgree, Connection
  <2>5. SingleStart'
    BY <1>1, <1>2, <1>7, <2>1 DEF Types, SocketsAgree, Connection, SingleStart
  <2>6. Stopping'
    BY <1>1, <1>2, <1>7, <2>1 DEF Types, SocketsAgree, Connection, Stopping
  <2>7. QED
    BY <2>2, <2>3, <2>4, <2>5, <2>6
<1>8. QED
  BY <1>3, <1>4, <1>5, <1>6, <1>7

\* Every step of the user's calls, the loop's tasks, the retry timer and the
\* kernel preserves the invariant.
LEMMA NextIInv == IInv /\ [Next]_vars => IInv'
<1>1. IInv /\ UNCHANGED vars => IInv'
  BY DEF IInv, Types, SocketsAgree, Connection, SingleStart, Stopping, vars,
         client, connector, link, bounds, hist, Has, Once, Bit
<1>2. QED
  BY <1>1, ConnectIInv, StopIInv, DisconnectIInv, RetryTimerIInv, ConnectedIInv,
     ConnectedToSelfIInv, AttemptEndsIInv, ConnectionClosesIInv, RestartIInv,
     DestroyIInv, TaskIInv
  DEF Next, UserCalls, OnLoop, Kernel

\* Connector and TcpClient: state, socket and connection agree and no socket is lost
\* or closed twice, however often connect() is called; after a single connect() a
\* pending retry timer meets nothing else and startInLoop's assertion holds.
THEOREM OneAttemptHolds == Spec => []OneAttempt
<1>1. IInv => SocketsAgree
  BY DEF IInv
<1>2. IInv => TimerAlone
  <2> SUFFICES ASSUME IInv, connects <= 1, timers > 0
               PROVE  /\ timers = 1 /\ sock = "none" /\ ~held /\ state = "DISCONNECTED"
                      /\ \A i \in DOMAIN queue : queue[i] # "start"
    BY DEF TimerAlone
  <2>1. timers = 1 /\ state = "DISCONNECTED"
    BY DEF IInv, Types, SingleStart
  <2>2. sock = "none" /\ ~held
    BY <2>1 DEF IInv, SocketsAgree
  <2>3. \A i \in DOMAIN queue : queue[i] # "start"
    BY <2>1 DEF IInv, SingleStart, Has
  <2>4. QED
    BY <2>1, <2>2, <2>3
<1>3. QED
  BY InitIInv, NextIInv, <1>1, <1>2, PTL DEF Spec, OneAttempt

\* TcpClient::stop(): once its task has run there is no attempt and will be none.
THEOREM StopHoldsAlways == Spec => []StopHolds
<1>1. IInv => StopHolds
  BY DEF IInv, Stopping, StopHolds, Has, Types
<1>2. QED
  BY InitIInv, NextIInv, <1>1, PTL DEF Spec
=============================================================================
