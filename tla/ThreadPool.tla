----------------------------- MODULE ThreadPool -----------------------------
(***************************************************************************)
(* KzThread::ThreadPool (src/KzThread/ThreadPool.h): workers with a deque  *)
(* each and a global queue, an event count to sleep on, start and stop.    *)
(*                                                                         *)
(* The deques and the global queue are used through what they promise:     *)
(* WorkDeque (a pop, push or steal is one step; a steal may also fail      *)
(* because others compete) and FifoQueue (places are reserved in one step  *)
(* and filled later; a dequeue sees the filled entries at the front, but   *)
(* sizeApprox counts the reserved ones too).                               *)
(*                                                                         *)
(* run(f) and runBulk submit a list of jobs in the same way: run is the    *)
(* list of one.  A job may submit further jobs while it runs on a worker.  *)
(***************************************************************************)
EXTENDS Integers, Sequences, FiniteSets, SequencesExt, Counting

CONSTANTS Workers,  \* indices of _workers / _threads
          Clients,  \* threads outside the pool that submit jobs
          GlobalCapacity, \* kQueueCapacity
          LocalCapacity,  \* kLocalQueueCapacity
          MaxBatch,       \* kMaxBatchSize
          MaxBulk,        \* bound: jobs in one runBulk
          MaxJobs,        \* bound: jobs submitted in a behaviour
          MaxStarts,      \* bound: calls of start()
          None            \* no job

Procs == Workers \cup Clients

ASSUME PoolAssumption ==
  /\ Workers \cap Clients = {} /\ IsFiniteSet(Procs)
  \* threads are what empties the global queue: the default is 8 of them
  /\ Workers # {}
  /\ GlobalCapacity \in Nat \ {0} /\ LocalCapacity \in Nat \ {0}
  /\ MaxBatch \in Nat \ {0} /\ MaxBulk \in Nat \ {0}
  \* the worker loop ignores what pushBulk could not take
  /\ MaxBatch - 1 <= LocalCapacity
  /\ MaxJobs \in Nat /\ None \notin 1..MaxJobs

VARIABLES
  state,     \* _state
  notifier,  \* _globalNotifier
  sleeping,  \* _sleepingWorkerCount
  globalQ,   \* _globalQueue: entries [job, by, ready]
  local,     \* local_deque of each worker; the owner works at the end
  pc,        \* where each worker thread stands
  cur,       \* the job a worker is running
  batch,     \* what is left of localBatch
  left,      \* workers whose deque the loop at hand has still to look at
  ticket,    \* ticket of each worker
  wake,      \* progress of "wake one worker if any sleeps" of each thread
  sub,       \* where each thread stands in run / runBulk
  todo,      \* jobs of the call under way that nobody has accepted yet
  ctl,       \* where the thread that calls start and stop stands
  latch,     \* initLatch
  starts,    \* bound on start()
  submitted, \* history: number of jobs submitted; they are numbered from 1
  runs,      \* history: how often each job has run
  discarded  \* history: jobs destroyed together with their worker's deque

workerVars == <<pc, cur, batch, left, ticket>>
queueVars == <<globalQ, local>>
submitVars == <<sub, todo, submitted>>
controlVars == <<state, ctl, latch, starts, discarded>>
vars == <<workerVars, queueVars, submitVars, controlVars,
          notifier, sleeping, wake, runs>>

Job == 1..MaxJobs
PoolState == {"STOPPED", "STARTING", "RUNNING", "STOPPING"}

Init ==
  /\ state = "STOPPED" /\ notifier = 0 /\ sleeping = 0
  /\ globalQ = <<>> /\ local = [w \in Workers |-> <<>>]
  /\ pc = [w \in Workers |-> "off"]
  /\ cur = [w \in Workers |-> None]
  /\ batch = [w \in Workers |-> <<>>]
  /\ left = [w \in Workers |-> {}]
  /\ ticket = [w \in Workers |-> 0]
  /\ wake = [p \in Procs |-> "none"]
  /\ sub = [p \in Procs |-> "idle"]
  /\ todo = [p \in Procs |-> <<>>]
  /\ ctl = "idle" /\ latch = 0 /\ starts = 0
  /\ submitted = 0
  /\ runs = [j \in Job |-> 0]
  /\ discarded = {}

Goto(w, label) == pc' = [pc EXCEPT ![w] = label]
Lesser(a, b) == IF a <= b THEN a ELSE b

(***************************************************************************)
(* Waking: load _sleepingWorkerCount after the fence; wakeUpOneWorker adds *)
(* to the notifier and notifies one thread blocked in wait(ticket).        *)
(***************************************************************************)
StartWake(p) == wake' = [wake EXCEPT ![p] = "check"]

WakeCheck(p) ==
  /\ wake[p] = "check"
  /\ wake' = [wake EXCEPT ![p] = IF sleeping > 0 THEN "add" ELSE "none"]
  /\ UNCHANGED <<workerVars, queueVars, submitVars, controlVars, notifier, sleeping, runs>>

WakeAdd(p) ==
  /\ wake[p] = "add"
  /\ notifier' = notifier + 1
  /\ wake' = [wake EXCEPT ![p] = "notify"]
  /\ UNCHANGED <<workerVars, queueVars, submitVars, controlVars, sleeping, runs>>

Blocked == {w \in Workers : pc[w] = "blocked"}

WakeNotify(p) ==
  /\ wake[p] = "notify"
  /\ wake' = [wake EXCEPT ![p] = "none"]
  /\ \/ Blocked = {} /\ UNCHANGED pc
     \/ \E w \in Blocked : Goto(w, "wait")
  /\ UNCHANGED <<cur, batch, left, ticket, queueVars, submitVars, controlVars,
                 notifier, sleeping, runs>>

(***************************************************************************)
(* run / runBulk / dispatchJob.  A worker submits from inside a job.       *)
(***************************************************************************)
MaySubmit(p) == /\ sub[p] = "idle" /\ wake[p] = "none"
                /\ p \in Workers => pc[p] = "run" /\ batch[p] = <<>>

FirstTry(p) == IF p \in Workers THEN "pushLocal" ELSE "enqueue"

\* n new jobs; what follows depends on `label'.
Submit(p, n, label) ==
  /\ MaySubmit(p)
  /\ submitted + n <= MaxJobs
  /\ submitted' = submitted + n
  /\ todo' = [todo EXCEPT ![p] = [k \in 1..n |-> submitted + k]]
  /\ sub' = [sub EXCEPT ![p] = label]
  /\ UNCHANGED <<workerVars, queueVars, controlVars, notifier, sleeping, wake, runs>>

\* run(F, Args...) and runBulk: the caller runs the jobs if the pool does not.
RunBulk(p, n) ==
  Submit(p, n, IF state = "RUNNING" THEN FirstTry(p) ELSE "inline")

\* run(Job&&) dispatches whatever the state is.
RunJob(p) == Submit(p, 1, FirstTry(p))

\* mutant: after a partial push hands all the jobs on to the global queue
PushLocalResubmits(w) ==
  /\ sub[w] = "pushLocal"
  /\ LET n == Lesser(Len(todo[w]), LocalCapacity - Len(local[w])) IN
     /\ local' = [local EXCEPT ![w] = @ \o SubSeq(todo[w], 1, n)]
     /\ todo' = [todo EXCEPT ![w] = IF n = Len(@) THEN <<>> ELSE @]
     /\ sub' = [sub EXCEPT ![w] = IF n = Len(todo[w]) THEN "idle" ELSE "enqueue"]
     /\ IF n > 0 THEN StartWake(w) ELSE UNCHANGED wake
  /\ UNCHANGED <<workerVars, globalQ, submitted, controlVars, notifier, sleeping, runs>>

\* A worker's own deque first.  It may take fewer jobs than fit now: the free
\* room was computed from an older head index.
PushLocal(w) ==
  /\ sub[w] = "pushLocal"
  /\ \E n \in 0..Lesser(Len(todo[w]), LocalCapacity - Len(local[w])) :
     /\ local' = [local EXCEPT ![w] = @ \o SubSeq(todo[w], 1, n)]
     /\ todo' = [todo EXCEPT ![w] = SubSeq(@, n + 1, Len(@))]
     /\ sub' = [sub EXCEPT ![w] = IF n = Len(todo[w]) THEN "idle" ELSE "enqueue"]
     /\ IF n > 0 THEN StartWake(w) ELSE UNCHANGED wake
  /\ UNCHANGED <<workerVars, globalQ, submitted, controlVars, notifier, sleeping, runs>>

\* Reserves places in the global queue, again perhaps fewer than fit; what is
\* not taken is left to the caller.
Enqueue(p) ==
  /\ sub[p] = "enqueue" /\ wake[p] = "none"
  /\ \E n \in 0..Lesser(Len(todo[p]), GlobalCapacity - Len(globalQ)) :
     /\ globalQ' = globalQ \o [k \in 1..n |->
                      [job |-> todo[p][k], by |-> p, ready |-> FALSE]]
     /\ todo' = [todo EXCEPT ![p] = SubSeq(@, n + 1, Len(@))]
     /\ sub' = [sub EXCEPT ![p] = IF n = 0 THEN "inline" ELSE "fill"]
  /\ UNCHANGED <<workerVars, local, submitted, controlVars, notifier, sleeping, wake, runs>>

\* Publishes the reserved places one by one; after the last one, wakes.
Fill(p) ==
  LET mine == {i \in DOMAIN globalQ : globalQ[i].by = p /\ ~globalQ[i].ready}
      i == CHOOSE k \in mine : \A m \in mine : k <= m
  IN
  /\ sub[p] = "fill"
  /\ globalQ' = [globalQ EXCEPT ![i].ready = TRUE]
  /\ IF mine = {i}
     THEN /\ sub' = [sub EXCEPT ![p] = IF todo[p] = <<>> THEN "idle" ELSE "inline"]
          /\ StartWake(p)
     ELSE UNCHANGED <<sub, wake>>
  /\ UNCHANGED <<workerVars, local, todo, submitted, controlVars, notifier, sleeping, runs>>

RunInline(p) ==
  /\ sub[p] = "inline" /\ wake[p] = "none"
  /\ runs' = [runs EXCEPT ![Head(todo[p])] = @ + 1]
  /\ todo' = [todo EXCEPT ![p] = Tail(@)]
  /\ sub' = [sub EXCEPT ![p] = IF Len(todo[p]) = 1 THEN "idle" ELSE "inline"]
  /\ UNCHANGED <<workerVars, queueVars, submitted, controlVars, notifier, sleeping, wake>>

(***************************************************************************)
(* workerLoop: looking for work.                                           *)
(***************************************************************************)
AtLabel(w, label) == pc[w] = label /\ wake[w] = "none"

RunNext(w, job) == Goto(w, "run") /\ cur' = [cur EXCEPT ![w] = job]

LoopTop(w) ==
  /\ AtLabel(w, "loop")
  /\ Goto(w, IF state = "RUNNING" THEN "pop" ELSE "exited")
  /\ UNCHANGED <<cur, batch, left, ticket, queueVars, submitVars, controlVars,
                 notifier, sleeping, wake, runs>>

PopLocal(w) ==
  /\ AtLabel(w, "pop")
  /\ IF local[w] # <<>>
     THEN RunNext(w, Last(local[w])) /\ local' = [local EXCEPT ![w] = Front(@)]
     ELSE Goto(w, "grab") /\ UNCHANGED <<cur, local>>
  /\ UNCHANGED <<batch, left, ticket, globalQ, submitVars, controlVars,
                 notifier, sleeping, wake, runs>>

\* Number of filled entries at the front of the global queue.
ReadyPrefix == CHOOSE n \in 0..Len(globalQ) :
                 /\ \A i \in 1..n : globalQ[i].ready
                 /\ n < Len(globalQ) => ~globalQ[n + 1].ready

\* dequeueBulk into localBatch
GrabBatch(w) ==
  LET n == Lesser(MaxBatch, ReadyPrefix) IN
  /\ AtLabel(w, "grab")
  /\ IF n = 0
     THEN /\ Goto(w, "steal")
          /\ left' = [left EXCEPT ![w] = Workers \ {w}]
          /\ UNCHANGED <<cur, batch, globalQ>>
     ELSE /\ RunNext(w, globalQ[1].job)
          /\ batch' = [batch EXCEPT ![w] = [k \in 1..(n - 1) |-> globalQ[k + 1].job]]
          /\ globalQ' = SubSeq(globalQ, n + 1, Len(globalQ))
          /\ UNCHANGED left
  /\ UNCHANGED <<ticket, local, submitVars, controlVars, notifier, sleeping, wake, runs>>

\* The rest of the batch goes to the local deque, which is empty at this point.
\* What pushBulk does not take would be dropped when localBatch is overwritten.
PushRest(w) ==
  /\ AtLabel(w, "run") /\ batch[w] # <<>>
  /\ local' = [local EXCEPT ![w] =
                 @ \o SubSeq(batch[w], 1, Lesser(Len(batch[w]), LocalCapacity - Len(@)))]
  /\ batch' = [batch EXCEPT ![w] = <<>>]
  /\ StartWake(w)
  /\ UNCHANGED <<pc, cur, left, ticket, globalQ, submitVars, controlVars,
                 notifier, sleeping, runs>>

\* One victim after the other; a steal fails on an empty deque or to a rival.
StealFrom(w, v) ==
  /\ AtLabel(w, "steal") /\ v \in left[w]
  /\ \/ /\ local[v] # <<>>
        /\ RunNext(w, Head(local[v]))
        /\ local' = [local EXCEPT ![v] = Tail(@)]
        /\ left' = [left EXCEPT ![w] = {}]
     \/ left' = [left EXCEPT ![w] = @ \ {v}] /\ UNCHANGED <<pc, cur, local>>
  /\ UNCHANGED <<batch, ticket, globalQ, submitVars, controlVars,
                 notifier, sleeping, wake, runs>>

\* The spinning loop: its first successful dequeue, or its last failed one.
SpinOnGlobal(w) ==
  /\ AtLabel(w, "steal") /\ left[w] = {}
  /\ IF ReadyPrefix > 0
     THEN RunNext(w, globalQ[1].job) /\ globalQ' = Tail(globalQ)
     ELSE Goto(w, "announce") /\ UNCHANGED <<cur, globalQ>>
  /\ UNCHANGED <<batch, left, ticket, local, submitVars, controlVars,
                 notifier, sleeping, wake, runs>>

\* The job returns; all it submitted has been accepted or run.
FinishJob(w) ==
  /\ AtLabel(w, "run") /\ batch[w] = <<>> /\ sub[w] = "idle"
  /\ runs' = [runs EXCEPT ![cur[w]] = @ + 1]
  /\ cur' = [cur EXCEPT ![w] = None]
  /\ Goto(w, "loop")
  /\ UNCHANGED <<batch, left, ticket, queueVars, submitVars, controlVars,
                 notifier, sleeping, wake>>

(***************************************************************************)
(* workerLoop: the event count.  The worker announces itself, takes a      *)
(* ticket, looks at the state and at every queue once more, and waits for  *)
(* the notifier to differ from the ticket.                                 *)
(***************************************************************************)
sleepUnchanged == <<cur, batch, queueVars, submitVars, controlVars, wake, runs>>

Announce(w) ==
  /\ AtLabel(w, "announce")
  /\ sleeping' = sleeping + 1
  /\ Goto(w, "ticket")
  /\ UNCHANGED <<left, ticket, notifier, sleepUnchanged>>

TakeTicket(w) ==
  /\ AtLabel(w, "ticket")
  /\ ticket' = [ticket EXCEPT ![w] = notifier]
  /\ Goto(w, "checkState")
  /\ UNCHANGED <<left, notifier, sleeping, sleepUnchanged>>

\* mutant: does not look at the state between the ticket and the wait
CheckStateSkipped(w) ==
  /\ AtLabel(w, "checkState")
  /\ Goto(w, "checkGlobal")
  /\ UNCHANGED <<left, ticket, notifier, sleeping, sleepUnchanged>>

CheckState(w) ==
  /\ AtLabel(w, "checkState")
  /\ IF state = "RUNNING"
     THEN Goto(w, "checkGlobal") /\ UNCHANGED sleeping
     ELSE Goto(w, "exited") /\ sleeping' = sleeping - 1
  /\ UNCHANGED <<left, ticket, notifier, sleepUnchanged>>

\* mutant: does not look at the global queue again before it sleeps
CheckGlobalSkipped(w) ==
  /\ AtLabel(w, "checkGlobal")
  /\ Goto(w, "checkLocals") /\ left' = [left EXCEPT ![w] = Workers]
  /\ UNCHANGED <<ticket, notifier, sleeping, sleepUnchanged>>

\* sizeApprox of the global queue counts reserved places.
CheckGlobal(w) ==
  /\ AtLabel(w, "checkGlobal")
  /\ IF globalQ # <<>>
     THEN Goto(w, "retract") /\ UNCHANGED left
     ELSE Goto(w, "checkLocals") /\ left' = [left EXCEPT ![w] = Workers]
  /\ UNCHANGED <<ticket, notifier, sleeping, sleepUnchanged>>

CheckLocal(w, v) ==
  /\ AtLabel(w, "checkLocals") /\ v \in left[w]
  /\ IF local[v] # <<>>
     THEN Goto(w, "retract") /\ left' = [left EXCEPT ![w] = {}]
     ELSE /\ left' = [left EXCEPT ![w] = @ \ {v}]
          /\ Goto(w, IF left[w] = {v} THEN "wait" ELSE "checkLocals")
  /\ UNCHANGED <<ticket, notifier, sleeping, sleepUnchanged>>

\* mutant: sleeps without comparing the notifier with the ticket
WaitAnyway(w) ==
  /\ AtLabel(w, "wait")
  /\ Goto(w, "blocked")
  /\ UNCHANGED <<left, ticket, notifier, sleeping, sleepUnchanged>>

\* atomic::wait(ticket): sleeps while the value is the ticket; a thread that is
\* notified looks again.
Wait(w) ==
  /\ AtLabel(w, "wait")
  /\ Goto(w, IF notifier = ticket[w] THEN "blocked" ELSE "retract")
  /\ UNCHANGED <<left, ticket, notifier, sleeping, sleepUnchanged>>

Retract(w) ==
  /\ AtLabel(w, "retract")
  /\ sleeping' = sleeping - 1
  /\ Goto(w, "loop")
  /\ UNCHANGED <<left, ticket, notifier, sleepUnchanged>>

(***************************************************************************)
(* start(): the workers are created, count the latch down and spin until   *)
(* the state is RUNNING.                                                   *)
(***************************************************************************)
startUnchanged == <<cur, batch, left, ticket, queueVars, submitVars, discarded,
                    notifier, sleeping, wake, runs>>

StartBegin ==
  /\ ctl = "idle" /\ state = "STOPPED" /\ starts < MaxStarts
  /\ state' = "STARTING" /\ ctl' = "starting"
  /\ starts' = starts + 1
  /\ latch' = Cardinality(Workers)
  /\ pc' = [w \in Workers |-> "init"]
  /\ UNCHANGED startUnchanged

WorkerInit(w) ==
  /\ AtLabel(w, "init")
  /\ latch' = latch - 1
  /\ Goto(w, "await")
  /\ UNCHANGED <<state, ctl, starts, startUnchanged>>

StartEnd ==
  /\ ctl = "starting" /\ latch = 0
  /\ state' = "RUNNING" /\ ctl' = "idle"
  /\ UNCHANGED <<pc, latch, starts, startUnchanged>>

AwaitRunning(w) ==
  /\ AtLabel(w, "await") /\ state = "RUNNING"
  /\ Goto(w, "loop")
  /\ UNCHANGED <<controlVars, cur, batch, left, ticket, queueVars, submitVars,
                 notifier, sleeping, wake, runs>>

(***************************************************************************)
(* stop(): raises the notifier, wakes everybody, joins every worker and    *)
(* destroys the workers with what is left in their deques.                 *)
(***************************************************************************)
stopUnchanged == <<cur, batch, left, ticket, globalQ, submitVars,
                   latch, starts, sleeping, wake, runs>>

StopBegin ==
  /\ ctl = "idle" /\ state = "RUNNING"
  /\ state' = "STOPPING" /\ ctl' = "stopAdd"
  /\ UNCHANGED <<pc, local, notifier, discarded, stopUnchanged>>

StopAdd ==
  /\ ctl = "stopAdd"
  /\ notifier' = notifier + 1
  /\ ctl' = "stopNotify"
  /\ UNCHANGED <<state, pc, local, discarded, stopUnchanged>>

StopNotifyAll ==
  /\ ctl = "stopNotify"
  /\ pc' = [w \in Workers |-> IF pc[w] = "blocked" THEN "wait" ELSE pc[w]]
  /\ ctl' = "join"
  /\ UNCHANGED <<state, local, notifier, discarded, stopUnchanged>>

StopJoin ==
  /\ ctl = "join"
  /\ \A w \in Workers : pc[w] = "exited"
  /\ pc' = [w \in Workers |-> "off"]
  /\ discarded' = discarded \cup UNION {ToSet(local[w]) : w \in Workers}
  /\ local' = [w \in Workers |-> <<>>]
  /\ state' = "STOPPED" /\ ctl' = "idle"
  /\ UNCHANGED <<notifier, stopUnchanged>>
-----------------------------------------------------------------------------
WakeStep(p) == WakeCheck(p) \/ WakeAdd(p) \/ WakeNotify(p)

\* Steps inside a call of run / runBulk.
SubmitStep(p) == \/ p \in Workers /\ PushLocal(p)
                 \/ Enqueue(p) \/ Fill(p) \/ RunInline(p)

\* Steps a worker thread takes by itself.
WorkerStep(w) ==
  \/ WorkerInit(w) \/ AwaitRunning(w)
  \/ LoopTop(w) \/ PopLocal(w) \/ GrabBatch(w) \/ PushRest(w)
  \/ (\E v \in Workers : StealFrom(w, v)) \/ SpinOnGlobal(w) \/ FinishJob(w)
  \/ Announce(w) \/ TakeTicket(w) \/ CheckState(w) \/ CheckGlobal(w)
  \/ (\E v \in Workers : CheckLocal(w, v)) \/ Wait(w) \/ Retract(w)

ControlStep == StartEnd \/ StopAdd \/ StopNotifyAll \/ StopJoin

Next == \/ \E p \in Procs :
             \/ \E n \in 1..MaxBulk : RunBulk(p, n)
             \/ RunJob(p)
             \/ SubmitStep(p) \/ WakeStep(p)
        \/ \E w \in Workers : WorkerStep(w)
        \/ StartBegin \/ StopBegin \/ ControlStep

Spec == Init /\ [][Next]_vars

\* Threads are scheduled, jobs return, and a start or stop goes on once begun.
\* Nobody has to submit, to start or to stop.
ThreadStep(p) == SubmitStep(p) \/ WakeStep(p) \/ (p \in Workers /\ WorkerStep(p))
Fairness == /\ \A p \in Procs : WF_vars(ThreadStep(p))
            /\ WF_vars(ControlStep)

FairSpec == Spec /\ Fairness
-----------------------------------------------------------------------------
\* Values stay in the ranges the declarations above give them.
TypeOK ==
  /\ state \in PoolState
  /\ notifier \in Nat /\ sleeping \in 0..Cardinality(Workers)
  /\ globalQ \in Seq([job : Job, by : Procs, ready : BOOLEAN])
  /\ Len(globalQ) <= GlobalCapacity
  /\ \A w \in Workers : local[w] \in Seq(Job) /\ Len(local[w]) <= LocalCapacity
  /\ pc \in [Workers -> {"off", "init", "await", "loop", "pop", "grab", "run",
                         "steal", "announce", "ticket", "checkState",
                         "checkGlobal", "checkLocals", "wait", "blocked",
                         "retract", "exited"}]
  /\ cur \in [Workers -> Job \cup {None}]
  /\ batch \in [Workers -> Seq(Job)]
  /\ left \in [Workers -> SUBSET Workers]
  /\ ticket \in [Workers -> Nat]
  /\ wake \in [Procs -> {"none", "check", "add", "notify"}]
  /\ sub \in [Procs -> {"idle", "pushLocal", "enqueue", "fill", "inline"}]
  /\ todo \in [Procs -> Seq(Job)]
  /\ ctl \in {"idle", "starting", "stopAdd", "stopNotify", "join"}
  /\ latch \in 0..Cardinality(Workers)
  /\ starts \in 0..MaxStarts /\ submitted \in 0..MaxJobs
  /\ runs \in [Job -> Nat] /\ discarded \subseteq Job

\* In how many places a job is held.
Places(j) == Times(JobsOf(globalQ), j) + TimesIn(local, j) + TimesIn(batch, j)
             + Times(cur, j) + TimesIn(todo, j)

\* run / runBulk / workerLoop: every job submitted is in one place only, or has
\* run exactly once, or was destroyed with a deque by stop(); batches, steals,
\* full queues and restarts neither lose nor duplicate one.
JobsAccounted ==
  \A j \in Job :
    Places(j) + runs[j] + (IF j \in discarded THEN 1 ELSE 0)
      = IF j <= submitted THEN 1 ELSE 0

\* workerLoop / wakeUpOneWorker: _sleepingWorkerCount counts the workers between their
\* fetch_add and fetch_sub on every path, also through stop() and the next start(), so that
\* a producer never skips a needed wakeup; a worker that goes to sleep leaves its deque
\* empty; and while the pool runs and a job is queued, some worker is not asleep, or some
\* thread has still to publish its job or to look whether anybody sleeps.
InSleepSection == {w \in Workers : pc[w] \in {"ticket", "checkState",
                     "checkGlobal", "checkLocals", "wait", "blocked", "retract"}}
Asleep(w) == pc[w] = "blocked" \/ (pc[w] = "wait" /\ ticket[w] = notifier)
JobQueued == globalQ # <<>> \/ \E w \in Workers : local[w] # <<>>
NoLostWakeup ==
  /\ sleeping = Cardinality(InSleepSection)
  /\ \A w \in InSleepSection : local[w] = <<>>
  /\ state = "RUNNING" /\ JobQueued /\ (\A w \in Workers : Asleep(w))
       => \E p \in Procs : wake[p] # "none" \/ sub[p] = "fill"

\* run: while the pool runs, the jobs submitted get run, but for those that a stop()
\* before has destroyed.
Unfinished == {j \in 1..submitted : runs[j] = 0} \ discarded
JobsRun == (state = "RUNNING" /\ Unfinished # {}) ~> (state # "RUNNING" \/ Unfinished = {})

\* stop(): it returns, provided every worker has entered workerLoop.
StopCompletes ==
  (state = "STOPPING" /\ \A w \in Workers : pc[w] # "await")
    ~> state = "STOPPED"
=============================================================================
