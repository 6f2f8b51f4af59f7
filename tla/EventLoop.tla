----------------------------- MODULE EventLoop -----------------------------
(***************************************************************************)
(* KzNet::EventLoop (src/KzNet/EventLoop.h, .cpp) as EventLoopThread runs  *)
(* it: the task queues L1 and L2, coalesced wakeups through an eventfd,    *)
(* the limit on the tasks of one turn, quit() and the final drain.         *)
(*                                                                         *)
(* The lock-free L1 is used through FifoQueue (ArrayMpscQueue implements   *)
(* it): places are reserved in one step and filled one by one, popBulk     *)
(* takes the filled entries at the front, sizeApprox counts reserved       *)
(* places.  A push may take fewer tasks than fit, even none: its copies of *)
(* the indices may be old.  L2 is guarded by a SpinMutex, so a critical    *)
(* section on it is one step.  queueInLoop(f) is queueInLoopBatch of one   *)
(* task.                                                                   *)
(*                                                                         *)
(* Channels other than the wakeup channel and timers appear as what they   *)
(* do here: they make poll return, and their callbacks may queue tasks.    *)
(***************************************************************************)
EXTENDS Integers, Sequences, FiniteSets, Counting

CONSTANTS Producers, \* threads other than the loop's that queue tasks
          Loop,      \* the loop's own thread, which queues tasks as well
          Capacity,  \* kMpscCapacity
          BatchSize, \* kBatchSize
          MaxTasks,  \* kMaxTasks
          MaxBulk,   \* bound: tasks in one queueInLoopBatch
          MaxJobs    \* bound: tasks queued in a behaviour

Callers == Producers \cup {Loop}

ASSUME LoopAssumption ==
  /\ Loop \notin Producers /\ IsFiniteSet(Producers)
  /\ {Capacity, BatchSize, MaxTasks, MaxBulk} \subseteq Nat \ {0}
  /\ BatchSize <= MaxTasks
  /\ MaxJobs \in Nat

VARIABLES
  l1,        \* _pendingQueue: entries [job, by, ready]
  overflow,  \* _overflowQueue, L2
  cache,     \* _l2Cache from _l2CacheIndex on
  wakingUp,  \* _isWakingUp
  eventfd,   \* whether the counter of _wakeupFd is not 0
  quit,      \* _quit
  pc,        \* where the loop thread stands
  active,    \* whether poll reported the wakeup channel
  draining,  \* doPendingJobs is called by the final drain
  jobs,      \* what is left to run of the batch popped from L1
  quota,     \* toProcess: what is left to run from the cache
  processed, \* processedCount
  call,      \* where each thread stands in queueInLoop
  todo,      \* tasks of that call not queued yet
  ctl,       \* where the thread that calls quit() from outside stands
  submitted, \* history: number of tasks; they are numbered from 1
  runs,      \* history: how often each task has run
  early,     \* history: tasks queued by the loop thread before loop()
  accepted   \* history: tasks queued when quit was first stored

queues == <<l1, overflow, cache>>
turn == <<active, draining, jobs, quota, processed>>
calls == <<call, todo, submitted>>
vars == <<queues, turn, calls, wakingUp, eventfd, quit, pc, ctl, runs,
          early, accepted>>

Job == 1..MaxJobs

Init ==
  /\ l1 = <<>> /\ overflow = <<>> /\ cache = <<>>
  /\ wakingUp = FALSE /\ eventfd = FALSE /\ quit = FALSE
  /\ pc = "constructed"
  /\ active = FALSE /\ draining = FALSE
  /\ jobs = <<>> /\ quota = 0 /\ processed = 0
  /\ call = [p \in Callers |-> "idle"]
  /\ todo = [p \in Callers |-> <<>>]
  /\ ctl = "idle"
  /\ submitted = 0
  /\ runs = [j \in Job |-> 0]
  /\ early = {} /\ accepted = {}

Lesser(a, b) == IF a <= b THEN a ELSE b
Calling(p, label) == call' = [call EXCEPT ![p] = label]

\* _callingPendingJobs: the loop thread is inside doPendingJobs.
CallingPendingJobs ==
  pc \in {"popL1", "runL1", "refill", "runL2", "leftover", "return"}

\* Where the loop thread runs callbacks that may queue tasks: the thread's
\* initialisation callback, channel callbacks, and the tasks themselves.
InCallback == pc \in {"constructed", "handle", "channels", "runL1", "runL2"}

(***************************************************************************)
(* queueInLoop / queueInLoopBatch                                          *)
(***************************************************************************)
\* Whether the L1 push may report that it took k of n tasks.
PushOutcome(k, n) == k <= Lesser(n, Capacity - Len(l1))

Queue(p, n, k) ==
  LET new == [i \in 1..n |-> submitted + i] IN
  /\ call[p] = "idle" /\ PushOutcome(k, n)
  /\ IF p = Loop THEN InCallback ELSE pc # "constructed" /\ pc # "ended"
  /\ submitted + n <= MaxJobs
  /\ submitted' = submitted + n
  /\ l1' = l1 \o [i \in 1..k |-> [job |-> new[i], by |-> p, ready |-> FALSE]]
  /\ todo' = [todo EXCEPT ![p] = SubSeq(new, k + 1, n)]
  /\ Calling(p, IF k > 0 THEN "fill" ELSE "overflow")
  /\ early' = IF pc = "constructed" THEN early \cup {new[i] : i \in 1..n} ELSE early
  /\ UNCHANGED <<overflow, cache, turn, wakingUp, eventfd, quit, pc, ctl, runs, accepted>>

AfterL1(p) == Calling(p, IF todo[p] = <<>> THEN "signal" ELSE "overflow")

Fill(p) ==
  LET mine == {i \in DOMAIN l1 : l1[i].by = p /\ ~l1[i].ready}
      i == CHOOSE k \in mine : \A m \in mine : k <= m
  IN
  /\ call[p] = "fill"
  /\ l1' = [l1 EXCEPT ![i].ready = TRUE]
  /\ IF mine = {i} THEN AfterL1(p) ELSE UNCHANGED call
  /\ UNCHANGED <<overflow, cache, turn, todo, submitted, wakingUp, eventfd,
                 quit, pc, ctl, runs, early, accepted>>

\* Under _overflowMutex.
PushOverflow(p) ==
  /\ call[p] = "overflow"
  /\ overflow' = overflow \o todo[p]
  /\ todo' = [todo EXCEPT ![p] = <<>>]
  /\ Calling(p, "signal")
  /\ UNCHANGED <<l1, cache, turn, submitted, wakingUp, eventfd, quit, pc, ctl,
                 runs, early, accepted>>

\* The thread that turns _isWakingUp on writes the eventfd; the loop thread
\* signals only from inside doPendingJobs.
Signal(p) ==
  /\ call[p] = "signal"
  /\ IF (p # Loop \/ CallingPendingJobs) /\ ~wakingUp
     THEN wakingUp' = TRUE /\ Calling(p, "write")
     ELSE Calling(p, "idle") /\ UNCHANGED wakingUp
  /\ UNCHANGED <<queues, turn, todo, submitted, eventfd, quit, pc, ctl, runs,
                 early, accepted>>

Wakeup(p) ==
  /\ call[p] = "write"
  /\ eventfd' = TRUE
  /\ Calling(p, "idle")
  /\ UNCHANGED <<queues, turn, todo, submitted, wakingUp, quit, pc, ctl, runs,
                 early, accepted>>

(***************************************************************************)
(* quit(): from another thread it also wakes the loop.                     *)
(***************************************************************************)
\* Tasks whose queueInLoop has returned; they sit in a queue or are running.
Accepted ==
  {j \in 1..submitted :
     /\ \A p \in Callers : \A i \in DOMAIN todo[p] : todo[p][i] # j
     /\ \A i \in DOMAIN l1 : l1[i].job = j => l1[i].ready}

SetQuit == /\ quit' = TRUE
           /\ accepted' = IF quit THEN accepted ELSE Accepted

\* mutant: quit() from another thread does not wake the loop
QuitFromOutsideSilent ==
  /\ ctl = "idle" /\ pc \notin {"constructed", "ended"}
  /\ SetQuit
  /\ ctl' = "done"
  /\ UNCHANGED <<queues, turn, calls, wakingUp, eventfd, pc, runs, early>>

QuitFromOutside ==
  /\ ctl = "idle" /\ pc \notin {"constructed", "ended"}
  /\ SetQuit
  /\ ctl' = "wakeup"
  /\ UNCHANGED <<queues, turn, calls, wakingUp, eventfd, pc, runs, early>>

QuitWakeup ==
  /\ ctl = "wakeup"
  /\ eventfd' = TRUE
  /\ ctl' = "done"
  /\ UNCHANGED <<queues, turn, calls, wakingUp, quit, pc, runs, early, accepted>>

QuitInCallback ==
  /\ InCallback /\ pc # "constructed" /\ call[Loop] = "idle" /\ ~quit
  /\ SetQuit
  /\ UNCHANGED <<queues, turn, calls, wakingUp, eventfd, pc, ctl, runs, early>>

(***************************************************************************)
(* The loop thread: EventLoopThread::threadFunc and EventLoop::loop.       *)
(***************************************************************************)
\* A step of the loop thread's own code: no queueInLoop of its is under way.
At(from, to) == pc = from /\ call[Loop] = "idle" /\ pc' = to

\* startLoop() returns in the other thread.
SemRelease ==
  /\ At("constructed", "released")
  /\ UNCHANGED <<queues, turn, calls, wakingUp, eventfd, quit, ctl, runs, early, accepted>>

EnterLoop ==
  /\ At("released", "top")
  /\ quit' = FALSE
  /\ UNCHANGED <<queues, turn, calls, wakingUp, eventfd, ctl, runs, early, accepted>>

LoopOrDrain ==
  /\ At("top", IF quit THEN "begin" ELSE "poll")
  /\ draining' = quit
  /\ UNCHANGED <<queues, active, jobs, quota, processed, calls, wakingUp, eventfd, quit,
                 ctl, runs, early, accepted>>

\* epoll_wait returns because of the wakeup channel; the callbacks of other
\* channels run before or after its own.
Poll ==
  /\ At("poll", "handle") /\ eventfd
  /\ active' = TRUE
  /\ UNCHANGED <<queues, draining, jobs, quota, processed, calls, wakingUp,
                 eventfd, quit, ctl, runs, early, accepted>>

\* epoll_wait returns for another reason: another channel or the timeout.
PollOther ==
  /\ At("poll", "handle") /\ ~eventfd
  /\ UNCHANGED <<queues, turn, calls, wakingUp, eventfd, quit, ctl, runs, early, accepted>>

ReadEventfd ==
  /\ At("handle", "reset") /\ active
  /\ eventfd' = FALSE
  /\ UNCHANGED <<queues, turn, calls, wakingUp, quit, ctl, runs, early, accepted>>

\* mutant: leaves _isWakingUp on
ResetWakingUpNot ==
  /\ At("reset", "channels")
  /\ active' = FALSE
  /\ UNCHANGED <<queues, draining, jobs, quota, processed, calls, wakingUp,
                 eventfd, quit, ctl, runs, early, accepted>>

ResetWakingUp ==
  /\ At("reset", "channels")
  /\ wakingUp' = FALSE
  /\ active' = FALSE
  /\ UNCHANGED <<queues, draining, jobs, quota, processed, calls, eventfd, quit,
                 ctl, runs, early, accepted>>

\* The channels and the timers are done.
EndChannels ==
  /\ \/ At("channels", "begin")
     \/ At("handle", "begin") /\ ~active
  /\ UNCHANGED <<queues, turn, calls, wakingUp, eventfd, quit, ctl, runs, early, accepted>>

(***************************************************************************)
(* doPendingJobs                                                           *)
(***************************************************************************)
Begin ==
  /\ At("begin", "popL1")
  /\ processed' = 0
  /\ UNCHANGED <<queues, active, draining, jobs, quota, calls, wakingUp, eventfd,
                 quit, ctl, runs, early, accepted>>

\* popBulk: the entries before the first one that is not filled yet.
Poppable == LET filled == {n \in 0..Lesser(BatchSize, Len(l1)) :
                             \A i \in 1..n : l1[i].ready}
            IN  CHOOSE n \in filled : \A m \in filled : m <= n

PopL1 ==
  LET n == Poppable IN
  /\ pc = "popL1"
  /\ \/ /\ processed >= MaxTasks /\ At("popL1", "leftover")
        /\ UNCHANGED <<l1, jobs, processed>>
     \/ /\ processed < MaxTasks /\ At("popL1", IF n > 0 THEN "runL1" ELSE "refill")
        /\ jobs' = [i \in 1..n |-> l1[i].job]
        /\ l1' = SubSeq(l1, n + 1, Len(l1))
        /\ processed' = processed + n
  /\ UNCHANGED <<overflow, cache, active, draining, quota, calls, wakingUp,
                 eventfd, quit, ctl, runs, early, accepted>>

Ran(j) == runs' = [runs EXCEPT ![j] = @ + 1]

RunL1 ==
  /\ At("runL1", IF Len(jobs) > 1 THEN "runL1"
                 ELSE IF processed < MaxTasks THEN "popL1" ELSE "refill")
  /\ Ran(Head(jobs))
  /\ jobs' = Tail(jobs)
  /\ UNCHANGED <<queues, active, draining, quota, processed, calls, wakingUp,
                 eventfd, quit, ctl, early, accepted>>

\* min(size, size_t(kMaxTasks - processedCount)): a negative difference is a
\* size_t larger than any size.
ToProcess(size) == IF processed > MaxTasks THEN size
                   ELSE Lesser(size, MaxTasks - processed)

\* mutant: swaps without checking that the cache is used up
RefillAlways ==
  /\ pc = "refill"
  /\ cache' = overflow /\ overflow' = <<>>
  /\ quota' = ToProcess(Len(cache'))
  /\ processed' = processed + quota'
  /\ At("refill", IF cache' = <<>> THEN "leftover"
                  ELSE IF quota' = 0 THEN "popL1" ELSE "runL2")
  /\ UNCHANGED <<l1, active, draining, jobs, calls, wakingUp, eventfd, quit, ctl,
                 runs, early, accepted>>

\* The swap with _overflowQueue is under _overflowMutex.
Refill ==
  /\ pc = "refill"
  /\ \/ cache = <<>> /\ cache' = overflow /\ overflow' = <<>>
     \/ cache # <<>> /\ UNCHANGED <<cache, overflow>>
  /\ quota' = ToProcess(Len(cache'))
  /\ processed' = processed + quota'
  /\ At("refill", IF cache' = <<>> THEN "leftover"
                  ELSE IF quota' = 0 THEN "popL1" ELSE "runL2")
  /\ UNCHANGED <<l1, active, draining, jobs, calls, wakingUp, eventfd, quit, ctl,
                 runs, early, accepted>>

RunL2 ==
  /\ At("runL2", IF quota > 1 THEN "runL2" ELSE "popL1")
  /\ Ran(Head(cache))
  /\ cache' = Tail(cache)
  /\ quota' = quota - 1
  /\ UNCHANGED <<l1, overflow, active, draining, jobs, processed, calls, wakingUp,
                 eventfd, quit, ctl, early, accepted>>

\* With something left in L1 or in the cache the loop wakes itself, as in
\* queueInLoop.
Leftover ==
  /\ At("leftover", "return")
  /\ IF l1 # <<>> \/ cache # <<>> THEN Calling(Loop, "signal") ELSE UNCHANGED call
  /\ UNCHANGED <<queues, turn, todo, submitted, wakingUp, eventfd, quit, ctl,
                 runs, early, accepted>>

\* mutant: the final drain is one call of doPendingJobs
ReturnOnce ==
  /\ At("return", IF draining THEN "ended" ELSE "top")
  /\ UNCHANGED <<queues, turn, calls, wakingUp, eventfd,
                 quit, ctl, runs, early, accepted>>

\* doPendingJobs returns, in the final drain to the check under the mutex.
Return ==
  /\ \/ ~draining /\ At("return", "top")
     \/ draining /\ queues = <<<<>>, <<>>, <<>>>> /\ At("return", "ended")
     \/ draining /\ queues # <<<<>>, <<>>, <<>>>> /\ At("return", "begin")
  /\ UNCHANGED <<queues, turn, calls, wakingUp, eventfd,
                 quit, ctl, runs, early, accepted>>

LoopStep ==
  \/ SemRelease \/ EnterLoop \/ LoopOrDrain \/ Poll \/ ReadEventfd \/ ResetWakingUp
  \/ EndChannels \/ Begin \/ PopL1 \/ RunL1 \/ Refill \/ RunL2 \/ Leftover \/ Return

CallStep(p) == Fill(p) \/ PushOverflow(p) \/ Signal(p) \/ Wakeup(p)

Next ==
  \/ LoopStep \/ PollOther
  \/ \E p \in Callers :
       CallStep(p) \/ \E n \in 1..MaxBulk : \E k \in 0..n : Queue(p, n, k)
  \/ QuitFromOutside \/ QuitWakeup \/ QuitInCallback

\* Threads keep running; nothing makes a thread queue tasks or quit, and no
\* other channel or timeout is counted on to end a poll.
Fairness ==
  /\ WF_vars(LoopStep \/ CallStep(Loop))
  /\ WF_vars(QuitWakeup)
  /\ \A p \in Producers : WF_vars(CallStep(p))

Spec == Init /\ [][Next]_vars
FairSpec == Spec /\ Fairness

(***************************************************************************)
(* Properties                                                              *)
(***************************************************************************)
TypeOK ==
  /\ l1 \in Seq([job : Job, by : Callers, ready : BOOLEAN]) /\ Len(l1) <= Capacity
  /\ overflow \in Seq(Job) /\ cache \in Seq(Job) /\ jobs \in Seq(Job)
  /\ {wakingUp, eventfd, quit, active, draining} \subseteq BOOLEAN
  /\ pc \in {"constructed", "released", "top", "poll", "handle", "reset",
             "channels", "begin", "popL1", "runL1", "refill", "runL2",
             "leftover", "return", "ended"}
  /\ {quota, processed} \subseteq Nat
  /\ call \in [Callers -> {"idle", "fill", "overflow", "signal", "write"}]
  /\ todo \in [Callers -> Seq(Job)]
  /\ ctl \in {"idle", "wakeup", "done"}
  /\ submitted \in 0..MaxJobs
  /\ runs \in [Job -> Nat]
  /\ early \subseteq Job /\ accepted \subseteq Job

Elements(s) == {s[i] : i \in DOMAIN s}
Places(j) == Times(JobsOf(l1), j) + Times(overflow, j) + Times(cache, j)
             + Times(jobs, j) + TimesIn(todo, j)

\* A task is held in exactly one place until it has run, and runs once: the
\* split of a batch between L1 and L2, the swap of L2 into the cache and the
\* interrupted cache lose and repeat nothing ("保证不丢任务", EventLoop.h:76).
RunOnce == \A j \in 1..submitted : Places(j) + runs[j] = 1

\* What will end a poll: the eventfd is written or about to be, or the flag
\* is off and a thread has yet to try it.
WakeupComing == \/ eventfd
                \/ \E p \in Callers : call[p] = "write"
                \/ ~wakingUp /\ \E p \in Producers : call[p] # "idle"

Pending == {j \in Accepted \ early : runs[j] = 0}

\* "如果是因为达到 kMaxTasks 限制而退出的 ... 必须唤醒自己" (EventLoop.cpp:166-169): leaving
\* at kMaxTasks with tasks to do, the loop is to wake itself.  It does not look at
\* _overflowQueue, and may go to poll with nothing but tasks there and no wakeup coming.
Stranded == /\ pc = "poll" /\ processed >= MaxTasks
            /\ Pending # {} /\ Pending \subseteq Elements(overflow) /\ ~WakeupComing

\* The final drain runs every task that was queued when quit was stored.
QuitRunsAccepted == pc = "ended" => \A j \in accepted : runs[j] = 1

\* Wakeups are coalesced by a flag reset after the eventfd is read, callers that find it
\* on write nothing, and a turn may stop at a place of L1 that is not filled or at kMaxTasks.
\* Tasks queued by other threads, or by the loop thread once it is in loop(), are run
\* without another event or the timeout of poll, but for the stranded ones.
JobsRun == Pending # {} ~> (Pending = {} \/ Stranded \/ pc = "ended")

\* Once loop() is entered, a stored quit ends it.
QuitHonoured == (quit /\ pc \notin {"constructed", "released"}) ~> (pc = "ended")
=============================================================================
