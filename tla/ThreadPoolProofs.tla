-------------------------- MODULE ThreadPoolProofs --------------------------
(***************************************************************************)
(* Proofs about ThreadPool, whatever the number of workers and clients and *)
(* the capacities: no job is lost or run twice, and no wakeup is missed.   *)
(***************************************************************************)
EXTENDS ThreadPool, CountingProofs

(***************************************************************************)
(* The inductive invariant of the accounts.                                *)
(***************************************************************************)
Label == {"off", "init", "await", "loop", "pop", "grab", "run", "steal", "announce", "ticket",
          "checkState", "checkGlobal", "checkLocals", "wait", "blocked", "retract", "exited"}

Flags ==
  /\ state \in PoolState /\ notifier \in Nat
  /\ pc \in [Workers -> Label] /\ ticket \in [Workers -> Nat]
  /\ wake \in [Procs -> {"none", "check", "add", "notify"}]
  /\ sub \in [Procs -> {"idle", "pushLocal", "enqueue", "fill", "inline"}]

Data ==
  /\ globalQ \in Entries(Job, Procs)
  /\ local \in [Workers -> Seq(Job)] /\ batch \in [Workers -> Seq(Job)]
  /\ cur \in [Workers -> Job \cup {None}]
  /\ todo \in [Procs -> Seq(Job)]
  /\ submitted \in 0 .. MaxJobs
  /\ runs \in [Job -> Nat] /\ discarded \subseteq Job

\* A worker that has found its deque empty and looks for work elsewhere, or sleeps.
Searching == {"grab", "steal", "announce", "ticket", "checkState", "checkGlobal", "checkLocals",
              "wait", "blocked", "retract"}

\* workerLoop: a worker has a job in hand exactly while it runs; the rest of a batch
\* waits for it before anything else, next to an empty deque.
Working(w) ==
  /\ pc[w] = "run" <=> cur[w] # None
  /\ batch[w] # <<>> => pc[w] = "run" /\ local[w] = <<>> /\ Len(batch[w]) < MaxBatch
  /\ pc[w] \in Searching => local[w] = <<>>
  /\ sub[w] # "idle" => pc[w] = "run" /\ batch[w] = <<>>

\* run / runBulk: which calls hold jobs that nobody has accepted.
Submitting(p) ==
  /\ sub[p] = "idle" => todo[p] = <<>>
  /\ sub[p] \in {"pushLocal", "enqueue", "inline"} => todo[p] # <<>>

\* start() and stop() find and leave the threads where they expect them.
Phase ==
  /\ state = "STOPPED" => \A w \in Workers : pc[w] = "off"
  /\ ctl = "starting" <=> state = "STARTING"
  /\ ctl = "starting" => \A w \in Workers : pc[w] \in {"init", "await"}
  /\ ctl \in {"stopAdd", "stopNotify", "join"} <=> state = "STOPPING"

Control == (\A w \in Workers : Working(w)) /\ (\A p \in Procs : Submitting(p)) /\ Phase

Accounts == Flags /\ Data /\ Control /\ JobsAccounted

holders == <<local, batch, cur, todo, submitted, runs, discarded>>

\* There are finitely many threads.
LEMMA FiniteThreads == /\ IsFiniteSet(Workers) /\ IsFiniteSet(Procs)
                       /\ Workers \subseteq Procs /\ Workers # {}
<1>1. IsFiniteSet(Procs) /\ Workers \subseteq Procs /\ Workers # {}
  BY PoolAssumption DEF Procs
<1>2. QED
  BY <1>1, FS_Subset
-----------------------------------------------------------------------------
\* How often a job is in each place.
LEMMA CountsType ==
  ASSUME Data, NEW j
  PROVE  /\ Times(JobsOf(globalQ), j) \in Nat
         /\ TimesIn(local, j) \in Nat /\ TimesIn(batch, j) \in Nat
         /\ Times(cur, j) \in Nat /\ TimesIn(todo, j) \in Nat
<1>1. JobsOf(globalQ) \in Seq(Job)
  BY JobsOfType DEF Data
<1>2. Times(JobsOf(globalQ), j) \in Nat
  BY <1>1, TimesSeq
<1>3. ASSUME NEW D, IsFiniteSet(D), NEW g \in [D -> Seq(Job)] PROVE TimesIn(g, j) \in Nat
  <2>1. IsFiniteSet(DOMAIN g) /\ \A p \in DOMAIN g : g[p] \in Seq(Job)
    BY <1>3
  <2>2. QED
    BY <2>1, TimesInType
<1>4. TimesIn(local, j) \in Nat /\ TimesIn(batch, j) \in Nat /\ TimesIn(todo, j) \in Nat
  BY <1>3, FiniteThreads DEF Data
<1>5. IsFiniteSet(DOMAIN cur)
  BY FiniteThreads DEF Data
<1>6. Times(cur, j) \in Nat
  BY <1>5, TimesType
<1>7. QED
  BY <1>2, <1>4, <1>6

\* One deque, batch or list of jobs to submit is replaced.
LEMMA FamilyExcept ==
  ASSUME NEW D, IsFiniteSet(D), NEW g \in [D -> Seq(Job)], NEW d \in D, NEW q \in Seq(Job), NEW j
  PROVE  /\ TimesIn([g EXCEPT ![d] = q], j) = TimesIn(g, j) + Times(q, j) - Times(g[d], j)
         /\ TimesIn(g, j) \in Nat /\ Times(q, j) \in Nat /\ Times(g[d], j) \in Nat
<1>1. IsFiniteSet(DOMAIN g) /\ d \in DOMAIN g /\ \A p \in DOMAIN g : g[p] \in Seq(Job)
  OBVIOUS
<1>2. TimesIn(g, j) \in Nat
  BY <1>1, TimesInType
<1>3. Times(q, j) \in Nat /\ Times(g[d], j) \in Nat
  BY <1>1, TimesSeq
<1>4. QED
  BY ZenonT(40), <1>1, <1>2, <1>3, TimesInExcept

\* A worker takes a job in hand or puts it down.
LEMMA CurExcept ==
  ASSUME Data, NEW w \in Workers, NEW v, NEW j
  PROVE  /\ Times(cur, j) \in Nat
         /\ v = j /\ cur[w] # j => Times([cur EXCEPT ![w] = v], j) = Times(cur, j) + 1
         /\ v # j /\ cur[w] = j => Times([cur EXCEPT ![w] = v], j) = Times(cur, j) - 1
         /\ v # j /\ cur[w] # j => Times([cur EXCEPT ![w] = v], j) = Times(cur, j)
<1>1. IsFiniteSet(DOMAIN cur) /\ w \in DOMAIN cur
  BY FiniteThreads DEF Data
<1>2. Times([cur EXCEPT ![w] = v], j)
        = Times(cur, j) + (IF v = j THEN 1 ELSE 0) - (IF cur[w] = j THEN 1 ELSE 0)
  BY <1>1, TimesExcept
<1>3. Times(cur, j) \in Nat
  BY <1>1, TimesType
<1>4. QED
  BY <1>2, <1>3

\* A step that leaves every job where it is.
LEMMA QuietAccounts ==
  ASSUME Accounts, UNCHANGED holders, globalQ' = globalQ, Flags', Phase',
         \A w \in Workers : /\ pc'[w] = "run" <=> pc[w] = "run"
                            /\ pc'[w] \in Searching => local[w] = <<>>,
         sub' = sub
  PROVE  Accounts'
<1>1. Data'
  BY DEF Accounts, Data, holders
<1>2. JobsAccounted'
  BY DEF Accounts, JobsAccounted, Places, holders
<1>3. \A p \in Procs : Submitting(p)'
  BY DEF Accounts, Control, Submitting, holders
<1>4. \A w \in Workers : Working(w)'
  BY DEF Accounts, Control, Working, holders
<1>5. QED
  BY <1>1, <1>2, <1>3, <1>4 DEF Accounts, Control
-----------------------------------------------------------------------------
(***************************************************************************)
(* The steps that leave the jobs alone.                                    *)
(***************************************************************************)
\* The three steps of waking a worker.
LEMMA WakeAccounts ==
  ASSUME NEW p \in Procs
  PROVE  Accounts /\ WakeStep(p) => Accounts'
<1> SUFFICES ASSUME Accounts, WakeStep(p) PROVE Accounts'
  OBVIOUS
<1>1. UNCHANGED <<holders, globalQ, state, ctl, sub, ticket>>
  BY DEF WakeStep, WakeCheck, WakeAdd, WakeNotify, holders, workerVars, queueVars, submitVars, controlVars
<1>2. \/ pc' = pc
      \/ \E w \in Workers : pc[w] = "blocked" /\ pc' = [pc EXCEPT ![w] = "wait"]
  BY DEF WakeStep, WakeCheck, WakeAdd, WakeNotify, Blocked, Goto, workerVars
<1>3. Flags'
  <2>1. notifier' \in Nat
    BY DEF WakeStep, WakeCheck, WakeAdd, WakeNotify, Accounts, Flags
  <2>2. wake' \in [Procs -> {"none", "check", "add", "notify"}]
    BY DEF WakeStep, WakeCheck, WakeAdd, WakeNotify, Accounts, Flags
  <2>3. pc' \in [Workers -> Label]
    BY <1>2 DEF Accounts, Flags, Label
  <2>4. QED
    BY <1>1, <2>1, <2>2, <2>3 DEF Accounts, Flags
<1>4. Phase'
  BY <1>1, <1>2 DEF Accounts, Control, Phase, Flags
<1>5. \A w \in Workers : /\ pc'[w] = "run" <=> pc[w] = "run"
                         /\ pc'[w] \in Searching => local[w] = <<>>
  BY <1>2 DEF Accounts, Control, Working, Flags, Searching
<1>6. QED
  BY <1>1, <1>3, <1>4, <1>5, QuietAccounts

\* A worker moves on in its loop without taking a job.
LEMMA MoveAccounts ==
  ASSUME Accounts, NEW w \in Workers, NEW label \in Label, Goto(w, label),
         UNCHANGED <<holders, globalQ, state, ctl, sub, wake, notifier>>,
         ticket' \in [Workers -> Nat],
         pc[w] \notin {"off", "run"}, label \notin {"off", "run"},
         pc[w] \in {"init", "await"} => label = "await" \/ state = "RUNNING",
         label \in Searching => local[w] = <<>>
  PROVE  Accounts'
<1>1. pc' = [pc EXCEPT ![w] = label]
  BY DEF Goto
<1>2. Flags'
  BY <1>1 DEF Accounts, Flags
<1>3. Phase'
  BY <1>1 DEF Accounts, Control, Phase, Flags
<1>4. \A v \in Workers : /\ pc'[v] = "run" <=> pc[v] = "run"
                         /\ pc'[v] \in Searching => local[v] = <<>>
  BY <1>1 DEF Accounts, Control, Working, Flags
<1>5. QED
  BY <1>2, <1>3, <1>4, QuietAccounts

\* The turns of workerLoop that find no job, and the steps around sleeping.
LEMMA SleepAccounts ==
  ASSUME NEW w \in Workers
  PROVE  /\ Accounts /\ (\/ WorkerInit(w) \/ AwaitRunning(w) \/ LoopTop(w)
                         \/ Announce(w) \/ TakeTicket(w) \/ CheckState(w) \/ CheckGlobal(w)
                         \/ (\E v \in Workers : CheckLocal(w, v)) \/ Wait(w) \/ Retract(w))
         => Accounts'
<1> SUFFICES ASSUME Accounts,
                    \/ WorkerInit(w) \/ AwaitRunning(w) \/ LoopTop(w)
                    \/ Announce(w) \/ TakeTicket(w) \/ CheckState(w) \/ CheckGlobal(w)
                    \/ (\E v \in Workers : CheckLocal(w, v)) \/ Wait(w) \/ Retract(w)
             PROVE  Accounts'
  OBVIOUS
<1> USE DEF WorkerInit, AwaitRunning, LoopTop, Announce, TakeTicket, CheckState, CheckGlobal,
            CheckLocal, Wait, Retract, AtLabel
<1>1. UNCHANGED <<holders, globalQ, state, ctl, sub, wake, notifier>>
  BY DEF holders, sleepUnchanged, startUnchanged, workerVars, queueVars, submitVars, controlVars
<1>2. ticket' \in [Workers -> Nat]
  <2>1. ticket' = ticket \/ ticket' = [ticket EXCEPT ![w] = notifier]
    BY DEF sleepUnchanged, startUnchanged, workerVars
  <2>2. QED
    BY <2>1 DEF Accounts, Flags
<1>3. PICK label \in Label :
        /\ Goto(w, label) /\ label \notin {"off", "run"} /\ pc[w] \notin {"off", "run"}
        /\ pc[w] \in {"init", "await"} => label = "await" \/ state = "RUNNING"
        /\ label \in Searching => pc[w] \in Searching
  BY DEF Label, Searching
<1>4. label \in Searching => local[w] = <<>>
  BY <1>3 DEF Accounts, Control, Working
<1>5. QED
  BY <1>1, <1>2, <1>3, <1>4, MoveAccounts

\* start() and the first steps of stop().
LEMMA ControlAccounts == Accounts /\ (StartBegin \/ StartEnd \/ StopBegin \/ StopAdd \/ StopNotifyAll) => Accounts'
<1> SUFFICES ASSUME Accounts, StartBegin \/ StartEnd \/ StopBegin \/ StopAdd \/ StopNotifyAll
             PROVE  Accounts'
  OBVIOUS
<1> USE DEF StartBegin, StartEnd, StopBegin, StopAdd, StopNotifyAll
<1>1. UNCHANGED <<holders, globalQ, sub, wake, ticket>>
  BY DEF holders, startUnchanged, stopUnchanged, queueVars, submitVars
<1>2. \/ state = "STOPPED" /\ pc' = [w \in Workers |-> "init"]
      \/ pc' = pc
      \/ pc' = [w \in Workers |-> IF pc[w] = "blocked" THEN "wait" ELSE pc[w]]
  OBVIOUS
<1>3. \A w \in Workers : /\ pc'[w] = "run" <=> pc[w] = "run"
                         /\ pc'[w] \in Searching => local[w] = <<>>
  BY <1>2 DEF Accounts, Control, Working, Phase, Flags, Searching
<1>4. Flags'
  <2>1. pc' \in [Workers -> Label]
    BY <1>2 DEF Accounts, Flags, Label
  <2>2. state' \in PoolState /\ notifier' \in Nat
    BY DEF startUnchanged, stopUnchanged, Accounts, Flags, PoolState
  <2>3. QED
    BY <1>1, <2>1, <2>2 DEF Accounts, Flags
<1>5. Phase'
  BY DEF Accounts, Control, Phase, Flags, PoolState
<1>6. QED
  BY <1>1, <1>3, <1>4, <1>5, QuietAccounts
-----------------------------------------------------------------------------
(***************************************************************************)
(* run / runBulk: submitted jobs go to a deque, the global queue or the    *)
(* caller.                                                                 *)
(***************************************************************************)
\* A submission numbers its jobs after the last one.
LEMMA SubmitAccounts ==
  ASSUME NEW p \in Procs, NEW n \in Nat \ {0}, NEW label \in {"pushLocal", "enqueue", "inline"}
  PROVE  Accounts /\ Submit(p, n, label) => Accounts'
<1> SUFFICES ASSUME Accounts, Submit(p, n, label) PROVE Accounts'
  OBVIOUS
<1> DEFINE new == NumbersAfter(submitted, n)
<1>1. /\ submitted' = submitted + n /\ submitted + n <= MaxJobs
      /\ todo' = [todo EXCEPT ![p] = new] /\ sub' = [sub EXCEPT ![p] = label]
      /\ UNCHANGED <<globalQ, local, batch, cur, runs, discarded>>
      /\ UNCHANGED <<state, ctl, pc, notifier, ticket, wake>>
  BY DEF Submit, NumbersAfter, workerVars, queueVars, controlVars
<1>2. sub[p] = "idle" /\ (p \in Workers => pc[p] = "run" /\ batch[p] = <<>>)
  BY DEF Submit, MaySubmit
<1>3. submitted \in Nat /\ MaxJobs \in Nat
  BY PoolAssumption DEF Accounts, Data
<1>4. new \in Seq(Job) /\ new # <<>>
  <2>1. \A k \in 1 .. n : submitted + k \in Job
    BY <1>1, <1>3 DEF Job
  <2>2. new \in Seq(Job) /\ Len(new) = n
    BY <2>1 DEF NumbersAfter
  <2>3. QED
    BY <2>2
<1> HIDE DEF new
<1>5. Data'
  BY <1>1, <1>3, <1>4 DEF Accounts, Data
<1>6. Flags'
  BY <1>1 DEF Accounts, Flags
<1>7. Control'
  <2>1. \A q \in Procs : Submitting(q)'
    BY <1>1, <1>4 DEF Accounts, Control, Submitting, Data, Flags
  <2>2. \A w \in Workers : Working(w)'
    BY <1>1, <1>2 DEF Accounts, Control, Working, Flags
  <2>3. QED
    BY <1>1, <2>1, <2>2 DEF Accounts, Control, Phase
<1>8. JobsAccounted'
  <2>1. ASSUME NEW j \in Job
        PROVE  TimesIn(todo', j) = TimesIn(todo, j) + (IF j \in submitted + 1 .. submitted + n THEN 1 ELSE 0)
    <3>1. Times(new, j) = IF j \in submitted + 1 .. submitted + n THEN 1 ELSE 0
      BY <1>3, TimesNumbers DEF new, Job
    <3>2. todo[p] = <<>> /\ todo \in [Procs -> Seq(Job)]
      BY <1>2 DEF Accounts, Control, Submitting, Data
    <3>3. TimesIn(todo', j) = TimesIn(todo, j) + Times(new, j) - Times(todo[p], j) /\ TimesIn(todo, j) \in Nat
      BY ZenonT(40), <1>1, <1>4, <3>2, FiniteThreads, FamilyExcept
    <3>4. Times(todo[p], j) = 0
      BY <3>2, TimesEmpty
    <3>5. QED
      BY <3>1, <3>3, <3>4
  <2>2. ASSUME NEW j \in Job
        PROVE  Places(j)' + runs'[j] + (IF j \in discarded' THEN 1 ELSE 0) = IF j <= submitted' THEN 1 ELSE 0
    <3>1. Places(j)' = Places(j) + (IF j \in submitted + 1 .. submitted + n THEN 1 ELSE 0)
      <4>1. /\ Times(JobsOf(globalQ), j)' = Times(JobsOf(globalQ), j)
            /\ TimesIn(local, j)' = TimesIn(local, j) /\ TimesIn(batch, j)' = TimesIn(batch, j)
            /\ Times(cur, j)' = Times(cur, j)
        BY <1>1
      <4>2. QED
        BY <2>1, <4>1, CountsType DEF Places, Accounts
    <3>2. Places(j) \in Nat /\ runs[j] \in Nat /\ j \in Nat
      <4>1. Data /\ runs[j] \in Nat /\ j \in Nat
        BY <1>3 DEF Accounts, Data, Job
      <4>2. QED
        BY <4>1, CountsType DEF Places
    <3>3. Places(j) + runs[j] + (IF j \in discarded THEN 1 ELSE 0) = IF j <= submitted THEN 1 ELSE 0
      BY DEF Accounts, JobsAccounted
    <3>4. j \in submitted + 1 .. submitted + n <=> j <= submitted + n /\ ~ (j <= submitted)
      BY <1>3, <3>2
    <3>5. j <= submitted => j <= submitted + n
      BY <1>3, <3>2
    <3>6. QED
      BY <1>1, <3>1, <3>2, <3>3, <3>4, <3>5
  <2>3. QED
    BY <2>2 DEF JobsAccounted
<1>9. QED
  BY <1>5, <1>6, <1>7, <1>8 DEF Accounts

\* run, runBulk and run(Job&&), whatever the state is.
LEMMA RunAccounts ==
  ASSUME NEW p \in Procs
  PROVE  Accounts /\ ((\E n \in 1 .. MaxBulk : RunBulk(p, n)) \/ RunJob(p)) => Accounts'
<1>1. MaxBulk \in Nat
  BY PoolAssumption
<1>2. ASSUME NEW n \in 1 .. MaxBulk, RunBulk(p, n)
      PROVE  \E label \in {"pushLocal", "enqueue", "inline"} : Submit(p, n, label)
  BY <1>2 DEF RunBulk, FirstTry
<1>3. ASSUME RunJob(p) PROVE \E label \in {"pushLocal", "enqueue", "inline"} : Submit(p, 1, label)
  BY <1>3 DEF RunJob, FirstTry
<1>4. QED
  BY <1>1, <1>2, <1>3, SubmitAccounts

\* A place of the global queue is published.
LEMMA FillAccounts ==
  ASSUME NEW p \in Procs
  PROVE  Accounts /\ Fill(p) => Accounts'
<1> SUFFICES ASSUME Accounts, Fill(p) PROVE Accounts'
  OBVIOUS
<1>1. PICK i : globalQ' = Filled(globalQ, i)
  BY DEF Fill, Filled
<1>2. UNCHANGED <<holders, state, ctl, pc, notifier, ticket>>
  BY DEF Fill, holders, workerVars, controlVars
<1>3. /\ sub[p] = "fill"
      /\ sub' \in {sub, [sub EXCEPT ![p] = IF todo[p] = <<>> THEN "idle" ELSE "inline"]}
      /\ wake' \in {wake, [wake EXCEPT ![p] = "check"]}
  BY DEF Fill, StartWake
<1>4. globalQ' \in Entries(Job, Procs) /\ JobsOf(globalQ)' = JobsOf(globalQ)
  <2>1. globalQ \in Entries(Job, Procs)
    BY DEF Accounts, Data
  <2>2. QED
    BY <1>1, <2>1, JobsOfFilled
<1>5. Flags'
  BY <1>2, <1>3 DEF Accounts, Flags
<1>6. Data'
  BY <1>2, <1>4 DEF Accounts, Data, holders
<1>7. Control'
  <2>1. \A q \in Procs : Submitting(q)'
    BY <1>2, <1>3 DEF Accounts, Control, Submitting, Flags, holders
  <2>2. \A q \in Procs : sub'[q] # "idle" => sub[q] # "idle"
    BY <1>3 DEF Accounts, Flags
  <2>3. \A w \in Workers : Working(w)'
    BY <1>2, <2>2, FiniteThreads DEF Accounts, Control, Working, holders
  <2>4. QED
    BY <1>2, <2>1, <2>3 DEF Accounts, Control, Phase
<1>8. JobsAccounted'
  BY <1>2, <1>4 DEF Accounts, JobsAccounted, Places, holders
<1>9. QED
  BY <1>5, <1>6, <1>7, <1>8 DEF Accounts

\* Jobs that change places are accounted for as before.
LEMMA BalanceAccounts ==
  ASSUME JobsAccounted, submitted' = submitted, Data,
         \A j \in Job : Places(j)' + runs'[j] + (IF j \in discarded' THEN 1 ELSE 0)
                          = Places(j) + runs[j] + (IF j \in discarded THEN 1 ELSE 0)
  PROVE  JobsAccounted'
BY DEF JobsAccounted

\* enqueueBulk reserves places for the first jobs and leaves the rest to the caller.
LEMMA EnqueueAccounts ==
  ASSUME NEW p \in Procs
  PROVE  Accounts /\ Enqueue(p) => Accounts'
<1> SUFFICES ASSUME Accounts, Enqueue(p) PROVE Accounts'
  OBVIOUS
<1>1. todo[p] \in Seq(Job) /\ todo[p] # <<>> /\ sub[p] = "enqueue" /\ Len(globalQ) \in Nat
      /\ todo \in [Procs -> Seq(Job)] /\ globalQ \in Entries(Job, Procs)
  BY DEF Enqueue, Accounts, Control, Submitting, Data, Entries
<1>2. PICK n \in 0 .. Lesser(Len(todo[p]), GlobalCapacity - Len(globalQ)) :
        /\ globalQ' = globalQ \o [k \in 1..n |-> [job |-> todo[p][k], by |-> p, ready |-> FALSE]]
        /\ todo' = [todo EXCEPT ![p] = SubSeq(@, n + 1, Len(@))]
        /\ sub' = [sub EXCEPT ![p] = IF n = 0 THEN "inline" ELSE "fill"]
  BY DEF Enqueue
<1> DEFINE t == todo[p]
           added == [k \in 1..n |-> [job |-> t[k], by |-> p, ready |-> FALSE]]
           taken == SubSeq(t, 1, n)
           rest == SubSeq(t, n + 1, Len(t))
<1>3. UNCHANGED <<local, batch, cur, submitted, runs, discarded, state, ctl, pc, notifier, ticket, wake>>
  BY DEF Enqueue, workerVars, controlVars
<1>4. n \in 0 .. Len(t)
  BY <1>1, <1>2, PoolAssumption DEF Lesser
<1>5. added \in Entries(Job, Procs) /\ JobsOf(added) = taken
  <2>1. /\ DOMAIN added = 1 .. n
        /\ \A i \in 1 .. n : /\ added[i] \in [job : Job, by : Procs, ready : BOOLEAN]
                             /\ added[i].job = t[i]
    BY <1>1, <1>4
  <2>2. added \in Entries(Job, Procs)
    <3>1. n \in Nat
      BY <1>1, <1>4
    <3>2. added \in [1 .. n -> [job : Job, by : Procs, ready : BOOLEAN]]
      BY <2>1
    <3>3. QED
      BY <3>1, <3>2, SeqDef DEF Entries
  <2>3. JobsOf(added) = [i \in 1 .. n |-> t[i]]
    BY <2>1 DEF JobsOf
  <2>4. taken = [i \in 1 .. n |-> t[i]]
    BY <1>1, <1>4
  <2>5. QED
    BY <2>2, <2>3, <2>4
<1>6. /\ taken \in Seq(Job) /\ rest \in Seq(Job)
      /\ \A j : Times(t, j) = Times(taken, j) + Times(rest, j)
  BY <1>1, <1>4, TimesSplit
<1>7. n = 0 => rest # <<>>
  <2>1. n = 0 => Len(rest) = Len(t)
    BY <1>1, <1>4
  <2>2. QED
    BY <1>1, <1>6, <2>1, NonEmpty
<1>8. globalQ' = globalQ \o added /\ todo' = [todo EXCEPT ![p] = rest]
  BY <1>1, <1>2
<1> HIDE DEF added, taken, rest
<1>9. globalQ' \in Entries(Job, Procs) /\ \A j : Times(JobsOf(globalQ'), j) = Times(JobsOf(globalQ), j) + Times(JobsOf(added), j)
  <2>1. globalQ \in Entries(Job, Procs) /\ added \in Entries(Job, Procs) /\ globalQ' = globalQ \o added
    BY <1>1, <1>5, <1>8
  <2>2. QED
    BY <2>1, TimesJobsConcat
<1>10. Flags'
  BY <1>2, <1>3 DEF Accounts, Flags
<1>11. Data'
  BY <1>1, <1>3, <1>6, <1>8, <1>9 DEF Accounts, Data
<1>12. Control'
  <2>1. \A q \in Procs : Submitting(q)'
    BY <1>1, <1>2, <1>7, <1>8 DEF Accounts, Control, Submitting, Flags
  <2>2. \A q \in Procs : sub'[q] # "idle" => sub[q] # "idle"
    BY <1>1, <1>2 DEF Accounts, Flags
  <2>3. \A w \in Workers : Working(w)'
    BY <1>3, <2>2, FiniteThreads DEF Accounts, Control, Working
  <2>4. QED
    BY <1>3, <2>1, <2>3 DEF Accounts, Control, Phase
<1>13. JobsAccounted'
  <2>1. ASSUME NEW j \in Job PROVE Places(j)' = Places(j)
    <3>1. /\ TimesIn(todo', j) = TimesIn(todo, j) + Times(rest, j) - Times(t, j)
          /\ Times(rest, j) \in Nat
      <4>1. IsFiniteSet(Procs) /\ todo \in [Procs -> Seq(Job)] /\ rest \in Seq(Job)
        BY <1>1, <1>6, FiniteThreads
      <4>2. QED
        BY ZenonT(40), <1>8, <4>1, FamilyExcept
    <3>2. Times(taken, j) \in Nat
      BY <1>6, TimesSeq
    <3>3. Times(JobsOf(globalQ'), j) = Times(JobsOf(globalQ), j) + Times(taken, j)
      BY <1>5, <1>9
    <3>4. Times(t, j) = Times(taken, j) + Times(rest, j)
      BY <1>6
    <3>5. /\ TimesIn(local, j)' = TimesIn(local, j) /\ TimesIn(batch, j)' = TimesIn(batch, j)
          /\ Times(cur, j)' = Times(cur, j)
      BY <1>3
    <3>6. QED
      BY SMTT(30), <3>1, <3>2, <3>3, <3>4, <3>5, CountsType DEF Places, Accounts
  <2>2. QED
    BY <1>3, <2>1, BalanceAccounts DEF Accounts
<1>14. QED
  BY <1>10, <1>11, <1>12, <1>13 DEF Accounts

\* What nobody accepted the caller runs.
LEMMA InlineAccounts ==
  ASSUME NEW p \in Procs
  PROVE  Accounts /\ RunInline(p) => Accounts'
<1> SUFFICES ASSUME Accounts, RunInline(p) PROVE Accounts'
  OBVIOUS
<1>1. todo[p] \in Seq(Job) /\ todo[p] # <<>> /\ sub[p] = "inline" /\ todo \in [Procs -> Seq(Job)]
  BY DEF RunInline, Accounts, Control, Submitting, Data
<1> DEFINE first == Head(todo[p])
           rest == Tail(todo[p])
<1>2. /\ runs' = [runs EXCEPT ![first] = @ + 1] /\ todo' = [todo EXCEPT ![p] = rest]
      /\ sub' = [sub EXCEPT ![p] = IF Len(todo[p]) = 1 THEN "idle" ELSE "inline"]
      /\ UNCHANGED <<globalQ, local, batch, cur, submitted, discarded, state, ctl, pc, notifier, ticket, wake>>
  BY DEF RunInline, workerVars, queueVars, controlVars
<1>3. first \in Job /\ rest \in Seq(Job) /\ (Len(todo[p]) = 1 <=> rest = <<>>)
  <2>1. first \in Job /\ rest \in Seq(Job) /\ Len(rest) = Len(todo[p]) - 1 /\ Len(todo[p]) \in Nat
    BY <1>1
  <2> HIDE DEF first, rest
  <2>2. Len(rest) \in Nat /\ (rest # <<>> <=> Len(rest) > 0)
    BY <2>1, NonEmpty
  <2>3. \A m, k \in Nat : m = k - 1 => (k = 1 <=> ~ (m > 0))
    OBVIOUS
  <2>4. Len(todo[p]) = 1 <=> ~ (Len(rest) > 0)
    BY <2>1, <2>2, <2>3, Zenon
  <2>5. QED
    BY <2>1, <2>2, <2>4, Zenon
<1>4. \A j : Times(todo[p], j) = Times(rest, j) + (IF first = j THEN 1 ELSE 0)
  BY <1>1, TimesTail
<1> HIDE DEF first, rest
<1>5. Flags'
  BY <1>2 DEF Accounts, Flags
<1>6. Data'
  BY <1>2, <1>3 DEF Accounts, Data
<1>7. Control'
  <2>1. \A q \in Procs : Submitting(q)'
    BY <1>1, <1>2, <1>3 DEF Accounts, Control, Submitting, Flags
  <2>2. \A q \in Procs : sub'[q] # "idle" => sub[q] # "idle"
    BY <1>1, <1>2 DEF Accounts, Flags
  <2>3. \A w \in Workers : Working(w)'
    BY <1>2, <2>2, FiniteThreads DEF Accounts, Control, Working
  <2>4. QED
    BY <1>2, <2>1, <2>3 DEF Accounts, Control, Phase
<1>8. JobsAccounted'
  <2>1. ASSUME NEW j \in Job
        PROVE  Places(j)' + runs'[j] + (IF j \in discarded' THEN 1 ELSE 0)
                 = Places(j) + runs[j] + (IF j \in discarded THEN 1 ELSE 0)
    <3>1. TimesIn(todo', j) = TimesIn(todo, j) + Times(rest, j) - Times(todo[p], j) /\ Times(rest, j) \in Nat
      <4>1. IsFiniteSet(Procs) /\ todo \in [Procs -> Seq(Job)] /\ rest \in Seq(Job)
        BY <1>1, <1>3, FiniteThreads
      <4>2. QED
        BY ZenonT(40), <1>2, <4>1, FamilyExcept
    <3>2. Times(todo[p], j) = Times(rest, j) + (IF first = j THEN 1 ELSE 0)
      BY <1>4
    <3>3. /\ Times(JobsOf(globalQ), j)' = Times(JobsOf(globalQ), j)
          /\ TimesIn(local, j)' = TimesIn(local, j) /\ TimesIn(batch, j)' = TimesIn(batch, j)
          /\ Times(cur, j)' = Times(cur, j)
      BY <1>2
    <3>4. runs'[j] = runs[j] + (IF first = j THEN 1 ELSE 0) /\ runs[j] \in Nat
      BY <1>2 DEF Accounts, Data
    <3>5. QED
      BY <1>2, <3>1, <3>2, <3>3, <3>4, CountsType DEF Places, Accounts
  <2>2. QED
    BY <1>2, <2>1, BalanceAccounts DEF Accounts
<1>9. QED
  BY <1>5, <1>6, <1>7, <1>8 DEF Accounts

\* A worker's own deque takes the first of its jobs.
LEMMA PushLocalAccounts ==
  ASSUME NEW w \in Workers
  PROVE  Accounts /\ PushLocal(w) => Accounts'
<1> SUFFICES ASSUME Accounts, PushLocal(w) PROVE Accounts'
  OBVIOUS
<1>1. /\ todo \in [Procs -> Seq(Job)] /\ local \in [Workers -> Seq(Job)]
      /\ IsFiniteSet(Procs) /\ IsFiniteSet(Workers) /\ w \in Procs
      /\ sub[w] = "pushLocal" /\ pc[w] = "run" /\ batch[w] = <<>>
  BY FiniteThreads DEF PushLocal, Accounts, Control, Working, Data
<1> DEFINE t == todo[w]
           l == local[w]
<1>2. t \in Seq(Job) /\ Len(t) \in Nat /\ l \in Seq(Job) /\ Len(l) \in Nat
      /\ todo[w] = t /\ local[w] = l
  BY <1>1
<1>3. PICK n \in 0 .. Lesser(Len(t), LocalCapacity - Len(l)) :
        /\ local' = [local EXCEPT ![w] = @ \o SubSeq(t, 1, n)]
        /\ todo' = [todo EXCEPT ![w] = SubSeq(@, n + 1, Len(@))]
        /\ sub' = [sub EXCEPT ![w] = IF n = Len(t) THEN "idle" ELSE "enqueue"]
        /\ wake' = IF n > 0 THEN [wake EXCEPT ![w] = "check"] ELSE wake
  BY DEF PushLocal, StartWake
<1> HIDE DEF t, l
<1>4. UNCHANGED <<globalQ, batch, cur, submitted, runs, discarded, state, ctl, pc, notifier, ticket>>
  BY DEF PushLocal, workerVars, controlVars
<1>5. n \in 0 .. Len(t)
  BY <1>2, <1>3, PoolAssumption DEF Lesser
<1> DEFINE taken == SubSeq(t, 1, n)
           rest == SubSeq(t, n + 1, Len(t))
           grown == l \o taken
<1>6. /\ taken \in Seq(Job) /\ rest \in Seq(Job)
      /\ \A j : Times(t, j) = Times(taken, j) + Times(rest, j)
  BY <1>2, <1>5, TimesSplit
<1>7. Len(rest) = Len(t) - n
  BY <1>2, <1>5
<1>8. todo' = [todo EXCEPT ![w] = rest] /\ local' = [local EXCEPT ![w] = grown]
  BY <1>1, <1>2, <1>3
<1> HIDE DEF taken, rest
<1>9. grown \in Seq(Job) /\ \A j : Times(grown, j) = Times(l, j) + Times(taken, j)
  BY <1>2, <1>6, TimesConcat
<1> HIDE DEF grown
<1>10. n = Len(t) <=> rest = <<>>
  <2>1. rest # <<>> <=> Len(rest) > 0
    BY <1>6, NonEmpty
  <2>2. QED
    BY <1>2, <1>5, <1>7, <2>1
<1>11. Flags'
  BY <1>1, <1>3, <1>4 DEF Accounts, Flags
<1>12. Data'
  BY <1>1, <1>4, <1>6, <1>8, <1>9 DEF Accounts, Data
<1>13. Control'
  <2>1. \A q \in Procs : Submitting(q)'
    BY <1>1, <1>3, <1>8, <1>10 DEF Accounts, Control, Submitting, Flags
  <2>2. \A q \in Procs : sub'[q] # "idle" => sub[q] # "idle"
    BY <1>1, <1>3 DEF Accounts, Flags
  <2>3. \A v \in Workers : Working(v)'
    <3>1. pc[w] \notin Searching
      BY <1>1 DEF Searching
    <3>2. \A v \in Workers : v # w => local'[v] = local[v]
      BY <1>1, <1>8
    <3>3. ASSUME NEW v \in Workers, v # w PROVE Working(v)'
      BY <1>4, <2>2, <3>2, <3>3, FiniteThreads DEF Accounts, Control, Working
    <3>4. Working(w)'
      BY <1>1, <1>4, <3>1 DEF Accounts, Control, Working
    <3>5. QED
      BY <3>3, <3>4
  <2>4. QED
    BY <1>4, <2>1, <2>3 DEF Accounts, Control, Phase
<1>14. JobsAccounted'
  <2>1. ASSUME NEW j \in Job PROVE Places(j)' = Places(j)
    <3>1. TimesIn(todo', j) = TimesIn(todo, j) + Times(rest, j) - Times(t, j) /\ Times(rest, j) \in Nat
      <4>1. IsFiniteSet(Procs) /\ todo \in [Procs -> Seq(Job)] /\ w \in Procs /\ rest \in Seq(Job)
        BY <1>1, <1>6
      <4>2. /\ TimesIn(todo', j) = TimesIn(todo, j) + Times(rest, j) - Times(todo[w], j)
            /\ Times(rest, j) \in Nat
        BY ZenonT(40), <1>8, <4>1, FamilyExcept
      <4>3. QED
        BY <1>2, <4>2
    <3>2. /\ TimesIn(local', j) = TimesIn(local, j) + Times(grown, j) - Times(l, j)
          /\ Times(grown, j) \in Nat /\ Times(l, j) \in Nat
      <4>1. IsFiniteSet(Workers) /\ local \in [Workers -> Seq(Job)] /\ grown \in Seq(Job)
        BY <1>1, <1>9
      <4>2. /\ TimesIn(local', j) = TimesIn(local, j) + Times(grown, j) - Times(local[w], j)
            /\ Times(grown, j) \in Nat /\ Times(local[w], j) \in Nat
        BY ZenonT(40), <1>8, <4>1, FamilyExcept
      <4>3. QED
        BY <1>2, <4>2
    <3>3. Times(taken, j) \in Nat /\ Times(t, j) = Times(taken, j) + Times(rest, j)
      BY <1>6, TimesSeq
    <3>4. Times(grown, j) = Times(l, j) + Times(taken, j)
      BY <1>9
    <3>5. /\ Times(JobsOf(globalQ), j)' = Times(JobsOf(globalQ), j)
          /\ TimesIn(batch, j)' = TimesIn(batch, j) /\ Times(cur, j)' = Times(cur, j)
      BY <1>4
    <3>6. /\ Times(JobsOf(globalQ), j) \in Nat /\ TimesIn(local, j) \in Nat
          /\ TimesIn(batch, j) \in Nat /\ Times(cur, j) \in Nat /\ TimesIn(todo, j) \in Nat
      BY CountsType DEF Accounts
    <3>7. TimesIn(todo', j) = TimesIn(todo, j) - Times(taken, j)
      BY <3>1, <3>3, <3>6
    <3>8. TimesIn(local', j) = TimesIn(local, j) + Times(taken, j)
      BY <3>2, <3>3, <3>4, <3>6
    <3>9. QED
      BY <3>3, <3>5, <3>6, <3>7, <3>8 DEF Places
  <2>2. QED
    BY <1>4, <2>1, BalanceAccounts DEF Accounts
<1>15. QED
  BY <1>11, <1>12, <1>13, <1>14 DEF Accounts

\* The rest of a batch goes to the deque: it is empty and takes all of it.
LEMMA PushRestAccounts ==
  ASSUME NEW w \in Workers
  PROVE  Accounts /\ PushRest(w) => Accounts'
<1> SUFFICES ASSUME Accounts, PushRest(w) PROVE Accounts'
  OBVIOUS
<1> DEFINE b == batch[w]
<1>1. /\ batch \in [Workers -> Seq(Job)] /\ local \in [Workers -> Seq(Job)]
      /\ IsFiniteSet(Workers) /\ w \in Procs
      /\ pc[w] = "run" /\ b # <<>> /\ local[w] = <<>> /\ Len(b) < MaxBatch /\ Len(b) \in Nat
  <2>1. batch \in [Workers -> Seq(Job)] /\ local \in [Workers -> Seq(Job)] /\ IsFiniteSet(Workers) /\ w \in Procs
    BY FiniteThreads DEF Accounts, Data
  <2>2. pc[w] = "run" /\ b # <<>>
    BY DEF PushRest, AtLabel
  <2>3. local[w] = <<>> /\ Len(b) < MaxBatch
    BY <2>2 DEF Accounts, Control, Working
  <2>4. Len(b) \in Nat
    BY <2>1
  <2>5. QED
    BY <2>1, <2>2, <2>3, <2>4
<1>2. /\ local' = [local EXCEPT ![w] = @ \o SubSeq(b, 1, Lesser(Len(b), LocalCapacity - Len(@)))]
      /\ batch' = [batch EXCEPT ![w] = <<>>]
      /\ wake' = [wake EXCEPT ![w] = "check"]
      /\ UNCHANGED <<globalQ, cur, todo, submitted, runs, discarded, state, ctl, pc, sub, notifier, ticket>>
  BY DEF PushRest, StartWake, submitVars, controlVars
<1>3. Lesser(Len(b), LocalCapacity - Len(local[w])) = Len(b)
  BY <1>1, PoolAssumption DEF Lesser
<1>4. b \in Seq(Job) /\ <<>> \in Seq(Job) /\ <<>> \o SubSeq(b, 1, Len(b)) = b
  BY <1>1
<1>5. local' = [local EXCEPT ![w] = b]
  BY <1>1, <1>2, <1>3, <1>4
<1>6. Flags'
  BY <1>1, <1>2 DEF Accounts, Flags
<1>7. Data'
  BY <1>1, <1>2, <1>4, <1>5 DEF Accounts, Data
<1>8. Control'
  <2>1. \A q \in Procs : Submitting(q)'
    BY <1>2 DEF Accounts, Control, Submitting
  <2>2. \A v \in Workers : Working(v)'
    <3>1. pc[w] \notin Searching
      BY <1>1 DEF Searching
    <3>2. batch'[w] = <<>> /\ \A v \in Workers : v # w => local'[v] = local[v] /\ batch'[v] = batch[v]
      BY <1>1, <1>2, <1>5
    <3>3. QED
      BY <1>1, <1>2, <3>1, <3>2 DEF Accounts, Control, Working
  <2>3. QED
    BY <1>2, <2>1, <2>2 DEF Accounts, Control, Phase
<1>9. JobsAccounted'
  <2>1. ASSUME NEW j \in Job PROVE Places(j)' = Places(j)
    <3>1. /\ TimesIn(batch', j) = TimesIn(batch, j) + Times(<<>>, j) - Times(b, j)
          /\ Times(b, j) \in Nat
      <4>1. IsFiniteSet(Workers) /\ batch \in [Workers -> Seq(Job)] /\ <<>> \in Seq(Job)
        BY <1>1, <1>4
      <4>2. QED
        BY ZenonT(40), <1>2, <4>1, FamilyExcept
    <3>2. TimesIn(local', j) = TimesIn(local, j) + Times(b, j) - Times(local[w], j)
      <4>1. IsFiniteSet(Workers) /\ local \in [Workers -> Seq(Job)] /\ b \in Seq(Job)
        BY <1>1, <1>4
      <4>2. QED
        BY ZenonT(40), <1>5, <4>1, FamilyExcept
    <3>3. Times(<<>>, j) = 0 /\ Times(local[w], j) = 0
      BY <1>1, TimesEmpty
    <3>4. /\ Times(JobsOf(globalQ), j)' = Times(JobsOf(globalQ), j)
          /\ TimesIn(todo, j)' = TimesIn(todo, j) /\ Times(cur, j)' = Times(cur, j)
      BY <1>2
    <3>5. QED
      BY <3>1, <3>2, <3>3, <3>4, CountsType DEF Places, Accounts
  <2>2. QED
    BY <1>2, <2>1, BalanceAccounts DEF Accounts
<1>10. QED
  BY <1>6, <1>7, <1>8, <1>9 DEF Accounts
-----------------------------------------------------------------------------
(***************************************************************************)
(* workerLoop: a worker takes a job and runs it.                           *)
(***************************************************************************)
\* The queues hold one job less.
Removed(job) ==
  /\ globalQ' \in Entries(Job, Procs)
  /\ local' \in [Workers -> Seq(Job)] /\ batch' \in [Workers -> Seq(Job)]
  /\ \A j \in Job : Times(JobsOf(globalQ'), j) + TimesIn(local', j) + TimesIn(batch', j) + (IF job = j THEN 1 ELSE 0)
                    = Times(JobsOf(globalQ), j) + TimesIn(local, j) + TimesIn(batch, j)

\* No deque gets a job; only w gets a batch, and only next to an empty deque.
Shrunk(w) ==
  /\ \A v \in Workers : local[v] = <<>> => local'[v] = <<>>
  /\ \A v \in Workers : v # w => batch'[v] = batch[v]
  /\ batch'[w] = <<>> \/ (local'[w] = <<>> /\ Len(batch'[w]) < MaxBatch)

\* A job goes from a queue into a worker's hands, the rest of its batch with it.
LEMMA TakeAccounts ==
  ASSUME Accounts, NEW w \in Workers, NEW job \in Job, RunNext(w, job), pc[w] \in {"pop", "grab", "steal"},
         Removed(job), Shrunk(w),
         UNCHANGED <<todo, submitted, runs, discarded, state, ctl, sub, wake, notifier, ticket>>
  PROVE  Accounts'
<1>1. pc' = [pc EXCEPT ![w] = "run"] /\ cur' = [cur EXCEPT ![w] = job]
  BY DEF RunNext, Goto
<1>2. job # None
  BY PoolAssumption DEF Job
<1>3. cur[w] = None /\ batch[w] = <<>> /\ sub[w] = "idle"
  BY DEF Accounts, Control, Working
<1>4. Flags'
  BY <1>1 DEF Accounts, Flags, Label
<1>5. Data'
  BY <1>1 DEF Accounts, Data, Removed
<1>6. Control'
  <2>1. \A p \in Procs : Submitting(p)'
    BY DEF Accounts, Control, Submitting
  <2>2. ASSUME NEW v \in Workers, v # w PROVE Working(v)'
    <3>1. pc'[v] = pc[v] /\ cur'[v] = cur[v] /\ batch'[v] = batch[v]
      BY <1>1, <2>2 DEF Accounts, Flags, Data, Shrunk
    <3>2. Working(v) /\ (local[v] = <<>> => local'[v] = <<>>)
      BY DEF Accounts, Control, Shrunk
    <3>3. QED
      BY <3>1, <3>2 DEF Working
  <2>3. Working(w)'
    <3>1. pc'[w] = "run" /\ cur'[w] = job
      BY <1>1 DEF Accounts, Flags, Data
    <3>2. QED
      BY <1>2, <1>3, <3>1 DEF Working, Searching, Shrunk
  <2>4. Phase'
    BY <1>1 DEF Accounts, Control, Phase, Flags
  <2>5. QED
    BY <2>1, <2>2, <2>3, <2>4 DEF Control
<1>7. JobsAccounted'
  <2>1. ASSUME NEW j \in Job PROVE Places(j)' = Places(j)
    <3>1. Times(cur', j) = Times(cur, j) + (IF job = j THEN 1 ELSE 0)
      <4>1. cur[w] # j
        BY <1>3, PoolAssumption DEF Job
      <4>2. /\ job = j => Times(cur', j) = Times(cur, j) + 1
            /\ job # j => Times(cur', j) = Times(cur, j)
            /\ Times(cur, j) \in Nat
        <5>1. Data
          BY DEF Accounts
        <5>2. /\ Times(cur, j) \in Nat
              /\ job = j /\ cur[w] # j => Times([cur EXCEPT ![w] = job], j) = Times(cur, j) + 1
              /\ job # j /\ cur[w] # j => Times([cur EXCEPT ![w] = job], j) = Times(cur, j)
          BY <5>1, CurExcept
        <5>3. QED
          BY <1>1, <4>1, <5>2
      <4>3. QED
        BY <4>2
    <3>2. TimesIn(todo, j)' = TimesIn(todo, j)
      OBVIOUS
    <3>3. /\ Times(JobsOf(globalQ), j) \in Nat /\ TimesIn(local, j) \in Nat
          /\ TimesIn(batch, j) \in Nat /\ Times(cur, j) \in Nat /\ TimesIn(todo, j) \in Nat
      BY CountsType DEF Accounts
    <3>4. /\ Times(JobsOf(globalQ'), j) \in Nat /\ TimesIn(local', j) \in Nat /\ TimesIn(batch', j) \in Nat
      <4>1. JobsOf(globalQ') \in Seq(Job)
        BY JobsOfType DEF Removed
      <4>2. IsFiniteSet(DOMAIN local') /\ \A v \in DOMAIN local' : local'[v] \in Seq(Job)
        BY FiniteThreads DEF Removed
      <4>3. IsFiniteSet(DOMAIN batch') /\ \A v \in DOMAIN batch' : batch'[v] \in Seq(Job)
        BY FiniteThreads DEF Removed
      <4>4. QED
        BY <4>1, <4>2, <4>3, TimesSeq, TimesInType
    <3>5. QED
      BY <3>1, <3>2, <3>3, <3>4 DEF Places, Removed
  <2>2. QED
    BY <2>1, BalanceAccounts DEF Accounts
<1>8. QED
  BY <1>4, <1>5, <1>6, <1>7 DEF Accounts

\* r holds what q holds, but for one job.
Without(q, job, r) == \A j : Times(q, j) = Times(r, j) + (IF job = j THEN 1 ELSE 0)

\* One worker's deque gives one of its jobs away.
LEMMA DequeRemoved ==
  ASSUME Accounts, NEW v \in Workers, NEW job, NEW q \in Seq(Job),
         local' = [local EXCEPT ![v] = q], batch' = batch, globalQ' = globalQ,
         Without(local[v], job, q)
  PROVE  Removed(job)
<1>1. Data /\ local \in [Workers -> Seq(Job)] /\ IsFiniteSet(Workers)
  BY FiniteThreads DEF Accounts, Data
<1>2. local' \in [Workers -> Seq(Job)]
  BY <1>1
<1>3. ASSUME NEW j \in Job
      PROVE  TimesIn(local', j) + (IF job = j THEN 1 ELSE 0) = TimesIn(local, j)
  <2>1. TimesIn(local', j) = TimesIn(local, j) + Times(q, j) - Times(local[v], j)
        /\ TimesIn(local, j) \in Nat /\ Times(q, j) \in Nat
    BY ZenonT(40), <1>1, FamilyExcept
  <2>2. Times(local[v], j) = Times(q, j) + (IF job = j THEN 1 ELSE 0)
    BY DEF Without
  <2>3. QED
    BY <2>1, <2>2
<1>4. ASSUME NEW j \in Job
      PROVE  Times(JobsOf(globalQ'), j) + TimesIn(local', j) + TimesIn(batch', j) + (IF job = j THEN 1 ELSE 0)
               = Times(JobsOf(globalQ), j) + TimesIn(local, j) + TimesIn(batch, j)
  <2>1. /\ Times(JobsOf(globalQ'), j) = Times(JobsOf(globalQ), j) /\ TimesIn(batch', j) = TimesIn(batch, j)
    OBVIOUS
  <2>2. Times(JobsOf(globalQ), j) \in Nat /\ TimesIn(local, j) \in Nat /\ TimesIn(batch, j) \in Nat
    BY <1>1, CountsType
  <2>3. TimesIn(local', j) + (IF job = j THEN 1 ELSE 0) = TimesIn(local, j)
    BY <1>3
  <2>4. TimesIn(local', j) \in Nat
    <3>1. IsFiniteSet(DOMAIN local') /\ \A w \in DOMAIN local' : local'[w] \in Seq(Job)
      BY <1>1, <1>2
    <3>2. QED
      BY <3>1, TimesInType
  <2>5. QED
    BY <2>1, <2>2, <2>3, <2>4
<1>5. QED
  BY <1>1, <1>2, <1>4 DEF Removed, Data

\* A worker takes the last job of its own deque, or goes on to the global queue.
LEMMA PopAccounts ==
  ASSUME NEW w \in Workers
  PROVE  Accounts /\ PopLocal(w) => Accounts'
<1> SUFFICES ASSUME Accounts, PopLocal(w) PROVE Accounts'
  OBVIOUS
<1>1. /\ pc[w] = "pop"
      /\ UNCHANGED <<globalQ, batch, todo, submitted, runs, discarded, state, ctl, sub, wake, notifier, ticket>>
  BY DEF PopLocal, AtLabel, submitVars, controlVars
<1>2. batch[w] = <<>> /\ local[w] \in Seq(Job) /\ local \in [Workers -> Seq(Job)]
  BY <1>1 DEF Accounts, Control, Working, Data
<1>3. CASE local[w] = <<>>
  <2>1. Goto(w, "grab") /\ UNCHANGED <<cur, local>>
    BY <1>3 DEF PopLocal
  <2>2. "grab" \in Label /\ ticket' \in [Workers -> Nat]
    BY <1>1 DEF Label, Accounts, Flags
  <2>3. QED
    BY <1>1, <1>3, <2>1, <2>2, MoveAccounts DEF holders
<1>4. CASE local[w] # <<>>
  <2> DEFINE q == SubSeq(local[w], 1, Len(local[w]) - 1)
             job == local[w][Len(local[w])]
  <2>1. RunNext(w, job) /\ local' = [local EXCEPT ![w] = q]
    BY <1>4 DEF PopLocal, Last, Front
  <2>2. q \in Seq(Job) /\ job \in Job /\ Without(local[w], job, q)
    BY <1>2, <1>4, TimesLast DEF Without
  <2> HIDE DEF q, job
  <2>3. Removed(job)
    BY <1>1, <2>1, <2>2, DequeRemoved
  <2>4. Shrunk(w)
    BY <1>1, <1>2, <1>4, <2>1 DEF Shrunk
  <2>5. QED
    BY <1>1, <2>1, <2>2, <2>3, <2>4, TakeAccounts
<1>5. QED
  BY <1>3, <1>4

\* A worker steals the first job of another's deque, or goes on to the next victim.
LEMMA StealAccounts ==
  ASSUME NEW w \in Workers, NEW v \in Workers
  PROVE  Accounts /\ StealFrom(w, v) => Accounts'
<1> SUFFICES ASSUME Accounts, StealFrom(w, v) PROVE Accounts'
  OBVIOUS
<1>1. /\ pc[w] = "steal"
      /\ UNCHANGED <<globalQ, batch, todo, submitted, runs, discarded, state, ctl, sub, wake, notifier, ticket>>
  BY DEF StealFrom, AtLabel, submitVars, controlVars
<1>2. batch[w] = <<>> /\ local[v] \in Seq(Job) /\ local \in [Workers -> Seq(Job)]
  BY <1>1 DEF Accounts, Control, Working, Data
<1>3. CASE UNCHANGED <<pc, cur, local>>
  <2>1. UNCHANGED <<holders, globalQ>> /\ sub' = sub
    BY <1>1, <1>3 DEF holders
  <2>2. Flags' /\ Phase'
    BY <1>1, <1>3 DEF Accounts, Flags, Control, Phase
  <2>3. \A u \in Workers : /\ pc'[u] = "run" <=> pc[u] = "run"
                           /\ pc'[u] \in Searching => local[u] = <<>>
    BY <1>3 DEF Accounts, Control, Working
  <2>4. QED
    BY <2>1, <2>2, <2>3, QuietAccounts
<1>4. CASE local[v] # <<>> /\ RunNext(w, Head(local[v])) /\ local' = [local EXCEPT ![v] = Tail(@)]
  <2> DEFINE q == Tail(local[v])
             job == Head(local[v])
  <2>1. RunNext(w, job) /\ local' = [local EXCEPT ![v] = q]
    BY <1>2, <1>4
  <2>2. q \in Seq(Job) /\ job \in Job /\ Without(local[v], job, q)
    BY <1>2, <1>4, TimesTail DEF Without
  <2> HIDE DEF q, job
  <2>3. Removed(job)
    BY <1>1, <2>1, <2>2, DequeRemoved
  <2>4. Shrunk(w)
    BY <1>1, <1>2, <1>4, <2>1 DEF Shrunk
  <2>5. QED
    BY <1>1, <2>1, <2>2, <2>3, <2>4, TakeAccounts
<1>5. QED
  BY <1>3, <1>4 DEF StealFrom

\* ReadyPrefix is the length of a part of the global queue at its front.
LEMMA ReadyPrefixType ==
  ASSUME globalQ \in Entries(Job, Procs)
  PROVE  ReadyPrefix \in 0 .. Len(globalQ)
<1> DEFINE n == Len(globalQ)
           stops == {k \in 0 .. n : k < n => ~ globalQ[k + 1].ready}
           less == {ss \in Nat \X Nat : ss[1] < ss[2]}
<1>1. n \in Nat
  BY DEF Entries
<1>2. stops \in SUBSET Nat /\ n \in stops
  BY <1>1
<1>3. PICK m \in stops : \A k \in stops : m <= k
  <2>1. IsWellFoundedOn(less, Nat)
    BY NatLessThanWellFounded DEF OpToRel
  <2>2. PICK m \in stops : \A k \in stops : <<k, m>> \notin less
    BY <1>2, <2>1, WFMin
  <2>3. ASSUME NEW k \in stops PROVE m <= k
    <3>1. k \in Nat /\ m \in Nat
      BY <1>2
    <3>2. ~ (k < m)
      BY <2>2, <3>1
    <3>3. QED
      BY <3>1, <3>2
  <2>4. QED
    BY <2>3
<1>4. \A i \in 1 .. m : globalQ[i].ready
  <2>1. TAKE i \in 1 .. m
  <2>2. i - 1 \in 0 .. n /\ i - 1 < n /\ ~ (m <= i - 1)
    BY <1>1, <1>2
  <2>3. i - 1 \notin stops
    BY <1>3, <2>2
  <2>4. QED
    BY <2>2, <2>3
<1>5. m \in 0 .. n /\ (m < n => ~ globalQ[m + 1].ready)
  BY <1>1, <1>2
<1>6. \E k \in 0 .. Len(globalQ) : /\ \A i \in 1 .. k : globalQ[i].ready
                                   /\ k < Len(globalQ) => ~ globalQ[k + 1].ready
  BY <1>4, <1>5
<1>7. QED
  BY <1>6 DEF ReadyPrefix

\* The global queue gives n jobs away, all but the first of them as a batch.
Grabbed(w, n) ==
  /\ batch[w] = <<>> /\ local' = local
  /\ globalQ' = SubSeq(globalQ, n + 1, Len(globalQ))
  /\ batch' = [batch EXCEPT ![w] = NextJobs(globalQ, n)]

\* dequeueBulk takes the published places at the head of the global queue: their
\* jobs were in no other place and are in the worker's batch now.
LEMMA QueueRemoved ==
  ASSUME Accounts, NEW w \in Workers, NEW n \in 1 .. Len(globalQ), Grabbed(w, n)
  PROVE  globalQ[1].job \in Job /\ Len(batch'[w]) = n - 1 /\ Removed(globalQ[1].job)
<1> DEFINE b == NextJobs(globalQ, n)
           job == globalQ[1].job
<1>1. /\ Data /\ globalQ \in Entries(Job, Procs) /\ IsFiniteSet(Workers)
      /\ batch \in [Workers -> Seq(Job)] /\ local \in [Workers -> Seq(Job)]
  BY FiniteThreads DEF Accounts, Data
<1>2. job \in Job /\ b \in Seq(Job) /\ Len(b) = n - 1 /\ globalQ' \in Entries(Job, Procs)
  BY <1>1, TimesGrabbed DEF Grabbed
<1>3. \A j : Times(JobsOf(globalQ), j) = Times(JobsOf(globalQ'), j) + Times(b, j) + (IF job = j THEN 1 ELSE 0)
  BY <1>1, TimesGrabbed DEF Grabbed
<1>4. batch' = [batch EXCEPT ![w] = b]
  BY DEF Grabbed
<1>5. batch' \in [Workers -> Seq(Job)] /\ batch'[w] = b
  BY <1>1, <1>2, <1>4
<1>6. ASSUME NEW j
      PROVE  TimesIn(batch', j) = TimesIn(batch, j) + Times(b, j) /\ Times(b, j) \in Nat
  <2>1. TimesIn(batch', j) = TimesIn(batch, j) + Times(b, j) - Times(batch[w], j) /\ Times(b, j) \in Nat
        /\ TimesIn(batch, j) \in Nat
    <3>1. IsFiniteSet(Workers) /\ batch \in [Workers -> Seq(Job)] /\ b \in Seq(Job)
      BY <1>1, <1>2
    <3> HIDE DEF b
    <3>2. QED
      BY ZenonT(40), <1>4, <3>1, FamilyExcept
  <2>2. Times(batch[w], j) = 0
    BY TimesEmpty DEF Grabbed
  <2>3. QED
    BY <2>1, <2>2
<1>7. ASSUME NEW j \in Job
      PROVE  Times(JobsOf(globalQ'), j) + TimesIn(local', j) + TimesIn(batch', j) + (IF job = j THEN 1 ELSE 0)
               = Times(JobsOf(globalQ), j) + TimesIn(local, j) + TimesIn(batch, j)
  <2>1. TimesIn(batch', j) = TimesIn(batch, j) + Times(b, j) /\ Times(b, j) \in Nat
    BY <1>6
  <2>2. Times(JobsOf(globalQ), j) = Times(JobsOf(globalQ'), j) + Times(b, j) + (IF job = j THEN 1 ELSE 0)
    BY <1>3
  <2>3. TimesIn(local', j) = TimesIn(local, j)
    BY DEF Grabbed
  <2>4. /\ Times(JobsOf(globalQ), j) \in Nat /\ TimesIn(local, j) \in Nat /\ TimesIn(batch, j) \in Nat
    BY <1>1, CountsType
  <2>5. Times(JobsOf(globalQ'), j) \in Nat
    <3>1. JobsOf(globalQ') \in Seq(Job)
      BY <1>2, JobsOfType
    <3>2. QED
      BY <3>1, TimesSeq
  <2>6. QED
    BY <2>1, <2>2, <2>3, <2>4, <2>5
<1>8. Removed(job)
  BY <1>1, <1>2, <1>5, <1>7 DEF Removed, Grabbed
<1>9. QED
  BY <1>2, <1>5, <1>8

\* A worker takes a batch from the global queue, or goes on to the other deques.
LEMMA GrabAccounts ==
  ASSUME NEW w \in Workers
  PROVE  Accounts /\ GrabBatch(w) => Accounts'
<1> SUFFICES ASSUME Accounts, GrabBatch(w) PROVE Accounts'
  OBVIOUS
<1> DEFINE n == Lesser(MaxBatch, ReadyPrefix)
<1>1. /\ pc[w] = "grab" /\ local' = local
      /\ UNCHANGED <<todo, submitted, runs, discarded, state, ctl, sub, wake, notifier, ticket>>
  BY DEF GrabBatch, AtLabel, submitVars, controlVars
<1>2. batch[w] = <<>> /\ local[w] = <<>> /\ batch \in [Workers -> Seq(Job)] /\ globalQ \in Entries(Job, Procs)
  BY <1>1 DEF Accounts, Control, Working, Data, Searching
<1>3. n \in 0 .. Len(globalQ) /\ n <= MaxBatch /\ MaxBatch \in Nat
  <2>1. ReadyPrefix \in 0 .. Len(globalQ) /\ Len(globalQ) \in Nat
    BY <1>2, ReadyPrefixType DEF Entries
  <2>2. QED
    BY <2>1, PoolAssumption DEF Lesser
<1> HIDE DEF n
<1>4. CASE n = 0
  <2>1. Goto(w, "steal") /\ UNCHANGED <<cur, batch, globalQ>>
    BY <1>4 DEF GrabBatch, n
  <2>2. "steal" \in Label /\ ticket' \in [Workers -> Nat]
    BY <1>1 DEF Label, Accounts, Flags
  <2>3. QED
    BY <1>1, <1>2, <2>1, <2>2, MoveAccounts DEF holders
<1>5. CASE n # 0
  <2>1. /\ RunNext(w, globalQ[1].job)
        /\ batch' = [batch EXCEPT ![w] = NextJobs(globalQ, n)]
        /\ globalQ' = SubSeq(globalQ, n + 1, Len(globalQ))
    BY <1>5 DEF GrabBatch, NextJobs, n
  <2>2. n \in 1 .. Len(globalQ)
    BY <1>3, <1>5
  <2>3. globalQ[1].job \in Job /\ Len(batch'[w]) = n - 1 /\ Removed(globalQ[1].job)
    BY <1>1, <1>2, <2>1, <2>2, QueueRemoved DEF Grabbed
  <2>4. Shrunk(w)
    <3>1. \A v \in Workers : v # w => batch'[v] = batch[v]
      BY <1>2, <2>1
    <3>2. Len(batch'[w]) < MaxBatch
      BY <1>3, <2>2, <2>3
    <3>3. QED
      BY <1>1, <1>2, <3>1, <3>2 DEF Shrunk
  <2>5. QED
    BY <1>1, <2>1, <2>3, <2>4, TakeAccounts
<1>6. QED
  BY <1>4, <1>5

\* The last look at the global queue before a worker announces that it will sleep.
LEMMA SpinAccounts ==
  ASSUME NEW w \in Workers
  PROVE  Accounts /\ SpinOnGlobal(w) => Accounts'
<1> SUFFICES ASSUME Accounts, SpinOnGlobal(w) PROVE Accounts'
  OBVIOUS
<1>1. /\ pc[w] = "steal" /\ local' = local /\ batch' = batch
      /\ UNCHANGED <<todo, submitted, runs, discarded, state, ctl, sub, wake, notifier, ticket>>
  BY DEF SpinOnGlobal, AtLabel, submitVars, controlVars
<1>2. batch[w] = <<>> /\ local[w] = <<>> /\ batch \in [Workers -> Seq(Job)] /\ globalQ \in Entries(Job, Procs)
  BY <1>1 DEF Accounts, Control, Working, Data, Searching
<1>3. ReadyPrefix \in 0 .. Len(globalQ) /\ Len(globalQ) \in Nat
  BY <1>2, ReadyPrefixType DEF Entries
<1>4. CASE ~ (ReadyPrefix > 0)
  <2>1. Goto(w, "announce") /\ UNCHANGED <<cur, globalQ>>
    BY <1>4 DEF SpinOnGlobal
  <2>2. "announce" \in Label /\ ticket' \in [Workers -> Nat]
    BY <1>1 DEF Label, Accounts, Flags
  <2>3. QED
    BY <1>1, <1>2, <2>1, <2>2, MoveAccounts DEF holders
<1>5. CASE ReadyPrefix > 0
  <2>1. RunNext(w, globalQ[1].job) /\ globalQ' = Tail(globalQ)
    BY <1>5 DEF SpinOnGlobal
  <2>2. 1 \in 1 .. Len(globalQ)
    BY <1>3, <1>5
  <2>3. globalQ' = SubSeq(globalQ, 1 + 1, Len(globalQ))
    BY <1>2, <2>1, <2>2 DEF Entries
  <2>4. NextJobs(globalQ, 1) = <<>>
    BY DEF NextJobs
  <2>5. batch' = [batch EXCEPT ![w] = NextJobs(globalQ, 1)]
    BY <1>1, <1>2, <2>4
  <2>6. globalQ[1].job \in Job /\ Removed(globalQ[1].job)
    BY <1>1, <1>2, <2>2, <2>3, <2>5, QueueRemoved DEF Grabbed
  <2>7. Shrunk(w)
    BY <1>1, <1>2 DEF Shrunk
  <2>8. QED
    BY <1>1, <2>1, <2>6, <2>7, TakeAccounts
<1>6. QED
  BY <1>4, <1>5

\* The job returns.
LEMMA FinishAccounts ==
  ASSUME NEW w \in Workers
  PROVE  Accounts /\ FinishJob(w) => Accounts'
<1> SUFFICES ASSUME Accounts, FinishJob(w) PROVE Accounts'
  OBVIOUS
<1> DEFINE job == cur[w]
<1>1. /\ pc[w] = "run" /\ batch[w] = <<>> /\ sub[w] = "idle"
      /\ runs' = [runs EXCEPT ![job] = @ + 1] /\ cur' = [cur EXCEPT ![w] = None]
      /\ pc' = [pc EXCEPT ![w] = "loop"]
      /\ UNCHANGED <<globalQ, local, batch, todo, submitted, discarded, state, ctl, sub, wake, notifier, ticket>>
  BY DEF FinishJob, AtLabel, Goto, queueVars, submitVars, controlVars
<1>2. job \in Job /\ None \notin Job
  BY <1>1, PoolAssumption DEF Accounts, Control, Working, Data, Job
<1>3. Flags'
  BY <1>1 DEF Accounts, Flags, Label
<1>4. Data'
  BY <1>1, <1>2 DEF Accounts, Data
<1>5. Control'
  <2>1. \A p \in Procs : Submitting(p)'
    BY <1>1 DEF Accounts, Control, Submitting
  <2>2. ASSUME NEW v \in Workers, v # w PROVE Working(v)'
    <3>1. pc'[v] = pc[v] /\ cur'[v] = cur[v] /\ Working(v)
      BY <1>1, <2>2 DEF Accounts, Flags, Data, Control
    <3>2. QED
      BY <1>1, <3>1 DEF Working
  <2>3. Working(w)'
    <3>1. pc'[w] = "loop" /\ cur'[w] = None
      BY <1>1 DEF Accounts, Flags, Data
    <3>2. QED
      BY <1>1, <3>1 DEF Working, Searching
  <2>4. Phase'
    BY <1>1 DEF Accounts, Control, Phase, Flags
  <2>5. QED
    BY <2>1, <2>2, <2>3, <2>4 DEF Control
<1>6. JobsAccounted'
  <2>1. ASSUME NEW j \in Job
        PROVE  Places(j)' + runs'[j] + (IF j \in discarded' THEN 1 ELSE 0)
                 = Places(j) + runs[j] + (IF j \in discarded THEN 1 ELSE 0)
    <3>1. /\ Times(cur, j) \in Nat
          /\ job = j => Times(cur', j) = Times(cur, j) - 1
          /\ job # j => Times(cur', j) = Times(cur, j)
      <4>1. Data /\ None # j
        BY <1>2 DEF Accounts
      <4>2. /\ Times(cur, j) \in Nat
            /\ None # j /\ cur[w] = j => Times([cur EXCEPT ![w] = None], j) = Times(cur, j) - 1
            /\ None # j /\ cur[w] # j => Times([cur EXCEPT ![w] = None], j) = Times(cur, j)
        BY <4>1, CurExcept
      <4>3. QED
        BY <1>1, <4>1, <4>2
    <3>2. /\ job = j => runs'[j] = runs[j] + 1
          /\ job # j => runs'[j] = runs[j]
          /\ runs[j] \in Nat
      BY <1>1, <1>2 DEF Accounts, Data
    <3>3. /\ Times(JobsOf(globalQ), j)' = Times(JobsOf(globalQ), j) /\ TimesIn(todo, j)' = TimesIn(todo, j)
          /\ TimesIn(local, j)' = TimesIn(local, j) /\ TimesIn(batch, j)' = TimesIn(batch, j)
      BY <1>1
    <3>4. /\ Times(JobsOf(globalQ), j) \in Nat /\ TimesIn(local, j) \in Nat
          /\ TimesIn(batch, j) \in Nat /\ TimesIn(todo, j) \in Nat
      BY CountsType DEF Accounts
    <3>5. discarded' = discarded
      BY <1>1
    <3> HIDE DEF job
    <3>6. QED
      BY <3>1, <3>2, <3>3, <3>4, <3>5 DEF Places
  <2>2. QED
    BY <1>1, <2>1, BalanceAccounts DEF Accounts
<1>7. QED
  BY <1>3, <1>4, <1>5, <1>6 DEF Accounts

\* stop() destroys the deques: every job in them was in no other place.
LEMMA JoinAccounts == Accounts /\ StopJoin => Accounts'
<1> SUFFICES ASSUME Accounts, StopJoin PROVE Accounts'
  OBVIOUS
<1> DEFINE lost == UNION {ToSet(local[w]) : w \in Workers}
<1>1. /\ ctl = "join" /\ \A w \in Workers : pc[w] = "exited"
      /\ pc' = [w \in Workers |-> "off"] /\ discarded' = discarded \cup lost
      /\ local' = [w \in Workers |-> <<>>] /\ state' = "STOPPED" /\ ctl' = "idle"
      /\ UNCHANGED <<globalQ, batch, cur, todo, submitted, runs, sub, wake, notifier, ticket>>
  BY DEF StopJoin, stopUnchanged, submitVars
<1>2. local \in [Workers -> Seq(Job)] /\ IsFiniteSet(Workers) /\ <<>> \in Seq(Job)
  BY FiniteThreads DEF Accounts, Data
<1>3. \A j : j \in lost <=> \E w \in Workers : \E i \in DOMAIN local[w] : local[w][i] = j
  BY DEF ToSet
<1>4. ASSUME NEW j PROVE TimesIn(local, j) \in Nat /\ (TimesIn(local, j) = 0 <=> j \notin lost)
  <2>1. IsFiniteSet(DOMAIN local) /\ \A w \in DOMAIN local : local[w] \in Seq(Job)
    BY <1>2
  <2>2. /\ TimesIn(local, j) \in Nat
        /\ TimesIn(local, j) = 0 <=> \A w \in DOMAIN local : \A i \in DOMAIN local[w] : local[w][i] # j
    BY <2>1, TimesInType
  <2>3. QED
    BY <1>2, <1>3, <2>2
<1>5. ASSUME NEW j PROVE TimesIn(local', j) = 0
  <2>1. local' \in [Workers -> Seq(Job)] /\ \A w \in Workers : \A i \in DOMAIN local'[w] : local'[w][i] # j
    BY <1>1, <1>2
  <2>2. IsFiniteSet(DOMAIN local') /\ \A w \in DOMAIN local' : local'[w] \in Seq(Job)
    BY <1>2, <2>1
  <2>3. QED
    BY <2>1, <2>2, TimesInType
<1>6. lost \subseteq Job
  <2>1. ASSUME NEW w \in Workers, NEW i \in DOMAIN local[w] PROVE local[w][i] \in Job
    BY <1>2
  <2>2. QED
    BY <1>3, <2>1
<1> HIDE DEF lost
<1>7. Flags'
  BY <1>1 DEF Accounts, Flags, Label, PoolState
<1>8. Data'
  BY <1>1, <1>2, <1>6 DEF Accounts, Data
<1>9. Control'
  BY <1>1 DEF Accounts, Control, Working, Submitting, Phase, Searching
<1>10. JobsAccounted'
  <2>1. ASSUME NEW j \in Job
        PROVE  Places(j)' + runs'[j] + (IF j \in discarded' THEN 1 ELSE 0)
                 = Places(j) + runs[j] + (IF j \in discarded THEN 1 ELSE 0)
    <3>1. Places(j) + runs[j] + (IF j \in discarded THEN 1 ELSE 0) <= 1
      BY DEF Accounts, JobsAccounted
    <3>2. /\ Times(JobsOf(globalQ), j)' = Times(JobsOf(globalQ), j) /\ TimesIn(todo, j)' = TimesIn(todo, j)
          /\ Times(cur, j)' = Times(cur, j) /\ TimesIn(batch, j)' = TimesIn(batch, j) /\ runs' = runs
      BY <1>1
    <3>3. /\ Times(JobsOf(globalQ), j) \in Nat /\ Times(cur, j) \in Nat
          /\ TimesIn(batch, j) \in Nat /\ TimesIn(todo, j) \in Nat
      BY CountsType DEF Accounts
    <3>4. runs[j] \in Nat
      BY DEF Accounts, Data
    <3>5. TimesIn(local', j) = 0 /\ TimesIn(local, j) \in Nat /\ (TimesIn(local, j) = 0 <=> j \notin lost)
      BY <1>4, <1>5
    <3>6. j \in discarded' <=> j \in discarded \/ j \in lost
      BY <1>1
    <3>7. QED
      BY <3>1, <3>2, <3>3, <3>4, <3>5, <3>6 DEF Places
  <2>2. QED
    BY <1>1, <2>1, BalanceAccounts DEF Accounts
<1>11. QED
  BY <1>7, <1>8, <1>9, <1>10 DEF Accounts
-----------------------------------------------------------------------------
\* The pool starts without jobs.
LEMMA InitAccounts == Init => Accounts
<1> SUFFICES ASSUME Init PROVE Accounts
  OBVIOUS
<1>1. Flags
  BY DEF Init, Flags, PoolState, Label
<1>2. Data
  <2>1. globalQ \in Entries(Job, Procs) /\ submitted \in 0 .. MaxJobs
    BY PoolAssumption DEF Init, Entries
  <2>2. QED
    BY <2>1 DEF Init, Data
<1>3. Control
  <2>1. \A w \in Workers : Working(w)
    BY FiniteThreads DEF Init, Working, Searching
  <2>2. (\A p \in Procs : Submitting(p)) /\ Phase
    BY DEF Init, Submitting, Phase
  <2>3. QED
    BY <2>1, <2>2 DEF Control
<1>4. JobsAccounted
  <2>1. ASSUME NEW j \in Job PROVE Places(j) = 0 /\ runs[j] = 0 /\ j \notin discarded /\ ~ (j <= submitted)
    <3>1. Times(JobsOf(globalQ), j) = 0
      <4>1. JobsOf(globalQ) = <<>>
        BY DEF Init, JobsOf
      <4>2. QED
        BY <4>1, TimesEmpty
    <3>2. ASSUME NEW D, IsFiniteSet(D), NEW g, g = [d \in D |-> <<>>] PROVE TimesIn(g, j) = 0
      <4>1. /\ IsFiniteSet(DOMAIN g) /\ \A d \in DOMAIN g : g[d] \in Seq(Job)
            /\ \A d \in DOMAIN g : \A i \in DOMAIN g[d] : g[d][i] # j
        BY <3>2
      <4>2. QED
        BY <4>1, TimesInType
    <3>3. TimesIn(local, j) = 0 /\ TimesIn(batch, j) = 0 /\ TimesIn(todo, j) = 0
      BY <3>2, FiniteThreads DEF Init
    <3>4. Times(cur, j) = 0
      <4>1. IsFiniteSet(DOMAIN cur) /\ \A w \in DOMAIN cur : cur[w] # j
        BY FiniteThreads, PoolAssumption DEF Init, Job
      <4>2. QED
        BY <4>1, TimesType
    <3>5. QED
      BY <3>1, <3>3, <3>4 DEF Places, Init, Job
  <2>2. QED
    BY <2>1 DEF JobsAccounted
<1>5. QED
  BY <1>1, <1>2, <1>3, <1>4 DEF Accounts

\* The accounts are kept by every step of every thread.
LEMMA NextAccounts == Accounts /\ [Next]_vars => Accounts'
<1> SUFFICES ASSUME Accounts, [Next]_vars PROVE Accounts'
  OBVIOUS
<1>1. ASSUME NEW p \in Procs, (\E n \in 1 .. MaxBulk : RunBulk(p, n)) \/ RunJob(p) PROVE Accounts'
  BY <1>1, RunAccounts
<1>2. ASSUME NEW p \in Procs, SubmitStep(p) PROVE Accounts'
  BY <1>2, PushLocalAccounts, EnqueueAccounts, FillAccounts, InlineAccounts DEF SubmitStep
<1>3. ASSUME NEW p \in Procs, WakeStep(p) PROVE Accounts'
  BY <1>3, WakeAccounts
<1>4. ASSUME NEW w \in Workers, WorkerStep(w) PROVE Accounts'
  BY <1>4, SleepAccounts, PopAccounts, GrabAccounts, PushRestAccounts, StealAccounts, SpinAccounts,
     FinishAccounts DEF WorkerStep
<1>5. ASSUME StartBegin \/ StopBegin \/ ControlStep PROVE Accounts'
  BY <1>5, ControlAccounts, JoinAccounts DEF ControlStep
<1>6. CASE UNCHANGED vars
  <2>1. UNCHANGED holders /\ UNCHANGED <<globalQ, sub, state, ctl, pc, notifier, ticket, wake>>
    BY <1>6 DEF vars, holders, workerVars, queueVars, submitVars, controlVars
  <2>2. Flags' /\ Phase'
    BY <2>1 DEF Accounts, Flags, Control, Phase
  <2>3. \A w \in Workers : /\ pc'[w] = "run" <=> pc[w] = "run"
                           /\ pc'[w] \in Searching => local[w] = <<>>
    BY <2>1 DEF Accounts, Control, Working
  <2>4. QED
    BY <2>1, <2>2, <2>3, QuietAccounts
<1>7. QED
  BY <1>1, <1>2, <1>3, <1>4, <1>5, <1>6 DEF Next

\* run / runBulk / workerLoop: whatever the capacities and the number of threads, every job
\* submitted is in one place, has run once, or was destroyed with a deque by stop().
THEOREM JobsAccountedHolds == Spec => []JobsAccounted
<1>1. Accounts => JobsAccounted
  BY DEF Accounts
<1>2. QED
  BY <1>1, InitAccounts, NextAccounts, PTL DEF Spec
-----------------------------------------------------------------------------
(***************************************************************************)
(* The inductive invariant of the event count.                             *)
(***************************************************************************)
\* A thread that has still to publish a job, or to look whether anybody sleeps and
\* to change the notifier if so.
Coming == \E p \in Procs : sub[p] = "fill" \/ wake[p] \in {"check", "add"}

\* A worker that has found the global queue empty after it took its ticket, and whose
\* ticket is the latest.
Waiting(w) == pc[w] \in {"checkLocals", "wait", "blocked"} /\ ticket[w] = notifier

Tickets == \A w \in Workers : ticket[w] <= notifier
SleepCount == sleeping = Cardinality(InSleepSection)

\* A job that came after such a worker looked is still to be announced to it.
Announced == (\E w \in Workers : Waiting(w)) /\ globalQ # <<>> => Coming

\* While every worker sleeps on an old ticket, a notification is under way.
Covered ==
  state = "RUNNING" /\ globalQ # <<>> /\ (\A w \in Workers : pc[w] = "blocked" /\ ticket[w] # notifier)
    => \E p \in Procs : wake[p] # "none" \/ sub[p] = "fill"

Wakeups == Tickets /\ SleepCount /\ Announced /\ Covered

\* The workers that sleep or are about to are finitely many.
LEMMA SectionFinite == IsFiniteSet(InSleepSection) /\ Cardinality(InSleepSection) \in Nat
                       /\ (InSleepSection # {} => Cardinality(InSleepSection) > 0)
<1>1. IsFiniteSet(InSleepSection)
  BY FiniteThreads, FS_Subset DEF InSleepSection
<1>2. Cardinality(InSleepSection) \in Nat /\ (Cardinality(InSleepSection) = 0 <=> InSleepSection = {})
  BY <1>1, FS_CardinalityType, FS_EmptySet
<1>3. QED
  BY <1>1, <1>2

\* What the two invariants say together.
LEMMA WakeupsSuffice == Accounts /\ Wakeups => NoLostWakeup
<1> SUFFICES ASSUME Accounts, Wakeups PROVE NoLostWakeup
  OBVIOUS
<1>1. \A w \in InSleepSection : local[w] = <<>>
  BY DEF InSleepSection, Accounts, Control, Working, Searching
<1>2. ASSUME state = "RUNNING", JobQueued, \A w \in Workers : Asleep(w)
      PROVE  \E p \in Procs : wake[p] # "none" \/ sub[p] = "fill"
  <2>1. \A w \in Workers : w \in InSleepSection
    BY <1>2 DEF Asleep, InSleepSection
  <2>2. globalQ # <<>>
    BY <1>1, <1>2, <2>1 DEF JobQueued
  <2>3. CASE \E w \in Workers : Waiting(w)
    BY <2>2, <2>3 DEF Wakeups, Announced, Coming
  <2>4. CASE \A w \in Workers : ~ Waiting(w)
    <3>1. \A w \in Workers : pc[w] = "blocked" /\ ticket[w] # notifier
      BY <1>2, <2>4 DEF Asleep, Waiting
    <3>2. QED
      BY <1>2, <2>2, <3>1 DEF Wakeups, Covered
  <2>5. QED
    BY <2>3, <2>4
<1>3. QED
  BY <1>1, <1>2 DEF NoLostWakeup, Wakeups, SleepCount

\* run / runBulk: a step that brings a job is the start of an announcement.
LEMMA SubmitWakeups ==
  ASSUME NEW p \in Procs
  PROVE  /\ Accounts /\ Wakeups
            /\ ((\E n \in 1 .. MaxBulk : RunBulk(p, n)) \/ RunJob(p) \/ SubmitStep(p))
         => Wakeups'
<1> SUFFICES ASSUME Accounts, Wakeups,
                    (\E n \in 1 .. MaxBulk : RunBulk(p, n)) \/ RunJob(p) \/ SubmitStep(p)
             PROVE  Wakeups'
  OBVIOUS
<1>1. UNCHANGED <<pc, ticket, notifier, sleeping, state>>
  BY DEF RunBulk, RunJob, Submit, SubmitStep, PushLocal, Enqueue, Fill, RunInline, workerVars, controlVars
<1>2. \/ sub'[p] = "fill" \/ wake'[p] = "check"
      \/ /\ globalQ' = globalQ /\ wake' = wake /\ sub[p] # "fill"
         /\ \A q \in Procs : q # p => sub'[q] = sub[q]
  <2>1. sub \in [Procs -> {"idle", "pushLocal", "enqueue", "fill", "inline"}]
        /\ wake \in [Procs -> {"none", "check", "add", "notify"}]
    BY DEF Accounts, Flags
  <2>2. CASE (\E n \in 1 .. MaxBulk : RunBulk(p, n)) \/ RunJob(p)
    <3>1. PICK n, label : Submit(p, n, label)
      BY <2>2 DEF RunBulk, RunJob
    <3>2. QED
      BY <2>1, <3>1 DEF Submit, MaySubmit, queueVars
  <2>3. CASE p \in Workers /\ PushLocal(p)
    BY <2>1, <2>3 DEF PushLocal, StartWake
  <2>4. CASE Enqueue(p)
    <3>1. PICK n \in 0 .. Lesser(Len(todo[p]), GlobalCapacity - Len(globalQ)) :
            /\ globalQ' = globalQ \o [k \in 1..n |-> [job |-> todo[p][k], by |-> p, ready |-> FALSE]]
            /\ sub' = [sub EXCEPT ![p] = IF n = 0 THEN "inline" ELSE "fill"]
      BY <2>4 DEF Enqueue
    <3>2. CASE n # 0
      BY <2>1, <3>1, <3>2
    <3>3. CASE n = 0
      <4>1. [k \in 1 .. 0 |-> [job |-> todo[p][k], by |-> p, ready |-> FALSE]] = <<>>
        OBVIOUS
      <4>2. globalQ \o <<>> = globalQ
        BY DEF Accounts, Data, Entries
      <4>3. globalQ' = globalQ
        BY <3>1, <3>3, <4>1, <4>2
      <4>4. QED
        BY <2>1, <2>4, <3>1, <4>3 DEF Enqueue
    <3>4. QED
      BY <3>2, <3>3
  <2>5. CASE Fill(p)
    <3>1. sub[p] = "fill" /\ (sub' = sub \/ wake' = [wake EXCEPT ![p] = "check"])
      BY <2>5 DEF Fill, StartWake
    <3>2. QED
      BY <2>1, <3>1
  <2>6. CASE RunInline(p)
    BY <2>1, <2>6 DEF RunInline, queueVars
  <2>7. QED
    BY <2>2, <2>3, <2>4, <2>5, <2>6 DEF SubmitStep
<1>3. Tickets' /\ SleepCount'
  BY <1>1 DEF Wakeups, Tickets, SleepCount, InSleepSection
<1>4. Announced' /\ Covered'
  <2>1. CASE sub'[p] = "fill" \/ wake'[p] = "check"
    BY <2>1 DEF Announced, Covered, Coming
  <2>2. CASE globalQ' = globalQ /\ wake' = wake /\ sub[p] # "fill" /\ \A q \in Procs : q # p => sub'[q] = sub[q]
    <3>1. \A q \in Procs : wake'[q] = wake[q] /\ (sub[q] = "fill" => sub'[q] = "fill")
      BY <2>2
    <3>2. Announced'
      BY <1>1, <2>2, <3>1 DEF Wakeups, Announced, Coming, Waiting
    <3>3. Covered'
      BY <1>1, <2>2, <3>1 DEF Wakeups, Covered
    <3>4. QED
      BY <3>2, <3>3
  <2>3. QED
    BY <1>2, <2>1, <2>2
<1>5. QED
  BY <1>3, <1>4 DEF Wakeups

\* Looking whether anybody sleeps, changing the notifier, notifying one.
LEMMA WakeWakeups ==
  ASSUME NEW p \in Procs
  PROVE  Accounts /\ Wakeups /\ WakeStep(p) => Wakeups'
<1> SUFFICES ASSUME Accounts, Wakeups, WakeStep(p) PROVE Wakeups'
  OBVIOUS
<1>1. /\ UNCHANGED <<globalQ, sub, ticket, state, sleeping>>
      /\ wake \in [Procs -> {"none", "check", "add", "notify"}]
      /\ notifier \in Nat /\ ticket \in [Workers -> Nat] /\ pc \in [Workers -> Label]
  BY DEF WakeStep, WakeCheck, WakeAdd, WakeNotify, workerVars, queueVars, submitVars, controlVars,
         Accounts, Flags
<1>2. CASE WakeCheck(p)
  <2>1. /\ UNCHANGED <<pc, notifier>> /\ wake[p] = "check"
        /\ wake' = [wake EXCEPT ![p] = IF sleeping > 0 THEN "add" ELSE "none"]
    BY <1>2 DEF WakeCheck, workerVars
  <2>2. Tickets' /\ SleepCount'
    BY <1>1, <2>1 DEF Wakeups, Tickets, SleepCount, InSleepSection
  <2>3. ASSUME NEW w \in Workers, pc[w] \in {"checkLocals", "wait", "blocked"} PROVE wake'[p] = "add"
    <3>1. InSleepSection # {}
      BY <2>3 DEF InSleepSection
    <3>2. sleeping > 0
      BY <3>1, SectionFinite DEF Wakeups, SleepCount
    <3>3. QED
      BY <1>1, <2>1, <3>2
  <2>4. Announced'
    BY <1>1, <2>1, <2>3 DEF Announced, Coming, Waiting
  <2>5. Covered'
    BY <1>1, <2>1, <2>3, FiniteThreads DEF Covered
  <2>6. QED
    BY <2>2, <2>4, <2>5 DEF Wakeups
<1>3. CASE WakeAdd(p)
  <2>1. /\ UNCHANGED pc /\ notifier' = notifier + 1 /\ wake' = [wake EXCEPT ![p] = "notify"]
    BY <1>3 DEF WakeAdd, workerVars
  <2>2. \A w \in Workers : ticket[w] <= notifier /\ ticket[w] \in Nat
    BY <1>1 DEF Wakeups, Tickets
  <2>3. Tickets' /\ \A w \in Workers : ~ Waiting(w)'
    BY <1>1, <2>1, <2>2 DEF Tickets, Waiting
  <2>4. SleepCount'
    BY <1>1, <2>1 DEF Wakeups, SleepCount, InSleepSection
  <2>5. Announced' /\ Covered'
    BY <1>1, <2>1, <2>3 DEF Announced, Covered
  <2>6. QED
    BY <2>3, <2>4, <2>5 DEF Wakeups
<1>4. CASE WakeNotify(p)
  <2>1. /\ UNCHANGED notifier /\ wake[p] = "notify" /\ wake' = [wake EXCEPT ![p] = "none"]
        /\ \/ Blocked = {} /\ pc' = pc
           \/ \E w \in Blocked : pc' = [pc EXCEPT ![w] = "wait"]
    BY <1>4 DEF WakeNotify, Goto
  <2>2. \A w \in Workers : pc'[w] = pc[w] \/ (pc[w] = "blocked" /\ pc'[w] = "wait")
    BY <1>1, <2>1 DEF Blocked
  <2>3. InSleepSection' = InSleepSection
    BY <2>2 DEF InSleepSection
  <2>4. Tickets' /\ SleepCount'
    BY <1>1, <2>1, <2>3 DEF Wakeups, Tickets, SleepCount
  <2>5. Announced'
    <3>1. \A w \in Workers : Waiting(w)' => Waiting(w)
      BY <1>1, <2>1, <2>2 DEF Waiting
    <3>2. Coming => Coming'
      BY <1>1, <2>1 DEF Coming
    <3>3. QED
      BY <1>1, <3>1, <3>2 DEF Wakeups, Announced
  <2>6. \E w \in Workers : pc'[w] # "blocked"
    BY <1>1, <2>1, FiniteThreads DEF Blocked
  <2>7. QED
    BY <2>4, <2>5, <2>6 DEF Wakeups, Covered
<1>5. QED
  BY <1>2, <1>3, <1>4 DEF WakeStep

\* Labels at which a worker is not counted as sleeping.
Outside == Label \ {"ticket", "checkState", "checkGlobal", "checkLocals", "wait", "blocked", "retract"}

\* workerLoop: a worker looks for jobs or runs one.
LEMMA LoopWakeups ==
  ASSUME NEW w \in Workers
  PROVE  /\ Accounts /\ Wakeups
            /\ (\/ WorkerInit(w) \/ AwaitRunning(w) \/ LoopTop(w) \/ PopLocal(w) \/ GrabBatch(w)
                \/ PushRest(w) \/ (\E v \in Workers : StealFrom(w, v)) \/ SpinOnGlobal(w) \/ FinishJob(w))
         => Wakeups'
<1> SUFFICES ASSUME Accounts, Wakeups,
                    \/ WorkerInit(w) \/ AwaitRunning(w) \/ LoopTop(w) \/ PopLocal(w) \/ GrabBatch(w)
                    \/ PushRest(w) \/ (\E v \in Workers : StealFrom(w, v)) \/ SpinOnGlobal(w) \/ FinishJob(w)
             PROVE  Wakeups'
  OBVIOUS
<1> USE DEF WorkerInit, AwaitRunning, LoopTop, PopLocal, GrabBatch, PushRest, StealFrom, SpinOnGlobal,
            FinishJob, AtLabel
<1>1. UNCHANGED <<sub, ticket, notifier, sleeping, state>>
  BY DEF startUnchanged, submitVars, controlVars
<1>2. pc[w] \in Outside /\ (pc' = pc \/ \E label \in Outside : pc' = [pc EXCEPT ![w] = label])
  <2>1. pc[w] \in Outside
    BY DEF Outside, Label
  <2>2. CASE pc' = pc
    BY <2>1, <2>2
  <2>3. CASE \E label \in Outside : Goto(w, label)
    BY <2>1, <2>3 DEF Goto
  <2>4. pc' = pc \/ \E label \in Outside : Goto(w, label)
    BY DEF RunNext, Outside, Label
  <2>5. QED
    BY <2>2, <2>3, <2>4
<1>3. wake' = wake \/ wake' = [wake EXCEPT ![w] = "check"]
  BY DEF StartWake, startUnchanged
<1>4. globalQ' # <<>> => globalQ # <<>>
  <2>1. \/ globalQ' = globalQ \/ globalQ' = Tail(globalQ)
        \/ \E n \in Nat : globalQ' = SubSeq(globalQ, n + 1, Len(globalQ))
    <3>1. ASSUME GrabBatch(w) PROVE globalQ' = globalQ \/ \E n \in Nat : globalQ' = SubSeq(globalQ, n + 1, Len(globalQ))
      <4>1. ReadyPrefix \in Nat
        BY ReadyPrefixType DEF Accounts, Data, Entries
      <4>2. Lesser(MaxBatch, ReadyPrefix) \in Nat
        BY <4>1, PoolAssumption DEF Lesser
      <4>3. QED
        BY <3>1, <4>2
    <3>2. QED
      BY <3>1 DEF startUnchanged, queueVars
  <2>2. globalQ \in Entries(Job, Procs)
    BY DEF Accounts, Data
  <2>3. ASSUME globalQ = <<>> PROVE Tail(globalQ) = <<>> /\ \A n \in Nat : SubSeq(globalQ, n + 1, Len(globalQ)) = <<>>
    BY <2>3
  <2>4. QED
    BY <2>1, <2>3
<1> HIDE DEF WorkerInit, AwaitRunning, LoopTop, PopLocal, GrabBatch, PushRest, StealFrom, SpinOnGlobal,
             FinishJob, AtLabel
<1>5. /\ w \in Procs /\ pc \in [Workers -> Label] /\ wake \in [Procs -> {"none", "check", "add", "notify"}]
  BY FiniteThreads DEF Accounts, Flags
<1>6. pc'[w] \in Outside /\ \A v \in Workers : v # w => pc'[v] = pc[v]
  BY <1>2, <1>5
<1>7. InSleepSection' = InSleepSection
  BY <1>2, <1>6 DEF InSleepSection, Outside
<1>8. Tickets' /\ SleepCount'
  BY <1>1, <1>7 DEF Wakeups, Tickets, SleepCount
<1>9. Announced'
  <2>1. \A v \in Workers : Waiting(v)' => Waiting(v)
    BY <1>1, <1>6 DEF Waiting, Outside
  <2>2. Coming => Coming'
    BY <1>1, <1>3, <1>5 DEF Coming
  <2>3. QED
    BY <1>4, <2>1, <2>2 DEF Wakeups, Announced
<1>10. Covered'
  BY <1>6 DEF Covered, Outside
<1>11. QED
  BY <1>8, <1>9, <1>10 DEF Wakeups

\* workerLoop: the announcement, the ticket, the looks at the state and the queues, the wait.
LEMMA SleepWakeups ==
  ASSUME NEW w \in Workers
  PROVE  /\ Accounts /\ Wakeups
            /\ (\/ Announce(w) \/ TakeTicket(w) \/ CheckState(w) \/ CheckGlobal(w)
                \/ (\E v \in Workers : CheckLocal(w, v)) \/ Wait(w) \/ Retract(w))
         => Wakeups'
<1> SUFFICES ASSUME Accounts, Wakeups,
                    \/ Announce(w) \/ TakeTicket(w) \/ CheckState(w) \/ CheckGlobal(w)
                    \/ (\E v \in Workers : CheckLocal(w, v)) \/ Wait(w) \/ Retract(w)
             PROVE  Wakeups'
  OBVIOUS
<1>1. /\ pc \in [Workers -> Label] /\ ticket \in [Workers -> Nat] /\ notifier \in Nat
      /\ sleeping = Cardinality(InSleepSection)
  BY DEF Accounts, Flags, Wakeups, SleepCount
<1>2. UNCHANGED <<sub, wake, state, globalQ, notifier>>
  BY DEF Announce, TakeTicket, CheckState, CheckGlobal, CheckLocal, Wait, Retract, sleepUnchanged,
         queueVars, submitVars, controlVars
<1>3. \A v \in Workers : v # w => pc'[v] = pc[v] /\ ticket'[v] = ticket[v]
  BY <1>1 DEF Announce, TakeTicket, CheckState, CheckGlobal, CheckLocal, Wait, Retract, Goto
<1>4. ticket'[w] = ticket[w] \/ ticket'[w] = notifier
  BY <1>1 DEF Announce, TakeTicket, CheckState, CheckGlobal, CheckLocal, Wait, Retract
<1>5. pc'[w] = "blocked" => ticket'[w] = notifier
  BY <1>1 DEF Announce, TakeTicket, CheckState, CheckGlobal, CheckLocal, Wait, Retract, Goto
<1>6. Waiting(w)' => Waiting(w) \/ globalQ = <<>>
  BY <1>1, <1>2 DEF Announce, TakeTicket, CheckState, CheckGlobal, CheckLocal, Wait, Retract, Goto,
                    Waiting, AtLabel
<1>7. Tickets'
  BY <1>1, <1>2, <1>3, <1>4 DEF Wakeups, Tickets
<1>8. Announced'
  <2>1. \A v \in Workers : v # w => (Waiting(v)' <=> Waiting(v))
    BY <1>2, <1>3 DEF Waiting
  <2>2. Coming' <=> Coming
    BY <1>2 DEF Coming
  <2>3. QED
    BY <1>2, <1>6, <2>1, <2>2 DEF Wakeups, Announced
<1>9. Covered'
  BY <1>2, <1>5 DEF Covered
<1>10. SleepCount'
  <2>1. CASE Announce(w)
    <3>1. InSleepSection' = InSleepSection \cup {w} /\ w \notin InSleepSection /\ sleeping' = sleeping + 1
      BY <1>1, <1>3, <2>1 DEF Announce, AtLabel, Goto, InSleepSection
    <3>2. QED
      BY <1>1, <3>1, SectionFinite, FS_AddElement DEF SleepCount
  <2>2. CASE Retract(w) \/ (CheckState(w) /\ state # "RUNNING")
    <3>1. InSleepSection' = InSleepSection \ {w} /\ w \in InSleepSection /\ sleeping' = sleeping - 1
      BY <1>1, <1>3, <2>2 DEF Retract, CheckState, AtLabel, Goto, InSleepSection
    <3>2. QED
      BY <1>1, <3>1, SectionFinite, FS_RemoveElement DEF SleepCount
  <2>3. CASE \/ TakeTicket(w) \/ (CheckState(w) /\ state = "RUNNING") \/ CheckGlobal(w)
             \/ (\E v \in Workers : CheckLocal(w, v)) \/ Wait(w)
    <3>1. /\ sleeping' = sleeping
          /\ pc[w] \in {"ticket", "checkState", "checkGlobal", "checkLocals", "wait"}
          /\ pc'[w] \in {"checkState", "checkGlobal", "checkLocals", "wait", "blocked", "retract"}
      BY <1>1, <2>3 DEF TakeTicket, CheckState, CheckGlobal, CheckLocal, Wait, AtLabel, Goto
    <3>2. InSleepSection' = InSleepSection
      BY <1>3, <3>1 DEF InSleepSection
    <3>3. QED
      BY <1>1, <3>1, <3>2 DEF SleepCount
  <2>4. QED
    BY <2>1, <2>2, <2>3
<1>11. QED
  BY <1>7, <1>8, <1>9, <1>10 DEF Wakeups

\* start, stop: between runs of the pool no worker sleeps, and while it stops the
\* producers' wakeups no longer matter.
LEMMA ControlWakeups ==
  Accounts /\ Wakeups /\ (StartBegin \/ StopBegin \/ ControlStep) => Wakeups'
<1> SUFFICES ASSUME Accounts, Wakeups, StartBegin \/ StopBegin \/ ControlStep PROVE Wakeups'
  OBVIOUS
<1>1. /\ UNCHANGED <<sub, wake, globalQ, ticket, sleeping>>
      /\ pc \in [Workers -> Label] /\ ticket \in [Workers -> Nat] /\ notifier \in Nat
  BY DEF StartBegin, StopBegin, ControlStep, StartEnd, StopAdd, StopNotifyAll, StopJoin,
         startUnchanged, stopUnchanged, queueVars, submitVars, Accounts, Flags
<1>2. notifier' = notifier \/ notifier' = notifier + 1
  BY DEF StartBegin, StopBegin, ControlStep, StartEnd, StopAdd, StopNotifyAll, StopJoin, startUnchanged
<1>3. \A w \in Workers : ticket[w] <= notifier /\ ticket[w] \in Nat
  BY <1>1 DEF Wakeups, Tickets
<1>4. Tickets'
  BY <1>1, <1>2, <1>3 DEF Tickets
<1>5. \A w \in Workers : \/ pc'[w] = pc[w] \/ (pc[w] = "blocked" /\ pc'[w] = "wait")
                         \/ pc[w] = "off" /\ pc'[w] = "init"
                         \/ pc[w] = "exited" /\ pc'[w] = "off"
  BY <1>1 DEF StartBegin, StopBegin, ControlStep, StartEnd, StopAdd, StopNotifyAll, StopJoin,
              Accounts, Control, Phase
<1>6. SleepCount'
  <2>1. InSleepSection' = InSleepSection
    BY <1>5 DEF InSleepSection
  <2>2. QED
    BY <1>1, <2>1 DEF Wakeups, SleepCount
<1>7. Announced'
  <2>1. \A w \in Workers : Waiting(w)' => Waiting(w)
    BY <1>1, <1>2, <1>3, <1>5 DEF Waiting
  <2>2. Coming' <=> Coming
    BY <1>1 DEF Coming
  <2>3. QED
    BY <1>1, <2>1, <2>2 DEF Wakeups, Announced
<1>8. Covered'
  <2>1. CASE StartBegin \/ StopBegin \/ StopAdd \/ StopNotifyAll \/ StopJoin
    <3>1. state' # "RUNNING"
      BY <2>1 DEF StartBegin, StopBegin, StopAdd, StopNotifyAll, StopJoin, Accounts, Control, Phase
    <3>2. QED
      BY <3>1 DEF Covered
  <2>2. CASE StartEnd
    <3>1. \A w \in Workers : pc'[w] # "blocked"
      BY <2>2 DEF StartEnd, Accounts, Control, Phase
    <3>2. QED
      BY <3>1, PoolAssumption DEF Covered
  <2>3. QED
    BY <2>1, <2>2 DEF ControlStep
<1>9. QED
  BY <1>4, <1>6, <1>7, <1>8 DEF Wakeups

\* Nobody sleeps in a pool that was not started.
LEMMA InitWakeups == Init => Wakeups
<1> SUFFICES ASSUME Init PROVE Wakeups
  OBVIOUS
<1>1. InSleepSection = {}
  BY DEF Init, InSleepSection
<1>2. SleepCount
  BY <1>1, FS_EmptySet DEF Init, SleepCount
<1>3. Tickets /\ Announced /\ Covered
  BY DEF Init, Tickets, Announced, Covered
<1>4. QED
  BY <1>2, <1>3 DEF Wakeups

\* Every step of producers, workers, start() and stop() keeps the count of
\* sleepers and the cover of the queued jobs.
LEMMA NextWakeups == Accounts /\ Wakeups /\ [Next]_vars => Wakeups'
<1> SUFFICES ASSUME Accounts, Wakeups, [Next]_vars PROVE Wakeups'
  OBVIOUS
<1>1. ASSUME NEW p \in Procs, \/ \E n \in 1..MaxBulk : RunBulk(p, n)
                              \/ RunJob(p) \/ SubmitStep(p)
      PROVE  Wakeups'
  BY <1>1, SubmitWakeups
<1>2. ASSUME NEW p \in Procs, WakeStep(p) PROVE Wakeups'
  BY <1>2, WakeWakeups
<1>3. ASSUME NEW w \in Workers, WorkerStep(w) PROVE Wakeups'
  BY <1>3, LoopWakeups, SleepWakeups DEF WorkerStep
<1>4. CASE StartBegin \/ StopBegin \/ ControlStep
  BY <1>4, ControlWakeups
<1>5. CASE UNCHANGED vars
  BY <1>5 DEF vars, workerVars, queueVars, submitVars, controlVars, Wakeups, Tickets, SleepCount,
              Announced, Covered, Coming, Waiting, InSleepSection
<1>6. QED
  BY <1>1, <1>2, <1>3, <1>4, <1>5 DEF Next

\* workerLoop / wakeUpOneWorker: whatever the number of threads and the capacities, the
\* sleeping workers are counted right, and a job queued in a running pool whose workers all
\* sleep has a wakeup under way.
THEOREM NoLostWakeupHolds == Spec => []NoLostWakeup
BY InitAccounts, NextAccounts, InitWakeups, NextWakeups, WakeupsSuffice, PTL DEF Spec
=============================================================================
