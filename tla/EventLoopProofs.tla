-------------------------- MODULE EventLoopProofs --------------------------
(***************************************************************************)
(* Proofs about EventLoop, whatever the capacities and the numbers of      *)
(* threads and tasks: no task is lost or run twice, and the final drain    *)
(* runs those that were queued when quit was stored.                       *)
(***************************************************************************)
EXTENDS EventLoop, CountingProofs

Issued == 1 .. submitted

(***************************************************************************)
(* The inductive invariant.                                                *)
(***************************************************************************)
Types ==
  /\ submitted \in 0 .. MaxJobs
  /\ l1 \in Entries(Issued, Callers)
  /\ overflow \in Seq(Issued) /\ cache \in Seq(Issued) /\ jobs \in Seq(Issued)
  /\ todo \in [Callers -> Seq(Issued)]
  /\ call \in [Callers -> {"idle", "fill", "overflow", "signal", "write"}]
  /\ runs \in [Job -> Nat]
  /\ accepted \subseteq Issued
  /\ quota \in Nat /\ processed \in Nat

\* doPendingJobs: what the loop thread is running is what it has taken.
\* queueInLoop: the tasks a call has still to queue go with the call.
Control ==
  /\ jobs # <<>> <=> pc = "runL1"
  /\ pc = "runL2" => quota \in 1 .. Len(cache)
  /\ \A p \in Callers : todo[p] # <<>> => call[p] \in {"fill", "overflow"}
  /\ \A j \in Job \ Issued : runs[j] = 0

\* A task queued before quit was stored is in none of the calls under way.
Settled == \A j \in accepted : TimesIn(todo, j) = 0

IInv == Types /\ Control /\ RunOnce /\ Settled /\ QuitRunsAccepted

\* There are finitely many threads.
LEMMA FiniteCallers == IsFiniteSet(Callers)
BY LoopAssumption, FS_AddElement DEF Callers
-----------------------------------------------------------------------------
\* Poppable is the length of a part of L1 at its front.
LEMMA PoppableType ==
  ASSUME NEW S, l1 \in Entries(S, Callers)
  PROVE  Poppable \in 0 .. Len(l1)
<1> DEFINE top == Lesser(BatchSize, Len(l1))
           filled == {n \in 0 .. top : \A i \in 1 .. n : l1[i].ready}
           short == {top - n : n \in filled}
<1>1. top \in 0 .. Len(l1)
  BY LoopAssumption DEF Lesser, Entries
<1>2. short \in SUBSET Nat /\ short # {}
  <2>1. 0 \in filled
    BY <1>1
  <2>2. QED
    BY <1>1, <2>1
<1>3. PICK m \in short : \A k \in short : m <= k
  <2> DEFINE less == {ss \in Nat \X Nat : ss[1] < ss[2]}
  <2>1. IsWellFoundedOn(less, Nat)
    BY NatLessThanWellFounded DEF OpToRel
  <2>2. PICK m \in short : \A k \in short : <<k, m>> \notin less
    BY <1>2, <2>1, WFMin
  <2>3. ASSUME NEW k \in short PROVE m <= k
    <3>1. k \in Nat /\ m \in Nat
      BY <1>2
    <3>2. ~ (k < m)
      BY <2>2, <3>1
    <3>3. QED
      BY <3>1, <3>2
  <2>4. QED
    BY <2>3
<1>4. PICK n \in filled : m = top - n
  BY <1>3
<1>5. \A k \in filled : k <= n
  <2>1. TAKE k \in filled
  <2>2. top - n <= top - k
    BY <1>3, <1>4
  <2>3. QED
    BY <1>1, <2>2
<1>6. Poppable \in filled
  BY <1>5 DEF Poppable
<1>7. QED
  BY <1>1, <1>6
-----------------------------------------------------------------------------
(***************************************************************************)
(* The steps that move no task.                                            *)
(***************************************************************************)
\* How often a task is in each place.
LEMMA CountsType ==
  ASSUME Types, NEW j
  PROVE  /\ Times(JobsOf(l1), j) \in Nat /\ Times(overflow, j) \in Nat
         /\ Times(cache, j) \in Nat /\ Times(jobs, j) \in Nat /\ TimesIn(todo, j) \in Nat
<1>1. JobsOf(l1) \in Seq(Issued)
  BY JobsOfType DEF Types
<1>2. TimesIn(todo, j) \in Nat
  <2>1. IsFiniteSet(DOMAIN todo) /\ \A p \in DOMAIN todo : todo[p] \in Seq(Issued)
    BY FiniteCallers DEF Types
  <2>2. QED
    BY <2>1, TimesInType
<1>3. QED
  BY <1>1, <1>2, TimesSeq DEF Types

\* A step that leaves the queues and the tasks alone.
LEMMA QuietIInv ==
  ASSUME IInv, UNCHANGED <<queues, jobs, todo, submitted, runs>>,
         quota' \in Nat, processed' \in Nat,
         call' \in [Callers -> {"idle", "fill", "overflow", "signal", "write"}],
         \A p \in Callers : call[p] \in {"fill", "overflow"} => call'[p] = call[p],
         pc' = "runL1" <=> pc = "runL1",
         pc' = "runL2" => pc = "runL2" /\ quota' = quota,
         accepted' \subseteq Issued,
         \A j \in accepted' : TimesIn(todo, j) = 0,
         pc' = "ended" => \A j \in accepted' : runs[j] = 1
  PROVE  IInv'
<1>1. Types'
  BY DEF IInv, Types, Issued, queues
<1>2. Control'
  BY DEF IInv, Control, queues, Issued
<1>3. RunOnce'
  BY DEF IInv, RunOnce, Places, queues
<1>4. Settled' /\ QuitRunsAccepted'
  BY DEF Settled, QuitRunsAccepted
<1>5. QED
  BY <1>1, <1>2, <1>3, <1>4 DEF IInv

\* quit() stores the tasks accepted so far.
LEMMA SetQuitAccepts ==
  ASSUME IInv, SetQuit
  PROVE  accepted' \subseteq Issued /\ \A j \in accepted' : TimesIn(todo, j) = 0
<1>1. IsFiniteSet(DOMAIN todo) /\ DOMAIN todo = Callers /\ \A p \in DOMAIN todo : todo[p] \in Seq(Issued)
  BY FiniteCallers DEF IInv, Types
<1>2. ASSUME NEW j \in Accepted PROVE j \in Issued /\ TimesIn(todo, j) = 0
  <2>1. \A p \in DOMAIN todo : \A i \in DOMAIN todo[p] : todo[p][i] # j
    BY <1>1, <1>2 DEF Accepted
  <2>2. QED
    BY <1>1, <1>2, <2>1, TimesInType DEF Accepted, Issued
<1>3. QED
  BY <1>2 DEF SetQuit, IInv, Types, Settled

\* quit(), from another thread or in a callback.
LEMMA QuitIInv == IInv /\ (QuitFromOutside \/ QuitInCallback) => IInv'
<1> SUFFICES ASSUME IInv, QuitFromOutside \/ QuitInCallback PROVE IInv'
  OBVIOUS
<1>1. accepted' \subseteq Issued /\ \A j \in accepted' : TimesIn(todo, j) = 0
  BY SetQuitAccepts DEF QuitFromOutside, QuitInCallback
<1>2. pc # "ended" /\ UNCHANGED <<queues, turn, calls, pc, runs>>
  BY DEF QuitFromOutside, QuitInCallback, InCallback
<1>3. QED
  BY <1>1, <1>2, QuietIInv DEF IInv, Types, turn, calls

\* The signal at the end of queueInLoop, the write of the eventfd and that of quit().
LEMMA SignalIInv ==
  ASSUME NEW p \in Callers
  PROVE  IInv /\ (Signal(p) \/ Wakeup(p) \/ QuitWakeup) => IInv'
<1> SUFFICES ASSUME IInv, Signal(p) \/ Wakeup(p) \/ QuitWakeup PROVE IInv'
  OBVIOUS
<1>1. UNCHANGED <<queues, turn, todo, submitted, pc, runs, accepted>>
  BY DEF Signal, Wakeup, QuitWakeup, calls
<1>2. /\ call' \in [Callers -> {"idle", "fill", "overflow", "signal", "write"}]
      /\ \A c \in Callers : call[c] \in {"fill", "overflow"} => call'[c] = call[c]
  BY DEF Signal, Wakeup, QuitWakeup, calls, Calling, IInv, Types
<1>3. QED
  BY <1>1, <1>2, QuietIInv DEF IInv, Types, Settled, QuitRunsAccepted, turn

\* threadFunc and loop() up to doPendingJobs, and the end of its turn.
LEMMA LoopIInv ==
  IInv /\ (\/ SemRelease \/ EnterLoop \/ LoopOrDrain \/ Poll \/ PollOther \/ ReadEventfd
           \/ ResetWakingUp \/ EndChannels \/ Begin \/ Leftover) => IInv'
<1> SUFFICES ASSUME IInv,
                    \/ SemRelease \/ EnterLoop \/ LoopOrDrain \/ Poll \/ PollOther \/ ReadEventfd
                    \/ ResetWakingUp \/ EndChannels \/ Begin \/ Leftover
             PROVE  IInv'
  OBVIOUS
<1>1. /\ UNCHANGED <<queues, jobs, quota, todo, submitted, runs, accepted>>
      /\ processed' \in {0, processed}
      /\ pc \notin {"runL1", "runL2", "ended"} /\ pc' \notin {"runL1", "runL2", "ended"}
  BY DEF SemRelease, EnterLoop, LoopOrDrain, Poll, PollOther, ReadEventfd, ResetWakingUp,
         EndChannels, Begin, Leftover, At, turn, calls
<1>2. /\ call' \in [Callers -> {"idle", "fill", "overflow", "signal", "write"}]
      /\ \A c \in Callers : call[c] \in {"fill", "overflow"} => call'[c] = call[c]
  <2>1. call' = call \/ (call[Loop] = "idle" /\ call' = [call EXCEPT ![Loop] = "signal"])
    BY DEF SemRelease, EnterLoop, LoopOrDrain, Poll, PollOther, ReadEventfd, ResetWakingUp,
           EndChannels, Begin, Leftover, At, calls, Calling
  <2>2. QED
    BY <2>1 DEF IInv, Types, Callers
<1>3. QED
  BY <1>1, <1>2, QuietIInv DEF IInv, Types, Settled, QuitRunsAccepted

\* The final drain ends with every queue empty and no task of the batch left.
LEMMA ReturnIInv == IInv /\ Return => IInv'
<1> SUFFICES ASSUME IInv, Return PROVE IInv'
  OBVIOUS
<1>1. /\ UNCHANGED <<queues, turn, calls, runs, accepted>>
      /\ pc = "return" /\ pc' \in {"top", "begin", "ended"}
      /\ pc' = "ended" => queues = <<<<>>, <<>>, <<>>>>
  BY DEF Return, At
<1>2. ASSUME pc' = "ended", NEW j \in accepted PROVE runs[j] = 1
  <2>1. l1 = <<>> /\ overflow = <<>> /\ cache = <<>> /\ jobs = <<>>
    BY <1>1, <1>2 DEF queues, IInv, Control
  <2>2. JobsOf(l1) = <<>>
    BY <2>1 DEF JobsOf
  <2>3. j \in 1 .. submitted /\ TimesIn(todo, j) = 0
    BY DEF IInv, Types, Settled, Issued
  <2>4. Places(j) = 0
    BY <2>1, <2>2, <2>3, TimesEmpty DEF Places
  <2>5. runs[j] \in Nat
    BY <2>3, LoopAssumption DEF IInv, Types, Job
  <2>6. QED
    BY <2>3, <2>4, <2>5 DEF IInv, RunOnce
<1>3. QED
  BY <1>1, <1>2, QuietIInv DEF IInv, Types, Settled, turn, calls
-----------------------------------------------------------------------------
(***************************************************************************)
(* The steps that move tasks.                                              *)
(***************************************************************************)
\* One place of a batch is published.
LEMMA FillIInv ==
  ASSUME NEW p \in Callers
  PROVE  IInv /\ Fill(p) => IInv'
<1> SUFFICES ASSUME IInv, Fill(p) PROVE IInv'
  OBVIOUS
<1>1. PICK i : l1' = Filled(l1, i)
  BY DEF Fill, Filled
<1>2. UNCHANGED <<overflow, cache, turn, todo, submitted, pc, runs, accepted>>
  BY DEF Fill
<1>3. /\ call' \in [Callers -> {"idle", "fill", "overflow", "signal", "write"}]
      /\ \A c \in Callers : todo[c] # <<>> => call'[c] \in {"fill", "overflow"}
  <2>1. call' \in {call, [call EXCEPT ![p] = IF todo[p] = <<>> THEN "signal" ELSE "overflow"]}
    BY DEF Fill, AfterL1, Calling
  <2>2. QED
    BY <2>1 DEF IInv, Types, Control
<1>4. l1' \in Entries(Issued, Callers) /\ JobsOf(l1)' = JobsOf(l1)
  <2>1. l1 \in Entries(Issued, Callers)
    BY DEF IInv, Types
  <2>2. QED
    BY <1>1, <2>1, JobsOfFilled
<1>5. Types'
  BY <1>2, <1>3, <1>4 DEF IInv, Types, Issued, Entries, turn
<1>6. RunOnce'
  <2>1. \A j : Places(j)' = Places(j)
    BY <1>2, <1>4 DEF Places, turn
  <2>2. QED
    BY <1>2, <2>1 DEF IInv, RunOnce
<1>7. Control' /\ Settled' /\ QuitRunsAccepted'
  BY <1>2, <1>3 DEF IInv, Control, Settled, QuitRunsAccepted, Issued, turn
<1>8. QED
  BY <1>5, <1>6, <1>7 DEF IInv

\* What L1 did not take goes to L2.
LEMMA PushOverflowIInv ==
  ASSUME NEW p \in Callers
  PROVE  IInv /\ PushOverflow(p) => IInv'
<1> SUFFICES ASSUME IInv, PushOverflow(p) PROVE IInv'
  OBVIOUS
<1>1. /\ overflow' = overflow \o todo[p]
      /\ todo' = [todo EXCEPT ![p] = <<>>]
      /\ call' = [call EXCEPT ![p] = "signal"]
      /\ UNCHANGED <<l1, cache, turn, submitted, pc, runs, accepted>>
  BY DEF PushOverflow, Calling
<1>2. /\ overflow \in Seq(Issued) /\ todo[p] \in Seq(Issued) /\ <<>> \in Seq(Issued)
      /\ IsFiniteSet(DOMAIN todo) /\ p \in DOMAIN todo
      /\ \A c \in DOMAIN todo : todo[c] \in Seq(Issued)
  BY FiniteCallers DEF IInv, Types
<1>3. ASSUME NEW j
      PROVE  /\ Times(overflow', j) = Times(overflow, j) + Times(todo[p], j)
             /\ TimesIn(todo', j) = TimesIn(todo, j) - Times(todo[p], j)
             /\ Times(todo[p], j) \in Nat /\ TimesIn(todo', j) \in Nat
  <2>1. TimesIn(todo', j) = TimesIn(todo, j) + Times(<<>>, j) - Times(todo[p], j)
    BY ZenonT(40), <1>1, <1>2, TimesInExcept
  <2>2. DOMAIN todo' = DOMAIN todo /\ \A c \in DOMAIN todo' : todo'[c] \in Seq(Issued)
    BY <1>1, <1>2
  <2>3. TimesIn(todo', j) \in Nat /\ TimesIn(todo, j) \in Nat
    BY <1>2, <2>2, TimesInType
  <2>4. Times(overflow', j) = Times(overflow, j) + Times(todo[p], j)
    BY <1>1, <1>2, TimesConcat
  <2>5. Times(todo[p], j) \in Nat
    BY <1>2, TimesSeq
  <2>6. Times(<<>>, j) = 0
    BY TimesEmpty
  <2>7. QED
    BY <2>1, <2>3, <2>4, <2>5, <2>6
<1>4. Types'
  BY <1>1, <1>2 DEF IInv, Types, Issued, turn
<1>5. Control'
  BY <1>1 DEF IInv, Types, Control, Issued, turn
<1>6. RunOnce'
  <2>1. ASSUME NEW j PROVE Places(j)' = Places(j)
    <3>1. UNCHANGED <<l1, cache, jobs>>
      BY <1>1 DEF turn
    <3>2. /\ Times(JobsOf(l1), j)' = Times(JobsOf(l1), j)
          /\ Times(cache, j)' = Times(cache, j) /\ Times(jobs, j)' = Times(jobs, j)
      BY <3>1
    <3>3. QED
      BY <1>3, <3>2, CountsType DEF Places, IInv
  <2>2. QED
    BY <1>1, <2>1 DEF IInv, RunOnce
<1>7. Settled'
  <2>1. ASSUME NEW j \in accepted PROVE TimesIn(todo', j) = 0
    <3>1. TimesIn(todo, j) = 0
      BY DEF IInv, Settled
    <3>2. QED
      BY <1>3, <3>1
  <2>2. QED
    BY <1>1, <2>1 DEF Settled
<1>8. QuitRunsAccepted'
  BY <1>1 DEF IInv, QuitRunsAccepted
<1>9. QED
  BY <1>4, <1>5, <1>6, <1>7, <1>8 DEF IInv
\* queueInLoopBatch numbers its tasks; L1 takes the first of them.
LEMMA QueueIInv ==
  ASSUME NEW p \in Callers, NEW n \in 1 .. MaxBulk, NEW k \in 0 .. n
  PROVE  IInv /\ Queue(p, n, k) => IInv'
<1> SUFFICES ASSUME IInv, Queue(p, n, k) PROVE IInv'
  OBVIOUS
<1> DEFINE new == [i \in 1 .. n |-> submitted + i]
           added == [i \in 1 .. k |-> [job |-> new[i], by |-> p, ready |-> FALSE]]
           Numbered == 1 .. submitted + n
<1>1. /\ submitted' = submitted + n /\ submitted + n <= MaxJobs
      /\ l1' = l1 \o added
      /\ todo' = [todo EXCEPT ![p] = SubSeq(new, k + 1, n)]
      /\ call[p] = "idle"
      /\ call' = [call EXCEPT ![p] = IF k > 0 THEN "fill" ELSE "overflow"]
      /\ UNCHANGED <<overflow, cache, turn, pc, runs, accepted>>
  BY DEF Queue, Calling
<1>2. submitted \in Nat /\ n \in Nat /\ k \in Nat /\ MaxJobs \in Nat
  BY LoopAssumption DEF IInv, Types
<1>3. Issued' = Numbered /\ Issued \subseteq Numbered
  BY <1>1, <1>2 DEF Issued
<1>4. new \in Seq(Numbered) /\ Len(new) = n
  BY <1>2
<1>5. added \in Entries(Numbered, Callers) /\ JobsOf(added) = SubSeq(new, 1, k)
  <2>1. /\ DOMAIN added = 1 .. k
        /\ \A i \in 1 .. k : /\ added[i] \in [job : Numbered, by : Callers, ready : BOOLEAN]
                             /\ added[i].job = submitted + i
    BY <1>2
  <2>2. added \in Entries(Numbered, Callers)
    BY <1>2, <2>1 DEF Entries
  <2>3. JobsOf(added) = [i \in 1 .. k |-> submitted + i]
    BY <2>1 DEF JobsOf
  <2>4. SubSeq(new, 1, k) = [i \in 1 .. k |-> submitted + i]
    BY <1>2, <1>4
  <2>5. QED
    BY <2>2, <2>3, <2>4
<1>6. /\ l1 \in Entries(Numbered, Callers) /\ overflow \in Seq(Numbered) /\ cache \in Seq(Numbered) /\ jobs \in Seq(Numbered)
      /\ todo \in [Callers -> Seq(Numbered)] /\ accepted \subseteq Numbered
  <2>1. \A q : q \in Seq(Issued) => q \in Seq(Numbered)
    BY <1>3, SeqMonotonic
  <2>2. l1 \in Entries(Numbered, Callers)
    <3>1. [job : Issued, by : Callers, ready : BOOLEAN] \subseteq [job : Numbered, by : Callers, ready : BOOLEAN]
      BY <1>3
    <3>2. QED
      BY <3>1, SeqMonotonic DEF IInv, Types, Entries
  <2>3. QED
    BY <1>3, <2>1, <2>2 DEF IInv, Types
<1>7. SubSeq(new, k + 1, n) \in Seq(Numbered)
  BY <1>4, TimesSplit
<1> HIDE DEF new, added, Numbered
<1>8. l1' \in Entries(Numbered, Callers)
  BY <1>1, <1>5, <1>6, TimesJobsConcat
<1>9. todo' \in [Callers -> Seq(Numbered)]
  BY <1>1, <1>6, <1>7
<1>10. Types'
  <2>1. call' \in [Callers -> {"idle", "fill", "overflow", "signal", "write"}]
    BY <1>1 DEF IInv, Types
  <2>2. QED
    BY <1>1, <1>2, <1>3, <1>6, <1>8, <1>9, <2>1 DEF IInv, Types, turn
<1>11. todo[p] = <<>>
  BY <1>1 DEF IInv, Control
<1>12. Control'
  <2>1. \A c \in Callers : todo'[c] # <<>> => call'[c] \in {"fill", "overflow"}
    BY <1>1 DEF IInv, Types, Control
  <2>2. \A j \in Job \ Issued' : runs'[j] = 0
    BY <1>1, <1>3 DEF IInv, Control
  <2>3. QED
    BY <1>1, <2>1, <2>2 DEF IInv, Control, turn
<1>13. ASSUME NEW j
       PROVE  /\ Times(JobsOf(l1'), j) = Times(JobsOf(l1), j) + Times(SubSeq(new, 1, k), j)
              /\ TimesIn(todo', j) = TimesIn(todo, j) + Times(SubSeq(new, k + 1, n), j)
              /\ Times(SubSeq(new, 1, k), j) \in Nat /\ Times(SubSeq(new, k + 1, n), j) \in Nat
              /\ Times(new, j) = Times(SubSeq(new, 1, k), j) + Times(SubSeq(new, k + 1, n), j)
  <2>1. /\ SubSeq(new, 1, k) \in Seq(Numbered)
        /\ Times(new, j) = Times(SubSeq(new, 1, k), j) + Times(SubSeq(new, k + 1, n), j)
    BY <1>4, TimesSplit
  <2>2. Times(JobsOf(l1'), j) = Times(JobsOf(l1), j) + Times(JobsOf(added), j)
    <3>1. l1 \in Entries(Numbered, Callers) /\ added \in Entries(Numbered, Callers) /\ l1' = l1 \o added
      BY <1>1, <1>5, <1>6
    <3>2. QED
      BY <3>1, TimesJobsConcat
  <2>3. Times(JobsOf(l1'), j) = Times(JobsOf(l1), j) + Times(SubSeq(new, 1, k), j)
    BY <1>5, <2>2
  <2>4. IsFiniteSet(DOMAIN todo) /\ p \in DOMAIN todo /\ \A c \in DOMAIN todo : todo[c] \in Seq(Numbered)
    BY <1>6, FiniteCallers
  <2>5. TimesIn(todo', j) = TimesIn(todo, j) + Times(SubSeq(new, k + 1, n), j) - Times(todo[p], j)
    BY <1>1, <1>7, <2>4, TimesInExcept
  <2>6. Times(todo[p], j) = 0
    BY <1>11, TimesEmpty
  <2>7. TimesIn(todo, j) \in Nat
    BY CountsType DEF IInv
  <2>8. Times(SubSeq(new, 1, k), j) \in Nat /\ Times(SubSeq(new, k + 1, n), j) \in Nat
    BY <1>7, <2>1, TimesSeq
  <2>9. QED
    BY <2>1, <2>3, <2>5, <2>6, <2>7, <2>8
<1>14. \A j \in Numbered : Times(new, j) = IF j \in Issued THEN 0 ELSE 1
  <2>1. ASSUME NEW j \in Numbered PROVE Times(new, j) = IF j \in submitted + 1 .. submitted + n THEN 1 ELSE 0
    <3>1. j \in Int
      BY <1>2 DEF Numbered
    <3>2. new = NumbersAfter(submitted, n)
      BY DEF new, NumbersAfter
    <3>3. QED
      BY <1>2, <3>1, <3>2, TimesNumbers
  <2>2. ASSUME NEW j \in Numbered PROVE j \in Issued <=> j \notin submitted + 1 .. submitted + n
    BY <1>2 DEF Numbered, Issued
  <2>3. QED
    BY <2>1, <2>2
<1>15. ASSUME NEW j PROVE Places(j)' = Places(j) + Times(new, j)
  <2>1. UNCHANGED <<overflow, cache, jobs>>
    BY <1>1 DEF turn
  <2>2. QED
    BY <1>13, <2>1, CountsType DEF Places, IInv
<1>16. RunOnce'
  <2>1. ASSUME NEW j \in Numbered PROVE Places(j)' + runs[j] = 1
    <3>1. CASE j \in Issued
      <4>1. Places(j) + runs[j] = 1 /\ Places(j)' = Places(j)
        BY <1>14, <1>15, <3>1, CountsType DEF IInv, RunOnce, Issued, Places
      <4>2. QED
        BY <4>1
    <3>2. CASE j \notin Issued
      <4>1. Places(j) = 0
        <5>1. JobsOf(l1) \in Seq(Issued)
          BY JobsOfType DEF IInv, Types
        <5>2. /\ Times(JobsOf(l1), j) = 0 /\ Times(overflow, j) = 0
              /\ Times(cache, j) = 0 /\ Times(jobs, j) = 0
          <6>1. ASSUME NEW q \in Seq(Issued) PROVE Times(q, j) = 0
            <7>1. \A i \in DOMAIN q : q[i] # j
              BY <3>2
            <7>2. QED
              BY <7>1, TimesSeq
          <6>2. QED
            BY <5>1, <6>1 DEF IInv, Types
        <5>3. IsFiniteSet(DOMAIN todo) /\ \A c \in DOMAIN todo : todo[c] \in Seq(Issued)
          BY FiniteCallers DEF IInv, Types
        <5>4. \A c \in DOMAIN todo : \A i \in DOMAIN todo[c] : todo[c][i] # j
          BY <3>2, <5>3
        <5>5. TimesIn(todo, j) = 0
          BY <5>3, <5>4, TimesInType
        <5>6. QED
          BY <5>2, <5>5 DEF Places
      <4>2. runs[j] = 0
        BY <1>1, <1>2, <3>2 DEF IInv, Control, Job, Numbered
      <4>3. QED
        BY <1>14, <1>15, <3>2, <4>1, <4>2
    <3>3. QED
      BY <3>1, <3>2
  <2>2. QED
    BY <1>1, <1>3, <2>1 DEF RunOnce, Issued
<1>17. Settled'
  <2>1. ASSUME NEW j \in accepted PROVE TimesIn(todo', j) = 0
    <3>1. j \in Issued /\ j \in Numbered /\ TimesIn(todo, j) = 0
      BY <1>6 DEF IInv, Types, Settled
    <3>2. QED
      BY <1>13, <1>14, <3>1
  <2>2. QED
    BY <1>1, <2>1 DEF Settled
<1>18. QuitRunsAccepted'
  BY <1>1 DEF IInv, QuitRunsAccepted
<1>19. QED
  BY <1>10, <1>12, <1>16, <1>17, <1>18 DEF IInv
\* popBulk, or the limit of the turn is reached.
LEMMA PopL1IInv == IInv /\ PopL1 => IInv'
<1> SUFFICES ASSUME IInv, PopL1 PROVE IInv'
  OBVIOUS
<1>1. /\ UNCHANGED <<overflow, cache, quota, todo, call, submitted, runs, accepted>>
      /\ pc = "popL1"
  BY DEF PopL1, At, calls
<1>2. jobs = <<>>
  BY <1>1 DEF IInv, Control
<1>3. CASE processed >= MaxTasks
  <2>1. UNCHANGED <<l1, jobs, processed>> /\ pc' = "leftover"
    BY <1>3, LoopAssumption DEF PopL1, At, IInv, Types
  <2>2. QED
    BY <1>1, <2>1, QuietIInv DEF IInv, Types, Control, Settled, queues
<1>4. CASE ~(processed >= MaxTasks)
  <2> DEFINE n == Poppable
             rest == SubSeq(JobsOf(l1), n + 1, Len(l1))
             taken == SubSeq(JobsOf(l1), 1, n)
  <2>1. /\ jobs' = [i \in 1 .. n |-> l1[i].job]
        /\ l1' = SubSeq(l1, n + 1, Len(l1))
        /\ processed' = processed + n
        /\ pc' = IF n > 0 THEN "runL1" ELSE "refill"
    BY <1>4 DEF PopL1, At
  <2>2. l1 \in Entries(Issued, Callers) /\ Len(l1) \in Nat
    BY LenProperties DEF IInv, Types, Entries
  <2>3. n \in 0 .. Len(l1)
    BY <2>2, PoppableType
  <2>4. JobsOf(l1) \in Seq(Issued) /\ Len(JobsOf(l1)) = Len(l1)
    BY <2>2, JobsOfType
  <2> HIDE DEF n
  <2>5. l1' \in Entries(Issued, Callers) /\ JobsOf(l1') = rest /\ jobs' = taken
    BY <2>1, <2>2, <2>3, JobsOfPopped
  <2>6. taken \in Seq(Issued) /\ Len(taken) = n
    BY <2>3, <2>4
  <2>7. Types'
    <3>1. processed' \in Nat
      BY <2>1, <2>2, <2>3 DEF IInv, Types
    <3>2. Issued' = Issued /\ Entries(Issued, Callers)' = Entries(Issued, Callers)
      BY <1>1 DEF Issued, Entries
    <3>3. QED
      BY <1>1, <2>5, <2>6, <3>1, <3>2 DEF IInv, Types
  <2>8. Control'
    <3>1. jobs' # <<>> <=> n > 0
      <4> HIDE DEF taken
      <4>1. taken # <<>> <=> Len(taken) > 0
        BY <2>6
      <4>2. QED
        BY <2>5, <2>6, <4>1
    <3>2. QED
      BY <1>1, <2>1, <2>3, <3>1 DEF IInv, Control, Issued
  <2>9. RunOnce'
    <3>1. ASSUME NEW j PROVE Places(j)' = Places(j)
      <4>1. Times(JobsOf(l1), j) = Times(taken, j) + Times(rest, j)
        BY <2>3, <2>4, TimesSplit
      <4>2. rest \in Seq(Issued)
        BY <2>3, <2>4, TimesSplit
      <4>3. Times(taken, j) \in Nat /\ Times(rest, j) \in Nat
        BY <2>6, <4>2, TimesSeq
      <4>4. Times(jobs, j) = 0
        BY <1>2, TimesEmpty
      <4>5. Times(JobsOf(l1'), j) = Times(rest, j) /\ Times(jobs', j) = Times(taken, j)
        BY <2>5
      <4>6. UNCHANGED <<overflow, cache, todo>>
        BY <1>1
      <4>7. QED
        BY <4>1, <4>3, <4>4, <4>5, <4>6, CountsType DEF Places, IInv
    <3>2. QED
      BY <1>1, <3>1 DEF IInv, RunOnce
  <2>10. Settled' /\ QuitRunsAccepted'
    BY <1>1, <2>1 DEF IInv, Settled, QuitRunsAccepted
  <2>11. QED
    BY <2>7, <2>8, <2>9, <2>10 DEF IInv
<1>5. QED
  BY <1>3, <1>4

\* L2 is swapped into the cache once that is used up.
LEMMA RefillIInv == IInv /\ Refill => IInv'
<1> SUFFICES ASSUME IInv, Refill PROVE IInv'
  OBVIOUS
<1>1. /\ pc = "refill" /\ UNCHANGED <<l1, jobs, todo, call, submitted, runs, accepted>>
      /\ quota' = ToProcess(Len(cache')) /\ processed' = processed + quota'
      /\ pc' = IF cache' = <<>> THEN "leftover" ELSE IF quota' = 0 THEN "popL1" ELSE "runL2"
  BY DEF Refill, At, calls
<1>2. \/ cache = <<>> /\ cache' = overflow /\ overflow' = <<>>
      \/ cache' = cache /\ overflow' = overflow
  BY DEF Refill
<1>3. cache' \in Seq(Issued) /\ overflow' \in Seq(Issued) /\ Len(cache') \in Nat
  BY <1>2 DEF IInv, Types
<1>4. quota' \in 0 .. Len(cache') /\ processed' \in Nat
  <2>1. processed \in Nat /\ MaxTasks \in Nat
    BY LoopAssumption DEF IInv, Types
  <2>2. quota' \in 0 .. Len(cache')
    BY <1>1, <1>3, <2>1 DEF ToProcess, Lesser
  <2>3. QED
    BY <1>1, <1>3, <2>1, <2>2
<1>5. Types'
  BY <1>1, <1>3, <1>4 DEF IInv, Types, Issued
<1>6. Control'
  BY <1>1, <1>3, <1>4 DEF IInv, Control, Issued
<1>7. RunOnce'
  <2>1. ASSUME NEW j PROVE Places(j)' = Places(j)
    <3>1. Times(overflow', j) + Times(cache', j) = Times(overflow, j) + Times(cache, j)
      BY <1>2, TimesEmpty, CountsType DEF IInv
    <3>2. /\ Times(JobsOf(l1'), j) = Times(JobsOf(l1), j) /\ Times(jobs', j) = Times(jobs, j)
          /\ TimesIn(todo', j) = TimesIn(todo, j)
      BY <1>1
    <3>3. Times(overflow', j) \in Nat /\ Times(cache', j) \in Nat
      BY <1>3, TimesSeq
    <3>4. QED
      BY <3>1, <3>2, <3>3, CountsType DEF Places, IInv
  <2>2. QED
    BY <1>1, <2>1 DEF IInv, RunOnce
<1>8. Settled' /\ QuitRunsAccepted'
  BY <1>1 DEF IInv, Settled, QuitRunsAccepted
<1>9. QED
  BY <1>5, <1>6, <1>7, <1>8 DEF IInv
\* The first task of the batch runs.
LEMMA RunL1IInv == IInv /\ RunL1 => IInv'
<1> SUFFICES ASSUME IInv, RunL1 PROVE IInv'
  OBVIOUS
<1>1. /\ UNCHANGED <<l1, overflow, cache, quota, processed, todo, call, submitted, accepted>>
      /\ pc = "runL1" /\ jobs' = Tail(jobs)
      /\ pc' = IF Len(jobs) > 1 THEN "runL1" ELSE IF processed < MaxTasks THEN "popL1" ELSE "refill"
      /\ runs' = [runs EXCEPT ![Head(jobs)] = @ + 1]
  BY DEF RunL1, At, Ran, queues, calls
<1>2. /\ jobs \in Seq(Issued) /\ jobs # <<>> /\ Tail(jobs) \in Seq(Issued)
      /\ Head(jobs) \in Issued /\ Head(jobs) \in Job
  BY SMTT(30), <1>1, LoopAssumption DEF IInv, Types, Control, Issued, Job
<1>3. Tail(jobs) # <<>> <=> Len(jobs) > 1
  <2>1. Len(Tail(jobs)) = Len(jobs) - 1 /\ Len(jobs) \in Nat
    BY <1>2, HeadTailProperties, LenProperties
  <2>2. Tail(jobs) # <<>> <=> Len(Tail(jobs)) > 0
    <3>1. ASSUME NEW t \in Seq(Issued) PROVE t # <<>> <=> Len(t) > 0
      OBVIOUS
    <3>2. QED
      BY <1>2, <3>1
  <2>3. QED
    BY <2>1, <2>2
<1>4. Types'
  BY <1>1, <1>2 DEF IInv, Types, Issued
<1>5. Control'
  BY <1>1, <1>2, <1>3 DEF IInv, Types, Control, Issued
<1>6. RunOnce'
  <2>1. ASSUME NEW j \in Issued PROVE Places(j)' + runs'[j] = 1
    <3>1. Times(jobs, j) = Times(jobs', j) + (IF Head(jobs) = j THEN 1 ELSE 0)
      BY <1>1, <1>2, TimesTail
    <3>2. Times(jobs', j) \in Nat
      BY <1>1, <1>2, TimesSeq
    <3>3. j \in Job /\ runs[j] \in Nat
      BY LoopAssumption DEF IInv, Types, Issued, Job
    <3>4. runs'[j] = runs[j] + (IF Head(jobs) = j THEN 1 ELSE 0)
      BY <1>1, <1>2, <3>3 DEF IInv, Types
    <3>5. Places(j) + runs[j] = 1
      BY DEF IInv, RunOnce, Issued
    <3>6. UNCHANGED <<l1, overflow, cache, todo>>
      BY <1>1
    <3>7. QED
      BY <3>1, <3>2, <3>3, <3>4, <3>5, <3>6, CountsType DEF Places, IInv
  <2>2. QED
    BY <1>1, <2>1 DEF RunOnce, Issued
<1>7. Settled' /\ QuitRunsAccepted'
  BY <1>1 DEF IInv, Settled, QuitRunsAccepted
<1>8. QED
  BY <1>4, <1>5, <1>6, <1>7 DEF IInv

\* The first task of the cache runs.
LEMMA RunL2IInv == IInv /\ RunL2 => IInv'
<1> SUFFICES ASSUME IInv, RunL2 PROVE IInv'
  OBVIOUS
<1>1. /\ UNCHANGED <<l1, overflow, jobs, processed, todo, call, submitted, accepted>>
      /\ pc = "runL2" /\ cache' = Tail(cache) /\ quota' = quota - 1
      /\ pc' = IF quota > 1 THEN "runL2" ELSE "popL1"
      /\ runs' = [runs EXCEPT ![Head(cache)] = @ + 1]
  BY DEF RunL2, At, Ran, calls
<1>2. /\ cache \in Seq(Issued) /\ cache # <<>> /\ Tail(cache) \in Seq(Issued)
      /\ Len(Tail(cache)) = Len(cache) - 1 /\ Len(cache) \in Nat /\ quota \in 1 .. Len(cache)
      /\ Head(cache) \in Issued /\ Head(cache) \in Job
  <2>1. quota \in 1 .. Len(cache) /\ cache \in Seq(Issued)
    BY <1>1 DEF IInv, Types, Control
  <2>2. cache # <<>> /\ Len(cache) \in Nat
    BY <2>1
  <2>3. QED
    BY SMTT(30), <2>1, <2>2, HeadTailProperties, LoopAssumption DEF IInv, Types, Issued, Job
<1>3. Types'
  BY <1>1, <1>2 DEF IInv, Types, Issued
<1>4. Control'
  BY <1>1, <1>2 DEF IInv, Types, Control, Issued
<1>5. RunOnce'
  <2>1. ASSUME NEW j \in Issued PROVE Places(j)' + runs'[j] = 1
    <3>1. Times(cache, j) = Times(cache', j) + (IF Head(cache) = j THEN 1 ELSE 0)
      BY <1>1, <1>2, TimesTail
    <3>2. Times(cache', j) \in Nat
      BY <1>1, <1>2, TimesSeq
    <3>3. j \in Job /\ runs[j] \in Nat
      BY LoopAssumption DEF IInv, Types, Issued, Job
    <3>4. runs'[j] = runs[j] + (IF Head(cache) = j THEN 1 ELSE 0)
      BY <1>1, <1>2, <3>3 DEF IInv, Types
    <3>5. Places(j) + runs[j] = 1
      BY DEF IInv, RunOnce, Issued
    <3>6. UNCHANGED <<l1, overflow, jobs, todo>>
      BY <1>1
    <3>7. QED
      BY <3>1, <3>2, <3>3, <3>4, <3>5, <3>6, CountsType DEF Places, IInv
  <2>2. QED
    BY <1>1, <2>1 DEF RunOnce, Issued
<1>6. Settled' /\ QuitRunsAccepted'
  BY <1>1 DEF IInv, Settled, QuitRunsAccepted
<1>7. QED
  BY <1>3, <1>4, <1>5, <1>6 DEF IInv
-----------------------------------------------------------------------------
(***************************************************************************)
(* The theorems.                                                           *)
(***************************************************************************)
LEMMA InitIInv == Init => IInv
<1> SUFFICES ASSUME Init PROVE IInv
  OBVIOUS
<1> USE DEF Init
<1>1. /\ \A S : <<>> \in Seq(S) /\ <<>> \in Entries(S, Callers)
      /\ Issued = {}
  BY DEF Issued, Entries
<1>2. Types
  BY <1>1, LoopAssumption DEF Types
<1>3. Control
  BY DEF Control
<1>4. RunOnce /\ Settled /\ QuitRunsAccepted
  BY <1>1 DEF RunOnce, Settled, QuitRunsAccepted, Issued
<1>5. QED
  BY <1>2, <1>3, <1>4 DEF IInv

\* Every step of the callers of queueInLoopBatch, of loop() and of quit()
\* preserves the invariant.
LEMMA NextIInv == IInv /\ [Next]_vars => IInv'
<1> SUFFICES ASSUME IInv, [Next]_vars PROVE IInv'
  OBVIOUS
<1>1. CASE LoopStep \/ PollOther
  BY <1>1, LoopIInv, PopL1IInv, RunL1IInv, RefillIInv, RunL2IInv, ReturnIInv DEF LoopStep
<1>2. ASSUME NEW p \in Callers, CallStep(p) PROVE IInv'
  BY <1>2, FillIInv, PushOverflowIInv, SignalIInv DEF CallStep
<1>3. ASSUME NEW p \in Callers, NEW n \in 1 .. MaxBulk, NEW k \in 0 .. n, Queue(p, n, k)
      PROVE  IInv'
  BY <1>3, QueueIInv
<1>4. CASE QuitFromOutside \/ QuitInCallback
  BY <1>4, QuitIInv
<1>5. CASE QuitWakeup
  <2>1. Loop \in Callers
    BY DEF Callers
  <2>2. QED
    BY <1>5, <2>1, SignalIInv
<1>6. CASE UNCHANGED vars
  BY <1>6, QuietIInv DEF vars, turn, calls, IInv, Types, Control, Settled, QuitRunsAccepted
<1>7. QED
  BY <1>1, <1>2, <1>3, <1>4, <1>5, <1>6 DEF Next

\* EventLoop, whatever the capacities, the limit of a turn and the number of
\* threads: no queued task is lost and none runs twice.
THEOREM RunOnceHolds == Spec => []RunOnce
<1>1. IInv => RunOnce
  BY DEF IInv
<1>2. QED
  BY InitIInv, NextIInv, <1>1, PTL DEF Spec

\* EventLoop::loop, its final drain: a loop that ended has run every task whose
\* queueInLoop had returned when quit was stored.
THEOREM QuitRunsAcceptedHolds == Spec => []QuitRunsAccepted
<1>1. IInv => QuitRunsAccepted
  BY DEF IInv
<1>2. QED
  BY InitIInv, NextIInv, <1>1, PTL DEF Spec
=============================================================================
