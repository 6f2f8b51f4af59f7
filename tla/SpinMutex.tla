----------------------------- MODULE SpinMutex -----------------------------
(***************************************************************************)
(* KzSTL::SpinMutex (src/KzSTL/SpinMutex.h): a three-state lock that tries *)
(* a CAS, spins for a while, and then sleeps in std::atomic::wait.         *)
(*                                                                         *)
(* Every atomic instruction of lock, unlock and try_lock is one step.      *)
(* std::atomic::wait(2) returns only when it has seen a value other than   *)
(* 2: a thread it put to sleep and that is notified looks again, and goes  *)
(* back to sleep if the value is 2.                                        *)
(***************************************************************************)
EXTENDS Naturals

CONSTANTS Threads,   \* threads that share the lock
          SpinLimit, \* iterations of the spinning loop (64 in the code)
          NoOne      \* the abstract owner of a free lock

VARIABLES state, \* _state
          pc,    \* where each thread stands in lock / unlock
          spins  \* the loop variable i of the spinning loop

vars == <<state, pc, spins>>

Free == 0
Locked == 1
LockedWaiting == 2

Init == /\ state = Free
        /\ pc = [t \in Threads |-> "idle"]
        /\ spins = [t \in Threads |-> 0]

Goto(t, label) == pc' = [pc EXCEPT ![t] = label]

(***************************************************************************)
(* lock(): the fast path and the spinning loop.                            *)
(***************************************************************************)
FastCas(t) ==
  /\ pc[t] = "idle"
  /\ \/ state = Free /\ state' = Locked /\ Goto(t, "owns") /\ UNCHANGED spins
     \/ /\ state # Free
        /\ Goto(t, "spin")
        /\ spins' = [spins EXCEPT ![t] = 0]
        /\ UNCHANGED state

SpinLoad(t) ==
  /\ pc[t] = "spin" /\ spins[t] < SpinLimit
  /\ \/ state = Free /\ Goto(t, "spinCas") /\ UNCHANGED spins
     \/ state # Free /\ spins' = [spins EXCEPT ![t] = @ + 1] /\ UNCHANGED pc
  /\ UNCHANGED state

SpinCas(t) ==
  /\ pc[t] = "spinCas"
  /\ \/ state = Free /\ state' = Locked /\ Goto(t, "owns") /\ UNCHANGED spins
     \/ /\ state # Free
        /\ Goto(t, "spin")
        /\ spins' = [spins EXCEPT ![t] = @ + 1]
        /\ UNCHANGED state

SpinGiveUp(t) ==
  /\ pc[t] = "spin" /\ spins[t] = SpinLimit
  /\ Goto(t, "exchange")
  /\ UNCHANGED <<state, spins>>

(***************************************************************************)
(* lock(): the slow path.  exchange(2) takes a free lock; otherwise the    *)
(* thread waits for the value to differ from 2 and tries again.            *)
(***************************************************************************)
\* mutant: a woken thread takes the free lock with 1, forgetting that others
\* may still be asleep
SlowCasOne(t) ==
  /\ pc[t] = "exchange"
  /\ state' = IF state = Free THEN Locked ELSE LockedWaiting
  /\ Goto(t, IF state = Free THEN "owns" ELSE "wait")
  /\ UNCHANGED spins

\* mutant: anything but 1 is taken for a free lock
SlowExchangeNotOne(t) ==
  /\ pc[t] = "exchange"
  /\ state' = LockedWaiting
  /\ Goto(t, IF state # Locked THEN "owns" ELSE "wait")
  /\ UNCHANGED spins

SlowExchange(t) ==
  /\ pc[t] = "exchange"
  /\ state' = LockedWaiting
  /\ Goto(t, IF state = Free THEN "owns" ELSE "wait")
  /\ UNCHANGED spins

WaitCheck(t) ==
  /\ pc[t] = "wait"
  /\ Goto(t, IF state = LockedWaiting THEN "asleep" ELSE "exchange")
  /\ UNCHANGED <<state, spins>>

(***************************************************************************)
(* unlock(): the exchange, and notify_one when someone may be waiting.     *)
(***************************************************************************)
\* mutant: notifies for a plain lock instead of a lock with waiters
UnlockNotifyOnOne(t) ==
  /\ pc[t] = "owns"
  /\ state' = Free
  /\ Goto(t, IF state = Locked THEN "notify" ELSE "idle")
  /\ UNCHANGED spins

Unlock(t) ==
  /\ pc[t] = "owns"
  /\ state' = Free
  /\ Goto(t, IF state = LockedWaiting THEN "notify" ELSE "idle")
  /\ UNCHANGED spins

Asleep == {t \in Threads : pc[t] = "asleep"}

NotifyOne(t) ==
  /\ pc[t] = "notify"
  /\ \/ Asleep = {} /\ Goto(t, "idle")
     \/ \E w \in Asleep : pc' = [pc EXCEPT ![t] = "idle", ![w] = "wait"]
  /\ UNCHANGED <<state, spins>>

\* try_lock(): a CAS that fails without waiting leaves everything as it was.
TryLock(t) ==
  /\ pc[t] = "idle" /\ state = Free
  /\ state' = Locked
  /\ Goto(t, "owns")
  /\ UNCHANGED spins

\* The steps a thread that is inside lock or unlock takes by itself.
LockStep(t) == \/ SpinLoad(t) \/ SpinCas(t) \/ SpinGiveUp(t)
               \/ SlowExchange(t) \/ WaitCheck(t)
UnlockStep(t) == Unlock(t) \/ NotifyOne(t)

Next == \E t \in Threads :
          FastCas(t) \/ TryLock(t) \/ LockStep(t) \/ UnlockStep(t)

Spec == Init /\ [][Next]_vars
-----------------------------------------------------------------------------
\* The state is one of the three the class documents, and the loop variable
\* never passes its limit.
TypeOK ==
  /\ state \in {Free, Locked, LockedWaiting}
  /\ pc \in [Threads -> {"idle", "spin", "spinCas", "exchange", "wait",
                         "asleep", "owns", "notify"}]
  /\ spins \in [Threads -> 0..SpinLimit]

\* lock(): two threads are never inside the critical section together,
\* whichever of the three paths let each of them in.
MutualExclusion ==
  \A t, u \in Threads : pc[t] = "owns" /\ pc[u] = "owns" => t = u

\* unlock(): the state read by the exchange says whether the lock is held, so
\* no thread can own a lock that another one sees as free, and a lock nobody
\* owns is never left locked.
StateTellsOwnership == (state = Free) <=> \A t \in Threads : pc[t] # "owns"

\* lock() / unlock(): while a thread sleeps in wait(2), either the state is 2,
\* so that the owner will notify on unlock, or some thread is on its way to
\* look at the state again or to notify.  Barging threads that take the lock
\* with 1 must not break this.
NoLostWakeup ==
  Asleep # {} => \/ state = LockedWaiting
                 \/ \E t \in Threads : pc[t] \in {"exchange", "wait", "notify"}

\* lock(): when some thread is trying to get the lock, some thread gets it.
\* (A particular thread may starve: barging is allowed.)
Trying == \E t \in Threads :
            pc[t] \in {"spin", "spinCas", "exchange", "wait", "asleep"}
SomeoneOwns == \E t \in Threads : pc[t] = "owns"
DeadlockFree == Trying ~> SomeoneOwns

(***************************************************************************)
(* The lock implements Mutex: the owner is the thread inside the critical  *)
(* section.                                                                *)
(***************************************************************************)
Owner == IF SomeoneOwns
         THEN CHOOSE t \in Threads : pc[t] = "owns"
         ELSE NoOne

Abstract == INSTANCE Mutex WITH owner <- Owner

\* Every step of SpinMutex acquires a free lock, releases an owned one, or
\* changes no ownership.
ImplementsMutex == Abstract!Spec
=============================================================================
