------------------------------- MODULE Mutex -------------------------------
(***************************************************************************)
(* What a lock promises to its callers: at most one thread owns it, a      *)
(* thread becomes the owner only when nobody is, and only the owner gives  *)
(* it up.  KzSTL::SpinMutex is shown to implement this specification.      *)
(***************************************************************************)
CONSTANTS Threads, \* the threads that use the lock
          NoOne    \* the owner of a free lock, not a thread

VARIABLE owner

Init == owner = NoOne

Acquire(t) == owner = NoOne /\ owner' = t

Release(t) == owner = t /\ owner' = NoOne

Next == \E t \in Threads : Acquire(t) \/ Release(t)

Spec == Init /\ [][Next]_owner
=============================================================================
