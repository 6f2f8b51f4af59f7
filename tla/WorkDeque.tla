----------------------------- MODULE WorkDeque -----------------------------
(***************************************************************************)
(* What a work-stealing deque promises: the owner appends and removes at   *)
(* the tail (LIFO), thieves remove at the head (FIFO), and every item goes *)
(* into the hand of exactly one process, unchanged until it is delivered.  *)
(* KzSTL::WorkStealingDeque is shown to implement this specification.      *)
(***************************************************************************)
EXTENDS Naturals, Sequences, SequencesExt

CONSTANTS Owner,   \* the process that pushes and pops
          Thieves, \* the processes that steal
          Nothing, \* an empty hand
          Capacity \* most items the deque holds

VARIABLES deque,  \* the items, head first
          hand,   \* for each process, the item it won and has not delivered
          pushed  \* number of items pushed so far: items are numbered from 1

vars == <<deque, hand, pushed>>

Init == /\ deque = <<>>
        /\ pushed = 0
        /\ hand = [p \in {Owner} \cup Thieves |-> Nothing]

Push(n) ==
  /\ Len(deque) + n <= Capacity
  /\ deque' = deque \o [k \in 1..n |-> pushed + k]
  /\ pushed' = pushed + n
  /\ UNCHANGED hand

Pop ==
  /\ deque # <<>> /\ hand[Owner] = Nothing
  /\ hand' = [hand EXCEPT ![Owner] = Last(deque)]
  /\ deque' = Front(deque)
  /\ UNCHANGED pushed

Steal(t) ==
  /\ deque # <<>> /\ hand[t] = Nothing
  /\ hand' = [hand EXCEPT ![t] = Head(deque)]
  /\ deque' = Tail(deque)
  /\ UNCHANGED pushed

Deliver(p) ==
  /\ hand[p] # Nothing
  /\ hand' = [hand EXCEPT ![p] = Nothing]
  /\ UNCHANGED <<deque, pushed>>

Next == \/ \E n \in 1..Capacity : Push(n)
        \/ Pop
        \/ \E t \in Thieves : Steal(t)
        \/ \E p \in {Owner} \cup Thieves : Deliver(p)

Spec == Init /\ [][Next]_vars
=============================================================================
