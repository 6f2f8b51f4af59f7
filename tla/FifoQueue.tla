----------------------------- MODULE FifoQueue -----------------------------
(***************************************************************************)
(* What the array queues of KzSTL promise.  A producer reserves places at  *)
(* the end of the queue and fills them one after the other; a consumer     *)
(* takes a run of filled entries from the front, and delivers them in      *)
(* order.  An entry that is reserved but not filled holds back those       *)
(* behind it.  Every item is delivered by exactly one consumer, and items  *)
(* leave in the order in which their places were reserved, so each         *)
(* producer's items leave in the order it sent them.                       *)
(***************************************************************************)
EXTENDS Naturals, Sequences

CONSTANTS Producers, Consumers, Capacity

VARIABLES queue, \* entries [item, filled], front first
          hand,  \* for each consumer, items taken and not delivered yet
          sent   \* for each producer, the number of items it has reserved for

vars == <<queue, hand, sent>>

Init == /\ queue = <<>>
        /\ hand = [c \in Consumers |-> <<>>]
        /\ sent = [p \in Producers |-> 0]

Reserve(p, n) ==
  /\ Len(queue) + n <= Capacity
  /\ queue' = queue \o [k \in 1..n |-> [item   |-> <<p, sent[p] + k>>,
                                        filled |-> FALSE]]
  /\ sent' = [sent EXCEPT ![p] = @ + n]
  /\ UNCHANGED hand

Fill(i) ==
  /\ ~queue[i].filled
  /\ queue' = [queue EXCEPT ![i].filled = TRUE]
  /\ UNCHANGED <<hand, sent>>

Take(c, n) ==
  /\ hand[c] = <<>>
  /\ \A i \in 1..n : queue[i].filled
  /\ hand' = [hand EXCEPT ![c] = [i \in 1..n |-> queue[i].item]]
  /\ queue' = SubSeq(queue, n + 1, Len(queue))
  /\ UNCHANGED sent

Deliver(c) ==
  /\ hand[c] # <<>>
  /\ hand' = [hand EXCEPT ![c] = Tail(@)]
  /\ UNCHANGED <<queue, sent>>

Next == \/ \E p \in Producers, n \in 1..Capacity : Reserve(p, n)
        \/ \E i \in 1..Len(queue) : Fill(i)
        \/ \E c \in Consumers, n \in 1..Len(queue) : Take(c, n)
        \/ \E c \in Consumers : Deliver(c)

Spec == Init /\ [][Next]_vars
=============================================================================
