--------------------------- MODULE ArrayMpscQueue ---------------------------
(***************************************************************************)
(* KzSTL::ArrayMpscQueue (src/KzSTL/ArrayMpscQueue.h): a bounded queue for *)
(* many producers and one consumer.  Producers win indices by a CAS on     *)
(* _tail after comparing it with _head in unsigned arithmetic; a flag per  *)
(* slot says whether its item is there.                                    *)
(*                                                                         *)
(* Each load, CAS and store of a shared variable is one step.  push and    *)
(* pop are pushBulk and popBulk for one item: the same loads, comparisons  *)
(* and stores in the same order.                                           *)
(***************************************************************************)
EXTENDS Integers, Sequences, FiniteSets

CONSTANTS Producers,
          Consumer, \* the only process that pops
          Capacity, \* number of slots
          MaxBulk,  \* most items asked for by one call
          MaxItems, \* bound: items one producer sends in a behaviour
          WordMod,  \* 2^w for the w bits of a size_t
          Nothing   \* a slot without a constructed object

Procs == Producers \cup {Consumer}

MaxIndex == MaxItems * Cardinality(Producers)

VARIABLES head,    \* _head
          tail,    \* _tail
          written, \* _buffer[s].is_written
          data,    \* _buffer[s].data: an item, or Nothing when raw
          pc,      \* where each process stands
          pos,     \* local tail / head; after a CAS the index worked on
          seen,    \* a producer's local copy of _head
          left,    \* items.size() of a call; after a CAS the slots left to fill
          sent     \* history: items each producer has constructed

vars == <<head, tail, written, data, pc, pos, seen, left, sent>>
shared == <<head, tail, written, data, sent>>

Slots == 0..(Capacity - 1)
Slot(i) == i % Capacity \* i & Mask
Item == Producers \X (1..MaxItems)

Init == /\ head = 0 /\ tail = 0
        /\ written = [s \in Slots |-> FALSE]
        /\ data = [s \in Slots |-> Nothing]
        /\ pc = [p \in Procs |-> "idle"]
        /\ pos = [p \in Procs |-> 0]
        /\ seen = [p \in Producers |-> 0]
        /\ left = [p \in Procs |-> 0]
        /\ sent = [p \in Producers |-> 0]

Goto(p, label) == pc' = [pc EXCEPT ![p] = label]

\* The call returns; its local variables are gone.
Return(p) ==
  /\ pos' = [pos EXCEPT ![p] = 0]
  /\ left' = [left EXCEPT ![p] = 0]
  /\ Goto(p, "idle")

ForgetHead(p) == seen' = [seen EXCEPT ![p] = 0]

Lesser(a, b) == IF a <= b THEN a ELSE b

\* size and available, computed from the two local copies.
Size(t, h) == (t - h) % WordMod
Available(t, h) == IF Size(t, h) >= Capacity THEN 0 ELSE Capacity - Size(t, h)

(***************************************************************************)
(* push / pushBulk                                                         *)
(***************************************************************************)
PushLoadTail(p, n) ==
  /\ pc[p] = "idle"
  /\ sent[p] + n <= MaxItems
  /\ pos' = [pos EXCEPT ![p] = tail]
  /\ left' = [left EXCEPT ![p] = n]
  /\ Goto(p, "loadHead")
  /\ UNCHANGED <<shared, seen>>

\* Enough room by the copies at hand: claim it.  Otherwise look at _head again.
Compare(p, t, h) ==
  Goto(p, IF Available(t, h) < left[p] THEN "reloadHead" ELSE "cas")

PushLoadHead(p) ==
  /\ pc[p] = "loadHead"
  /\ seen' = [seen EXCEPT ![p] = head]
  /\ Compare(p, pos[p], head)
  /\ UNCHANGED <<shared, pos, left>>

PushReloadHead(p) ==
  /\ pc[p] = "reloadHead"
  /\ \/ Available(pos[p], head) = 0 /\ Return(p) /\ ForgetHead(p)
     \/ /\ Available(pos[p], head) # 0
        /\ seen' = [seen EXCEPT ![p] = head]
        /\ Goto(p, "cas")
        /\ UNCHANGED <<pos, left>>
  /\ UNCHANGED shared

\* A failed CAS loads _tail; the copy of _head stays as it is.
PushCas(p) ==
  LET actual == Lesser(left[p], Available(pos[p], seen[p])) IN
  /\ pc[p] = "cas"
  /\ \/ /\ tail = pos[p]
        /\ tail' = tail + actual
        /\ left' = [left EXCEPT ![p] = actual]
        /\ Goto(p, "construct")
        /\ ForgetHead(p)
        /\ UNCHANGED pos
     \/ /\ tail # pos[p]
        /\ pos' = [pos EXCEPT ![p] = tail]
        /\ Compare(p, tail, seen[p])
        /\ UNCHANGED <<tail, seen, left>>
  /\ UNCHANGED <<head, written, data, sent>>

\* Waits until the slot is not written, then constructs the object.
PushConstruct(p) ==
  /\ pc[p] = "construct"
  /\ ~written[Slot(pos[p])]
  /\ sent' = [sent EXCEPT ![p] = @ + 1]
  /\ data' = [data EXCEPT ![Slot(pos[p])] = <<p, sent'[p]>>]
  /\ Goto(p, "publish")
  /\ UNCHANGED <<head, tail, written, pos, seen, left>>

PushPublish(p) ==
  /\ pc[p] = "publish"
  /\ written' = [written EXCEPT ![Slot(pos[p])] = TRUE]
  /\ IF left[p] = 1
     THEN Return(p)
     ELSE /\ pos' = [pos EXCEPT ![p] = @ + 1]
          /\ left' = [left EXCEPT ![p] = @ - 1]
          /\ Goto(p, "construct")
  /\ UNCHANGED <<head, tail, data, seen, sent>>

(***************************************************************************)
(* pop / popBulk: takes items until one is missing or n are taken, then    *)
(* advances _head past all of them.  pos is the index looked at.           *)
(***************************************************************************)
PopBegin(n) ==
  /\ pc[Consumer] = "idle"
  /\ pos' = [pos EXCEPT ![Consumer] = head]
  /\ left' = [left EXCEPT ![Consumer] = n]
  /\ Goto(Consumer, "check")
  /\ UNCHANGED <<shared, seen>>

PopCheck ==
  /\ pc[Consumer] = "check"
  /\ Goto(Consumer, IF left[Consumer] > 0 /\ written[Slot(pos[Consumer])]
                    THEN "moveOut" ELSE "advance")
  /\ UNCHANGED <<shared, pos, seen, left>>

PopMoveOut ==
  /\ pc[Consumer] = "moveOut"
  /\ data' = [data EXCEPT ![Slot(pos[Consumer])] = Nothing]
  /\ Goto(Consumer, "release")
  /\ UNCHANGED <<head, tail, written, pos, seen, left, sent>>

PopRelease ==
  /\ pc[Consumer] = "release"
  /\ written' = [written EXCEPT ![Slot(pos[Consumer])] = FALSE]
  /\ pos' = [pos EXCEPT ![Consumer] = @ + 1]
  /\ left' = [left EXCEPT ![Consumer] = @ - 1]
  /\ Goto(Consumer, "check")
  /\ UNCHANGED <<head, tail, data, seen, sent>>

PopAdvance ==
  /\ pc[Consumer] = "advance"
  /\ head' = pos[Consumer]
  /\ Return(Consumer)
  /\ UNCHANGED <<tail, written, data, seen, sent>>
-----------------------------------------------------------------------------
PushStep(p) == \/ PushLoadHead(p) \/ PushReloadHead(p) \/ PushCas(p)
               \/ PushConstruct(p) \/ PushPublish(p)
PopStep == PopCheck \/ PopMoveOut \/ PopRelease \/ PopAdvance

Next == \/ \E p \in Producers :
             (\E n \in 1..MaxBulk : PushLoadTail(p, n)) \/ PushStep(p)
        \/ (\E n \in 1..MaxBulk : PopBegin(n)) \/ PopStep

Spec == Init /\ [][Next]_vars
-----------------------------------------------------------------------------
\* Values stay in the ranges the declarations above give them.
TypeOK ==
  /\ head \in 0..MaxIndex /\ tail \in head..MaxIndex
  /\ written \in [Slots -> BOOLEAN]
  /\ data \in [Slots -> Item \cup {Nothing}]
  /\ pc \in [Procs -> {"idle", "loadHead", "reloadHead", "cas", "construct",
                       "publish", "check", "moveOut", "release", "advance"}]
  /\ pos \in [Procs -> 0..MaxIndex]
  /\ seen \in [Producers -> 0..MaxIndex]
  /\ left \in [Procs -> 0..MaxBulk]
  /\ sent \in [Producers -> 0..MaxItems]

\* Indices a producer has won by its CAS and has still to publish.
Won(p) == IF pc[p] \in {"construct", "publish"}
          THEN pos[p]..(pos[p] + left[p] - 1) ELSE {}

\* push / pop: no two producers work on one slot, and the consumer never moves
\* out of a slot a producer is constructing in; whoever touches a slot finds it
\* raw or live as the code expects.
SlotsExclusive ==
  /\ \A p, q \in Producers : \A i \in Won(p), j \in Won(q) :
       Slot(i) = Slot(j) => p = q /\ i = j
  /\ \A p \in Producers : \A i \in Won(p) :
       (data[Slot(i)] = Nothing) <=> ~(pc[p] = "publish" /\ i = pos[p])
  /\ pc[Consumer] = "moveOut" =>
       /\ data[Slot(pos[Consumer])] # Nothing
       /\ \A p \in Producers : \A i \in Won(p) : Slot(i) # Slot(pos[Consumer])

\* push(): the loop that waits for is_written to become false never has to
\* wait, because pop clears the flag before it advances _head: the claim on
\* the index already proves the slot free.
WaitNeverBlocks ==
  \A p \in Producers : \A i \in Won(p) : ~written[Slot(i)]

(***************************************************************************)
(* The queue implements FifoQueue: the CAS on _tail reserves, setting      *)
(* is_written fills, and the consumer takes an entry when it finds the     *)
(* flag set.                                                               *)
(***************************************************************************)
Front == IF pc[Consumer] = "idle" THEN head
         ELSE pos[Consumer] + (IF pc[Consumer] \in {"moveOut", "release"}
                               THEN 1 ELSE 0)

SentBy(p) == sent[p] + Cardinality(Won(p)) - (IF pc[p] = "publish" THEN 1 ELSE 0)

Entry(i) ==
  IF \E p \in Producers : i \in Won(p)
  THEN LET p == CHOOSE q \in Producers : i \in Won(q)
           after == pos[p] + left[p] - 1 - i
       IN  [item |-> <<p, SentBy(p) - after>>, filled |-> FALSE]
  ELSE [item |-> data[Slot(i)], filled |-> TRUE]

Abstract == INSTANCE FifoQueue WITH
  Consumers <- {Consumer},
  queue <- [k \in 1..(tail - Front) |-> Entry(Front + k - 1)],
  hand  <- [c \in {Consumer} |-> IF pc[c] = "moveOut"
                                 THEN <<data[Slot(pos[c])]>> ELSE <<>>],
  sent  <- [p \in Producers |-> SentBy(p)]

\* push / pop: every item reaches the consumer once, intact, in the order in
\* which the places were won.
ImplementsFifo == Abstract!Spec
=============================================================================
