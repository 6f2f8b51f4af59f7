--------------------------- MODULE ArrayMpmcQueue ---------------------------
(***************************************************************************)
(* KzSTL::ArrayMpmcQueue (src/KzSTL/ArrayMpmcQueue.h): a bounded queue for *)
(* many producers and consumers.  Each slot carries a sequence number that *)
(* says which index it is ready for: i when free for the item of index i,  *)
(* i + 1 when that item is there, i + Capacity when it has been moved out. *)
(*                                                                         *)
(* Each load, CAS and store of a shared variable is one step.  enqueue and *)
(* dequeue are the bulk operations for one item: the same probe, CAS and   *)
(* exit conditions.  compare_exchange_weak is modelled without spurious    *)
(* failures, after which the code only probes the same index again.        *)
(***************************************************************************)
EXTENDS Integers, Sequences, FiniteSets

CONSTANTS Producers, Consumers,
          Capacity, \* number of slots
          MaxBulk,  \* most items asked for by one call
          MaxItems, \* bound: items one producer sends in a behaviour
          Nothing   \* a slot without a constructed object

Procs == Producers \cup Consumers

VARIABLES head,     \* _head
          tail,     \* _tail
          sequence, \* _buffer[s].sequence
          data,     \* _buffer[s].data: an item, or Nothing when raw
          pc,       \* where each process stands
          pos,      \* local copy of _tail / _head; later the index worked on
          want,     \* items.size() / maxBatch of the call
          found,    \* freeNum / count, then what is left of it
          sent      \* history: items each producer has constructed

vars == <<head, tail, sequence, data, pc, pos, want, found, sent>>
shared == <<head, tail, sequence, data, sent>>

Slots == 0..(Capacity - 1)
Slot(i) == i % Capacity \* i & Mask
Item == Producers \X (1..MaxItems)

Init == /\ head = 0 /\ tail = 0
        /\ sequence = [s \in Slots |-> s]
        /\ data = [s \in Slots |-> Nothing]
        /\ pc = [p \in Procs |-> "idle"]
        /\ pos = [p \in Procs |-> 0]
        /\ want = [p \in Procs |-> 0]
        /\ found = [p \in Procs |-> 0]
        /\ sent = [p \in Producers |-> 0]

Goto(p, label) == pc' = [pc EXCEPT ![p] = label]

\* Start over from index i with nothing found.
ProbeFrom(p, i) ==
  /\ pos' = [pos EXCEPT ![p] = i]
  /\ found' = [found EXCEPT ![p] = 0]

\* The call returns; its local variables are gone.
Return(p) ==
  /\ ProbeFrom(p, 0)
  /\ want' = [want EXCEPT ![p] = 0]
  /\ Goto(p, "idle")

Lesser(a, b) == IF a <= b THEN a ELSE b

(***************************************************************************)
(* One iteration of the probing loop: the slot of the next index is ready  *)
(* when its sequence number is `ready'; at most `limit' slots are probed.  *)
(***************************************************************************)
Probe(p, label, ready, limit, cas, recheck) ==
  LET i == pos[p] + found[p] IN
  /\ pc[p] = label
  /\ IF sequence[Slot(i)] = ready
     THEN /\ found' = [found EXCEPT ![p] = @ + 1]
          /\ Goto(p, IF found'[p] = limit THEN cas ELSE label)
     ELSE /\ Goto(p, IF found[p] = 0 THEN recheck ELSE cas)
          /\ UNCHANGED found
  /\ UNCHANGED <<shared, pos, want>>

\* Done with one slot: on to the next one, or back to the caller.
NextSlot(p, label) ==
  IF found[p] = 1
  THEN Return(p)
  ELSE /\ pos' = [pos EXCEPT ![p] = @ + 1]
       /\ found' = [found EXCEPT ![p] = @ - 1]
       /\ Goto(p, label)
       /\ UNCHANGED want

(***************************************************************************)
(* enqueueBulk / enqueue                                                   *)
(***************************************************************************)
EnqBegin(p, n) ==
  /\ pc[p] = "idle"
  /\ sent[p] + n <= MaxItems
  /\ ProbeFrom(p, tail)
  /\ want' = [want EXCEPT ![p] = n]
  /\ Goto(p, "probeFree")
  /\ UNCHANGED shared

EnqProbe(p) ==
  Probe(p, "probeFree", pos[p] + found[p], Lesser(want[p], Capacity),
        "casTail", "recheckFree")

\* mutant: tries again instead of reporting a full queue
EnqRecheckSpins(p) ==
  /\ pc[p] = "recheckFree"
  /\ Goto(p, "reloadTail")
  /\ UNCHANGED <<shared, pos, want, found>>

\* No free slot: full if the slot is still a lap behind, else the copy of
\* _tail is old.
EnqRecheck(p) ==
  /\ pc[p] = "recheckFree"
  /\ \/ sequence[Slot(pos[p])] < pos[p] /\ Return(p)
     \/ /\ sequence[Slot(pos[p])] >= pos[p]
        /\ Goto(p, "reloadTail")
        /\ UNCHANGED <<pos, want, found>>
  /\ UNCHANGED shared

EnqReload(p) ==
  /\ pc[p] = "reloadTail"
  /\ ProbeFrom(p, tail)
  /\ Goto(p, "probeFree")
  /\ UNCHANGED <<shared, want>>

\* mutant: after a failed CAS retries with the new _tail but the old count
EnqCasNoProbe(p) ==
  /\ pc[p] = "casTail"
  /\ \/ /\ tail = pos[p]
        /\ tail' = tail + found[p]
        /\ Goto(p, "construct")
        /\ UNCHANGED pos
     \/ /\ tail # pos[p]
        /\ pos' = [pos EXCEPT ![p] = tail]
        /\ UNCHANGED <<pc, tail>>
  /\ UNCHANGED <<head, sequence, data, want, found, sent>>

EnqCas(p) ==
  /\ pc[p] = "casTail"
  /\ \/ /\ tail = pos[p]
        /\ tail' = tail + found[p]
        /\ Goto(p, "construct")
        /\ UNCHANGED <<pos, found>>
     \/ /\ tail # pos[p]
        /\ ProbeFrom(p, tail)
        /\ Goto(p, "probeFree")
        /\ UNCHANGED tail
  /\ UNCHANGED <<head, sequence, data, want, sent>>

EnqConstruct(p) ==
  /\ pc[p] = "construct"
  /\ sent' = [sent EXCEPT ![p] = @ + 1]
  /\ data' = [data EXCEPT ![Slot(pos[p])] = <<p, sent'[p]>>]
  /\ Goto(p, "publish")
  /\ UNCHANGED <<head, tail, sequence, pos, want, found>>

EnqPublish(p) ==
  /\ pc[p] = "publish"
  /\ sequence' = [sequence EXCEPT ![Slot(pos[p])] = pos[p] + 1]
  /\ NextSlot(p, "construct")
  /\ UNCHANGED <<head, tail, data, sent>>

(***************************************************************************)
(* dequeueBulk / dequeue                                                   *)
(***************************************************************************)
DeqBegin(c, n) ==
  /\ pc[c] = "idle"
  /\ ProbeFrom(c, head)
  /\ want' = [want EXCEPT ![c] = n]
  /\ Goto(c, "probeItem")
  /\ UNCHANGED shared

DeqProbe(c) ==
  Probe(c, "probeItem", pos[c] + found[c] + 1, want[c], "casHead", "recheckItem")

\* mutant: takes an item published since the probe for an empty queue
DeqRecheckOrItem(c) ==
  /\ pc[c] = "recheckItem"
  /\ \/ sequence[Slot(pos[c])] <= pos[c] + 1 /\ Return(c)
     \/ /\ sequence[Slot(pos[c])] > pos[c] + 1
        /\ Goto(c, "reloadHead")
        /\ UNCHANGED <<pos, want, found>>
  /\ UNCHANGED shared

\* No item: empty if the slot's item has not been published, else the copy
\* of _head is old.
DeqRecheck(c) ==
  /\ pc[c] = "recheckItem"
  /\ \/ sequence[Slot(pos[c])] < pos[c] + 1 /\ Return(c)
     \/ /\ sequence[Slot(pos[c])] >= pos[c] + 1
        /\ Goto(c, "reloadHead")
        /\ UNCHANGED <<pos, want, found>>
  /\ UNCHANGED shared

DeqReload(c) ==
  /\ pc[c] = "reloadHead"
  /\ ProbeFrom(c, head)
  /\ Goto(c, "probeItem")
  /\ UNCHANGED <<shared, want>>

DeqCas(c) ==
  /\ pc[c] = "casHead"
  /\ \/ /\ head = pos[c]
        /\ head' = head + found[c]
        /\ Goto(c, "moveOut")
        /\ UNCHANGED <<pos, found>>
     \/ /\ head # pos[c]
        /\ ProbeFrom(c, head)
        /\ Goto(c, "probeItem")
        /\ UNCHANGED head
  /\ UNCHANGED <<tail, sequence, data, want, sent>>

DeqMoveOut(c) ==
  /\ pc[c] = "moveOut"
  /\ data' = [data EXCEPT ![Slot(pos[c])] = Nothing]
  /\ Goto(c, "release")
  /\ UNCHANGED <<head, tail, sequence, pos, want, found, sent>>

DeqRelease(c) ==
  /\ pc[c] = "release"
  /\ sequence' = [sequence EXCEPT ![Slot(pos[c])] = pos[c] + Capacity]
  /\ NextSlot(c, "moveOut")
  /\ UNCHANGED <<head, tail, data, sent>>
-----------------------------------------------------------------------------
\* Steps inside an operation; beginning one is the caller's choice.
EnqStep(p) == \/ EnqProbe(p) \/ EnqRecheck(p) \/ EnqReload(p) \/ EnqCas(p)
              \/ EnqConstruct(p) \/ EnqPublish(p)
DeqStep(c) == \/ DeqProbe(c) \/ DeqRecheck(c) \/ DeqReload(c) \/ DeqCas(c)
              \/ DeqMoveOut(c) \/ DeqRelease(c)

Next == \/ \E p \in Producers :
             (\E n \in 1..MaxBulk : EnqBegin(p, n)) \/ EnqStep(p)
        \/ \E c \in Consumers :
             (\E n \in 1..MaxBulk : DeqBegin(c, n)) \/ DeqStep(c)

Spec == Init /\ [][Next]_vars
-----------------------------------------------------------------------------
\* Values stay in the ranges the declarations above give them.
MaxIndex == MaxItems * Cardinality(Producers)
TypeOK ==
  /\ head \in 0..MaxIndex /\ tail \in head..MaxIndex
  /\ sequence \in [Slots -> 0..(MaxIndex + Capacity)]
  /\ data \in [Slots -> Item \cup {Nothing}]
  /\ pc \in [Procs -> {"idle", "probeFree", "recheckFree", "reloadTail",
                       "casTail", "construct", "publish", "probeItem",
                       "recheckItem", "reloadHead", "casHead", "moveOut",
                       "release"}]
  /\ pos \in [Procs -> 0..MaxIndex]
  /\ want \in [Procs -> 0..MaxBulk]
  /\ found \in [Procs -> 0..MaxBulk]
  /\ sent \in [Producers -> 0..MaxItems]

\* Indices a process has won by its CAS and has not finished with.
Won(p) == IF pc[p] \in {"construct", "publish", "moveOut", "release"}
          THEN pos[p]..(pos[p] + found[p] - 1) ELSE {}

\* enqueue / dequeue: the slots two processes work on are disjoint, a producer
\* constructs only on raw memory whose sequence number is its own, a consumer
\* moves out only of an object published for its index.
SlotsExclusive ==
  /\ \A p, q \in Procs : \A i \in Won(p), j \in Won(q) :
       Slot(i) = Slot(j) => p = q /\ i = j
  /\ \A p \in Producers : \A i \in Won(p) :
       /\ sequence[Slot(i)] = i
       /\ (data[Slot(i)] = Nothing) <=> ~(pc[p] = "publish" /\ i = pos[p])
  /\ \A c \in Consumers : \A i \in Won(c) :
       /\ sequence[Slot(i)] = i + 1
       /\ (data[Slot(i)] = Nothing) <=> (pc[c] = "release" /\ i = pos[c])

\* dequeue / dequeueBulk: a call that returns 0 does so while the first entry
\* is missing or not published.  ThreadPool's workers rely on it before they
\* sleep.
EmptyMeansUnpublished ==
  [][\A c \in Consumers :
       pc[c] = "recheckItem" /\ pc'[c] = "idle"
         => head = tail \/ sequence[Slot(head)] # head + 1]_vars

\* enqueue / enqueueBulk: a call that returns 0 does so while an index a whole
\* lap back is still queued or being moved out.
FullMeansLapOutstanding ==
  [][\A p \in Producers :
       pc[p] = "recheckFree" /\ pc'[p] = "idle"
         => \/ tail - head >= Capacity
            \/ \E c \in Consumers : pos[p] - Capacity \in Won(c)]_vars

(***************************************************************************)
(* The queue implements FifoQueue: the CAS on _tail reserves, the store of *)
(* the sequence number fills, the CAS on _head takes.                      *)
(***************************************************************************)
Reserver(i) == CHOOSE p \in Producers : i \in Won(p)

\* Items p has constructed or won a place for.
SentBy(p) == sent[p] + Cardinality(Won(p)) - (IF pc[p] = "publish" THEN 1 ELSE 0)

Entry(i) ==
  IF sequence[Slot(i)] = i + 1
  THEN [item |-> data[Slot(i)], filled |-> TRUE]
  ELSE LET p == Reserver(i)
           after == pos[p] + found[p] - 1 - i
       IN  [item |-> <<p, SentBy(p) - after>>, filled |-> FALSE]

Remaining(c) == Won(c) \ (IF pc[c] = "release" THEN {pos[c]} ELSE {})

Abstract == INSTANCE FifoQueue WITH
  queue <- [k \in 1..(tail - head) |-> Entry(head + k - 1)],
  hand  <- [c \in Consumers |->
             LET n == Cardinality(Remaining(c)) IN
             [k \in 1..n |-> data[Slot(pos[c] + found[c] - 1 - n + k)]]],
  sent  <- [p \in Producers |-> SentBy(p)]

\* enqueue / dequeue: every item reaches exactly one consumer, intact, in the
\* order in which the places were won.
ImplementsFifo == Abstract!Spec
=============================================================================
