------------------------- MODULE WorkStealingDeque -------------------------
(***************************************************************************)
(* KzSTL::WorkStealingDeque (src/KzSTL/WorkStealingDeque.h): a Chase-Lev   *)
(* deque over a ring of Capacity slots.  Every access to a variable two    *)
(* threads share (_head, _tail, a slot, its is_extracted flag) is one      *)
(* step.  The seq_cst fences of pop and steal order the accesses they      *)
(* stand between, so the model is sequentially consistent.                 *)
(*                                                                         *)
(* push(x) is pushBulk of one item: the code is the same, slot for slot.   *)
(***************************************************************************)
EXTENDS Integers, FiniteSets, Sequences, SequencesExt

CONSTANTS Owner,    \* the worker the deque belongs to
          Thieves,  \* the workers that steal from it
          Capacity, \* number of slots
          MaxBulk,  \* most items handed to one pushBulk
          MaxItems, \* bound: items pushed in one behaviour
          Nothing   \* a slot without a constructed object

Procs == {Owner} \cup Thieves

VARIABLES head,      \* _head
          tail,      \* _tail
          data,      \* _buffer[i].data: an item, or Nothing when raw
          extracted, \* _buffer[i].is_extracted
          pc,        \* where each process stands
          top,       \* each process's local copy of the index it works on
          count,     \* owner: items this pushBulk may still construct
          pushed     \* history: items constructed so far; names the next one

vars == <<head, tail, data, extracted, pc, top, count, pushed>>

Slots == 0..(Capacity - 1)
Slot(i) == i % Capacity \* i & Mask
Item == 1..MaxItems

Init == /\ head = 0 /\ tail = 0
        /\ data = [s \in Slots |-> Nothing]
        /\ extracted = [s \in Slots |-> TRUE]
        /\ pc = [p \in Procs |-> "idle"]
        /\ top = [p \in Procs |-> 0]
        /\ count = 0
        /\ pushed = 0

Goto(p, label) == pc' = [pc EXCEPT ![p] = label]
SetTop(p, i) == top' = [top EXCEPT ![p] = i]

\* Moving out of a slot and destroying the object leaves raw memory.
MoveOut(i) == data' = [data EXCEPT ![Slot(i)] = Nothing]
MarkExtracted(i) == extracted' = [extracted EXCEPT ![Slot(i)] = TRUE]

(***************************************************************************)
(* Owner: push / pushBulk                                                  *)
(***************************************************************************)
Lesser(a, b) == IF a <= b THEN a ELSE b

\* Loads _tail and _head, and settles how many of the n items fit.
PushBegin(n) ==
  /\ pc[Owner] = "idle"
  /\ pushed + n <= MaxItems
  /\ LET available == Capacity - (tail - head) IN
     /\ available > 0
     /\ count' = Lesser(n, available)
  /\ SetTop(Owner, tail)
  /\ Goto(Owner, "construct")
  /\ UNCHANGED <<head, tail, data, extracted, pushed>>

\* mutant: constructs without waiting for is_extracted
PushConstructAtOnce ==
  /\ pc[Owner] = "construct" /\ count > 0
  /\ pushed' = pushed + 1
  /\ data' = [data EXCEPT ![Slot(top[Owner])] = pushed']
  /\ extracted' = [extracted EXCEPT ![Slot(top[Owner])] = FALSE]
  /\ SetTop(Owner, top[Owner] + 1)
  /\ count' = count - 1
  /\ UNCHANGED <<head, tail, pc>>

\* Waits until the slot's previous item has been moved out, then constructs.
PushConstruct ==
  /\ pc[Owner] = "construct" /\ count > 0
  /\ extracted[Slot(top[Owner])]
  /\ pushed' = pushed + 1
  /\ data' = [data EXCEPT ![Slot(top[Owner])] = pushed']
  /\ extracted' = [extracted EXCEPT ![Slot(top[Owner])] = FALSE]
  /\ SetTop(Owner, top[Owner] + 1)
  /\ count' = count - 1
  /\ UNCHANGED <<head, tail, pc>>

PushPublish ==
  /\ pc[Owner] = "construct" /\ count = 0
  /\ tail' = top[Owner]
  /\ Goto(Owner, "idle")
  /\ UNCHANGED <<head, data, extracted, top, count, pushed>>

(***************************************************************************)
(* Owner: pop.  tail = 0 returns at once and changes nothing.              *)
(***************************************************************************)
PopReserve ==
  /\ pc[Owner] = "idle" /\ tail # 0
  /\ tail' = tail - 1
  /\ SetTop(Owner, tail - 1)
  /\ Goto(Owner, "popLoadHead")
  /\ UNCHANGED <<head, data, extracted, count, pushed>>

\* mutant: takes the last item without the CAS
PopLoadHeadNoCas ==
  /\ pc[Owner] = "popLoadHead"
  /\ Goto(Owner, IF head <= top[Owner] THEN "popTake" ELSE "popRestore")
  /\ UNCHANGED <<head, tail, data, extracted, top, count, pushed>>

PopLoadHead ==
  /\ pc[Owner] = "popLoadHead"
  /\ Goto(Owner, CASE head < top[Owner] -> "popTake"
                   [] head = top[Owner] -> "popCas"
                   [] OTHER             -> "popRestore")
  /\ UNCHANGED <<head, tail, data, extracted, top, count, pushed>>

\* The last item: whoever advances _head has it.
PopCas ==
  /\ pc[Owner] = "popCas"
  /\ \/ head = top[Owner] /\ head' = head + 1 /\ Goto(Owner, "popTakeLast")
     \/ head # top[Owner] /\ Goto(Owner, "popRestore") /\ UNCHANGED head
  /\ UNCHANGED <<tail, data, extracted, top, count, pushed>>

PopTake ==
  /\ pc[Owner] \in {"popTake", "popTakeLast"}
  /\ MoveOut(top[Owner]) /\ MarkExtracted(top[Owner])
  /\ Goto(Owner, IF pc[Owner] = "popTake" THEN "idle" ELSE "popRestore")
  /\ UNCHANGED <<head, tail, top, count, pushed>>

PopRestore ==
  /\ pc[Owner] = "popRestore"
  /\ tail' = top[Owner] + 1
  /\ Goto(Owner, "idle")
  /\ UNCHANGED <<head, data, extracted, top, count, pushed>>

(***************************************************************************)
(* Thieves: steal                                                          *)
(***************************************************************************)
StealLoadHead(t) ==
  /\ pc[t] = "idle"
  /\ SetTop(t, head)
  /\ Goto(t, "stealLoadTail")
  /\ UNCHANGED <<head, tail, data, extracted, count, pushed>>

StealLoadTail(t) ==
  /\ pc[t] = "stealLoadTail"
  /\ Goto(t, IF top[t] < tail THEN "stealCas" ELSE "idle")
  /\ UNCHANGED <<head, tail, data, extracted, top, count, pushed>>

StealCas(t) ==
  /\ pc[t] = "stealCas"
  /\ \/ head = top[t] /\ head' = head + 1 /\ Goto(t, "stealTake")
     \/ head # top[t] /\ Goto(t, "idle") /\ UNCHANGED head
  /\ UNCHANGED <<tail, data, extracted, top, count, pushed>>

StealTake(t) ==
  /\ pc[t] = "stealTake"
  /\ MoveOut(top[t])
  /\ Goto(t, "stealFree")
  /\ UNCHANGED <<head, tail, extracted, top, count, pushed>>

StealFree(t) ==
  /\ pc[t] = "stealFree"
  /\ MarkExtracted(top[t])
  /\ Goto(t, "idle")
  /\ UNCHANGED <<head, tail, data, top, count, pushed>>
-----------------------------------------------------------------------------
\* Steps inside an operation; beginning one is the caller's choice.
PushStep == PushConstruct \/ PushPublish
PopStep == PopLoadHead \/ PopCas \/ PopTake \/ PopRestore
StealStep(t) == \/ StealLoadTail(t) \/ StealCas(t)
                \/ StealTake(t) \/ StealFree(t)

Next == \/ \E n \in 1..MaxBulk : PushBegin(n)
        \/ PopReserve
        \/ PushStep
        \/ PopStep
        \/ \E t \in Thieves : StealLoadHead(t) \/ StealStep(t)

Spec == Init /\ [][Next]_vars
-----------------------------------------------------------------------------
\* Values stay in the ranges the declarations above give them.
TypeOK ==
  /\ head \in 0..MaxItems /\ tail \in 0..MaxItems
  /\ data \in [Slots -> Item \cup {Nothing}]
  /\ extracted \in [Slots -> BOOLEAN]
  /\ pc \in [Procs -> {"idle", "construct", "popLoadHead", "popCas", "popTake",
                       "popTakeLast", "popRestore", "stealLoadTail",
                       "stealCas", "stealTake", "stealFree"}]
  /\ top \in [Procs -> 0..MaxItems]
  /\ count \in 0..MaxBulk
  /\ pushed \in 0..MaxItems

\* Between its decrement of _tail and the outcome of pop, the owner has not
\* yet removed anything: the deque still ends where it did.
EndIndex ==
  IF pc[Owner] \in {"popLoadHead", "popCas", "popTakeLast", "popRestore"}
  THEN top[Owner] + 1 ELSE tail

Claims(p) == pc[p] \in {"popTake", "popTakeLast", "stealTake"}

\* Indices whose slot holds an object: in the deque, constructed but not yet
\* published, or won by a process that has still to move it out.
LiveIndices == head..(EndIndex - 1)
               \cup (IF pc[Owner] = "construct" THEN tail..(top[Owner] - 1) ELSE {})
               \cup {top[p] : p \in {q \in Procs : Claims(q)}}
\* Indices moved out of whose is_extracted flag is not yet set.
FreeingIndices == {top[t] : t \in {u \in Thieves : pc[u] = "stealFree"}}

\* push / pop / steal: two live items never share a slot, a slot holds an
\* object exactly when an index in use maps to it (so nobody moves out of raw
\* memory or constructs over an object, and the destructor's walk from _head
\* to _tail finds every object), and is_extracted tells the owner the truth.
SlotsAccounted ==
  /\ \A i, j \in LiveIndices \cup FreeingIndices : Slot(i) = Slot(j) => i = j
  /\ \A s \in Slots :
       /\ (data[s] # Nothing) <=> \E i \in LiveIndices : Slot(i) = s
       /\ extracted[s] <=>
            \A i \in LiveIndices \cup FreeingIndices : Slot(i) # s

\* pop(): when the owner gives up, nothing is left, so that a worker whose pop
\* fails may go on to the global queue and to sleep without leaving work
\* behind in its own deque.
PopFailsOnlyWhenEmpty == pc[Owner] = "popRestore" => head = EndIndex

(***************************************************************************)
(* The deque implements WorkDeque.  A pop takes effect when it reads _head *)
(* below its index or wins the CAS, a steal when it wins the CAS, a push   *)
(* when it publishes _tail.                                                *)
(***************************************************************************)
Abstract == INSTANCE WorkDeque WITH
  deque  <- [k \in 1..(EndIndex - head) |-> data[Slot(head + k - 1)]],
  hand   <- [p \in Procs |-> IF Claims(p) THEN data[Slot(top[p])] ELSE Nothing],
  pushed <- IF pc[Owner] = "construct" THEN pushed - (top[Owner] - tail)
                                       ELSE pushed

\* push, pop and steal: each item pushed reaches exactly one process, intact,
\* from the end of the deque its operation works on.
ImplementsWorkDeque == Abstract!Spec
=============================================================================
