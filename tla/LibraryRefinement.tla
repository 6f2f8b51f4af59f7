------------------------- MODULE LibraryRefinement --------------------------
(***************************************************************************)
(* The containers of Library implement what they promise: the deque is a   *)
(* WorkDeque, the array queues are FifoQueues, on top of the invariants    *)
(* that LibraryProofs proves.                                              *)
(***************************************************************************)
EXTENDS LibraryProofs

(***************************************************************************)
(* WorkStealingDeque implements WorkDeque: a step is one of WorkDeque's    *)
(* or leaves the three variables it is mapped to as they are.              *)
(***************************************************************************)
Items == [k \in 1 .. (Deque!EndIndex - dHead) |-> dData[Deque!Slot(dHead + k - 1)]]
Hand == [p \in Deque!Procs |-> IF Deque!Claims(p) THEN dData[Deque!Slot(top[p])] ELSE Nothing]
Sent == IF dPc[Owner] = "construct" THEN pushed - (top[Owner] - dTail) ELSE pushed

\* pushBulk: the items constructed and not yet published carry the last numbers.
Numbered == dPc[Owner] = "construct" =>
              \A i \in dTail .. (top[Owner] - 1) : dData[Deque!Slot(i)] = pushed - top[Owner] + i + 1

\* A step that leaves items, hands and numbers as they are stutters in WorkDeque.
LEMMA Stutters ==
  ASSUME Items' = Items, Hand' = Hand, Sent' = Sent
  PROVE  [Deque!Abstract!Next]_Deque!Abstract!vars
BY DEF Items, Hand, Sent, Deque!Abstract!vars

\* A step that empties one hand and touches nothing else is WorkDeque's Deliver.
LEMMA Delivers ==
  ASSUME NEW p \in Deque!Procs, Items' = Items, Sent' = Sent, Hand[p] # Nothing,
         Hand' = [Hand EXCEPT ![p] = Nothing]
  PROVE  Deque!Abstract!Next
<1>1. Deque!Abstract!Deliver(p)
  BY DEF Items, Hand, Sent, Deque!Abstract!Deliver
<1>2. QED
  BY <1>1 DEF Deque!Abstract!Next, Deque!Procs

\* A step that moves the first item into a thief's empty hand is WorkDeque's Steal.
LEMMA Steals ==
  ASSUME NEW t \in Consumers, Items # <<>>, Hand[t] = Nothing, Sent' = Sent,
         Hand' = [Hand EXCEPT ![t] = Head(Items)], Items' = Tail(Items)
  PROVE  Deque!Abstract!Next
<1>1. Deque!Abstract!Steal(t)
  BY DEF Items, Hand, Sent, Deque!Abstract!Steal
<1>2. QED
  BY <1>1 DEF Deque!Abstract!Next

\* A step that moves the last item into the owner's empty hand is WorkDeque's Pop.
LEMMA Pops ==
  ASSUME Items # <<>>, Hand[Owner] = Nothing, Sent' = Sent,
         Hand' = [Hand EXCEPT ![Owner] = Items[Len(Items)]],
         Items' = SubSeq(Items, 1, Len(Items) - 1)
  PROVE  Deque!Abstract!Next
<1>1. Deque!Abstract!Pop
  BY DEF Items, Hand, Sent, Deque!Abstract!Pop, Deque!Abstract!Last, Deque!Abstract!Front
<1>2. QED
  BY <1>1 DEF Deque!Abstract!Next

\* A step that appends the next n numbers, within the capacity, is WorkDeque's Push(n).
LEMMA Pushes ==
  ASSUME NEW n \in 1 .. Capacity, Len(Items) + n <= Capacity, Hand' = Hand, Sent' = Sent + n,
         Items' = Items \o [k \in 1 .. n |-> Sent + k]
  PROVE  Deque!Abstract!Next
<1>1. Deque!Abstract!Push(n)
  BY DEF Items, Hand, Sent, Deque!Abstract!Push
<1>2. QED
  BY <1>1 DEF Deque!Abstract!Next

\* The deque's items are live, and there is one for each index from _head to EndIndex.
LEMMA ItemsLive ==
  ASSUME DequeInv
  PROVE  /\ dHead \in Nat /\ Deque!EndIndex \in Nat /\ dHead <= Deque!EndIndex
         /\ \A i \in dHead .. (Deque!EndIndex - 1) : i \in Live
         /\ Len(Items) = Deque!EndIndex - dHead /\ Items \in Seq((1 .. DequeItems) \cup {Nothing})
<1>1. /\ DequeTypes /\ OwnerAt /\ dHead \in Nat /\ Deque!EndIndex \in Nat /\ Deque!EndIndex <= High /\ High \in Nat
      /\ dHead <= High /\ top[Owner] \in Nat /\ dPc[Owner] \in Owning
  BY DequeFacts
<1>2. dHead <= Deque!EndIndex
  BY <1>1 DEF OwnerAt, Deque!EndIndex, High, Reserved, Owning
<1>3. \A i \in dHead .. (Deque!EndIndex - 1) : i \in Live
  BY <1>1 DEF Live
<1>4. \A i \in Nat : Deque!Slot(i) \in Deque!Slots
  BY DequeSlots
<1>5. \A k \in 1 .. (Deque!EndIndex - dHead) : dHead + k - 1 \in Nat
  BY <1>1
<1>6. \A k \in 1 .. (Deque!EndIndex - dHead) : dData[Deque!Slot(dHead + k - 1)] \in (1 .. DequeItems) \cup {Nothing}
  BY <1>1, <1>4, <1>5 DEF DequeTypes
<1>7. Deque!EndIndex - dHead \in Nat
  BY <1>1, <1>2
<1>8. Len(Items) = Deque!EndIndex - dHead /\ Items \in Seq((1 .. DequeItems) \cup {Nothing})
  BY <1>6, <1>7 DEF Items
<1>9. QED
  BY <1>1, <1>2, <1>3, <1>8

\* The items stay when _head, the end and every live slot stay.
LEMMA ItemsKept ==
  ASSUME DequeInv, dHead' = dHead, Deque!EndIndex' = Deque!EndIndex,
         \A i \in Live : i < Deque!EndIndex /\ dHead <= i => dData'[Deque!Slot(i)] = dData[Deque!Slot(i)]
  PROVE  Items' = Items
<1>1. /\ dHead \in Nat /\ Deque!EndIndex \in Nat /\ dHead <= Deque!EndIndex
      /\ \A i \in dHead .. (Deque!EndIndex - 1) : i \in Live
  BY ItemsLive
<1>2. \A k \in 1 .. (Deque!EndIndex - dHead) : dHead + k - 1 \in dHead .. (Deque!EndIndex - 1)
  BY <1>1
<1>3. \A i \in dHead .. (Deque!EndIndex - 1) : dData'[Deque!Slot(i)] = dData[Deque!Slot(i)]
  BY <1>1
<1>4. \A k \in 1 .. (Deque!EndIndex - dHead) : dData'[Deque!Slot(dHead + k - 1)] = dData[Deque!Slot(dHead + k - 1)]
  BY <1>2, <1>3
<1>5. QED
  BY <1>4 DEF Items, Deque!Slot

\* The hands stay when the same processes have won the same indices of the same items.
LEMMA HandKept ==
  ASSUME \A p \in Deque!Procs : /\ Deque!Claims(p)' <=> Deque!Claims(p)
                                /\ Deque!Claims(p) => dData'[Deque!Slot(top'[p])] = dData[Deque!Slot(top[p])]
  PROVE  Hand' = Hand
<1>1. Deque!Procs' = Deque!Procs
  BY DEF Deque!Procs
<1>2. QED
  BY <1>1 DEF Hand, Deque!Slot

\* Which processes hold an item they have won.
LEMMA Claiming ==
  ASSUME DequeInv
  PROVE  /\ \A t \in Consumers : Deque!Claims(t) <=> dPc[t] = "stealTake"
         /\ Deque!Claims(Owner) <=> dPc[Owner] \in {"popTake", "popTakeLast"}
         /\ \A p : p \in Deque!Procs <=> p \in Consumers \/ p = Owner
         /\ \A p \in Deque!Procs : Deque!Claims(p) => top[p] \in Live
<1>1. /\ OwnerAt /\ dHead \in Nat /\ High \in Nat /\ top[Owner] \in Nat
      /\ dPc[Owner] \in Owning /\ \A t \in Consumers : ThiefAt(t)
  BY DequeFacts
<1>2. Owner \in Deque!Procs /\ \A p : p \in Deque!Procs <=> p \in Consumers \/ p = Owner
  BY OwnerApart DEF Deque!Procs
<1>3. /\ \A t \in Consumers : Deque!Claims(t) <=> dPc[t] = "stealTake"
      /\ Deque!Claims(Owner) <=> dPc[Owner] \in {"popTake", "popTakeLast"}
  BY <1>1 DEF Deque!Claims, ThiefAt, Stealing, Owning, Reserved
<1>4. \A t \in Consumers : Deque!Claims(t) => top[t] \in Live
  BY <1>3 DEF Live, Taken
<1>5. Deque!Claims(Owner) => top[Owner] \in Live
  <2>1. CASE dPc[Owner] = "popTakeLast"
    BY <2>1 DEF Live
  <2>2. CASE dPc[Owner] = "popTake"
    <3>1. dHead <= top[Owner] /\ High = top[Owner] + 1
      BY <1>1, <2>2 DEF OwnerAt, High, Reserved
    <3>2. QED
      BY <1>1, <3>1 DEF Live
  <2>3. QED
    BY <1>3, <2>1, <2>2
<1>6. QED
  BY <1>2, <1>3, <1>4, <1>5

\* A step that moves neither _head nor the end, no item and no process that has won one.
LEMMA QuietStutters ==
  ASSUME DequeInv, dHead' = dHead, Deque!EndIndex' = Deque!EndIndex, dData' = dData, Sent' = Sent,
         \A p \in Deque!Procs : \/ dPc'[p] = dPc[p] /\ top'[p] = top[p]
                                \/ ~Deque!Claims(p) /\ ~Deque!Claims(p)'
  PROVE  [Deque!Abstract!Next]_Deque!Abstract!vars
<1>1. Items' = Items
  BY ItemsKept
<1>2. \A p \in Deque!Procs : /\ Deque!Claims(p)' <=> Deque!Claims(p)
                             /\ Deque!Claims(p) => dData'[Deque!Slot(top'[p])] = dData[Deque!Slot(top[p])]
  BY DEF Deque!Claims
<1>3. Hand' = Hand
  BY <1>2, HandKept
<1>4. QED
  BY <1>1, <1>3, Stutters

\* A thief's quiet steps do not move the owner, and the owner's do not move the thieves.
LEMMA ThiefQuiet ==
  ASSUME DequeInv, NEW t \in Consumers, dHead' = dHead, dTail' = dTail, dData' = dData, pushed' = pushed,
         \A p \in Deque!Procs : p # t => dPc'[p] = dPc[p] /\ top'[p] = top[p],
         dPc[t] # "stealTake", dPc'[t] \in {"idle", "stealLoadTail", "stealCas"}
  PROVE  [Deque!Abstract!Next]_Deque!Abstract!vars
<1>1. Owner \in Deque!Procs /\ t # Owner
  BY OwnerApart
<1>2. dPc'[Owner] = dPc[Owner] /\ top'[Owner] = top[Owner]
  BY <1>1
<1>3. Deque!EndIndex' = Deque!EndIndex /\ Sent' = Sent
  BY <1>2 DEF Deque!EndIndex, Sent
<1>4. ~Deque!Claims(t) /\ ~Deque!Claims(t)'
  BY Claiming DEF Deque!Claims
<1>5. QED
  BY <1>3, <1>4, QuietStutters

\* steal: loading _head and _tail, a failed CAS and _head's reload change nothing of WorkDeque.
LEMMA StealMoveMaps ==
  ASSUME DequeInv, NEW t \in Consumers,
         \/ Deque!StealLoadHead(t) \/ Deque!StealLoadTail(t) \/ Deque!StealFree(t)
         \/ (Deque!StealCas(t) /\ dHead # top[t])
  PROVE  [Deque!Abstract!Next]_Deque!Abstract!vars
<1>1. DequeTypes /\ t \in Deque!Procs
  BY DequeFacts
<1>2. /\ dHead' = dHead /\ dTail' = dTail /\ dData' = dData /\ pushed' = pushed
  BY DEF Deque!StealLoadHead, Deque!StealLoadTail, Deque!StealFree, Deque!StealCas
<1>3. \A p \in Deque!Procs : p # t => dPc'[p] = dPc[p] /\ top'[p] = top[p]
  BY <1>1 DEF Deque!StealLoadHead, Deque!StealLoadTail, Deque!StealFree, Deque!StealCas, Deque!Goto, Deque!SetTop, DequeTypes
<1>4. dPc[t] # "stealTake" /\ dPc'[t] \in {"idle", "stealLoadTail", "stealCas"}
  BY <1>1 DEF Deque!StealLoadHead, Deque!StealLoadTail, Deque!StealFree, Deque!StealCas, Deque!Goto, DequeTypes
<1>5. QED
  BY <1>2, <1>3, <1>4, ThiefQuiet

\* The owner's steps that write only its registers leave the hands and the items.
LEMMA OwnerQuiet ==
  ASSUME DequeInv, dHead' = dHead, Deque!EndIndex' = Deque!EndIndex, dData' = dData, Sent' = Sent,
         \A t \in Consumers : dPc'[t] = dPc[t] /\ top'[t] = top[t],
         dPc[Owner] \notin {"popTake", "popTakeLast"}, dPc'[Owner] \notin {"popTake", "popTakeLast", "stealTake"}
  PROVE  [Deque!Abstract!Next]_Deque!Abstract!vars
<1>1. ~Deque!Claims(Owner) /\ ~Deque!Claims(Owner)'
  BY Claiming DEF Deque!Claims
<1>2. \A p \in Deque!Procs : p \in Consumers \/ p = Owner
  BY Claiming
<1>3. QED
  BY <1>1, <1>2, QuietStutters

\* push and pop: their loads, the full and the empty returns change nothing of WorkDeque.
LEMMA OwnerMoveMaps ==
  ASSUME DequeInv,
         \/ \E n \in 1 .. MaxBulk : Deque!PushBegin(n)
         \/ Deque!PopReserve
         \/ Deque!PopLoadHead /\ dHead >= top[Owner]
         \/ Deque!PopCas /\ dHead # top[Owner]
         \/ Deque!PopRestore
  PROVE  [Deque!Abstract!Next]_Deque!Abstract!vars
<1>1. /\ DequeTypes /\ OwnerAt /\ dHead \in Nat /\ dTail \in Nat /\ top[Owner] \in Nat /\ pushed \in Nat
      /\ dPc[Owner] \in Owning
  BY DequeFacts DEF DequeTypes
<1>2. Owner \in Deque!Procs /\ \A t \in Consumers : t \in Deque!Procs /\ t # Owner
  BY OwnerApart
<1>3. dHead' = dHead /\ dData' = dData /\ pushed' = pushed
  BY DEF Deque!PushBegin, Deque!PopReserve, Deque!PopLoadHead, Deque!PopCas, Deque!PopRestore
<1>4. \A t \in Consumers : dPc'[t] = dPc[t] /\ top'[t] = top[t]
  BY <1>1, <1>2 DEF Deque!PushBegin, Deque!PopReserve, Deque!PopLoadHead, Deque!PopCas, Deque!PopRestore,
                    Deque!Goto, Deque!SetTop, DequeTypes
<1>5. dPc \in [Deque!Procs -> Owning \cup Stealing] /\ top \in [Deque!Procs -> Nat]
  BY <1>1 DEF DequeTypes
<1>6. CASE \E n \in 1 .. MaxBulk : Deque!PushBegin(n)
  <2>1. dPc[Owner] = "idle" /\ dPc'[Owner] = "construct" /\ top'[Owner] = dTail /\ dTail' = dTail
    BY <1>2, <1>5, <1>6 DEF Deque!PushBegin, Deque!Goto, Deque!SetTop
  <2>2. Deque!EndIndex' = Deque!EndIndex /\ Sent' = Sent
    BY <1>1, <1>3, <2>1 DEF Deque!EndIndex, Sent
  <2>3. QED
    BY <1>3, <1>4, <2>1, <2>2, OwnerQuiet
<1>7. CASE Deque!PopReserve
  <2>1. dPc[Owner] = "idle" /\ dPc'[Owner] = "popLoadHead" /\ top'[Owner] = dTail - 1
    BY <1>2, <1>5, <1>7 DEF Deque!PopReserve, Deque!Goto, Deque!SetTop
  <2>2. Deque!EndIndex' = Deque!EndIndex /\ Sent' = Sent
    BY <1>1, <1>3, <2>1 DEF Deque!EndIndex, Sent
  <2>3. QED
    BY <1>3, <1>4, <2>1, <2>2, OwnerQuiet
<1>8. CASE Deque!PopLoadHead /\ dHead >= top[Owner]
  <2>1. dPc[Owner] = "popLoadHead" /\ dPc'[Owner] \in {"popCas", "popRestore"} /\ top' = top /\ dTail' = dTail
    BY <1>1, <1>2, <1>5, <1>8 DEF Deque!PopLoadHead, Deque!Goto
  <2>2. Deque!EndIndex' = Deque!EndIndex /\ Sent' = Sent
    BY <1>1, <1>3, <2>1 DEF Deque!EndIndex, Sent
  <2>3. QED
    BY <1>3, <1>4, <2>1, <2>2, OwnerQuiet
<1>9. CASE Deque!PopCas /\ dHead # top[Owner]
  <2>1. dPc[Owner] = "popCas" /\ dPc'[Owner] = "popRestore" /\ top' = top /\ dTail' = dTail
    BY <1>1, <1>2, <1>5, <1>9 DEF Deque!PopCas, Deque!Goto
  <2>2. Deque!EndIndex' = Deque!EndIndex /\ Sent' = Sent
    BY <1>1, <1>3, <2>1 DEF Deque!EndIndex, Sent
  <2>3. QED
    BY <1>3, <1>4, <2>1, <2>2, OwnerQuiet
<1>10. CASE Deque!PopRestore
  <2>1. dPc[Owner] = "popRestore" /\ dPc'[Owner] = "idle" /\ top' = top /\ dTail' = top[Owner] + 1
    BY <1>1, <1>2, <1>5, <1>10 DEF Deque!PopRestore, Deque!Goto
  <2>2. Deque!EndIndex' = Deque!EndIndex /\ Sent' = Sent
    BY <1>1, <1>3, <2>1 DEF Deque!EndIndex, Sent
  <2>3. QED
    BY <1>3, <1>4, <2>1, <2>2, OwnerQuiet
<1>11. QED
  BY <1>6, <1>7, <1>8, <1>9, <1>10

\* The process that wins an item had none, and now has the one at its index.
LEMMA HandWon ==
  ASSUME NEW p \in Deque!Procs, NEW v, ~Deque!Claims(p), Deque!Claims(p)', dData' = dData,
         v = dData[Deque!Slot(top'[p])],
         \A q \in Deque!Procs : q # p => dPc'[q] = dPc[q] /\ top'[q] = top[q]
  PROVE  Hand[p] = Nothing /\ Hand' = [Hand EXCEPT ![p] = v]
<1>1. Deque!Procs' = Deque!Procs
  BY DEF Deque!Procs
<1>2. Hand[p] = Nothing
  BY DEF Hand
<1>3. \A q \in Deque!Procs : q # p => (Deque!Claims(q)' <=> Deque!Claims(q))
  BY DEF Deque!Claims
<1>4. \A q \in Deque!Procs : Hand'[q] = IF q = p THEN v ELSE Hand[q]
  BY <1>1, <1>3 DEF Hand, Deque!Slot
<1>5. Hand' = [q \in Deque!Procs |-> Hand'[q]] /\ Hand = [q \in Deque!Procs |-> Hand[q]]
  BY <1>1 DEF Hand
<1>6. QED
  BY <1>2, <1>4, <1>5

\* Moving an item out leaves the other live items where they are.
LEMMA MovedOut ==
  ASSUME DequeInv, NEW i, i \in Live, dData' = [dData EXCEPT ![Deque!Slot(i)] = Nothing]
  PROVE  /\ dData[Deque!Slot(i)] # Nothing
         /\ \A j \in Live : j # i => dData'[Deque!Slot(j)] = dData[Deque!Slot(j)]
<1>1. DequeTypes /\ High \in Nat /\ SlotsTell(Live, Going, High, dData, extracted)
  BY DequeFacts
<1>2. /\ \A j, k \in Live : Deque!Slot(j) = Deque!Slot(k) => j = k
      /\ \A j \in Live : Deque!Slot(j) \in Deque!Slots
  <2>1. /\ \A j, k \in Live \cup Going : Deque!Slot(j) = Deque!Slot(k) => j = k
        /\ \A j \in Live \cup Going : Deque!Slot(j) \in Deque!Slots
    BY <1>1, TellApart
  <2>2. QED
    BY <2>1
<1>3. dData[Deque!Slot(i)] # Nothing
  BY <1>1, <1>2 DEF SlotsTell
<1>4. \A j \in Live : j # i => Deque!Slot(j) # Deque!Slot(i)
  BY <1>2
<1>5. dData \in [Deque!Slots -> (1 .. DequeItems) \cup {Nothing}]
  BY <1>1 DEF DequeTypes
<1>6. ASSUME NEW j \in Live, j # i PROVE dData'[Deque!Slot(j)] = dData[Deque!Slot(j)]
  <2>1. Deque!Slot(j) # Deque!Slot(i) /\ Deque!Slot(j) \in Deque!Slots
    BY <1>2, <1>4, <1>6
  <2>2. QED
    BY <1>5, <2>1
<1>7. QED
  BY <1>3, <1>6

\* The process that moved its item out has none, and the others keep theirs.
LEMMA HandGiven ==
  ASSUME DequeInv, NEW p \in Deque!Procs, Deque!Claims(p), ~Deque!Claims(p)',
         dData' = [dData EXCEPT ![Deque!Slot(top[p])] = Nothing],
         \A q \in Deque!Procs : q # p => dPc'[q] = dPc[q] /\ top'[q] = top[q],
         \A q \in Deque!Procs : q # p /\ Deque!Claims(q) => top[q] # top[p]
  PROVE  Hand[p] # Nothing /\ Hand' = [Hand EXCEPT ![p] = Nothing]
<1>1. Deque!Procs' = Deque!Procs
  BY DEF Deque!Procs
<1>2. \A q \in Deque!Procs : Deque!Claims(q) => top[q] \in Live
  BY Claiming
<1>3. /\ dData[Deque!Slot(top[p])] # Nothing
      /\ \A j \in Live : j # top[p] => dData'[Deque!Slot(j)] = dData[Deque!Slot(j)]
  <2>1. PICK i : i = top[p] /\ i \in Live
    BY <1>2
  <2>2. dData' = [dData EXCEPT ![Deque!Slot(i)] = Nothing]
    BY <2>1
  <2>3. /\ dData[Deque!Slot(i)] # Nothing
        /\ \A j \in Live : j # i => dData'[Deque!Slot(j)] = dData[Deque!Slot(j)]
    BY <2>1, <2>2, MovedOut
  <2>4. QED
    BY <2>1, <2>3
<1>4. Hand[p] # Nothing
  BY <1>3 DEF Hand
<1>5. \A q \in Deque!Procs : q # p => (Deque!Claims(q)' <=> Deque!Claims(q))
  BY DEF Deque!Claims
<1>6. \A q \in Deque!Procs : q # p /\ Deque!Claims(q) => dData'[Deque!Slot(top'[q])] = dData[Deque!Slot(top[q])]
  BY <1>2, <1>3
<1>7. \A q \in Deque!Procs : Hand'[q] = IF q = p THEN Nothing ELSE Hand[q]
  BY <1>1, <1>5, <1>6 DEF Hand, Deque!Slot
<1>8. Hand' = [q \in Deque!Procs |-> Hand'[q]] /\ Hand = [q \in Deque!Procs |-> Hand[q]]
  BY <1>1 DEF Hand
<1>9. QED
  BY <1>4, <1>7, <1>8

\* The items after _head has advanced.
LEMMA ItemsBehead ==
  ASSUME DequeInv, dHead < Deque!EndIndex, dHead' = dHead + 1, Deque!EndIndex' = Deque!EndIndex, dData' = dData
  PROVE  Items # <<>> /\ Head(Items) = dData[Deque!Slot(dHead)] /\ Items' = Tail(Items)
<1>1. PICK n \in Nat : n = Deque!EndIndex - dHead
  BY ItemsLive
<1>2. n > 0 /\ dHead \in Nat /\ Deque!EndIndex \in Nat
  BY <1>1, ItemsLive
<1>3. Items = [k \in 1 .. n |-> dData[Deque!Slot(dHead + k - 1)]] /\ Len(Items) = n
  BY <1>1, ItemsLive DEF Items
<1>4. Items # <<>>
  BY <1>2, <1>3
<1>5. Items[1] = dData[Deque!Slot(dHead)]
  BY <1>2, <1>3
<1>6. Items \in Seq((1 .. DequeItems) \cup {Nothing})
  BY ItemsLive
<1>7. Head(Items) = dData[Deque!Slot(dHead)]
  BY <1>4, <1>5, <1>6
<1>8. Deque!EndIndex' - dHead' = n - 1
  BY <1>1, <1>2
<1>9. Items' = [k \in 1 .. n - 1 |-> dData[Deque!Slot(dHead + 1 + k - 1)]]
  BY <1>8 DEF Items, Deque!Slot
<1>10. Tail(Items) = [k \in 1 .. n - 1 |-> Items[k + 1]]
  BY <1>3, <1>4, <1>6
<1>11. \A k \in 1 .. n - 1 : Items[k + 1] = dData[Deque!Slot(dHead + 1 + k - 1)]
  <2>1. \A k \in 1 .. n - 1 : k + 1 \in 1 .. n /\ dHead + (k + 1) - 1 = dHead + 1 + k - 1
    BY <1>2
  <2>2. QED
    BY <1>3, <2>1
<1>12. QED
  BY <1>4, <1>7, <1>9, <1>10, <1>11

\* The items after the end has come back by one.
LEMMA ItemsCurtail ==
  ASSUME DequeInv, dHead < Deque!EndIndex, dHead' = dHead, Deque!EndIndex' = Deque!EndIndex - 1, dData' = dData
  PROVE  /\ Items # <<>> /\ Items[Len(Items)] = dData[Deque!Slot(Deque!EndIndex - 1)]
         /\ Items' = SubSeq(Items, 1, Len(Items) - 1)
<1>1. PICK n \in Nat : n = Deque!EndIndex - dHead
  BY ItemsLive
<1>2. n > 0 /\ dHead \in Nat /\ Deque!EndIndex \in Nat
  BY <1>1, ItemsLive
<1>3. Items = [k \in 1 .. n |-> dData[Deque!Slot(dHead + k - 1)]] /\ Len(Items) = n
  BY <1>1, ItemsLive DEF Items
<1>4. Items # <<>>
  BY <1>2, <1>3
<1>5. Items[n] = dData[Deque!Slot(Deque!EndIndex - 1)]
  <2>1. n \in 1 .. n /\ dHead + n - 1 = Deque!EndIndex - 1
    BY <1>1, <1>2
  <2>2. QED
    BY <1>3, <2>1
<1>6. Items \in Seq((1 .. DequeItems) \cup {Nothing})
  BY ItemsLive
<1>7. Deque!EndIndex' - dHead' = n - 1
  BY <1>1, <1>2
<1>8. Items' = [k \in 1 .. n - 1 |-> dData[Deque!Slot(dHead + k - 1)]]
  BY <1>7 DEF Items, Deque!Slot
<1>9. SubSeq(Items, 1, n - 1) = [k \in 1 .. n - 1 |-> Items[k]]
  BY <1>2, <1>3, <1>6
<1>10. \A k \in 1 .. n - 1 : Items[k] = dData[Deque!Slot(dHead + k - 1)]
  <2>1. \A k \in 1 .. n - 1 : k \in 1 .. n
    BY <1>2
  <2>2. QED
    BY <1>3, <2>1
<1>11. QED
  BY <1>3, <1>4, <1>5, <1>8, <1>9, <1>10

\* steal: the CAS that wins takes the first item.
LEMMA StealCasMaps ==
  ASSUME DequeInv, NEW t \in Consumers, Deque!StealCas(t), dHead = top[t]
  PROVE  Deque!Abstract!Next
<1>1. DequeTypes /\ ThiefAt(t) /\ t \in Deque!Procs /\ t # Owner /\ Owner \in Deque!Procs /\ dHead \in Nat
  BY DequeFacts, OwnerApart
<1>2. PICK l : l = "stealTake"
  OBVIOUS
<1>3. /\ dPc[t] = "stealCas" /\ dHead' = dHead + 1 /\ dPc' = [dPc EXCEPT ![t] = l]
      /\ UNCHANGED <<dTail, dData, extracted, top, count, pushed>>
  BY <1>2 DEF Deque!StealCas, Deque!Goto
<1>4. dPc \in [Deque!Procs -> Owning \cup Stealing]
  BY <1>1 DEF DequeTypes
<1>5. dPc'[t] = "stealTake" /\ \A p \in Deque!Procs : p # t => dPc'[p] = dPc[p] /\ top'[p] = top[p]
  BY <1>1, <1>2, <1>3, <1>4
<1>6. dPc'[Owner] = dPc[Owner]
  BY <1>1, <1>5
<1>7. Deque!EndIndex' = Deque!EndIndex /\ Sent' = Sent
  BY <1>3, <1>6 DEF Deque!EndIndex, Sent
<1>8. dHead < Deque!EndIndex
  BY <1>1, <1>3 DEF ThiefAt
<1>9. Items # <<>> /\ Head(Items) = dData[Deque!Slot(dHead)] /\ Items' = Tail(Items)
  BY <1>3, <1>7, <1>8, ItemsBehead
<1>10. ~Deque!Claims(t) /\ Deque!Claims(t)'
  BY <1>3, <1>5 DEF Deque!Claims
<1>11. PICK v : v = Head(Items)
  OBVIOUS
<1>12. dData' = dData /\ top'[t] = dHead
  BY <1>3
<1>13. v = dData[Deque!Slot(top'[t])]
  BY <1>9, <1>11, <1>12
<1>14. Hand[t] = Nothing /\ Hand' = [Hand EXCEPT ![t] = v]
  BY <1>1, <1>5, <1>10, <1>12, <1>13, HandWon
<1>15. QED
  BY <1>7, <1>9, <1>11, <1>14, Steals

\* pop: reading _head below its index, or winning the CAS, takes the last item.
LEMMA PopLoadHeadMaps ==
  ASSUME DequeInv, Deque!PopLoadHead, dHead < top[Owner]
  PROVE  Deque!Abstract!Next
<1>1. /\ DequeTypes /\ OwnerAt /\ Owner \in Deque!Procs /\ dHead \in Nat /\ dTail \in Nat /\ top[Owner] \in Nat
  BY DequeFacts
<1>2. PICK l : l = CASE dHead < top[Owner] -> "popTake" [] dHead = top[Owner] -> "popCas" [] OTHER -> "popRestore"
  OBVIOUS
<1>3. /\ dPc[Owner] = "popLoadHead" /\ dPc' = [dPc EXCEPT ![Owner] = l]
      /\ UNCHANGED <<dHead, dTail, dData, extracted, top, count, pushed>>
  BY <1>2 DEF Deque!PopLoadHead, Deque!Goto
<1>4. dPc \in [Deque!Procs -> Owning \cup Stealing] /\ dTail = top[Owner]
  BY <1>1, <1>3 DEF DequeTypes, OwnerAt, Reserved
<1>5. dPc'[Owner] = "popTake" /\ \A p \in Deque!Procs : p # Owner => dPc'[p] = dPc[p] /\ top'[p] = top[p]
  <2>1. l = "popTake"
    BY <1>1, <1>2
  <2>2. QED
    BY <1>1, <1>3, <1>4, <2>1
<1>6. Deque!EndIndex = top[Owner] + 1 /\ Deque!EndIndex' = top[Owner]
  BY <1>3, <1>4, <1>5 DEF Deque!EndIndex
<1>7. Sent' = Sent
  BY <1>3, <1>5 DEF Sent
<1>8. dHead < Deque!EndIndex /\ Deque!EndIndex' = Deque!EndIndex - 1 /\ Deque!EndIndex - 1 = top[Owner]
  BY <1>1, <1>6
<1>9. Items # <<>> /\ Items[Len(Items)] = dData[Deque!Slot(top[Owner])] /\ Items' = SubSeq(Items, 1, Len(Items) - 1)
  BY <1>3, <1>8, ItemsCurtail
<1>10. ~Deque!Claims(Owner) /\ Deque!Claims(Owner)'
  BY <1>3, <1>5 DEF Deque!Claims
<1>11. PICK v : v = Items[Len(Items)]
  OBVIOUS
<1>12. dData' = dData /\ v = dData[Deque!Slot(top'[Owner])]
  BY <1>3, <1>9, <1>11
<1>13. Hand[Owner] = Nothing /\ Hand' = [Hand EXCEPT ![Owner] = v]
  BY <1>1, <1>5, <1>10, <1>12, HandWon
<1>14. QED
  BY <1>7, <1>9, <1>11, <1>13, Pops

\* pop: the CAS on _head for the last item takes it when it wins; when a thief was first it has none.
LEMMA PopCasMaps ==
  ASSUME DequeInv, Deque!PopCas, dHead = top[Owner]
  PROVE  Deque!Abstract!Next
<1>1. /\ DequeTypes /\ OwnerAt /\ Owner \in Deque!Procs /\ dHead \in Nat /\ dTail \in Nat /\ top[Owner] \in Nat
  BY DequeFacts
<1>2. PICK l : l = "popTakeLast"
  OBVIOUS
<1>3. /\ dPc[Owner] = "popCas" /\ dPc' = [dPc EXCEPT ![Owner] = l] /\ dHead' = dHead + 1
      /\ UNCHANGED <<dTail, dData, extracted, top, count, pushed>>
  BY <1>2 DEF Deque!PopCas, Deque!Goto
<1>4. dPc \in [Deque!Procs -> Owning \cup Stealing]
  BY <1>1 DEF DequeTypes
<1>5. dPc'[Owner] = "popTakeLast" /\ \A p \in Deque!Procs : p # Owner => dPc'[p] = dPc[p] /\ top'[p] = top[p]
  BY <1>1, <1>2, <1>3, <1>4
<1>6. Deque!EndIndex = dHead + 1 /\ Deque!EndIndex' = Deque!EndIndex
  BY <1>3, <1>5 DEF Deque!EndIndex
<1>7. Sent' = Sent
  BY <1>3, <1>5 DEF Sent
<1>8. dHead < Deque!EndIndex
  BY <1>1, <1>6
<1>9. Items # <<>> /\ Head(Items) = dData[Deque!Slot(dHead)] /\ Items' = Tail(Items)
  BY <1>3, <1>6, <1>8, ItemsBehead
<1>10. Len(Items) = 1 /\ Items \in Seq((1 .. DequeItems) \cup {Nothing})
  <2>1. Len(Items) = Deque!EndIndex - dHead /\ Items \in Seq((1 .. DequeItems) \cup {Nothing})
    BY ItemsLive
  <2>2. QED
    BY <1>1, <1>6, <2>1
<1>11. Items[Len(Items)] = Head(Items) /\ Tail(Items) = SubSeq(Items, 1, Len(Items) - 1)
  <2>1. ASSUME NEW S, NEW q \in Seq(S), Len(q) = 1
        PROVE  q[Len(q)] = Head(q) /\ Tail(q) = SubSeq(q, 1, Len(q) - 1)
    <3>1. q[Len(q)] = Head(q)
      BY <2>1
    <3>2. Tail(q) = [k \in 1 .. 0 |-> q[k + 1]]
      <4>1. q # <<>>
        BY <2>1
      <4>2. PICK n \in Nat : n = Len(q)
        BY <2>1
      <4>3. q = [k \in 1 .. n |-> q[k]] /\ q \in Seq(S)
        BY <2>1, <4>2
      <4>4. Tail(q) = [k \in 1 .. n - 1 |-> q[k + 1]]
        BY <4>1, <4>2, <4>3
      <4>5. QED
        BY <2>1, <4>2, <4>4
    <3>3. SubSeq(q, 1, 0) = [k \in 1 .. 0 |-> q[k]]
      BY <2>1
    <3>4. [k \in 1 .. 0 |-> q[k + 1]] = [k \in 1 .. 0 |-> q[k]]
      OBVIOUS
    <3>5. QED
      BY <2>1, <3>1, <3>2, <3>3, <3>4
  <2>2. QED
    BY <1>10, <2>1
<1>12. ~Deque!Claims(Owner) /\ Deque!Claims(Owner)'
  BY <1>3, <1>5 DEF Deque!Claims
<1>13. PICK v : v = Items[Len(Items)]
  OBVIOUS
<1>14. dData' = dData /\ top'[Owner] = dHead
  BY <1>3
<1>15. v = dData[Deque!Slot(top'[Owner])]
  BY <1>9, <1>11, <1>13, <1>14
<1>16. Hand[Owner] = Nothing /\ Hand' = [Hand EXCEPT ![Owner] = v]
  BY <1>1, <1>5, <1>12, <1>14, <1>15, HandWon
<1>17. QED
  BY <1>7, <1>9, <1>11, <1>13, <1>16, Pops

\* pop, steal: moving the item out delivers it.
LEMMA StealTakeMaps ==
  ASSUME DequeInv, NEW t \in Consumers, Deque!StealTake(t)
  PROVE  Deque!Abstract!Next
<1>1. /\ DequeTypes /\ OwnerAt /\ Apart /\ Owner \in Deque!Procs /\ t \in Deque!Procs /\ dHead \in Nat /\ top[t] \in Nat
      /\ ThiefAt(t) /\ t # Owner /\ top[Owner] \in Nat
  BY DequeFacts, OwnerApart
<1>2. PICK l : l = "stealFree"
  OBVIOUS
<1>3. /\ dPc[t] = "stealTake" /\ dPc' = [dPc EXCEPT ![t] = l]
      /\ dData' = [dData EXCEPT ![Deque!Slot(top[t])] = Nothing]
      /\ UNCHANGED <<dHead, dTail, extracted, top, count, pushed>>
  BY <1>2 DEF Deque!StealTake, Deque!MoveOut, Deque!Goto
<1>4. dPc \in [Deque!Procs -> Owning \cup Stealing]
  BY <1>1 DEF DequeTypes
<1>5. dPc'[t] = "stealFree" /\ \A p \in Deque!Procs : p # t => dPc'[p] = dPc[p] /\ top'[p] = top[p]
  BY <1>1, <1>2, <1>3, <1>4
<1>6. dPc'[Owner] = dPc[Owner]
  BY <1>1, <1>5
<1>7. Deque!EndIndex' = Deque!EndIndex /\ Sent' = Sent
  BY <1>3, <1>6 DEF Deque!EndIndex, Sent
<1>8. Deque!Claims(t) /\ ~Deque!Claims(t)'
  BY <1>3, <1>5 DEF Deque!Claims
<1>9. top[t] < dHead
  BY <1>1, <1>3 DEF ThiefAt
<1>10. \A q \in Deque!Procs : q # t /\ Deque!Claims(q) => top[q] # top[t]
  <2>1. ASSUME NEW q \in Consumers, q # t, Deque!Claims(q) PROVE top[q] # top[t]
    BY <1>1, <1>3, <2>1, Claiming DEF Apart
  <2>2. CASE Deque!Claims(Owner)
    <3>1. dPc[Owner] \in {"popTake", "popTakeLast"}
      BY <2>2, Claiming
    <3>2. top[Owner] # top[t]
      BY <1>1, <1>3, <1>9, <3>1 DEF Apart, OwnerAt
    <3>3. QED
      BY <3>2, <2>1, Claiming
  <2>3. CASE ~Deque!Claims(Owner)
    BY <2>1, <2>3, Claiming
  <2>4. QED
    BY <2>2, <2>3
<1>11. Hand[t] # Nothing /\ Hand' = [Hand EXCEPT ![t] = Nothing]
  BY <1>1, <1>3, <1>5, <1>8, <1>10, HandGiven
<1>12. Items' = Items
  <2>1. PICK i : i = top[t] /\ i \in Live
    BY <1>1, <1>8, Claiming
  <2>2. dData' = [dData EXCEPT ![Deque!Slot(i)] = Nothing]
    BY <1>3, <2>1
  <2>3. \A j \in Live : j # i => dData'[Deque!Slot(j)] = dData[Deque!Slot(j)]
    BY <2>1, <2>2, MovedOut
  <2>4. \A j \in Live : j < Deque!EndIndex /\ dHead <= j => dData'[Deque!Slot(j)] = dData[Deque!Slot(j)]
    BY <1>1, <1>9, <2>1, <2>3
  <2>5. QED
    BY <1>3, <1>7, <2>4, ItemsKept
<1>13. QED
  BY <1>1, <1>7, <1>11, <1>12, Delivers

\* pop: moving its item out delivers it, and the others' items stay.
LEMMA PopTakeMaps ==
  ASSUME DequeInv, Deque!PopTake
  PROVE  Deque!Abstract!Next
<1>1. /\ DequeTypes /\ OwnerAt /\ Apart /\ Owner \in Deque!Procs /\ dHead \in Nat /\ dTail \in Nat /\ top[Owner] \in Nat
      /\ \A t \in Consumers : ThiefAt(t) /\ top[t] \in Nat
  BY DequeFacts
<1>2. PICK l : l = IF dPc[Owner] = "popTake" THEN "idle" ELSE "popRestore"
  OBVIOUS
<1>3. /\ dPc[Owner] \in {"popTake", "popTakeLast"} /\ dPc' = [dPc EXCEPT ![Owner] = l]
      /\ dData' = [dData EXCEPT ![Deque!Slot(top[Owner])] = Nothing]
      /\ UNCHANGED <<dHead, dTail, top, count, pushed>>
  BY <1>2 DEF Deque!PopTake, Deque!MoveOut, Deque!Goto
<1>4. dPc \in [Deque!Procs -> Owning \cup Stealing]
  BY <1>1 DEF DequeTypes
<1>5. dPc'[Owner] = l /\ \A p \in Deque!Procs : p # Owner => dPc'[p] = dPc[p] /\ top'[p] = top[p]
  BY <1>1, <1>3, <1>4
<1>6. l \in {"idle", "popRestore"} /\ (l = "popRestore" <=> dPc[Owner] = "popTakeLast")
  BY <1>2, <1>3
<1>7. dTail = top[Owner]
  BY <1>1, <1>3 DEF OwnerAt, Reserved
<1>8. Deque!EndIndex' = Deque!EndIndex /\ Sent' = Sent
  BY <1>3, <1>5, <1>6 DEF Deque!EndIndex, Sent
<1>9. Deque!Claims(Owner) /\ ~Deque!Claims(Owner)'
  BY <1>3, <1>5, <1>6 DEF Deque!Claims
<1>10. \A q \in Deque!Procs : q # Owner /\ Deque!Claims(q) => top[q] # top[Owner]
  <2>1. ASSUME NEW q \in Consumers, Deque!Claims(q) PROVE top[q] # top[Owner]
    <3>1. dPc[q] = "stealTake"
      BY <2>1, Claiming
    <3>2. top[q] < dHead
      BY <1>1, <3>1 DEF ThiefAt
    <3>3. QED
      BY <1>1, <1>3, <3>1, <3>2 DEF Apart, OwnerAt
  <2>2. QED
    BY <2>1, Claiming
<1>11. Hand[Owner] # Nothing /\ Hand' = [Hand EXCEPT ![Owner] = Nothing]
  BY <1>1, <1>3, <1>5, <1>9, <1>10, HandGiven
<1>12. \A i \in Live : i < Deque!EndIndex /\ dHead <= i => i # top[Owner]
  <2>1. CASE dPc[Owner] = "popTake"
    <3>1. Deque!EndIndex = top[Owner]
      BY <1>7, <2>1 DEF Deque!EndIndex
    <3>2. QED
      BY <1>1, <3>1
  <2>2. CASE dPc[Owner] = "popTakeLast"
    <3>1. dHead = top[Owner] + 1
      BY <1>1, <2>2 DEF OwnerAt
    <3>2. QED
      BY <1>1, <3>1
  <2>3. QED
    BY <1>3, <2>1, <2>2
<1>13. Items' = Items
  <2>1. PICK i : i = top[Owner] /\ i \in Live
    BY <1>1, <1>9, Claiming
  <2>2. dData' = [dData EXCEPT ![Deque!Slot(i)] = Nothing]
    BY <1>3, <2>1
  <2>3. \A j \in Live : j # i => dData'[Deque!Slot(j)] = dData[Deque!Slot(j)]
    BY <2>1, <2>2, MovedOut
  <2>4. \A j \in Live : j < Deque!EndIndex /\ dHead <= j => dData'[Deque!Slot(j)] = dData[Deque!Slot(j)]
    BY <1>12, <2>1, <2>3
  <2>5. QED
    BY <1>3, <1>8, <2>4, ItemsKept
<1>14. QED
  BY <1>1, <1>8, <1>11, <1>13, Delivers

\* push: a construction leaves the live items where they are.
LEMMA Constructed ==
  ASSUME DequeInv, Deque!PushConstruct
  PROVE  /\ dPc[Owner] = "construct" /\ dHead' = dHead /\ dTail' = dTail /\ dPc' = dPc
         /\ pushed' = pushed + 1 /\ top'[Owner] = top[Owner] + 1
         /\ \A t \in Consumers : top'[t] = top[t]
         /\ dData'[Deque!Slot(top[Owner])] = pushed + 1
         /\ \A i \in Live : dData'[Deque!Slot(i)] = dData[Deque!Slot(i)]
<1>1. /\ DequeTypes /\ Owner \in Deque!Procs /\ SlotsTell(Live, Going, High, dData, extracted) /\ High \in Nat
      /\ top[Owner] \in Nat
  BY DequeFacts
<1>2. /\ dPc[Owner] = "construct" /\ dHead' = dHead /\ dTail' = dTail /\ dPc' = dPc /\ pushed' = pushed + 1
      /\ extracted[Deque!Slot(top[Owner])]
      /\ top' = [top EXCEPT ![Owner] = top[Owner] + 1]
      /\ dData' = [dData EXCEPT ![Deque!Slot(top[Owner])] = pushed + 1]
  BY DEF Deque!PushConstruct, Deque!SetTop
<1>3. /\ top \in [Deque!Procs -> Nat] /\ dData \in [Deque!Slots -> (1 .. DequeItems) \cup {Nothing}]
  BY <1>1 DEF DequeTypes
<1>4. top'[Owner] = top[Owner] + 1 /\ \A t \in Consumers : top'[t] = top[t]
  BY <1>1, <1>2, <1>3, OwnerApart
<1>5. Deque!Slot(top[Owner]) \in Deque!Slots
  BY <1>1, DequeSlots
<1>6. \A i \in Live : Deque!Slot(i) # Deque!Slot(top[Owner])
  BY <1>1, <1>2, <1>5 DEF SlotsTell
<1>7. \A i \in Live : Deque!Slot(i) \in Deque!Slots
  <2>1. \A i \in Live \cup Going : Deque!Slot(i) \in Deque!Slots
    BY <1>1, TellApart
  <2>2. QED
    BY <2>1
<1>8. dData'[Deque!Slot(top[Owner])] = pushed + 1
  BY <1>2, <1>3, <1>5
<1>9. ASSUME NEW i, i \in Live PROVE dData'[Deque!Slot(i)] = dData[Deque!Slot(i)]
  BY <1>2, <1>3, <1>6, <1>7, <1>9
<1>10. QED
  BY <1>2, <1>4, <1>8, <1>9

\* push: a construction beyond _tail changes nothing of WorkDeque, whose numbers follow _tail.
LEMMA ConstructMaps ==
  ASSUME DequeInv, Deque!PushConstruct
  PROVE  [Deque!Abstract!Next]_Deque!Abstract!vars
<1>1. /\ dPc[Owner] = "construct" /\ dHead' = dHead /\ dTail' = dTail /\ dPc' = dPc
      /\ pushed' = pushed + 1 /\ top'[Owner] = top[Owner] + 1
      /\ \A t \in Consumers : top'[t] = top[t]
      /\ \A i \in Live : dData'[Deque!Slot(i)] = dData[Deque!Slot(i)]
  BY Constructed
<1>2. top[Owner] \in Nat /\ dTail \in Nat /\ pushed \in Nat
  BY DequeFacts DEF DequeTypes
<1>3. Deque!EndIndex' = Deque!EndIndex /\ Sent' = Sent
  BY <1>1, <1>2 DEF Deque!EndIndex, Sent
<1>4. Items' = Items
  BY <1>1, <1>3, ItemsKept
<1>5. Hand' = Hand
  <2>1. \A p \in Deque!Procs : Deque!Claims(p)' <=> Deque!Claims(p)
    BY <1>1 DEF Deque!Claims
  <2>2. ASSUME NEW p \in Deque!Procs, Deque!Claims(p) PROVE dData'[Deque!Slot(top'[p])] = dData[Deque!Slot(top[p])]
    <3>1. p \in Consumers /\ top[p] \in Live
      BY <1>1, <2>2, Claiming
    <3>2. QED
      BY <1>1, <3>1
  <2>3. QED
    BY <2>1, <2>2, HandKept
<1>6. QED
  BY <1>3, <1>4, <1>5, Stutters

\* push: publishing _tail appends the items constructed, in their order.
LEMMA PublishMaps ==
  ASSUME DequeInv, Numbered, Deque!PushPublish
  PROVE  [Deque!Abstract!Next]_Deque!Abstract!vars
<1>1. /\ DequeTypes /\ OwnerAt /\ Owner \in Deque!Procs /\ dHead \in Nat /\ dTail \in Nat /\ top[Owner] \in Nat
      /\ High \in Nat /\ SlotsTell(Live, Going, High, dData, extracted)
      /\ \A t \in Consumers : t \in Deque!Procs /\ t # Owner
  BY DequeFacts, OwnerApart
<1>2. PICK l : l = "idle"
  OBVIOUS
<1>3. /\ dPc[Owner] = "construct" /\ dTail' = top[Owner] /\ dPc' = [dPc EXCEPT ![Owner] = l]
      /\ UNCHANGED <<dHead, dData, extracted, top, count, pushed>>
  BY <1>2 DEF Deque!PushPublish, Deque!Goto
<1>4. dPc \in [Deque!Procs -> Owning \cup Stealing] /\ pushed \in Nat
  BY <1>1 DEF DequeTypes
<1>5. dPc'[Owner] = "idle" /\ \A p \in Deque!Procs : p # Owner => dPc'[p] = dPc[p] /\ top'[p] = top[p]
  BY <1>1, <1>2, <1>3, <1>4
<1>6. dHead <= dTail /\ dTail <= top[Owner] /\ top[Owner] <= pushed /\ High = top[Owner]
  BY <1>1, <1>3 DEF OwnerAt, High, Reserved
<1>7. Deque!EndIndex = dTail /\ Deque!EndIndex' = top[Owner]
  BY <1>3, <1>5 DEF Deque!EndIndex
<1>8. Sent = pushed - (top[Owner] - dTail) /\ Sent' = pushed
  BY <1>3, <1>5 DEF Sent
<1>9. CASE dTail = top[Owner]
  <2>1. Deque!EndIndex' = Deque!EndIndex /\ Sent' = Sent
    BY <1>1, <1>4, <1>7, <1>8, <1>9
  <2>2. \A t \in Consumers : dPc'[t] = dPc[t] /\ top'[t] = top[t]
    BY <1>1, <1>5
  <2>3. QED
    BY <1>3, <1>5, <2>1, <2>2, OwnerQuiet
<1>10. CASE dTail < top[Owner]
  <2>1. PICK n \in Nat : n = top[Owner] - dTail
    BY <1>1, <1>6
  <2>2. PICK m \in Nat : m = dTail - dHead
    BY <1>1, <1>6
  <2>3. top[Owner] <= dHead + Capacity
    <3>1. dHead \in Live
      BY <1>1, <1>6, <1>10 DEF Live
    <3>2. QED
      BY <1>6, <3>1, <1>1 DEF SlotsTell
  <2>4. n \in 1 .. Capacity /\ m + n <= Capacity
    BY <1>1, <1>10, <2>1, <2>2, <2>3, DequeSlots
  <2>5. Len(Items) = m /\ Items \in Seq((1 .. DequeItems) \cup {Nothing})
    BY <1>7, <2>2, ItemsLive
  <2>6. Items = [k \in 1 .. m |-> dData[Deque!Slot(dHead + k - 1)]]
    BY <1>7, <2>2 DEF Items
  <2>7. Items' = [k \in 1 .. m + n |-> dData[Deque!Slot(dHead + k - 1)]]
    <3>1. Deque!EndIndex' - dHead' = m + n
      BY <1>1, <1>3, <1>7, <2>1, <2>2
    <3>2. QED
      BY <1>3, <3>1 DEF Items, Deque!Slot
  <2>8. Sent \in Int /\ Sent' = Sent + n
    BY <1>1, <1>4, <1>8, <2>1
  <2>9. \A k \in 1 .. n : dData[Deque!Slot(dHead + (m + k) - 1)] = Sent + k
    <3>1. \A i \in dTail .. (top[Owner] - 1) : dData[Deque!Slot(i)] = pushed - top[Owner] + i + 1
      BY <1>3 DEF Numbered
    <3>2. ASSUME NEW k \in 1 .. n PROVE dData[Deque!Slot(dHead + (m + k) - 1)] = Sent + k
      <4>1. PICK i : i = dHead + (m + k) - 1
        OBVIOUS
      <4>2. i \in dTail .. (top[Owner] - 1) /\ pushed - top[Owner] + i + 1 = Sent + k
        BY <1>1, <1>4, <1>8, <2>1, <2>2, <4>1
      <4>3. QED
        BY <3>1, <4>1, <4>2
    <3>3. QED
      BY <3>2
  <2>10. PICK q : q = [k \in 1 .. n |-> Sent + k]
    OBVIOUS
  <2>11. q \in Seq(Int) /\ Len(q) = n /\ \A k \in 1 .. n : q[k] = Sent + k
    BY <2>8, <2>10
  <2>12. Items' = Items \o q
    <3>1. Items \o q = [k \in 1 .. m + n |-> IF k <= m THEN Items[k] ELSE q[k - m]]
      <4>1. ASSUME NEW S, NEW p \in Seq(S), NEW r \in Seq(S)
            PROVE  p \o r = [k \in 1 .. Len(p) + Len(r) |-> IF k <= Len(p) THEN p[k] ELSE r[k - Len(p)]]
        <5>1. p \o r \in Seq(S) /\ Len(p \o r) = Len(p) + Len(r)
          OBVIOUS
        <5>2. p \o r = [k \in 1 .. Len(p) + Len(r) |-> (p \o r)[k]]
          <6>1. PICK c : c = p \o r
            OBVIOUS
          <6>2. c \in Seq(S) /\ Len(c) = Len(p) + Len(r)
            BY <5>1, <6>1
          <6>3. c = [k \in 1 .. Len(c) |-> c[k]]
            BY <6>2
          <6>4. QED
            BY <6>1, <6>2, <6>3
        <5>3. \A k \in 1 .. Len(p) + Len(r) : (p \o r)[k] = IF k <= Len(p) THEN p[k] ELSE r[k - Len(p)]
          OBVIOUS
        <5>4. QED
          BY <5>2, <5>3
      <4>2. PICK S : S = (1 .. DequeItems) \cup {Nothing} \cup Int
        OBVIOUS
      <4>3. Items \in Seq(S)
        BY <2>5, <4>2
      <4>4. q \in Seq(S)
        BY <2>11, <4>2
      <4>5. Items \o q = [k \in 1 .. Len(Items) + Len(q) |-> IF k <= Len(Items) THEN Items[k] ELSE q[k - Len(Items)]]
        BY <4>1, <4>3, <4>4, Zenon
      <4>6. QED
        BY <2>5, <2>11, <4>5
    <3>2. ASSUME NEW k \in 1 .. m + n
          PROVE  dData[Deque!Slot(dHead + k - 1)] = IF k <= m THEN Items[k] ELSE q[k - m]
      <4>1. CASE k <= m
        BY <2>6, <4>1
      <4>2. CASE k > m
        <5>1. PICK j \in 1 .. n : j = k - m /\ k = m + j
          BY <4>2
        <5>2. q[k - m] = Sent + j /\ dData[Deque!Slot(dHead + k - 1)] = Sent + j
          BY <2>9, <2>11, <5>1
        <5>3. QED
          BY <4>2, <5>2
      <4>3. QED
        BY <4>1, <4>2
    <3>3. QED
      BY <2>7, <3>1, <3>2
  <2>13. Hand' = Hand
    <3>1. ~Deque!Claims(Owner) /\ ~Deque!Claims(Owner)'
      BY <1>3, <1>5 DEF Deque!Claims
    <3>2. \A p \in Deque!Procs : /\ Deque!Claims(p)' <=> Deque!Claims(p)
                                 /\ Deque!Claims(p) => dData'[Deque!Slot(top'[p])] = dData[Deque!Slot(top[p])]
      BY <1>3, <1>5, <3>1 DEF Deque!Claims
    <3>3. QED
      BY <3>2, HandKept
  <2>14. QED
    BY <2>4, <2>5, <2>8, <2>10, <2>12, <2>13, Pushes
<1>11. QED
  BY <1>1, <1>6, <1>9, <1>10

\* The numbers hold when nothing of the owner and none of the items it has constructed move.
LEMMA NumbersStay ==
  ASSUME Numbered, dPc'[Owner] = dPc[Owner], top'[Owner] = top[Owner], dTail' = dTail, pushed' = pushed,
         \A i \in dTail .. (top[Owner] - 1) : dPc[Owner] = "construct" =>
             dData'[Deque!Slot(i)] = dData[Deque!Slot(i)]
  PROVE  Numbered'
<1>1. SUFFICES ASSUME dPc'[Owner] = "construct", NEW i \in dTail' .. (top'[Owner] - 1)
               PROVE  dData'[Deque!Slot(i)] = pushed' - top'[Owner] + i + 1
  BY DEF Numbered, Deque!Slot
<1>2. dPc[Owner] = "construct" /\ i \in dTail .. (top[Owner] - 1)
  BY <1>1
<1>3. dData[Deque!Slot(i)] = pushed - top[Owner] + i + 1
  BY <1>2 DEF Numbered
<1>4. QED
  BY <1>2, <1>3

\* No step of a thief touches the numbers of the items constructed.
LEMMA NumbersThief ==
  ASSUME DequeInv, Numbered, NEW t \in Consumers, Deque!StealLoadHead(t) \/ Deque!StealStep(t)
  PROVE  Numbered'
<1>1. /\ DequeTypes /\ OwnerAt /\ Owner \in Deque!Procs /\ t \in Deque!Procs /\ t # Owner /\ dHead \in Nat /\ dTail \in Nat
      /\ ThiefAt(t) /\ top[t] \in Nat /\ top[Owner] \in Nat
  BY DequeFacts, OwnerApart
<1>2. dPc \in [Deque!Procs -> Owning \cup Stealing] /\ top \in [Deque!Procs -> Nat]
  BY <1>1 DEF DequeTypes
<1>3. /\ dPc'[Owner] = dPc[Owner] /\ top'[Owner] = top[Owner] /\ dTail' = dTail /\ pushed' = pushed
  BY <1>1, <1>2 DEF Deque!StealStep, Deque!StealLoadHead, Deque!StealLoadTail, Deque!StealCas, Deque!StealTake, Deque!StealFree,
                    Deque!Goto, Deque!SetTop
<1>4. CASE ~Deque!StealTake(t)
  <2>1. dData' = dData
    BY <1>4 DEF Deque!StealStep, Deque!StealLoadHead, Deque!StealLoadTail, Deque!StealCas, Deque!StealFree
  <2>2. QED
    BY <1>3, <2>1, NumbersStay
<1>5. CASE Deque!StealTake(t)
  <2>1. dPc[t] = "stealTake" /\ dData' = [dData EXCEPT ![Deque!Slot(top[t])] = Nothing]
    BY <1>5 DEF Deque!StealTake, Deque!MoveOut
  <2>2. top[t] < dHead
    BY <1>1, <2>1 DEF ThiefAt
  <2>3. PICK j : j = top[t] /\ j \in Live
    BY <1>1, <2>1, Claiming
  <2>4. dData' = [dData EXCEPT ![Deque!Slot(j)] = Nothing]
    BY <2>1, <2>3
  <2>5. \A i \in Live : i # j => dData'[Deque!Slot(i)] = dData[Deque!Slot(i)]
    BY <2>3, <2>4, MovedOut
  <2>6. ASSUME NEW i \in dTail .. (top[Owner] - 1), dPc[Owner] = "construct"
        PROVE  dData'[Deque!Slot(i)] = dData[Deque!Slot(i)]
    <3>1. dHead <= dTail /\ High = top[Owner]
      BY <1>1, <2>6 DEF OwnerAt, High, Reserved
    <3>2. i \in Live /\ i # j
      BY <1>1, <2>2, <2>3, <2>6, <3>1 DEF Live
    <3>3. QED
      BY <2>5, <3>2
  <2>7. QED
    BY <1>3, <2>6, NumbersStay
<1>6. QED
  BY <1>4, <1>5

\* Every step of the owner keeps them: a construction adds the next number.
LEMMA NumbersOwner ==
  ASSUME DequeInv, Numbered,
         (\E n \in 1 .. MaxBulk : Deque!PushBegin(n)) \/ Deque!PopReserve \/ Deque!PushStep \/ Deque!PopStep
  PROVE  Numbered'
<1>1. DequeTypes /\ OwnerAt /\ Owner \in Deque!Procs /\ dHead \in Nat /\ dTail \in Nat /\ top[Owner] \in Nat /\ pushed \in Nat
  BY DequeFacts DEF DequeTypes
<1>2. dPc \in [Deque!Procs -> Owning \cup Stealing] /\ top \in [Deque!Procs -> Nat]
  BY <1>1 DEF DequeTypes
<1>3. ASSUME NEW n \in 1 .. MaxBulk, Deque!PushBegin(n) PROVE Numbered'
  <2>1. top'[Owner] = dTail /\ dTail' = dTail
    BY <1>1, <1>2, <1>3 DEF Deque!PushBegin, Deque!SetTop
  <2>2. QED
    BY <1>1, <2>1 DEF Numbered
<1>4. CASE Deque!PushConstruct
  <2>1. /\ dPc[Owner] = "construct" /\ dHead' = dHead /\ dTail' = dTail /\ dPc' = dPc
        /\ pushed' = pushed + 1 /\ top'[Owner] = top[Owner] + 1
        /\ dData'[Deque!Slot(top[Owner])] = pushed + 1
        /\ \A i \in Live : dData'[Deque!Slot(i)] = dData[Deque!Slot(i)]
    BY <1>4, Constructed
  <2>2. dHead <= dTail /\ High = top[Owner]
    BY <1>1, <2>1 DEF OwnerAt, High, Reserved
  <2>3. SUFFICES ASSUME NEW i \in dTail' .. (top'[Owner] - 1)
                 PROVE  dData'[Deque!Slot(i)] = pushed' - top'[Owner] + i + 1
    BY DEF Numbered, Deque!Slot
  <2>4. CASE i = top[Owner]
    BY <1>1, <2>1, <2>4
  <2>5. CASE i # top[Owner]
    <3>1. i \in dTail .. (top[Owner] - 1)
      BY <1>1, <2>1, <2>5
    <3>2. i \in Live
      BY <1>1, <2>2, <3>1 DEF Live
    <3>3. dData[Deque!Slot(i)] = pushed - top[Owner] + i + 1
      BY <2>1, <3>1 DEF Numbered
    <3>4. dData'[Deque!Slot(i)] = pushed - top[Owner] + i + 1
      BY <2>1, <3>2, <3>3
    <3>5. QED
      BY <1>1, <2>1, <3>1, <3>4
  <2>6. QED
    BY <2>4, <2>5
<1>5. CASE Deque!PushPublish \/ Deque!PopReserve \/ Deque!PopStep
  <2>1. dPc'[Owner] # "construct"
    <3>1. CASE Deque!PopLoadHead
      <4>1. PICK l : l = CASE dHead < top[Owner] -> "popTake" [] dHead = top[Owner] -> "popCas" [] OTHER -> "popRestore"
        OBVIOUS
      <4>2. dPc' = [dPc EXCEPT ![Owner] = l]
        BY <3>1, <4>1 DEF Deque!PopLoadHead, Deque!Goto
      <4>3. l # "construct"
        BY <1>1, <4>1
      <4>4. QED
        BY <1>1, <1>2, <4>2, <4>3
    <3>2. CASE Deque!PushPublish \/ Deque!PopReserve \/ Deque!PopCas \/ Deque!PopTake \/ Deque!PopRestore
      BY <1>1, <1>2, <3>2 DEF Deque!PushPublish, Deque!PopReserve, Deque!PopCas, Deque!PopTake, Deque!PopRestore, Deque!Goto
    <3>3. QED
      BY <1>5, <3>1, <3>2 DEF Deque!PopStep
  <2>2. QED
    BY <2>1 DEF Numbered
<1>6. QED
  BY <1>3, <1>4, <1>5 DEF Deque!PushStep

\* Every step of the library keeps the numbers, and is of the deque a step of WorkDeque.
LEMMA NextNumbered == DequeInv /\ Numbered /\ [Next]_vars => Numbered'
<1>1. SUFFICES ASSUME DequeInv, Numbered, [Next]_vars PROVE Numbered'
  OBVIOUS
<1>2. CASE UNCHANGED dequeVars
  BY <1>1, <1>2 DEF dequeVars, Numbered, Deque!Slot
<1>3. CASE Deque!Next
  BY <1>1, <1>3, NumbersOwner, NumbersThief DEF Deque!Next
<1>4. QED
  BY <1>1, <1>2, <1>3 DEF Next, Others, vars

\* One step of the library: Numbered and DequeInv map it to WorkDeque.
LEMMA DequeMaps == DequeInv /\ Numbered /\ [Next]_vars => [Deque!Abstract!Next]_Deque!Abstract!vars
<1>1. SUFFICES ASSUME DequeInv, Numbered, [Next]_vars PROVE [Deque!Abstract!Next]_Deque!Abstract!vars
  OBVIOUS
<1>2. CASE UNCHANGED dequeVars
  <2>1. Items' = Items /\ Hand' = Hand /\ Sent' = Sent
    BY <1>2 DEF dequeVars, Items, Hand, Sent, Deque!EndIndex, Deque!Slot, Deque!Procs, Deque!Claims
  <2>2. QED
    BY <2>1, Stutters
<1>3. CASE Deque!Next
  <2>1. dHead \in Nat /\ top[Owner] \in Nat
    BY <1>1, DequeFacts
  <2>2. CASE (\E n \in 1 .. MaxBulk : Deque!PushBegin(n)) \/ Deque!PopReserve \/ Deque!PopRestore
    BY <1>1, <2>2, OwnerMoveMaps
  <2>3. CASE Deque!PushStep
    BY <1>1, <2>3, ConstructMaps, PublishMaps DEF Deque!PushStep
  <2>4. CASE Deque!PopLoadHead
    <3>1. CASE dHead < top[Owner]
      BY <1>1, <2>4, <3>1, PopLoadHeadMaps
    <3>2. CASE dHead >= top[Owner]
      BY <1>1, <2>4, <3>2, OwnerMoveMaps
    <3>3. QED
      BY <2>1, <3>1, <3>2
  <2>5. CASE Deque!PopCas
    <3>1. CASE dHead = top[Owner]
      BY <1>1, <2>5, <3>1, PopCasMaps
    <3>2. CASE dHead # top[Owner]
      BY <1>1, <2>5, <3>2, OwnerMoveMaps
    <3>3. QED
      BY <3>1, <3>2
  <2>6. CASE Deque!PopTake
    BY <1>1, <2>6, PopTakeMaps
  <2>7. ASSUME NEW t \in Consumers, Deque!StealLoadHead(t) \/ Deque!StealStep(t)
        PROVE  [Deque!Abstract!Next]_Deque!Abstract!vars
    <3>1. CASE Deque!StealLoadHead(t) \/ Deque!StealLoadTail(t) \/ Deque!StealFree(t)
      BY <1>1, <3>1, StealMoveMaps
    <3>2. CASE Deque!StealCas(t)
      <4>1. CASE dHead = top[t]
        BY <1>1, <3>2, <4>1, StealCasMaps
      <4>2. CASE dHead # top[t]
        BY <1>1, <3>2, <4>2, StealMoveMaps
      <4>3. QED
        BY <4>1, <4>2
    <3>3. CASE Deque!StealTake(t)
      BY <1>1, <3>3, StealTakeMaps
    <3>4. QED
      BY <2>7, <3>1, <3>2, <3>3 DEF Deque!StealStep
  <2>8. QED
    BY <1>3, <2>2, <2>3, <2>4, <2>5, <2>6, <2>7 DEF Deque!Next, Deque!PopStep
<1>4. QED
  BY <1>1, <1>2, <1>3 DEF Next, Others, vars

\* An empty deque is an empty WorkDeque.
LEMMA DequeStarts == Init => Deque!Abstract!Init /\ Numbered
<1>1. SUFFICES ASSUME Init PROVE Deque!Abstract!Init /\ Numbered
  OBVIOUS
<1>2. /\ dHead = 0 /\ dTail = 0 /\ pushed = 0 /\ dPc = [p \in Deque!Procs |-> "idle"]
  BY <1>1 DEF Init, Deque!Init
<1>3. Owner \in Deque!Procs
  BY OwnerApart
<1>4. dPc[Owner] = "idle" /\ Deque!EndIndex = 0 /\ \A p \in Deque!Procs : ~Deque!Claims(p)
  BY <1>2, <1>3 DEF Deque!EndIndex, Deque!Claims
<1>5. Items = <<>>
  BY <1>2, <1>4 DEF Items
<1>6. Hand = [p \in Deque!Procs |-> Nothing] /\ Sent = 0
  BY <1>2, <1>4 DEF Hand, Sent
<1>7. Deque!Abstract!Init
  BY <1>5, <1>6 DEF Items, Hand, Sent, Deque!Abstract!Init, Deque!Procs
<1>8. QED
  BY <1>4, <1>7 DEF Numbered

\* WorkStealingDeque.h push, pop, steal: each item pushed reaches exactly one process,
\* intact, the owner's from the tail and the thieves' from the head.
THEOREM DequeRefinesHolds == Spec => DequeRefines
<1>1. Init => DequeInv
  BY InitDeque DEF Init
<1>2. QED
  BY <1>1, DequeStarts, NextDeque, NextNumbered, DequeMaps, PTL DEF Spec, DequeRefines, Deque!ImplementsWorkDeque, Deque!Abstract!Spec
-----------------------------------------------------------------------------
(***************************************************************************)
(* ArrayMpscQueue implements FifoQueue: the variables it is mapped to.     *)
(***************************************************************************)
StripQueue == [k \in 1 .. (sTail - Mpsc!Front) |-> Mpsc!Entry(Mpsc!Front + k - 1)]
StripHand == [c \in {Consumer} |-> IF sPc[c] = "moveOut" THEN <<sData[Mpsc!Slot(sPos[c])]>> ELSE <<>>]
StripSent == [p \in Producers |-> Mpsc!SentBy(p)]

\* pushBulk: the item constructed and not yet published is the producer's last.
Carried == \A p \in Producers : sPc[p] = "publish" => sData[Mpsc!Slot(sPos[p])] = <<p, sSent[p]>>

\* The number that p gives to the item at an index it has won.
NumberAt(p, i) == Given[p] - (sPos[p] + left[p] - 1 - i)

\* The number of indices of a run of n from i.
LEMMA RunCount == \A i, n \in Nat : Mpsc!Cardinality(i .. i + n - 1) = n
<1>1. ASSUME NEW i \in Nat, NEW n \in Nat PROVE Mpsc!Cardinality(i .. i + n - 1) = n
  <2>1. Mpsc!Cardinality(i .. i + n - 1) = Cardinality(i .. i + n - 1)
    BY DEF Mpsc!Cardinality, Cardinality
  <2>2. Cardinality(i .. i + n - 1) = IF i > i + n - 1 THEN 0 ELSE i + n - 1 - i + 1
    BY FS_Interval
  <2>3. QED
    BY <2>1, <2>2
<1>2. QED
  BY <1>1

\* The items reserved by a producer are those it has constructed or won a place for.
LEMMA SentIsGiven ==
  ASSUME StripInv
  PROVE  StripSent = Given
<1>1. ASSUME NEW p \in Producers PROVE Mpsc!SentBy(p) = Given[p]
  <2>1. StripTypes /\ p \in Mpsc!Procs
    BY DEF StripInv, Mpsc!Procs
  <2>2. CASE sPc[p] \in Filling
    <3>1. Mpsc!Won(p) = sPos[p] .. sPos[p] + left[p] - 1 /\ sPos[p] \in Nat /\ left[p] \in Nat
      BY <2>1, <2>2, StripWon
    <3>2. Mpsc!Cardinality(Mpsc!Won(p)) = left[p]
      BY <3>1, RunCount
    <3>3. QED
      BY <2>1, <2>2, <3>1, <3>2 DEF Mpsc!SentBy, Given, Filling, StripTypes
  <2>3. CASE sPc[p] \notin Filling
    <3>1. Mpsc!Won(p) = {}
      BY <2>1, <2>3, StripWon
    <3>2. Mpsc!Cardinality(0 .. 0 + 0 - 1) = 0 /\ 0 .. 0 + 0 - 1 = {}
      BY RunCount
    <3>3. Mpsc!Cardinality(Mpsc!Won(p)) = 0
      BY <3>1, <3>2
    <3>4. sSent[p] \in Nat
      BY <2>1, StripWon
    <3>5. QED
      BY <2>3, <3>3, <3>4 DEF Mpsc!SentBy, Given, Filling
  <2>4. QED
    BY <2>2, <2>3
<1>2. QED
  BY <1>1 DEF StripSent, Given

\* The entry of an index that a producer has won.
LEMMA EntryWon ==
  ASSUME StripInv, NEW p \in Producers, NEW i, i \in Mpsc!Won(p)
  PROVE  Mpsc!Entry(i) = [item |-> <<p, NumberAt(p, i)>>, filled |-> FALSE]
<1>1. \A q \in Producers : i \in Mpsc!Won(q) => q = p
  BY DEF StripInv, ClaimedOnce
<1>2. (CHOOSE q \in Producers : i \in Mpsc!Won(q)) = p
  BY <1>1
<1>3. Mpsc!SentBy(p) = Given[p]
  BY SentIsGiven DEF StripSent
<1>4. p \in Mpsc!Procs /\ sPc[p] \in Filling /\ i \in Nat /\ sPos[p] \in Nat /\ left[p] \in Nat /\ sSent[p] \in Nat
  BY StripWon DEF StripInv
<1>5. Given[p] \in Int
  BY <1>4 DEF Given
<1>6. \E q \in Producers : i \in Mpsc!Won(q)
  OBVIOUS
<1>7. Mpsc!Entry(i) = [item |-> <<p, Mpsc!SentBy(p) - (sPos[p] + left[p] - 1 - i)>>, filled |-> FALSE]
  BY <1>2, <1>6 DEF Mpsc!Entry
<1>8. QED
  BY <1>7, <1>3 DEF NumberAt

\* The entry of an index that no producer has to fill.
LEMMA EntryFilled ==
  ASSUME NEW i, \A p \in Producers : i \notin Mpsc!Won(p)
  PROVE  Mpsc!Entry(i) = [item |-> sData[Mpsc!Slot(i)], filled |-> TRUE]
BY DEF Mpsc!Entry

\* What the entries are, as a formula.
EntriesRead ==
  /\ \A p \in Producers : \A i : i \in Mpsc!Won(p) =>
       Mpsc!Entry(i) = [item |-> <<p, NumberAt(p, i)>>, filled |-> FALSE]
  /\ \A i : (\A p \in Producers : i \notin Mpsc!Won(p)) =>
       Mpsc!Entry(i) = [item |-> sData[Mpsc!Slot(i)], filled |-> TRUE]
  /\ StripSent = Given

\* The invariant tells the entries apart.
LEMMA EntriesReadHere == StripInv => EntriesRead
BY EntryWon, EntryFilled, SentIsGiven DEF EntriesRead
\* The same, after a step.
LEMMA EntriesReadThen == StripInv' => EntriesRead'
BY EntriesReadHere, PTL

\* The entries stay when the ends of the queue, the indices won with their numbers, and
\* the objects at the other indices stay.
LEMMA StripQueueStays ==
  ASSUME StripInv, StripInv', sTail' = sTail, Mpsc!Front' = Mpsc!Front,
         \A q \in Producers : Mpsc!Won(q)' = Mpsc!Won(q),
         \A q \in Producers : \A i \in Mpsc!Won(q) : NumberAt(q, i)' = NumberAt(q, i),
         \A i \in Nat : /\ Mpsc!Front <= i /\ i < sTail
                        /\ \A q \in Producers : i \notin Mpsc!Won(q)
                        => sData'[Mpsc!Slot(i)] = sData[Mpsc!Slot(i)]
  PROVE  StripQueue' = StripQueue
<1>1. EntriesRead /\ EntriesRead'
  BY EntriesReadHere, EntriesReadThen
<1>2. Mpsc!Front \in Nat /\ sTail \in Nat
  BY ConsumerPops DEF StripInv, StripTypes, Mpsc!Front
<1>3. ASSUME NEW i \in Nat, Mpsc!Front <= i, i < sTail PROVE Mpsc!Entry(i)' = Mpsc!Entry(i)
  <2>1. CASE \E q \in Producers : i \in Mpsc!Won(q)
    <3>1. PICK q \in Producers : i \in Mpsc!Won(q)
      BY <2>1
    <3>2. i \in Mpsc!Won(q)' /\ NumberAt(q, i)' = NumberAt(q, i)
      BY <3>1
    <3>3. Mpsc!Entry(i) = [item |-> <<q, NumberAt(q, i)>>, filled |-> FALSE]
      BY <1>1, <3>1 DEF EntriesRead
    <3>4. Mpsc!Entry(i)' = [item |-> <<q, NumberAt(q, i)'>>, filled |-> FALSE]
      BY <1>1, <3>2 DEF EntriesRead
    <3>5. QED
      BY <3>2, <3>3, <3>4
  <2>2. CASE \A q \in Producers : i \notin Mpsc!Won(q)
    <3>1. \A q \in Producers : i \notin Mpsc!Won(q)'
      BY <2>2
    <3>2. Mpsc!Entry(i) = [item |-> sData[Mpsc!Slot(i)], filled |-> TRUE]
      BY <1>1, <2>2 DEF EntriesRead
    <3>3. Mpsc!Entry(i)' = [item |-> sData'[Mpsc!Slot(i)], filled |-> TRUE]
      BY <1>1, <3>1 DEF EntriesRead, Mpsc!Slot
    <3>4. sData'[Mpsc!Slot(i)] = sData[Mpsc!Slot(i)]
      BY <1>3, <2>2
    <3>5. QED
      BY <3>2, <3>3, <3>4
  <2>3. QED
    BY <2>1, <2>2
<1>4. ASSUME NEW k, k \in 1 .. (sTail - Mpsc!Front)
      PROVE  Mpsc!Entry(Mpsc!Front + k - 1)' = Mpsc!Entry(Mpsc!Front + k - 1)
  <2>1. PICK i : i = Mpsc!Front + k - 1
    OBVIOUS
  <2>2. i \in Nat /\ Mpsc!Front <= i /\ i < sTail
    BY <2>1, <1>2, <1>4
  <2>3. Mpsc!Entry(i)' = Mpsc!Entry(i)
    BY <2>2, <1>3
  <2>4. Mpsc!Front' + k - 1 = i
    BY <2>1
  <2>5. QED
    BY <2>1, <2>3, <2>4
<1>5. QED
  BY <1>4 DEF StripQueue

\* A step that leaves entries, hand and numbers as they are stutters in FifoQueue.
LEMMA StripStutters ==
  ASSUME StripQueue' = StripQueue, StripHand' = StripHand, StripSent' = StripSent
  PROVE  [Mpsc!Abstract!Next]_Mpsc!Abstract!vars
BY DEF StripQueue, StripHand, StripSent, Mpsc!Abstract!vars

\* A step that appends n unfilled entries of p, within the capacity, is FifoQueue's Reserve(p, n).
LEMMA StripReserves ==
  ASSUME NEW p \in Producers, NEW n \in 1 .. Capacity, Len(StripQueue) + n <= Capacity, StripHand' = StripHand,
         StripQueue' = StripQueue \o [k \in 1 .. n |-> [item |-> <<p, StripSent[p] + k>>, filled |-> FALSE]],
         StripSent' = [StripSent EXCEPT ![p] = @ + n]
  PROVE  Mpsc!Abstract!Next
<1>1. Mpsc!Abstract!Reserve(p, n)
  BY DEF StripQueue, StripHand, StripSent, Mpsc!Abstract!Reserve
<1>2. QED
  BY <1>1 DEF Mpsc!Abstract!Next

\* A step that fills an entry is its Fill.
LEMMA StripFills ==
  ASSUME NEW i, i \in 1 .. Len(StripQueue), ~StripQueue[i].filled, StripHand' = StripHand, StripSent' = StripSent,
         StripQueue' = [StripQueue EXCEPT ![i].filled = TRUE]
  PROVE  Mpsc!Abstract!Next
<1>1. Mpsc!Abstract!Fill(i) /\ i \in 1 .. Len(StripQueue)
  BY DEF StripQueue, StripHand, StripSent, Mpsc!Abstract!Fill
<1>2. QED
  BY <1>1 DEF Mpsc!Abstract!Next, StripQueue

\* A step that moves the first entry, filled, into the consumer's empty hand is its Take.
LEMMA StripTakes ==
  ASSUME 1 \in 1 .. Len(StripQueue), StripQueue[1].filled, StripHand[Consumer] = <<>>, StripSent' = StripSent,
         StripHand' = [StripHand EXCEPT ![Consumer] = [i \in 1 .. 1 |-> StripQueue[i].item]],
         StripQueue' = SubSeq(StripQueue, 1 + 1, Len(StripQueue))
  PROVE  Mpsc!Abstract!Next
<1>1. \A i \in 1 .. 1 : StripQueue[i].filled
  OBVIOUS
<1>2. Mpsc!Abstract!Take(Consumer, 1)
  BY <1>1 DEF StripQueue, StripHand, StripSent, Mpsc!Abstract!Take
<1>3. QED
  BY <1>2 DEF Mpsc!Abstract!Next, StripQueue

\* A step that empties the hand of its item is its Deliver.
LEMMA StripDelivers ==
  ASSUME StripHand[Consumer] # <<>>, StripQueue' = StripQueue, StripSent' = StripSent,
         StripHand' = [StripHand EXCEPT ![Consumer] = Tail(@)]
  PROVE  Mpsc!Abstract!Next
<1>1. Mpsc!Abstract!Deliver(Consumer)
  BY DEF StripQueue, StripHand, StripSent, Mpsc!Abstract!Deliver
<1>2. QED
  BY <1>1 DEF Mpsc!Abstract!Next

\* push, pushBulk: a producer's step that wins nothing and has won nothing.
LEMMA QuietMaps ==
  ASSUME StripInv, StripInv', NEW p \in Producers, UNCHANGED <<sHead, sTail, written, sData, sSent>>, StripStay(p),
         sPc[p] \notin Filling, sPc'[p] \notin Filling
  PROVE  StripQueue' = StripQueue /\ StripHand' = StripHand /\ StripSent' = StripSent
<1>1. p # Consumer /\ Consumer \in Mpsc!Procs /\ p \in Mpsc!Procs
  BY ConsumerPops DEF Mpsc!Procs
<1>2. sPc'[Consumer] = sPc[Consumer] /\ sPos'[Consumer] = sPos[Consumer]
  BY <1>1 DEF StripStay
<1>3. StripHand' = StripHand /\ Mpsc!Front' = Mpsc!Front
  BY <1>2 DEF StripHand, Mpsc!Front, Mpsc!Slot
<1>4. sHead \in Nat /\ sTail \in Nat
  BY DEF StripInv, StripTypes
<1>5. \A q \in Producers : q # p => Mpsc!Won(q)' = Mpsc!Won(q) /\ Given'[q] = Given[q]
  BY <1>4, StripOthers
<1>6. Mpsc!Won(p)' = {} /\ Mpsc!Won(p) = {} /\ Given'[p] = Given[p]
  BY DEF Mpsc!Won, Filling, Given
<1>7. Given' = Given
  BY <1>5, <1>6 DEF Given
<1>8. StripSent' = StripSent
  BY <1>7, EntriesReadHere, EntriesReadThen DEF EntriesRead
<1>9. \A q \in Producers : \A i \in Mpsc!Won(q) : NumberAt(q, i)' = NumberAt(q, i)
  <2>1. ASSUME NEW q \in Producers, NEW i, i \in Mpsc!Won(q) PROVE NumberAt(q, i)' = NumberAt(q, i)
    <3>1. q # p /\ q \in Mpsc!Procs
      BY <1>6, <2>1 DEF Mpsc!Procs
    <3>2. sPos'[q] = sPos[q] /\ left'[q] = left[q] /\ Given'[q] = Given[q]
      BY <3>1, <1>5 DEF StripStay
    <3>3. QED
      BY <3>2 DEF NumberAt
  <2>2. QED
    BY <2>1
<1>10. \A q \in Producers : Mpsc!Won(q)' = Mpsc!Won(q)
  BY <1>5, <1>6
<1>11. StripQueue' = StripQueue
  BY <1>3, <1>9, <1>10, StripQueueStays
<1>12. QED
  BY <1>3, <1>8, <1>11

\* push, pushBulk: a producer moves no other process, nor _head.
LEMMA ProducerStays ==
  ASSUME StripTypes, NEW p \in Producers, (\E n \in 1 .. MaxBulk : Mpsc!PushLoadTail(p, n)) \/ Mpsc!PushStep(p)
  PROVE  StripStay(p) /\ sHead' = sHead /\ sPc'[Consumer] = sPc[Consumer] /\ sPos'[Consumer] = sPos[Consumer]
<1>1. p \in Mpsc!Procs /\ p # Consumer /\ Consumer \in Mpsc!Procs
  BY ConsumerPops DEF Mpsc!Procs
<1>2. /\ sPc \in [Mpsc!Procs -> {"idle"} \cup Deciding \cup Filling \cup Popping]
      /\ sPos \in [Mpsc!Procs -> Nat] /\ left \in [Mpsc!Procs -> 0 .. MaxBulk]
      /\ seen \in [Producers -> Nat] /\ sSent \in [Producers -> 0 .. MpscItems]
  BY DEF StripTypes
<1>5. \E a : sPc' = [sPc EXCEPT ![p] = a] \/ sPc' = sPc
  BY DEF Mpsc!PushStep, Mpsc!PushLoadTail, Mpsc!PushLoadHead, Mpsc!PushReloadHead, Mpsc!PushCas, Mpsc!PushConstruct,
         Mpsc!PushPublish, Mpsc!Return, Mpsc!Goto, Mpsc!Compare
<1>6. \E a : sPos' = [sPos EXCEPT ![p] = a] \/ sPos' = sPos
  BY DEF Mpsc!PushStep, Mpsc!PushLoadTail, Mpsc!PushLoadHead, Mpsc!PushReloadHead, Mpsc!PushCas, Mpsc!PushConstruct,
         Mpsc!PushPublish, Mpsc!Return
<1>7. \E a : left' = [left EXCEPT ![p] = a] \/ left' = left
  BY DEF Mpsc!PushStep, Mpsc!PushLoadTail, Mpsc!PushLoadHead, Mpsc!PushReloadHead, Mpsc!PushCas, Mpsc!PushConstruct,
         Mpsc!PushPublish, Mpsc!Return
<1>8. \E a : seen' = [seen EXCEPT ![p] = a] \/ seen' = seen
  BY DEF Mpsc!PushStep, Mpsc!PushLoadTail, Mpsc!PushLoadHead, Mpsc!PushReloadHead, Mpsc!PushCas, Mpsc!PushConstruct,
         Mpsc!PushPublish, Mpsc!ForgetHead
<1>9. \E a : sSent' = [sSent EXCEPT ![p] = a] \/ sSent' = sSent
  BY DEF Mpsc!PushStep, Mpsc!PushLoadTail, Mpsc!PushLoadHead, Mpsc!PushReloadHead, Mpsc!PushCas, Mpsc!PushConstruct,
         Mpsc!PushPublish, Mpsc!shared
<1>10. sHead' = sHead
  BY DEF Mpsc!PushStep, Mpsc!PushLoadTail, Mpsc!PushLoadHead, Mpsc!PushReloadHead, Mpsc!PushCas, Mpsc!PushConstruct,
         Mpsc!PushPublish, Mpsc!shared
<1>11. \A q \in Mpsc!Procs : q # p => sPc'[q] = sPc[q]
  BY <1>1, <1>2, <1>5
<1>12. \A q \in Mpsc!Procs : q # p => sPos'[q] = sPos[q]
  BY <1>1, <1>2, <1>6
<1>13. \A q \in Mpsc!Procs : q # p => left'[q] = left[q]
  BY <1>1, <1>2, <1>7
<1>14. \A q \in Producers : q # p => seen'[q] = seen[q]
  BY <1>1, <1>2, <1>8
<1>15. \A q \in Producers : q # p => sSent'[q] = sSent[q]
  BY <1>1, <1>2, <1>9
<1>16. QED
  BY <1>1, <1>10, <1>11, <1>12, <1>13, <1>14, <1>15 DEF StripStay

\* push, pushBulk: the steps that claim nothing change nothing of FifoQueue.
LEMMA PushMoveMaps ==
  ASSUME StripInv, StripInv', NEW p \in Producers,
         \/ \E n \in 1 .. MaxBulk : Mpsc!PushLoadTail(p, n)
         \/ Mpsc!PushLoadHead(p) \/ Mpsc!PushReloadHead(p)
         \/ Mpsc!PushCas(p) /\ sTail # sPos[p]
  PROVE  StripQueue' = StripQueue /\ StripHand' = StripHand /\ StripSent' = StripSent
<1>1. (\E n \in 1 .. MaxBulk : Mpsc!PushLoadTail(p, n)) \/ Mpsc!PushStep(p)
  BY DEF Mpsc!PushStep
<1>2. StripTypes /\ p \in Mpsc!Procs
  BY DEF StripInv, Mpsc!Procs
<1>3. StripStay(p)
  BY <1>1, <1>2, ProducerStays
<1>4. UNCHANGED <<sHead, sTail, written, sData, sSent>> /\ sPc[p] \notin Filling
  BY DEF Mpsc!PushLoadTail, Mpsc!PushLoadHead, Mpsc!PushReloadHead, Mpsc!PushCas, Mpsc!shared, Filling
<1>5. \E l \in {"loadHead", "reloadHead", "cas", "idle"} : sPc' = [sPc EXCEPT ![p] = l]
  BY DEF Mpsc!PushLoadTail, Mpsc!PushLoadHead, Mpsc!PushReloadHead, Mpsc!PushCas, Mpsc!Return, Mpsc!Goto, Mpsc!Compare
<1>6. sPc'[p] \notin Filling
  BY <1>2, <1>5 DEF Filling, StripTypes
<1>7. QED
  BY <1>3, <1>4, <1>6, QuietMaps

\* The indices of the queue, and who has won some of them.
LEMMA FrontFacts ==
  ASSUME StripInv
  PROVE  /\ Mpsc!Front \in Nat /\ sTail \in Nat /\ Front <= Mpsc!Front /\ Mpsc!Front <= sTail
         /\ sTail <= sHead + Capacity /\ sHead <= Mpsc!Front /\ Capacity \in Nat
         /\ \A q \in Producers : \A i \in Mpsc!Won(q) : i \in Nat /\ Mpsc!Front <= i /\ i < sTail
<1>1. /\ sHead \in Nat /\ sTail \in Nat /\ Front \in Nat /\ sHead <= Front /\ Front <= sTail
      /\ sTail <= sHead + Capacity /\ Capacity \in Nat
  BY StripFacts
<1>2. Mpsc!Front = IF sPc[Consumer] \in {"moveOut", "release"} THEN Front + 1 ELSE Front
  BY ConsumerPops, <1>1 DEF Mpsc!Front, Front, StripInv, StripTypes
<1>3. sPc[Consumer] \in {"moveOut", "release"} => Front < sTail /\ written[Mpsc!Slot(Front)] = TRUE
  BY DEF StripInv, Emptying
<1>4. ASSUME NEW q \in Producers, NEW i, i \in Mpsc!Won(q) PROVE i \in Nat /\ Mpsc!Front <= i /\ i < sTail
  <2>1. i \in Nat /\ Front <= i /\ i < sTail /\ written[Mpsc!Slot(i)] = FALSE
    BY <1>4, StripFacts
  <2>2. sPc[Consumer] \in {"moveOut", "release"} => i # Front
    BY <2>1, <1>3
  <2>3. QED
    BY <1>1, <1>2, <2>1, <2>2
<1>5. QED
  BY <1>1, <1>2, <1>3, <1>4

\* A concatenation, element by element.
LEMMA ConcatIs ==
  ASSUME NEW S, NEW p \in Seq(S), NEW r \in Seq(S)
  PROVE  p \o r = [k \in 1 .. Len(p) + Len(r) |-> IF k <= Len(p) THEN p[k] ELSE r[k - Len(p)]]
<1>1. p \o r \in Seq(S) /\ Len(p \o r) = Len(p) + Len(r)
  OBVIOUS
<1>2. p \o r = [k \in 1 .. Len(p) + Len(r) |-> (p \o r)[k]]
  <2>1. PICK c : c = p \o r
    OBVIOUS
  <2>2. c \in Seq(S) /\ Len(c) = Len(p) + Len(r)
    BY <1>1, <2>1
  <2>3. c = [k \in 1 .. Len(c) |-> c[k]]
    BY <2>2
  <2>4. QED
    BY <2>1, <2>2, <2>3
<1>3. \A k \in 1 .. Len(p) + Len(r) : (p \o r)[k] = IF k <= Len(p) THEN p[k] ELSE r[k - Len(p)]
  OBVIOUS
<1>4. QED
  BY <1>2, <1>3

\* pushBulk: the CAS that wins n indices reserves n places.
LEMMA PushWinMaps ==
  ASSUME StripInv, StripInv', NEW p \in Producers, Mpsc!PushCas(p), sTail = sPos[p]
  PROVE  Mpsc!Abstract!Next
<1>1. /\ StripTypes /\ p \in Mpsc!Procs /\ sPc[p] = "cas" /\ p # Consumer
      /\ sSent[p] \in Nat /\ MaxBulk \in Nat
  BY ConsumerPops, LibraryAssumption DEF StripInv, StripTypes, Mpsc!Procs, Mpsc!PushCas
<1>2. PICK n : n = Mpsc!Lesser(left[p], Mpsc!Available(sPos[p], seen[p]))
  OBVIOUS
<1>3. /\ sTail' = sTail + n /\ UNCHANGED <<sHead, written, sData, sSent>>
      /\ left' = [left EXCEPT ![p] = n] /\ sPos' = sPos /\ sPc' = [sPc EXCEPT ![p] = "construct"]
  BY <1>2 DEF Mpsc!PushCas, Mpsc!Goto, Mpsc!ForgetHead
<1>4. sPc'[p] = "construct" /\ left'[p] = n /\ sPos'[p] = sTail
  BY <1>1, <1>3 DEF StripTypes
<1>5. StripStay(p) /\ sPc'[Consumer] = sPc[Consumer] /\ sPos'[Consumer] = sPos[Consumer]
  BY <1>1, ProducerStays DEF Mpsc!PushStep
<1>6. /\ Mpsc!Front \in Nat /\ sTail \in Nat /\ Mpsc!Front <= sTail /\ sHead <= Mpsc!Front /\ Capacity \in Nat /\ sHead \in Nat
      /\ \A q \in Producers : \A i \in Mpsc!Won(q) : i \in Nat /\ Mpsc!Front <= i /\ i < sTail
  BY FrontFacts DEF StripInv, StripTypes
<1>7. n \in Nat /\ n > 0 /\ sTail + n <= sHead + Capacity
  <2>1. left'[p] \in Nat /\ left'[p] > 0
    <3>1. left'[p] \in 0 .. MaxBulk
      BY <1>1 DEF StripInv, StripTypes, Mpsc!Procs
    <3>2. left'[p] > 0
      BY <1>4 DEF StripInv, Pushing
    <3>3. QED
      BY <1>1, <3>1, <3>2
  <2>2. sTail' <= sHead' + Capacity
    BY DEF StripInv, StripTypes
  <2>3. QED
    BY <1>3, <1>4, <2>1, <2>2
<1>8. n \in 1 .. Capacity /\ (sTail - Mpsc!Front) + n <= Capacity
  BY <1>6, <1>7
<1>9. StripHand' = StripHand /\ Mpsc!Front' = Mpsc!Front
  BY <1>3, <1>5 DEF StripHand, Mpsc!Front, Mpsc!Slot
<1>10. \A q \in Producers : q # p => Mpsc!Won(q)' = Mpsc!Won(q) /\ Given'[q] = Given[q]
  <2>1. sHead <= sHead' /\ sTail <= sTail' /\ sHead' \in Nat /\ sTail' \in Nat
    BY <1>3, <1>6, <1>7
  <2>2. QED
    BY <1>5, <2>1, StripOthers
<1>11. Mpsc!Won(p) = {} /\ Mpsc!Won(p)' = sTail .. sTail + n - 1
  BY <1>1, <1>4 DEF Mpsc!Won
<1>12. Given[p] = sSent[p] /\ Given'[p] = sSent[p] + n
  BY <1>1, <1>3, <1>4 DEF Given
<1>13. StripSent = Given /\ StripSent' = Given' /\ EntriesRead /\ EntriesRead'
  BY EntriesReadHere, EntriesReadThen DEF EntriesRead
<1>14. StripSent' = [StripSent EXCEPT ![p] = @ + n]
  <2>1. Given' = [Given EXCEPT ![p] = Given[p] + n]
    BY <1>10, <1>12 DEF Given
  <2>2. QED
    BY <1>13, <2>1
<1>15. ASSUME NEW i \in Nat, Mpsc!Front <= i, i < sTail PROVE Mpsc!Entry(i)' = Mpsc!Entry(i)
  <2>1. i \notin Mpsc!Won(p)'
    BY <1>6, <1>7, <1>11, <1>15
  <2>2. CASE \E q \in Producers : i \in Mpsc!Won(q)
    <3>1. PICK q \in Producers : i \in Mpsc!Won(q)
      BY <2>2
    <3>2. q # p /\ q \in Mpsc!Procs
      BY <1>11, <3>1 DEF Mpsc!Procs
    <3>3. i \in Mpsc!Won(q)' /\ NumberAt(q, i)' = NumberAt(q, i)
      BY <1>5, <1>10, <3>1, <3>2 DEF NumberAt, StripStay
    <3>4. Mpsc!Entry(i) = [item |-> <<q, NumberAt(q, i)>>, filled |-> FALSE]
      BY <1>13, <3>1 DEF EntriesRead
    <3>5. Mpsc!Entry(i)' = [item |-> <<q, NumberAt(q, i)'>>, filled |-> FALSE]
      BY <1>13, <3>3 DEF EntriesRead
    <3>6. QED
      BY <3>3, <3>4, <3>5
  <2>3. CASE \A q \in Producers : i \notin Mpsc!Won(q)
    <3>1. \A q \in Producers : i \notin Mpsc!Won(q)'
      BY <1>10, <2>1, <2>3
    <3>2. Mpsc!Entry(i) = [item |-> sData[Mpsc!Slot(i)], filled |-> TRUE]
      BY <1>13, <2>3 DEF EntriesRead
    <3>3. Mpsc!Entry(i)' = [item |-> sData'[Mpsc!Slot(i)], filled |-> TRUE]
      BY <1>13, <3>1 DEF EntriesRead, Mpsc!Slot
    <3>4. QED
      BY <1>3, <3>2, <3>3
  <2>4. QED
    BY <2>2, <2>3
<1>16. ASSUME NEW i \in Nat, sTail <= i, i < sTail + n
       PROVE  Mpsc!Entry(i)' = [item |-> <<p, sSent[p] + (i - sTail + 1)>>, filled |-> FALSE]
  <2>1. i \in Mpsc!Won(p)'
    BY <1>6, <1>7, <1>11, <1>16
  <2>2. Mpsc!Entry(i)' = [item |-> <<p, NumberAt(p, i)'>>, filled |-> FALSE]
    BY <1>13, <2>1 DEF EntriesRead
  <2>3. NumberAt(p, i)' = (sSent[p] + n) - (sTail + n - 1 - i)
    BY <1>4, <1>12 DEF NumberAt
  <2>4. NumberAt(p, i)' = sSent[p] + (i - sTail + 1)
    BY <1>1, <1>6, <1>7, <2>3
  <2>5. QED
    BY <2>2, <2>4
<1>17. PICK m \in Nat : m = sTail - Mpsc!Front
  BY <1>6
<1>18. PICK old : old = [k \in 1 .. m |-> Mpsc!Entry(Mpsc!Front + k - 1)]
  OBVIOUS
<1>19. PICK more : more = [k \in 1 .. n |-> [item |-> <<p, sSent[p] + k>>, filled |-> FALSE]]
  OBVIOUS
<1>20. PICK new : new = [k \in 1 .. (m + n) |-> Mpsc!Entry(Mpsc!Front + k - 1)']
  OBVIOUS
<1>21. StripQueue = old /\ StripQueue' = new
  <2>1. StripQueue = old
    BY <1>17, <1>18 DEF StripQueue
  <2>2. sTail' - Mpsc!Front' = m + n
    BY <1>3, <1>6, <1>7, <1>9, <1>17
  <2>3. StripQueue' = new
    BY <1>20, <2>2 DEF StripQueue
  <2>4. QED
    BY <2>1, <2>3
<1>22. PICK S : S = {Mpsc!Entry(Mpsc!Front + k - 1) : k \in 1 .. m}
                    \cup {[item |-> <<p, sSent[p] + k>>, filled |-> FALSE] : k \in 1 .. n}
  OBVIOUS
<1>23. old \in [1 .. m -> S] /\ more \in [1 .. n -> S]
  BY <1>18, <1>19, <1>22
<1>24. old \o more = [k \in 1 .. (m + n) |-> IF k <= m THEN old[k] ELSE more[k - m]]
  <2>1. old \in Seq(S) /\ more \in Seq(S)
    BY <1>7, <1>23
  <2>2. Len(old) = m /\ Len(more) = n
    BY <1>7, <1>18, <1>19
  <2>3. old \o more = [k \in 1 .. Len(old) + Len(more) |-> IF k <= Len(old) THEN old[k] ELSE more[k - Len(old)]]
    BY <2>1, ConcatIs, Zenon
  <2>4. QED
    BY <2>2, <2>3
<1>25. ASSUME NEW k, k \in 1 .. (m + n) PROVE new[k] = IF k <= m THEN old[k] ELSE more[k - m]
  <2>1. PICK i : i = Mpsc!Front + k - 1
    OBVIOUS
  <2>2. k \in Nat /\ k > 0 /\ k <= m + n
    BY <1>7, <1>25
  <2>3. i \in Nat /\ Mpsc!Front <= i /\ i < sTail + n /\ (k <= m <=> i < sTail) /\ i - sTail + 1 = k - m
    BY <1>6, <1>7, <1>17, <2>1, <2>2
  <2>4. new[k] = Mpsc!Entry(i)'
    <3>1. new[k] = Mpsc!Entry(Mpsc!Front + k - 1)'
      BY <1>20, <1>25
    <3>2. Mpsc!Front' + k - 1 = i
      BY <1>9, <2>1
    <3>3. QED
      BY <3>1, <3>2
  <2>5. CASE k <= m
    <3>1. Mpsc!Entry(i)' = Mpsc!Entry(i)
      BY <1>15, <2>3, <2>5
    <3>2. k \in 1 .. m
      BY <2>2, <2>5, <1>17
    <3>3. old[k] = Mpsc!Entry(i)
      BY <1>18, <2>1, <3>2
    <3>4. QED
      BY <2>4, <2>5, <3>1, <3>3
  <2>6. CASE ~(k <= m)
    <3>1. sTail <= i
      BY <1>6, <2>3, <2>6
    <3>2. Mpsc!Entry(i)' = [item |-> <<p, sSent[p] + (i - sTail + 1)>>, filled |-> FALSE]
      BY <1>16, <2>3, <3>1
    <3>3. k - m \in 1 .. n
      BY <1>7, <2>2, <2>6, <1>17
    <3>4. more[k - m] = [item |-> <<p, sSent[p] + (k - m)>>, filled |-> FALSE]
      BY <1>19, <3>3
    <3>5. QED
      BY <2>3, <2>4, <2>6, <3>2, <3>4
  <2>7. QED
    BY <2>5, <2>6
<1>26. new = old \o more
  BY <1>20, <1>24, <1>25
<1>27. Len(StripQueue) + n <= Capacity
  BY <1>8, <1>17, <1>18, <1>21
<1>28. StripQueue' = StripQueue \o [k \in 1 .. n |-> [item |-> <<p, StripSent[p] + k>>, filled |-> FALSE]]
  BY <1>12, <1>13, <1>19, <1>21, <1>26
<1>29. QED
  BY <1>8, <1>9, <1>14, <1>27, <1>28, StripReserves

\* pushBulk: constructing an item changes nothing of FifoQueue.
LEMMA PushConstructMaps ==
  ASSUME StripInv, StripInv', NEW p \in Producers, Mpsc!PushConstruct(p)
  PROVE  StripQueue' = StripQueue /\ StripHand' = StripHand /\ StripSent' = StripSent
<1>1. /\ StripTypes /\ p \in Mpsc!Procs /\ sPc[p] = "construct" /\ p # Consumer /\ left[p] > 0
      /\ sPos[p] \in Nat /\ left[p] \in Nat /\ sSent[p] \in Nat
  <2>1. StripTypes /\ p \in Mpsc!Procs /\ sPc[p] = "construct" /\ p # Consumer /\ Pushing(p)
    BY ConsumerPops DEF StripInv, Mpsc!Procs, Mpsc!PushConstruct
  <2>2. QED
    BY <2>1, StripWon DEF Pushing
<1>2. PICK s : s = Mpsc!Slot(sPos[p])
  OBVIOUS
<1>3. /\ UNCHANGED <<sHead, sTail, written, sPos, left>> /\ sPc' = [sPc EXCEPT ![p] = "publish"]
      /\ sSent' = [sSent EXCEPT ![p] = sSent[p] + 1] /\ \E item : sData' = [sData EXCEPT ![s] = item]
  BY <1>1, <1>2 DEF Mpsc!PushConstruct, Mpsc!Goto
<1>4. sPc'[p] = "publish" /\ sSent'[p] = sSent[p] + 1 /\ sPos'[p] = sPos[p] /\ left'[p] = left[p]
  BY <1>1, <1>3 DEF StripTypes
<1>5. StripStay(p) /\ sPc'[Consumer] = sPc[Consumer] /\ sPos'[Consumer] = sPos[Consumer]
  BY <1>1, ProducerStays DEF Mpsc!PushStep
<1>6. written[s] = FALSE /\ sPos[p] \in Mpsc!Won(p)
  <2>1. sPos[p] \in Mpsc!Won(p)
    BY <1>1 DEF Mpsc!Won
  <2>2. QED
    BY <1>2, <2>1, StripFacts
<1>7. \A r \in Mpsc!Slots : written[r] = TRUE => sData'[r] = sData[r]
  <2>1. sData \in [Mpsc!Slots -> (Producers \X (1 .. MpscItems)) \cup {Nothing}]
    BY <1>1 DEF StripTypes
  <2>2. \A r \in Mpsc!Slots : r # s => sData'[r] = sData[r]
    BY <1>3, <2>1
  <2>3. QED
    BY <1>6, <2>2
<1>8. Mpsc!Front' = Mpsc!Front
  BY <1>3, <1>5 DEF Mpsc!Front
<1>9. StripHand' = StripHand
  <2>1. ASSUME sPc[Consumer] = "moveOut" PROVE sData'[Mpsc!Slot(sPos[Consumer])] = sData[Mpsc!Slot(sPos[Consumer])]
    <3>1. written[Mpsc!Slot(Front)] = TRUE /\ Front = sPos[Consumer]
      BY <2>1 DEF StripInv, Emptying, Front
    <3>2. Front \in Nat
      BY StripFacts
    <3>3. Mpsc!Slot(Front) \in Mpsc!Slots
      BY <3>2, StripSlots
    <3>4. QED
      BY <1>7, <3>1, <3>3
  <2>2. QED
    BY <1>5, <2>1 DEF StripHand, Mpsc!Slot
<1>10. \A q \in Producers : q # p => Mpsc!Won(q)' = Mpsc!Won(q) /\ Given'[q] = Given[q]
  <2>1. sHead <= sHead' /\ sTail <= sTail' /\ sHead' \in Nat /\ sTail' \in Nat
    BY <1>1, <1>3 DEF StripTypes
  <2>2. QED
    BY <1>5, <2>1, StripOthers
<1>11. Mpsc!Won(p)' = Mpsc!Won(p)
  BY <1>1, <1>4 DEF Mpsc!Won
<1>12. Given'[p] = Given[p]
  <2>1. Given[p] = sSent[p] + left[p] /\ Given'[p] = sSent'[p] + left'[p] - 1
    BY <1>1, <1>4 DEF Given
  <2>2. QED
    BY <1>1, <1>4, <2>1
<1>13. Given' = Given
  BY <1>10, <1>12 DEF Given
<1>14. StripSent' = StripSent
  BY <1>13, EntriesReadHere, EntriesReadThen DEF EntriesRead
<1>15. \A q \in Producers : Mpsc!Won(q)' = Mpsc!Won(q)
  BY <1>10, <1>11
<1>16. \A q \in Producers : \A i \in Mpsc!Won(q) : NumberAt(q, i)' = NumberAt(q, i)
  <2>1. ASSUME NEW q \in Producers, NEW i, i \in Mpsc!Won(q) PROVE NumberAt(q, i)' = NumberAt(q, i)
    <3>1. q \in Mpsc!Procs
      BY DEF Mpsc!Procs
    <3>2. sPos'[q] = sPos[q] /\ left'[q] = left[q] /\ Given'[q] = Given[q]
      BY <1>3, <1>13
    <3>3. QED
      BY <3>2 DEF NumberAt
  <2>2. QED
    BY <2>1
<1>17. \A i \in Nat : /\ Mpsc!Front <= i /\ i < sTail
                      /\ \A q \in Producers : i \notin Mpsc!Won(q)
                      => sData'[Mpsc!Slot(i)] = sData[Mpsc!Slot(i)]
  <2>1. ASSUME NEW i \in Nat, Mpsc!Front <= i, i < sTail, \A q \in Producers : i \notin Mpsc!Won(q)
        PROVE  sData'[Mpsc!Slot(i)] = sData[Mpsc!Slot(i)]
    <3>1. Front <= i
      BY <2>1, FrontFacts, StripFacts
    <3>2. written[Mpsc!Slot(i)] = TRUE
      BY <2>1, <3>1 DEF StripInv, Published
    <3>3. QED
      BY <1>7, <3>2, StripSlots
  <2>2. QED
    BY <2>1
<1>18. StripQueue' = StripQueue
  BY <1>3, <1>8, <1>15, <1>16, <1>17, StripQueueStays
<1>19. QED
  BY <1>9, <1>14, <1>18

\* pushBulk: setting is_written fills the entry at the index.
LEMMA PushPublishMaps ==
  ASSUME StripInv, StripInv', Carried, NEW p \in Producers, Mpsc!PushPublish(p)
  PROVE  Mpsc!Abstract!Next
<1>1. /\ StripTypes /\ p \in Mpsc!Procs /\ sPc[p] = "publish" /\ p # Consumer /\ left[p] > 0
      /\ sPos[p] \in Nat /\ left[p] \in Nat /\ sSent[p] \in Nat
  <2>1. StripTypes /\ p \in Mpsc!Procs /\ sPc[p] = "publish" /\ p # Consumer /\ Pushing(p)
    BY ConsumerPops DEF StripInv, Mpsc!Procs, Mpsc!PushPublish
  <2>2. QED
    BY <2>1, StripWon DEF Pushing
<1>2. PICK j \in Nat : j = sPos[p]
  BY <1>1
<1>3. UNCHANGED <<sHead, sTail, sData, sSent>>
  BY DEF Mpsc!PushPublish
<1>4. StripStay(p) /\ sPc'[Consumer] = sPc[Consumer] /\ sPos'[Consumer] = sPos[Consumer]
  BY <1>1, ProducerStays DEF Mpsc!PushStep
<1>5. StripHand' = StripHand /\ Mpsc!Front' = Mpsc!Front
  BY <1>3, <1>4 DEF StripHand, Mpsc!Front, Mpsc!Slot
<1>6. \/ left[p] = 1 /\ sPc'[p] = "idle" /\ left'[p] = 0
      \/ left[p] # 1 /\ sPc'[p] = "construct" /\ left'[p] = left[p] - 1 /\ sPos'[p] = j + 1
  BY <1>1, <1>2 DEF Mpsc!PushPublish, Mpsc!Return, Mpsc!Goto, StripTypes
<1>7. \A q \in Producers : q # p => Mpsc!Won(q)' = Mpsc!Won(q) /\ Given'[q] = Given[q]
  <2>1. sHead <= sHead' /\ sTail <= sTail' /\ sHead' \in Nat /\ sTail' \in Nat
    BY <1>1, <1>3 DEF StripTypes
  <2>2. QED
    BY <1>4, <2>1, StripOthers
<1>8. /\ Mpsc!Won(p) = j .. j + left[p] - 1 /\ \A i : i \in Mpsc!Won(p)' <=> i \in Mpsc!Won(p) /\ i # j
      /\ \A i \in Mpsc!Won(p) : i # j => NumberAt(p, i)' = NumberAt(p, i)
      /\ NumberAt(p, j) = sSent[p] /\ Given'[p] = Given[p]
  <2>1. Mpsc!Won(p) = j .. j + left[p] - 1
    BY <1>1, <1>2 DEF Mpsc!Won
  <2>2. Given[p] = sSent[p] + left[p] - 1 /\ NumberAt(p, j) = Given[p] - (j + left[p] - 1 - j)
    BY <1>1, <1>2 DEF Given, NumberAt
  <2>3. NumberAt(p, j) = sSent[p]
    BY <1>1, <2>2
  <2>4. CASE left[p] = 1 /\ sPc'[p] = "idle" /\ left'[p] = 0
    <3>1. Mpsc!Won(p)' = {} /\ Given'[p] = sSent[p]
      BY <1>3, <2>4 DEF Mpsc!Won, Given
    <3>2. \A i \in Mpsc!Won(p) : i = j
      BY <2>1, <2>4
    <3>3. Given'[p] = Given[p] /\ j \in Mpsc!Won(p)
      BY <1>1, <2>1, <2>2, <2>4, <3>1
    <3>4. QED
      BY <2>1, <2>3, <3>1, <3>2, <3>3
  <2>5. CASE left[p] # 1 /\ sPc'[p] = "construct" /\ left'[p] = left[p] - 1 /\ sPos'[p] = j + 1
    <3>1. Mpsc!Won(p)' = j + 1 .. (j + 1) + (left[p] - 1) - 1 /\ Given'[p] = sSent[p] + (left[p] - 1)
      BY <1>3, <2>5 DEF Mpsc!Won, Given
    <3>2. \A i : i \in Mpsc!Won(p)' <=> i \in Mpsc!Won(p) /\ i # j
      BY <1>1, <2>1, <3>1
    <3>3. Given'[p] = Given[p]
      BY <1>1, <2>2, <3>1
    <3>4. ASSUME NEW i, i \in Mpsc!Won(p) PROVE NumberAt(p, i)' = NumberAt(p, i)
      <4>1. i \in Nat /\ Given[p] \in Int
        BY <1>1, <2>1, <2>2, <3>4
      <4>2. NumberAt(p, i) = Given[p] - (j + left[p] - 1 - i)
        BY <1>2 DEF NumberAt
      <4>3. NumberAt(p, i)' = Given[p] - ((j + 1) + (left[p] - 1) - 1 - i)
        BY <2>5, <3>3 DEF NumberAt
      <4>4. QED
        BY <1>1, <4>1, <4>2, <4>3
    <3>5. QED
      BY <2>1, <2>3, <3>2, <3>3, <3>4
  <2>6. QED
    BY <1>6, <2>4, <2>5
<1>9. Given' = Given
  BY <1>7, <1>8 DEF Given
<1>10. EntriesRead /\ EntriesRead' /\ StripSent' = StripSent
  BY <1>9, EntriesReadHere, EntriesReadThen DEF EntriesRead
<1>11. j \in Mpsc!Won(p)
  BY <1>1, <1>8
<1>12. /\ Mpsc!Front \in Nat /\ sTail \in Nat /\ Mpsc!Front <= j /\ j < sTail
  BY <1>11, FrontFacts
<1>13. Mpsc!Entry(j) = [item |-> <<p, sSent[p]>>, filled |-> FALSE]
  BY <1>8, <1>10, <1>11 DEF EntriesRead
<1>14. Mpsc!Entry(j)' = [item |-> <<p, sSent[p]>>, filled |-> TRUE]
  <2>1. \A q \in Producers : j \notin Mpsc!Won(q)'
    BY <1>7, <1>8, <1>11 DEF StripInv, ClaimedOnce
  <2>2. Mpsc!Entry(j)' = [item |-> sData'[Mpsc!Slot(j)], filled |-> TRUE]
    BY <1>10, <2>1 DEF EntriesRead, Mpsc!Slot
  <2>3. sData[Mpsc!Slot(j)] = <<p, sSent[p]>>
    BY <1>1, <1>2 DEF Carried
  <2>4. QED
    BY <1>3, <2>2, <2>3
<1>15. ASSUME NEW i \in Nat, i # j PROVE Mpsc!Entry(i)' = Mpsc!Entry(i)
  <2>1. CASE \E q \in Producers : i \in Mpsc!Won(q)
    <3>1. PICK q \in Producers : i \in Mpsc!Won(q)
      BY <2>1
    <3>2. i \in Mpsc!Won(q)' /\ NumberAt(q, i)' = NumberAt(q, i)
      <4>1. CASE q = p
        BY <1>8, <1>15, <3>1, <4>1
      <4>2. CASE q # p
        <5>1. q \in Mpsc!Procs
          BY DEF Mpsc!Procs
        <5>2. QED
          BY <1>4, <1>7, <3>1, <4>2, <5>1 DEF NumberAt, StripStay
      <4>3. QED
        BY <4>1, <4>2
    <3>3. Mpsc!Entry(i) = [item |-> <<q, NumberAt(q, i)>>, filled |-> FALSE]
      BY <1>10, <3>1 DEF EntriesRead
    <3>4. Mpsc!Entry(i)' = [item |-> <<q, NumberAt(q, i)'>>, filled |-> FALSE]
      BY <1>10, <3>2 DEF EntriesRead
    <3>5. QED
      BY <3>2, <3>3, <3>4
  <2>2. CASE \A q \in Producers : i \notin Mpsc!Won(q)
    <3>1. \A q \in Producers : i \notin Mpsc!Won(q)'
      BY <1>7, <1>8, <2>2
    <3>2. Mpsc!Entry(i) = [item |-> sData[Mpsc!Slot(i)], filled |-> TRUE]
      BY <1>10, <2>2 DEF EntriesRead
    <3>3. Mpsc!Entry(i)' = [item |-> sData'[Mpsc!Slot(i)], filled |-> TRUE]
      BY <1>10, <3>1 DEF EntriesRead, Mpsc!Slot
    <3>4. QED
      BY <1>3, <3>2, <3>3
  <2>3. QED
    BY <2>1, <2>2
<1>16. PICK m \in Nat : m = sTail - Mpsc!Front
  BY <1>12
<1>17. PICK old : old = [k \in 1 .. m |-> Mpsc!Entry(Mpsc!Front + k - 1)]
  OBVIOUS
<1>18. PICK new : new = [k \in 1 .. m |-> Mpsc!Entry(Mpsc!Front + k - 1)']
  OBVIOUS
<1>19. StripQueue = old /\ StripQueue' = new
  BY <1>3, <1>5, <1>16, <1>17, <1>18 DEF StripQueue
<1>20. PICK h : h = j - Mpsc!Front + 1
  OBVIOUS
<1>21. h \in 1 .. m /\ Mpsc!Front + h - 1 = j
  BY <1>12, <1>16, <1>20
<1>22. old[h] = [item |-> <<p, sSent[p]>>, filled |-> FALSE] /\ new[h] = [item |-> <<p, sSent[p]>>, filled |-> TRUE]
  <2>1. old[h] = Mpsc!Entry(j)
    BY <1>17, <1>21
  <2>2. new[h] = Mpsc!Entry(Mpsc!Front + h - 1)'
    BY <1>18, <1>21
  <2>3. Mpsc!Front' + h - 1 = j
    BY <1>5, <1>21
  <2>4. new[h] = Mpsc!Entry(j)'
    BY <2>2, <2>3
  <2>5. QED
    BY <1>13, <1>14, <2>1, <2>4
<1>23. ASSUME NEW k, k \in 1 .. m, k # h PROVE new[k] = old[k]
  <2>1. PICK i : i = Mpsc!Front + k - 1
    OBVIOUS
  <2>2. i \in Nat /\ i # j
    BY <1>12, <1>20, <1>23, <2>1
  <2>3. old[k] = Mpsc!Entry(i)
    BY <1>17, <1>23, <2>1
  <2>4. new[k] = Mpsc!Entry(Mpsc!Front + k - 1)'
    BY <1>18, <1>23
  <2>5. Mpsc!Front' + k - 1 = i
    BY <1>5, <2>1
  <2>6. new[k] = Mpsc!Entry(i)'
    BY <2>4, <2>5
  <2>7. QED
    BY <1>15, <2>2, <2>3, <2>6
<1>24. new = [old EXCEPT ![h].filled = TRUE]
  <2>1. [old[h] EXCEPT !.filled = TRUE] = new[h]
    <3>1. ASSUME NEW x, NEW y \in BOOLEAN, NEW z \in BOOLEAN
          PROVE  [[item |-> x, filled |-> y] EXCEPT !.filled = z] = [item |-> x, filled |-> z]
      OBVIOUS
    <3>2. FALSE \in BOOLEAN /\ TRUE \in BOOLEAN
      OBVIOUS
    <3>3. QED
      BY <1>22, <3>1, <3>2, Zenon
  <2>2. new = [old EXCEPT ![h] = new[h]]
    BY <1>17, <1>18, <1>21, <1>23
  <2>3. QED
    BY <2>1, <2>2
<1>25. h \in 1 .. Len(StripQueue) /\ ~StripQueue[h].filled
  <2>1. Len(old) = m
    BY <1>17
  <2>2. QED
    BY <1>19, <1>21, <1>22, <2>1
<1>26. QED
  BY <1>5, <1>10, <1>19, <1>24, <1>25, StripFills

\* pop, popBulk: the consumer moves no producer.
LEMMA ConsumerStays ==
  ASSUME StripInv, StripInv', (\E n \in 1 .. MaxBulk : Mpsc!PopBegin(n)) \/ Mpsc!PopStep
  PROVE  /\ UNCHANGED <<sTail, seen, sSent>> /\ StripStay(Consumer)
         /\ \A q \in Producers : Mpsc!Won(q)' = Mpsc!Won(q)
         /\ \A q \in Producers : \A i \in Mpsc!Won(q) : NumberAt(q, i)' = NumberAt(q, i)
         /\ StripSent' = StripSent
<1>1. Consumer \in Mpsc!Procs /\ Consumer \notin Producers /\ StripTypes
  BY ConsumerPops DEF StripInv
<1>2. /\ sPc \in [Mpsc!Procs -> {"idle"} \cup Deciding \cup Filling \cup Popping]
      /\ sPos \in [Mpsc!Procs -> Nat] /\ left \in [Mpsc!Procs -> 0 .. MaxBulk]
      /\ sHead \in Nat /\ sHead' \in Nat /\ sTail \in Nat
  BY <1>1 DEF StripInv, StripTypes
<1>3. UNCHANGED <<sTail, seen, sSent>>
  BY DEF Mpsc!PopStep, Mpsc!PopBegin, Mpsc!PopCheck, Mpsc!PopMoveOut, Mpsc!PopRelease, Mpsc!PopAdvance, Mpsc!shared
<1>4. \E a : sPc' = [sPc EXCEPT ![Consumer] = a] \/ sPc' = sPc
  BY DEF Mpsc!PopStep, Mpsc!PopBegin, Mpsc!PopCheck, Mpsc!PopMoveOut, Mpsc!PopRelease, Mpsc!PopAdvance,
         Mpsc!Return, Mpsc!Goto
<1>5. \E a : sPos' = [sPos EXCEPT ![Consumer] = a] \/ sPos' = sPos
  BY DEF Mpsc!PopStep, Mpsc!PopBegin, Mpsc!PopCheck, Mpsc!PopMoveOut, Mpsc!PopRelease, Mpsc!PopAdvance, Mpsc!Return
<1>6. \E a : left' = [left EXCEPT ![Consumer] = a] \/ left' = left
  BY DEF Mpsc!PopStep, Mpsc!PopBegin, Mpsc!PopCheck, Mpsc!PopMoveOut, Mpsc!PopRelease, Mpsc!PopAdvance, Mpsc!Return
<1>7. \A q \in Mpsc!Procs : q # Consumer => sPc'[q] = sPc[q]
  BY <1>1, <1>2, <1>4
<1>8. \A q \in Mpsc!Procs : q # Consumer => sPos'[q] = sPos[q]
  BY <1>1, <1>2, <1>5
<1>9. \A q \in Mpsc!Procs : q # Consumer => left'[q] = left[q]
  BY <1>1, <1>2, <1>6
<1>10. StripStay(Consumer)
  BY <1>3, <1>7, <1>8, <1>9 DEF StripStay
<1>11. sHead <= sHead'
  <2>1. sHead' = sHead \/ (sPc[Consumer] = "advance" /\ sHead' = sPos[Consumer])
    BY DEF Mpsc!PopStep, Mpsc!PopBegin, Mpsc!PopCheck, Mpsc!PopMoveOut, Mpsc!PopRelease, Mpsc!PopAdvance, Mpsc!shared
  <2>2. sPc[Consumer] = "advance" => sHead <= sPos[Consumer]
    BY DEF StripInv, Emptying, Front
  <2>3. QED
    BY <1>2, <2>1, <2>2
<1>12. \A q \in Producers : Mpsc!Won(q)' = Mpsc!Won(q) /\ sPc'[q] = sPc[q]
  BY <1>2, <1>3, <1>10, <1>11, PopOthers
<1>13. \A q \in Producers : q \in Mpsc!Procs /\ q # Consumer /\ sPos'[q] = sPos[q] /\ left'[q] = left[q]
  BY <1>1, <1>8, <1>9 DEF Mpsc!Procs
<1>14. Given' = Given
  BY <1>3, <1>12, <1>13 DEF Given
<1>15. StripSent' = StripSent
  BY <1>14, EntriesReadHere, EntriesReadThen DEF EntriesRead
<1>16. \A q \in Producers : \A i \in Mpsc!Won(q) : NumberAt(q, i)' = NumberAt(q, i)
  BY <1>13, <1>14 DEF NumberAt
<1>17. QED
  BY <1>3, <1>10, <1>12, <1>15, <1>16

\* pop, popBulk: looking at an index, giving a slot back and advancing _head change nothing
\* of FifoQueue.
LEMMA PopMoveMaps ==
  ASSUME StripInv, StripInv',
         \/ \E n \in 1 .. MaxBulk : Mpsc!PopBegin(n)
         \/ Mpsc!PopCheck /\ sPc'[Consumer] = "advance"
         \/ Mpsc!PopRelease \/ Mpsc!PopAdvance
  PROVE  StripQueue' = StripQueue /\ StripHand' = StripHand /\ StripSent' = StripSent
<1>1. /\ UNCHANGED <<sTail, seen, sSent>> /\ StripSent' = StripSent
      /\ \A q \in Producers : Mpsc!Won(q)' = Mpsc!Won(q)
      /\ \A q \in Producers : \A i \in Mpsc!Won(q) : NumberAt(q, i)' = NumberAt(q, i)
  BY ConsumerStays DEF Mpsc!PopStep
<1>2. Consumer \in Mpsc!Procs /\ StripTypes
  BY ConsumerPops DEF StripInv
<1>3. sData' = sData
  BY DEF Mpsc!PopBegin, Mpsc!PopCheck, Mpsc!PopRelease, Mpsc!PopAdvance, Mpsc!shared
<1>4. /\ sPc \in [Mpsc!Procs -> {"idle"} \cup Deciding \cup Filling \cup Popping]
      /\ sPos \in [Mpsc!Procs -> Nat] /\ sHead \in Nat
  BY <1>2 DEF StripTypes
<1>5. /\ sPc[Consumer] # "moveOut" /\ sPc'[Consumer] # "moveOut" /\ Mpsc!Front' = Mpsc!Front
  <2>1. ASSUME NEW n \in 1 .. MaxBulk, Mpsc!PopBegin(n)
        PROVE  sPc[Consumer] # "moveOut" /\ sPc'[Consumer] # "moveOut" /\ Mpsc!Front' = Mpsc!Front
    <3>1. sPc[Consumer] = "idle" /\ sPc'[Consumer] = "check" /\ sPos'[Consumer] = sHead
      BY <1>2, <1>4, <2>1 DEF Mpsc!PopBegin, Mpsc!Goto
    <3>2. QED
      BY <1>4, <3>1 DEF Mpsc!Front
  <2>2. CASE Mpsc!PopCheck /\ sPc'[Consumer] = "advance"
    <3>1. sPc[Consumer] = "check" /\ sPos' = sPos
      BY <2>2 DEF Mpsc!PopCheck
    <3>2. QED
      BY <2>2, <3>1 DEF Mpsc!Front
  <2>3. CASE Mpsc!PopRelease
    <3>1. sPc[Consumer] = "release" /\ sPc'[Consumer] = "check" /\ sPos'[Consumer] = sPos[Consumer] + 1
      BY <1>2, <1>4, <2>3 DEF Mpsc!PopRelease, Mpsc!Goto
    <3>2. QED
      BY <1>2, <1>4, <3>1 DEF Mpsc!Front
  <2>4. CASE Mpsc!PopAdvance
    <3>1. sPc[Consumer] = "advance" /\ sPc'[Consumer] = "idle" /\ sHead' = sPos[Consumer]
      BY <1>2, <1>4, <2>4 DEF Mpsc!PopAdvance, Mpsc!Return, Mpsc!Goto
    <3>2. QED
      BY <1>2, <1>4, <3>1 DEF Mpsc!Front
  <2>5. QED
    BY <2>1, <2>2, <2>3, <2>4
<1>6. StripHand' = StripHand
  BY <1>5 DEF StripHand
<1>7. StripQueue' = StripQueue
  BY <1>1, <1>3, <1>5, StripQueueStays
<1>8. QED
  BY <1>1, <1>6, <1>7

\* pop, popBulk: finding the flag of an index set takes its entry.
LEMMA PopCheckMaps ==
  ASSUME StripInv, StripInv', Mpsc!PopCheck, sPc'[Consumer] # "advance"
  PROVE  Mpsc!Abstract!Next
<1>1. /\ UNCHANGED <<sTail, seen, sSent>> /\ StripSent' = StripSent
      /\ \A q \in Producers : Mpsc!Won(q)' = Mpsc!Won(q)
      /\ \A q \in Producers : \A i \in Mpsc!Won(q) : NumberAt(q, i)' = NumberAt(q, i)
  BY ConsumerStays DEF Mpsc!PopStep
<1>2. /\ sPc \in [Mpsc!Procs -> {"idle"} \cup Deciding \cup Filling \cup Popping]
      /\ sPos \in [Mpsc!Procs -> Nat] /\ sHead \in Nat /\ Consumer \in Mpsc!Procs
  BY ConsumerPops DEF StripInv, StripTypes
<1>3. UNCHANGED <<sHead, sTail, written, sData, sPos>> /\ sPc[Consumer] = "check"
  BY DEF Mpsc!PopCheck, Mpsc!shared
<1>4. sPc'[Consumer] = "moveOut" /\ written[Mpsc!Slot(sPos[Consumer])] = TRUE
  <2>1. sPc' = [sPc EXCEPT ![Consumer] = IF left[Consumer] > 0 /\ written[Mpsc!Slot(sPos[Consumer])]
                                         THEN "moveOut" ELSE "advance"]
    BY DEF Mpsc!PopCheck, Mpsc!Goto
  <2>2. sPc'[Consumer] = "moveOut" /\ written[Mpsc!Slot(sPos[Consumer])]
    BY <1>2, <2>1
  <2>3. Mpsc!Slot(sPos[Consumer]) \in Mpsc!Slots /\ written \in [Mpsc!Slots -> BOOLEAN]
    BY <1>2, StripSlots DEF StripInv, StripTypes
  <2>4. QED
    BY <2>2, <2>3
<1>5. PICK f \in Nat : f = sPos[Consumer]
  BY <1>2
<1>6. Mpsc!Front = f /\ Mpsc!Front' = f + 1 /\ Mpsc!Front' \in Nat
  BY <1>2, <1>3, <1>4, <1>5 DEF Mpsc!Front
<1>7. sTail \in Nat /\ f < sTail
  <2>1. Front' < sTail'
    BY <1>4 DEF StripInv, Emptying
  <2>2. Front' = f
    BY <1>3, <1>4, <1>5 DEF Front
  <2>3. sTail \in Nat
    BY DEF StripInv, StripTypes
  <2>4. QED
    BY <1>3, <2>1, <2>2, <2>3
<1>8. EntriesRead /\ EntriesRead'
  BY EntriesReadHere, EntriesReadThen
<1>9. Mpsc!Entry(f) = [item |-> sData[Mpsc!Slot(f)], filled |-> TRUE]
  <2>1. \A q \in Producers : \A i \in Mpsc!Won(q) : written[Mpsc!Slot(i)] = FALSE
    BY StripFacts
  <2>2. \A q \in Producers : f \notin Mpsc!Won(q)
    BY <1>4, <1>5, <2>1
  <2>3. QED
    BY <1>8, <2>2 DEF EntriesRead
<1>10. ASSUME NEW i \in Nat PROVE Mpsc!Entry(i)' = Mpsc!Entry(i)
  <2>1. CASE \E q \in Producers : i \in Mpsc!Won(q)
    <3>1. PICK q \in Producers : i \in Mpsc!Won(q)
      BY <2>1
    <3>2. i \in Mpsc!Won(q)' /\ NumberAt(q, i)' = NumberAt(q, i)
      BY <1>1, <3>1
    <3>3. Mpsc!Entry(i) = [item |-> <<q, NumberAt(q, i)>>, filled |-> FALSE]
      BY <1>8, <3>1 DEF EntriesRead
    <3>4. Mpsc!Entry(i)' = [item |-> <<q, NumberAt(q, i)'>>, filled |-> FALSE]
      BY <1>8, <3>2 DEF EntriesRead
    <3>5. QED
      BY <3>2, <3>3, <3>4
  <2>2. CASE \A q \in Producers : i \notin Mpsc!Won(q)
    <3>1. \A q \in Producers : i \notin Mpsc!Won(q)'
      BY <1>1, <2>2
    <3>2. Mpsc!Entry(i) = [item |-> sData[Mpsc!Slot(i)], filled |-> TRUE]
      BY <1>8, <2>2 DEF EntriesRead
    <3>3. Mpsc!Entry(i)' = [item |-> sData'[Mpsc!Slot(i)], filled |-> TRUE]
      BY <1>8, <3>1 DEF EntriesRead, Mpsc!Slot
    <3>4. QED
      BY <1>3, <3>2, <3>3
  <2>3. QED
    BY <2>1, <2>2
<1>11. PICK m \in Nat : m = sTail - f /\ m > 0
  BY <1>5, <1>7
<1>12. PICK old : old = [k \in 1 .. m |-> Mpsc!Entry(Mpsc!Front + k - 1)]
  OBVIOUS
<1>13. PICK new : new = [k \in 1 .. (m - 1) |-> Mpsc!Entry(Mpsc!Front + k - 1)']
  OBVIOUS
<1>14. StripQueue = old /\ StripQueue' = new
  <2>1. sTail' - Mpsc!Front' = m - 1
    BY <1>3, <1>5, <1>6, <1>7, <1>11
  <2>2. StripQueue = old
    BY <1>6, <1>11, <1>12 DEF StripQueue
  <2>3. StripQueue' = new
    BY <1>13, <2>1 DEF StripQueue
  <2>4. QED
    BY <2>2, <2>3
<1>15. old[1] = [item |-> sData[Mpsc!Slot(f)], filled |-> TRUE]
  <2>1. 1 \in 1 .. m
    BY <1>11
  <2>2. old[1] = Mpsc!Entry(Mpsc!Front + 1 - 1)
    BY <1>12, <2>1
  <2>3. Mpsc!Front + 1 - 1 = f
    BY <1>6
  <2>4. QED
    BY <1>9, <2>2, <2>3
<1>16. \A k \in 1 .. (m - 1) : new[k] = old[k + 1]
  <2>1. ASSUME NEW k, k \in 1 .. (m - 1) PROVE new[k] = old[k + 1]
    <3>1. PICK i : i = f + k
      OBVIOUS
    <3>2. i \in Nat /\ k + 1 \in 1 .. m /\ Mpsc!Front + (k + 1) - 1 = i /\ Mpsc!Front' + k - 1 = i
      BY <1>5, <1>6, <1>11, <2>1, <3>1
    <3>3. old[k + 1] = Mpsc!Entry(Mpsc!Front + (k + 1) - 1)
      BY <1>12, <3>2
    <3>4. old[k + 1] = Mpsc!Entry(i)
      BY <3>2, <3>3
    <3>5. new[k] = Mpsc!Entry(Mpsc!Front + k - 1)'
      BY <1>13, <2>1
    <3>6. new[k] = Mpsc!Entry(i)'
      BY <3>2, <3>5
    <3>7. QED
      BY <1>10, <3>2, <3>4, <3>6
  <2>2. QED
    BY <2>1
<1>17. StripQueue' = SubSeq(StripQueue, 1 + 1, Len(StripQueue))
  <2>1. PICK S : S = {old[k] : k \in 1 .. m}
    OBVIOUS
  <2>2. old \in [1 .. m -> S]
    BY <1>12, <2>1
  <2>3. old \in Seq(S) /\ Len(old) = m
    <3>1. old \in Seq(S)
      BY <1>11, <2>2
    <3>2. Len(old) = m
      BY <1>11, <1>12
    <3>3. QED
      BY <3>1, <3>2
  <2>4. SubSeq(old, 2, m) = [k \in 1 .. (m - 1) |-> old[k + 1]]
    <3>1. SubSeq(old, 2, m) = [k \in 1 .. (m - 2 + 1) |-> old[2 + k - 1]]
      BY <1>11, <2>3
    <3>2. m - 2 + 1 = m - 1 /\ \A k \in 1 .. (m - 1) : 2 + k - 1 = k + 1
      BY <1>11
    <3>3. QED
      BY <3>1, <3>2
  <2>5. new = SubSeq(old, 2, m)
    BY <1>13, <1>16, <2>4
  <2>6. QED
    BY <1>14, <2>3, <2>5
<1>18. StripHand[Consumer] = <<>> /\ StripHand' = [StripHand EXCEPT ![Consumer] = [i \in 1 .. 1 |-> StripQueue[i].item]]
  <2>1. StripHand[Consumer] = <<>>
    BY <1>3 DEF StripHand
  <2>2. StripHand' = [c \in {Consumer} |-> <<sData[Mpsc!Slot(f)]>>]
    BY <1>3, <1>4, <1>5 DEF StripHand, Mpsc!Slot
  <2>3. StripQueue[1].item = sData[Mpsc!Slot(f)]
    BY <1>14, <1>15
  <2>4. PICK x : x = sData[Mpsc!Slot(f)]
    OBVIOUS
  <2>5. PICK y : y = [i \in 1 .. 1 |-> StripQueue[i].item]
    OBVIOUS
  <2>6. \A i \in 1 .. 1 : i = 1
    OBVIOUS
  <2>7. y = [i \in 1 .. 1 |-> x]
    BY <2>3, <2>4, <2>5, <2>6
  <2>8. <<x>> = [i \in 1 .. 1 |-> x]
    OBVIOUS
  <2>9. [StripHand EXCEPT ![Consumer] = y] = [c \in {Consumer} |-> y]
    BY DEF StripHand
  <2>10. QED
    BY <2>1, <2>2, <2>4, <2>5, <2>7, <2>8, <2>9
<1>19. 1 \in 1 .. Len(StripQueue) /\ StripQueue[1].filled
  <2>1. Len(old) = m
    BY <1>11, <1>12
  <2>2. QED
    BY <1>11, <1>14, <1>15, <2>1
<1>20. QED
  BY <1>1, <1>17, <1>18, <1>19, StripTakes

\* pop, popBulk: moving the item out delivers it.
LEMMA PopMoveOutMaps ==
  ASSUME StripInv, StripInv', Mpsc!PopMoveOut
  PROVE  Mpsc!Abstract!Next
<1>1. /\ UNCHANGED <<sTail, seen, sSent>> /\ StripSent' = StripSent
      /\ \A q \in Producers : Mpsc!Won(q)' = Mpsc!Won(q)
      /\ \A q \in Producers : \A i \in Mpsc!Won(q) : NumberAt(q, i)' = NumberAt(q, i)
  BY ConsumerStays DEF Mpsc!PopStep
<1>2. /\ sPc \in [Mpsc!Procs -> {"idle"} \cup Deciding \cup Filling \cup Popping]
      /\ sPos \in [Mpsc!Procs -> Nat] /\ sHead \in Nat /\ Consumer \in Mpsc!Procs
      /\ sData \in [Mpsc!Slots -> (Producers \X (1 .. MpscItems)) \cup {Nothing}]
  BY ConsumerPops DEF StripInv, StripTypes
<1>3. UNCHANGED <<sHead, sTail, written, sPos>> /\ sPc[Consumer] = "moveOut" /\ sPc'[Consumer] = "release"
      /\ sData' = [sData EXCEPT ![Mpsc!Slot(sPos[Consumer])] = Nothing]
  BY <1>2 DEF Mpsc!PopMoveOut, Mpsc!Goto
<1>4. Front = sPos[Consumer] /\ Mpsc!Front = sPos[Consumer] + 1 /\ Mpsc!Front' = Mpsc!Front
  BY <1>2, <1>3 DEF Mpsc!Front, Front
<1>5. \A i \in Nat : Mpsc!Front <= i /\ i < sTail => sData'[Mpsc!Slot(i)] = sData[Mpsc!Slot(i)]
  <2>1. ASSUME NEW i \in Nat, Mpsc!Front <= i, i < sTail PROVE sData'[Mpsc!Slot(i)] = sData[Mpsc!Slot(i)]
    <3>1. /\ Front \in Nat /\ sHead <= Front /\ sTail <= sHead + Capacity /\ Capacity \in Nat /\ Capacity > 0
          /\ \A k, j \in Nat : Front <= k /\ k < Front + Capacity /\ Front <= j /\ j < Front + Capacity /\ k # j
              => Mpsc!Slot(k) # Mpsc!Slot(j)
      BY StripFacts
    <3>2. sTail \in Nat /\ sHead \in Nat
      BY DEF StripInv, StripTypes
    <3>3. Front <= i /\ i < Front + Capacity /\ i # Front /\ Front < Front + Capacity
      BY <1>4, <2>1, <3>1, <3>2
    <3>4. Mpsc!Slot(i) # Mpsc!Slot(Front)
      BY <3>1, <3>3
    <3>5. Mpsc!Slot(i) \in Mpsc!Slots
      BY StripSlots
    <3>6. QED
      BY <1>2, <1>3, <1>4, <3>4, <3>5
  <2>2. QED
    BY <2>1
<1>6. StripQueue' = StripQueue
  BY <1>1, <1>4, <1>5, StripQueueStays
<1>7. PICK x : x = sData[Mpsc!Slot(sPos[Consumer])]
  OBVIOUS
<1>8. StripHand = [c \in {Consumer} |-> <<x>>] /\ StripHand' = [c \in {Consumer} |-> <<>>]
  BY <1>3, <1>7 DEF StripHand
<1>9. StripHand[Consumer] # <<>> /\ StripHand' = [StripHand EXCEPT ![Consumer] = Tail(@)]
  <2>1. \A y : <<y>> # <<>> /\ Tail(<<y>>) = <<>>
    OBVIOUS
  <2>2. StripHand[Consumer] = <<x>>
    BY <1>8
  <2>3. Tail(StripHand[Consumer]) = <<>>
    BY <2>1, <2>2
  <2>4. [StripHand EXCEPT ![Consumer] = <<>>] = [c \in {Consumer} |-> <<>>]
    BY <1>8
  <2>5. QED
    BY <1>8, <2>1, <2>2, <2>3, <2>4
<1>10. QED
  BY <1>1, <1>6, <1>9, StripDelivers

\* push, pushBulk: the item constructed stays in its slot until the flag is set.
LEMMA ProducerCarries ==
  ASSUME StripInv, StripInv', Carried, NEW p \in Producers,
         (\E n \in 1 .. MaxBulk : Mpsc!PushLoadTail(p, n)) \/ Mpsc!PushStep(p)
  PROVE  Carried'
<1>1. StripTypes /\ p \in Mpsc!Procs
  BY DEF StripInv, Mpsc!Procs
<1>2. StripStay(p)
  BY <1>1, ProducerStays
<1>3. /\ sPc \in [Mpsc!Procs -> {"idle"} \cup Deciding \cup Filling \cup Popping]
      /\ sPos \in [Mpsc!Procs -> Nat] /\ sSent \in [Producers -> 0 .. MpscItems]
      /\ sData \in [Mpsc!Slots -> (Producers \X (1 .. MpscItems)) \cup {Nothing}]
  BY <1>1 DEF StripTypes
<1>4. \A q \in Producers : q # p => sPc'[q] = sPc[q] /\ sPos'[q] = sPos[q] /\ sSent'[q] = sSent[q]
  BY <1>2 DEF StripStay, Mpsc!Procs
<1>5. CASE Mpsc!PushConstruct(p)
  <2>1. PICK item : item = <<p, sSent[p] + 1>>
    OBVIOUS
  <2>2. /\ sPc[p] = "construct" /\ sPos' = sPos /\ sSent'[p] = sSent[p] + 1
        /\ sData' = [sData EXCEPT ![Mpsc!Slot(sPos[p])] = item]
    BY <1>3, <1>5, <2>1 DEF Mpsc!PushConstruct
  <2>3. Mpsc!Slot(sPos[p]) \in Mpsc!Slots
    BY <1>1, <1>3, StripSlots
  <2>4. sData'[Mpsc!Slot(sPos'[p])] = <<p, sSent'[p]>>
    BY <1>3, <2>1, <2>2, <2>3
  <2>5. ASSUME NEW q \in Producers, q # p, sPc'[q] = "publish"
        PROVE  sData'[Mpsc!Slot(sPos'[q])] = <<q, sSent'[q]>>
    <3>1. sPc[q] = "publish" /\ sPos'[q] = sPos[q] /\ sSent'[q] = sSent[q] /\ q \in Mpsc!Procs
      BY <1>4, <2>5 DEF Mpsc!Procs
    <3>2. sData[Mpsc!Slot(sPos[q])] = <<q, sSent[q]>>
      BY <3>1 DEF Carried
    <3>3. sPos[q] \in Mpsc!Won(q)
      <4>1. left[q] > 0 /\ left[q] \in Nat /\ sPos[q] \in Nat
        BY <1>1, <3>1, StripWon DEF StripInv, Pushing
      <4>2. QED
        BY <3>1, <4>1 DEF Mpsc!Won
    <3>4. sPos[p] \in Mpsc!Won(p)
      <4>1. left[p] > 0 /\ left[p] \in Nat /\ sPos[p] \in Nat
        BY <1>1, <2>2, StripWon DEF StripInv, Pushing
      <4>2. QED
        BY <2>2, <4>1 DEF Mpsc!Won
    <3>5. sPos[q] # sPos[p]
      BY <2>5, <3>3, <3>4 DEF StripInv, ClaimedOnce
    <3>6. Mpsc!Slot(sPos[q]) # Mpsc!Slot(sPos[p])
      BY <3>3, <3>4, <3>5, StripFacts
    <3>7. Mpsc!Slot(sPos[q]) \in Mpsc!Slots
      BY <1>3, <3>1, StripSlots
    <3>8. sData'[Mpsc!Slot(sPos[q])] = sData[Mpsc!Slot(sPos[q])]
      BY <1>3, <2>2, <3>6, <3>7
    <3>9. QED
      BY <3>1, <3>2, <3>8
  <2>6. QED
    BY <2>4, <2>5 DEF Carried, Mpsc!Slot
<1>6. CASE ~Mpsc!PushConstruct(p)
  <2>1. sData' = sData
    BY <1>6 DEF Mpsc!PushStep, Mpsc!PushLoadTail, Mpsc!PushLoadHead, Mpsc!PushReloadHead, Mpsc!PushCas,
                Mpsc!PushPublish, Mpsc!shared
  <2>2. \E l \in {"loadHead", "reloadHead", "cas", "idle", "construct"} : sPc' = [sPc EXCEPT ![p] = l]
    BY <1>6 DEF Mpsc!PushStep, Mpsc!PushLoadTail, Mpsc!PushLoadHead, Mpsc!PushReloadHead, Mpsc!PushCas,
                Mpsc!PushPublish, Mpsc!Return, Mpsc!Goto, Mpsc!Compare
  <2>3. sPc'[p] # "publish"
    BY <1>1, <1>3, <2>2
  <2>4. QED
    BY <1>4, <2>1, <2>3 DEF Carried, Mpsc!Slot
<1>7. QED
  BY <1>5, <1>6

\* popBulk: the consumer empties another slot.
LEMMA ConsumerCarries ==
  ASSUME StripInv, StripInv', Carried, (\E n \in 1 .. MaxBulk : Mpsc!PopBegin(n)) \/ Mpsc!PopStep
  PROVE  Carried'
<1>1. UNCHANGED <<sTail, seen, sSent>> /\ StripStay(Consumer) /\ StripTypes
  BY ConsumerStays DEF StripInv
<1>2. \A q \in Producers : q \in Mpsc!Procs /\ sPc'[q] = sPc[q] /\ sPos'[q] = sPos[q] /\ sSent'[q] = sSent[q]
  BY <1>1, ConsumerPops DEF StripStay, Mpsc!Procs
<1>3. CASE ~Mpsc!PopMoveOut
  <2>1. sData' = sData
    BY <1>3 DEF Mpsc!PopStep, Mpsc!PopBegin, Mpsc!PopCheck, Mpsc!PopRelease, Mpsc!PopAdvance, Mpsc!shared
  <2>2. QED
    BY <1>2, <2>1 DEF Carried, Mpsc!Slot
<1>4. CASE Mpsc!PopMoveOut
  <2>1. /\ sPc[Consumer] = "moveOut" /\ sData' = [sData EXCEPT ![Mpsc!Slot(sPos[Consumer])] = Nothing]
    BY <1>4 DEF Mpsc!PopMoveOut
  <2>2. written[Mpsc!Slot(sPos[Consumer])] = TRUE
    BY <2>1 DEF StripInv, Emptying, Front
  <2>3. ASSUME NEW q \in Producers, sPc'[q] = "publish"
        PROVE  sData'[Mpsc!Slot(sPos'[q])] = <<q, sSent'[q]>>
    <3>1. sPc[q] = "publish" /\ sPos'[q] = sPos[q] /\ sSent'[q] = sSent[q]
      BY <1>2, <2>3
    <3>2. left[q] > 0 /\ left[q] \in Nat /\ sPos[q] \in Nat
      BY <1>1, <3>1, StripWon DEF StripInv, Pushing
    <3>3. sPos[q] \in Mpsc!Won(q)
      BY <3>1, <3>2 DEF Mpsc!Won
    <3>4. written[Mpsc!Slot(sPos[q])] = FALSE
      BY <3>3, StripFacts
    <3>5. Mpsc!Slot(sPos[q]) # Mpsc!Slot(sPos[Consumer])
      BY <2>2, <3>4
    <3>6. sData[Mpsc!Slot(sPos[q])] = <<q, sSent[q]>>
      BY <3>1 DEF Carried
    <3>7. Mpsc!Slot(sPos[q]) \in Mpsc!Slots /\ sData \in [Mpsc!Slots -> (Producers \X (1 .. MpscItems)) \cup {Nothing}]
      BY <1>1, <3>2, StripSlots DEF StripTypes
    <3>8. QED
      BY <2>1, <3>1, <3>5, <3>6, <3>7
  <2>4. QED
    BY <2>3 DEF Carried, Mpsc!Slot
<1>5. QED
  BY <1>3, <1>4

\* Every step of the library keeps the item of a publication, and is of the mpsc queue a
\* step of FifoQueue.
LEMMA StripMaps ==
  StripInv /\ StripInv' /\ Carried /\ [Next]_vars => Carried' /\ [Mpsc!Abstract!Next]_Mpsc!Abstract!vars
<1>1. SUFFICES ASSUME StripInv, StripInv', Carried, [Next]_vars
               PROVE  Carried' /\ [Mpsc!Abstract!Next]_Mpsc!Abstract!vars
  OBVIOUS
<1>2. CASE UNCHANGED mpscVars
  <2>1. UNCHANGED <<sHead, sTail, written, sData, sPc, sPos, seen, left, sSent>>
    BY <1>2 DEF mpscVars
  <2>2. Carried'
    BY <1>1, <2>1 DEF Carried, Mpsc!Slot
  <2>3. Mpsc!Front' = Mpsc!Front /\ StripHand' = StripHand
    BY <2>1 DEF Mpsc!Front, StripHand, Mpsc!Slot
  <2>4. Given' = Given
    BY <2>1 DEF Given
  <2>5. \A q \in Producers : Mpsc!Won(q)' = Mpsc!Won(q) /\ \A i : NumberAt(q, i)' = NumberAt(q, i)
    BY <2>1, <2>4 DEF Mpsc!Won, NumberAt
  <2>6. StripQueue' = StripQueue
    BY <1>1, <2>1, <2>3, <2>5, StripQueueStays
  <2>7. StripSent' = StripSent
    BY <1>1, <2>4, EntriesReadHere, EntriesReadThen DEF EntriesRead
  <2>8. QED
    BY <2>2, <2>3, <2>6, <2>7, StripStutters
<1>3. ASSUME NEW p \in Producers, (\E n \in 1 .. MaxBulk : Mpsc!PushLoadTail(p, n)) \/ Mpsc!PushStep(p)
      PROVE  [Mpsc!Abstract!Next]_Mpsc!Abstract!vars
  <2>1. CASE \/ \E n \in 1 .. MaxBulk : Mpsc!PushLoadTail(p, n)
             \/ Mpsc!PushLoadHead(p) \/ Mpsc!PushReloadHead(p)
             \/ Mpsc!PushCas(p) /\ sTail # sPos[p]
    BY <1>1, <2>1, PushMoveMaps, StripStutters
  <2>2. CASE Mpsc!PushCas(p) /\ sTail = sPos[p]
    BY <1>1, <2>2, PushWinMaps
  <2>3. CASE Mpsc!PushConstruct(p)
    BY <1>1, <2>3, PushConstructMaps, StripStutters
  <2>4. CASE Mpsc!PushPublish(p)
    BY <1>1, <2>4, PushPublishMaps
  <2>5. QED
    BY <1>3, <2>1, <2>2, <2>3, <2>4 DEF Mpsc!PushStep
<1>4. ASSUME (\E n \in 1 .. MaxBulk : Mpsc!PopBegin(n)) \/ Mpsc!PopStep
      PROVE  [Mpsc!Abstract!Next]_Mpsc!Abstract!vars
  <2>1. CASE \/ \E n \in 1 .. MaxBulk : Mpsc!PopBegin(n)
             \/ Mpsc!PopCheck /\ sPc'[Consumer] = "advance"
             \/ Mpsc!PopRelease \/ Mpsc!PopAdvance
    BY <1>1, <2>1, PopMoveMaps, StripStutters
  <2>2. CASE Mpsc!PopCheck /\ sPc'[Consumer] # "advance"
    BY <1>1, <2>2, PopCheckMaps
  <2>3. CASE Mpsc!PopMoveOut
    BY <1>1, <2>3, PopMoveOutMaps
  <2>4. QED
    BY <1>4, <2>1, <2>2, <2>3 DEF Mpsc!PopStep
<1>5. CASE Mpsc!Next
  <2>1. CASE \E p \in Producers : (\E n \in 1 .. MaxBulk : Mpsc!PushLoadTail(p, n)) \/ Mpsc!PushStep(p)
    <3>1. PICK p \in Producers : (\E n \in 1 .. MaxBulk : Mpsc!PushLoadTail(p, n)) \/ Mpsc!PushStep(p)
      BY <2>1
    <3>2. Carried'
      BY <1>1, <3>1, ProducerCarries
    <3>3. QED
      BY <1>3, <3>1, <3>2
  <2>2. CASE (\E n \in 1 .. MaxBulk : Mpsc!PopBegin(n)) \/ Mpsc!PopStep
    <3>1. Carried'
      BY <1>1, <2>2, ConsumerCarries
    <3>2. QED
      BY <1>4, <2>2, <3>1
  <2>3. QED
    BY <1>5, <2>1, <2>2 DEF Mpsc!Next
<1>6. QED
  BY <1>1, <1>2, <1>5 DEF Next, Others, vars

\* An empty queue is an empty FifoQueue.
LEMMA StripStarts == Init => Mpsc!Abstract!Init /\ Carried
<1>1. SUFFICES ASSUME Init PROVE Mpsc!Abstract!Init /\ Carried
  OBVIOUS
<1>2. Mpsc!Init
  BY <1>1 DEF Init
<1>3. StripInv
  BY <1>2, InitStrip
<1>4. /\ sHead = 0 /\ sTail = 0 /\ sPc = [p \in Mpsc!Procs |-> "idle"] /\ sSent = [p \in Producers |-> 0]
      /\ Consumer \in Mpsc!Procs /\ \A p \in Producers : p \in Mpsc!Procs
  BY <1>2, ConsumerPops DEF Mpsc!Init, Mpsc!Procs
<1>5. sPc[Consumer] = "idle" /\ \A p \in Producers : sPc[p] = "idle"
  BY <1>4
<1>6. Carried
  BY <1>5 DEF Carried
<1>7. Mpsc!Front = 0
  BY <1>4, <1>5 DEF Mpsc!Front
<1>8. StripQueue = <<>>
  <2>1. sTail - Mpsc!Front = 0
    BY <1>4, <1>7
  <2>2. PICK e : e = [k \in 1 .. 0 |-> Mpsc!Entry(Mpsc!Front + k - 1)]
    OBVIOUS
  <2>3. e = <<>>
    BY <2>2
  <2>4. QED
    BY <2>1, <2>2, <2>3 DEF StripQueue
<1>9. StripHand = [c \in {Consumer} |-> <<>>]
  BY <1>5 DEF StripHand
<1>10. StripSent = [p \in Producers |-> 0]
  <2>1. StripSent = Given
    BY <1>3, SentIsGiven
  <2>2. QED
    BY <1>4, <1>5, <2>1 DEF Given
<1>11. Mpsc!Abstract!Init
  BY <1>8, <1>9, <1>10 DEF Mpsc!Abstract!Init, StripQueue, StripHand, StripSent
<1>12. QED
  BY <1>6, <1>11

\* ArrayMpscQueue.h push, pushBulk, pop, popBulk: every item reaches the consumer once,
\* intact, in the order in which the CAS on _tail gave out the places, although they are
\* filled in another order and the consumer stops at the first that is not.
THEOREM MpscRefines == Spec => Mpsc!ImplementsFifo
<1>1. Init => StripInv
  BY InitStrip DEF Init
<1>2. QED
  BY <1>1, NextStrip, StripStarts, StripMaps, PTL DEF Spec, Mpsc!ImplementsFifo, Mpsc!Abstract!Spec
-----------------------------------------------------------------------------
(***************************************************************************)
(* ArrayMpmcQueue implements FifoQueue: the variables it is mapped to.     *)
(***************************************************************************)
RingQueue == [k \in 1 .. (mTail - mHead) |-> Mpmc!Entry(mHead + k - 1)]
RingHand == [c \in Consumers |->
               LET n == Mpmc!Cardinality(Mpmc!Remaining(c)) IN
               [k \in 1 .. n |-> mData[Mpmc!Slot(mPos[c] + found[c] - 1 - n + k)]]]
RingSent == [p \in Producers |-> Mpmc!SentBy(p)]

\* enqueueBulk: the item constructed and not yet published is the producer's last.
RingCarried == \A p \in Producers : mPc[p] = "publish" => mData[Mpmc!Slot(mPos[p])] = <<p, mSent[p]>>

\* The number that p gives to the item at an index it has won.
RingNumber(p, i) == Promised[p] - (mPos[p] + found[p] - 1 - i)

\* dequeueBulk: how many items a consumer has still to move out, and the first one's index.
HandSize(c) == IF mPc[c] = "moveOut" THEN found[c] ELSE IF mPc[c] = "release" THEN found[c] - 1 ELSE 0
HandFrom(c) == IF mPc[c] = "release" THEN mPos[c] + 1 ELSE mPos[c]

\* What entries, hands and numbers are.
RingRead ==
  /\ \A p \in Producers : \A i : i \in Mpmc!Won(p) =>
       Mpmc!Entry(i) = [item |-> <<p, RingNumber(p, i)>>, filled |-> FALSE]
  /\ \A i \in Nat : mHead <= i /\ i < mTail /\ (\A p \in Producers : i \notin Mpmc!Won(p)) =>
       Mpmc!Entry(i) = [item |-> mData[Mpmc!Slot(i)], filled |-> TRUE]
  /\ RingSent = Promised
  /\ RingHand = [c \in Consumers |-> [k \in 1 .. HandSize(c) |-> mData[Mpmc!Slot(HandFrom(c) + k - 1)]]]
  /\ \A c \in Consumers : HandSize(c) \in Nat /\ HandFrom(c) \in Nat
       /\ \A k \in 1 .. HandSize(c) : HandFrom(c) + k - 1 \in Mpmc!Won(c)

\* Producers and consumers are processes, and none is both.
LEMMA RolesApart ==
  /\ \A p \in Producers : p \in Mpmc!Procs /\ p \notin Consumers
  /\ \A c \in Consumers : c \in Mpmc!Procs /\ c \notin Producers
BY LibraryAssumption DEF Mpmc!Procs

\* The number of indices of a run of n from i.
LEMMA RingRunCount == \A i, n \in Nat : Mpmc!Cardinality(i .. i + n - 1) = n
<1>1. ASSUME NEW i \in Nat, NEW n \in Nat PROVE Mpmc!Cardinality(i .. i + n - 1) = n
  <2>1. Mpmc!Cardinality(i .. i + n - 1) = Cardinality(i .. i + n - 1)
    BY DEF Mpmc!Cardinality, Cardinality
  <2>2. Cardinality(i .. i + n - 1) = IF i > i + n - 1 THEN 0 ELSE i + n - 1 - i + 1
    BY FS_Interval
  <2>3. QED
    BY <2>1, <2>2
<1>2. QED
  BY <1>1

\* What a call keeps of a process at work.
LEMMA AtWork ==
  ASSUME RingInv, NEW p \in Mpmc!Procs
  PROVE  /\ mPos[p] \in Nat /\ found[p] \in Nat
         /\ mPc[p] \in Working => found[p] > 0 /\ Mpmc!Won(p) = mPos[p] .. mPos[p] + found[p] - 1
         /\ mPc[p] \notin Working => Mpmc!Won(p) = {}
         /\ p \in Producers => mSent[p] \in Nat /\ mPc[p] \notin {"moveOut", "release"}
         /\ p \in Consumers => mPc[p] \notin {"construct", "publish"}
<1>1. RingTypes /\ InCall(p)
  BY DEF RingInv
<1>2. QED
  BY <1>1, WonType, RolesApart DEF RingTypes, InCall, Working

\* The items reserved by a producer are those it has constructed or won a place for.
LEMMA RingSentIs == RingInv => RingSent = Promised
<1>1. SUFFICES ASSUME RingInv, NEW p \in Producers PROVE Mpmc!SentBy(p) = Promised[p]
  BY DEF RingSent, Promised
<1>2. p \in Mpmc!Procs
  BY RolesApart
<1>3. CASE mPc[p] \in Working
  <2>1. /\ Mpmc!Won(p) = mPos[p] .. mPos[p] + found[p] - 1 /\ mPos[p] \in Nat /\ found[p] \in Nat /\ mSent[p] \in Nat
        /\ mPc[p] \in {"construct", "publish"}
    BY <1>1, <1>2, <1>3, AtWork DEF Working
  <2>2. Mpmc!Cardinality(Mpmc!Won(p)) = found[p]
    BY <2>1, RingRunCount
  <2>3. QED
    BY <2>1, <2>2 DEF Mpmc!SentBy, Promised
<1>4. CASE mPc[p] \notin Working
  <2>1. Mpmc!Won(p) = {} /\ mSent[p] \in Nat
    BY <1>1, <1>2, <1>4, AtWork
  <2>2. Mpmc!Cardinality(0 .. 0 + 0 - 1) = 0 /\ 0 .. 0 + 0 - 1 = {}
    BY RingRunCount
  <2>3. Mpmc!Cardinality(Mpmc!Won(p)) = 0
    BY <2>1, <2>2
  <2>4. QED
    BY <1>4, <2>1, <2>3 DEF Mpmc!SentBy, Promised, Working
<1>5. QED
  BY <1>3, <1>4

\* The entry of an index that a producer has won, and of one that is published.
LEMMA RingEntries ==
  ASSUME RingInv
  PROVE  /\ \A p \in Producers : \A i : i \in Mpmc!Won(p) =>
              Mpmc!Entry(i) = [item |-> <<p, RingNumber(p, i)>>, filled |-> FALSE]
         /\ \A i \in Nat : mHead <= i /\ i < mTail /\ (\A p \in Producers : i \notin Mpmc!Won(p)) =>
              Mpmc!Entry(i) = [item |-> mData[Mpmc!Slot(i)], filled |-> TRUE]
<1>1. ASSUME NEW p \in Producers, NEW i, i \in Mpmc!Won(p)
      PROVE  Mpmc!Entry(i) = [item |-> <<p, RingNumber(p, i)>>, filled |-> FALSE]
  <2>1. \A q \in Producers : i \in Mpmc!Won(q) => q = p
    BY <1>1, RolesApart DEF RingInv, WonOnce
  <2>2. Mpmc!Reserver(i) = p
    BY <1>1, <2>1 DEF Mpmc!Reserver
  <2>3. i \in Nat /\ sequence[Mpmc!Slot(i)] = i
    BY <1>1, ProducerApart
  <2>4. sequence[Mpmc!Slot(i)] # i + 1
    BY <2>3
  <2>5. Mpmc!SentBy(p) = Promised[p]
    BY RingSentIs DEF RingSent
  <2>6. Mpmc!Entry(i) = [item |-> <<p, Mpmc!SentBy(p) - (mPos[p] + found[p] - 1 - i)>>, filled |-> FALSE]
    BY <2>2, <2>4 DEF Mpmc!Entry
  <2>7. QED
    BY <2>5, <2>6 DEF RingNumber
<1>2. ASSUME NEW i \in Nat, mHead <= i, i < mTail, \A p \in Producers : i \notin Mpmc!Won(p)
      PROVE  Mpmc!Entry(i) = [item |-> mData[Mpmc!Slot(i)], filled |-> TRUE]
  <2>1. sequence[Mpmc!Slot(i)] = i + 1
    BY <1>2 DEF RingInv, QueuedSlots
  <2>2. QED
    BY <2>1 DEF Mpmc!Entry
<1>3. QED
  BY <1>1, <1>2

\* What a consumer has still to move out are the last of the indices it has won.
LEMMA RingHandIs ==
  ASSUME RingInv, NEW c \in Consumers
  PROVE  /\ HandSize(c) \in Nat /\ HandFrom(c) \in Nat
         /\ Mpmc!Cardinality(Mpmc!Remaining(c)) = HandSize(c)
         /\ HandSize(c) > 0 => mPos[c] + found[c] - 1 - HandSize(c) = HandFrom(c) - 1
         /\ \A k \in 1 .. HandSize(c) : HandFrom(c) + k - 1 \in Mpmc!Won(c)
<1>1. c \in Mpmc!Procs
  BY RolesApart
<1>2. mPos[c] \in Nat /\ found[c] \in Nat /\ mPc[c] \notin {"construct", "publish"}
  BY <1>1, AtWork
<1>3. Mpmc!Cardinality({}) = 0
  <2>1. Mpmc!Cardinality(0 .. 0 + 0 - 1) = 0 /\ 0 .. 0 + 0 - 1 = {}
    BY RingRunCount
  <2>2. QED
    BY <2>1
<1>4. CASE mPc[c] = "moveOut"
  <2>1. found[c] > 0 /\ Mpmc!Won(c) = mPos[c] .. mPos[c] + found[c] - 1
    BY <1>1, <1>4, AtWork DEF Working
  <2>2. Mpmc!Remaining(c) = mPos[c] .. mPos[c] + found[c] - 1
    BY <1>4, <2>1 DEF Mpmc!Remaining
  <2>3. HandSize(c) = found[c] /\ HandFrom(c) = mPos[c]
    BY <1>4 DEF HandSize, HandFrom
  <2>4. Mpmc!Cardinality(Mpmc!Remaining(c)) = found[c]
    <3>1. \A i, n \in Nat : Mpmc!Cardinality(i .. i + n - 1) = n
      BY RingRunCount
    <3>2. Mpmc!Cardinality(mPos[c] .. mPos[c] + found[c] - 1) = found[c]
      BY <1>2, <3>1, Zenon
    <3>3. QED
      BY <2>2, <3>2, Zenon
  <2>5. \A k \in 1 .. found[c] : mPos[c] + k - 1 \in Mpmc!Won(c)
    BY <1>2, <2>1
  <2>6. mPos[c] + found[c] - 1 - found[c] = mPos[c] - 1
    BY <1>2
  <2>7. QED
    BY <1>2, <2>3, <2>4, <2>5, <2>6
<1>5. CASE mPc[c] = "release"
  <2>1. found[c] > 0 /\ Mpmc!Won(c) = mPos[c] .. mPos[c] + found[c] - 1
    BY <1>1, <1>5, AtWork DEF Working
  <2>2. Mpmc!Remaining(c) = (mPos[c] + 1) .. (mPos[c] + 1) + (found[c] - 1) - 1
    BY <1>2, <1>5, <2>1 DEF Mpmc!Remaining
  <2>3. HandSize(c) = found[c] - 1 /\ HandFrom(c) = mPos[c] + 1
    BY <1>5 DEF HandSize, HandFrom
  <2>4. mPos[c] + 1 \in Nat /\ found[c] - 1 \in Nat
    BY <1>2, <2>1
  <2>5. Mpmc!Cardinality(Mpmc!Remaining(c)) = found[c] - 1
    BY <2>2, <2>4, RingRunCount
  <2>6. \A k \in 1 .. (found[c] - 1) : (mPos[c] + 1) + k - 1 \in Mpmc!Won(c)
    BY <1>2, <2>1
  <2>7. mPos[c] + found[c] - 1 - (found[c] - 1) = (mPos[c] + 1) - 1
    BY <1>2
  <2>8. QED
    BY <2>3, <2>4, <2>5, <2>6, <2>7
<1>6. CASE mPc[c] \notin {"moveOut", "release"}
  <2>1. mPc[c] \notin Working
    BY <1>2, <1>6 DEF Working
  <2>2. Mpmc!Won(c) = {}
    BY <1>1, <2>1, AtWork
  <2>3. Mpmc!Remaining(c) = {}
    BY <2>2 DEF Mpmc!Remaining
  <2>4. HandSize(c) = 0 /\ HandFrom(c) = mPos[c]
    BY <1>6 DEF HandSize, HandFrom
  <2>5. QED
    BY <1>2, <1>3, <2>3, <2>4
<1>7. QED
  BY <1>4, <1>5, <1>6

\* The invariant tells entries and hands.
LEMMA RingReadHere == RingInv => RingRead
<1>1. SUFFICES ASSUME RingInv PROVE RingRead
  OBVIOUS
<1>2. RingHand = [c \in Consumers |-> [k \in 1 .. HandSize(c) |-> mData[Mpmc!Slot(HandFrom(c) + k - 1)]]]
  <2>1. ASSUME NEW c \in Consumers
        PROVE  RingHand[c] = [k \in 1 .. HandSize(c) |-> mData[Mpmc!Slot(HandFrom(c) + k - 1)]]
    <3>1. PICK n \in Nat : n = HandSize(c)
      BY <1>1, RingHandIs
    <3>2. Mpmc!Cardinality(Mpmc!Remaining(c)) = n /\ HandFrom(c) \in Nat
      BY <1>1, <3>1, RingHandIs
    <3>3. RingHand[c] = [k \in 1 .. n |-> mData[Mpmc!Slot(mPos[c] + found[c] - 1 - n + k)]]
      BY <3>2 DEF RingHand
    <3>4. mPos[c] \in Nat /\ found[c] \in Nat
      BY <1>1, AtWork, RolesApart
    <3>5. ASSUME NEW k \in 1 .. n PROVE mPos[c] + found[c] - 1 - n + k = HandFrom(c) + k - 1
      <4>1. mPos[c] + found[c] - 1 - n = HandFrom(c) - 1
        BY <1>1, <3>1, <3>5, RingHandIs
      <4>2. QED
        BY <3>2, <3>4, <4>1
    <3>6. QED
      BY <3>1, <3>3, <3>5
  <2>2. QED
    BY <2>1 DEF RingHand
<1>3. QED
  BY <1>1, <1>2, RingSentIs, RingEntries, RingHandIs DEF RingRead

\* The same, after a step.
LEMMA RingReadThen == RingInv' => RingRead'
BY RingReadHere, PTL

\* One entry stays when who has won its index, with which number, and its object stay.
LEMMA RingEntryStays ==
  ASSUME RingInv, RingInv', NEW i \in Nat, mHead <= i, i < mTail, mHead' <= i, i < mTail',
         \A q \in Producers : i \in Mpmc!Won(q)' <=> i \in Mpmc!Won(q),
         \A q \in Producers : i \in Mpmc!Won(q) => RingNumber(q, i)' = RingNumber(q, i),
         (\A q \in Producers : i \notin Mpmc!Won(q)) => mData'[Mpmc!Slot(i)] = mData[Mpmc!Slot(i)]
  PROVE  Mpmc!Entry(i)' = Mpmc!Entry(i)
<1>1. RingRead /\ RingRead'
  BY RingReadHere, RingReadThen
<1>2. CASE \E q \in Producers : i \in Mpmc!Won(q)
  <2>1. PICK q \in Producers : i \in Mpmc!Won(q)
    BY <1>2
  <2>2. i \in Mpmc!Won(q)' /\ RingNumber(q, i)' = RingNumber(q, i)
    BY <2>1
  <2>3. Mpmc!Entry(i) = [item |-> <<q, RingNumber(q, i)>>, filled |-> FALSE]
    BY <1>1, <2>1 DEF RingRead
  <2>4. Mpmc!Entry(i)' = [item |-> <<q, RingNumber(q, i)'>>, filled |-> FALSE]
    BY <1>1, <2>2 DEF RingRead
  <2>5. QED
    BY <2>2, <2>3, <2>4
<1>3. CASE \A q \in Producers : i \notin Mpmc!Won(q)
  <2>1. \A q \in Producers : i \notin Mpmc!Won(q)'
    BY <1>3
  <2>2. Mpmc!Entry(i) = [item |-> mData[Mpmc!Slot(i)], filled |-> TRUE]
    BY <1>1, <1>3 DEF RingRead
  <2>3. Mpmc!Entry(i)' = [item |-> mData'[Mpmc!Slot(i)], filled |-> TRUE]
    BY <1>1, <2>1 DEF RingRead, Mpmc!Slot
  <2>4. mData'[Mpmc!Slot(i)] = mData[Mpmc!Slot(i)]
    BY <1>3
  <2>5. QED
    BY <2>2, <2>3, <2>4
<1>4. QED
  BY <1>2, <1>3

\* The entries stay when _head, _tail, the indices won with their numbers, and the objects
\* at the other indices stay.
LEMMA RingQueueStays ==
  ASSUME RingInv, RingInv', mHead' = mHead, mTail' = mTail,
         \A q \in Producers : Mpmc!Won(q)' = Mpmc!Won(q),
         \A q \in Producers : \A i : i \in Mpmc!Won(q) => RingNumber(q, i)' = RingNumber(q, i),
         \A i \in Nat : /\ mHead <= i /\ i < mTail
                        /\ \A q \in Producers : i \notin Mpmc!Won(q)
                        => mData'[Mpmc!Slot(i)] = mData[Mpmc!Slot(i)]
  PROVE  RingQueue' = RingQueue
<1>1. mHead \in Nat /\ mTail \in Nat
  BY DEF RingInv, RingTypes
<1>2. ASSUME NEW i \in Nat, mHead <= i, i < mTail PROVE Mpmc!Entry(i)' = Mpmc!Entry(i)
  <2>1. mHead' <= i /\ i < mTail'
    BY <1>2
  <2>2. (\A q \in Producers : i \notin Mpmc!Won(q)) => mData'[Mpmc!Slot(i)] = mData[Mpmc!Slot(i)]
    BY <1>2
  <2>3. \A q \in Producers : i \in Mpmc!Won(q)' <=> i \in Mpmc!Won(q)
    OBVIOUS
  <2>4. \A q \in Producers : i \in Mpmc!Won(q) => RingNumber(q, i)' = RingNumber(q, i)
    OBVIOUS
  <2>5. QED
    BY <1>2, <2>1, <2>2, <2>3, <2>4, RingEntryStays
<1>3. ASSUME NEW k, k \in 1 .. (mTail - mHead)
      PROVE  Mpmc!Entry(mHead + k - 1)' = Mpmc!Entry(mHead + k - 1)
  <2>1. PICK i : i = mHead + k - 1
    OBVIOUS
  <2>2. i \in Nat /\ mHead <= i /\ i < mTail
    BY <1>1, <1>3, <2>1
  <2>3. Mpmc!Entry(i)' = Mpmc!Entry(i)
    BY <1>2, <2>2
  <2>4. mHead' + k - 1 = i
    BY <2>1
  <2>5. QED
    BY <2>1, <2>3, <2>4
<1>4. QED
  BY <1>3 DEF RingQueue

\* The hands stay when the indices in them and the objects there stay.
LEMMA RingHandStays ==
  ASSUME RingInv, RingInv',
         \A c \in Consumers : HandSize(c)' = HandSize(c) /\ HandFrom(c)' = HandFrom(c),
         \A c \in Consumers : \A i \in Mpmc!Won(c) :
            HandFrom(c) <= i => mData'[Mpmc!Slot(i)] = mData[Mpmc!Slot(i)]
  PROVE  RingHand' = RingHand
<1>1. RingRead /\ RingRead'
  BY RingReadHere, RingReadThen
<1>2. RingHand = [c \in Consumers |-> [k \in 1 .. HandSize(c) |-> mData[Mpmc!Slot(HandFrom(c) + k - 1)]]]
  BY <1>1 DEF RingRead
<1>3. RingHand' = [c \in Consumers |-> [k \in 1 .. HandSize(c)' |-> mData'[Mpmc!Slot(HandFrom(c)' + k - 1)]]]
  BY <1>1 DEF RingRead, Mpmc!Slot
<1>4. ASSUME NEW c \in Consumers, NEW k \in 1 .. HandSize(c)
      PROVE  mData'[Mpmc!Slot(HandFrom(c) + k - 1)] = mData[Mpmc!Slot(HandFrom(c) + k - 1)]
  <2>1. HandSize(c) \in Nat /\ HandFrom(c) \in Nat /\ HandFrom(c) + k - 1 \in Mpmc!Won(c)
    BY <1>1, <1>4 DEF RingRead
  <2>2. HandFrom(c) <= HandFrom(c) + k - 1
    BY <2>1
  <2>3. QED
    BY <2>1, <2>2
<1>5. QED
  BY <1>2, <1>3, <1>4

\* The numbers stay when the promises do.
LEMMA RingSentStays ==
  ASSUME RingInv, RingInv', Promised' = Promised
  PROVE  RingSent' = RingSent
BY RingReadHere, RingReadThen DEF RingRead

\* A step that leaves entries, hands and numbers as they are stutters in FifoQueue.
LEMMA RingStutters ==
  ASSUME RingQueue' = RingQueue, RingHand' = RingHand, RingSent' = RingSent
  PROVE  [Mpmc!Abstract!Next]_Mpmc!Abstract!vars
BY DEF RingQueue, RingHand, RingSent, Mpmc!Abstract!vars

\* A step that appends n unfilled entries of p, within the capacity, is FifoQueue's Reserve(p, n).
LEMMA RingReserves ==
  ASSUME NEW p \in Producers, NEW n \in 1 .. Capacity, Len(RingQueue) + n <= Capacity, RingHand' = RingHand,
         RingQueue' = RingQueue \o [k \in 1 .. n |-> [item |-> <<p, RingSent[p] + k>>, filled |-> FALSE]],
         RingSent' = [RingSent EXCEPT ![p] = @ + n]
  PROVE  Mpmc!Abstract!Next
<1>1. Mpmc!Abstract!Reserve(p, n)
  BY DEF RingQueue, RingHand, RingSent, Mpmc!Abstract!Reserve
<1>2. QED
  BY <1>1 DEF Mpmc!Abstract!Next

\* A step that fills an entry is its Fill.
LEMMA RingFills ==
  ASSUME NEW i, i \in 1 .. Len(RingQueue), ~RingQueue[i].filled, RingHand' = RingHand, RingSent' = RingSent,
         RingQueue' = [RingQueue EXCEPT ![i].filled = TRUE]
  PROVE  Mpmc!Abstract!Next
<1>1. Mpmc!Abstract!Fill(i) /\ i \in 1 .. Len(RingQueue)
  BY DEF RingQueue, RingHand, RingSent, Mpmc!Abstract!Fill
<1>2. QED
  BY <1>1 DEF Mpmc!Abstract!Next, RingQueue

\* A step that moves the first n entries, filled, into a consumer's empty hand is its Take.
LEMMA RingTakes ==
  ASSUME NEW c \in Consumers, NEW n, n \in 1 .. Len(RingQueue), \A i \in 1 .. n : RingQueue[i].filled,
         RingHand[c] = <<>>, RingSent' = RingSent,
         RingHand' = [RingHand EXCEPT ![c] = [i \in 1 .. n |-> RingQueue[i].item]],
         RingQueue' = SubSeq(RingQueue, n + 1, Len(RingQueue))
  PROVE  Mpmc!Abstract!Next
<1>1. Mpmc!Abstract!Take(c, n) /\ n \in 1 .. Len(RingQueue)
  BY DEF RingQueue, RingHand, RingSent, Mpmc!Abstract!Take
<1>2. QED
  BY <1>1 DEF Mpmc!Abstract!Next, RingQueue

\* A step that takes the first item out of a hand is its Deliver.
LEMMA RingDelivers ==
  ASSUME NEW c \in Consumers, RingHand[c] # <<>>, RingQueue' = RingQueue, RingSent' = RingSent,
         RingHand' = [RingHand EXCEPT ![c] = Tail(@)]
  PROVE  Mpmc!Abstract!Next
<1>1. Mpmc!Abstract!Deliver(c)
  BY DEF RingQueue, RingHand, RingSent, Mpmc!Abstract!Deliver
<1>2. QED
  BY <1>1 DEF Mpmc!Abstract!Next

\* enqueue, enqueueBulk: a producer moves no other process, nor _head.
LEMMA EnqStays ==
  ASSUME RingInv, NEW p \in Producers, (\E n \in 1 .. MaxBulk : Mpmc!EnqBegin(p, n)) \/ Mpmc!EnqStep(p)
  PROVE  /\ p \in Mpmc!Procs /\ Stay(p) /\ mHead' = mHead
         /\ \A q \in Producers : q # p => mSent'[q] = mSent[q]
<1>1. p \in Mpmc!Procs /\ RingTypes
  BY RolesApart DEF RingInv
<1>2. /\ mPc \in [Mpmc!Procs -> {"idle"} \cup Enqueueing \cup Dequeueing \cup Working]
      /\ mPos \in [Mpmc!Procs -> Nat] /\ want \in [Mpmc!Procs -> Nat] /\ found \in [Mpmc!Procs -> Nat]
      /\ mSent \in [Producers -> Nat]
  BY <1>1 DEF RingTypes
<1>3. \E a : mPc' = [mPc EXCEPT ![p] = a] \/ mPc' = mPc
  BY DEF Mpmc!EnqStep, Mpmc!EnqBegin, Mpmc!EnqProbe, Mpmc!Probe, Mpmc!EnqRecheck, Mpmc!EnqReload, Mpmc!EnqCas,
         Mpmc!EnqConstruct, Mpmc!EnqPublish, Mpmc!NextSlot, Mpmc!Return, Mpmc!Goto
<1>4. \E a : mPos' = [mPos EXCEPT ![p] = a] \/ mPos' = mPos
  BY DEF Mpmc!EnqStep, Mpmc!EnqBegin, Mpmc!EnqProbe, Mpmc!Probe, Mpmc!EnqRecheck, Mpmc!EnqReload, Mpmc!EnqCas,
         Mpmc!EnqConstruct, Mpmc!EnqPublish, Mpmc!NextSlot, Mpmc!Return, Mpmc!ProbeFrom
<1>5. \E a : found' = [found EXCEPT ![p] = a] \/ found' = found
  BY DEF Mpmc!EnqStep, Mpmc!EnqBegin, Mpmc!EnqProbe, Mpmc!Probe, Mpmc!EnqRecheck, Mpmc!EnqReload, Mpmc!EnqCas,
         Mpmc!EnqConstruct, Mpmc!EnqPublish, Mpmc!NextSlot, Mpmc!Return, Mpmc!ProbeFrom
<1>6. \E a : want' = [want EXCEPT ![p] = a] \/ want' = want
  BY DEF Mpmc!EnqStep, Mpmc!EnqBegin, Mpmc!EnqProbe, Mpmc!Probe, Mpmc!EnqRecheck, Mpmc!EnqReload, Mpmc!EnqCas,
         Mpmc!EnqConstruct, Mpmc!EnqPublish, Mpmc!NextSlot, Mpmc!Return
<1>7. \E a : mSent' = [mSent EXCEPT ![p] = a] \/ mSent' = mSent
  BY DEF Mpmc!EnqStep, Mpmc!EnqBegin, Mpmc!EnqProbe, Mpmc!Probe, Mpmc!EnqRecheck, Mpmc!EnqReload, Mpmc!EnqCas,
         Mpmc!EnqConstruct, Mpmc!EnqPublish, Mpmc!shared
<1>8. mHead' = mHead
  BY DEF Mpmc!EnqStep, Mpmc!EnqBegin, Mpmc!EnqProbe, Mpmc!Probe, Mpmc!EnqRecheck, Mpmc!EnqReload, Mpmc!EnqCas,
         Mpmc!EnqConstruct, Mpmc!EnqPublish, Mpmc!shared
<1>9. \A q \in Mpmc!Procs : q # p => mPc'[q] = mPc[q]
  BY <1>1, <1>2, <1>3
<1>10. \A q \in Mpmc!Procs : q # p => mPos'[q] = mPos[q]
  BY <1>1, <1>2, <1>4
<1>11. \A q \in Mpmc!Procs : q # p => found'[q] = found[q]
  BY <1>1, <1>2, <1>5
<1>12. \A q \in Mpmc!Procs : q # p => want'[q] = want[q]
  BY <1>1, <1>2, <1>6
<1>13. \A q \in Producers : q # p => mSent'[q] = mSent[q]
  BY <1>1, <1>2, <1>7
<1>14. QED
  BY <1>1, <1>8, <1>9, <1>10, <1>11, <1>12, <1>13 DEF Stay

\* dequeue, dequeueBulk: a consumer moves no other process, nor _tail.
LEMMA DeqStays ==
  ASSUME RingInv, NEW p \in Consumers, (\E n \in 1 .. MaxBulk : Mpmc!DeqBegin(p, n)) \/ Mpmc!DeqStep(p)
  PROVE  p \in Mpmc!Procs /\ Stay(p) /\ mTail' = mTail /\ mSent' = mSent
<1>1. p \in Mpmc!Procs /\ RingTypes
  BY RolesApart DEF RingInv
<1>2. /\ mPc \in [Mpmc!Procs -> {"idle"} \cup Enqueueing \cup Dequeueing \cup Working]
      /\ mPos \in [Mpmc!Procs -> Nat] /\ want \in [Mpmc!Procs -> Nat] /\ found \in [Mpmc!Procs -> Nat]
  BY <1>1 DEF RingTypes
<1>3. \E a : mPc' = [mPc EXCEPT ![p] = a] \/ mPc' = mPc
  BY DEF Mpmc!DeqStep, Mpmc!DeqBegin, Mpmc!DeqProbe, Mpmc!Probe, Mpmc!DeqRecheck, Mpmc!DeqReload, Mpmc!DeqCas,
         Mpmc!DeqMoveOut, Mpmc!DeqRelease, Mpmc!NextSlot, Mpmc!Return, Mpmc!Goto
<1>4. \E a : mPos' = [mPos EXCEPT ![p] = a] \/ mPos' = mPos
  BY DEF Mpmc!DeqStep, Mpmc!DeqBegin, Mpmc!DeqProbe, Mpmc!Probe, Mpmc!DeqRecheck, Mpmc!DeqReload, Mpmc!DeqCas,
         Mpmc!DeqMoveOut, Mpmc!DeqRelease, Mpmc!NextSlot, Mpmc!Return, Mpmc!ProbeFrom
<1>5. \E a : found' = [found EXCEPT ![p] = a] \/ found' = found
  BY DEF Mpmc!DeqStep, Mpmc!DeqBegin, Mpmc!DeqProbe, Mpmc!Probe, Mpmc!DeqRecheck, Mpmc!DeqReload, Mpmc!DeqCas,
         Mpmc!DeqMoveOut, Mpmc!DeqRelease, Mpmc!NextSlot, Mpmc!Return, Mpmc!ProbeFrom
<1>6. \E a : want' = [want EXCEPT ![p] = a] \/ want' = want
  BY DEF Mpmc!DeqStep, Mpmc!DeqBegin, Mpmc!DeqProbe, Mpmc!Probe, Mpmc!DeqRecheck, Mpmc!DeqReload, Mpmc!DeqCas,
         Mpmc!DeqMoveOut, Mpmc!DeqRelease, Mpmc!NextSlot, Mpmc!Return
<1>7. mTail' = mTail /\ mSent' = mSent
  BY DEF Mpmc!DeqStep, Mpmc!DeqBegin, Mpmc!DeqProbe, Mpmc!Probe, Mpmc!DeqRecheck, Mpmc!DeqReload, Mpmc!DeqCas,
         Mpmc!DeqMoveOut, Mpmc!DeqRelease, Mpmc!shared
<1>8. \A q \in Mpmc!Procs : q # p => mPc'[q] = mPc[q]
  BY <1>1, <1>2, <1>3
<1>9. \A q \in Mpmc!Procs : q # p => mPos'[q] = mPos[q]
  BY <1>1, <1>2, <1>4
<1>10. \A q \in Mpmc!Procs : q # p => found'[q] = found[q]
  BY <1>1, <1>2, <1>5
<1>11. \A q \in Mpmc!Procs : q # p => want'[q] = want[q]
  BY <1>1, <1>2, <1>6
<1>12. QED
  BY <1>1, <1>7, <1>8, <1>9, <1>10, <1>11 DEF Stay

\* What a step of p leaves of the other processes.
LEMMA OthersStay ==
  ASSUME NEW p \in Mpmc!Procs, Stay(p), \A q \in Producers : q # p => mSent'[q] = mSent[q]
  PROVE  /\ \A q \in Mpmc!Procs : q # p => Mpmc!Won(q)' = Mpmc!Won(q)
         /\ \A q \in Producers : q # p => Promised'[q] = Promised[q]
                                          /\ \A i : RingNumber(q, i)' = RingNumber(q, i)
         /\ \A c \in Consumers : c # p => HandSize(c)' = HandSize(c) /\ HandFrom(c)' = HandFrom(c)
<1>1. \A q \in Mpmc!Procs : q # p => mPc'[q] = mPc[q] /\ mPos'[q] = mPos[q] /\ found'[q] = found[q]
  BY DEF Stay
<1>2. \A q \in Mpmc!Procs : q # p => Mpmc!Won(q)' = Mpmc!Won(q)
  BY <1>1 DEF Mpmc!Won
<1>3. \A q \in Producers : q # p => Promised'[q] = Promised[q]
  BY <1>1, RolesApart DEF Promised
<1>4. \A q \in Producers : q # p => \A i : RingNumber(q, i)' = RingNumber(q, i)
  BY <1>1, <1>3, RolesApart DEF RingNumber
<1>5. \A c \in Consumers : c # p => HandSize(c)' = HandSize(c) /\ HandFrom(c)' = HandFrom(c)
  BY <1>1, RolesApart DEF HandSize, HandFrom
<1>6. QED
  BY <1>2, <1>3, <1>4, <1>5

\* enqueueBulk, dequeueBulk: a step that wins nothing, of a process that works on nothing.
LEMMA RingQuietMaps ==
  ASSUME RingInv, RingInv', NEW p \in Mpmc!Procs, UNCHANGED ringVars, Stay(p),
         mPc[p] \notin Working, mPc'[p] \notin Working
  PROVE  RingQueue' = RingQueue /\ RingHand' = RingHand /\ RingSent' = RingSent
<1>1. UNCHANGED <<mHead, mTail, sequence, mData, mSent>>
  BY DEF ringVars
<1>2. /\ \A q \in Mpmc!Procs : q # p => Mpmc!Won(q)' = Mpmc!Won(q)
      /\ \A q \in Producers : q # p => Promised'[q] = Promised[q]
                                       /\ \A i : RingNumber(q, i)' = RingNumber(q, i)
      /\ \A c \in Consumers : c # p => HandSize(c)' = HandSize(c) /\ HandFrom(c)' = HandFrom(c)
  BY <1>1, OthersStay
<1>3. Mpmc!Won(p) = {} /\ Mpmc!Won(p)' = {}
  BY DEF Mpmc!Won, Working
<1>4. p \in Producers => Promised'[p] = Promised[p]
  BY <1>1 DEF Promised, Working
<1>5. Promised' = Promised
  BY <1>2, <1>4 DEF Promised
<1>6. \A q \in Producers : Mpmc!Won(q)' = Mpmc!Won(q)
  BY <1>2, <1>3, RolesApart
<1>7. \A q \in Producers : \A i : i \in Mpmc!Won(q) => RingNumber(q, i)' = RingNumber(q, i)
  BY <1>2, <1>3
<1>8. RingQueue' = RingQueue
  BY <1>1, <1>6, <1>7, RingQueueStays
<1>9. p \in Consumers => HandSize(p) = 0 /\ HandSize(p)' = 0
  BY DEF HandSize, Working
<1>10. RingHand' = RingHand
  <2>1. RingRead /\ RingRead'
    BY RingReadHere, RingReadThen
  <2>2. RingHand = [c \in Consumers |-> [k \in 1 .. HandSize(c) |-> mData[Mpmc!Slot(HandFrom(c) + k - 1)]]]
    BY <2>1 DEF RingRead
  <2>3. RingHand' = [c \in Consumers |-> [k \in 1 .. HandSize(c)' |-> mData[Mpmc!Slot(HandFrom(c)' + k - 1)]]]
    BY <1>1, <2>1 DEF RingRead, Mpmc!Slot
  <2>4. ASSUME NEW c \in Consumers
        PROVE  [k \in 1 .. HandSize(c)' |-> mData[Mpmc!Slot(HandFrom(c)' + k - 1)]]
                 = [k \in 1 .. HandSize(c) |-> mData[Mpmc!Slot(HandFrom(c) + k - 1)]]
    <3>1. CASE c # p
      BY <1>2, <3>1
    <3>2. CASE c = p
      <4>1. HandSize(c) = 0 /\ HandSize(c)' = 0
        BY <1>9, <3>2
      <4>2. \A k : k \notin 1 .. 0
        OBVIOUS
      <4>3. QED
        BY <4>1, <4>2
    <3>3. QED
      BY <3>1, <3>2
  <2>5. QED
    BY <2>2, <2>3, <2>4
<1>11. QED
  BY <1>5, <1>8, <1>10, RingSentStays

\* enqueue, enqueueBulk: the steps that win nothing change nothing of FifoQueue.
LEMMA EnqMoveMaps ==
  ASSUME RingInv, RingInv', NEW p \in Producers,
         \/ \E n \in 1 .. MaxBulk : Mpmc!EnqBegin(p, n)
         \/ Mpmc!EnqProbe(p) \/ Mpmc!EnqRecheck(p) \/ Mpmc!EnqReload(p)
         \/ Mpmc!EnqCas(p) /\ mTail # mPos[p]
  PROVE  RingQueue' = RingQueue /\ RingHand' = RingHand /\ RingSent' = RingSent
<1>1. (\E n \in 1 .. MaxBulk : Mpmc!EnqBegin(p, n)) \/ Mpmc!EnqStep(p)
  BY DEF Mpmc!EnqStep
<1>2. p \in Mpmc!Procs /\ Stay(p)
  BY <1>1, EnqStays
<1>3. UNCHANGED ringVars
  BY DEF Mpmc!EnqBegin, Mpmc!EnqProbe, Mpmc!Probe, Mpmc!EnqRecheck, Mpmc!EnqReload, Mpmc!EnqCas, Mpmc!shared, ringVars
<1>4. mPc[p] \notin Working
  BY DEF Mpmc!EnqBegin, Mpmc!EnqProbe, Mpmc!Probe, Mpmc!EnqRecheck, Mpmc!EnqReload, Mpmc!EnqCas, Working
<1>5. \E l \in {"idle", "probeFree", "casTail", "recheckFree", "reloadTail"} : mPc' = [mPc EXCEPT ![p] = l]
  BY DEF Mpmc!EnqBegin, Mpmc!EnqProbe, Mpmc!Probe, Mpmc!EnqRecheck, Mpmc!EnqReload, Mpmc!EnqCas, Mpmc!Return, Mpmc!Goto
<1>6. mPc \in [Mpmc!Procs -> {"idle"} \cup Enqueueing \cup Dequeueing \cup Working]
  BY DEF RingInv, RingTypes
<1>7. mPc'[p] \notin Working
  BY <1>2, <1>5, <1>6 DEF Working
<1>8. QED
  BY <1>2, <1>3, <1>4, <1>7, RingQuietMaps

\* enqueueBulk: the CAS that wins n indices reserves n places.
LEMMA EnqWinMaps ==
  ASSUME RingInv, RingInv', NEW p \in Producers, Mpmc!EnqCas(p), mTail = mPos[p]
  PROVE  Mpmc!Abstract!Next
<1>1. /\ p \in Mpmc!Procs /\ Stay(p) /\ mHead' = mHead
      /\ \A q \in Producers : q # p => mSent'[q] = mSent[q]
  BY EnqStays DEF Mpmc!EnqStep
<1>2. mPc[p] = "casTail" /\ found[p] \in Nat /\ mSent[p] \in Nat
  BY <1>1, AtWork DEF Mpmc!EnqCas
<1>3. PICK n \in Nat : n = found[p]
  BY <1>2
<1>4. /\ mTail' = mTail + n /\ UNCHANGED <<mPos, found, sequence, mData, mSent>>
      /\ mPc' = [mPc EXCEPT ![p] = "construct"]
  BY <1>3 DEF Mpmc!EnqCas, Mpmc!Goto
<1>5. mPc'[p] = "construct"
  BY <1>1, <1>4 DEF RingInv, RingTypes
<1>6. /\ mHead \in Nat /\ mTail \in Nat /\ mHead <= mTail /\ Capacity \in Nat
      /\ mTail' <= mHead' + Capacity
  BY LibraryAssumption DEF RingInv, RingTypes
<1>7. n > 0 /\ n <= Capacity
  <2>1. InCall(p)
    BY <1>1 DEF RingInv
  <2>2. QED
    BY <1>2, <1>3, <2>1 DEF InCall
<1>8. n \in 1 .. Capacity /\ (mTail - mHead) + n <= Capacity
  BY <1>1, <1>4, <1>6, <1>7
<1>9. /\ \A q \in Mpmc!Procs : q # p => Mpmc!Won(q)' = Mpmc!Won(q)
      /\ \A q \in Producers : q # p => Promised'[q] = Promised[q] /\ \A i : RingNumber(q, i)' = RingNumber(q, i)
      /\ \A c \in Consumers : c # p => HandSize(c)' = HandSize(c) /\ HandFrom(c)' = HandFrom(c)
  BY <1>1, OthersStay
<1>10. RingHand' = RingHand
  <2>1. \A c \in Consumers : HandSize(c)' = HandSize(c) /\ HandFrom(c)' = HandFrom(c)
    BY <1>9, RolesApart
  <2>2. \A c \in Consumers : \A i \in Mpmc!Won(c) :
          HandFrom(c) <= i => mData'[Mpmc!Slot(i)] = mData[Mpmc!Slot(i)]
    BY <1>4
  <2>3. QED
    BY <2>1, <2>2, RingHandStays
<1>11. Mpmc!Won(p) = {} /\ Mpmc!Won(p)' = mTail .. mTail + n - 1
  BY <1>2, <1>3, <1>4, <1>5 DEF Mpmc!Won
<1>12. Promised[p] = mSent[p] /\ Promised'[p] = mSent[p] + n
  BY <1>2, <1>3, <1>4, <1>5 DEF Promised
<1>13. RingRead /\ RingRead'
  BY RingReadHere, RingReadThen
<1>14. RingSent = Promised /\ RingSent' = [RingSent EXCEPT ![p] = @ + n]
  <2>1. RingSent = Promised /\ RingSent' = Promised'
    BY <1>13 DEF RingRead
  <2>2. Promised' = [Promised EXCEPT ![p] = Promised[p] + n]
    BY <1>9, <1>12 DEF Promised
  <2>3. QED
    BY <2>1, <2>2
<1>15. ASSUME NEW i \in Nat, mHead <= i, i < mTail PROVE Mpmc!Entry(i)' = Mpmc!Entry(i)
  <2>1. i \notin Mpmc!Won(p)' /\ i \notin Mpmc!Won(p)
    BY <1>3, <1>6, <1>11, <1>15
  <2>2. \A q \in Producers : i \in Mpmc!Won(q)' <=> i \in Mpmc!Won(q)
    BY <1>9, <2>1, RolesApart
  <2>3. \A q \in Producers : i \in Mpmc!Won(q) => RingNumber(q, i)' = RingNumber(q, i)
    BY <1>9, <2>1
  <2>4. mHead' <= i /\ i < mTail' /\ mData' = mData
    BY <1>1, <1>3, <1>4, <1>6, <1>15
  <2>5. QED
    BY <1>15, <2>2, <2>3, <2>4, RingEntryStays
<1>16. ASSUME NEW i \in Nat, mTail <= i, i < mTail + n
       PROVE  Mpmc!Entry(i)' = [item |-> <<p, mSent[p] + (i - mTail + 1)>>, filled |-> FALSE]
  <2>1. i \in Mpmc!Won(p)'
    BY <1>3, <1>6, <1>11, <1>16
  <2>2. Mpmc!Entry(i)' = [item |-> <<p, RingNumber(p, i)'>>, filled |-> FALSE]
    BY <1>13, <2>1 DEF RingRead
  <2>3. RingNumber(p, i)' = (mSent[p] + n) - (mTail + n - 1 - i)
    BY <1>3, <1>4, <1>12 DEF RingNumber
  <2>4. RingNumber(p, i)' = mSent[p] + (i - mTail + 1)
    BY <1>2, <1>3, <1>6, <2>3
  <2>5. QED
    BY <2>2, <2>4
<1>17. PICK m \in Nat : m = mTail - mHead
  BY <1>6
<1>18. PICK old : old = [k \in 1 .. m |-> Mpmc!Entry(mHead + k - 1)]
  OBVIOUS
<1>19. PICK more : more = [k \in 1 .. n |-> [item |-> <<p, mSent[p] + k>>, filled |-> FALSE]]
  OBVIOUS
<1>20. PICK new : new = [k \in 1 .. (m + n) |-> Mpmc!Entry(mHead + k - 1)']
  OBVIOUS
<1>21. RingQueue = old /\ RingQueue' = new
  <2>1. RingQueue = old
    BY <1>17, <1>18 DEF RingQueue
  <2>2. mTail' - mHead' = m + n
    BY <1>1, <1>3, <1>4, <1>6, <1>17
  <2>3. RingQueue' = new
    BY <1>20, <2>2 DEF RingQueue
  <2>4. QED
    BY <2>1, <2>3
<1>22. PICK S : S = {Mpmc!Entry(mHead + k - 1) : k \in 1 .. m}
                    \cup {[item |-> <<p, mSent[p] + k>>, filled |-> FALSE] : k \in 1 .. n}
  OBVIOUS
<1>23. old \in [1 .. m -> S] /\ more \in [1 .. n -> S]
  BY <1>18, <1>19, <1>22
<1>24. old \o more = [k \in 1 .. (m + n) |-> IF k <= m THEN old[k] ELSE more[k - m]]
  <2>1. old \in Seq(S) /\ more \in Seq(S)
    BY <1>3, <1>17, <1>23
  <2>2. Len(old) = m /\ Len(more) = n
    BY <1>3, <1>17, <1>18, <1>19
  <2>3. old \o more = [k \in 1 .. Len(old) + Len(more) |-> IF k <= Len(old) THEN old[k] ELSE more[k - Len(old)]]
    BY <2>1, ConcatIs, Zenon
  <2>4. QED
    BY <2>2, <2>3
<1>25. ASSUME NEW k, k \in 1 .. (m + n) PROVE new[k] = IF k <= m THEN old[k] ELSE more[k - m]
  <2>1. PICK i : i = mHead + k - 1
    OBVIOUS
  <2>2. k \in Nat /\ k > 0 /\ k <= m + n
    BY <1>3, <1>17, <1>25
  <2>3. i \in Nat /\ mHead <= i /\ i < mTail + n /\ (k <= m <=> i < mTail) /\ i - mTail + 1 = k - m
    BY <1>3, <1>6, <1>17, <2>1, <2>2
  <2>4. new[k] = Mpmc!Entry(i)'
    <3>1. new[k] = Mpmc!Entry(mHead + k - 1)'
      BY <1>20, <1>25
    <3>2. mHead' + k - 1 = i
      BY <1>1, <2>1
    <3>3. QED
      BY <3>1, <3>2
  <2>5. CASE k <= m
    <3>1. Mpmc!Entry(i)' = Mpmc!Entry(i)
      BY <1>15, <2>3, <2>5
    <3>2. k \in 1 .. m
      BY <2>2, <2>5, <1>17
    <3>3. old[k] = Mpmc!Entry(i)
      BY <1>18, <2>1, <3>2
    <3>4. QED
      BY <2>4, <2>5, <3>1, <3>3
  <2>6. CASE ~(k <= m)
    <3>1. mTail <= i
      BY <1>6, <2>3, <2>6
    <3>2. Mpmc!Entry(i)' = [item |-> <<p, mSent[p] + (i - mTail + 1)>>, filled |-> FALSE]
      BY <1>16, <2>3, <3>1
    <3>3. k - m \in 1 .. n
      BY <1>3, <2>2, <2>6, <1>17
    <3>4. more[k - m] = [item |-> <<p, mSent[p] + (k - m)>>, filled |-> FALSE]
      BY <1>19, <3>3
    <3>5. QED
      BY <2>3, <2>4, <2>6, <3>2, <3>4
  <2>7. QED
    BY <2>5, <2>6
<1>26. new = old \o more
  BY <1>20, <1>24, <1>25
<1>27. Len(RingQueue) + n <= Capacity
  BY <1>8, <1>17, <1>18, <1>21
<1>28. RingQueue' = RingQueue \o [k \in 1 .. n |-> [item |-> <<p, RingSent[p] + k>>, filled |-> FALSE]]
  BY <1>12, <1>14, <1>19, <1>21, <1>26
<1>29. QED
  BY <1>8, <1>10, <1>14, <1>27, <1>28, RingReserves

\* enqueueBulk: constructing an item changes nothing of FifoQueue.
LEMMA EnqConstructMaps ==
  ASSUME RingInv, RingInv', RingCarried, NEW p \in Producers, Mpmc!EnqConstruct(p)
  PROVE  RingQueue' = RingQueue /\ RingHand' = RingHand /\ RingSent' = RingSent /\ RingCarried'
<1>1. /\ p \in Mpmc!Procs /\ Stay(p) /\ mHead' = mHead
      /\ \A q \in Producers : q # p => mSent'[q] = mSent[q]
  BY EnqStays DEF Mpmc!EnqStep
<1>2. mPc[p] = "construct" /\ mPc[p] \in Working
  BY DEF Mpmc!EnqConstruct, Working
<1>3. /\ mPos[p] \in Nat /\ found[p] \in Nat /\ mSent[p] \in Nat /\ found[p] > 0
      /\ Mpmc!Won(p) = mPos[p] .. mPos[p] + found[p] - 1
  BY <1>1, <1>2, AtWork
<1>4. PICK i \in Nat : i = mPos[p]
  BY <1>3
<1>5. PICK item : item = <<p, mSent[p] + 1>>
  OBVIOUS
<1>6. /\ UNCHANGED <<mTail, sequence, mPos, found>> /\ mPc' = [mPc EXCEPT ![p] = "publish"]
      /\ mSent'[p] = mSent[p] + 1 /\ mData' = [mData EXCEPT ![Mpmc!Slot(i)] = item]
  BY <1>4, <1>5 DEF Mpmc!EnqConstruct, Mpmc!Goto, RingInv, RingTypes
<1>7. mPc'[p] = "publish"
  BY <1>1, <1>6 DEF RingInv, RingTypes
<1>8. i \in Mpmc!Won(p) /\ Mpmc!Won(p)' = Mpmc!Won(p)
  BY <1>2, <1>3, <1>4, <1>6, <1>7 DEF Mpmc!Won
<1>9. /\ \A q \in Mpmc!Procs : \A j \in Mpmc!Won(q) : j \in Nat /\ (j # i => Mpmc!Slot(j) # Mpmc!Slot(i))
      /\ \A j \in Nat : mHead <= j /\ j < mHead + Capacity /\ j # i => Mpmc!Slot(j) # Mpmc!Slot(i)
  BY <1>8, ProducerApart
<1>10. \A j \in Nat : Mpmc!Slot(j) # Mpmc!Slot(i) => mData'[Mpmc!Slot(j)] = mData[Mpmc!Slot(j)]
  <2>1. mData \in [Mpmc!Slots -> (Producers \X Nat) \cup {Nothing}]
    BY DEF RingInv, RingTypes
  <2>2. QED
    BY <1>6, <2>1, SlotType
<1>11. \A q \in Mpmc!Procs : \A j \in Mpmc!Won(q) : q # p => mData'[Mpmc!Slot(j)] = mData[Mpmc!Slot(j)]
  <2>1. ASSUME NEW q \in Mpmc!Procs, NEW j, j \in Mpmc!Won(q), q # p PROVE mData'[Mpmc!Slot(j)] = mData[Mpmc!Slot(j)]
    <3>1. j # i
      BY <1>1, <1>8, <2>1 DEF RingInv, WonOnce
    <3>2. QED
      BY <1>9, <1>10, <2>1, <3>1
  <2>2. QED
    BY <2>1
<1>12. /\ \A q \in Mpmc!Procs : q # p => Mpmc!Won(q)' = Mpmc!Won(q)
       /\ \A q \in Producers : q # p => Promised'[q] = Promised[q] /\ \A j : RingNumber(q, j)' = RingNumber(q, j)
       /\ \A c \in Consumers : c # p => HandSize(c)' = HandSize(c) /\ HandFrom(c)' = HandFrom(c)
  BY <1>1, OthersStay
<1>13. Promised'[p] = Promised[p]
  <2>1. Promised[p] = mSent[p] + found[p] /\ Promised'[p] = mSent'[p] + found'[p] - 1
    BY <1>2, <1>7 DEF Promised
  <2>2. QED
    BY <1>3, <1>6, <2>1
<1>14. Promised' = Promised
  BY <1>12, <1>13 DEF Promised
<1>15. \A j : RingNumber(p, j)' = RingNumber(p, j)
  BY <1>6, <1>13 DEF RingNumber
<1>16. RingQueue' = RingQueue
  <2>1. \A q \in Producers : Mpmc!Won(q)' = Mpmc!Won(q)
    BY <1>8, <1>12, RolesApart
  <2>2. \A q \in Producers : \A j : j \in Mpmc!Won(q) => RingNumber(q, j)' = RingNumber(q, j)
    BY <1>12, <1>15
  <2>3. \A j \in Nat : /\ mHead <= j /\ j < mTail
                       /\ \A q \in Producers : j \notin Mpmc!Won(q)
                       => mData'[Mpmc!Slot(j)] = mData[Mpmc!Slot(j)]
    <3>1. ASSUME NEW j \in Nat, mHead <= j, j < mTail, j \notin Mpmc!Won(p) PROVE mData'[Mpmc!Slot(j)] = mData[Mpmc!Slot(j)]
      <4>1. j # i
        BY <1>8, <3>1
      <4>2. j < mHead + Capacity
        BY <3>1, RingFacts
      <4>3. QED
        BY <1>9, <1>10, <3>1, <4>1, <4>2
    <3>2. QED
      BY <3>1
  <2>4. QED
    BY <1>1, <1>6, <2>1, <2>2, <2>3, RingQueueStays
<1>17. RingHand' = RingHand
  <2>1. \A c \in Consumers : HandSize(c)' = HandSize(c) /\ HandFrom(c)' = HandFrom(c)
    BY <1>12, RolesApart
  <2>2. \A c \in Consumers : \A j \in Mpmc!Won(c) :
          HandFrom(c) <= j => mData'[Mpmc!Slot(j)] = mData[Mpmc!Slot(j)]
    BY <1>11, RolesApart
  <2>3. QED
    BY <2>1, <2>2, RingHandStays
<1>18. RingCarried'
  <2>1. mData'[Mpmc!Slot(mPos'[p])] = <<p, mSent'[p]>>
    <3>1. mData \in [Mpmc!Slots -> (Producers \X Nat) \cup {Nothing}] /\ Mpmc!Slot(i) \in Mpmc!Slots
      BY SlotType DEF RingInv, RingTypes
    <3>2. QED
      BY <1>4, <1>5, <1>6, <3>1
  <2>2. ASSUME NEW q \in Producers, q # p, mPc'[q] = "publish"
        PROVE  mData'[Mpmc!Slot(mPos'[q])] = <<q, mSent'[q]>>
    <3>1. mPc[q] = "publish" /\ mPos'[q] = mPos[q] /\ mSent'[q] = mSent[q] /\ q \in Mpmc!Procs
      BY <1>1, <2>2, RolesApart DEF Stay
    <3>2. mPos[q] \in Mpmc!Won(q)
      BY <3>1, AtWork DEF Working
    <3>3. mData'[Mpmc!Slot(mPos[q])] = mData[Mpmc!Slot(mPos[q])]
      BY <1>11, <2>2, <3>1, <3>2
    <3>4. mData[Mpmc!Slot(mPos[q])] = <<q, mSent[q]>>
      BY <3>1 DEF RingCarried
    <3>5. QED
      BY <3>1, <3>3, <3>4
  <2>3. QED
    BY <2>1, <2>2 DEF RingCarried, Mpmc!Slot
<1>19. QED
  BY <1>14, <1>16, <1>17, <1>18, RingSentStays

\* enqueueBulk: the store of the sequence number fills the entry at the index.
LEMMA EnqPublishMaps ==
  ASSUME RingInv, RingInv', RingCarried, NEW p \in Producers, Mpmc!EnqPublish(p)
  PROVE  Mpmc!Abstract!Next
<1>1. /\ p \in Mpmc!Procs /\ Stay(p) /\ mHead' = mHead
      /\ \A q \in Producers : q # p => mSent'[q] = mSent[q]
  BY EnqStays DEF Mpmc!EnqStep
<1>2. mPc[p] = "publish" /\ mPc[p] \in Working
  BY DEF Mpmc!EnqPublish, Working
<1>3. /\ mPos[p] \in Nat /\ found[p] \in Nat /\ mSent[p] \in Nat /\ found[p] > 0
      /\ Mpmc!Won(p) = mPos[p] .. mPos[p] + found[p] - 1
  BY <1>1, <1>2, AtWork
<1>4. PICK j \in Nat : j = mPos[p]
  BY <1>3
<1>5. UNCHANGED <<mTail, mData, mSent>>
  BY DEF Mpmc!EnqPublish
<1>6. /\ mPos \in [Mpmc!Procs -> Nat] /\ found \in [Mpmc!Procs -> Nat]
      /\ mPc \in [Mpmc!Procs -> {"idle"} \cup Enqueueing \cup Dequeueing \cup Working]
  BY DEF RingInv, RingTypes
<1>7. \/ found[p] = 1 /\ mPc'[p] = "idle"
      \/ found[p] # 1 /\ mPc'[p] = "construct" /\ found'[p] = found[p] - 1 /\ mPos'[p] = j + 1
  BY <1>1, <1>4, <1>6 DEF Mpmc!EnqPublish, Mpmc!NextSlot, Mpmc!Return, Mpmc!Goto
<1>8. /\ \A q \in Mpmc!Procs : q # p => Mpmc!Won(q)' = Mpmc!Won(q)
      /\ \A q \in Producers : q # p => Promised'[q] = Promised[q] /\ \A i : RingNumber(q, i)' = RingNumber(q, i)
      /\ \A c \in Consumers : c # p => HandSize(c)' = HandSize(c) /\ HandFrom(c)' = HandFrom(c)
  BY <1>1, OthersStay
<1>9. /\ \A i : i \in Mpmc!Won(p)' <=> i \in Mpmc!Won(p) /\ i # j
      /\ \A i \in Mpmc!Won(p) : i # j => RingNumber(p, i)' = RingNumber(p, i)
      /\ RingNumber(p, j) = mSent[p] /\ Promised'[p] = Promised[p]
  <2>1. Promised[p] = mSent[p] + found[p] - 1 /\ RingNumber(p, j) = Promised[p] - (j + found[p] - 1 - j)
    BY <1>2, <1>4 DEF Promised, RingNumber
  <2>2. RingNumber(p, j) = mSent[p]
    BY <1>3, <2>1
  <2>3. CASE found[p] = 1 /\ mPc'[p] = "idle"
    <3>1. Mpmc!Won(p)' = {} /\ Promised'[p] = mSent[p]
      BY <1>5, <2>3 DEF Mpmc!Won, Promised
    <3>2. \A i \in Mpmc!Won(p) : i = j
      BY <1>3, <1>4, <2>3
    <3>3. Promised'[p] = Promised[p]
      BY <1>3, <2>1, <2>3, <3>1
    <3>4. QED
      BY <2>2, <3>1, <3>2, <3>3
  <2>4. CASE found[p] # 1 /\ mPc'[p] = "construct" /\ found'[p] = found[p] - 1 /\ mPos'[p] = j + 1
    <3>1. Mpmc!Won(p)' = j + 1 .. (j + 1) + (found[p] - 1) - 1 /\ Promised'[p] = mSent[p] + (found[p] - 1)
      BY <1>5, <2>4 DEF Mpmc!Won, Promised
    <3>2. \A i : i \in Mpmc!Won(p)' <=> i \in Mpmc!Won(p) /\ i # j
      BY <1>3, <1>4, <3>1
    <3>3. Promised'[p] = Promised[p]
      BY <1>3, <2>1, <3>1
    <3>4. ASSUME NEW i, i \in Mpmc!Won(p) PROVE RingNumber(p, i)' = RingNumber(p, i)
      <4>1. i \in Nat /\ Promised[p] \in Int
        BY <1>3, <2>1, <3>4
      <4>2. RingNumber(p, i) = Promised[p] - (j + found[p] - 1 - i)
        BY <1>4 DEF RingNumber
      <4>3. RingNumber(p, i)' = Promised[p] - ((j + 1) + (found[p] - 1) - 1 - i)
        BY <2>4, <3>3 DEF RingNumber
      <4>4. \A a, b, c, d \in Int : a - (b + c - 1 - d) = a - ((b + 1) + (c - 1) - 1 - d)
        OBVIOUS
      <4>5. j \in Int /\ found[p] \in Int /\ i \in Int
        BY <1>3, <1>4, <4>1
      <4>6. QED
        BY <4>1, <4>2, <4>3, <4>4, <4>5
    <3>5. QED
      BY <2>2, <3>2, <3>3, <3>4
  <2>5. QED
    BY <1>7, <2>3, <2>4
<1>10. RingSent' = RingSent
  <2>1. Promised' = Promised
    BY <1>8, <1>9 DEF Promised
  <2>2. QED
    BY <2>1, RingSentStays
<1>11. RingHand' = RingHand
  <2>1. \A c \in Consumers : HandSize(c)' = HandSize(c) /\ HandFrom(c)' = HandFrom(c)
    BY <1>8, RolesApart
  <2>2. \A c \in Consumers : \A i \in Mpmc!Won(c) :
          HandFrom(c) <= i => mData'[Mpmc!Slot(i)] = mData[Mpmc!Slot(i)]
    BY <1>5
  <2>3. QED
    BY <2>1, <2>2, RingHandStays
<1>12. RingRead /\ RingRead'
  BY RingReadHere, RingReadThen
<1>13. j \in Mpmc!Won(p)
  BY <1>3, <1>4
<1>14. mHead \in Nat /\ mTail \in Nat /\ mHead <= j /\ j < mTail
  BY <1>13, ProducerApart, RingFacts
<1>15. Mpmc!Entry(j) = [item |-> <<p, mSent[p]>>, filled |-> FALSE]
  BY <1>9, <1>12, <1>13 DEF RingRead
<1>16. Mpmc!Entry(j)' = [item |-> <<p, mSent[p]>>, filled |-> TRUE]
  <2>1. \A q \in Producers : j \notin Mpmc!Won(q)'
    BY <1>1, <1>8, <1>9, <1>13, RolesApart DEF RingInv, WonOnce
  <2>2. mHead' <= j /\ j < mTail'
    BY <1>1, <1>5, <1>14
  <2>3. Mpmc!Entry(j)' = [item |-> mData'[Mpmc!Slot(j)], filled |-> TRUE]
    BY <1>12, <2>1, <2>2 DEF RingRead, Mpmc!Slot
  <2>4. mData[Mpmc!Slot(j)] = <<p, mSent[p]>>
    BY <1>2, <1>4 DEF RingCarried
  <2>5. QED
    BY <1>5, <2>3, <2>4
<1>17. ASSUME NEW i \in Nat, mHead <= i, i < mTail, i # j PROVE Mpmc!Entry(i)' = Mpmc!Entry(i)
  <2>1. \A q \in Producers : i \in Mpmc!Won(q)' <=> i \in Mpmc!Won(q)
    BY <1>8, <1>9, <1>17, RolesApart
  <2>2. \A q \in Producers : i \in Mpmc!Won(q) => RingNumber(q, i)' = RingNumber(q, i)
    BY <1>8, <1>9, <1>17
  <2>3. mHead' <= i /\ i < mTail' /\ mData' = mData
    BY <1>1, <1>5, <1>17
  <2>4. QED
    BY <1>17, <2>1, <2>2, <2>3, RingEntryStays
<1>18. PICK m \in Nat : m = mTail - mHead
  BY <1>14
<1>19. PICK old : old = [k \in 1 .. m |-> Mpmc!Entry(mHead + k - 1)]
  OBVIOUS
<1>20. PICK new : new = [k \in 1 .. m |-> Mpmc!Entry(mHead + k - 1)']
  OBVIOUS
<1>21. RingQueue = old /\ RingQueue' = new
  BY <1>1, <1>5, <1>18, <1>19, <1>20 DEF RingQueue
<1>22. PICK h : h = j - mHead + 1
  OBVIOUS
<1>23. h \in 1 .. m /\ mHead + h - 1 = j
  BY <1>14, <1>18, <1>22
<1>24. old[h] = [item |-> <<p, mSent[p]>>, filled |-> FALSE] /\ new[h] = [item |-> <<p, mSent[p]>>, filled |-> TRUE]
  <2>1. old[h] = Mpmc!Entry(j)
    BY <1>19, <1>23
  <2>2. new[h] = Mpmc!Entry(mHead + h - 1)'
    BY <1>20, <1>23
  <2>3. mHead' + h - 1 = j
    BY <1>1, <1>23
  <2>4. new[h] = Mpmc!Entry(j)'
    BY <2>2, <2>3
  <2>5. QED
    BY <1>15, <1>16, <2>1, <2>4
<1>25. ASSUME NEW k, k \in 1 .. m, k # h PROVE new[k] = old[k]
  <2>1. PICK i : i = mHead + k - 1
    OBVIOUS
  <2>2. i \in Nat /\ i # j /\ mHead <= i /\ i < mTail
    BY <1>14, <1>18, <1>22, <1>25, <2>1
  <2>3. old[k] = Mpmc!Entry(i)
    BY <1>19, <1>25, <2>1
  <2>4. new[k] = Mpmc!Entry(mHead + k - 1)'
    BY <1>20, <1>25
  <2>5. mHead' + k - 1 = i
    BY <1>1, <2>1
  <2>6. new[k] = Mpmc!Entry(i)'
    BY <2>4, <2>5
  <2>7. QED
    BY <1>17, <2>2, <2>3, <2>6
<1>26. new = [old EXCEPT ![h].filled = TRUE]
  <2>1. [old[h] EXCEPT !.filled = TRUE] = new[h]
    <3>1. ASSUME NEW x, NEW y \in BOOLEAN, NEW z \in BOOLEAN
          PROVE  [[item |-> x, filled |-> y] EXCEPT !.filled = z] = [item |-> x, filled |-> z]
      OBVIOUS
    <3>2. FALSE \in BOOLEAN /\ TRUE \in BOOLEAN
      OBVIOUS
    <3>3. QED
      BY <1>24, <3>1, <3>2, Zenon
  <2>2. new = [old EXCEPT ![h] = new[h]]
    BY <1>19, <1>20, <1>23, <1>25
  <2>3. QED
    BY <2>1, <2>2
<1>27. h \in 1 .. Len(RingQueue) /\ ~RingQueue[h].filled
  <2>1. Len(old) = m
    BY <1>19
  <2>2. QED
    BY <1>21, <1>23, <1>24, <2>1
<1>28. QED
  BY <1>10, <1>11, <1>21, <1>26, <1>27, RingFills

\* dequeue, dequeueBulk: the steps that win nothing change nothing of FifoQueue.
LEMMA DeqMoveMaps ==
  ASSUME RingInv, RingInv', NEW c \in Consumers,
         \/ \E n \in 1 .. MaxBulk : Mpmc!DeqBegin(c, n)
         \/ Mpmc!DeqProbe(c) \/ Mpmc!DeqRecheck(c) \/ Mpmc!DeqReload(c)
         \/ Mpmc!DeqCas(c) /\ mHead # mPos[c]
  PROVE  RingQueue' = RingQueue /\ RingHand' = RingHand /\ RingSent' = RingSent
<1>1. (\E n \in 1 .. MaxBulk : Mpmc!DeqBegin(c, n)) \/ Mpmc!DeqStep(c)
  BY DEF Mpmc!DeqStep
<1>2. c \in Mpmc!Procs /\ Stay(c)
  BY <1>1, DeqStays
<1>3. UNCHANGED ringVars
  BY DEF Mpmc!DeqBegin, Mpmc!DeqProbe, Mpmc!Probe, Mpmc!DeqRecheck, Mpmc!DeqReload, Mpmc!DeqCas, Mpmc!shared, ringVars
<1>4. mPc[c] \notin Working
  BY DEF Mpmc!DeqBegin, Mpmc!DeqProbe, Mpmc!Probe, Mpmc!DeqRecheck, Mpmc!DeqReload, Mpmc!DeqCas, Working
<1>5. \E l \in {"idle", "probeItem", "casHead", "recheckItem", "reloadHead"} : mPc' = [mPc EXCEPT ![c] = l]
  BY DEF Mpmc!DeqBegin, Mpmc!DeqProbe, Mpmc!Probe, Mpmc!DeqRecheck, Mpmc!DeqReload, Mpmc!DeqCas, Mpmc!Return, Mpmc!Goto
<1>6. mPc \in [Mpmc!Procs -> {"idle"} \cup Enqueueing \cup Dequeueing \cup Working]
  BY DEF RingInv, RingTypes
<1>7. mPc'[c] \notin Working
  BY <1>2, <1>5, <1>6 DEF Working
<1>8. QED
  BY <1>2, <1>3, <1>4, <1>7, RingQuietMaps

\* dequeueBulk: the CAS that wins n indices takes the n entries there, all filled.
LEMMA DeqWinMaps ==
  ASSUME RingInv, RingInv', NEW c \in Consumers, Mpmc!DeqCas(c), mHead = mPos[c]
  PROVE  Mpmc!Abstract!Next
<1>1. c \in Mpmc!Procs /\ Stay(c) /\ mTail' = mTail /\ mSent' = mSent
  BY DeqStays DEF Mpmc!DeqStep
<1>2. mPc[c] = "casHead" /\ found[c] \in Nat
  BY <1>1, AtWork DEF Mpmc!DeqCas
<1>3. PICK n \in Nat : n = found[c]
  BY <1>2
<1>4. /\ mHead' = mHead + n /\ UNCHANGED <<mPos, found, sequence, mData>>
      /\ mPc' = [mPc EXCEPT ![c] = "moveOut"]
  BY <1>3 DEF Mpmc!DeqCas, Mpmc!Goto
<1>5. mPc'[c] = "moveOut"
  BY <1>1, <1>4 DEF RingInv, RingTypes
<1>6. mHead \in Nat /\ mTail \in Nat /\ mHead + n <= mTail
  <2>1. mHead \in Nat /\ mTail \in Nat
    BY DEF RingInv, RingTypes
  <2>2. mHead' <= mTail'
    BY DEF RingInv, RingTypes
  <2>3. QED
    BY <1>1, <1>4, <2>1, <2>2
<1>7. n > 0
  <2>1. InCall(c)
    BY <1>1 DEF RingInv
  <2>2. QED
    BY <1>2, <1>3, <2>1 DEF InCall
<1>8. PICK h \in Nat : h = mHead
  BY <1>6
<1>9. mPos[c] = h /\ Mpmc!Won(c) = {} /\ Mpmc!Won(c)' = h .. h + n - 1
  BY <1>2, <1>3, <1>4, <1>5, <1>8 DEF Mpmc!Won
<1>10. /\ \A q \in Mpmc!Procs : q # c => Mpmc!Won(q)' = Mpmc!Won(q)
       /\ \A q \in Producers : q # c => Promised'[q] = Promised[q] /\ \A i : RingNumber(q, i)' = RingNumber(q, i)
       /\ \A d \in Consumers : d # c => HandSize(d)' = HandSize(d) /\ HandFrom(d)' = HandFrom(d)
  BY <1>1, OthersStay
<1>11. /\ \A q \in Producers : Mpmc!Won(q)' = Mpmc!Won(q)
       /\ \A q \in Producers : Promised'[q] = Promised[q] /\ \A i : RingNumber(q, i)' = RingNumber(q, i)
  BY <1>10, RolesApart
<1>12. RingSent' = RingSent
  <2>1. Promised' = Promised
    BY <1>11 DEF Promised
  <2>2. QED
    BY <2>1, RingSentStays
<1>13. RingRead /\ RingRead'
  BY RingReadHere, RingReadThen
<1>14. ASSUME NEW i \in Nat, h <= i, i < h + n
       PROVE  Mpmc!Entry(i) = [item |-> mData[Mpmc!Slot(i)], filled |-> TRUE]
  <2>1. i \in Mpmc!Won(c)'
    BY <1>3, <1>8, <1>9, <1>14
  <2>2. sequence'[Mpmc!Slot(i)] = i + 1
    BY <2>1 DEF RingInv, MovingOut, Mpmc!Slot
  <2>3. \A q \in Producers : i \in Mpmc!Won(q) => sequence[Mpmc!Slot(i)] = i
    BY ProducerApart
  <2>4. \A q \in Producers : i \notin Mpmc!Won(q)
    BY <1>4, <2>2, <2>3
  <2>5. mHead <= i /\ i < mTail
    BY <1>3, <1>6, <1>8, <1>14
  <2>6. QED
    BY <1>13, <2>4, <2>5 DEF RingRead
<1>15. ASSUME NEW i \in Nat, h + n <= i, i < mTail PROVE Mpmc!Entry(i)' = Mpmc!Entry(i)
  <2>1. \A q \in Producers : i \in Mpmc!Won(q)' <=> i \in Mpmc!Won(q)
    BY <1>11
  <2>2. \A q \in Producers : i \in Mpmc!Won(q) => RingNumber(q, i)' = RingNumber(q, i)
    BY <1>11
  <2>3. mHead <= i /\ mHead' <= i /\ i < mTail' /\ mData' = mData
    BY <1>1, <1>3, <1>4, <1>8, <1>15
  <2>4. QED
    BY <1>15, <2>1, <2>2, <2>3, RingEntryStays
<1>16. PICK m \in Nat : m = mTail - h /\ n <= m
  BY <1>3, <1>6, <1>8
<1>17. PICK old : old = [k \in 1 .. m |-> Mpmc!Entry(mHead + k - 1)]
  OBVIOUS
<1>18. PICK new : new = [k \in 1 .. (m - n) |-> Mpmc!Entry(mHead + k - 1)']
  OBVIOUS
<1>19. RingQueue = old /\ RingQueue' = new
  <2>1. RingQueue = old
    BY <1>8, <1>16, <1>17 DEF RingQueue
  <2>2. mTail' - mHead' = m - n
    BY <1>1, <1>3, <1>4, <1>6, <1>8, <1>16
  <2>3. RingQueue' = new
    BY <1>18, <2>2 DEF RingQueue
  <2>4. QED
    BY <2>1, <2>3
<1>20. \A k \in 1 .. n : old[k] = [item |-> mData[Mpmc!Slot(h + k - 1)], filled |-> TRUE]
  <2>1. ASSUME NEW k, k \in 1 .. n PROVE old[k] = [item |-> mData[Mpmc!Slot(h + k - 1)], filled |-> TRUE]
    <3>1. PICK i : i = h + k - 1
      OBVIOUS
    <3>2. i \in Nat /\ h <= i /\ i < h + n /\ k \in 1 .. m
      BY <1>3, <1>8, <1>16, <2>1, <3>1
    <3>3. old[k] = Mpmc!Entry(i)
      BY <1>8, <1>17, <3>1, <3>2
    <3>4. QED
      BY <1>14, <3>1, <3>2, <3>3
  <2>2. QED
    BY <2>1
<1>21. \A k \in 1 .. (m - n) : new[k] = old[n + k]
  <2>1. ASSUME NEW k, k \in 1 .. (m - n) PROVE new[k] = old[n + k]
    <3>1. PICK i : i = h + (n + k) - 1
      OBVIOUS
    <3>2. i \in Nat /\ h + n <= i /\ i < mTail /\ n + k \in 1 .. m
      BY <1>3, <1>6, <1>8, <1>16, <2>1, <3>1
    <3>3. old[n + k] = Mpmc!Entry(i)
      BY <1>8, <1>17, <3>1, <3>2
    <3>4. new[k] = Mpmc!Entry(mHead + k - 1)'
      BY <1>18, <2>1
    <3>5. mHead' + k - 1 = i
      BY <1>3, <1>4, <1>8, <1>16, <2>1, <3>1
    <3>6. new[k] = Mpmc!Entry(i)'
      BY <3>4, <3>5
    <3>7. QED
      BY <1>15, <3>2, <3>3, <3>6
  <2>2. QED
    BY <2>1
<1>22. Len(RingQueue) = m
  BY <1>16, <1>17, <1>19
<1>23. RingQueue' = SubSeq(RingQueue, n + 1, Len(RingQueue))
  <2>1. PICK S : S = {old[k] : k \in 1 .. m}
    OBVIOUS
  <2>2. old \in [1 .. m -> S]
    BY <1>17, <2>1
  <2>3. old \in Seq(S)
    BY <1>16, <2>2
  <2>4. Len(old) = m
    BY <1>16, <1>17
  <2>5. SubSeq(old, n + 1, m) = [k \in 1 .. (m - n) |-> old[n + k]]
    <3>1. SubSeq(old, n + 1, m) = [k \in 1 .. (m - (n + 1) + 1) |-> old[(n + 1) + k - 1]]
      <4>1. \A q \in Seq(S) : \A a, b \in Nat :
              SubSeq(q, a, b) = [k \in 1 .. (b - a + 1) |-> q[a + k - 1]]
        OBVIOUS
      <4>2. n + 1 \in Nat /\ m \in Nat
        BY <1>3, <1>16
      <4>3. QED
        BY <2>3, <4>1, <4>2, Zenon
    <3>2. m - (n + 1) + 1 = m - n /\ \A k \in 1 .. (m - n) : (n + 1) + k - 1 = n + k
      BY <1>3, <1>16
    <3>3. QED
      BY <3>1, <3>2
  <2>6. new = SubSeq(old, n + 1, m)
    BY <1>18, <1>21, <2>5
  <2>7. QED
    BY <1>19, <1>22, <2>6
<1>24. PICK items : items = [k \in 1 .. n |-> RingQueue[k].item]
  OBVIOUS
<1>25. items = [k \in 1 .. n |-> mData[Mpmc!Slot(h + k - 1)]]
  <2>1. ASSUME NEW k, k \in 1 .. n PROVE RingQueue[k].item = mData[Mpmc!Slot(h + k - 1)]
    <3>1. RingQueue[k] = [item |-> mData[Mpmc!Slot(h + k - 1)], filled |-> TRUE]
      BY <1>19, <1>20, <2>1
    <3>2. QED
      BY <3>1
  <2>2. QED
    BY <1>24, <2>1
<1>26. RingHand = [d \in Consumers |-> [k \in 1 .. HandSize(d) |-> mData[Mpmc!Slot(HandFrom(d) + k - 1)]]]
  BY <1>13 DEF RingRead
<1>27. RingHand' = [d \in Consumers |-> [k \in 1 .. HandSize(d)' |-> mData[Mpmc!Slot(HandFrom(d)' + k - 1)]]]
  BY <1>4, <1>13 DEF RingRead, Mpmc!Slot
<1>28. RingHand[c] = <<>>
  <2>1. HandSize(c) = 0
    BY <1>2 DEF HandSize
  <2>2. RingHand[c] = [k \in 1 .. 0 |-> mData[Mpmc!Slot(HandFrom(c) + k - 1)]]
    BY <1>26, <2>1
  <2>3. PICK e : e = [k \in 1 .. 0 |-> mData[Mpmc!Slot(HandFrom(c) + k - 1)]]
    OBVIOUS
  <2>4. e = <<>>
    BY <2>3
  <2>5. QED
    BY <2>2, <2>3, <2>4
<1>29. RingHand' = [RingHand EXCEPT ![c] = items]
  <2>1. HandSize(c)' = n /\ HandFrom(c)' = h
    BY <1>3, <1>4, <1>5, <1>9 DEF HandSize, HandFrom
  <2>2. [k \in 1 .. HandSize(c)' |-> mData[Mpmc!Slot(HandFrom(c)' + k - 1)]] = items
    BY <1>25, <2>1
  <2>3. \A d \in Consumers : d # c =>
          [k \in 1 .. HandSize(d)' |-> mData[Mpmc!Slot(HandFrom(d)' + k - 1)]]
            = [k \in 1 .. HandSize(d) |-> mData[Mpmc!Slot(HandFrom(d) + k - 1)]]
    BY <1>10
  <2>4. QED
    BY <1>26, <1>27, <2>2, <2>3
<1>30. n \in 1 .. Len(RingQueue) /\ \A k \in 1 .. n : RingQueue[k].filled
  <2>1. n \in 1 .. Len(RingQueue)
    BY <1>3, <1>7, <1>16, <1>22
  <2>2. ASSUME NEW k, k \in 1 .. n PROVE RingQueue[k].filled
    <3>1. RingQueue[k] = [item |-> mData[Mpmc!Slot(h + k - 1)], filled |-> TRUE]
      BY <1>19, <1>20, <2>2
    <3>2. QED
      BY <3>1
  <2>3. QED
    BY <2>1, <2>2
<1>31. QED
  BY <1>12, <1>23, <1>24, <1>28, <1>29, <1>30, RingTakes

\* dequeueBulk: moving an item out delivers it.
LEMMA DeqMoveOutMaps ==
  ASSUME RingInv, RingInv', NEW c \in Consumers, Mpmc!DeqMoveOut(c)
  PROVE  Mpmc!Abstract!Next
<1>1. c \in Mpmc!Procs /\ Stay(c) /\ mTail' = mTail /\ mSent' = mSent
  BY DeqStays DEF Mpmc!DeqStep
<1>2. mPc[c] = "moveOut" /\ mPc[c] \in Working
  BY DEF Mpmc!DeqMoveOut, Working
<1>3. /\ mPos[c] \in Nat /\ found[c] \in Nat /\ found[c] > 0
      /\ Mpmc!Won(c) = mPos[c] .. mPos[c] + found[c] - 1
  BY <1>1, <1>2, AtWork
<1>4. PICK i \in Nat : i = mPos[c]
  BY <1>3
<1>5. PICK n \in Nat : n = found[c]
  BY <1>3
<1>6. /\ UNCHANGED <<mHead, sequence, mPos, found>> /\ mPc' = [mPc EXCEPT ![c] = "release"]
      /\ mData' = [mData EXCEPT ![Mpmc!Slot(i)] = Nothing]
  BY <1>4 DEF Mpmc!DeqMoveOut, Mpmc!Goto
<1>7. mPc'[c] = "release"
  BY <1>1, <1>6 DEF RingInv, RingTypes
<1>8. i \in Mpmc!Won(c) /\ Mpmc!Won(c)' = Mpmc!Won(c)
  BY <1>2, <1>3, <1>4, <1>6, <1>7 DEF Mpmc!Won
<1>9. /\ mTail <= i + Capacity /\ i < mHead
      /\ \A q \in Mpmc!Procs : \A j \in Mpmc!Won(q) : j \in Nat /\ (j # i => Mpmc!Slot(j) # Mpmc!Slot(i))
      /\ \A j \in Nat : mHead <= j /\ j < mHead + Capacity /\ j # i + Capacity => Mpmc!Slot(j) # Mpmc!Slot(i)
  BY <1>8, ConsumerApart
<1>10. \A j \in Nat : Mpmc!Slot(j) # Mpmc!Slot(i) => mData'[Mpmc!Slot(j)] = mData[Mpmc!Slot(j)]
  <2>1. mData \in [Mpmc!Slots -> (Producers \X Nat) \cup {Nothing}]
    BY DEF RingInv, RingTypes
  <2>2. QED
    BY <1>6, <2>1, SlotType
<1>11. \A q \in Mpmc!Procs : \A j \in Mpmc!Won(q) : j # i => mData'[Mpmc!Slot(j)] = mData[Mpmc!Slot(j)]
  BY <1>9, <1>10
<1>12. /\ \A q \in Mpmc!Procs : q # c => Mpmc!Won(q)' = Mpmc!Won(q)
       /\ \A q \in Producers : q # c => Promised'[q] = Promised[q] /\ \A j : RingNumber(q, j)' = RingNumber(q, j)
       /\ \A d \in Consumers : d # c => HandSize(d)' = HandSize(d) /\ HandFrom(d)' = HandFrom(d)
  BY <1>1, OthersStay
<1>13. /\ \A q \in Producers : Mpmc!Won(q)' = Mpmc!Won(q)
       /\ \A q \in Producers : Promised'[q] = Promised[q] /\ \A j : RingNumber(q, j)' = RingNumber(q, j)
  BY <1>12, RolesApart
<1>14. RingSent' = RingSent
  <2>1. Promised' = Promised
    BY <1>13 DEF Promised
  <2>2. QED
    BY <2>1, RingSentStays
<1>15. RingQueue' = RingQueue
  <2>1. \A q \in Producers : \A j : j \in Mpmc!Won(q) => RingNumber(q, j)' = RingNumber(q, j)
    BY <1>13
  <2>2. \A j \in Nat : /\ mHead <= j /\ j < mTail
                       /\ \A q \in Producers : j \notin Mpmc!Won(q)
                       => mData'[Mpmc!Slot(j)] = mData[Mpmc!Slot(j)]
    <3>1. ASSUME NEW j \in Nat, mHead <= j, j < mTail PROVE mData'[Mpmc!Slot(j)] = mData[Mpmc!Slot(j)]
      <4>1. mTail \in Nat /\ mHead \in Nat /\ Capacity \in Nat /\ mTail <= mHead + Capacity
        BY RingFacts
      <4>2. j # i + Capacity /\ j < mHead + Capacity
        BY <1>9, <3>1, <4>1
      <4>3. QED
        BY <1>9, <1>10, <3>1, <4>2
    <3>2. QED
      BY <3>1
  <2>3. QED
    BY <1>1, <1>6, <1>13, <2>1, <2>2, RingQueueStays
<1>16. RingRead /\ RingRead'
  BY RingReadHere, RingReadThen
<1>17. RingHand = [d \in Consumers |-> [k \in 1 .. HandSize(d) |-> mData[Mpmc!Slot(HandFrom(d) + k - 1)]]]
  BY <1>16 DEF RingRead
<1>18. RingHand' = [d \in Consumers |-> [k \in 1 .. HandSize(d)' |-> mData'[Mpmc!Slot(HandFrom(d)' + k - 1)]]]
  BY <1>16 DEF RingRead, Mpmc!Slot
<1>19. /\ HandSize(c) = n /\ HandFrom(c) = i
       /\ HandSize(c)' = n - 1 /\ HandFrom(c)' = i + 1
  BY <1>2, <1>4, <1>5, <1>6, <1>7 DEF HandSize, HandFrom
<1>20. PICK old : old = [k \in 1 .. n |-> mData[Mpmc!Slot(i + k - 1)]]
  OBVIOUS
<1>21. PICK new : new = [k \in 1 .. (n - 1) |-> mData'[Mpmc!Slot(i + 1 + k - 1)]]
  OBVIOUS
<1>22. RingHand[c] = old
  BY <1>17, <1>19, <1>20
<1>23. new = Tail(old)
  <2>1. PICK S : S = {old[k] : k \in 1 .. n}
    OBVIOUS
  <2>2. old \in [1 .. n -> S]
    BY <1>20, <2>1
  <2>3. old \in Seq(S)
    BY <1>5, <2>2
  <2>4. Len(old) = n
    BY <1>5, <1>20
  <2>5. n > 0
    BY <1>3, <1>5
  <2>6. Tail(old) = [k \in 1 .. (n - 1) |-> old[k + 1]]
    <3>1. Tail(old) \in Seq(S) /\ Len(Tail(old)) = n - 1
      BY <1>5, <2>3, <2>4, <2>5
    <3>2. \A k \in 1 .. (n - 1) : Tail(old)[k] = old[k + 1]
      BY <1>5, <2>3, <2>4, <2>5
    <3>3. \A s \in Seq(S) : s \in [1 .. Len(s) -> S]
      OBVIOUS
    <3>4. Tail(old) \in [1 .. (n - 1) -> S]
      BY <3>1, <3>3
    <3>5. QED
      BY <3>2, <3>4
  <2>7. ASSUME NEW k, k \in 1 .. (n - 1) PROVE new[k] = old[k + 1]
    <3>1. PICK j : j = i + k
      OBVIOUS
    <3>2. j \in Nat /\ j # i /\ i + (k + 1) - 1 = j /\ i + 1 + k - 1 = j /\ k + 1 \in 1 .. n /\ j \in i .. i + n - 1
      BY <1>4, <1>5, <2>7, <3>1
    <3>3. j \in Mpmc!Won(c)
      BY <1>3, <1>4, <1>5, <3>2
    <3>4. mData'[Mpmc!Slot(j)] = mData[Mpmc!Slot(j)]
      BY <1>1, <1>11, <3>2, <3>3
    <3>5. old[k + 1] = mData[Mpmc!Slot(j)]
      BY <1>20, <3>2
    <3>6. new[k] = mData'[Mpmc!Slot(j)]
      BY <1>21, <2>7, <3>2
    <3>7. QED
      BY <3>4, <3>5, <3>6
  <2>8. QED
    BY <1>21, <2>6, <2>7
<1>24. RingHand' = [RingHand EXCEPT ![c] = new]
  <2>1. [k \in 1 .. HandSize(c)' |-> mData'[Mpmc!Slot(HandFrom(c)' + k - 1)]] = new
    BY <1>19, <1>21
  <2>2. ASSUME NEW d \in Consumers, d # c
        PROVE  [k \in 1 .. HandSize(d)' |-> mData'[Mpmc!Slot(HandFrom(d)' + k - 1)]]
                 = [k \in 1 .. HandSize(d) |-> mData[Mpmc!Slot(HandFrom(d) + k - 1)]]
    <3>1. HandSize(d)' = HandSize(d) /\ HandFrom(d)' = HandFrom(d)
      BY <1>12, <2>2
    <3>2. ASSUME NEW k, k \in 1 .. HandSize(d)
          PROVE  mData'[Mpmc!Slot(HandFrom(d) + k - 1)] = mData[Mpmc!Slot(HandFrom(d) + k - 1)]
      <4>1. HandFrom(d) + k - 1 \in Mpmc!Won(d) /\ d \in Mpmc!Procs
        BY <1>16, <3>2, RolesApart DEF RingRead
      <4>2. HandFrom(d) + k - 1 # i
        BY <1>1, <1>8, <2>2, <4>1 DEF RingInv, WonOnce
      <4>3. QED
        BY <1>11, <4>1, <4>2
    <3>3. QED
      BY <3>1, <3>2
  <2>3. QED
    BY <1>17, <1>18, <2>1, <2>2
<1>25. RingHand' = [RingHand EXCEPT ![c] = Tail(@)]
  BY <1>22, <1>23, <1>24
<1>26. RingHand[c] # <<>>
  <2>1. 1 \in 1 .. n /\ 1 \notin 1 .. 0
    BY <1>3, <1>5
  <2>2. DOMAIN old = 1 .. n /\ DOMAIN <<>> = 1 .. 0
    BY <1>20
  <2>3. QED
    BY <1>22, <2>1, <2>2
<1>27. QED
  BY <1>14, <1>15, <1>25, <1>26, RingDelivers

\* dequeueBulk: giving the slot back for the next lap changes nothing of FifoQueue.
LEMMA DeqReleaseMaps ==
  ASSUME RingInv, RingInv', NEW c \in Consumers, Mpmc!DeqRelease(c)
  PROVE  RingQueue' = RingQueue /\ RingHand' = RingHand /\ RingSent' = RingSent
<1>1. c \in Mpmc!Procs /\ Stay(c) /\ mTail' = mTail /\ mSent' = mSent
  BY DeqStays DEF Mpmc!DeqStep
<1>2. mPc[c] = "release" /\ mPc[c] \in Working
  BY DEF Mpmc!DeqRelease, Working
<1>3. mPos[c] \in Nat /\ found[c] \in Nat /\ found[c] > 0
  BY <1>1, <1>2, AtWork
<1>4. UNCHANGED <<mHead, mTail, mData, mSent>>
  BY DEF Mpmc!DeqRelease
<1>5. /\ mPos \in [Mpmc!Procs -> Nat] /\ found \in [Mpmc!Procs -> Nat]
      /\ mPc \in [Mpmc!Procs -> {"idle"} \cup Enqueueing \cup Dequeueing \cup Working]
  BY DEF RingInv, RingTypes
<1>6. \/ found[c] = 1 /\ mPc'[c] = "idle"
      \/ found[c] # 1 /\ mPc'[c] = "moveOut" /\ found'[c] = found[c] - 1 /\ mPos'[c] = mPos[c] + 1
  BY <1>1, <1>5 DEF Mpmc!DeqRelease, Mpmc!NextSlot, Mpmc!Return, Mpmc!Goto
<1>7. /\ \A q \in Mpmc!Procs : q # c => Mpmc!Won(q)' = Mpmc!Won(q)
      /\ \A q \in Producers : q # c => Promised'[q] = Promised[q] /\ \A j : RingNumber(q, j)' = RingNumber(q, j)
      /\ \A d \in Consumers : d # c => HandSize(d)' = HandSize(d) /\ HandFrom(d)' = HandFrom(d)
  BY <1>1, OthersStay
<1>8. /\ \A q \in Producers : Mpmc!Won(q)' = Mpmc!Won(q)
      /\ \A q \in Producers : Promised'[q] = Promised[q] /\ \A j : RingNumber(q, j)' = RingNumber(q, j)
  BY <1>7, RolesApart
<1>9. RingSent' = RingSent
  <2>1. Promised' = Promised
    BY <1>8 DEF Promised
  <2>2. QED
    BY <2>1, RingSentStays
<1>10. RingQueue' = RingQueue
  BY <1>4, <1>8, RingQueueStays
<1>11. HandSize(c)' = HandSize(c) /\ (HandSize(c) > 0 => HandFrom(c)' = HandFrom(c))
  BY <1>2, <1>3, <1>6 DEF HandSize, HandFrom
<1>12. RingRead /\ RingRead'
  BY RingReadHere, RingReadThen
<1>13. RingHand = [d \in Consumers |-> [k \in 1 .. HandSize(d) |-> mData[Mpmc!Slot(HandFrom(d) + k - 1)]]]
  BY <1>12 DEF RingRead
<1>14. RingHand' = [d \in Consumers |-> [k \in 1 .. HandSize(d)' |-> mData[Mpmc!Slot(HandFrom(d)' + k - 1)]]]
  BY <1>4, <1>12 DEF RingRead, Mpmc!Slot
<1>15. ASSUME NEW d \in Consumers
       PROVE  [k \in 1 .. HandSize(d)' |-> mData[Mpmc!Slot(HandFrom(d)' + k - 1)]]
                = [k \in 1 .. HandSize(d) |-> mData[Mpmc!Slot(HandFrom(d) + k - 1)]]
  <2>1. HandSize(d)' = HandSize(d) /\ (HandSize(d) > 0 => HandFrom(d)' = HandFrom(d)) /\ HandSize(d) \in Nat
    BY <1>7, <1>11, <1>12 DEF RingRead
  <2>2. \A k \in 1 .. HandSize(d) : HandFrom(d)' = HandFrom(d)
    BY <2>1
  <2>3. QED
    BY <2>1, <2>2
<1>16. RingHand' = RingHand
  BY <1>13, <1>14, <1>15
<1>17. QED
  BY <1>9, <1>10, <1>16

\* enqueue, enqueueBulk: the item of a publication stays in its slot while others move.
LEMMA EnqCarries ==
  ASSUME RingInv, RingInv', RingCarried, NEW p \in Producers,
         (\E n \in 1 .. MaxBulk : Mpmc!EnqBegin(p, n)) \/ Mpmc!EnqStep(p)
  PROVE  RingCarried'
<1>1. /\ p \in Mpmc!Procs /\ Stay(p)
      /\ \A q \in Producers : q # p => mSent'[q] = mSent[q]
  BY EnqStays
<1>2. CASE Mpmc!EnqConstruct(p)
  BY <1>2, EnqConstructMaps
<1>3. CASE ~Mpmc!EnqConstruct(p)
  <2>1. mData' = mData
    BY <1>3 DEF Mpmc!EnqStep, Mpmc!EnqBegin, Mpmc!EnqProbe, Mpmc!Probe, Mpmc!EnqRecheck, Mpmc!EnqReload,
                Mpmc!EnqCas, Mpmc!EnqPublish, Mpmc!shared
  <2>2. \E l \in {"idle", "probeFree", "casTail", "recheckFree", "reloadTail", "construct"} :
          mPc' = [mPc EXCEPT ![p] = l]
    BY <1>3 DEF Mpmc!EnqStep, Mpmc!EnqBegin, Mpmc!EnqProbe, Mpmc!Probe, Mpmc!EnqRecheck, Mpmc!EnqReload,
                Mpmc!EnqCas, Mpmc!EnqPublish, Mpmc!NextSlot, Mpmc!Return, Mpmc!Goto
  <2>3. mPc \in [Mpmc!Procs -> {"idle"} \cup Enqueueing \cup Dequeueing \cup Working]
    BY DEF RingInv, RingTypes
  <2>4. mPc'[p] # "publish"
    BY <1>1, <2>2, <2>3
  <2>5. \A q \in Producers : q # p => mPc'[q] = mPc[q] /\ mPos'[q] = mPos[q] /\ mSent'[q] = mSent[q]
    BY <1>1, RolesApart DEF Stay
  <2>6. QED
    BY <2>1, <2>4, <2>5 DEF RingCarried, Mpmc!Slot
<1>4. QED
  BY <1>2, <1>3

\* dequeue, dequeueBulk: a consumer empties another slot.
LEMMA DeqCarries ==
  ASSUME RingInv, RingInv', RingCarried, NEW c \in Consumers,
         (\E n \in 1 .. MaxBulk : Mpmc!DeqBegin(c, n)) \/ Mpmc!DeqStep(c)
  PROVE  RingCarried'
<1>1. c \in Mpmc!Procs /\ Stay(c) /\ mSent' = mSent
  BY DeqStays
<1>2. \A q \in Producers : q \in Mpmc!Procs /\ mPc'[q] = mPc[q] /\ mPos'[q] = mPos[q] /\ mSent'[q] = mSent[q]
  BY <1>1, RolesApart DEF Stay
<1>3. CASE ~Mpmc!DeqMoveOut(c)
  <2>1. mData' = mData
    BY <1>3 DEF Mpmc!DeqStep, Mpmc!DeqBegin, Mpmc!DeqProbe, Mpmc!Probe, Mpmc!DeqRecheck, Mpmc!DeqReload,
                Mpmc!DeqCas, Mpmc!DeqRelease, Mpmc!shared
  <2>2. QED
    BY <1>2, <2>1 DEF RingCarried, Mpmc!Slot
<1>4. CASE Mpmc!DeqMoveOut(c)
  <2>1. mPc[c] = "moveOut" /\ mPc[c] \in Working
    BY <1>4 DEF Mpmc!DeqMoveOut, Working
  <2>2. PICK i \in Nat : i = mPos[c]
    BY <1>1, AtWork
  <2>3. mData' = [mData EXCEPT ![Mpmc!Slot(i)] = Nothing]
    BY <1>4, <2>2 DEF Mpmc!DeqMoveOut
  <2>4. i \in Mpmc!Won(c)
    BY <1>1, <2>1, <2>2, AtWork
  <2>5. ASSUME NEW q \in Producers, mPc'[q] = "publish"
        PROVE  mData'[Mpmc!Slot(mPos'[q])] = <<q, mSent'[q]>>
    <3>1. q \in Mpmc!Procs /\ mPc[q] = "publish" /\ mPos'[q] = mPos[q] /\ mSent'[q] = mSent[q]
      BY <1>2, <2>5
    <3>2. PICK j \in Nat : j = mPos[q]
      BY <3>1, AtWork
    <3>3. j \in Mpmc!Won(q)
      BY <3>1, <3>2, AtWork DEF Working
    <3>4. j # i
      <4>1. c # q
        BY <2>5, RolesApart
      <4>2. QED
        BY <1>1, <2>4, <3>1, <3>3, <4>1 DEF RingInv, WonOnce
    <3>5. Mpmc!Slot(j) # Mpmc!Slot(i)
      BY <2>4, <3>1, <3>3, <3>4, ConsumerApart
    <3>6. mData[Mpmc!Slot(j)] = <<q, mSent[q]>>
      BY <3>1, <3>2 DEF RingCarried
    <3>7. Mpmc!Slot(j) \in Mpmc!Slots /\ mData \in [Mpmc!Slots -> (Producers \X Nat) \cup {Nothing}]
      BY SlotType DEF RingInv, RingTypes
    <3>8. QED
      BY <2>3, <3>1, <3>2, <3>5, <3>6, <3>7
  <2>6. QED
    BY <2>5 DEF RingCarried, Mpmc!Slot
<1>5. QED
  BY <1>3, <1>4

\* Every step of the library keeps the item of a publication, and is of the mpmc queue a
\* step of FifoQueue.
LEMMA RingMaps ==
  RingInv /\ RingInv' /\ RingCarried /\ [Next]_vars => RingCarried' /\ [Mpmc!Abstract!Next]_Mpmc!Abstract!vars
<1>1. SUFFICES ASSUME RingInv, RingInv', RingCarried, [Next]_vars
               PROVE  RingCarried' /\ [Mpmc!Abstract!Next]_Mpmc!Abstract!vars
  OBVIOUS
<1>2. CASE UNCHANGED mpmcVars
  <2>1. UNCHANGED <<mHead, mTail, sequence, mData, mPc, mPos, want, found, mSent>>
    BY <1>2 DEF mpmcVars
  <2>2. RingCarried'
    BY <1>1, <2>1 DEF RingCarried, Mpmc!Slot
  <2>3. Promised' = Promised
    BY <2>1 DEF Promised
  <2>4. \A q \in Producers : Mpmc!Won(q)' = Mpmc!Won(q) /\ \A i : RingNumber(q, i)' = RingNumber(q, i)
    BY <2>1, <2>3 DEF Mpmc!Won, RingNumber
  <2>5. RingQueue' = RingQueue
    BY <1>1, <2>1, <2>4, RingQueueStays
  <2>6. \A c \in Consumers : HandSize(c)' = HandSize(c) /\ HandFrom(c)' = HandFrom(c)
    BY <2>1 DEF HandSize, HandFrom
  <2>7. RingHand' = RingHand
    BY <1>1, <2>1, <2>6, RingHandStays
  <2>8. RingSent' = RingSent
    BY <1>1, <2>3, RingSentStays
  <2>9. QED
    BY <2>2, <2>5, <2>7, <2>8, RingStutters
<1>3. ASSUME NEW p \in Producers, (\E n \in 1 .. MaxBulk : Mpmc!EnqBegin(p, n)) \/ Mpmc!EnqStep(p)
      PROVE  [Mpmc!Abstract!Next]_Mpmc!Abstract!vars
  <2>1. CASE \/ \E n \in 1 .. MaxBulk : Mpmc!EnqBegin(p, n)
             \/ Mpmc!EnqProbe(p) \/ Mpmc!EnqRecheck(p) \/ Mpmc!EnqReload(p)
             \/ Mpmc!EnqCas(p) /\ mTail # mPos[p]
    BY <1>1, <2>1, EnqMoveMaps, RingStutters
  <2>2. CASE Mpmc!EnqCas(p) /\ mTail = mPos[p]
    BY <1>1, <2>2, EnqWinMaps
  <2>3. CASE Mpmc!EnqConstruct(p)
    BY <1>1, <2>3, EnqConstructMaps, RingStutters
  <2>4. CASE Mpmc!EnqPublish(p)
    BY <1>1, <2>4, EnqPublishMaps
  <2>5. QED
    BY <1>3, <2>1, <2>2, <2>3, <2>4 DEF Mpmc!EnqStep
<1>4. ASSUME NEW c \in Consumers, (\E n \in 1 .. MaxBulk : Mpmc!DeqBegin(c, n)) \/ Mpmc!DeqStep(c)
      PROVE  [Mpmc!Abstract!Next]_Mpmc!Abstract!vars
  <2>1. CASE \/ \E n \in 1 .. MaxBulk : Mpmc!DeqBegin(c, n)
             \/ Mpmc!DeqProbe(c) \/ Mpmc!DeqRecheck(c) \/ Mpmc!DeqReload(c)
             \/ Mpmc!DeqCas(c) /\ mHead # mPos[c]
    BY <1>1, <2>1, DeqMoveMaps, RingStutters
  <2>2. CASE Mpmc!DeqCas(c) /\ mHead = mPos[c]
    BY <1>1, <2>2, DeqWinMaps
  <2>3. CASE Mpmc!DeqMoveOut(c)
    BY <1>1, <2>3, DeqMoveOutMaps
  <2>4. CASE Mpmc!DeqRelease(c)
    BY <1>1, <2>4, DeqReleaseMaps, RingStutters
  <2>5. QED
    BY <1>4, <2>1, <2>2, <2>3, <2>4 DEF Mpmc!DeqStep
<1>5. CASE Mpmc!Next
  <2>1. CASE \E p \in Producers : (\E n \in 1 .. MaxBulk : Mpmc!EnqBegin(p, n)) \/ Mpmc!EnqStep(p)
    <3>1. PICK p \in Producers : (\E n \in 1 .. MaxBulk : Mpmc!EnqBegin(p, n)) \/ Mpmc!EnqStep(p)
      BY <2>1
    <3>2. RingCarried'
      BY <1>1, <3>1, EnqCarries
    <3>3. QED
      BY <1>3, <3>1, <3>2
  <2>2. CASE \E c \in Consumers : (\E n \in 1 .. MaxBulk : Mpmc!DeqBegin(c, n)) \/ Mpmc!DeqStep(c)
    <3>1. PICK c \in Consumers : (\E n \in 1 .. MaxBulk : Mpmc!DeqBegin(c, n)) \/ Mpmc!DeqStep(c)
      BY <2>2
    <3>2. RingCarried'
      BY <1>1, <3>1, DeqCarries
    <3>3. QED
      BY <1>4, <3>1, <3>2
  <2>3. QED
    BY <1>5, <2>1, <2>2 DEF Mpmc!Next
<1>6. QED
  BY <1>1, <1>2, <1>5 DEF Next, Others, vars

\* An empty queue is an empty FifoQueue.
LEMMA RingStarts == Init => Mpmc!Abstract!Init /\ RingCarried
<1>1. SUFFICES ASSUME Init PROVE Mpmc!Abstract!Init /\ RingCarried
  OBVIOUS
<1>2. Mpmc!Init
  BY <1>1 DEF Init
<1>3. RingInv
  BY <1>2, InitRing
<1>4. mHead = 0 /\ mTail = 0 /\ mPc = [p \in Mpmc!Procs |-> "idle"] /\ mSent = [p \in Producers |-> 0]
  BY <1>2 DEF Mpmc!Init
<1>5. /\ \A p \in Producers : mPc[p] = "idle"
      /\ \A c \in Consumers : mPc[c] = "idle"
  BY <1>4, RolesApart
<1>6. RingCarried
  BY <1>5 DEF RingCarried
<1>7. RingQueue = <<>>
  <2>1. mTail - mHead = 0
    BY <1>4
  <2>2. PICK e : e = [k \in 1 .. 0 |-> Mpmc!Entry(mHead + k - 1)]
    OBVIOUS
  <2>3. e = <<>>
    BY <2>2
  <2>4. QED
    BY <2>1, <2>2, <2>3 DEF RingQueue
<1>8. RingHand = [c \in Consumers |-> <<>>]
  <2>1. RingHand = [c \in Consumers |-> [k \in 1 .. HandSize(c) |-> mData[Mpmc!Slot(HandFrom(c) + k - 1)]]]
    BY <1>3, RingReadHere DEF RingRead
  <2>2. ASSUME NEW c \in Consumers PROVE [k \in 1 .. HandSize(c) |-> mData[Mpmc!Slot(HandFrom(c) + k - 1)]] = <<>>
    <3>1. HandSize(c) = 0
      BY <1>5 DEF HandSize
    <3>2. PICK e : e = [k \in 1 .. 0 |-> mData[Mpmc!Slot(HandFrom(c) + k - 1)]]
      OBVIOUS
    <3>3. e = <<>>
      BY <3>2
    <3>4. QED
      BY <3>1, <3>2, <3>3
  <2>3. QED
    BY <2>1, <2>2
<1>9. RingSent = [p \in Producers |-> 0]
  <2>1. RingSent = Promised
    BY <1>3, RingSentIs
  <2>2. QED
    BY <1>4, <1>5, <2>1 DEF Promised
<1>10. Mpmc!Abstract!Init
  BY <1>7, <1>8, <1>9 DEF Mpmc!Abstract!Init, RingQueue, RingHand, RingSent
<1>11. QED
  BY <1>6, <1>10

\* ArrayMpmcQueue.h and ArrayMpscQueue.h, bulk and single: every item reaches exactly one
\* consumer, intact, in the order in which the CAS on _tail gave out the places, in every
\* queue of more than one slot, whatever the threads and the sizes of their calls.
THEOREM FifosRefineHold == Capacity # 1 => (Spec => FifosRefine)
<1>1. SUFFICES ASSUME Capacity # 1 PROVE Spec => FifosRefine
  OBVIOUS
<1>2. Init => RingInv
  BY InitRing DEF Init
<1>3. RingInv /\ [Next]_vars => RingInv'
  BY <1>1, NextRing
<1>4. Spec => Mpmc!ImplementsFifo
  BY <1>2, <1>3, RingStarts, RingMaps, PTL DEF Spec, Mpmc!ImplementsFifo, Mpmc!Abstract!Spec
<1>5. QED
  BY <1>4, MpscRefines DEF FifosRefine
=============================================================================
