----------------------------- MODULE RpcProofs -----------------------------
(***************************************************************************)
(* Proofs about Rpc, whatever the numbers of callers, connections and      *)
(* calls and the size of the slot map: a call is resumed once, with the    *)
(* answer to its own request or the error of its lost connection, and a    *)
(* call that was already resumed is only taken for a pending one after     *)
(* every slot was in use.                                                  *)
(***************************************************************************)
EXTENDS Rpc, FiniteSetTheorems, SequenceTheorems, WellFoundedInduction, TLAPS

Threads == Conns \cup {Main}
Id == [slot : Nat, version : Nat]
AnyKind == Kinds \cup {NoCall.kind}
AnyStatus == {Status[kind] : kind \in AnyKind} \cup {Closed}
Request == [id : Id, kind : AnyKind]
Response == [id : Id, status : AnyStatus]
Due == [caller : Callers, id : Id, status : AnyStatus]
Slot == [caller : Callers \cup {None}, conn : Conns \cup {None}, version : Nat, next : Nat,
         live : BOOLEAN]
Index == 1 .. Len(slots)

(***************************************************************************)
(* The inductive invariant.                                                *)
(***************************************************************************)
SlotTypes == /\ slots \in Seq(Slot) /\ free \in 0 .. Len(slots)
             /\ \A i \in Index : /\ slots[i].next \in 0 .. Len(slots)
                                 /\ slots[i].caller = None => slots[i].conn = None
CallTypes ==
  /\ pc \in [Callers -> {"idle", "picked", "allocated", "suspended"}]
  /\ call \in [Callers -> [conn : Conns \cup {None}, id : Id, kind : AnyKind, n : Nat]]
  /\ got \in [Callers -> [n : Nat, from : Id, status : AnyStatus]]
NetTypes ==
  /\ link \in [Conns -> {"connecting", "up", "broken", "handled"}]
  /\ c2s \in [Conns -> Seq(Request)] /\ s2c \in [Conns -> Seq(Response)]
  /\ jobs \subseteq [conn : Conns, req : Request]
  /\ out \in [Threads -> Seq(Due)]
  /\ closing \in BOOLEAN /\ exhausted \in BOOLEAN /\ wild \in BOOLEAN

\* callMethod: a call is resumed at most once after it was picked; the destructor runs
\* when nobody is inside await_suspend.
Calls ==
  /\ \A c \in Callers : /\ got[c].n <= call[c].n
                        /\ pc[c] = "picked" => ~Resumed(c)
                        /\ pc[c] # "idle" => call[c].conn \in Conns
  /\ closing => \A c \in Callers : pc[c] \in {"idle", "suspended"}

\* allocateSlot: while calls are made, the free list does not run into a pending call
\* or twice through the same slot.
FreeSlots ==
  ~closing =>
    /\ free # 0 => ~slots[free].live
    /\ \A i \in Index : ~slots[i].live /\ slots[i].next # 0 =>
          ~slots[slots[i].next].live /\ slots[i].next # free
    /\ \A i, j \in Index : ~slots[i].live /\ ~slots[j].live /\ slots[i].next = slots[j].next
                           /\ slots[i].next # 0 => i = j

\* A slot with a pending call holds the request id of that call.
LiveCalls ==
  \A i \in Index : slots[i].live =>
    /\ slots[i].caller \in Callers
    /\ Pending(slots[i].caller, [slot |-> i, version |-> slots[i].version])
    /\ slots[i].conn = call[slots[i].caller].conn

\* A call taken from the map is pending, nobody else will resume it, and its outcome
\* is that of its own request.
Outcome(r) == \/ r.status = Status[call[r.caller].kind]
              \/ r.status = Closed /\ (closing \/ link[call[r.caller].conn] = "handled")
DueCalls ==
  /\ \A t \in Threads : \A a \in DOMAIN out[t] :
       /\ Pending(out[t][a].caller, out[t][a].id) /\ Outcome(out[t][a])
       /\ \A i \in Index : slots[i].live => slots[i].caller # out[t][a].caller
  /\ \A t, u \in Threads : \A a \in DOMAIN out[t], b \in DOMAIN out[u] :
       out[t][a].caller = out[u][b].caller => t = u /\ a = b

\* A request id names a pending call of that kind, or its slot has moved on.
Sent(id, kind) ==
  /\ id \in Id /\ id.slot \in Index
  /\ \/ id.version < slots[id.slot].version
     \/ /\ id.version = slots[id.slot].version /\ slots[id.slot].live
        /\ call[slots[id.slot].caller].kind = kind

\* An answer is the one to its request.
Answered(m) == \E kind \in AnyKind : Sent(m.id, kind) /\ m.status = Status[kind]

Messages ==
  /\ \A c \in Callers : pc[c] \in {"allocated", "suspended"} => Sent(call[c].id, call[c].kind)
  /\ \A k \in Conns : \A a \in DOMAIN c2s[k] : Sent(c2s[k][a].id, c2s[k][a].kind)
  /\ \A j \in jobs : Sent(j.req.id, j.req.kind)
  /\ \A k \in Conns : \A a \in DOMAIN s2c[k] : Answered(s2c[k][a])

\* As long as the free list was never emptied, only a slot that never held a call is
\* marked as occupied without one.
Spare ==
  ~exhausted => /\ slots = <<>> \/ free # 0
                /\ \A i \in Index : ~slots[i].live /\ slots[i].next = 0 => slots[i].caller = None

Types == SlotTypes /\ CallTypes /\ NetTypes
Exact == FreeSlots /\ LiveCalls /\ DueCalls /\ Messages
IInv == Types /\ Calls /\ Spare /\ StaleOnlyAfterExhaustion /\ (~wild => Exact)
-----------------------------------------------------------------------------
\* The entries of a sequence.
LEMMA SeqMembers ==
  \A S : \A q \in Seq(S) : DOMAIN q = 1 .. Len(q) /\ Len(q) \in Nat /\ \A a \in DOMAIN q : q[a] \in S
OBVIOUS

\* Taking the first entry, adding one at the end.
LEMMA SeqFirst ==
  \A S : \A q \in Seq(S) : q # <<>> =>
    /\ Head(q) \in S /\ Tail(q) \in Seq(S)
    /\ 1 \in DOMAIN q /\ Head(q) = q[1]
    /\ \A a \in DOMAIN Tail(q) : a + 1 \in DOMAIN q /\ Tail(q)[a] = q[a + 1]
OBVIOUS

\* An element put behind a sequence.
LEMMA SeqAdded ==
  \A S : \A q \in Seq(S), x \in S :
    /\ Append(q, x) \in Seq(S)
    /\ \A a \in DOMAIN Append(q, x) : Append(q, x)[a] = x \/ (a \in DOMAIN q /\ Append(q, x)[a] = q[a])
OBVIOUS

\* One sequence put behind another.
LEMMA SeqJoined ==
  \A S : \A q, r \in Seq(S) :
    /\ q \o r \in Seq(S)
    /\ \A a \in DOMAIN (q \o r) :
         \/ a \in DOMAIN q /\ (q \o r)[a] = q[a]
         \/ a > Len(q) /\ a - Len(q) \in DOMAIN r /\ (q \o r)[a] = r[a - Len(q)]
OBVIOUS

\* Natural numbers are well-founded.
LEMMA LeastOf ==
  ASSUME NEW S \in SUBSET Nat, S # {}
  PROVE  \E m \in S : \A k \in S : m <= k
<1> DEFINE less == {ss \in Nat \X Nat : ss[1] < ss[2]}
<1>1. IsWellFoundedOn(less, Nat)
  BY NatLessThanWellFounded DEF OpToRel
<1>2. PICK m \in S : \A k \in S : <<k, m>> \notin less
  BY <1>1, WFMin
<1>3. ASSUME NEW k \in S PROVE m <= k
  <2>1. k \in Nat /\ m \in Nat
    OBVIOUS
  <2>2. ~ (k < m)
    BY <1>2, <2>1
  <2>3. QED
    BY <2>1, <2>2
<1>4. QED
  BY <1>3

\* Max of a set of slot numbers is its greatest member.
LEMMA MaxType ==
  ASSUME NEW n \in Nat, NEW S \in SUBSET (1 .. n), S # {}
  PROVE  Max(S) \in S /\ \A k \in S : k <= Max(S)
<1> DEFINE above == {m \in Nat : \A k \in S : k <= m}
<1>1. above \in SUBSET Nat /\ above # {}
  <2>1. n \in above
    OBVIOUS
  <2>2. QED
    BY <2>1
<1>2. PICK m \in above : \A k \in above : m <= k
  BY <1>1, LeastOf
<1>3. m \in S
  <2>1. SUFFICES ASSUME m \notin S PROVE FALSE
    OBVIOUS
  <2>2. PICK k \in S : TRUE
    OBVIOUS
  <2>3. m \in Nat /\ m - 1 \in Nat /\ \A j \in S : j <= m - 1
    BY <1>2, <2>1
  <2>4. m - 1 \in above
    BY <2>3
  <2>5. m <= m - 1
    BY <1>2, <2>4
  <2>6. QED
    BY <2>3, <2>5
<1>4. \E x \in S : \A y \in S : x >= y
  <2>1. \A y \in S : m >= y
    BY <1>2
  <2>2. QED
    BY <1>3, <2>1
<1>5. Max(S) \in S /\ \A y \in S : Max(S) >= y
  BY <1>4 DEF Max
<1>6. QED
  BY <1>5

\* A finite set of slot numbers has an ascending enumeration.
Enumerates(q, S) == /\ q \in [1 .. Cardinality(S) -> S]
                    /\ \A a, b \in 1 .. Cardinality(S) : a < b => q[a] < q[b]

\* The slots that failPendingOnConnection and forceFailAllPending walk, in the
\* order of their index: a sequence of them that names each one once.
LEMMA AscendingType ==
  ASSUME NEW n \in Nat, NEW S \in SUBSET (1 .. n)
  PROVE  Cardinality(S) \in Nat /\ Enumerates(Ascending(S), S)
<1> DEFINE Bad == {m \in Nat : \E T \in SUBSET (1 .. m) : \A q : ~ Enumerates(q, T)}
<1>1. Bad = {}
  <2>1. SUFFICES ASSUME Bad # {} PROVE FALSE
    OBVIOUS
  <2>2. PICK m \in Bad : \A k \in Bad : m <= k
    <3>1. Bad \in SUBSET Nat
      OBVIOUS
    <3>2. QED
      BY <2>1, <3>1, LeastOf
  <2>3. PICK T \in SUBSET (1 .. m) : \A q : ~ Enumerates(q, T)
    BY <2>2
  <2> HIDE DEF Bad
  <2>4. m \in Nat
    BY <2>2 DEF Bad
  <2>5. T # {}
    <3>1. SUFFICES ASSUME T = {} PROVE FALSE
      OBVIOUS
    <3>2. Cardinality(T) = 0
      BY <3>1, FS_EmptySet
    <3>3. Enumerates([a \in 1 .. 0 |-> a], T)
      BY <3>1, <3>2 DEF Enumerates
    <3>4. QED
      BY <2>3, <3>3
  <2>6. m \in T /\ m - 1 \in Nat /\ T \ {m} \in SUBSET (1 .. m - 1)
    <3>1. m # 0
      <4>1. PICK x \in T : TRUE
        BY <2>5
      <4>2. x \in 1 .. m
        BY <2>3, <4>1
      <4>3. QED
        BY <2>4, <4>2
    <3>2. m - 1 \in Nat /\ m - 1 \notin Bad
      BY <2>2, <2>4, <3>1
    <3>3. m \in T
      <4>1. SUFFICES ASSUME m \notin T PROVE FALSE
        OBVIOUS
      <4>2. T \in SUBSET (1 .. m - 1)
        BY <2>4, <4>1
      <4>3. QED
        BY <2>3, <3>2, <4>2 DEF Bad
    <3>4. QED
      BY <2>4, <3>2, <3>3
  <2>7. PICK q : Enumerates(q, T \ {m})
    <3>1. m - 1 \notin Bad
      BY <2>2, <2>4, <2>6
    <3>2. QED
      BY <2>6, <3>1 DEF Bad
  <2> DEFINE c == Cardinality(T \ {m})
  <2>8. c \in Nat /\ Cardinality(T) = c + 1
    <3>1. IsFiniteSet(T)
      <4>1. T \subseteq 1 .. m /\ 1 \in Int /\ m \in Int
        BY <2>3, <2>4
      <4>2. IsFiniteSet(1 .. m)
        BY <4>1, FS_Interval
      <4>3. QED
        BY <4>1, <4>2, FS_Subset
    <3>2. Cardinality(T \ {m}) = Cardinality(T) - 1 /\ Cardinality(T) \in Nat /\ Cardinality(T \ {m}) \in Nat
      BY <2>6, <3>1, FS_RemoveElement, FS_CardinalityType
    <3>3. QED
      BY <3>2
  <2> HIDE DEF c
  <2> DEFINE r == [a \in 1 .. c + 1 |-> IF a <= c THEN q[a] ELSE m]
  <2>9. q \in [1 .. c -> T \ {m}] /\ \A a, b \in 1 .. c : a < b => q[a] < q[b]
    BY <2>7 DEF Enumerates, c
  <2>10. r \in [1 .. c + 1 -> T]
    BY <2>6, <2>8, <2>9
  <2>11. \A a, b \in 1 .. c + 1 : a < b => r[a] < r[b]
    <3>1. TAKE a, b \in 1 .. c + 1
    <3>2. HAVE a < b
    <3>3. a \in 1 .. c /\ r[a] = q[a] /\ q[a] \in 1 .. m /\ q[a] # m
      <4>1. a \in 1 .. c
        BY <2>8, <3>2
      <4>2. q[a] \in T \ {m} /\ r[a] = q[a]
        BY <2>9, <4>1
      <4>3. QED
        BY <2>3, <4>1, <4>2
    <3>4. CASE b \in 1 .. c
      BY <2>8, <2>9, <3>2, <3>3, <3>4
    <3>5. CASE b = c + 1
      BY <2>4, <2>8, <3>3, <3>5
    <3>6. QED
      BY <2>8, <3>4, <3>5
  <2>12. Enumerates(r, T)
    BY <2>8, <2>10, <2>11 DEF Enumerates
  <2>13. QED
    BY <2>3, <2>12
<1>2. \E q : Enumerates(q, S)
  BY <1>1
<1>3. \E q \in [1 .. Cardinality(S) -> S] : \A a, b \in 1 .. Cardinality(S) : a < b => q[a] < q[b]
  BY <1>2 DEF Enumerates
<1>4. Enumerates(Ascending(S), S)
  BY <1>3 DEF Ascending, Enumerates
<1>5. Cardinality(S) \in Nat
  <2>1. S \subseteq 1 .. n /\ 1 \in Int /\ n \in Int
    OBVIOUS
  <2>2. IsFiniteSet(S)
    BY <2>1, FS_Interval, FS_Subset
  <2>3. QED
    BY <2>2, FS_CardinalityType
<1>6. QED
  BY <1>4, <1>5
-----------------------------------------------------------------------------
\* Steps that leave the slot map alone.
LEMMA SlotsKept ==
  IInv /\ ~wild /\ UNCHANGED <<slots, free, closing, exhausted, wild>>
    => SlotTypes' /\ Spare' /\ StaleOnlyAfterExhaustion' /\ FreeSlots'
BY DEF IInv, Types, SlotTypes, Spare, StaleOnlyAfterExhaustion, Exact, FreeSlots, Index

\* The network and the server: what the callers know does not change.
LEMMA CallersKept ==
  ASSUME IInv, ~wild, UNCHANGED <<slots, closing, pc, call, out, got>>, CallTypes,
         \A k \in Conns : link[k] = "handled" => link'[k] = "handled",
         NetTypes
  PROVE  /\ CallTypes' /\ Calls' /\ LiveCalls' /\ DueCalls'
         /\ \A id, kind : Sent(id, kind) => Sent(id, kind)'
<1>1. CallTypes' /\ Calls'
  BY DEF IInv, CallTypes, Calls, Resumed
<1>2. LiveCalls'
  BY DEF IInv, Exact, LiveCalls, Index, Pending, Resumed
<1>3. ASSUME NEW r, r.caller \in Callers, Pending(r.caller, r.id), Outcome(r)
      PROVE  Pending(r.caller, r.id)' /\ Outcome(r)'
  <2>1. Pending(r.caller, r.id)'
    BY <1>3 DEF Pending, Resumed
  <2>2. call[r.caller].conn \in Conns
    BY <1>3 DEF IInv, Calls, Pending
  <2>3. QED
    BY <1>3, <2>1, <2>2 DEF Outcome
<1>4. \A t \in Threads : \A a \in DOMAIN out[t] : out[t][a].caller \in Callers
  <2>1. TAKE t \in Threads
  <2>2. out[t] \in Seq(Due)
    BY DEF NetTypes
  <2>3. \A a \in DOMAIN out[t] : out[t][a] \in Due
    BY <2>2, SeqMembers
  <2>4. QED
    BY <2>3 DEF Due
<1>5. DueCalls'
  <2>1. DueCalls
    BY DEF IInv, Exact
  <2>2. ASSUME NEW t \in Threads, NEW a \in DOMAIN out[t]
        PROVE  Pending(out[t][a].caller, out[t][a].id)' /\ Outcome(out[t][a])'
    BY <1>3, <1>4, <2>1, <2>2 DEF DueCalls
  <2>3. QED
    BY <2>1, <2>2 DEF DueCalls, Index
<1>6. ASSUME NEW id, NEW kind, Sent(id, kind) PROVE Sent(id, kind)'
  BY <1>6 DEF Sent, Index
<1>7. QED
  BY <1>1, <1>2, <1>5, <1>6

\* RpcServer and the network: every answer put on the way is the one to a request that was
\* on the way.
LEMMA NetKeeps ==
  ASSUME NEW k \in Conns, IInv, ~wild, Server(k) \/ Connect(k) \/ Break(k)
  PROVE  IInv'
<1>1. CallTypes /\ NetTypes /\ SlotTypes /\ Messages
  BY DEF IInv, Types, Exact
<1>2. UNCHANGED <<slots, free, closing, pc, call, out, got, exhausted, wild>>
  BY DEF Server, ServerMessage, Work, Connect, Break, hist
<1>3. /\ \A k2 \in Conns : link[k2] = "handled" => link'[k2] = "handled"
      /\ link' \in [Conns -> {"connecting", "up", "broken", "handled"}]
  BY <1>1 DEF Server, ServerMessage, Work, Connect, Break, NetTypes
<1>4. /\ CallTypes' /\ Calls' /\ LiveCalls' /\ DueCalls'
      /\ \A id, kind : Sent(id, kind) => Sent(id, kind)'
  BY <1>1, <1>2, <1>3, CallersKept
<1>5. SlotTypes' /\ Spare' /\ StaleOnlyAfterExhaustion' /\ FreeSlots'
  BY <1>2, SlotsKept
<1> DEFINE Req == {c2s[k][a] : a \in DOMAIN c2s[k]} \cup {j.req : j \in jobs}
<1>6. \A m \in Req : m \in Request /\ Sent(m.id, m.kind)
  <2>1. c2s[k] \in Seq(Request) /\ \A j \in jobs : j.req \in Request
    BY <1>1 DEF NetTypes
  <2>2. \A a \in DOMAIN c2s[k] : c2s[k][a] \in Request
    BY <2>1, SeqMembers
  <2>3. QED
    BY <1>1, <2>1, <2>2 DEF Messages
<1>7. /\ c2s' \in [Conns -> Seq(Request)]
      /\ \A k2 \in Conns : \A a \in DOMAIN c2s'[k2] : \E b \in DOMAIN c2s[k2] : c2s'[k2][a] = c2s[k2][b]
  <2>1. c2s \in [Conns -> Seq(Request)]
    BY <1>1 DEF NetTypes
  <2>2. CASE c2s' = c2s
    BY <2>1, <2>2
  <2>3. CASE c2s' = [c2s EXCEPT ![k] = <<>>]
    BY <2>1, <2>3
  <2>4. CASE c2s[k] # <<>> /\ c2s' = [c2s EXCEPT ![k] = Tail(@)]
    <3>1. /\ Tail(c2s[k]) \in Seq(Request)
          /\ \A a \in DOMAIN Tail(c2s[k]) : a + 1 \in DOMAIN c2s[k] /\ Tail(c2s[k])[a] = c2s[k][a + 1]
      BY <2>1, <2>4, SeqFirst
    <3>2. c2s'[k] = Tail(c2s[k]) /\ \A k2 \in Conns : k2 # k => c2s'[k2] = c2s[k2]
      BY <2>1, <2>4
    <3>3. c2s' \in [Conns -> Seq(Request)]
      BY <2>1, <2>4, <3>1
    <3>4. QED
      BY <3>1, <3>2, <3>3
  <2>5. QED
    BY <2>2, <2>3, <2>4 DEF Server, ServerMessage, Work, Connect, Break
<1>8. jobs' \subseteq jobs \cup {[conn |-> k, req |-> m] : m \in Req}
  <2>1. c2s[k] # <<>> => Head(c2s[k]) \in Req
    <3>1. c2s[k] \in Seq(Request)
      BY <1>1 DEF NetTypes
    <3>2. QED
      BY <3>1, SeqFirst
  <2> HIDE DEF Req
  <2>2. QED
    BY <2>1 DEF Server, ServerMessage, Work, Connect, Break
<1>9. \/ s2c' = s2c
      \/ \E m \in Req : s2c' = [s2c EXCEPT ![k] = Append(@, [id |-> m.id, status |-> Status[m.kind]])]
  <2>1. c2s[k] # <<>> => Head(c2s[k]) \in Req
    <3>1. c2s[k] \in Seq(Request)
      BY <1>1 DEF NetTypes
    <3>2. QED
      BY <3>1, SeqFirst
  <2>2. \A j \in jobs : j.req \in Req
    OBVIOUS
  <2> HIDE DEF Req
  <2>3. QED
    BY <2>1, <2>2 DEF Server, ServerMessage, Work, Connect, Break, Answer
<1> HIDE DEF Req
<1>10. /\ s2c' \in [Conns -> Seq(Response)]
       /\ \A k2 \in Conns : \A a \in DOMAIN s2c'[k2] :
            \/ \E b \in DOMAIN s2c[k2] : s2c'[k2][a] = s2c[k2][b]
            \/ \E m \in Req : s2c'[k2][a] = [id |-> m.id, status |-> Status[m.kind]]
  <2>1. s2c \in [Conns -> Seq(Response)]
    BY <1>1 DEF NetTypes
  <2>2. CASE s2c' = s2c
    BY <2>1, <2>2
  <2>3. ASSUME NEW m \in Req,
               s2c' = [s2c EXCEPT ![k] = Append(@, [id |-> m.id, status |-> Status[m.kind]])]
        PROVE  /\ s2c' \in [Conns -> Seq(Response)]
               /\ \A k2 \in Conns : \A a \in DOMAIN s2c'[k2] :
                    \/ \E b \in DOMAIN s2c[k2] : s2c'[k2][a] = s2c[k2][b]
                    \/ s2c'[k2][a] = [id |-> m.id, status |-> Status[m.kind]]
    <3> DEFINE new == [id |-> m.id, status |-> Status[m.kind]]
    <3>1. new \in Response
      BY <1>6 DEF Request, Response, AnyStatus
    <3> HIDE DEF new
    <3>2. s2c' = [s2c EXCEPT ![k] = Append(s2c[k], new)]
      BY <2>3 DEF new
    <3>3. /\ Append(s2c[k], new) \in Seq(Response)
          /\ \A a \in DOMAIN Append(s2c[k], new) :
               \/ Append(s2c[k], new)[a] = new
               \/ a \in DOMAIN s2c[k] /\ Append(s2c[k], new)[a] = s2c[k][a]
      BY <2>1, <3>1, SeqAdded
    <3>4. s2c' \in [Conns -> Seq(Response)]
      BY <2>1, <3>2, <3>3
    <3>5. s2c'[k] = Append(s2c[k], new) /\ \A k2 \in Conns : k2 # k => s2c'[k2] = s2c[k2]
      BY <2>1, <3>2
    <3>6. \A k2 \in Conns : \A a \in DOMAIN s2c'[k2] :
                    (\E b \in DOMAIN s2c[k2] : s2c'[k2][a] = s2c[k2][b]) \/ s2c'[k2][a] = new
      BY <3>3, <3>5
    <3>7. QED
      BY <3>4, <3>6 DEF new
  <2>4. QED
    BY <1>9, <2>2, <2>3
<1>11. NetTypes'
  <2>1. jobs' \subseteq [conn : Conns, req : Request]
    BY <1>1, <1>6, <1>8 DEF NetTypes
  <2>2. QED
    BY <1>1, <1>2, <1>3, <1>7, <1>10, <2>1 DEF NetTypes
<1>12. Messages'
  <2>1. \A c \in Callers : pc'[c] \in {"allocated", "suspended"} => Sent(call[c].id, call[c].kind)'
    BY <1>1, <1>2, <1>4 DEF Messages
  <2>2. ASSUME NEW k2 \in Conns, NEW a \in DOMAIN c2s'[k2]
        PROVE  Sent(c2s[k2][a].id, c2s[k2][a].kind)'
    <3>1. PICK b \in DOMAIN c2s[k2] : c2s'[k2][a] = c2s[k2][b]
      BY <1>7
    <3>2. Sent(c2s[k2][b].id, c2s[k2][b].kind)
      BY <1>1 DEF Messages
    <3>3. QED
      BY <1>4, <3>1, <3>2
  <2>3. ASSUME NEW j \in jobs' PROVE Sent(j.req.id, j.req.kind)'
    <3>1. j \in jobs \/ j.req \in Req
      BY <1>8
    <3>2. Sent(j.req.id, j.req.kind)
      BY <1>1, <1>6, <3>1 DEF Messages
    <3>3. QED
      BY <1>4, <3>2
  <2>4. ASSUME NEW k2 \in Conns, NEW a \in DOMAIN s2c'[k2] PROVE Answered(s2c[k2][a])'
    <3>1. Answered(s2c'[k2][a])
      <4>1. CASE \E b \in DOMAIN s2c[k2] : s2c'[k2][a] = s2c[k2][b]
        BY <1>1, <4>1 DEF Messages
      <4>2. ASSUME NEW m \in Req, s2c'[k2][a] = [id |-> m.id, status |-> Status[m.kind]]
            PROVE  Answered(s2c'[k2][a])
        <5>1. m.kind \in AnyKind /\ Sent(m.id, m.kind)
          BY <1>6 DEF Request
        <5>2. s2c'[k2][a].id = m.id /\ s2c'[k2][a].status = Status[m.kind]
          BY <4>2
        <5>3. QED
          BY <5>1, <5>2 DEF Answered
      <4>3. QED
        BY <1>10, <4>1, <4>2
    <3>2. QED
      BY <1>4, <3>1 DEF Answered
  <2>5. QED
    BY <2>1, <2>2, <2>3, <2>4 DEF Messages
<1>13. QED
  BY <1>4, <1>5, <1>11, <1>12 DEF IInv, Types, Exact

\* The steps of callMethod that leave the slot map alone: a pending call stays what it is.
LEMMA PendingKept ==
  ASSUME IInv, ~wild, UNCHANGED <<slots, out, closing, link>>,
         \A d \in Callers : pc[d] \in {"allocated", "suspended"} /\ ~Resumed(d) =>
            pc'[d] \in {"allocated", "suspended"} /\ call'[d] = call[d] /\ got'[d] = got[d]
  PROVE  /\ LiveCalls' /\ DueCalls'
         /\ \A id, kind : Sent(id, kind) => Sent(id, kind)'
<1>1. LiveCalls /\ DueCalls /\ NetTypes
  BY DEF IInv, Exact, Types
<1>2. ASSUME NEW d \in Callers, NEW id, Pending(d, id)
      PROVE  Pending(d, id)' /\ call'[d] = call[d]
  BY <1>2 DEF Pending, Resumed
<1>3. ASSUME NEW i \in Index, slots[i].live
      PROVE  /\ slots[i].caller \in Callers
             /\ Pending(slots[i].caller, [slot |-> i, version |-> slots[i].version])'
             /\ call'[slots[i].caller] = call[slots[i].caller]
             /\ slots[i].conn = call[slots[i].caller].conn
  <2>1. /\ slots[i].caller \in Callers
        /\ Pending(slots[i].caller, [slot |-> i, version |-> slots[i].version])
        /\ slots[i].conn = call[slots[i].caller].conn
    BY <1>1, <1>3 DEF LiveCalls
  <2>2. QED
    BY <2>1, <1>2
<1>4. LiveCalls'
  BY <1>3 DEF LiveCalls, Index, Pending, Resumed
<1>5. ASSUME NEW r, r.caller \in Callers, Pending(r.caller, r.id), Outcome(r)
      PROVE  Pending(r.caller, r.id)' /\ Outcome(r)'
  BY <1>2, <1>5 DEF Outcome
<1>6. \A t \in Threads : \A a \in DOMAIN out[t] : out[t][a].caller \in Callers
  <2>1. TAKE t \in Threads
  <2>2. out[t] \in Seq(Due)
    BY <1>1 DEF NetTypes
  <2>3. \A a \in DOMAIN out[t] : out[t][a] \in Due
    BY <2>2, SeqMembers
  <2>4. QED
    BY <2>3 DEF Due
<1>7. DueCalls'
  <2>1. ASSUME NEW t \in Threads, NEW a \in DOMAIN out[t]
        PROVE  Pending(out[t][a].caller, out[t][a].id)' /\ Outcome(out[t][a])'
    BY <1>1, <1>5, <1>6, <2>1 DEF DueCalls
  <2>2. QED
    BY <1>1, <2>1 DEF DueCalls, Index
<1>8. ASSUME NEW id, NEW kind, Sent(id, kind) PROVE Sent(id, kind)'
  <2>1. slots[id.slot].live /\ id.slot \in Index => call'[slots[id.slot].caller] = call[slots[id.slot].caller]
    BY <1>3
  <2>2. QED
    BY <1>8, <2>1 DEF Sent, Index
<1>9. QED
  BY <1>4, <1>7, <1>8

\* pickConnection: another call begins, or fails at once.
LEMMA PickKeeps ==
  ASSUME NEW c \in Callers, IInv, ~wild, Pick(c)
  PROVE  IInv'
<1>1. CallTypes /\ NetTypes /\ SlotTypes /\ Messages /\ Calls
  BY DEF IInv, Types, Exact
<1>2. /\ UNCHANGED <<slots, free, link, c2s, s2c, jobs, out, closing, exhausted, wild>>
      /\ ~closing /\ pc[c] = "idle" /\ pc'[c] \in {"idle", "picked"}
  BY <1>1 DEF Pick, net, hist, CallTypes
<1>3. \A d \in Callers : d # c => pc'[d] = pc[d] /\ call'[d] = call[d] /\ got'[d] = got[d]
  BY <1>1 DEF Pick, CallTypes
<1>4. SlotTypes' /\ Spare' /\ StaleOnlyAfterExhaustion' /\ FreeSlots'
  BY <1>2, SlotsKept
<1>5. /\ LiveCalls' /\ DueCalls'
      /\ \A id, kind : Sent(id, kind) => Sent(id, kind)'
  BY <1>2, <1>3, PendingKept
<1>6. NetTypes'
  BY <1>1, <1>2 DEF NetTypes
<1>7. CallTypes' /\ Calls'
  <2>1. NoCall.id \in Id /\ NoCall.kind \in AnyKind /\ Closed \in AnyStatus /\ Kinds \subseteq AnyKind
    BY DEF NoCall, Id, AnyKind, AnyStatus
  <2>2. call[c].n \in Nat /\ got[c].n \in Nat /\ got[c].n <= call[c].n
    BY <1>1 DEF CallTypes, Calls
  <2>3. CASE \E k \in Conns, kind \in Kinds :
              /\ call' = [call EXCEPT ![c] = [conn |-> k, id |-> NoCall.id, kind |-> kind, n |-> call[c].n + 1]]
              /\ pc' = [pc EXCEPT ![c] = "picked"] /\ UNCHANGED got
    <3>1. PICK k \in Conns, kind \in Kinds :
              /\ call' = [call EXCEPT ![c] = [conn |-> k, id |-> NoCall.id, kind |-> kind, n |-> call[c].n + 1]]
              /\ pc' = [pc EXCEPT ![c] = "picked"] /\ UNCHANGED got
      BY <2>3
    <3> DEFINE new == [conn |-> k, id |-> NoCall.id, kind |-> kind, n |-> call[c].n + 1]
    <3>3. new \in [conn : Conns \cup {None}, id : Id, kind : AnyKind, n : Nat]
      BY <2>1, <2>2
    <3>4. new.n = call[c].n + 1 /\ new.conn \in Conns
      OBVIOUS
    <3> HIDE DEF new
    <3>5. call' = [call EXCEPT ![c] = new]
      BY <3>1 DEF new
    <3>6. CallTypes'
      <4>1. pc' \in [Callers -> {"idle", "picked", "allocated", "suspended"}]
        BY <1>1, <3>1 DEF CallTypes
      <4>2. call' \in [Callers -> [conn : Conns \cup {None}, id : Id, kind : AnyKind, n : Nat]]
        BY <1>1, <3>3, <3>5 DEF CallTypes
      <4>3. QED
        BY <1>1, <3>1, <4>1, <4>2 DEF CallTypes
    <3>7. Calls'
      BY <1>1, <1>2, <2>2, <3>1, <3>4, <3>5 DEF CallTypes, Calls, Resumed
    <3>8. QED
      BY <3>6, <3>7
  <2>4. CASE /\ call' = [call EXCEPT ![c].n = @ + 1]
             /\ got' = [got EXCEPT ![c] = [n |-> call[c].n + 1, from |-> NoCall.id, status |-> Closed]]
             /\ UNCHANGED pc
    <3>1. call'[c].n = call[c].n + 1 /\ got'[c].n = call[c].n + 1
      BY <1>1, <2>4 DEF CallTypes
    <3>2. CallTypes'
      <4> DEFINE fields == [conn : Conns \cup {None}, id : Id, kind : AnyKind, n : Nat]
                 new == [call[c] EXCEPT !.n = @ + 1]
                 error == [n |-> call[c].n + 1, from |-> NoCall.id, status |-> Closed]
      <4>1. call' = [call EXCEPT ![c] = new] /\ got' = [got EXCEPT ![c] = error] /\ pc' = pc
        BY <2>4
      <4>2. /\ pc \in [Callers -> {"idle", "picked", "allocated", "suspended"}]
            /\ call \in [Callers -> fields]
            /\ got \in [Callers -> [n : Nat, from : Id, status : AnyStatus]]
        BY <1>1 DEF CallTypes
      <4>3. call[c] \in fields
        BY <4>2
      <4>4. new \in fields
        BY <2>2, <4>3
      <4>5. error \in [n : Nat, from : Id, status : AnyStatus]
        BY <2>1, <2>2
      <4> HIDE DEF new, error, fields
      <4>6. call' \in [Callers -> fields] /\ got' \in [Callers -> [n : Nat, from : Id, status : AnyStatus]]
        BY <4>1, <4>2, <4>4, <4>5
      <4>7. QED
        BY <4>1, <4>2, <4>6 DEF CallTypes, fields
    <3>3. Calls'
      BY <1>1, <1>2, <1>3, <2>2, <2>4, <3>1 DEF Calls, Resumed
    <3>4. QED
      BY <3>2, <3>3
  <2>5. QED
    BY <2>3, <2>4 DEF Pick
<1>8. Messages'
  BY <1>1, <1>2, <1>3, <1>5 DEF Messages, Answered
<1>9. QED
  BY <1>4, <1>5, <1>6, <1>7, <1>8 DEF IInv, Types, Exact

\* await_suspend sends the request under the id of the slot.
LEMMA SendKeeps ==
  ASSUME NEW c \in Callers, IInv, ~wild, Send(c)
  PROVE  IInv'
<1>1. CallTypes /\ NetTypes /\ SlotTypes /\ Messages /\ Calls
  BY DEF IInv, Types, Exact
<1>2. /\ UNCHANGED <<slots, free, link, call, s2c, jobs, out, closing, got, exhausted, wild>>
      /\ pc[c] = "allocated"
      /\ pc' = [pc EXCEPT ![c] = IF got[c].n = call[c].n THEN "idle" ELSE "suspended"]
  BY DEF Send, hist
<1>3. SlotTypes' /\ Spare' /\ StaleOnlyAfterExhaustion' /\ FreeSlots'
  BY <1>2, SlotsKept
<1>4. /\ LiveCalls' /\ DueCalls'
      /\ \A id, kind : Sent(id, kind) => Sent(id, kind)'
  <2>1. \A d \in Callers : pc[d] \in {"allocated", "suspended"} /\ ~Resumed(d) =>
            pc'[d] \in {"allocated", "suspended"} /\ call'[d] = call[d] /\ got'[d] = got[d]
    BY <1>1, <1>2 DEF Resumed, CallTypes
  <2>2. QED
    BY <1>2, <2>1, PendingKept
<1>5. CallTypes' /\ Calls'
  BY <1>1, <1>2 DEF CallTypes, Calls, Resumed
<1> DEFINE k == call[c].conn
           m == [id |-> call[c].id, kind |-> call[c].kind]
<1>6. k \in Conns /\ m \in Request /\ Sent(m.id, m.kind)
  BY <1>1, <1>2 DEF Calls, CallTypes, Messages, Request
<1>7. c2s' = c2s \/ c2s' = [c2s EXCEPT ![k] = Append(@, m)]
  BY DEF Send
<1> HIDE DEF k, m
<1>8. /\ c2s' \in [Conns -> Seq(Request)]
      /\ \A k2 \in Conns : \A a \in DOMAIN c2s'[k2] :
           c2s'[k2][a] = m \/ \E b \in DOMAIN c2s[k2] : c2s'[k2][a] = c2s[k2][b]
  <2>1. c2s \in [Conns -> Seq(Request)]
    BY <1>1 DEF NetTypes
  <2>2. CASE c2s' = c2s
    BY <2>1, <2>2
  <2>3. CASE c2s' = [c2s EXCEPT ![k] = Append(@, m)]
    <3>1. /\ Append(c2s[k], m) \in Seq(Request)
          /\ \A a \in DOMAIN Append(c2s[k], m) :
               \/ Append(c2s[k], m)[a] = m
               \/ a \in DOMAIN c2s[k] /\ Append(c2s[k], m)[a] = c2s[k][a]
      BY <1>6, <2>1, SeqAdded
    <3>2. c2s'[k] = Append(c2s[k], m) /\ \A k2 \in Conns : k2 # k => c2s'[k2] = c2s[k2]
      BY <1>6, <2>1, <2>3
    <3>3. c2s' \in [Conns -> Seq(Request)]
      BY <1>6, <2>1, <2>3, <3>1
    <3>4. QED
      BY <3>1, <3>2, <3>3
  <2>4. QED
    BY <1>7, <2>2, <2>3
<1>9. NetTypes'
  BY <1>1, <1>2, <1>8 DEF NetTypes
<1>10. Messages'
  <2>1. \A d \in Callers : pc'[d] \in {"allocated", "suspended"} => Sent(call[d].id, call[d].kind)'
    <3>1. \A d \in Callers : pc'[d] \in {"allocated", "suspended"} => pc[d] \in {"allocated", "suspended"}
      BY <1>1, <1>2 DEF CallTypes
    <3>2. \A d \in Callers : pc'[d] \in {"allocated", "suspended"} => Sent(call[d].id, call[d].kind)
      BY <1>1, <3>1 DEF Messages
    <3>3. QED
      BY <1>2, <1>4, <3>2
  <2>2. ASSUME NEW k2 \in Conns, NEW a \in DOMAIN c2s'[k2]
        PROVE  Sent(c2s[k2][a].id, c2s[k2][a].kind)'
    <3>1. Sent(c2s'[k2][a].id, c2s'[k2][a].kind)
      BY <1>1, <1>6, <1>8 DEF Messages
    <3>2. QED
      BY <1>4, <3>1
  <2>3. \A j \in jobs' : Sent(j.req.id, j.req.kind)'
    BY <1>1, <1>2, <1>4 DEF Messages
  <2>4. \A k2 \in Conns : \A a \in DOMAIN s2c'[k2] : Answered(s2c[k2][a])'
    BY <1>1, <1>2, <1>4 DEF Messages, Answered
  <2>5. QED
    BY <2>1, <2>2, <2>3, <2>4 DEF Messages
<1>11. QED
  BY <1>3, <1>4, <1>5, <1>9, <1>10 DEF IInv, Types, Exact

\* A call taken from the map is resumed: it is then neither in the map nor due elsewhere.
LEMMA ResumeKeeps ==
  ASSUME NEW t \in Threads, IInv, ~wild, Resume(t)
  PROVE  IInv'
<1>1. CallTypes /\ NetTypes /\ SlotTypes /\ Messages /\ Calls /\ LiveCalls /\ DueCalls
  BY DEF IInv, Types, Exact
<1>2. /\ UNCHANGED <<slots, free, link, c2s, s2c, jobs, call, closing, exhausted, wild>>
      /\ out[t] # <<>> /\ out' = [out EXCEPT ![t] = Tail(@)]
  BY DEF Resume, net, hist
<1>3. SlotTypes' /\ Spare' /\ StaleOnlyAfterExhaustion' /\ FreeSlots'
  BY <1>2, SlotsKept
<1> DEFINE r == Head(out[t])
           c == r.caller
<1>4. /\ got' = [got EXCEPT ![c] = [n |-> call[c].n, from |-> r.id, status |-> r.status]]
      /\ pc' = [pc EXCEPT ![c] = IF @ = "suspended" THEN "idle" ELSE @]
  BY DEF Resume
<1>5. /\ Tail(out[t]) \in Seq(Due)
      /\ 1 \in DOMAIN out[t] /\ r = out[t][1] /\ r \in Due
      /\ \A a \in DOMAIN Tail(out[t]) : a + 1 \in DOMAIN out[t] /\ Tail(out[t])[a] = out[t][a + 1] /\ a \in Nat \ {0}
  <2>1. out[t] \in Seq(Due)
    BY <1>1 DEF NetTypes
  <2>2. Tail(out[t]) \in Seq(Due)
    BY <1>2, <2>1, SeqFirst
  <2>3. \A a \in DOMAIN Tail(out[t]) : a \in Nat \ {0}
    BY <2>2, SeqMembers
  <2>4. QED
    BY <1>2, <2>1, <2>2, <2>3, SeqFirst
<1>6. c \in Callers /\ r.id \in Id /\ r.status \in AnyStatus
  BY <1>5 DEF Due
<1>7. Pending(c, r.id) /\ \A i \in Index : slots[i].live => slots[i].caller # c
  BY <1>1, <1>5 DEF DueCalls
<1> HIDE DEF c, r
<1>8. \A d \in Callers : d # c => pc'[d] = pc[d] /\ got'[d] = got[d]
  BY <1>4
<1>9. pc[c] \in {"allocated", "suspended"} /\ pc'[c] \in {"allocated", "idle"}
      /\ (pc[c] = "suspended" => pc'[c] = "idle") /\ got'[c].n = call[c].n
  BY <1>1, <1>4, <1>6, <1>7 DEF Pending, CallTypes
<1>10. CallTypes' /\ Calls'
  <2>1. [n |-> call[c].n, from |-> r.id, status |-> r.status] \in [n : Nat, from : Id, status : AnyStatus]
    BY <1>1, <1>6 DEF CallTypes
  <2>2. CallTypes'
    <3>1. got' \in [Callers -> [n : Nat, from : Id, status : AnyStatus]]
      BY <1>1, <1>4, <2>1 DEF CallTypes
    <3>2. pc' \in [Callers -> {"idle", "picked", "allocated", "suspended"}]
      BY <1>1, <1>4 DEF CallTypes
    <3>3. QED
      BY <1>1, <1>2, <3>1, <3>2 DEF CallTypes
  <2>3. call[c].n \in Nat
    BY <1>1, <1>6 DEF CallTypes
  <2>4. Calls'
    BY <1>1, <1>2, <1>8, <1>9, <2>3 DEF Calls, Resumed
  <2>5. QED
    BY <2>2, <2>4
<1>11. \A id, kind : Sent(id, kind) => Sent(id, kind)'
  BY <1>2 DEF Sent, Index
<1>12. ASSUME NEW d \in Callers, d # c, NEW id, Pending(d, id) PROVE Pending(d, id)'
  BY <1>2, <1>8, <1>12 DEF Pending, Resumed
<1>13. LiveCalls'
  <2>1. ASSUME NEW i \in Index, slots[i].live
        PROVE  /\ slots[i].caller \in Callers
               /\ Pending(slots[i].caller, [slot |-> i, version |-> slots[i].version])'
               /\ slots[i].conn = call[slots[i].caller].conn
    <3>1. /\ slots[i].caller \in Callers /\ slots[i].caller # c
          /\ Pending(slots[i].caller, [slot |-> i, version |-> slots[i].version])
          /\ slots[i].conn = call[slots[i].caller].conn
      BY <1>1, <1>7, <2>1 DEF LiveCalls
    <3>2. QED
      BY <1>2, <1>12, <3>1
  <2>2. QED
    BY <1>2, <2>1 DEF LiveCalls, Index
<1>14. DueCalls'
  <2> DEFINE at(u, a) == IF u = t THEN a + 1 ELSE a
  <2>1. ASSUME NEW u \in Threads, NEW a \in DOMAIN out'[u]
        PROVE  /\ at(u, a) \in DOMAIN out[u] /\ out'[u][a] = out[u][at(u, a)]
               /\ out'[u][a].caller # c /\ out'[u][a].caller \in Callers
    <3>1. at(u, a) \in DOMAIN out[u] /\ out'[u][a] = out[u][at(u, a)] /\ (u = t => at(u, a) # 1)
      BY <1>1, <1>2, <1>5, <2>1 DEF NetTypes
    <3>2. out'[u][a].caller # c
      BY <1>1, <1>5, <3>1 DEF DueCalls, c
    <3>3. out[u] \in Seq(Due)
      BY <1>1 DEF NetTypes
    <3>4. out[u][at(u, a)] \in Due
      BY <3>1, <3>3, SeqMembers
    <3>5. QED
      BY <3>1, <3>2, <3>4 DEF Due
  <2>2. ASSUME NEW u \in Threads, NEW a \in DOMAIN out'[u]
        PROVE  /\ Pending(out[u][a].caller, out[u][a].id)' /\ Outcome(out[u][a])'
               /\ \A i \in Index : slots[i].live => slots[i].caller # out'[u][a].caller
    <3> DEFINE e == out[u][at(u, a)]
    <3>1. out'[u][a] = e /\ e.caller # c /\ e.caller \in Callers
      BY <2>1
    <3>2. Pending(e.caller, e.id) /\ Outcome(e) /\ \A i \in Index : slots[i].live => slots[i].caller # e.caller
      BY <1>1, <2>1 DEF DueCalls
    <3>3. PICK x : x = e
      OBVIOUS
    <3>4. Pending(x.caller, x.id)' /\ Outcome(x)'
      BY <1>2, <1>12, <3>1, <3>2, <3>3 DEF Outcome
    <3>5. QED
      BY <3>1, <3>2, <3>3, <3>4
  <2>3. \A u, v \in Threads : \A a \in DOMAIN out'[u], b \in DOMAIN out'[v] :
          out'[u][a].caller = out'[v][b].caller => u = v /\ a = b
    <3>1. TAKE u, v \in Threads
    <3>2. TAKE a \in DOMAIN out'[u], b \in DOMAIN out'[v]
    <3>3. HAVE out'[u][a].caller = out'[v][b].caller
    <3>4. u = v /\ at(u, a) = at(v, b)
      BY <1>1, <2>1, <3>3 DEF DueCalls
    <3>5. a \in Nat /\ b \in Nat
      <4>1. out' \in [Threads -> Seq(Due)]
        BY <1>1, <1>2, <1>5 DEF NetTypes
      <4>2. QED
        BY <4>1, SeqMembers
    <3>6. QED
      BY <3>4, <3>5
  <2> HIDE DEF at
  <2>4. QED
    BY <1>2, <2>2, <2>3 DEF DueCalls, Index
<1>15. NetTypes'
  <2>1. out' \in [Threads -> Seq(Due)]
    BY <1>1, <1>2, <1>5 DEF NetTypes
  <2>2. QED
    BY <1>1, <1>2, <2>1 DEF NetTypes
<1>16. Messages'
  <2>1. \A d \in Callers : pc'[d] \in {"allocated", "suspended"} => pc[d] \in {"allocated", "suspended"}
    BY <1>8, <1>9
  <2>2. QED
    BY <1>1, <1>2, <1>11, <2>1 DEF Messages, Answered
<1>17. QED
  BY <1>3, <1>10, <1>13, <1>14, <1>15, <1>16 DEF IInv, Types, Exact

\* The slot map grown by its new slots, which are chained one to the next.
Fresh(i) == EmptySlot(IF i < ExpandSize THEN Len(slots) + i + 1 ELSE 0)
NewSlots == [i \in 1 .. ExpandSize |-> Fresh(i)]

\* What allocateSlot's growth adds: slots that are free, linked to their right
\* neighbours, the last of them to none.
LEMMA GrownType ==
  ASSUME SlotTypes
  PROVE  /\ Grown \in Seq(Slot) /\ Len(Grown) = Len(slots) + ExpandSize
         /\ \A i \in Index : Grown[i] = slots[i]
         /\ \A i \in Len(slots) + 1 .. Len(Grown) :
              /\ Grown[i].next = IF i < Len(Grown) THEN i + 1 ELSE 0
              /\ ~Grown[i].live /\ Grown[i].caller = None /\ Grown[i].conn = None
<1>1. ExpandSize \in Nat \ {0} /\ slots \in Seq(Slot) /\ Len(slots) \in Nat
  BY RpcAssumption DEF SlotTypes
<1>2. \A i \in 1 .. ExpandSize :
        /\ Fresh(i) = [caller |-> None, conn |-> None, version |-> 1, live |-> FALSE,
                       next |-> IF i < ExpandSize THEN Len(slots) + i + 1 ELSE 0]
        /\ (IF i < ExpandSize THEN Len(slots) + i + 1 ELSE 0) \in Nat
  BY <1>1 DEF Fresh, EmptySlot
<1>3. \A i \in 1 .. ExpandSize :
        /\ Fresh(i) \in Slot /\ ~Fresh(i).live /\ Fresh(i).caller = None /\ Fresh(i).conn = None
        /\ Fresh(i).next = IF i < ExpandSize THEN Len(slots) + i + 1 ELSE 0
  <2>1. TAKE i \in 1 .. ExpandSize
  <2>2. PICK x \in Nat : /\ Fresh(i) = [caller |-> None, conn |-> None, version |-> 1, live |-> FALSE, next |-> x]
                         /\ x = IF i < ExpandSize THEN Len(slots) + i + 1 ELSE 0
    BY <1>2
  <2>3. 1 \in Nat /\ FALSE \in BOOLEAN
    OBVIOUS
  <2>4. /\ Fresh(i) \in Slot /\ ~Fresh(i).live /\ Fresh(i).caller = None /\ Fresh(i).next = x
        /\ Fresh(i).conn = None
    BY <2>2, <2>3 DEF Slot
  <2>5. QED
    BY <2>2, <2>4
<1>4. NewSlots \in Seq(Slot) /\ Len(NewSlots) = ExpandSize /\ \A i \in 1 .. ExpandSize : NewSlots[i] = Fresh(i)
  BY <1>1, <1>3 DEF NewSlots
<1>5. Grown = slots \o NewSlots
  BY DEF Grown, NewSlots, Fresh
<1>6. \A S : \A q, r \in Seq(S) :
        /\ q \o r \in Seq(S) /\ Len(q \o r) = Len(q) + Len(r)
        /\ \A i \in 1 .. Len(q) : (q \o r)[i] = q[i]
        /\ \A i \in Len(q) + 1 .. Len(q) + Len(r) : (q \o r)[i] = r[i - Len(q)] /\ i - Len(q) \in 1 .. Len(r)
  OBVIOUS
<1>7. /\ Grown \in Seq(Slot) /\ Len(Grown) = Len(slots) + ExpandSize
      /\ \A i \in 1 .. Len(slots) : Grown[i] = slots[i]
      /\ \A i \in Len(slots) + 1 .. Len(slots) + ExpandSize :
           Grown[i] = Fresh(i - Len(slots)) /\ i - Len(slots) \in 1 .. ExpandSize
  BY ZenonT(40), <1>1, <1>4, <1>5, <1>6
<1>8. ASSUME NEW i \in Len(slots) + 1 .. Len(Grown)
      PROVE  /\ Grown[i].next = IF i < Len(Grown) THEN i + 1 ELSE 0
             /\ ~Grown[i].live /\ Grown[i].caller = None /\ Grown[i].conn = None
  <2>1. /\ i - Len(slots) \in 1 .. ExpandSize /\ Grown[i] = Fresh(i - Len(slots))
        /\ i \in Nat
    BY <1>1, <1>7, <1>8
  <2>2. i - Len(slots) < ExpandSize <=> i < Len(Grown)
    BY <1>1, <1>7, <2>1
  <2>3. Len(slots) + (i - Len(slots)) + 1 = i + 1
    BY <1>1, <2>1
  <2>4. QED
    BY <1>3, <2>1, <2>2, <2>3
<1>9. QED
  BY <1>7, <1>8 DEF Index

\* The slot map in which a call finds its slot: as it is, or grown.
Room == IF free = 0 THEN Grown ELSE slots
First == IF free = 0 THEN Len(slots) + 1 ELSE free

\* Once allocateSlot has grown the map if it had to, there is a free slot to take.
LEMMA RoomType ==
  ASSUME SlotTypes, FreeSlots, Spare, ~closing
  PROVE  /\ Room \in Seq(Slot) /\ Len(Room) \in Nat /\ Len(slots) <= Len(Room)
         /\ First \in 1 .. Len(Room) /\ ~Room[First].live
         /\ \A j \in Index : Room[j] = slots[j]
         /\ \A j \in 1 .. Len(Room) \ Index : ~Room[j].live
         /\ \A j \in 1 .. Len(Room) : /\ Room[j].next \in 0 .. Len(Room)
                                      /\ Room[j].caller = None => Room[j].conn = None
         /\ \A j \in 1 .. Len(Room) : ~Room[j].live /\ Room[j].next # 0 =>
               ~Room[Room[j].next].live /\ Room[j].next # First
         /\ \A j, k \in 1 .. Len(Room) : ~Room[j].live /\ ~Room[k].live /\ Room[j].next = Room[k].next
                                         /\ Room[j].next # 0 => j = k
         /\ ~exhausted => \A j \in 1 .. Len(Room) : ~Room[j].live /\ Room[j].next = 0 => Room[j].caller = None
<1>1. slots \in Seq(Slot) /\ Len(slots) \in Nat /\ free \in 0 .. Len(slots)
      /\ \A j \in 1 .. Len(slots) : /\ slots[j].next \in 0 .. Len(slots)
                                    /\ slots[j].caller = None => slots[j].conn = None
  BY DEF SlotTypes, Index
<1>2. CASE free # 0
  <2>1. Room = slots /\ First = free
    BY <1>2 DEF Room, First
  <2>2. /\ ~slots[free].live
        /\ \A i \in Index : ~slots[i].live /\ slots[i].next # 0 =>
              ~slots[slots[i].next].live /\ slots[i].next # free
        /\ \A i, j \in Index : ~slots[i].live /\ ~slots[j].live /\ slots[i].next = slots[j].next
                               /\ slots[i].next # 0 => i = j
    BY <1>2 DEF FreeSlots
  <2>3. ~exhausted => \A j \in Index : ~slots[j].live /\ slots[j].next = 0 => slots[j].caller = None
    BY DEF Spare
  <2>4. QED
    BY <1>1, <1>2, <2>1, <2>2, <2>3 DEF Index
<1>3. CASE free = 0
  <2> DEFINE n == Len(slots)
             m == Len(Grown)
  <2>1. Room = Grown /\ First = n + 1
    BY <1>3 DEF Room, First
  <2>2. /\ Grown \in Seq(Slot) /\ m = n + ExpandSize
        /\ \A i \in 1 .. n : Grown[i] = slots[i]
        /\ \A i \in n + 1 .. m : /\ Grown[i].next = IF i < m THEN i + 1 ELSE 0
                                 /\ ~Grown[i].live /\ Grown[i].caller = None /\ Grown[i].conn = None
    BY GrownType DEF Index
  <2>3. /\ \A i \in 1 .. n : ~slots[i].live /\ slots[i].next # 0 => ~slots[slots[i].next].live
        /\ \A i, j \in 1 .. n : ~slots[i].live /\ ~slots[j].live /\ slots[i].next = slots[j].next
                               /\ slots[i].next # 0 => i = j
    BY DEF FreeSlots, Index
  <2>4. n \in Nat /\ m \in Nat /\ n < m /\ ExpandSize \in Nat \ {0}
    <3>1. ExpandSize \in Nat \ {0}
      BY RpcAssumption
    <3>2. QED
      BY <1>1, <2>2, <3>1
  <2>5. ~exhausted => n = 0
    BY <1>1, <1>3 DEF Spare
  <2> HIDE DEF n, m
  <2>6. ASSUME NEW j \in 1 .. m, j \notin 1 .. n PROVE j \in n + 1 .. m
    BY <2>4, <2>6
  <2>7. \A j \in 1 .. n : Grown[j].next = slots[j].next /\ Grown[j].next \in 0 .. n /\ Grown[j].live = slots[j].live
    BY <1>1, <2>2 DEF n
  <2>8. ASSUME NEW j \in 1 .. m
        PROVE  /\ Grown[j].next \in 0 .. m
               /\ ~Grown[j].live /\ Grown[j].next # 0 => ~Grown[Grown[j].next].live /\ Grown[j].next # n + 1
    <3>1. CASE j \in 1 .. n
      <4>1. Grown[j].next \in 0 .. m /\ Grown[j].next # n + 1
        BY <2>4, <2>7, <3>1
      <4>2. ASSUME ~Grown[j].live, Grown[j].next # 0 PROVE ~Grown[Grown[j].next].live
        <5>1. slots[j].next \in 1 .. n /\ ~slots[j].live
          BY <2>4, <2>7, <3>1, <4>2
        <5>2. QED
          BY <2>3, <2>7, <3>1, <5>1
      <4>3. QED
        BY <4>1, <4>2
    <3>2. CASE j \in n + 1 .. m
      <4>1. Grown[j].next = (IF j < m THEN j + 1 ELSE 0) /\ j + 1 # n + 1 /\ j + 1 \in Nat
        BY <2>2, <2>4, <3>2
      <4>2. j < m => j + 1 \in n + 1 .. m
        BY <2>4, <3>2
      <4>3. QED
        BY <2>2, <2>4, <4>1, <4>2
    <3>3. QED
      BY <2>6, <3>1, <3>2
  <2>9. ASSUME NEW j \in 1 .. m, NEW k \in 1 .. m, ~Grown[j].live, ~Grown[k].live,
               Grown[j].next = Grown[k].next, Grown[j].next # 0
        PROVE  j = k
    <3>1. CASE j \in 1 .. n /\ k \in 1 .. n
      BY <2>3, <2>7, <2>9, <3>1
    <3>2. ASSUME NEW x \in n + 1 .. m, Grown[x].next # 0
          PROVE  Grown[x].next = x + 1 /\ \A y \in 1 .. n : Grown[y].next # x + 1
      BY <2>2, <2>4, <2>7, <3>2
    <3>3. CASE j \in n + 1 .. m /\ k \in n + 1 .. m
      <4>1. j + 1 = k + 1
        BY <2>9, <3>2, <3>3
      <4>2. QED
        BY <4>1
    <3>4. QED
      BY <2>6, <2>9, <3>1, <3>2, <3>3
  <2>10. /\ n + 1 \in 1 .. m /\ ~Grown[n + 1].live
         /\ \A j \in 1 .. m \ 1 .. n : ~Grown[j].live
    <3>1. n + 1 \in 1 .. m /\ n + 1 \in n + 1 .. m
      BY <2>4
    <3>2. QED
      BY <2>2, <2>6, <3>1
  <2>11. ~exhausted => \A j \in 1 .. m : ~Grown[j].live /\ Grown[j].next = 0 => Grown[j].caller = None
    <3>1. n = 0 => \A j \in 1 .. m : j \in n + 1 .. m
      BY <2>4
    <3>2. QED
      BY <2>2, <2>5, <3>1
  <2>12. \A j \in 1 .. m : Grown[j].caller = None => Grown[j].conn = None
    BY <1>1, <2>2, <2>6 DEF n
  <2>13. QED
    BY <2>1, <2>2, <2>4, <2>8, <2>9, <2>10, <2>11, <2>12 DEF Index, n, m
<1>4. QED
  BY <1>2, <1>3

\* allocateSlot: the first free slot, in a map that is grown when there is none.
LEMMA AllocateKeeps ==
  ASSUME NEW c \in Callers, IInv, ~wild, AllocateSlot(c)
  PROVE  IInv'
<1> DEFINE i == First
           new == [caller |-> c, conn |-> call[c].conn, next |-> 0, version |-> Room[i].version, live |-> TRUE]
           id == [slot |-> i, version |-> Room[i].version]
<1>1. /\ SlotTypes /\ CallTypes /\ NetTypes /\ Calls /\ Spare /\ StaleOnlyAfterExhaustion
      /\ FreeSlots /\ LiveCalls /\ DueCalls /\ Messages
  BY DEF IInv, Types, Exact
<1>2. /\ UNCHANGED <<link, c2s, s2c, jobs, out, closing, got, wild>>
      /\ pc[c] = "picked" /\ pc' = [pc EXCEPT ![c] = "allocated"]
      /\ slots' = [Room EXCEPT ![i] = new] /\ free' = Room[i].next
      /\ exhausted' = (exhausted \/ Room[i].next = 0)
      /\ call' = [call EXCEPT ![c].id = id]
  BY DEF AllocateSlot, Room, First, net
<1>3. ~closing /\ call[c].conn \in Conns /\ got[c].n <= call[c].n /\ ~Resumed(c)
  BY <1>1, <1>2 DEF Calls
<1>4. /\ Room \in Seq(Slot) /\ Len(Room) \in Nat /\ Len(slots) <= Len(Room)
      /\ i \in 1 .. Len(Room) /\ ~Room[i].live
      /\ \A j \in Index : Room[j] = slots[j]
      /\ \A j \in 1 .. Len(Room) \ Index : ~Room[j].live
      /\ \A j \in 1 .. Len(Room) : /\ Room[j].next \in 0 .. Len(Room)
                                   /\ Room[j].caller = None => Room[j].conn = None
      /\ \A j \in 1 .. Len(Room) : ~Room[j].live /\ Room[j].next # 0 =>
            ~Room[Room[j].next].live /\ Room[j].next # i
      /\ \A j, k \in 1 .. Len(Room) : ~Room[j].live /\ ~Room[k].live /\ Room[j].next = Room[k].next
                                      /\ Room[j].next # 0 => j = k
      /\ ~exhausted => \A j \in 1 .. Len(Room) : ~Room[j].live /\ Room[j].next = 0 => Room[j].caller = None
  BY <1>1, <1>3, RoomType
<1> HIDE DEF i
<1>5. Room[i] \in Slot /\ Room[i].version \in Nat /\ i \in Nat /\ id \in Id
  <2>1. Room[i] \in Slot /\ i \in Nat
    BY <1>4
  <2>2. Room[i].version \in Nat
    BY <2>1 DEF Slot
  <2>3. QED
    BY <2>1, <2>2 DEF Id
<1>6. /\ new \in Slot /\ new.live /\ new.caller = c /\ new.conn = call[c].conn /\ new.next = 0
      /\ new.version = Room[i].version
  <2>1. 0 \in Nat /\ TRUE \in BOOLEAN
    OBVIOUS
  <2>2. QED
    BY <1>3, <1>5, <2>1 DEF Slot
<1>7. id.slot = i /\ id.version = Room[i].version
  OBVIOUS
<1> HIDE DEF new, id
<1>8. /\ slots' \in Seq(Slot) /\ Len(slots') = Len(Room) /\ slots'[i] = new
      /\ \A j \in 1 .. Len(Room) : j # i => slots'[j] = Room[j]
  <2>1. \A S : \A q \in Seq(S), x \in S : \A a \in 1 .. Len(q) :
          /\ [q EXCEPT ![a] = x] \in Seq(S) /\ Len([q EXCEPT ![a] = x]) = Len(q)
          /\ [q EXCEPT ![a] = x][a] = x
          /\ \A b \in 1 .. Len(q) : b # a => [q EXCEPT ![a] = x][b] = q[b]
    OBVIOUS
  <2>2. QED
    BY <1>2, <1>4, <1>6, <2>1
<1>9. SlotTypes'
  BY <1>2, <1>4, <1>6, <1>8, RpcAssumption DEF SlotTypes, Index
<1>10. Spare' /\ StaleOnlyAfterExhaustion'
  <2>1. ASSUME ~exhausted', NEW j \in 1 .. Len(Room), ~slots'[j].live, slots'[j].next = 0
        PROVE  slots'[j].caller = None
    <3>1. j # i /\ slots'[j] = Room[j] /\ ~exhausted
      BY <1>2, <1>6, <1>8, <2>1
    <3>2. QED
      BY <1>4, <2>1, <3>1
  <2>2. QED
    BY <1>1, <1>2, <1>8, <2>1 DEF Spare, StaleOnlyAfterExhaustion, Index
<1>11. FreeSlots'
  <2>1. free' # 0 => ~slots'[free'].live
    BY <1>2, <1>4, <1>8
  <2>2. ASSUME NEW j \in 1 .. Len(Room), ~slots'[j].live, slots'[j].next # 0
        PROVE  ~slots'[slots'[j].next].live /\ slots'[j].next # free'
    <3>1. j # i /\ slots'[j] = Room[j]
      BY <1>6, <1>8, <2>2
    <3>2. Room[j].next \in 1 .. Len(Room) /\ ~Room[Room[j].next].live /\ Room[j].next # i
      BY <1>4, <2>2, <3>1
    <3>3. Room[j].next # Room[i].next
      BY <1>4, <2>2, <3>1
    <3>4. QED
      BY <1>2, <1>8, <3>1, <3>2, <3>3
  <2>3. ASSUME NEW j \in 1 .. Len(Room), NEW k \in 1 .. Len(Room), ~slots'[j].live, ~slots'[k].live,
               slots'[j].next = slots'[k].next, slots'[j].next # 0
        PROVE  j = k
    BY <1>4, <1>6, <1>8, <2>3
  <2>4. QED
    BY <1>8, <2>1, <2>2, <2>3 DEF FreeSlots, Index
<1>12. /\ \A d \in Callers : d # c => pc'[d] = pc[d] /\ call'[d] = call[d]
       /\ pc'[c] = "allocated" /\ call'[c].id = id /\ call'[c].n = call[c].n
       /\ call'[c].conn = call[c].conn /\ call'[c].kind = call[c].kind
  BY <1>1, <1>2 DEF CallTypes
<1>13. CallTypes' /\ Calls'
  <2>1. CallTypes'
    BY <1>1, <1>2, <1>5 DEF CallTypes
  <2>2. Calls'
    BY <1>1, <1>2, <1>3, <1>12 DEF Calls, Resumed
  <2>3. QED
    BY <2>1, <2>2
<1>14. ASSUME NEW d \in Callers, NEW x, Pending(d, x)
       PROVE  Pending(d, x)' /\ d # c /\ call'[d] = call[d]
  BY <1>2, <1>12, <1>14 DEF Pending, Resumed
<1>15. ASSUME NEW j \in 1 .. Len(Room), j # i, slots'[j].live
       PROVE  /\ slots'[j] = slots[j] /\ j \in Index /\ slots[j].live
              /\ slots[j].caller \in Callers /\ slots[j].caller # c
              /\ call'[slots[j].caller] = call[slots[j].caller]
              /\ Pending(slots[j].caller, [slot |-> j, version |-> slots[j].version])'
              /\ slots[j].conn = call[slots[j].caller].conn
  <2>1. slots'[j] = slots[j] /\ j \in Index /\ slots[j].live
    BY <1>4, <1>8, <1>15
  <2>2. /\ slots[j].caller \in Callers
        /\ Pending(slots[j].caller, [slot |-> j, version |-> slots[j].version])
        /\ slots[j].conn = call[slots[j].caller].conn
    BY <1>1, <2>1 DEF LiveCalls
  <2>3. QED
    BY <1>14, <2>1, <2>2
<1>16. LiveCalls'
  <2>1. ~Resumed(c)'
    BY <1>2, <1>3, <1>12 DEF Resumed
  <2>2. id = [slot |-> i, version |-> slots'[i].version]
    BY <1>6, <1>8 DEF id
  <2>3. ASSUME NEW j \in 1 .. Len(Room), slots'[j].live
        PROVE /\ slots'[j].caller \in Callers
              /\ pc'[slots'[j].caller] \in {"allocated", "suspended"}
              /\ call'[slots'[j].caller].id = [slot |-> j, version |-> slots'[j].version]
              /\ ~Resumed(slots[j].caller)'
              /\ slots'[j].conn = call'[slots'[j].caller].conn
    <3>1. CASE j = i
      BY <1>6, <1>8, <1>12, <2>1, <2>2, <3>1 DEF Resumed
    <3>2. CASE j # i
      BY <1>15, <2>3, <3>2 DEF Pending, Resumed
    <3>3. QED
      BY <3>1, <3>2
  <2>4. QED
    BY <1>8, <2>3 DEF LiveCalls, Index, Pending
<1>17. \A t \in Threads : \A a \in DOMAIN out[t] : out[t][a].caller \in Callers
  <2>1. TAKE t \in Threads
  <2>2. out[t] \in Seq(Due)
    BY <1>1 DEF NetTypes
  <2>3. \A a \in DOMAIN out[t] : out[t][a] \in Due
    BY <2>2, SeqMembers
  <2>4. QED
    BY <2>3 DEF Due
<1>18. DueCalls'
  <2>1. ASSUME NEW t \in Threads, NEW a \in DOMAIN out[t]
        PROVE  /\ Pending(out[t][a].caller, out[t][a].id)' /\ Outcome(out[t][a])'
               /\ out[t][a].caller # c
               /\ \A j \in Index : slots[j].live => slots[j].caller # out[t][a].caller
    <3> DEFINE r == out[t][a]
    <3>1. /\ Pending(r.caller, r.id) /\ Outcome(r) /\ r.caller \in Callers
          /\ \A j \in Index : slots[j].live => slots[j].caller # r.caller
      BY <1>1, <1>17, <2>1 DEF DueCalls
    <3>2. Pending(r.caller, r.id)' /\ r.caller # c /\ call'[r.caller] = call[r.caller]
      <4>1. PICK x : x = r
        OBVIOUS
      <4>2. Pending(x.caller, x.id)' /\ x.caller # c /\ call'[x.caller] = call[x.caller]
        BY <1>14, <3>1, <4>1
      <4>3. r' = r
        BY <1>2
      <4>4. QED
        BY <4>1, <4>2, <4>3 DEF Pending
    <3>3. QED
      BY <1>2, <3>1, <3>2 DEF Outcome
  <2>2. ASSUME NEW j \in 1 .. Len(Room), slots'[j].live, NEW t \in Threads, NEW a \in DOMAIN out[t]
        PROVE  slots'[j].caller # out[t][a].caller
    <3>1. CASE j = i
      BY <1>6, <1>8, <2>1, <3>1
    <3>2. CASE j # i
      <4>1. slots'[j] = slots[j] /\ j \in Index /\ slots[j].live
        BY <1>15, <2>2, <3>2
      <4>2. QED
        BY <2>1, <4>1
    <3>3. QED
      BY <3>1, <3>2
  <2>3. \A t, u \in Threads : \A a \in DOMAIN out[t], b \in DOMAIN out[u] :
           out[t][a].caller = out[u][b].caller => t = u /\ a = b
    BY <1>1 DEF DueCalls
  <2>4. QED
    BY <1>2, <1>8, <2>1, <2>2, <2>3 DEF DueCalls, Index
<1>19. ASSUME NEW x, NEW kind, Sent(x, kind) PROVE Sent(x, kind)'
  <2>1. x \in Id /\ x.slot \in Index /\ x.slot \in 1 .. Len(Room) /\ Room[x.slot] = slots[x.slot]
        /\ slots[x.slot].version = slots'[x.slot].version
    <3>1. x \in Id /\ x.slot \in Index
      BY <1>19 DEF Sent
    <3>2. x.slot \in 1 .. Len(Room) /\ Room[x.slot] = slots[x.slot]
      <4>1. Len(slots) \in Nat
        BY <1>1 DEF SlotTypes
      <4>2. QED
        BY <1>4, <3>1, <4>1 DEF Index
    <3>3. QED
      BY <1>6, <1>8, <3>1, <3>2
  <2>2. CASE x.version < slots[x.slot].version
    BY <1>8, <2>1, <2>2 DEF Sent, Index
  <2>3. CASE /\ x.version = slots[x.slot].version /\ slots[x.slot].live
             /\ call[slots[x.slot].caller].kind = kind
    <3>1. x.slot # i
      BY <1>4, <2>1, <2>3
    <3>2. slots'[x.slot] = slots[x.slot]
      BY <1>8, <2>1, <3>1
    <3>3. call'[slots[x.slot].caller] = call[slots[x.slot].caller]
      BY <1>15, <2>1, <2>3, <3>1, <3>2
    <3>4. QED
      BY <1>8, <2>1, <2>3, <3>2, <3>3 DEF Sent, Index
  <2>4. QED
    BY <1>19, <2>2, <2>3 DEF Sent
<1>20. Messages'
  <2>1. Sent(call[c].id, call[c].kind)'
    BY <1>4, <1>5, <1>6, <1>7, <1>8, <1>12 DEF Sent, Index
  <2>2. \A d \in Callers : pc'[d] \in {"allocated", "suspended"} => Sent(call[d].id, call[d].kind)'
    <3>1. ASSUME NEW d \in Callers, d # c, pc'[d] \in {"allocated", "suspended"}
          PROVE  Sent(call[d].id, call[d].kind)'
      <4>1. Sent(call[d].id, call[d].kind) /\ call'[d] = call[d]
        BY <1>1, <1>12, <3>1 DEF Messages
      <4>2. QED
        BY <1>19, <4>1
    <3>2. QED
      BY <2>1, <3>1
  <2>3. QED
    BY <1>1, <1>2, <1>19, <2>2 DEF Messages, Answered
<1>21. NetTypes'
  BY <1>1, <1>2 DEF NetTypes
<1>22. QED
  BY <1>9, <1>10, <1>11, <1>13, <1>16, <1>18, <1>20, <1>21 DEF IInv, Types, Exact

\* What the next free slot of a slot becomes when a set of slots is given back.
Before(S, i) == IF {j \in S : j < i} = {} THEN free ELSE Max({j \in S : j < i})

\* A slot that the failing loop gives back is linked to the one given back before,
\* the first of them to the old head of the free list.
LEMMA BeforeType ==
  ASSUME SlotTypes, NEW S \in SUBSET Index, NEW i \in S
  PROVE  /\ Before(S, i) \in 0 .. Len(slots)
         /\ \/ Before(S, i) = free /\ \A j \in S : ~(j < i)
            \/ Before(S, i) \in S /\ Before(S, i) < i /\ \A j \in S : j < i => j <= Before(S, i)
<1>1. Len(slots) \in Nat /\ free \in 0 .. Len(slots)
  BY DEF SlotTypes
<1> DEFINE T == {j \in S : j < i}
<1>2. T \in SUBSET (1 .. Len(slots))
  BY DEF Index
<1>3. CASE T = {}
  BY <1>1, <1>3 DEF Before
<1>4. CASE T # {}
  <2>1. Max(T) \in T /\ \A k \in T : k <= Max(T)
    BY <1>1, <1>2, <1>4, MaxType
  <2>2. Before(S, i) = Max(T)
    BY <1>4 DEF Before
  <2>3. Max(T) \in S /\ Max(T) < i /\ Max(T) \in 1 .. Len(slots)
    BY <1>2, <2>1
  <2>4. Max(T) \in 0 .. Len(slots)
    BY <1>1, <2>3
  <2>5. QED
    BY <2>1, <2>2, <2>3, <2>4
<1>5. QED
  BY <1>3, <1>4

\* The slots of S are given back in index order.
Returned(S) ==
  /\ slots' \in Seq(Slot) /\ Len(slots') = Len(slots)
  /\ \A i \in Index \ S : slots'[i] = slots[i]
  /\ \A i \in S : /\ ~slots'[i].live /\ slots'[i].version = slots[i].version + 1
                  /\ slots'[i].next = Before(S, i)
                  /\ slots'[i].caller = slots[i].caller /\ slots'[i].conn = slots[i].conn
  /\ free' = IF S = {} THEN free ELSE Max(S)

\* findAndRemoveSlot, the loops of failPendingOnConnection and forceFailAllPending: the
\* free list after slots were put back at its head.
LEMMA ReleaseKeepsSlots ==
  ASSUME IInv, ~wild, NEW S \in SUBSET Index, Returned(S), UNCHANGED exhausted,
         closing => closing'
  PROVE  /\ SlotTypes' /\ Spare'
         /\ (\A i \in S : slots[i].live) => FreeSlots'
<1>1. SlotTypes /\ Spare /\ FreeSlots
  BY DEF IInv, Types, Exact
<1>2. /\ Len(slots) \in Nat /\ slots \in Seq(Slot) /\ free \in 0 .. Len(slots)
      /\ \A i \in Index : slots[i].next \in 0 .. Len(slots)
  BY <1>1 DEF SlotTypes
<1>3. ASSUME NEW i \in S
      PROVE  /\ i \in Index /\ slots'[i].next = Before(S, i)
             /\ Before(S, i) \in 0 .. Len(slots)
             /\ \/ Before(S, i) = free /\ \A j \in S : ~(j < i)
                \/ Before(S, i) \in S /\ Before(S, i) < i /\ \A j \in S : j < i => j <= Before(S, i)
  BY <1>1, <1>3, BeforeType DEF Returned
<1>4. /\ S = {} => free' = free
      /\ S # {} => free' \in S /\ \A k \in S : k <= free'
  BY <1>2, MaxType DEF Returned, Index
<1>5. /\ slots' \in Seq(Slot) /\ Len(slots') = Len(slots)
      /\ \A i \in Index \ S : slots'[i] = slots[i]
      /\ \A i \in S : ~slots'[i].live
  BY DEF Returned
<1>6. S \subseteq 1 .. Len(slots)
  BY DEF Index
<1>7. SlotTypes'
  <2>1. free' \in 0 .. Len(slots)
    <3>1. CASE S = {}
      BY <1>2, <1>4, <3>1
    <3>2. CASE S # {}
      <4>1. free' \in 1 .. Len(slots)
        BY <1>4, <1>6, <3>2
      <4>2. QED
        BY <1>2, <4>1
    <3>3. QED
      BY <3>1, <3>2
  <2>2. \A i \in Index : slots'[i].next \in 0 .. Len(slots)
    BY <1>2, <1>3, <1>5
  <2>3. \A i \in Index : slots'[i].caller = None => slots'[i].conn = None
    BY <1>1 DEF SlotTypes, Returned
  <2>4. QED
    BY <1>5, <2>1, <2>2, <2>3 DEF SlotTypes, Index
<1>8. Spare'
  <2>1. SUFFICES ASSUME ~exhausted
        PROVE  /\ slots' = <<>> \/ free' # 0
               /\ \A i \in Index : ~slots'[i].live /\ slots'[i].next = 0 => slots'[i].caller = None
    BY <1>5 DEF Spare, Index
  <2>2. slots = <<>> => S = {} /\ slots' = <<>>
    BY <1>2, <1>5, <1>6
  <2>3. slots' = <<>> \/ free' # 0
    BY <1>1, <1>4, <1>6, <2>1, <2>2 DEF Spare
  <2>4. ASSUME NEW i \in S PROVE slots'[i].next # 0
    <3>1. free # 0
      BY <1>1, <2>1, <2>2, <2>4 DEF Spare
    <3>2. QED
      BY <1>3, <1>6, <2>4, <3>1
  <2>5. \A i \in Index : ~slots'[i].live /\ slots'[i].next = 0 => slots'[i].caller = None
    BY <1>1, <1>5, <2>1, <2>4 DEF Spare
  <2>6. QED
    BY <2>3, <2>5
<1>9. ASSUME \A i \in S : slots[i].live PROVE FreeSlots'
  <2>1. SUFFICES ASSUME ~closing
        PROVE  /\ free' # 0 => ~slots'[free'].live
               /\ \A i \in Index : ~slots'[i].live /\ slots'[i].next # 0 =>
                     ~slots'[slots'[i].next].live /\ slots'[i].next # free'
               /\ \A i, j \in Index : ~slots'[i].live /\ ~slots'[j].live /\ slots'[i].next = slots'[j].next
                                      /\ slots'[i].next # 0 => i = j
    BY <1>5 DEF FreeSlots, Index
  <2>2. /\ free # 0 => ~slots[free].live
        /\ \A i \in Index : ~slots[i].live /\ slots[i].next # 0 =>
              ~slots[slots[i].next].live /\ slots[i].next # free
        /\ \A i, j \in Index : ~slots[i].live /\ ~slots[j].live /\ slots[i].next = slots[j].next
                               /\ slots[i].next # 0 => i = j
    BY <1>1, <2>1 DEF FreeSlots
  <2>3. free \notin S /\ 0 \notin S
    <3>1. 0 \notin 1 .. Len(slots)
      BY <1>2
    <3>2. 0 \notin S
      BY <1>6, <3>1
    <3>3. QED
      BY <1>9, <2>2, <3>2
  <2>4. free # 0 => free \in Index
    BY <1>2 DEF Index
  <2>5. free' # 0 => ~slots'[free'].live
    BY <1>4, <1>5, <2>2, <2>3, <2>4
  <2>6. ASSUME NEW i \in Index, i \notin S, ~slots'[i].live, slots'[i].next # 0
        PROVE  /\ slots'[i] = slots[i] /\ ~slots[i].live /\ slots[i].next \in Index
               /\ slots[i].next \notin S /\ slots[i].next # free /\ ~slots[slots[i].next].live
    <3>1. slots'[i] = slots[i]
      BY <1>5, <2>6
    <3>2. slots[i].next \in Index
      BY <1>2, <2>6, <3>1 DEF Index
    <3>3. QED
      BY <1>9, <2>2, <2>6, <3>1, <3>2
  <2>7. ASSUME NEW i \in Index, ~slots'[i].live, slots'[i].next # 0
        PROVE  ~slots'[slots'[i].next].live /\ slots'[i].next # free'
    <3>1. CASE i \notin S
      BY <1>4, <1>5, <2>6, <2>7, <3>1
    <3>2. CASE i \in S
      <4>1. CASE slots'[i].next = free
        BY <1>4, <1>5, <2>2, <2>3, <2>4, <2>7, <3>2, <4>1
      <4>2. CASE slots'[i].next \in S /\ slots'[i].next < i
        <5>1. i <= free' /\ free' \in 1 .. Len(slots) /\ i \in 1 .. Len(slots) /\ slots'[i].next \in 1 .. Len(slots)
          BY <1>4, <1>6, <3>2, <4>2
        <5>2. slots'[i].next # free'
          BY <1>2, <4>2, <5>1
        <5>3. QED
          BY <1>5, <4>2, <5>2
      <4>3. QED
        BY <1>3, <3>2, <4>1, <4>2
    <3>3. QED
      BY <3>1, <3>2
  <2>8. ASSUME NEW i \in S, NEW j \in S, i < j PROVE slots'[i].next # slots'[j].next
    <3>1. slots'[j].next \in S /\ i <= slots'[j].next
      BY <1>3, <2>8
    <3>2. slots'[i].next = free \/ slots'[i].next < i
      BY <1>3, <2>8
    <3>3. i \in Nat /\ j \in Nat /\ slots'[j].next \in Nat /\ slots'[i].next \in Nat
      BY <1>2, <1>3, <1>6, <2>8
    <3>4. QED
      BY <2>3, <3>1, <3>2, <3>3
  <2>9. ASSUME NEW i \in Index, NEW j \in Index, ~slots'[i].live, ~slots'[j].live,
               slots'[i].next = slots'[j].next, slots'[i].next # 0
        PROVE  i = j
    <3>1. CASE i \notin S /\ j \notin S
      BY <2>2, <2>6, <2>9, <3>1
    <3>2. CASE i \in S /\ j \in S
      <4>1. i \in Nat /\ j \in Nat
        BY <1>6, <3>2
      <4>2. QED
        BY <2>8, <2>9, <3>2, <4>1
    <3>3. ASSUME NEW k \in S, NEW m \in Index, m \notin S, ~slots'[m].live, slots'[m].next # 0
          PROVE  slots'[k].next # slots'[m].next
      BY <1>3, <2>6, <3>3
    <3>4. QED
      BY <2>9, <3>1, <3>2, <3>3
  <2>10. QED
    BY <2>5, <2>7, <2>9
<1>10. QED
  BY <1>7, <1>8, <1>9

\* A request id whose slot was given back names no pending call any more.
LEMMA ReleaseKeepsIds ==
  ASSUME SlotTypes, NEW S \in SUBSET Index, Returned(S), UNCHANGED call
  PROVE  \A id, kind : Sent(id, kind) => Sent(id, kind)'
<1> SUFFICES ASSUME NEW x, NEW kind, Sent(x, kind) PROVE Sent(x, kind)'
  OBVIOUS
<1>1. x \in Id /\ x.slot \in Index /\ x.version \in Nat /\ slots[x.slot].version \in Nat
  <2>1. x \in Id /\ x.slot \in Index
    BY DEF Sent
  <2>2. slots[x.slot] \in Slot
    BY <2>1 DEF SlotTypes, Index
  <2>3. QED
    BY <2>1, <2>2 DEF Id, Slot
<1>2. CASE x.slot \in S
  <2>1. slots'[x.slot].version = slots[x.slot].version + 1 /\ x.version <= slots[x.slot].version
    BY <1>1, <1>2 DEF Sent, Returned
  <2>2. x.version < slots'[x.slot].version
    BY <1>1, <2>1
  <2>3. QED
    BY <1>1, <2>2 DEF Sent, Index, Returned
<1>3. CASE x.slot \notin S
  <2>1. slots'[x.slot] = slots[x.slot]
    BY <1>1, <1>3 DEF Returned
  <2>2. QED
    BY <1>1, <2>1 DEF Sent, Index, Returned
<1>4. QED
  BY <1>2, <1>3

\* The calls of the slots given back are due on one thread; nobody else is resumed.
Collected(S, new) ==
  /\ \A a \in DOMAIN new : \E i \in S :
       /\ slots[i].live /\ new[a].caller = slots[i].caller
       /\ new[a].id = [slot |-> i, version |-> slots[i].version]
  /\ \A a, b \in DOMAIN new : a # b => new[a].id.slot # new[b].id.slot

\* Giving back the slots that were collected for resumption: the call of each is
\* due exactly once, the calls in other slots are untouched.
LEMMA ReleaseKeepsCalls ==
  ASSUME IInv, ~wild, NEW S \in SUBSET Index, Returned(S),
         NEW t \in Threads, NEW new \in Seq(Due), out' = [out EXCEPT ![t] = @ \o new],
         Collected(S, new), \A a \in DOMAIN new : Outcome(new[a])',
         UNCHANGED <<pc, call, got>>, closing => closing',
         \A k \in Conns : link[k] = "handled" => link'[k] = "handled"
  PROVE  LiveCalls' /\ DueCalls'
<1>1. SlotTypes /\ CallTypes /\ NetTypes /\ Calls /\ LiveCalls /\ DueCalls
  BY DEF IInv, Types, Exact
<1>2. /\ Len(slots') = Len(slots)
      /\ \A i \in Index \ S : slots'[i] = slots[i]
      /\ \A i \in S : ~slots'[i].live /\ slots'[i].version = slots[i].version + 1
  BY DEF Returned
<1>3. ASSUME NEW i \in Index, slots'[i].live PROVE i \notin S /\ slots'[i] = slots[i]
  BY <1>2, <1>3
<1>4. \A d \in Callers : \A id : Pending(d, id) <=> Pending(d, id)'
  BY DEF Pending, Resumed
<1>5. LiveCalls'
  <2>1. ASSUME NEW i \in Index, slots'[i].live
        PROVE  /\ slots'[i].caller \in Callers
               /\ Pending(slots[i].caller, [slot |-> i, version |-> slots[i].version])
               /\ slots'[i] = slots[i]
               /\ slots'[i].conn = call[slots'[i].caller].conn
    <3>1. slots'[i] = slots[i]
      BY <1>3, <2>1
    <3>2. QED
      BY <1>1, <2>1, <3>1 DEF LiveCalls
  <2>2. QED
    BY <1>2, <2>1 DEF LiveCalls, Index, Pending, Resumed
<1>6. ASSUME NEW u \in Threads, NEW a \in DOMAIN out'[u]
      PROVE  /\ \/ a \in DOMAIN out[u] /\ out'[u][a] = out[u][a]
                \/ u = t /\ a > Len(out[t]) /\ a - Len(out[t]) \in DOMAIN new /\ out'[u][a] = new[a - Len(out[t])]
             /\ a \in Nat /\ Len(out[t]) \in Nat
  <2>1. out[u] \in Seq(Due) /\ out[t] \in Seq(Due) /\ u \in DOMAIN out
    BY <1>1 DEF NetTypes
  <2>2. CASE u # t
    <3>1. out'[u] = out[u]
      BY <2>1, <2>2
    <3>2. QED
      BY <1>6, <2>1, <3>1
  <2>3. CASE u = t
    <3>1. out'[u] = out[t] \o new
      BY <2>1, <2>3
    <3>2. QED
      BY <1>6, <2>1, <2>3, <3>1, SeqJoined, SeqMembers
  <2>4. QED
    BY <2>2, <2>3
\* An entry that was there already, and one of those collected.
<1> DEFINE Old(u, a) == a \in DOMAIN out[u] /\ out'[u][a] = out[u][a]
           New(u, a, i) == /\ slots[i].live /\ out'[u][a].caller = slots[i].caller
                           /\ out'[u][a].id = [slot |-> i, version |-> slots[i].version]
                           /\ slots[i].caller \in Callers
                           /\ Pending(slots[i].caller, [slot |-> i, version |-> slots[i].version])
<1>7. ASSUME NEW u \in Threads, NEW a \in DOMAIN out'[u]
      PROVE  Old(u, a) \/ (u = t /\ \E i \in S : New(u, a, i))
  <2>1. CASE Old(u, a)
    BY <2>1
  <2>2. CASE ~Old(u, a)
    <3>1. u = t /\ a - Len(out[t]) \in DOMAIN new /\ out'[u][a] = new[a - Len(out[t])]
      BY <1>6, <1>7, <2>2
    <3>2. PICK i \in S : /\ slots[i].live /\ out'[u][a].caller = slots[i].caller
                         /\ out'[u][a].id = [slot |-> i, version |-> slots[i].version]
      BY <3>1 DEF Collected
    <3>3. QED
      BY <1>1, <3>1, <3>2 DEF LiveCalls
  <2>3. QED
    BY <2>1, <2>2
<1>8. \A u \in Threads : \A a \in DOMAIN out[u] : out[u][a].caller \in Callers
  <2>1. TAKE u \in Threads
  <2>2. out[u] \in Seq(Due)
    BY <1>1 DEF NetTypes
  <2>3. \A a \in DOMAIN out[u] : out[u][a] \in Due
    BY <2>2, SeqMembers
  <2>4. QED
    BY <2>3 DEF Due
<1>9. \A d \in Callers : pc[d] # "idle" => call[d].conn \in Conns
  BY <1>1 DEF Calls
<1>10. ASSUME NEW u \in Threads, NEW a \in DOMAIN out'[u]
       PROVE  /\ Pending(out[u][a].caller, out[u][a].id)' /\ Outcome(out[u][a])'
              /\ \A j \in Index \ S : slots[j].live => slots[j].caller # out'[u][a].caller
  <2>1. PICK x : x = out'[u][a]
    OBVIOUS
  <2>2. CASE Old(u, a)
    <3>1. x = out[u][a] /\ x.caller \in Callers
      BY <1>8, <2>1, <2>2
    <3>2. Pending(x.caller, x.id) /\ Outcome(x) /\ \A j \in Index : slots[j].live => slots[j].caller # x.caller
      BY <1>1, <2>2, <3>1 DEF DueCalls
    <3>3. Pending(x.caller, x.id)'
      BY <1>4, <3>1, <3>2
    <3>4. call[x.caller].conn \in Conns
      BY <1>9, <3>1, <3>2 DEF Pending
    <3>5. Outcome(x)'
      BY <3>2, <3>4 DEF Outcome
    <3>6. QED
      BY <2>1, <3>2, <3>3, <3>5
  <2>3. CASE ~Old(u, a)
    <3>1. PICK i \in S : New(u, a, i)
      BY <1>7, <2>3
    <3>2. x.caller \in Callers /\ Pending(x.caller, x.id) /\ x.id.slot = i
      BY <2>1, <3>1
    <3>3. Pending(x.caller, x.id)'
      BY <1>4, <3>2
    <3>4. \A j \in Index \ S : slots[j].live => slots[j].caller # x.caller
      <4>1. ASSUME NEW j \in Index \ S, slots[j].live, slots[j].caller = x.caller PROVE FALSE
        <5>1. call[x.caller].id = [slot |-> j, version |-> slots[j].version]
          BY <1>1, <4>1 DEF LiveCalls, Pending
        <5>2. call[x.caller].id.slot = i
          BY <3>2 DEF Pending
        <5>3. i = j
          BY <5>1, <5>2
        <5>4. QED
          BY <4>1, <5>3
      <4>2. QED
        BY <4>1
    <3>5. Outcome(x)'
      <4>1. a - Len(out[t]) \in DOMAIN new /\ x = new[a - Len(out[t])]
        BY <1>6, <2>1, <2>3
      <4>2. QED
        BY <4>1
    <3>6. QED
      BY <2>1, <3>3, <3>4, <3>5
  <2>4. QED
    BY <2>2, <2>3
<1>11. \A u, v \in Threads : \A a \in DOMAIN out'[u], b \in DOMAIN out'[v] :
         out'[u][a].caller = out'[v][b].caller => u = v /\ a = b
  <2>1. ASSUME NEW u \in Threads, NEW v \in Threads, NEW a \in DOMAIN out'[u], NEW b \in DOMAIN out'[v],
               out'[u][a].caller = out'[v][b].caller, Old(u, a), ~Old(v, b)
        PROVE  FALSE
    <3>1. PICK i \in S : New(v, b, i)
      BY <1>7, <2>1
    <3>2. \A j \in Index : slots[j].live => slots[j].caller # out[u][a].caller
      BY <1>1, <2>1 DEF DueCalls
    <3>3. QED
      BY <2>1, <3>1, <3>2
  <2>2. ASSUME NEW u \in Threads, NEW v \in Threads, NEW a \in DOMAIN out'[u], NEW b \in DOMAIN out'[v],
               out'[u][a].caller = out'[v][b].caller, Old(u, a), Old(v, b)
        PROVE  u = v /\ a = b
    BY <1>1, <2>2 DEF DueCalls
  <2>3. ASSUME NEW u \in Threads, NEW v \in Threads, NEW a \in DOMAIN out'[u], NEW b \in DOMAIN out'[v],
               out'[u][a].caller = out'[v][b].caller, ~Old(u, a), ~Old(v, b)
        PROVE  u = v /\ a = b
    <3>1. PICK i \in S : New(u, a, i)
      BY <1>7, <2>3
    <3>2. PICK j \in S : New(v, b, j)
      BY <1>7, <2>3
    <3>3. i = j
      <4>1. call[slots[i].caller].id.slot = i
        BY <3>1 DEF Pending
      <4>2. call[slots[j].caller].id.slot = j
        BY <3>2 DEF Pending
      <4>3. QED
        BY <2>3, <3>1, <3>2, <4>1, <4>2
    <3> DEFINE x == a - Len(out[t])
               y == b - Len(out[t])
    <3>4. /\ u = t /\ v = t /\ x \in DOMAIN new /\ y \in DOMAIN new
          /\ out'[u][a] = new[x] /\ out'[v][b] = new[y]
          /\ a \in Nat /\ b \in Nat /\ Len(out[t]) \in Nat
      BY <1>6, <2>3
    <3>5. new[x].id.slot = new[y].id.slot
      BY <3>1, <3>2, <3>3, <3>4
    <3>6. x = y
      BY <3>4, <3>5 DEF Collected
    <3>7. QED
      BY <3>4, <3>6
  <2>4. QED
    BY <2>1, <2>2, <2>3
<1> HIDE DEF Old, New
<1>12. DueCalls'
  <2>1. \A i \in Index : slots'[i].live => i \in Index \ S /\ slots'[i] = slots[i]
    BY <1>3
  <2>2. QED
    BY <1>2, <1>10, <1>11, <2>1 DEF DueCalls, Index
<1>13. QED
  BY <1>5, <1>12

\* A slot that was given back.
LEMMA GivenBackType ==
  ASSUME NEW s \in Slot, NEW next \in Nat
  PROVE  /\ GivenBack(s, next) \in Slot
         /\ GivenBack(s, next).version = s.version + 1
         /\ ~GivenBack(s, next).live /\ GivenBack(s, next).next = next
         /\ GivenBack(s, next).caller = s.caller /\ GivenBack(s, next).conn = s.conn
<1>1. s.version \in Nat /\ s.caller \in Callers \cup {None} /\ s.conn \in Conns \cup {None}
  BY DEF Slot
<1>2. s.version + 1 \in Nat /\ FALSE \in BOOLEAN
  BY <1>1
<1>3. QED
  BY <1>1, <1>2 DEF GivenBack, Slot

\* The slots taken from a lost connection or by the destructor, and the one of an answer.
LEMMA AllReleasedReturned ==
  ASSUME SlotTypes, NEW S \in SUBSET Index, slots' = AllReleased(S),
         free' = IF S = {} THEN free ELSE Max(S)
  PROVE  Returned(S)
<1>1. slots \in Seq(Slot) /\ Len(slots) \in Nat /\ \A i \in Index : slots[i] \in Slot
  BY DEF SlotTypes, Index
<1>2. ASSUME NEW i \in S PROVE slots'[i] = GivenBack(slots[i], Before(S, i)) /\ Before(S, i) \in Nat
  <2>1. slots'[i] = GivenBack(slots[i], Before(S, i))
    BY DEF AllReleased, Before, Index
  <2>2. Before(S, i) \in 0 .. Len(slots)
    BY BeforeType
  <2>3. QED
    BY <1>1, <2>1, <2>2
<1>3. \A i \in Index \ S : slots'[i] = slots[i]
  BY DEF AllReleased, Index
<1>4. \A i \in Index : slots'[i] \in Slot
  BY <1>1, <1>2, <1>3, GivenBackType
<1>5. DOMAIN slots' = 1 .. Len(slots) /\ slots' = [i \in 1 .. Len(slots) |-> slots'[i]]
  BY DEF AllReleased
<1>6. slots' \in Seq(Slot) /\ Len(slots') = Len(slots)
  BY <1>1, <1>4, <1>5 DEF Index
<1>7. \A i \in S : /\ ~slots'[i].live /\ slots'[i].version = slots[i].version + 1
                   /\ slots'[i].next = Before(S, i)
                   /\ slots'[i].caller = slots[i].caller /\ slots'[i].conn = slots[i].conn
  <2>1. TAKE i \in S
  <2>2. slots[i] \in Slot /\ Before(S, i) \in Nat /\ slots'[i] = GivenBack(slots[i], Before(S, i))
    BY <1>1, <1>2
  <2>3. QED
    BY <2>2, GivenBackType
<1>8. QED
  BY <1>3, <1>6, <1>7 DEF Returned

\* findAndRemoveSlot gives one slot back: its version rises and it becomes the
\* head of the free list.
LEMMA OneReturned ==
  ASSUME SlotTypes, NEW i \in Index, slots' = Released(i), free' = i
  PROVE  Returned({i})
<1>1. slots \in Seq(Slot) /\ Len(slots) \in Nat /\ slots[i] \in Slot /\ free \in Nat /\ i \in 1 .. Len(slots)
  BY DEF SlotTypes, Index
<1> DEFINE new == GivenBack(slots[i], free)
<1>2. /\ new \in Slot /\ new.version = slots[i].version + 1 /\ ~new.live /\ new.next = free
      /\ new.caller = slots[i].caller /\ new.conn = slots[i].conn
  BY <1>1, GivenBackType
<1>3. slots' = [slots EXCEPT ![i] = new]
  BY DEF Released
<1> HIDE DEF new
<1>4. /\ slots' \in Seq(Slot) /\ Len(slots') = Len(slots) /\ slots'[i] = new
      /\ \A j \in 1 .. Len(slots) : j # i => slots'[j] = slots[j]
  <2>1. \A S : \A q \in Seq(S), x \in S : \A a \in 1 .. Len(q) :
          /\ [q EXCEPT ![a] = x] \in Seq(S) /\ Len([q EXCEPT ![a] = x]) = Len(q)
          /\ [q EXCEPT ![a] = x][a] = x
          /\ \A b \in 1 .. Len(q) : b # a => [q EXCEPT ![a] = x][b] = q[b]
    OBVIOUS
  <2>2. QED
    BY <1>1, <1>2, <1>3, <2>1
<1>5. Before({i}, i) = free
  <2>1. {j \in {i} : j < i} = {}
    BY <1>1
  <2>2. QED
    BY <2>1 DEF Before
<1>6. Max({i}) = i
  <2>1. {i} \in SUBSET (1 .. Len(slots)) /\ {i} # {}
    BY <1>1
  <2>2. Max({i}) \in {i}
    BY <1>1, <2>1, MaxType
  <2>3. QED
    BY <2>2
<1>7. QED
  BY <1>2, <1>4, <1>5, <1>6 DEF Returned, Index

\* onMessage: an answer resumes the call whose request it answers, or nobody.
LEMMA ClientMessageKeeps ==
  ASSUME NEW k \in Conns, IInv, ~wild, ClientMessage(k)
  PROVE  IInv'
<1> DEFINE m == Head(s2c[k])
           i == m.id.slot
           r == [caller |-> slots[i].caller, id |-> m.id, status |-> m.status]
<1>1. /\ SlotTypes /\ CallTypes /\ NetTypes /\ Calls /\ Spare /\ StaleOnlyAfterExhaustion
      /\ FreeSlots /\ LiveCalls /\ DueCalls /\ Messages
  BY DEF IInv, Types, Exact
<1>2. /\ UNCHANGED <<link, pc, call, c2s, jobs, closing, got, exhausted, wild>>
      /\ s2c[k] # <<>> /\ out[k] = <<>> /\ s2c' = [s2c EXCEPT ![k] = Tail(@)]
      /\ IF Finds(m.id) THEN /\ out' = [out EXCEPT ![k] = <<r>>]
                             /\ slots' = Released(i) /\ free' = i
         ELSE UNCHANGED <<out, slots, free>>
  BY DEF ClientMessage, hist
<1>3. /\ m \in Response /\ Answered(m) /\ Tail(s2c[k]) \in Seq(Response)
      /\ \A a \in DOMAIN Tail(s2c[k]) : a + 1 \in DOMAIN s2c[k] /\ Tail(s2c[k])[a] = s2c[k][a + 1]
  <2>1. s2c[k] \in Seq(Response)
    BY <1>1 DEF NetTypes
  <2>2. 1 \in DOMAIN s2c[k] /\ m = s2c[k][1] /\ m \in Response
    BY <1>2, <2>1, SeqFirst
  <2>3. QED
    BY <1>1, <1>2, <2>1, <2>2, SeqFirst DEF Messages
<1>4. /\ s2c' \in [Conns -> Seq(Response)]
      /\ \A k2 \in Conns : \A a \in DOMAIN s2c'[k2] : \E b \in DOMAIN s2c[k2] : s2c'[k2][a] = s2c[k2][b]
  <2>1. s2c \in [Conns -> Seq(Response)]
    BY <1>1 DEF NetTypes
  <2>2. s2c'[k] = Tail(s2c[k]) /\ \A k2 \in Conns : k2 # k => s2c'[k2] = s2c[k2]
    BY <1>2, <2>1
  <2>3. s2c' \in [Conns -> Seq(Response)]
    BY <1>2, <1>3, <2>1
  <2>4. QED
    BY <1>3, <2>2, <2>3
<1>5. CallTypes' /\ Calls' /\ StaleOnlyAfterExhaustion'
  BY <1>1, <1>2 DEF CallTypes, Calls, Resumed, StaleOnlyAfterExhaustion
<1>6. /\ SlotTypes' /\ Spare' /\ FreeSlots' /\ LiveCalls' /\ DueCalls'
      /\ \A id, kind : Sent(id, kind) => Sent(id, kind)'
      /\ out' \in [Threads -> Seq(Due)]
  <2>1. CASE ~Finds(m.id)
    <3>1. UNCHANGED <<out, slots, free>>
      BY <1>2, <2>1
    <3>2. SlotTypes' /\ Spare' /\ FreeSlots'
      BY <1>2, <3>1, SlotsKept
    <3>3. LiveCalls' /\ DueCalls' /\ \A id, kind : Sent(id, kind) => Sent(id, kind)'
      BY <1>1, <1>2, <3>1, CallersKept
    <3>4. QED
      BY <1>1, <3>1, <3>2, <3>3 DEF NetTypes
  <2>2. CASE Finds(m.id)
    <3>1. PICK kind \in AnyKind : Sent(m.id, kind) /\ m.status = Status[kind]
      BY <1>3 DEF Answered
    <3>2. /\ i \in Index /\ m.id = [slot |-> i, version |-> slots[i].version]
          /\ slots[i].version \in Nat /\ m.id.version = slots[i].version
      <4>1. i \in Index /\ m.id \in Id /\ slots[i].version = m.id.version
        BY <2>2, <3>1 DEF Finds, Sent, Index
      <4>2. slots[i] \in Slot
        BY <1>1, <4>1 DEF SlotTypes, Index
      <4>3. QED
        BY <4>1, <4>2 DEF Id, Slot
    <3>3. slots[i].live /\ call[slots[i].caller].kind = kind
      BY SMTT(30), <3>1, <3>2 DEF Sent
    <3>4. slots[i].caller \in Callers
      BY <1>1, <3>2, <3>3 DEF LiveCalls
    <3>5. m.id \in Id /\ m.status \in AnyStatus
      BY <1>3 DEF Response
    <3>20. r \in Due /\ r.caller = slots[i].caller /\ r.id = m.id /\ r.status = m.status
      BY <3>4, <3>5 DEF Due
    <3>6. PICK e \in Due : e = r /\ e.caller = slots[i].caller /\ e.id = m.id /\ e.status = m.status
      BY <3>20
    <3> HIDE DEF r
    <3>7. /\ <<e>> \in Seq(Due) /\ DOMAIN <<e>> = {1} /\ <<e>>[1] = e /\ <<>> \o <<e>> = <<e>>
      BY <3>6
    <3>8. out' = [out EXCEPT ![k] = @ \o <<e>>]
      BY <1>2, <2>2, <3>6, <3>7
    <3> DEFINE new == <<e>>
               S == {i}
    <3>9. Collected(S, new)
      <4>1. \A a \in DOMAIN new : a = 1 /\ new[a] = e
        BY <3>7
      <4> HIDE DEF new
      <4>2. QED
        BY <3>2, <3>3, <3>6, <4>1 DEF Collected
    <3>10. \A a \in DOMAIN new : Outcome(new[a])'
      <4>1. \A a \in DOMAIN new : new[a] = e
        BY <3>7
      <4>2. e.status = Status[call'[e.caller].kind]
        BY <1>2, <3>1, <3>3, <3>6
      <4>3. Outcome(e)'
        BY <4>2 DEF Outcome
      <4>4. QED
        BY <4>1, <4>3
    <3>11. S \in SUBSET Index /\ Returned(S)
      BY <1>1, <1>2, <2>2, <3>2, OneReturned
    <3>12. k \in Threads /\ new \in Seq(Due)
      BY <3>7 DEF Threads
    <3>13. \A j \in S : slots[j].live
      BY <3>3
    <3>14. out' \in [Threads -> Seq(Due)]
      <4>1. out' = [out EXCEPT ![k] = <<e>>]
        BY <1>2, <2>2, <3>6
      <4>2. QED
        BY <1>1, <3>7, <3>12, <4>1 DEF NetTypes
    <3> HIDE DEF S, new, i, m
    <3>15. SlotTypes' /\ Spare' /\ FreeSlots'
      BY <1>2, <3>11, <3>13, ReleaseKeepsSlots
    <3>16. LiveCalls' /\ DueCalls' /\ \A id, knd : Sent(id, knd) => Sent(id, knd)'
      BY <1>1, <1>2, <3>8, <3>9, <3>10, <3>11, <3>12, ReleaseKeepsCalls, ReleaseKeepsIds DEF new
    <3>17. QED
      BY <3>14, <3>15, <3>16
  <2>3. QED
    BY <2>1, <2>2
<1>7. NetTypes'
  BY <1>1, <1>2, <1>4, <1>6 DEF NetTypes
<1>8. Messages'
  <2>1. ASSUME NEW k2 \in Conns, NEW a \in DOMAIN s2c'[k2] PROVE Answered(s2c[k2][a])'
    <3>1. Answered(s2c'[k2][a])
      BY <1>1, <1>4 DEF Messages
    <3>2. QED
      BY <1>6, <3>1 DEF Answered
  <2>2. QED
    BY <1>1, <1>2, <1>6, <2>1 DEF Messages
<1>9. QED
  BY <1>5, <1>6, <1>7, <1>8 DEF IInv, Types, Exact

\* failPendingOnConnection, forceFailAllPending: as long as no stale call is taken, the
\* calls of the slots taken are due, with the error of their lost connection.
LEMMA FailKeeps ==
  ASSUME IInv, ~wild, NEW t \in Threads, Fail(t, Taken(t)), UNCHANGED <<pc, call, got>>,
         closing => closing', t = Main => closing',
         \A k \in Conns : link[k] = "handled" => link'[k] = "handled",
         t \in Conns => link'[t] = "handled"
  PROVE  /\ SlotTypes' /\ Spare' /\ StaleOnlyAfterExhaustion'
         /\ out' \in [Threads -> Seq(Due)] /\ wild' \in BOOLEAN /\ exhausted' = exhausted
         /\ \A id, kind : Sent(id, kind) => Sent(id, kind)'
         /\ ~wild' => FreeSlots' /\ LiveCalls' /\ DueCalls'
<1> DEFINE S == Taken(t)
           C == {i \in S : slots[i].caller # None}
           calls == Ascending(C)
           New == [j \in DOMAIN calls |->
                     [caller |-> slots[calls[j]].caller, status |-> Closed,
                      id |-> [slot |-> calls[j], version |-> slots[calls[j]].version]]]
<1>1. /\ SlotTypes /\ CallTypes /\ NetTypes /\ Calls /\ Spare /\ LiveCalls
  BY DEF IInv, Types, Exact
<1>2. /\ slots' = AllReleased(S) /\ free' = (IF S = {} THEN free ELSE Max(S))
      /\ out' = [out EXCEPT ![t] = @ \o New]
      /\ wild' = (\E i \in S : slots[i].caller # None /\ ~slots[i].live)
      /\ exhausted' = exhausted
  BY DEF Fail
<1>3. /\ S \in SUBSET Index /\ C \in SUBSET (1 .. Len(slots)) /\ Len(slots) \in Nat
      /\ \A i \in S : /\ slots[i].next = 0 /\ slots[i] \in Slot /\ i \in Nat
                      /\ t \in {Main, slots[i].conn}
  BY <1>1 DEF Taken, Occupied, SlotTypes, Index
<1> HIDE DEF S
<1>4. Returned(S)
  BY <1>1, <1>2, <1>3, AllReleasedReturned
<1>5. /\ DOMAIN calls = 1 .. Cardinality(C) /\ Cardinality(C) \in Nat
      /\ \A a \in DOMAIN calls : calls[a] \in C
      /\ \A a, b \in DOMAIN calls : a # b => calls[a] # calls[b]
  <2>1. Cardinality(C) \in Nat /\ Enumerates(calls, C)
    BY <1>3, AscendingType
  <2>2. DOMAIN calls = 1 .. Cardinality(C) /\ \A a \in DOMAIN calls : calls[a] \in C /\ calls[a] \in Nat
    BY <1>3, <2>1 DEF Enumerates
  <2>3. \A a, b \in DOMAIN calls : a # b => a < b \/ b < a
    BY <2>1, <2>2
  <2>4. \A a, b \in DOMAIN calls : a < b => calls[a] < calls[b]
    BY <2>1, <2>2 DEF Enumerates
  <2>5. ASSUME NEW a \in DOMAIN calls, NEW b \in DOMAIN calls, a # b PROVE calls[a] # calls[b]
    <3>1. calls[a] < calls[b] \/ calls[b] < calls[a]
      BY <2>3, <2>4, <2>5
    <3>2. calls[a] \in Nat /\ calls[b] \in Nat
      BY <2>2
    <3>3. QED
      BY <3>1, <3>2
  <2>6. QED
    BY <2>1, <2>2, <2>5
<1> HIDE DEF calls
<1>6. PICK new : new = New
  OBVIOUS
<1>7. \A a \in DOMAIN calls : \E i \in C : /\ i = calls[a] /\ new[a].caller = slots[i].caller /\ new[a].status = Closed
                                           /\ new[a].id = [slot |-> i, version |-> slots[i].version]
                                           /\ new[a] = [caller |-> slots[i].caller, status |-> Closed,
                                                        id |-> [slot |-> i, version |-> slots[i].version]]
  BY <1>5, <1>6
<1>8. DOMAIN new = DOMAIN calls /\ new = [a \in 1 .. Cardinality(C) |-> new[a]]
  BY <1>5, <1>6
<1>9. out' = [out EXCEPT ![t] = @ \o new]
  BY <1>2, <1>6
<1> HIDE DEF New
<1>10. new \in Seq(Due)
  <2>1. ASSUME NEW a \in DOMAIN calls PROVE new[a] \in Due
    <3>1. PICK i \in C : new[a] = [caller |-> slots[i].caller, status |-> Closed,
                                   id |-> [slot |-> i, version |-> slots[i].version]]
      BY <1>7
    <3>2. slots[i].caller \in Callers /\ slots[i].version \in Nat /\ i \in Nat
      BY <1>3 DEF Slot
    <3>3. Closed \in AnyStatus
      BY DEF AnyStatus
    <3>4. QED
      BY <3>1, <3>2, <3>3 DEF Due, Id
  <2>2. \A a \in 1 .. Cardinality(C) : new[a] \in Due
    BY <1>5, <2>1
  <2>3. new \in [1 .. Cardinality(C) -> Due]
    BY <1>8, <2>2
  <2>4. \A n \in Nat : \A A : \A f \in [1 .. n -> A] : f \in Seq(A)
    OBVIOUS
  <2>5. QED
    BY <1>5, <2>3, <2>4
<1>11. out' \in [Threads -> Seq(Due)]
  <2>1. out \in [Threads -> Seq(Due)]
    BY <1>1 DEF NetTypes
  <2>2. out[t] \o new \in Seq(Due)
    BY <1>10, <2>1, SeqJoined
  <2>3. QED
    BY <1>9, <2>1, <2>2
<1>12. SlotTypes' /\ Spare' /\ ((\A i \in S : slots[i].live) => FreeSlots')
  BY <1>2, <1>3, <1>4, ReleaseKeepsSlots
<1>13. StaleOnlyAfterExhaustion' /\ wild' \in BOOLEAN
  <2>1. wild' => exhausted
    BY <1>1, <1>2, <1>3 DEF Spare
  <2>2. wild' \in BOOLEAN
    BY <1>2
  <2>3. QED
    BY <1>2, <2>1, <2>2 DEF StaleOnlyAfterExhaustion
<1>14. ASSUME ~wild' PROVE FreeSlots'
  <2>1. CASE t = Main
    BY <2>1 DEF FreeSlots
  <2>2. CASE t # Main
    <3>1. ASSUME NEW i \in S PROVE slots[i].live
      <4>1. slots[i].conn = t /\ t # None
        BY <1>3, <2>2, RpcAssumption DEF Threads
      <4>2. slots[i].caller # None
        BY <1>1, <1>3, <4>1 DEF SlotTypes
      <4>3. QED
        BY <1>2, <1>14, <4>2
    <3>2. QED
      BY <1>12, <3>1
  <2>3. QED
    BY <2>1, <2>2
<1>15. ASSUME ~wild' PROVE LiveCalls' /\ DueCalls'
  <2>1. \A i \in C : slots[i].live
    BY <1>2, <1>15
  <2>2. Collected(S, new)
    <3>1. ASSUME NEW a \in DOMAIN new
          PROVE  \E i \in S : /\ slots[i].live /\ new[a].caller = slots[i].caller
                              /\ new[a].id = [slot |-> i, version |-> slots[i].version]
      BY <1>7, <1>8, <2>1
    <3>2. ASSUME NEW a \in DOMAIN new PROVE new[a].id.slot = calls[a]
      <4>1. PICK i \in C : i = calls[a] /\ new[a].id = [slot |-> i, version |-> slots[i].version]
        BY <1>7, <1>8
      <4>2. QED
        BY <4>1
    <3>3. QED
      BY <1>5, <1>8, <3>1, <3>2 DEF Collected
  <2>3. ASSUME NEW a \in DOMAIN new PROVE Outcome(new[a])'
    <3>1. PICK i \in C : new[a].caller = slots[i].caller /\ new[a].status = Closed
      BY <1>7, <1>8
    <3>2. slots[i].conn = call[slots[i].caller].conn
      BY <1>1, <1>3, <2>1 DEF LiveCalls
    <3>3. closing' \/ link'[slots[i].conn] = "handled"
      BY <1>3 DEF Threads
    <3>4. QED
      BY <3>1, <3>2, <3>3 DEF Outcome
  <2>4. QED
    BY <1>3, <1>4, <1>9, <1>10, <2>2, <2>3, ReleaseKeepsCalls
<1>16. \A id, kind : Sent(id, kind) => Sent(id, kind)'
  BY <1>1, <1>3, <1>4, ReleaseKeepsIds
<1>17. QED
  BY <1>2, <1>11, <1>12, <1>13, <1>14, <1>15, <1>16

\* handleClose, ~RpcChannel: the connection is given up, or the channel.
LEMMA EndKeeps ==
  ASSUME IInv, ~wild, (\E k \in Conns : ConnectionDown(k)) \/ Destroy
  PROVE  IInv'
<1>1. /\ CallTypes /\ NetTypes /\ Calls /\ Messages
  BY DEF IInv, Types, Exact
<1>2. /\ UNCHANGED <<pc, call, c2s, jobs, got>>
      /\ \A k2 \in Conns : link[k2] = "handled" => link'[k2] = "handled"
      /\ link' \in [Conns -> {"connecting", "up", "broken", "handled"}]
      /\ (closing => closing') /\ closing' \in BOOLEAN
      /\ \A k2 \in Conns : s2c'[k2] = s2c[k2] \/ s2c'[k2] = <<>>
      /\ s2c' \in [Conns -> Seq(Response)]
      /\ closing' => \A c \in Callers : pc[c] \in {"idle", "suspended"}
  <2>1. CASE Destroy
    BY <1>1, <2>1 DEF Destroy, net, NetTypes
  <2>2. ASSUME NEW k \in Conns, ConnectionDown(k)
        PROVE  /\ UNCHANGED <<pc, call, c2s, jobs, got, closing>>
               /\ link' = [link EXCEPT ![k] = "handled"] /\ s2c' = [s2c EXCEPT ![k] = <<>>]
    BY <2>2 DEF ConnectionDown
  <2>3. ASSUME NEW k \in Conns, link' = [link EXCEPT ![k] = "handled"], s2c' = [s2c EXCEPT ![k] = <<>>]
        PROVE  /\ \A k2 \in Conns : link[k2] = "handled" => link'[k2] = "handled"
               /\ link' \in [Conns -> {"connecting", "up", "broken", "handled"}]
               /\ \A k2 \in Conns : s2c'[k2] = s2c[k2] \/ s2c'[k2] = <<>>
               /\ s2c' \in [Conns -> Seq(Response)]
    BY <1>1, <2>3 DEF NetTypes
  <2>4. closing \in BOOLEAN /\ (closing => \A c \in Callers : pc[c] \in {"idle", "suspended"})
    BY <1>1 DEF NetTypes, Calls
  <2>5. QED
    BY <2>1, <2>2, <2>3, <2>4
<1>3. PICK t \in Threads : /\ Fail(t, Taken(t)) /\ (t = Main => closing')
                           /\ t \in Conns => link'[t] = "handled"
  <2>1. CASE Destroy
    BY <2>1, RpcAssumption DEF Destroy, Threads
  <2>2. ASSUME NEW k \in Conns, ConnectionDown(k)
        PROVE  Fail(k, Taken(k)) /\ link'[k] = "handled" /\ k # Main
    BY <1>1, <2>2, RpcAssumption DEF ConnectionDown, NetTypes
  <2>3. QED
    BY <2>1, <2>2 DEF Threads
<1>4. /\ SlotTypes' /\ Spare' /\ StaleOnlyAfterExhaustion'
      /\ out' \in [Threads -> Seq(Due)] /\ wild' \in BOOLEAN /\ exhausted' = exhausted
      /\ \A id, kind : Sent(id, kind) => Sent(id, kind)'
      /\ ~wild' => FreeSlots' /\ LiveCalls' /\ DueCalls'
  BY <1>2, <1>3, FailKeeps
<1>5. CallTypes' /\ Calls'
  BY <1>1, <1>2 DEF CallTypes, Calls, Resumed
<1>6. NetTypes'
  <2>1. exhausted' \in BOOLEAN /\ wild' \in BOOLEAN /\ closing' \in BOOLEAN
    BY <1>1, <1>2, <1>4, Zenon DEF NetTypes
  <2>2. c2s' \in [Conns -> Seq(Request)] /\ jobs' \subseteq [conn : Conns, req : Request]
    BY <1>1, <1>2 DEF NetTypes
  <2>3. QED
    BY <1>2, <1>4, <2>1, <2>2, Zenon DEF NetTypes
<1>7. Messages'
  <2>1. ASSUME NEW k2 \in Conns, NEW a \in DOMAIN s2c'[k2] PROVE Answered(s2c[k2][a])'
    <3>1. s2c'[k2] = s2c[k2]
      BY <1>2, <2>1
    <3>2. Answered(s2c'[k2][a])
      BY <1>1, <2>1, <3>1 DEF Messages
    <3>3. QED
      BY <1>4, <3>2 DEF Answered
  <2>2. QED
    BY <1>1, <1>2, <1>4, <2>1 DEF Messages
<1>8. QED
  BY <1>4, <1>5, <1>6, <1>7 DEF IInv, Types, Exact
-----------------------------------------------------------------------------
\* A channel without slots, calls and messages.
LEMMA InitIInv == Init => IInv
<1> SUFFICES ASSUME Init PROVE IInv
  OBVIOUS
<1> USE DEF Init
<1>1. slots = <<>> /\ Len(slots) = 0 /\ Index = {} /\ <<>> \in Seq(Slot)
  BY DEF Index
<1>2. NoCall = [conn |-> None, id |-> [slot |-> 0, version |-> 0], kind |-> "good", n |-> 0]
      /\ NoCall.id \in Id /\ NoCall.kind \in AnyKind /\ Closed \in AnyStatus /\ NoCall.n = 0
  BY DEF NoCall, Id, AnyKind, AnyStatus
<1>3. SlotTypes
  BY <1>1 DEF SlotTypes
<1>4. CallTypes
  <2>1. NoCall \in [conn : Conns \cup {None}, id : Id, kind : AnyKind, n : Nat]
    BY <1>2
  <2>2. [n |-> 0, from |-> NoCall.id, status |-> Closed] \in [n : Nat, from : Id, status : AnyStatus]
    BY <1>2
  <2>3. QED
    BY <2>1, <2>2 DEF CallTypes
<1>5. NetTypes
  <2>1. closing \in BOOLEAN /\ exhausted \in BOOLEAN /\ wild \in BOOLEAN
    BY Zenon
  <2>2. \A S : <<>> \in Seq(S)
    OBVIOUS
  <2>3. link \in [Conns -> {"connecting", "up", "broken", "handled"}] /\ jobs \subseteq [conn : Conns, req : Request]
    OBVIOUS
  <2>4. c2s \in [Conns -> Seq(Request)] /\ s2c \in [Conns -> Seq(Response)] /\ out \in [Threads -> Seq(Due)]
    BY <2>2, Zenon DEF Threads
  <2>5. QED
    BY <2>1, <2>3, <2>4, Zenon DEF NetTypes
<1>6. Calls
  BY <1>2 DEF Calls
<1>7. Spare /\ StaleOnlyAfterExhaustion /\ FreeSlots /\ LiveCalls
  BY <1>1 DEF Spare, StaleOnlyAfterExhaustion, FreeSlots, LiveCalls
<1>8. DueCalls /\ Messages
  BY DEF DueCalls, Messages, Threads
<1>9. QED
  BY <1>3, <1>4, <1>5, <1>6, <1>7, <1>8 DEF IInv, Types, Exact

\* Every step of the callers, the I/O threads, the server's workers and the
\* destructor preserves the invariant.
LEMMA NextIInv == IInv /\ [Next]_vars => IInv'
<1> SUFFICES ASSUME IInv, [Next]_vars PROVE IInv'
  OBVIOUS
<1>1. CASE UNCHANGED vars
  <2>1. UNCHANGED vars
    BY <1>1
  <2>2. QED
    <3>1. SlotTypes' = SlotTypes /\ CallTypes' = CallTypes /\ NetTypes' = NetTypes
      BY <2>1 DEF vars, SlotTypes, CallTypes, NetTypes, Index
    <3>2. Calls' = Calls /\ Spare' = Spare /\ StaleOnlyAfterExhaustion' = StaleOnlyAfterExhaustion
      BY <2>1 DEF vars, Calls, Spare, StaleOnlyAfterExhaustion, Resumed, Index
    <3>3. FreeSlots' = FreeSlots /\ LiveCalls' = LiveCalls /\ DueCalls' = DueCalls
      BY <2>1 DEF vars, FreeSlots, LiveCalls, DueCalls, Outcome, Pending, Resumed, Index
    <3>4. Messages' = Messages
      BY <2>1 DEF vars, Messages, Answered, Sent, Index
    <3>5. wild' = wild
      BY <2>1 DEF vars
    <3>6. QED
      BY <3>1, <3>2, <3>3, <3>4, <3>5 DEF IInv, Types, Exact
<1>2. CASE Next
  <2>1. ~wild
    BY <1>2 DEF Next
  <2>2. ASSUME NEW c \in Callers, Await(c) PROVE IInv'
    BY <2>1, <2>2, PickKeeps, AllocateKeeps, SendKeeps DEF Await
  <2>3. ASSUME NEW k \in Conns, Io(k) \/ Server(k) \/ Connect(k) \/ Break(k) PROVE IInv'
    <3>1. CASE ClientMessage(k)
      BY <2>1, <3>1, ClientMessageKeeps
    <3>2. CASE ConnectionDown(k)
      BY <2>1, <3>2, EndKeeps
    <3>3. CASE Server(k) \/ Connect(k) \/ Break(k)
      BY <2>1, <3>3, NetKeeps
    <3>4. QED
      BY <2>3, <3>1, <3>2, <3>3 DEF Io
  <2>4. ASSUME NEW t \in Conns \cup {Main}, Resume(t) PROVE IInv'
    BY <2>1, <2>4, ResumeKeeps DEF Threads
  <2>5. CASE Destroy
    BY <2>1, <2>5, EndKeeps
  <2>6. QED
    BY <1>2, <2>2, <2>3, <2>4, <2>5 DEF Next
<1>3. QED
  BY <1>1, <1>2

\* findAndRemoveSlot, failPendingOnConnection: however many calls, connections and slots
\* there are, a call that is not pending is only taken for one after an allocation has
\* emptied the free list.
THEOREM StaleOnlyAfterExhaustionHolds == Spec => []StaleOnlyAfterExhaustion
<1>1. IInv => StaleOnlyAfterExhaustion
  BY DEF IInv
<1>2. QED
  BY <1>1, InitIInv, NextIInv, PTL DEF Spec

\* Only pickConnection and the resumption of a call give a caller a result.
LEMMA GotOnlyThen ==
  ASSUME Next, got' # got
  PROVE  (\E c \in Callers : Pick(c)) \/ (\E t \in Threads : Resume(t))
<1>1. ASSUME NEW c \in Callers, Await(c) PROVE Pick(c)
  BY <1>1 DEF Await, AllocateSlot, Send
<1>2. ASSUME NEW k \in Conns, Io(k) \/ Server(k) \/ Connect(k) \/ Break(k) PROVE FALSE
  BY <1>2 DEF Io, Server, ClientMessage, ConnectionDown, ServerMessage, Work, Connect, Break
<1>3. CASE Destroy
  BY <1>3 DEF Destroy
<1>4. QED
  BY <1>1, <1>2, <1>3 DEF Next, Threads

Answers(c) ==
  /\ got[c].n # call'[c].n /\ got'[c].n = call'[c].n
  /\ got'[c].from \in {call'[c].id, NoCall.id}
  /\ \/ got'[c].status = Status[call'[c].kind]
     \/ got'[c].status = Closed /\ (closing \/ (\A k \in Conns : ~Connected(k))
                                     \/ link[call[c].conn] = "handled")

\* A step that changes what a caller has got resumes it: it had waited, its call
\* was due in that thread's list, and the status is one the call can have.
LEMMA StepAnswers ==
  ASSUME IInv, Next, NEW c \in Callers, got'[c] # got[c]
  PROVE  Answers(c)
<1>1. ~wild /\ CallTypes /\ NetTypes /\ Calls
  BY DEF Next, IInv, Types
<1>2. DueCalls
  BY <1>1 DEF IInv, Exact
<1>3. CASE \E d \in Callers : Pick(d)
  <2>1. PICK d \in Callers : Pick(d)
    BY <1>3
  <2>2. /\ call' = [call EXCEPT ![d].n = @ + 1]
        /\ got' = [got EXCEPT ![d] = [n |-> call[d].n + 1, from |-> NoCall.id, status |-> Closed]]
        /\ \A k \in Conns : ~Connected(k)
    BY <2>1 DEF Pick
  <2>3. d = c
    BY <2>2
  <2>4. call'[c].n = call[c].n + 1 /\ got'[c].n = call[c].n + 1 /\ got'[c].from = NoCall.id
        /\ got'[c].status = Closed
    BY <1>1, <2>2, <2>3 DEF CallTypes
  <2>5. got[c].n # call[c].n + 1
    <3>1. got[c].n \in Nat /\ call[c].n \in Nat /\ got[c].n <= call[c].n
      BY <1>1 DEF CallTypes, Calls
    <3>2. QED
      BY <3>1
  <2>6. QED
    BY <2>2, <2>4, <2>5 DEF Answers
<1>4. CASE \E t \in Threads : Resume(t)
  <2>1. PICK t \in Threads : Resume(t)
    BY <1>4
  <2> DEFINE r == Head(out[t])
  <2>2. /\ out[t] # <<>> /\ UNCHANGED call
        /\ got' = [got EXCEPT ![r.caller] = [n |-> call[r.caller].n, from |-> r.id, status |-> r.status]]
    BY <2>1 DEF Resume
  <2>3. out[t] \in Seq(Due)
    BY <1>1 DEF NetTypes
  <2>4. 1 \in DOMAIN out[t] /\ r = out[t][1]
    BY <2>2, <2>3, SeqFirst
  <2>5. Pending(r.caller, r.id) /\ Outcome(r)
    BY <1>2, <2>4 DEF DueCalls
  <2> HIDE DEF r
  <2>6. r.caller = c /\ got'[c] = [n |-> call[c].n, from |-> r.id, status |-> r.status]
    BY <1>1, <2>2 DEF CallTypes
  <2>7. /\ got[c].n # call'[c].n /\ got'[c].n = call'[c].n
        /\ got'[c].from = call'[c].id /\ got'[c].status = r.status
    BY <2>2, <2>5, <2>6 DEF Pending, Resumed
  <2>8. \/ got'[c].status = Status[call'[c].kind]
        \/ got'[c].status = Closed /\ (closing \/ link[call[c].conn] = "handled")
    BY <2>2, <2>5, <2>6, <2>7 DEF Outcome
  <2>9. QED
    BY <2>7, <2>8 DEF Answers
<1>5. QED
  BY <1>3, <1>4, GotOnlyThen

\* onMessage, failPendingOnConnection, forceFailAllPending: whatever the numbers of callers,
\* connections, slots and calls, a call is resumed at most once, with the status the server
\* gave its own request or with the error of a connection that is gone.
THEOREM OwnAnswerOnceHolds == Spec => OwnAnswerOnce
<1>1. IInv /\ [Next]_vars => [~wild => \A c \in Callers : got'[c] # got[c] =>
         /\ got[c].n # call'[c].n /\ got'[c].n = call'[c].n
         /\ got'[c].from \in {call'[c].id, NoCall.id}
         /\ \/ got'[c].status = Status[call'[c].kind]
            \/ got'[c].status = Closed /\ (closing \/ (\A k \in Conns : ~Connected(k))
                                            \/ link[call[c].conn] = "handled")]_vars
  BY StepAnswers DEF Answers
<1>2. QED
  BY <1>1, InitIInv, NextIInv, PTL DEF Spec, OwnAnswerOnce

\* allocateSlot, findAndRemoveSlot, the loops that fail calls: whatever the sizes, no slot is
\* handed out while its call is pending, and no call is to be resumed twice.
THEOREM PendingOnceHolds == Spec => []PendingOnce
<1>1. IInv => PendingOnce
  <2> SUFFICES ASSUME IInv, ~wild PROVE PendingOnce
    BY DEF PendingOnce
  <2>1. LiveCalls /\ DueCalls
    BY DEF IInv, Exact
  <2>2. \A r \in ToResume : \E t \in Threads : \E a \in DOMAIN out[t] : r = out[t][a]
    BY DEF ToResume, ToSet, Threads
  <2>3. \A r \in ToResume : /\ Pending(r.caller, r.id)
                            /\ \A i \in Index : slots[i].live => slots[i].caller # r.caller
    BY <2>1, <2>2 DEF DueCalls
  <2>4. \A t, u \in Threads : \A a \in DOMAIN out[t], b \in DOMAIN out[u] :
           out[t][a].caller = out[u][b].caller => t = u /\ a = b
    BY <2>1 DEF DueCalls
  <2>5. QED
    BY <2>1, <2>3, <2>4 DEF PendingOnce, LiveCalls, Index, Threads
<1>2. QED
  BY <1>1, InitIInv, NextIInv, PTL DEF Spec
=============================================================================
