--------------------------- MODULE CountingProofs ---------------------------
(***************************************************************************)
(* How Times and TimesIn change when a sequence is extended, split or      *)
(* shortened and when one sequence of a family is replaced.                *)
(***************************************************************************)
EXTENDS Counting, FiniteSetTheorems, SequenceTheorems, TLAPS

\* A queue is empty when its length is 0.
LEMMA NonEmpty == \A S : \A q \in Seq(S) : Len(q) \in Nat /\ (q # <<>> <=> Len(q) > 0)
OBVIOUS

\* The places of a value in a function with a finite domain.
LEMMA TimesType ==
  ASSUME NEW f, IsFiniteSet(DOMAIN f), NEW x
  PROVE  /\ Times(f, x) \in Nat
         /\ IsFiniteSet({i \in DOMAIN f : f[i] = x})
         /\ Times(f, x) = 0 <=> \A i \in DOMAIN f : f[i] # x
<1>1. IsFiniteSet({i \in DOMAIN f : f[i] = x})
  BY FS_Subset
<1>2. Times(f, x) \in Nat
  BY <1>1, FS_CardinalityType DEF Times
<1>3. Times(f, x) = 0 <=> {i \in DOMAIN f : f[i] = x} = {}
  BY <1>1, FS_EmptySet DEF Times
<1>4. QED
  BY <1>1, <1>2, <1>3

\* The same of a sequence.
LEMMA TimesSeq ==
  ASSUME NEW S, NEW q \in Seq(S), NEW x
  PROVE  /\ Times(q, x) \in Nat
         /\ IsFiniteSet({i \in DOMAIN q : q[i] = x})
         /\ Times(q, x) = 0 <=> \A i \in DOMAIN q : q[i] # x
<1>1. DOMAIN q = 1 .. Len(q) /\ Len(q) \in Nat
  OBVIOUS
<1>2. IsFiniteSet(DOMAIN q)
  BY <1>1, FS_Interval
<1>3. QED
  BY <1>2, TimesType

\* A value that occurs at one place only.
LEMMA TimesOnce ==
  ASSUME NEW f, NEW x, NEW i \in DOMAIN f, f[i] = x, \A j \in DOMAIN f : f[j] = x => j = i
  PROVE  Times(f, x) = 1
<1>1. {j \in DOMAIN f : f[j] = x} = {i}
  OBVIOUS
<1>2. QED
  BY <1>1, FS_Singleton DEF Times

\* One sequence put behind another.
LEMMA TimesConcat ==
  ASSUME NEW S, NEW q \in Seq(S), NEW r \in Seq(S), NEW x
  PROVE  Times(q \o r, x) = Times(q, x) + Times(r, x)
<1> DEFINE A == {i \in DOMAIN q : q[i] = x}
           B == {i \in DOMAIN r : r[i] = x}
           C == {j \in Len(q) + 1 .. Len(q) + Len(r) : r[j - Len(q)] = x}
           f == [i \in B |-> Len(q) + i]
<1>1. /\ DOMAIN q = 1 .. Len(q) /\ Len(q) \in Nat
      /\ DOMAIN r = 1 .. Len(r) /\ Len(r) \in Nat
      /\ DOMAIN (q \o r) = 1 .. Len(q) + Len(r)
      /\ \A i \in 1 .. Len(q) : (q \o r)[i] = q[i]
      /\ \A j \in Len(q) + 1 .. Len(q) + Len(r) : (q \o r)[j] = r[j - Len(q)]
  OBVIOUS
<1>2. {i \in DOMAIN (q \o r) : (q \o r)[i] = x} = A \cup C
  BY <1>1
<1>3. A \cap C = {}
  BY <1>1
<1>4. IsFiniteSet(A) /\ IsFiniteSet(B)
  BY TimesSeq
<1>5. IsFiniteSet(C) /\ Cardinality(C) = Cardinality(B)
  <2>1. f \in [B -> C]
    BY <1>1
  <2>2. \A i, j \in B : f[i] = f[j] => i = j
    BY <1>1
  <2>3. \A j \in C : \E i \in B : f[i] = j
    <3>1. TAKE j \in C
    <3>2. j - Len(q) \in B /\ f[j - Len(q)] = j
      BY <1>1
    <3>3. QED
      BY <3>2
  <2>4. f \in Bijection(B, C)
    BY <2>1, <2>2, <2>3 DEF Bijection, Injection, Surjection, IsInjective
  <2>5. QED
    BY <1>4, <2>4, FS_Bijection DEF ExistsBijection
<1>6. Cardinality(A \cup C) = Cardinality(A) + Cardinality(C)
  <2>1. Cardinality(A \cup C) = Cardinality(A) + Cardinality(C) - Cardinality(A \cap C)
    BY <1>4, <1>5, FS_Union
  <2>2. Cardinality(A \cap C) = 0
    BY <1>3, FS_EmptySet
  <2>3. Cardinality(A) \in Nat /\ Cardinality(C) \in Nat
    BY <1>4, <1>5, FS_CardinalityType
  <2>4. QED
    BY <2>1, <2>2, <2>3
<1>7. QED
  BY <1>2, <1>5, <1>6 DEF Times
\* A sequence of one value.
LEMMA TimesOne ==
  ASSUME NEW y, NEW x
  PROVE  Times(<<y>>, x) = IF y = x THEN 1 ELSE 0
<1>1. DOMAIN <<y>> = {1} /\ <<y>>[1] = y
  OBVIOUS
<1>2. {i \in DOMAIN <<y>> : <<y>>[i] = x} = IF y = x THEN {1} ELSE {}
  BY <1>1
<1>3. QED
  BY <1>2, FS_EmptySet, FS_Singleton DEF Times

\* The empty sequence.
LEMMA TimesEmpty == \A x : Times(<<>>, x) = 0
<1> TAKE x
<1>1. {i \in DOMAIN <<>> : <<>>[i] = x} = {}
  OBVIOUS
<1>2. QED
  BY <1>1, FS_EmptySet DEF Times

\* A sequence is its first element and the rest.
LEMMA TimesTail ==
  ASSUME NEW S, NEW q \in Seq(S), q # <<>>, NEW x
  PROVE  Times(q, x) = Times(Tail(q), x) + (IF Head(q) = x THEN 1 ELSE 0)
<1>1. Tail(q) \in Seq(S) /\ <<Head(q)>> \in Seq(S)
  OBVIOUS
<1>2. q = <<Head(q)>> \o Tail(q)
  BY <1>1
<1>3. Times(q, x) = Times(<<Head(q)>>, x) + Times(Tail(q), x)
  BY ZenonT(40), <1>1, <1>2, TimesConcat
<1>4. Times(Tail(q), x) \in Nat
  BY <1>1, TimesSeq
<1>5. QED
  BY <1>3, <1>4, TimesOne

\* A sequence cut in two.
LEMMA TimesSplit ==
  ASSUME NEW S, NEW q \in Seq(S), NEW n \in 0 .. Len(q), NEW x
  PROVE  /\ SubSeq(q, 1, n) \in Seq(S) /\ SubSeq(q, n + 1, Len(q)) \in Seq(S)
         /\ Times(q, x) = Times(SubSeq(q, 1, n), x) + Times(SubSeq(q, n + 1, Len(q)), x)
<1>1. SubSeq(q, 1, n) \in Seq(S) /\ SubSeq(q, n + 1, Len(q)) \in Seq(S)
  OBVIOUS
<1>2. q = SubSeq(q, 1, n) \o SubSeq(q, n + 1, Len(q))
  <2>1. 1 \in 1 .. Len(q) + 1 /\ n \in 1 - 1 .. Len(q) /\ Len(q) \in n .. Len(q)
    OBVIOUS
  <2>2. SubSeq(q, 1, n) \o SubSeq(q, n + 1, Len(q)) = SubSeq(q, 1, Len(q))
    BY <2>1, ConcatAdjacentSubSeq, Zenon
  <2>3. QED
    BY <2>2, SubSeqFull
<1>3. QED
  BY ZenonT(40), <1>1, <1>2, TimesConcat

\* A sequence is its last element and what is before it.
LEMMA TimesLast ==
  ASSUME NEW S, NEW q \in Seq(S), q # <<>>, NEW x
  PROVE  /\ q[Len(q)] \in S /\ SubSeq(q, 1, Len(q) - 1) \in Seq(S)
         /\ Times(q, x) = Times(SubSeq(q, 1, Len(q) - 1), x) + (IF q[Len(q)] = x THEN 1 ELSE 0)
<1> DEFINE n == Len(q) - 1
           r == SubSeq(q, n + 1, Len(q))
<1>1. Len(q) \in Nat /\ Len(q) > 0
  BY NonEmpty
<1>2. n \in 0 .. Len(q) /\ n + 1 = Len(q) /\ q[Len(q)] \in S
  BY <1>1
<1>3. SubSeq(q, 1, n) \in Seq(S) /\ r \in Seq(S) /\ Times(q, x) = Times(SubSeq(q, 1, n), x) + Times(r, x)
  BY <1>2, TimesSplit
<1>4. DOMAIN r = {1} /\ r[1] = q[Len(q)]
  <2>1. r \in Seq(S) /\ Len(r) = 1 /\ r[1] = q[Len(q)]
    BY <1>1, <1>2
  <2>2. DOMAIN r = 1 .. 1
    BY <2>1
  <2>3. QED
    BY <2>1, <2>2
<1>5. {i \in DOMAIN r : r[i] = x} = IF q[Len(q)] = x THEN {1} ELSE {}
  <2> HIDE DEF r
  <2>1. QED
    BY <1>4
<1>6. Times(r, x) = IF q[Len(q)] = x THEN 1 ELSE 0
  BY <1>5, FS_EmptySet, FS_Singleton DEF Times
<1>7. QED
  BY <1>2, <1>3, <1>6

\* n consecutive numbers after m: the jobs of a submission.
NumbersAfter(m, n) == [k \in 1 .. n |-> m + k]

\* Each of them occurs once.
LEMMA TimesNumbers ==
  ASSUME NEW n \in Nat, NEW m \in Nat, NEW x \in Int
  PROVE  Times(NumbersAfter(m, n), x) = IF x \in m + 1 .. m + n THEN 1 ELSE 0
<1> DEFINE q == NumbersAfter(m, n)
<1> USE DEF NumbersAfter
<1>1. CASE x \in m + 1 .. m + n
  <2>1. x - m \in DOMAIN q /\ q[x - m] = x /\ \A j \in DOMAIN q : q[j] = x => j = x - m
    BY <1>1
  <2>2. QED
    BY <1>1, <2>1, TimesOnce
<1>2. CASE x \notin m + 1 .. m + n
  <2>1. {k \in DOMAIN q : q[k] = x} = {}
    BY <1>2
  <2>2. QED
    BY <1>2, <2>1, FS_EmptySet DEF Times
<1>3. QED
  BY <1>1, <1>2

\* One value of a function is replaced.
LEMMA TimesExcept ==
  ASSUME NEW f, IsFiniteSet(DOMAIN f), NEW d \in DOMAIN f, NEW v, NEW x
  PROVE  Times([f EXCEPT ![d] = v], x)
           = Times(f, x) + (IF v = x THEN 1 ELSE 0) - (IF f[d] = x THEN 1 ELSE 0)
<1> DEFINE h == [f EXCEPT ![d] = v]
           F == {i \in DOMAIN f : f[i] = x}
           H == {i \in DOMAIN h : h[i] = x}
           R == F \ {d}
<1>1. IsFiniteSet(F) /\ Cardinality(F) \in Nat
  BY TimesType DEF Times
<1>2. IsFiniteSet(R) /\ Cardinality(R) = IF d \in F THEN Cardinality(F) - 1 ELSE Cardinality(F)
  BY <1>1, FS_RemoveElement
<1>3. H = IF v = x THEN R \cup {d} ELSE R
  OBVIOUS
<1>4. d \notin R
  OBVIOUS
<1>5. Cardinality(R \cup {d}) = Cardinality(R) + 1
  BY <1>2, <1>4, FS_AddElement
<1>6. Cardinality(H) = Cardinality(R) + (IF v = x THEN 1 ELSE 0)
  BY <1>1, <1>2, <1>3, <1>5
<1>7. d \in F <=> f[d] = x
  OBVIOUS
<1>8. QED
  BY <1>1, <1>2, <1>6, <1>7 DEF Times

\* The places of a value in a finite family of sequences.
LEMMA TimesInType ==
  ASSUME NEW g, IsFiniteSet(DOMAIN g), NEW S, \A p \in DOMAIN g : g[p] \in Seq(S), NEW x
  PROVE  /\ TimesIn(g, x) \in Nat
         /\ IsFiniteSet({s \in Positions(g) : g[s[1]][s[2]] = x})
         /\ TimesIn(g, x) = 0 <=> \A p \in DOMAIN g : \A i \in DOMAIN g[p] : g[p][i] # x
<1> DEFINE P == {s \in Positions(g) : g[s[1]][s[2]] = x}
           D == {{p} \X DOMAIN g[p] : p \in DOMAIN g}
           f == [p \in DOMAIN g |-> {p} \X DOMAIN g[p]]
<1>1. f \in Surjection(DOMAIN g, D)
  BY DEF Surjection
<1>2. IsFiniteSet(D)
  BY <1>1, FS_Surjection
<1>3. \A T \in D : IsFiniteSet(T)
  <2>1. TAKE T \in D
  <2>2. PICK p \in DOMAIN g : T = {p} \X DOMAIN g[p]
    OBVIOUS
  <2>3. DOMAIN g[p] = 1 .. Len(g[p]) /\ Len(g[p]) \in Nat
    OBVIOUS
  <2>4. IsFiniteSet(DOMAIN g[p]) /\ IsFiniteSet({p})
    <3>1. IsFiniteSet(1 .. Len(g[p]))
      BY <2>3, FS_Interval
    <3>2. QED
      BY <2>3, <3>1, FS_Singleton
  <2>5. QED
    BY <2>2, <2>4, FS_Product, Zenon
<1>4. IsFiniteSet(Positions(g))
  BY <1>2, <1>3, FS_UNION DEF Positions
<1>5. IsFiniteSet(P)
  BY <1>4, FS_Subset
<1>6. Cardinality(P) \in Nat /\ (Cardinality(P) = 0 <=> P = {})
  BY <1>5, FS_CardinalityType, FS_EmptySet
<1>7. P = {} <=> \A p \in DOMAIN g : \A i \in DOMAIN g[p] : g[p][i] # x
  <2>1. \A p \in DOMAIN g : \A i \in DOMAIN g[p] : <<p, i>> \in Positions(g)
    BY DEF Positions
  <2>2. \A s \in Positions(g) : s[1] \in DOMAIN g /\ s[2] \in DOMAIN g[s[1]]
    BY DEF Positions
  <2>3. P # {} => \E p \in DOMAIN g : \E i \in DOMAIN g[p] : g[p][i] = x
    BY <2>2
  <2>4. ASSUME NEW p \in DOMAIN g, NEW i \in DOMAIN g[p], g[p][i] = x PROVE P # {}
    <3>1. <<p, i>> \in P
      BY <2>1, <2>4
    <3>2. QED
      BY <3>1
  <2>5. QED
    BY <2>3, <2>4
<1>8. QED
  BY <1>5, <1>6, <1>7 DEF TimesIn

\* One sequence of a family is replaced.
LEMMA TimesInExcept ==
  ASSUME NEW g, IsFiniteSet(DOMAIN g), NEW S, \A p \in DOMAIN g : g[p] \in Seq(S),
         NEW w \in DOMAIN g, NEW q \in Seq(S), NEW x
  PROVE  TimesIn([g EXCEPT ![w] = q], x) = TimesIn(g, x) + Times(q, x) - Times(g[w], x)
<1> DEFINE h == [g EXCEPT ![w] = q]
           P(k) == {s \in Positions(k) : k[s[1]][s[2]] = x}
           A(r) == {i \in DOMAIN r : r[i] = x}
           R == {s \in P(g) : s[1] # w}
<1>1. DOMAIN h = DOMAIN g /\ h[w] = q /\ \A p \in DOMAIN g : p # w => h[p] = g[p]
  OBVIOUS
<1>2. \A p \in DOMAIN h : h[p] \in Seq(S)
  BY <1>1
<1>3. /\ IsFiniteSet(P(g)) /\ IsFiniteSet(R)
      /\ IsFiniteSet(A(g[w])) /\ IsFiniteSet(A(q))
      /\ Cardinality(R) \in Nat /\ Cardinality(A(g[w])) \in Nat /\ Cardinality(A(q)) \in Nat
  BY TimesInType, TimesSeq, FS_Subset, FS_CardinalityType
<1>4. ASSUME NEW k, DOMAIN k = DOMAIN g, \A p \in DOMAIN g : p # w => k[p] = g[p]
      PROVE  P(k) = R \cup ({w} \X A(k[w]))
  BY <1>4 DEF Positions
<1>5. ASSUME NEW r \in Seq(S)
      PROVE  Cardinality(R \cup ({w} \X A(r))) = Cardinality(R) + Times(r, x)
  <2>1. IsFiniteSet(A(r)) /\ Cardinality(A(r)) = Times(r, x) /\ Times(r, x) \in Nat
    BY TimesSeq DEF Times
  <2>2. IsFiniteSet({w}) /\ Cardinality({w}) = 1
    BY FS_Singleton
  <2>3. IsFiniteSet({w} \X A(r)) /\ Cardinality({w} \X A(r)) = 1 * Times(r, x)
    BY ZenonT(40), <2>1, <2>2, FS_Product
  <2>4. R \cap ({w} \X A(r)) = {}
    OBVIOUS
  <2>5. Cardinality(R \cap ({w} \X A(r))) = 0
    BY <2>4, FS_EmptySet
  <2>6. Cardinality(R \cup ({w} \X A(r)))
          = Cardinality(R) + Cardinality({w} \X A(r)) - Cardinality(R \cap ({w} \X A(r)))
    BY <1>3, <2>3, FS_Union
  <2>7. QED
    BY <1>3, <2>1, <2>3, <2>5, <2>6
<1>6. TimesIn(g, x) = Cardinality(R) + Times(g[w], x)
  <2>1. P(g) = R \cup ({w} \X A(g[w]))
    BY <1>4
  <2>2. QED
    BY <1>5, <2>1 DEF TimesIn
<1>7. TimesIn(h, x) = Cardinality(R) + Times(q, x)
  <2> HIDE DEF P, R, A, h
  <2>1. P(h) = R \cup ({w} \X A(h[w]))
    BY <1>1, <1>4
  <2>2. Cardinality(P(h)) = Cardinality(R) + Times(q, x)
    BY <1>1, <1>5, <2>1
  <2>3. QED
    BY <2>2 DEF TimesIn, P
<1>8. Times(g[w], x) \in Nat /\ Times(q, x) \in Nat
  BY TimesSeq
<1>9. QED
  BY <1>3, <1>6, <1>7, <1>8
-----------------------------------------------------------------------------
(***************************************************************************)
(* The entries of an array queue, as ThreadPool and EventLoop use it.      *)
(***************************************************************************)
Entries(S, B) == Seq([job : S, by : B, ready : BOOLEAN])

\* The jobs of the entries.
LEMMA JobsOfType ==
  ASSUME NEW S, NEW B, NEW q \in Entries(S, B)
  PROVE  JobsOf(q) \in Seq(S) /\ Len(JobsOf(q)) = Len(q)
<1>1. q \in [1 .. Len(q) -> [job : S, by : B, ready : BOOLEAN]] /\ Len(q) \in Nat
  BY LenProperties DEF Entries
<1>2. JobsOf(q) = [i \in 1 .. Len(q) |-> q[i].job]
  BY <1>1 DEF JobsOf
<1>3. \A i \in 1 .. Len(q) : q[i].job \in S
  BY <1>1
<1>4. QED
  BY <1>1, <1>2, <1>3

\* ArrayMpscQueue::pushBulk reserves places at the end.
LEMMA TimesJobsConcat ==
  \A S, B : \A q, r \in Entries(S, B) :
    /\ q \o r \in Entries(S, B)
    /\ \A x : Times(JobsOf(q \o r), x) = Times(JobsOf(q), x) + Times(JobsOf(r), x)
<1> TAKE S, B
<1> TAKE q, r \in Entries(S, B)
<1>1. q \o r \in Entries(S, B) /\ Len(q \o r) = Len(q) + Len(r) /\ Len(q) \in Nat /\ Len(r) \in Nat
  BY DEF Entries
<1>2. /\ JobsOf(q) \in Seq(S) /\ Len(JobsOf(q)) = Len(q)
      /\ JobsOf(r) \in Seq(S) /\ Len(JobsOf(r)) = Len(r)
      /\ JobsOf(q \o r) \in Seq(S) /\ Len(JobsOf(q \o r)) = Len(q) + Len(r)
  BY <1>1, JobsOfType
<1>3. JobsOf(q) \o JobsOf(r) \in Seq(S) /\ Len(JobsOf(q) \o JobsOf(r)) = Len(q) + Len(r)
  <2>1. \A a, b \in Seq(S) : a \o b \in Seq(S) /\ Len(a \o b) = Len(a) + Len(b)
    OBVIOUS
  <2>2. QED
    BY <1>2, <2>1
<1>4. \A i \in 1 .. Len(q) + Len(r) : JobsOf(q \o r)[i] = (JobsOf(q) \o JobsOf(r))[i]
  <2>1. TAKE i \in 1 .. Len(q) + Len(r)
  <2>2. DOMAIN q = 1 .. Len(q) /\ DOMAIN r = 1 .. Len(r) /\ DOMAIN (q \o r) = 1 .. Len(q) + Len(r)
    BY <1>1 DEF Entries
  <2>3. JobsOf(q \o r)[i] = (q \o r)[i].job
    BY <2>2 DEF JobsOf
  <2>4. CASE i <= Len(q)
    <3>1. (q \o r)[i] = q[i] /\ JobsOf(q)[i] = q[i].job
      BY <1>1, <2>2, <2>4 DEF Entries, JobsOf
    <3>2. (JobsOf(q) \o JobsOf(r))[i] = JobsOf(q)[i]
      BY <1>1, <1>2, <2>4
    <3>3. QED
      BY <2>3, <3>1, <3>2
  <2>5. CASE i > Len(q)
    <3>1. (q \o r)[i] = r[i - Len(q)] /\ JobsOf(r)[i - Len(q)] = r[i - Len(q)].job
      BY <1>1, <2>2, <2>5 DEF Entries, JobsOf
    <3>2. (JobsOf(q) \o JobsOf(r))[i] = JobsOf(r)[i - Len(q)]
      BY <1>1, <1>2, <2>5
    <3>3. QED
      BY <2>3, <3>1, <3>2
  <2>6. i <= Len(q) \/ i > Len(q)
    BY <1>1
  <2>7. QED
    BY <2>4, <2>5, <2>6
<1>5. JobsOf(q \o r) = JobsOf(q) \o JobsOf(r)
  BY <1>2, <1>3, <1>4, SeqEqual
<1>6. \A x : Times(JobsOf(q) \o JobsOf(r), x) = Times(JobsOf(q), x) + Times(JobsOf(r), x)
  BY <1>2, TimesConcat
<1>7. QED
  BY <1>1, <1>5, <1>6

\* popBulk takes entries from the front.
LEMMA JobsOfPopped ==
  ASSUME NEW S, NEW B, NEW q \in Entries(S, B), NEW n \in 0 .. Len(q)
  PROVE  /\ SubSeq(q, n + 1, Len(q)) \in Entries(S, B)
         /\ JobsOf(SubSeq(q, n + 1, Len(q))) = SubSeq(JobsOf(q), n + 1, Len(q))
         /\ [i \in 1 .. n |-> q[i].job] = SubSeq(JobsOf(q), 1, n)
<1> DEFINE r == SubSeq(q, n + 1, Len(q))
<1>1. r \in Entries(S, B) /\ Len(r) = Len(q) - n /\ Len(q) \in Nat
  <2>0. Len(q) \in Nat /\ q \in [1 .. Len(q) -> [job : S, by : B, ready : BOOLEAN]]
    BY LenProperties DEF Entries
  <2>1. Len(q) \in Nat /\ \A i \in n + 1 .. Len(q) : q[i] \in [job : S, by : B, ready : BOOLEAN]
    BY <2>0
  <2>2. n + 1 \in Int /\ Len(q) \in Int
    BY <2>1
  <2>3. r \in Entries(S, B) /\ Len(r) = IF n + 1 <= Len(q) THEN Len(q) - (n + 1) + 1 ELSE 0
    BY <2>1, <2>2, SubSeqProperties DEF Entries
  <2>4. QED
    BY <2>1, <2>3
<1>2. /\ JobsOf(q) \in Seq(S) /\ Len(JobsOf(q)) = Len(q)
      /\ JobsOf(r) \in Seq(S) /\ Len(JobsOf(r)) = Len(q) - n
  BY <1>1, JobsOfType
<1>3. \A i \in 1 .. Len(q) : JobsOf(q)[i] = q[i].job
  BY <1>1 DEF JobsOf, Entries
<1>4. \A i \in 1 .. Len(q) - n : r[i] = q[i + n] /\ JobsOf(r)[i] = r[i].job
  BY <1>1 DEF JobsOf, Entries
<1>5. JobsOf(r) = SubSeq(JobsOf(q), n + 1, Len(q))
  <2>1. /\ SubSeq(JobsOf(q), n + 1, Len(q)) \in Seq(S)
        /\ Len(SubSeq(JobsOf(q), n + 1, Len(q))) = Len(q) - n
        /\ \A i \in 1 .. Len(q) - n : SubSeq(JobsOf(q), n + 1, Len(q))[i] = JobsOf(q)[i + n]
    BY <1>1, <1>2
  <2>2. \A i \in 1 .. Len(q) - n : JobsOf(r)[i] = SubSeq(JobsOf(q), n + 1, Len(q))[i]
    BY <1>1, <1>3, <1>4, <2>1
  <2>3. QED
    BY <1>2, <2>1, <2>2, SeqEqual
<1>6. [i \in 1 .. n |-> q[i].job] = SubSeq(JobsOf(q), 1, n)
  BY <1>1, <1>2, <1>3
<1>7. QED
  BY <1>1, <1>5, <1>6

\* The entries once place i is filled.
Filled(q, i) == [q EXCEPT ![i].ready = TRUE]

\* A producer publishes one of its places.
LEMMA JobsOfFilled ==
  ASSUME NEW S, NEW B, NEW q \in Entries(S, B), NEW i
  PROVE  /\ Filled(q, i) \in Entries(S, B)
         /\ JobsOf(Filled(q, i)) = JobsOf(q)
         /\ Len(Filled(q, i)) = Len(q)
<1> USE DEF Filled
<1> DEFINE r == Filled(q, i)
<1>1. Len(q) \in Nat /\ q \in [1 .. Len(q) -> [job : S, by : B, ready : BOOLEAN]]
  BY LenProperties DEF Entries
<1>2. r \in [1 .. Len(q) -> [job : S, by : B, ready : BOOLEAN]]
  BY <1>1
<1>3. r \in Entries(S, B)
  BY <1>1, <1>2, SeqDef DEF Entries
<1>4. DOMAIN r = DOMAIN q /\ \A k \in DOMAIN q : r[k].job = q[k].job
  BY <1>1
<1>5. Len(r) = Len(q)
  BY <1>1, <1>2, <1>3, LenProperties DEF Entries
<1>6. QED
  BY <1>3, <1>4, <1>5 DEF JobsOf

\* The jobs of the entries 2 to n.
NextJobs(q, n) == [k \in 1 .. (n - 1) |-> q[k + 1].job]

\* A consumer takes n entries: the first job in hand, the others as a batch.
LEMMA TimesGrabbed ==
  ASSUME NEW S, NEW B, NEW q \in Entries(S, B), NEW n \in 1 .. Len(q)
  PROVE  /\ q[1].job \in S /\ NextJobs(q, n) \in Seq(S) /\ Len(NextJobs(q, n)) = n - 1
         /\ SubSeq(q, n + 1, Len(q)) \in Entries(S, B)
         /\ \A x : Times(JobsOf(q), x)
                    = Times(JobsOf(SubSeq(q, n + 1, Len(q))), x) + Times(NextJobs(q, n), x)
                      + (IF q[1].job = x THEN 1 ELSE 0)
<1> DEFINE r == SubSeq(q, n + 1, Len(q))
           f == SubSeq(JobsOf(q), 1, n)
           b == NextJobs(q, n)
<1>1. Len(q) \in Nat /\ q \in [1 .. Len(q) -> [job : S, by : B, ready : BOOLEAN]]
  BY LenProperties DEF Entries
<1>2. n \in Nat /\ n >= 1 /\ n \in 0 .. Len(q)
  BY <1>1
<1>3. q[1].job \in S /\ b \in Seq(S) /\ Len(b) = n - 1
  <2>1. \A k \in 1 .. Len(q) : q[k].job \in S
    BY <1>1
  <2>2. \A k \in 1 .. n - 1 : k + 1 \in 1 .. Len(q)
    BY <1>1, <1>2
  <2>3. b \in Seq(S) /\ Len(b) = n - 1
    BY <1>2, <2>1, <2>2 DEF NextJobs
  <2>4. QED
    BY <1>1, <1>2, <2>1, <2>3
<1>4. r \in Entries(S, B) /\ JobsOf(r) = SubSeq(JobsOf(q), n + 1, Len(q)) /\ f = [i \in 1 .. n |-> q[i].job]
  BY <1>2, JobsOfPopped
<1>5. JobsOf(q) \in Seq(S) /\ Len(JobsOf(q)) = Len(q)
  BY JobsOfType
<1>6. f \in Seq(S) /\ \A x : Times(JobsOf(q), x) = Times(f, x) + Times(JobsOf(r), x)
  <2>1. n \in 0 .. Len(JobsOf(q))
    BY <1>2, <1>5
  <2>2. /\ f \in Seq(S)
        /\ \A x : Times(JobsOf(q), x) = Times(f, x) + Times(SubSeq(JobsOf(q), n + 1, Len(JobsOf(q))), x)
    BY <1>5, <2>1, TimesSplit
  <2>3. QED
    BY <1>4, <1>5, <2>2
<1>7. f # <<>> /\ Head(f) = q[1].job /\ Tail(f) = b
  <2>1. Len(f) = n /\ f[1] = q[1].job /\ \A k \in 1 .. n - 1 : f[k + 1] = b[k]
    BY <1>2, <1>4, <1>6 DEF NextJobs
  <2> HIDE DEF f, b
  <2>2. f # <<>>
    BY <1>2, <1>6, <2>1, NonEmpty
  <2>3. Head(f) = f[1] /\ Tail(f) \in Seq(S) /\ Len(Tail(f)) = n - 1 /\ \A k \in 1 .. n - 1 : Tail(f)[k] = f[k + 1]
    BY <1>2, <1>6, <2>1, <2>2, HeadTailProperties
  <2>4. Tail(f) = b
    BY <1>3, <2>1, <2>3, SeqEqual
  <2>5. QED
    BY <2>1, <2>2, <2>3, <2>4
<1> HIDE DEF f, r, b
<1>8. ASSUME NEW x PROVE Times(f, x) = Times(b, x) + (IF q[1].job = x THEN 1 ELSE 0)
  <2>1. Times(f, x) = Times(Tail(f), x) + (IF Head(f) = x THEN 1 ELSE 0)
    BY <1>6, <1>7, TimesTail
  <2>2. QED
    BY <1>7, <2>1
<1>9. ASSUME NEW x PROVE Times(b, x) \in Nat /\ Times(JobsOf(r), x) \in Nat
  <2>1. JobsOf(r) \in Seq(S)
    BY <1>4, JobsOfType
  <2>2. QED
    BY <1>3, <2>1, TimesSeq
<1>10. ASSUME NEW x PROVE Times(JobsOf(q), x) = Times(JobsOf(r), x) + Times(b, x) + (IF q[1].job = x THEN 1 ELSE 0)
  BY <1>6, <1>8, <1>9
<1>11. QED
  BY <1>3, <1>4, <1>10 DEF r, b
=============================================================================
