------------------------- MODULE AsyncLoggingProofs -------------------------
(***************************************************************************)
(* Proofs about AsyncLogging for any threads, capacities and sizes of the  *)
(* file: what the backend takes from a ring is kept, each unit once and in *)
(* order, and a flush() returns when what had been taken is written.       *)
(***************************************************************************)
EXTENDS AsyncLogging, TLAPS

(***************************************************************************)
(* Quotients and remainders.                                               *)
(***************************************************************************)
\* A product of naturals is one.
LEMMA Product == \A x, y \in Nat : x * y \in Nat /\ x * (y + 1) = x * y + x
BY Z3

\* What \div and % are.
LEMMA Division ==
  ASSUME NEW n \in Nat, NEW m \in Nat \ {0}
  PROVE  n = m * (n \div m) + (n % m) /\ n % m \in 0 .. m - 1 /\ n \div m \in Nat
BY Z3

\* A later lap starts after the end of an earlier one.
LEMMA Laps ==
  ASSUME NEW m \in Nat \ {0}, NEW a \in Nat, NEW b \in Nat, a < b
  PROVE  m * a + m <= m * b /\ m * a \in Nat /\ m * b \in Nat
<1>1. PICK d \in Nat : b = a + 1 + d
  <2>1. b = a + 1 + (b - a - 1) /\ b - a - 1 \in Nat
    OBVIOUS
  <2>2. QED
    BY <2>1
<1>2. m * b = m * a + m + m * d
  BY <1>1, Z3
<1>3. m * d \in Nat /\ m * a \in Nat /\ m * b \in Nat
  BY Product
<1>4. QED
  BY <1>2, <1>3

\* Two indices less than a lap apart that use the same slot are the same.
LEMMA SameSlot ==
  ASSUME NEW x \in Nat, NEW y \in Nat, NEW m \in Nat \ {0},
         x % m = y % m, x < y + m, y < x + m
  PROVE  x = y
<1> DEFINE a == x \div m
           b == y \div m
           r == x % m
<1>1. x = m * a + r /\ y = m * b + r /\ a \in Nat /\ b \in Nat /\ r \in 0 .. m - 1
  BY Division
<1> HIDE DEF a, b, r
<1>2. CASE a < b
  <2>1. m * a + m <= m * b /\ m * a \in Nat /\ m * b \in Nat
    BY <1>1, <1>2, Laps
  <2>2. QED
    BY <1>1, <2>1
<1>3. CASE b < a
  <2>1. m * b + m <= m * a /\ m * a \in Nat /\ m * b \in Nat
    BY <1>1, <1>3, Laps
  <2>2. QED
    BY <1>1, <2>1
<1>4. CASE a = b
  BY <1>1, <1>4
<1>5. QED
  BY <1>1, <1>2, <1>3, <1>4

(***************************************************************************)
(* Sequences of units.  Keeps(d, b, a, n): of a thread's units, d is       *)
(* written, b is buffered behind it and a was in the buffers of files that *)
(* were closed; it all makes up the first n.                               *)
(***************************************************************************)
Keeps(d, b, a, n) ==
  /\ Increasing(d \o b)
  /\ ToSet(d \o b) \cup a = 1 .. n /\ ToSet(d \o b) \cap a = {}

\* The sequence q is the k units that follow the first n.
Continues(q, n, k) == q \in Seq(Nat) /\ Len(q) = k /\ \A j \in 1 .. k : q[j] = n + j

\* What a concatenation is made of.
LEMMA Concat ==
  ASSUME NEW p \in Seq(Nat), NEW q \in Seq(Nat)
  PROVE  /\ p \o q \in Seq(Nat) /\ Len(p \o q) = Len(p) + Len(q)
         /\ \A j \in 1 .. Len(p) : (p \o q)[j] = p[j]
         /\ \A j \in 1 .. Len(q) : (p \o q)[Len(p) + j] = q[j]
         /\ ToSet(p \o q) = ToSet(p) \cup ToSet(q)
<1>1. /\ p \o q \in Seq(Nat) /\ Len(p \o q) = Len(p) + Len(q)
      /\ \A j \in 1 .. Len(p) : (p \o q)[j] = p[j]
      /\ \A j \in 1 .. Len(q) : (p \o q)[Len(p) + j] = q[j]
  OBVIOUS
<1>2. Len(p) \in Nat /\ Len(q) \in Nat
  OBVIOUS
<1>3. DOMAIN p = 1 .. Len(p) /\ DOMAIN q = 1 .. Len(q) /\ DOMAIN (p \o q) = 1 .. Len(p) + Len(q)
  BY <1>1
<1>4. ASSUME NEW x \in ToSet(p \o q) PROVE x \in ToSet(p) \cup ToSet(q)
  <2>1. PICK k \in 1 .. Len(p) + Len(q) : x = (p \o q)[k]
    BY <1>3 DEF ToSet
  <2>2. CASE k <= Len(p)
    BY <2>1, <2>2, <1>1, <1>2, <1>3 DEF ToSet
  <2>3. CASE k > Len(p)
    <3>1. k - Len(p) \in 1 .. Len(q) /\ k = Len(p) + (k - Len(p))
      BY <2>3, <1>2
    <3>2. x = q[k - Len(p)]
      BY <3>1, <2>1, <1>1
    <3>3. QED
      BY <3>1, <3>2, <1>3 DEF ToSet
  <2>4. QED
    BY <2>2, <2>3, <1>2
<1>5. ASSUME NEW x \in ToSet(p) PROVE x \in ToSet(p \o q)
  <2>1. PICK k \in 1 .. Len(p) : x = p[k]
    BY <1>3 DEF ToSet
  <2>2. k \in 1 .. Len(p) + Len(q) /\ x = (p \o q)[k]
    BY <2>1, <1>1, <1>2
  <2>3. QED
    BY <2>2, <1>3 DEF ToSet
<1>6. ASSUME NEW x \in ToSet(q) PROVE x \in ToSet(p \o q)
  <2>1. PICK k \in 1 .. Len(q) : x = q[k]
    BY <1>3 DEF ToSet
  <2>2. Len(p) + k \in 1 .. Len(p) + Len(q) /\ x = (p \o q)[Len(p) + k]
    BY <2>1, <1>1, <1>2
  <2>3. QED
    BY <2>2, <1>3 DEF ToSet
<1>7. QED
  BY <1>1, <1>4, <1>5, <1>6

\* Concatenation with an empty sequence.
LEMMA ConcatNothing ==
  ASSUME NEW q \in Seq(Nat)
  PROVE  q \o <<>> = q /\ <<>> \o q = q
OBVIOUS

\* A buffer is written: nothing is lost.
LEMMA KeepsFlushed ==
  ASSUME NEW d \in Seq(Nat), NEW b \in Seq(Nat), NEW a, NEW n, Keeps(d, b, a, n)
  PROVE  Keeps(d \o b, <<>>, a, n)
<1>1. d \o b \in Seq(Nat)
  BY Concat
<1>2. (d \o b) \o <<>> = d \o b
  BY <1>1, ConcatNothing
<1>3. QED
  BY <1>2 DEF Keeps

\* A file is closed with what is in its buffer.
LEMMA KeepsRolled ==
  ASSUME NEW d \in Seq(Nat), NEW b \in Seq(Nat), NEW a, NEW n \in Nat, Keeps(d, b, a, n)
  PROVE  Keeps(d, <<>>, a \cup ToSet(b), n)
<1> DEFINE e == d \o b
<1>1. /\ e \in Seq(Nat) /\ Len(e) = Len(d) + Len(b)
      /\ \A j \in 1 .. Len(d) : e[j] = d[j]
      /\ \A j \in 1 .. Len(b) : e[Len(d) + j] = b[j]
      /\ ToSet(e) = ToSet(d) \cup ToSet(b)
  BY Concat
<1>2. Len(d) \in Nat /\ Len(b) \in Nat /\ DOMAIN d = 1 .. Len(d) /\ DOMAIN b = 1 .. Len(b)
  OBVIOUS
<1>3. Increasing(e) /\ ToSet(e) \cup a = 1 .. n /\ ToSet(e) \cap a = {}
  BY DEF Keeps
<1> HIDE DEF e
<1>4. DOMAIN e = 1 .. Len(d) + Len(b)
  BY <1>1
<1>5. d \o <<>> = d
  BY ConcatNothing
<1>6. Increasing(d)
  <2>1. ASSUME NEW x \in 1 .. Len(d), NEW y \in 1 .. Len(d), x < y PROVE d[x] < d[y]
    <3>1. x \in DOMAIN e /\ y \in DOMAIN e
      BY <1>2, <1>4
    <3>2. e[x] < e[y]
      BY <3>1, <2>1, <1>3 DEF Increasing
    <3>3. QED
      BY <3>2, <1>1
  <2>2. QED
    BY <2>1, <1>2 DEF Increasing
<1>7. ASSUME NEW x \in ToSet(d), x \in ToSet(b) PROVE FALSE
  <2>1. PICK k \in 1 .. Len(d) : x = d[k]
    BY <1>2 DEF ToSet
  <2>2. PICK m \in 1 .. Len(b) : x = b[m]
    BY <1>7, <1>2 DEF ToSet
  <2>3. k \in DOMAIN e /\ Len(d) + m \in DOMAIN e /\ k < Len(d) + m
    BY <1>2, <1>4
  <2>4. e[k] < e[Len(d) + m]
    BY <2>3, <1>3 DEF Increasing
  <2>5. e[k] = x /\ e[Len(d) + m] = x
    BY <2>1, <2>2, <1>1
  <2>6. d[k] \in Nat
    OBVIOUS
  <2>7. QED
    BY <2>1, <2>4, <2>5, <2>6
<1>8. QED
  BY <1>1, <1>3, <1>5, <1>6, <1>7 DEF Keeps

\* What continues the units kept so far is buffered.
LEMMA KeepsBuffered ==
  ASSUME NEW d \in Seq(Nat), NEW b \in Seq(Nat), NEW a, NEW n \in Nat, NEW k \in Nat,
         NEW q, Keeps(d, b, a, n), Continues(q, n, k)
  PROVE  b \o q \in Seq(Nat) /\ Keeps(d, b \o q, a, n + k)
<1> DEFINE e == d \o b
           f == e \o q
<1>1. q \in Seq(Nat) /\ Len(q) = k /\ \A j \in 1 .. k : q[j] = n + j
  BY DEF Continues
<1>2. e \in Seq(Nat) /\ Len(e) \in Nat
  BY Concat
<1>3. Increasing(e) /\ ToSet(e) \cup a = 1 .. n /\ ToSet(e) \cap a = {}
  BY DEF Keeps
<1>4. b \o q \in Seq(Nat) /\ d \o (b \o q) = f
  BY <1>1
<1>5. /\ f \in Seq(Nat) /\ Len(f) = Len(e) + k
      /\ \A j \in 1 .. Len(e) : f[j] = e[j]
      /\ \A j \in 1 .. k : f[Len(e) + j] = q[j]
      /\ ToSet(f) = ToSet(e) \cup ToSet(q)
  <2>1. /\ f \in Seq(Nat) /\ Len(f) = Len(e) + Len(q)
        /\ \A j \in 1 .. Len(e) : f[j] = e[j]
        /\ \A j \in 1 .. Len(q) : f[Len(e) + j] = q[j]
        /\ ToSet(f) = ToSet(e) \cup ToSet(q)
    BY <1>1, <1>2, Concat
  <2>2. QED
    BY <2>1, <1>1
<1> HIDE DEF e, f
<1>6. DOMAIN e = 1 .. Len(e) /\ DOMAIN f = 1 .. Len(e) + k /\ DOMAIN q = 1 .. k
  BY <1>1, <1>2, <1>5
<1>7. \A j \in 1 .. Len(e) : f[j] <= n /\ f[j] \in Nat
  <2>1. TAKE j \in 1 .. Len(e)
  <2>2. e[j] \in ToSet(e)
    BY <1>6 DEF ToSet
  <2>3. QED
    BY <2>2, <1>3, <1>5
<1>8. \A j \in 1 .. k : f[Len(e) + j] = n + j
  BY <1>1, <1>5
<1>9. Increasing(f)
  <2>1. ASSUME NEW x \in 1 .. Len(e) + k, NEW y \in 1 .. Len(e) + k, x < y PROVE f[x] < f[y]
    <3>1. CASE y <= Len(e)
      <4>1. x \in 1 .. Len(e) /\ y \in 1 .. Len(e)
        BY <2>1, <3>1, <1>2
      <4>2. e[x] < e[y]
        BY <4>1, <2>1, <1>3, <1>6 DEF Increasing
      <4>3. QED
        BY <4>1, <4>2, <1>5
    <3>2. CASE x <= Len(e) /\ y > Len(e)
      <4>1. x \in 1 .. Len(e) /\ y - Len(e) \in 1 .. k /\ Len(e) + (y - Len(e)) = y
        BY <3>2, <1>2
      <4>2. f[y] = n + (y - Len(e)) /\ f[x] <= n /\ f[x] \in Nat
        BY <4>1, <1>7, <1>8
      <4>3. QED
        BY <4>1, <4>2
    <3>3. CASE x > Len(e)
      <4>1. /\ x - Len(e) \in 1 .. k /\ Len(e) + (x - Len(e)) = x
            /\ y - Len(e) \in 1 .. k /\ Len(e) + (y - Len(e)) = y
        BY <2>1, <3>3, <1>2
      <4>2. f[y] = n + (y - Len(e)) /\ f[x] = n + (x - Len(e))
        BY <4>1, <1>8
      <4>3. QED
        BY <4>2, <2>1, <1>2
    <3>4. QED
      BY <3>1, <3>2, <3>3, <1>2
  <2>2. QED
    BY <2>1, <1>6 DEF Increasing
<1>10. ToSet(q) = n + 1 .. n + k
  <2>1. ASSUME NEW x \in ToSet(q) PROVE x \in n + 1 .. n + k
    <3>1. PICK j \in 1 .. k : x = q[j]
      BY <1>6 DEF ToSet
    <3>2. QED
      BY <3>1, <1>1
  <2>2. ASSUME NEW x \in n + 1 .. n + k PROVE x \in ToSet(q)
    <3>1. x - n \in 1 .. k /\ n + (x - n) = x
      OBVIOUS
    <3>2. q[x - n] = x
      BY <3>1, <1>1
    <3>3. QED
      BY <3>1, <3>2, <1>6 DEF ToSet
  <2>3. QED
    BY <2>1, <2>2
<1>11. ToSet(f) \cup a = 1 .. n + k
  <2>1. ToSet(f) \cup a = (1 .. n) \cup (n + 1 .. n + k)
    BY <1>3, <1>5, <1>10
  <2>2. QED
    BY <2>1
<1>12. ToSet(f) \cap a = {}
  <2>1. a \cap (n + 1 .. n + k) = {}
    <3>1. a \subseteq 1 .. n
      BY <1>3
    <3>2. QED
      BY <3>1
  <2>2. QED
    BY <2>1, <1>3, <1>5, <1>10
<1>13. QED
  BY <1>4, <1>9, <1>11, <1>12 DEF Keeps

\* What continues the units kept so far is written behind an empty buffer.
LEMMA KeepsWritten ==
  ASSUME NEW d \in Seq(Nat), NEW a, NEW n \in Nat, NEW k \in Nat,
         NEW q, Keeps(d, <<>>, a, n), Continues(q, n, k)
  PROVE  d \o q \in Seq(Nat) /\ Keeps(d \o q, <<>>, a, n + k)
<1>1. q \in Seq(Nat) /\ <<>> \in Seq(Nat)
  BY DEF Continues
<1>2. <<>> \o q = q
  BY <1>1, ConcatNothing
<1>3. Keeps(d, <<>> \o q, a, n + k)
  BY <1>1, KeepsBuffered
<1>4. Keeps(d \o q, <<>>, a, n + k)
  BY <1>1, <1>2, <1>3, KeepsFlushed
<1>5. QED
  BY <1>1, <1>4, Concat
-----------------------------------------------------------------------------
(***************************************************************************)
(* LogFile and FileUtil.                                                   *)
(***************************************************************************)
FileType ==
  [buf : [Threads -> Seq(Nat)], len : Nat, disk : [Threads -> Seq(Nat)],
   written : Nat, count : Nat, away : [Threads -> SUBSET Nat]]

\* Two files: what was on the disk of the first, or lost with it, still is.
Grows(f, g) ==
  \A u \in Threads : ToSet(f.disk[u]) \subseteq ToSet(g.disk[u]) /\ f.away[u] \subseteq g.away[u]

\* What is kept, in terms of the two sequences.
LEMMA KeptIs ==
  ASSUME NEW f, NEW u, NEW n
  PROVE  Kept(f, u, n) <=> Keeps(f.disk[u], f.buf[u], f.away[u], n)
BY DEF Kept, Keeps, Passed

\* The sums of lengths stay numbers.
LEMMA LongerType == \A s, k \in Nat : Longer(s, k) \in Nat
BY LoggingAssumption DEF Longer

\* FileUtil::flush keeps what is kept and empties the buffer.
LEMMA FlushedKeeps ==
  ASSUME NEW f \in FileType
  PROVE  /\ Flushed(f) \in FileType /\ Grows(f, Flushed(f))
         /\ \A u \in Threads : Flushed(f).buf[u] = <<>> /\ Flushed(f).away[u] = f.away[u]
         /\ \A u \in Threads, n \in Nat : Kept(f, u, n) => Kept(Flushed(f), u, n)
<1> DEFINE D == [t \in Threads |-> f.disk[t] \o f.buf[t]]
<1>1. /\ f.buf \in [Threads -> Seq(Nat)] /\ f.disk \in [Threads -> Seq(Nat)]
      /\ f.len \in Nat /\ f.written \in Nat /\ f.count \in Nat /\ f.away \in [Threads -> SUBSET Nat]
  BY DEF FileType
<1>2. \A u \in Threads : f.disk[u] \in Seq(Nat) /\ f.buf[u] \in Seq(Nat)
  BY <1>1
<1>3. \A u \in Threads : D[u] = f.disk[u] \o f.buf[u] /\ D[u] \in Seq(Nat)
                         /\ ToSet(f.disk[u]) \subseteq ToSet(D[u])
  <2>1. TAKE u \in Threads
  <2>2. f.disk[u] \in Seq(Nat) /\ f.buf[u] \in Seq(Nat) /\ D[u] = f.disk[u] \o f.buf[u]
    BY <1>2
  <2>3. /\ f.disk[u] \o f.buf[u] \in Seq(Nat)
        /\ ToSet(f.disk[u] \o f.buf[u]) = ToSet(f.disk[u]) \cup ToSet(f.buf[u])
    BY <2>2, Concat
  <2>4. QED
    BY <2>2, <2>3
<1>4. D \in [Threads -> Seq(Nat)]
  BY <1>3
<1> HIDE DEF D
<1>5. Nowhere \in [Threads -> Seq(Nat)] /\ \A u \in Threads : Nowhere[u] = <<>>
  BY DEF Nowhere
<1>6. Longer(f.written, f.len) \in Nat
  BY <1>1, LongerType
<1>7. Flushed(f) = [f EXCEPT !.disk = D, !.written = Longer(f.written, f.len), !.buf = Nowhere, !.len = 0]
  BY DEF Flushed, D
<1>8. /\ Flushed(f) \in FileType
      /\ Flushed(f).disk = D /\ Flushed(f).buf = Nowhere /\ Flushed(f).away = f.away
  <2>1. PICK w \in Nat : w = Longer(f.written, f.len)
    BY <1>6
  <2>2. Flushed(f) = [f EXCEPT !.disk = D, !.written = w, !.buf = Nowhere, !.len = 0]
    BY <1>7, <2>1
  <2>3. PICK d \in [Threads -> Seq(Nat)] : d = D
    BY <1>4
  <2>4. PICK b \in [Threads -> Seq(Nat)] : b = Nowhere
    BY <1>5
  <2>5. PICK g : g = [f EXCEPT !.disk = d, !.written = w, !.buf = b, !.len = 0]
    OBVIOUS
  <2>6. g \in FileType /\ g.disk = d /\ g.buf = b /\ g.away = f.away
    BY <2>5 DEF FileType
  <2>7. Flushed(f) = g
    BY <2>2, <2>3, <2>4, <2>5
  <2>8. QED
    BY <2>3, <2>4, <2>6, <2>7
<1>9. ASSUME NEW u \in Threads, NEW n \in Nat, Kept(f, u, n) PROVE Kept(Flushed(f), u, n)
  <2>1. Keeps(f.disk[u], f.buf[u], f.away[u], n)
    BY <1>9, KeptIs
  <2>2. Keeps(f.disk[u] \o f.buf[u], <<>>, f.away[u], n)
    BY <2>1, <1>2, KeepsFlushed
  <2>3. Keeps(Flushed(f).disk[u], Flushed(f).buf[u], Flushed(f).away[u], n)
    BY <2>2, <1>3, <1>5, <1>8
  <2>4. QED
    BY <2>3, KeptIs
<1>10. Grows(f, Flushed(f))
  BY <1>3, <1>8 DEF Grows
<1>11. QED
  BY <1>5, <1>8, <1>9, <1>10

\* rollFile keeps what is kept, or marks it as lost.
LEMMA RolledKeeps ==
  ASSUME NEW f \in FileType
  PROVE  /\ Rolled(f) \in FileType /\ Grows(f, Rolled(f))
         /\ \A u \in Threads, n \in Nat : Kept(f, u, n) => Kept(Rolled(f), u, n)
<1> DEFINE A == [t \in Threads |-> f.away[t] \cup ToSet(f.buf[t])]
<1>1. /\ f.buf \in [Threads -> Seq(Nat)] /\ f.disk \in [Threads -> Seq(Nat)]
      /\ f.len \in Nat /\ f.written \in Nat /\ f.count \in Nat /\ f.away \in [Threads -> SUBSET Nat]
  BY DEF FileType
<1>2. \A u \in Threads : f.disk[u] \in Seq(Nat) /\ f.buf[u] \in Seq(Nat) /\ f.away[u] \subseteq Nat
  BY <1>1
<1>3. \A u \in Threads : A[u] = f.away[u] \cup ToSet(f.buf[u]) /\ A[u] \in SUBSET Nat
  <2>1. ASSUME NEW q \in Seq(Nat) PROVE ToSet(q) \subseteq Nat
    BY DEF ToSet
  <2>2. QED
    BY <2>1, <1>2
<1>4. A \in [Threads -> SUBSET Nat]
  BY <1>3
<1> HIDE DEF A
<1>5. Nowhere \in [Threads -> Seq(Nat)] /\ \A u \in Threads : Nowhere[u] = <<>>
  BY DEF Nowhere
<1>6. ASSUME NEW b \in [Threads -> Seq(Nat)],
             NEW g, g = [f EXCEPT !.buf = b, !.len = 0, !.written = 0]
      PROVE  g \in FileType /\ g.disk = f.disk /\ g.buf = b /\ g.away = f.away
  BY <1>6 DEF FileType
<1>7. /\ NewFile(f) \in FileType /\ NewFile(f).disk = f.disk
      /\ NewFile(f).buf = Nowhere /\ NewFile(f).away = f.away
  BY <1>5, <1>6 DEF NewFile
<1>8. ASSUME NEW h \in FileType, NEW a \in [Threads -> SUBSET Nat], NEW g, g = [h EXCEPT !.away = a]
      PROVE  g \in FileType /\ g.disk = h.disk /\ g.buf = h.buf /\ g.away = a
  BY <1>8 DEF FileType
<1>9. /\ Rolled(f) \in FileType
      /\ Rolled(f).disk = f.disk /\ Rolled(f).buf = Nowhere /\ Rolled(f).away = A
  <2>1. Rolled(f) = [NewFile(f) EXCEPT !.away = A]
    BY <1>7, Zenon DEF Rolled, A
  <2>2. QED
    BY <2>1, <1>8, <1>4, <1>7
<1>10. ASSUME NEW u \in Threads, NEW n \in Nat, Kept(f, u, n) PROVE Kept(Rolled(f), u, n)
  <2>1. Keeps(f.disk[u], f.buf[u], f.away[u], n)
    BY <1>10, KeptIs
  <2>2. Keeps(f.disk[u], <<>>, f.away[u] \cup ToSet(f.buf[u]), n)
    BY <2>1, <1>2, KeepsRolled
  <2>3. Keeps(Rolled(f).disk[u], Rolled(f).buf[u], Rolled(f).away[u], n)
    BY <2>2, <1>3, <1>5, <1>9
  <2>4. QED
    BY <2>3, KeptIs
<1>11. Grows(f, Rolled(f))
  BY <1>3, <1>9 DEF Grows
<1>12. QED
  BY <1>9, <1>10, <1>11

\* What a run of units adds to thread u.
Piece(t, units, u) == IF u = t THEN units ELSE <<>>

\* Nothing continues whatever there is.
LEMMA ContinuesNothing ==
  ASSUME NEW n \in Nat, NEW k \in Nat, Continues(<<>>, n, k)
  PROVE  n + k = n
BY DEF Continues

\* The file g is what appending a run of thread t's units makes of the file f.
Gained(f, g, t, units) ==
  /\ g \in FileType /\ Grows(f, g)
  /\ \A u \in Threads, n, k \in Nat :
       Kept(f, u, n) /\ Continues(Piece(t, units, u), n, k) => Kept(g, u, n + k)

\* FileUtil::append, when the data goes into the buffer.
LEMMA BufferedKeeps ==
  ASSUME NEW f \in FileType, NEW t \in Threads, NEW units \in Seq(Nat), NEW length \in Nat,
         NEW g, g = [f EXCEPT !.buf[t] = @ \o units, !.len = @ + length]
  PROVE  Gained(f, g, t, units)
<1> DEFINE B == [f.buf EXCEPT ![t] = f.buf[t] \o units]
<1>1. /\ f.buf \in [Threads -> Seq(Nat)] /\ f.disk \in [Threads -> Seq(Nat)]
      /\ f.len \in Nat /\ f.away \in [Threads -> SUBSET Nat]
  BY DEF FileType
<1>2. f.buf[t] \in Seq(Nat) /\ f.disk[t] \in Seq(Nat) /\ f.buf[t] \o units \in Seq(Nat)
  BY <1>1
<1>3. /\ B \in [Threads -> Seq(Nat)] /\ B[t] = f.buf[t] \o units
      /\ \A u \in Threads : u # t => B[u] = f.buf[u]
  BY <1>1, <1>2
<1>4. g \in FileType /\ g.disk = f.disk /\ g.buf = B /\ g.away = f.away
  <2>1. PICK b \in [Threads -> Seq(Nat)] : b = B
    BY <1>3
  <2>2. PICK l \in Nat : l = f.len + length
    BY <1>1
  <2>3. g = [f EXCEPT !.buf = b, !.len = l]
    BY <2>1, <2>2 DEF FileType
  <2>4. g \in FileType /\ g.disk = f.disk /\ g.buf = b /\ g.away = f.away
    BY <2>3 DEF FileType
  <2>5. QED
    BY <2>1, <2>4
<1> HIDE DEF B
<1>5. Grows(f, g)
  BY <1>4 DEF Grows
<1>6. ASSUME NEW u \in Threads, NEW n \in Nat, NEW k \in Nat,
             Kept(f, u, n), Continues(Piece(t, units, u), n, k)
      PROVE  Kept(g, u, n + k)
  <2>1. Keeps(f.disk[u], f.buf[u], f.away[u], n)
    BY <1>6, KeptIs
  <2>2. CASE u = t
    <3>1. Continues(units, n, k)
      BY <1>6, <2>2 DEF Piece
    <3>2. Keeps(f.disk[t], f.buf[t] \o units, f.away[t], n + k)
      BY <2>1, <2>2, <3>1, <1>2, KeepsBuffered
    <3>3. Keeps(g.disk[t], g.buf[t], g.away[t], n + k)
      BY <3>2, <1>3, <1>4
    <3>4. QED
      BY <2>2, <3>3, KeptIs
  <2>3. CASE u # t
    <3>1. n + k = n
      BY <1>6, <2>3, ContinuesNothing DEF Piece
    <3>2. Keeps(g.disk[u], g.buf[u], g.away[u], n)
      BY <2>1, <2>3, <1>3, <1>4
    <3>3. QED
      BY <3>1, <3>2, KeptIs
  <2>4. QED
    BY <2>2, <2>3
<1>7. QED
  BY <1>4, <1>5, <1>6 DEF Gained

\* FileUtil::append, when the data is written behind an empty buffer.
LEMMA WrittenKeeps ==
  ASSUME NEW f \in FileType, \A u \in Threads : f.buf[u] = <<>>,
         NEW t \in Threads, NEW units \in Seq(Nat), NEW length \in Nat
  PROVE  Gained(f, WriteOut(f, t, units, length), t, units)
<1> DEFINE D == [f.disk EXCEPT ![t] = f.disk[t] \o units]
<1>1. /\ f.buf \in [Threads -> Seq(Nat)] /\ f.disk \in [Threads -> Seq(Nat)]
      /\ f.written \in Nat /\ f.away \in [Threads -> SUBSET Nat]
  BY DEF FileType
<1>2. /\ f.disk[t] \in Seq(Nat) /\ f.disk[t] \o units \in Seq(Nat)
      /\ ToSet(f.disk[t]) \subseteq ToSet(f.disk[t] \o units)
  <2>1. f.disk[t] \in Seq(Nat)
    BY <1>1
  <2>2. QED
    BY <2>1, Concat
<1>3. /\ D \in [Threads -> Seq(Nat)] /\ D[t] = f.disk[t] \o units
      /\ \A u \in Threads : u # t => D[u] = f.disk[u]
  BY <1>1, <1>2
<1>4. PICK g : g = WriteOut(f, t, units, length)
  OBVIOUS
<1>5. g \in FileType /\ g.disk = D /\ g.buf = f.buf /\ g.away = f.away
  <2>1. PICK d \in [Threads -> Seq(Nat)] : d = D
    BY <1>3
  <2>2. PICK w \in Nat : w = Longer(f.written, length)
    BY <1>1, LongerType
  <2>3. g = [f EXCEPT !.disk = d, !.written = w]
    BY <1>4, <2>1, <2>2 DEF FileType, WriteOut
  <2>4. g \in FileType /\ g.disk = d /\ g.buf = f.buf /\ g.away = f.away
    BY <2>3 DEF FileType
  <2>5. QED
    BY <2>1, <2>4
<1> HIDE DEF D
<1>6. Grows(f, g)
  <2>1. ASSUME NEW u \in Threads PROVE ToSet(f.disk[u]) \subseteq ToSet(g.disk[u])
    BY <1>2, <1>3, <1>5
  <2>2. QED
    BY <2>1, <1>5 DEF Grows
<1>7. ASSUME NEW u \in Threads, NEW n \in Nat, NEW k \in Nat,
             Kept(f, u, n), Continues(Piece(t, units, u), n, k)
      PROVE  Kept(g, u, n + k)
  <2>1. Keeps(f.disk[u], <<>>, f.away[u], n)
    BY <1>7, KeptIs
  <2>2. CASE u = t
    <3>1. Continues(units, n, k)
      BY <1>7, <2>2 DEF Piece
    <3>2. Keeps(f.disk[t] \o units, <<>>, f.away[t], n + k)
      BY <2>1, <2>2, <3>1, <1>2, KeepsWritten
    <3>3. Keeps(g.disk[t], g.buf[t], g.away[t], n + k)
      BY <3>2, <1>3, <1>5
    <3>4. QED
      BY <2>2, <3>3, KeptIs
  <2>3. CASE u # t
    <3>1. n + k = n
      BY <1>7, <2>3, ContinuesNothing DEF Piece
    <3>2. Keeps(g.disk[u], g.buf[u], g.away[u], n)
      BY <2>1, <2>3, <1>3, <1>5
    <3>3. QED
      BY <3>1, <3>2, KeptIs
  <2>4. QED
    BY <2>2, <2>3
<1>8. QED
  BY <1>4, <1>5, <1>6, <1>7 DEF Gained

\* A file may be flushed before units are added.
LEMMA AddedAfter ==
  ASSUME NEW f \in FileType, NEW g, NEW h, NEW t \in Threads, NEW units,
         Grows(f, g), Gained(g, h, t, units),
         \A u \in Threads, n \in Nat : Kept(f, u, n) => Kept(g, u, n)
  PROVE  Gained(f, h, t, units)
BY Zenon DEF Gained, Grows

\* A file may be flushed or rolled after units are added.
LEMMA AddedBefore ==
  ASSUME NEW f \in FileType, NEW g, NEW h \in FileType, NEW t \in Threads, NEW units,
         Gained(f, g, t, units), Grows(g, h),
         \A u \in Threads, n \in Nat : Kept(g, u, n) => Kept(h, u, n)
  PROVE  Gained(f, h, t, units)
<1>1. Grows(f, h)
  BY DEF Gained, Grows
<1>2. ASSUME NEW u \in Threads, NEW n \in Nat, NEW k \in Nat,
             Kept(f, u, n), Continues(Piece(t, units, u), n, k)
      PROVE  Kept(h, u, n + k)
  <2>1. Kept(g, u, n + k) /\ n + k \in Nat
    BY <1>2 DEF Gained
  <2>2. QED
    BY <2>1
<1>3. QED
  BY <1>1, <1>2 DEF Gained

\* FileUtil::append.
LEMMA AddedKeeps ==
  ASSUME NEW f \in FileType, NEW t \in Threads, NEW units \in Seq(Nat), NEW length \in Nat
  PROVE  Gained(f, Added(f, t, units, length), t, units)
<1> DEFINE F == Flushed(f)
           Into(g) == [g EXCEPT !.buf[t] = @ \o units, !.len = @ + length]
<1>1. /\ F \in FileType /\ Grows(f, F)
      /\ \A u \in Threads : F.buf[u] = <<>>
      /\ \A u \in Threads, n \in Nat : Kept(f, u, n) => Kept(F, u, n)
  BY FlushedKeeps
<1>2. Gained(f, WriteOut(F, t, units, length), t, units)
  <2>1. Gained(F, WriteOut(F, t, units, length), t, units)
    BY <1>1, WrittenKeeps
  <2>2. QED
    BY <2>1, <1>1, AddedAfter
<1>3. Gained(f, Into(F), t, units)
  <2>1. Gained(F, Into(F), t, units)
    BY <1>1, BufferedKeeps
  <2>2. QED
    BY <2>1, <1>1, AddedAfter
<1>4. Gained(f, Into(f), t, units)
  BY BufferedKeeps
<1>5. \/ Added(f, t, units, length) = WriteOut(F, t, units, length)
      \/ Added(f, t, units, length) = Into(F)
      \/ Added(f, t, units, length) = Into(f)
  BY Zenon DEF Added
<1>6. QED
  BY <1>2, <1>3, <1>4, <1>5, Zenon

\* LogFile::append, however it ends.
LEMMA AppendsKeep ==
  ASSUME NEW f \in FileType, NEW t \in Threads, NEW units \in Seq(Nat), NEW length \in Nat,
         NEW e \in Appends(f, t, units, length)
  PROVE  Gained(f, e, t, units)
<1>1. PICK g : g = Added(f, t, units, length)
  OBVIOUS
<1>2. Gained(f, g, t, units) /\ g \in FileType
  <2>1. Gained(f, g, t, units)
    BY <1>1, AddedKeeps
  <2>2. QED
    BY <2>1 DEF Gained
<1>3. PICK h : h = [g EXCEPT !.count = IF @ < CheckEveryN THEN @ + 1 ELSE @]
  OBVIOUS
<1>4. h \in FileType /\ h.disk = g.disk /\ h.buf = g.buf /\ h.away = g.away
  <2>1. g.count \in Nat
    BY <1>2 DEF FileType
  <2>2. PICK c \in Nat : c = IF g.count < CheckEveryN THEN g.count + 1 ELSE g.count
    BY <2>1
  <2>3. h = [g EXCEPT !.count = c]
    BY <1>3, <2>2
  <2>4. QED
    BY <2>3, <1>2 DEF FileType
<1>5. Gained(f, h, t, units)
  <2>1. Grows(g, h) /\ \A u \in Threads, n \in Nat : Kept(g, u, n) => Kept(h, u, n)
    BY <1>4 DEF Grows, Kept, Passed
  <2>2. QED
    BY <2>1, <1>2, <1>4, AddedBefore
<1>6. \A d \in FileType : Gained(f, d, t, units) => Gained(f, Rolled(d), t, units)
  <2>1. TAKE d \in FileType
  <2>2. HAVE Gained(f, d, t, units)
  <2>3. QED
    BY <2>2, RolledKeeps, AddedBefore
<1>7. Gained(f, Flushed(h), t, units)
  BY <1>4, <1>5, FlushedKeeps, AddedBefore
<1>8. e \in {Rolled(g), h, Rolled(h), Flushed(h)}
  BY <1>1, <1>3, Zenon DEF Appends
<1>9. QED
  BY <1>2, <1>4, <1>5, <1>6, <1>7, <1>8

-----------------------------------------------------------------------------
(***************************************************************************)
(* The inductive invariant.  What the backend reads from a ring is what    *)
(* the thread wrote only as long as nothing that is not taken yet is       *)
(* overwritten: the units from head to tail are in their places.           *)
(***************************************************************************)
Types ==
  /\ pc \in [Threads -> {"idle", "dirty", "write", "flush", "gone"}]
  /\ registered \subseteq Threads /\ dead \subseteq Threads
  /\ mem \in [Threads -> [0 .. Capacity - 1 -> Nat]]
  /\ head \in [Threads -> Nat] /\ tail \in [Threads -> Nat]
  /\ dropCount \in [Threads -> Nat] /\ dropped \in [Threads -> Nat] /\ reported \in [Threads -> Nat]
  /\ size \in [Threads -> Nat] /\ target \in [Threads -> Nat]
  /\ before \in [Threads -> [Threads -> Nat]]
  /\ buffers \in Seq(Threads) /\ local \in Seq(Threads)
  /\ reqSeq \in Nat /\ doneSeq \in Nat
  /\ bpc \in {"top", "node", "part", "release", "dead", "seq", "ended"}
  /\ i \in Nat \ {0} /\ seen \in Nat /\ pos \in Nat
  /\ file \in FileType

\* The ring of thread t holds what it wrote and the backend has not released, and has
\* room for the record it is about to write.
RingHolds(t) ==
  /\ head[t] <= tail[t] /\ tail[t] - head[t] <= Capacity
  /\ \A k \in head[t] + 1 .. tail[t] : mem[t][(k - 1) % Capacity] = k
  /\ pc[t] \in {"dirty", "write"} => tail[t] + size[t] - head[t] <= Capacity
  /\ t \notin registered => head[t] = tail[t] /\ pc[t] \notin {"dirty", "write"}

\* Where the backend stands in the ring it reads.
BackendAt ==
  /\ bpc \in {"part", "release", "dead"} => i \in 1 .. Len(local)
  /\ bpc \in {"part", "release"} =>
       /\ head[local[i]] <= pos /\ pos <= seen /\ seen <= tail[local[i]]
       /\ bpc = "part" => pos < seen
       /\ bpc = "release" => pos = seen

\* A request for a flush that is answered is covered.
Answered(t) ==
  /\ target[t] <= reqSeq
  /\ \A u \in Threads : /\ before[t][u] <= head[u]
                        /\ target[t] <= doneSeq => Written(file, u, before[t][u])

LogInv ==
  /\ Types /\ BackendAt /\ doneSeq <= reqSeq
  /\ \A t \in Threads : RingHolds(t)
  /\ \A t \in Threads : Answered(t)
  /\ RecordsKept

\* RemoveAt takes nothing but that position out.
LEMMA RemoveAtKeeps ==
  ASSUME NEW S, NEW q \in Seq(S), NEW k \in 1 .. Len(q)
  PROVE  RemoveAt(q, k) \in Seq(S) /\ ToSet(q) \ {q[k]} \subseteq ToSet(RemoveAt(q, k))
<1> DEFINE p == SubSeq(q, 1, k - 1)
           r == SubSeq(q, k + 1, Len(q))
<1>1. PICK n \in Nat : n = Len(q) /\ DOMAIN q = 1 .. n
  OBVIOUS
<1>2. p \in Seq(S) /\ Len(p) = k - 1 /\ \A j \in 1 .. k - 1 : p[j] = q[j]
  OBVIOUS
<1>3. r \in Seq(S) /\ Len(r) = n - k /\ \A j \in 1 .. n - k : r[j] = q[k + j]
  <2>1. r \in Seq(S) /\ Len(r) = n - k
    BY <1>1
  <2>2. ASSUME NEW j \in 1 .. n - k PROVE r[j] = q[k + j]
    <3>1. r[j] = q[(k + 1) + j - 1]
      BY <1>1
    <3>2. (k + 1) + j - 1 = k + j
      OBVIOUS
    <3>3. QED
      BY <3>1, <3>2
  <2>3. QED
    BY <2>1, <2>2
<1>4. RemoveAt(q, k) = p \o r
  BY DEF RemoveAt
<1> HIDE DEF p, r
<1>5. /\ p \o r \in Seq(S) /\ Len(p \o r) = (k - 1) + (n - k)
      /\ \A j \in 1 .. k - 1 : (p \o r)[j] = p[j]
      /\ \A j \in 1 .. n - k : (p \o r)[(k - 1) + j] = r[j]
  <2>1. \A a, b \in Seq(S) : /\ a \o b \in Seq(S) /\ Len(a \o b) = Len(a) + Len(b)
                             /\ \A j \in 1 .. Len(a) : (a \o b)[j] = a[j]
                             /\ \A j \in 1 .. Len(b) : (a \o b)[Len(a) + j] = b[j]
    OBVIOUS
  <2>2. p \in Seq(S) /\ r \in Seq(S) /\ Len(p) = k - 1 /\ Len(r) = n - k
    BY <1>2, <1>3
  <2>3. /\ p \o r \in Seq(S) /\ Len(p \o r) = Len(p) + Len(r)
        /\ \A j \in 1 .. Len(p) : (p \o r)[j] = p[j]
        /\ \A j \in 1 .. Len(r) : (p \o r)[Len(p) + j] = r[j]
    BY <2>1, <2>2
  <2>4. QED
    BY <2>2, <2>3
<1>6. DOMAIN (p \o r) = 1 .. n - 1
  <2>1. (k - 1) + (n - k) = n - 1
    BY <1>1
  <2>2. QED
    BY <2>1, <1>5
<1>7. ASSUME NEW x \in ToSet(q), x # q[k] PROVE x \in ToSet(p \o r)
  <2>1. PICK j \in 1 .. n : x = q[j]
    BY <1>1 DEF ToSet
  <2>2. CASE j < k
    <3>1. j \in 1 .. k - 1 /\ j \in 1 .. n - 1
      BY <1>1, <2>2
    <3>2. (p \o r)[j] = x
      BY <3>1, <2>1, <1>2, <1>5
    <3>3. QED
      BY <3>1, <3>2, <1>6 DEF ToSet
  <2>3. CASE j > k
    <3>1. j - k \in 1 .. n - k /\ (k - 1) + (j - k) \in 1 .. n - 1 /\ k + (j - k) = j
      BY <1>1, <2>3
    <3>2. (p \o r)[(k - 1) + (j - k)] = x
      BY <3>1, <2>1, <1>3, <1>5
    <3>3. QED
      BY <3>1, <3>2, <1>6 DEF ToSet
  <2>4. j # k
    BY <1>7, <2>1
  <2>5. QED
    BY <2>2, <2>3, <2>4
<1>8. QED
  BY <1>4, <1>5, <1>7

\* std::erase takes out nothing but that thread.
LEMMA WithoutKeeps ==
  ASSUME NEW S, NEW q \in Seq(S), NEW t
  PROVE  Without(q, t) \in Seq(S) /\ ToSet(q) \ {t} \subseteq ToSet(Without(q, t))
<1>1. CASE t \in ToSet(q)
  <2>1. \E k \in DOMAIN q : q[k] = t
    BY <1>1 DEF ToSet
  <2>2. PICK k : k = CHOOSE j \in DOMAIN q : q[j] = t
    OBVIOUS
  <2>3. k \in 1 .. Len(q) /\ q[k] = t
    BY <2>1, <2>2
  <2>4. Without(q, t) = RemoveAt(q, k)
    BY <1>1, <2>2, Zenon DEF Without
  <2>5. RemoveAt(q, k) \in Seq(S) /\ ToSet(q) \ {q[k]} \subseteq ToSet(RemoveAt(q, k))
    BY <2>3, RemoveAtKeeps
  <2>6. QED
    BY <2>3, <2>4, <2>5
<1>2. CASE t \notin ToSet(q)
  BY <1>2 DEF Without
<1>3. QED
  BY <1>1, <1>2

\* What is written stays written.
LEMMA WrittenGrows ==
  ASSUME NEW f, NEW g, NEW u \in Threads, NEW n, Grows(f, g), Written(f, u, n)
  PROVE  Written(g, u, n)
BY DEF Grows, Written

\* With an empty buffer all that is kept is written.
LEMMA KeptIsWritten ==
  ASSUME NEW f \in FileType, NEW u \in Threads, NEW n \in Nat, NEW m \in Nat,
         Kept(f, u, n), f.buf[u] = <<>>, m <= n
  PROVE  Written(f, u, m)
<1>1. f.disk[u] \in Seq(Nat)
  BY DEF FileType
<1>2. Passed(f, u) = f.disk[u]
  BY <1>1, ConcatNothing DEF Passed
<1>3. 1 .. n \subseteq ToSet(f.disk[u]) \cup f.away[u]
  BY <1>2 DEF Kept
<1>4. 1 .. m \subseteq 1 .. n
  OBVIOUS
<1>5. QED
  BY <1>3, <1>4 DEF Written

(***************************************************************************)
(* RecordsKept, taken apart.                                               *)
(***************************************************************************)
FileKeeps == \A t \in Threads : Kept(file, t, Taken(t))
DropsCounted == \A t \in Threads : dropped[t] = dropCount[t] + reported[t]
DeadErased == \A t \in Threads : Erased(t) => t \in dead

\* The parts make up the invariant.
LEMMA RecordsKeptParts == RecordsKept <=> FileKeeps /\ DropsCounted /\ DeadErased
BY DEF RecordsKept, FileKeeps, DropsCounted, DeadErased

\* The same in the next state.
LEMMA RecordsKeptPartsNext == FileKeeps' /\ DropsCounted' /\ DeadErased' => RecordsKept'
BY DEF RecordsKept, FileKeeps, DropsCounted, DeadErased

\* The invariant holds in the beginning.
LEMMA InitLogInv == Init => LogInv
<1> SUFFICES ASSUME Init PROVE LogInv
  OBVIOUS
<1>1. file = [buf |-> Nowhere, len |-> 0, disk |-> Nowhere, written |-> 0, count |-> 0,
              away |-> [t \in Threads |-> {}]]
  BY DEF Init
<1>2. Nowhere \in [Threads -> Seq(Nat)] /\ \A u \in Threads : Nowhere[u] = <<>>
  BY DEF Nowhere
<1>3. file \in FileType
  BY <1>1, <1>2 DEF FileType
<1>4. Capacity \in Nat /\ Capacity > 0
  BY LoggingAssumption DEF Sizes
<1>5. Types
  BY <1>3, <1>4 DEF Init, Types
<1>6. BackendAt /\ doneSeq <= reqSeq
  BY DEF Init, BackendAt
<1>7. \A t \in Threads : RingHolds(t)
  BY <1>4 DEF Init, RingHolds
<1>8. \A t \in Threads : Answered(t)
  BY DEF Init, Answered, Written
<1>9. FileKeeps
  <2>1. SUFFICES ASSUME NEW t \in Threads PROVE Kept(file, t, Taken(t))
    BY DEF FileKeeps
  <2>2. Taken(t) = 0
    BY DEF Init, Taken
  <2>3. Passed(file, t) = <<>> /\ file.away[t] = {}
    BY <1>1, <1>2 DEF Passed
  <2>4. Increasing(<<>>) /\ ToSet(<<>>) = {}
    BY DEF Increasing, ToSet
  <2>5. QED
    BY <2>2, <2>3, <2>4 DEF Kept
<1>10. DropsCounted
  BY DEF Init, DropsCounted
<1>11. DeadErased
  BY DEF Init, DeadErased, Erased
<1>12. QED
  BY <1>5, <1>6, <1>7, <1>8, <1>9, <1>10, <1>11, RecordsKeptParts DEF LogInv

(***************************************************************************)
(* The logging threads.                                                    *)
(***************************************************************************)
\* What stands still while a thread logs.
LEMMA FrontFrame ==
  ASSUME LogInv, UNCHANGED <<file, backend, head>>,
         \A u \in Threads : tail'[u] \in Nat /\ tail[u] <= tail'[u]
  PROVE  BackendAt' /\ FileKeeps'
<1>1. BackendAt /\ FileKeeps /\ Types
  BY RecordsKeptParts DEF LogInv
<1>2. bpc' = bpc /\ local' = local /\ i' = i /\ seen' = seen /\ pos' = pos /\ file' = file /\ head' = head
  BY DEF backend
<1>3. BackendAt'
  <2>1. (bpc \in {"part", "release", "dead"} => i \in 1 .. Len(local))'
    BY <1>1, <1>2 DEF BackendAt
  <2>2. ASSUME bpc \in {"part", "release"} PROVE seen <= tail'[local[i]]
    <3>1. local[i] \in Threads
      BY <1>1, <2>2 DEF BackendAt, Types
    <3>2. seen <= tail[local[i]] /\ seen \in Nat /\ tail[local[i]] \in Nat
      BY <1>1, <2>2, <3>1 DEF BackendAt, Types
    <3>3. tail'[local[i]] \in Nat /\ tail[local[i]] <= tail'[local[i]]
      BY <3>1
    <3>4. QED
      BY <3>2, <3>3
  <2>3. QED
    BY <1>1, <1>2, <2>1, <2>2 DEF BackendAt
<1>4. FileKeeps'
  <2>1. \A t \in Threads : Taken(t)' = Taken(t)
    BY <1>2 DEF Taken
  <2>2. QED
    BY <1>1, <1>2, <2>1 DEF FileKeeps, Kept, Passed
<1>5. QED
  BY <1>3, <1>4

\* Logger::~Logger and ThreadLocalBuffer::push, up to where the record is copied.
LEMMA LogStep ==
  ASSUME LogInv, NEW t \in Threads, NEW n \in Sizes, Log(t, n)
  PROVE  LogInv'
<1>1. /\ UNCHANGED <<dead, target, reqSeq, before, mem, head, tail, dirty, file, backend, globals>>
      /\ pc[t] = "idle"
  BY DEF Log
<1>2. /\ bpc' = bpc /\ local' = local /\ i' = i /\ seen' = seen /\ pos' = pos
      /\ doneSeq' = doneSeq /\ reported' = reported
  BY <1>1 DEF backend, globals
<1>3. Types /\ BackendAt /\ doneSeq <= reqSeq /\ FileKeeps /\ DropsCounted /\ DeadErased
  BY RecordsKeptParts DEF LogInv
<1>4. n \in Nat /\ n <= Capacity /\ Capacity \in Nat
  BY LoggingAssumption DEF Sizes
<1>5. \A u \in Threads : tail'[u] \in Nat /\ tail[u] <= tail'[u] /\ tail[u] \in Nat /\ head[u] \in Nat
  BY <1>1, <1>3 DEF Types
<1>6. /\ pc' = [pc EXCEPT ![t] = IF t \notin registered THEN "dirty" ELSE IF Fits(t, n) THEN "write" ELSE "idle"]
      /\ pc \in [Threads -> {"idle", "dirty", "write", "flush", "gone"}]
  BY <1>3 DEF Log, Goto, Types
<1>7. /\ dropCount \in [Threads -> Nat] /\ dropped \in [Threads -> Nat]
      /\ size \in [Threads -> Nat] /\ buffers \in Seq(Threads) /\ registered \subseteq Threads
      /\ reported \in [Threads -> Nat]
  BY <1>3 DEF Types
<1>8. /\ dropCount' \in [Threads -> Nat] /\ dropped' \in [Threads -> Nat] /\ size' \in [Threads -> Nat]
      /\ DropsCounted'
  <2>1. CASE Fits(t, n)
    BY <1>2, <1>3, <1>4, <1>7, <2>1 DEF Log, DropsCounted
  <2>2. CASE ~Fits(t, n)
    <3>1. /\ dropCount' = [dropCount EXCEPT ![t] = @ + 1] /\ dropped' = [dropped EXCEPT ![t] = @ + 1]
          /\ size' = size
      BY <2>2 DEF Log
    <3>2. \A u \in Threads : dropped'[u] = dropCount'[u] + reported'[u]
      BY <1>2, <1>3, <1>7, <3>1 DEF DropsCounted
    <3>3. QED
      BY <1>7, <3>1, <3>2 DEF DropsCounted
  <2>3. QED
    BY <2>1, <2>2
<1>9. registered' \subseteq Threads /\ buffers' \in Seq(Threads) /\ DeadErased'
  <2>1. CASE t \in registered
    <3>1. registered' = registered /\ buffers' = buffers
      BY <2>1 DEF Log
    <3>2. QED
      BY <3>1, <1>1, <1>3, <1>7 DEF DeadErased, Erased
  <2>2. CASE t \notin registered
    <3>1. registered' = registered \cup {t} /\ buffers' = Append(buffers, t)
      BY <2>2 DEF Log
    <3>2. /\ Append(buffers, t) \in Seq(Threads) /\ t \in ToSet(Append(buffers, t))
          /\ ToSet(buffers) \subseteq ToSet(Append(buffers, t))
      <4>1. /\ Len(buffers) \in Nat /\ DOMAIN buffers = 1 .. Len(buffers)
            /\ Append(buffers, t) \in Seq(Threads) /\ Len(Append(buffers, t)) = Len(buffers) + 1
            /\ Append(buffers, t)[Len(buffers) + 1] = t
            /\ \A k \in 1 .. Len(buffers) : Append(buffers, t)[k] = buffers[k]
        BY <1>7
      <4>2. DOMAIN Append(buffers, t) = 1 .. Len(buffers) + 1
        BY <4>1
      <4>3. Len(buffers) + 1 \in 1 .. Len(buffers) + 1 /\ \A k \in 1 .. Len(buffers) : k \in 1 .. Len(buffers) + 1
        BY <4>1
      <4>4. QED
        BY <4>1, <4>2, <4>3 DEF ToSet
    <3>3. \A u \in Threads : Erased(u)' => Erased(u)
      BY <3>1, <3>2 DEF Erased
    <3>4. QED
      BY <3>1, <3>2, <3>3, <1>1, <1>3, <1>7 DEF DeadErased
  <2>3. QED
    BY <2>1, <2>2
<1>10. Types'
  <2>1. pc' \in [Threads -> {"idle", "dirty", "write", "flush", "gone"}]
    BY <1>6
  <2>2. QED
    BY <1>1, <1>2, <1>3, <1>8, <1>9, <2>1 DEF Types
<1>11. \A u \in Threads : RingHolds(u)'
  <2>1. ASSUME NEW u \in Threads, pc'[u] \in {"dirty", "write"}
        PROVE  tail[u] + size'[u] - head[u] <= Capacity
    <3>1. CASE u # t
      <4>1. pc[u] \in {"dirty", "write"} /\ size'[u] = size[u]
        BY <1>6, <1>7, <2>1, <3>1 DEF Log
      <4>2. QED
        BY <4>1 DEF LogInv, RingHolds
    <3>2. CASE u = t /\ Fits(t, n)
      <4>1. size'[t] = n
        BY <1>7, <3>2 DEF Log
      <4>2. Capacity - (tail[t] - head[t]) >= n
        BY <3>2 DEF Fits
      <4>3. QED
        BY <1>4, <1>5, <3>2, <4>1, <4>2
    <3>3. CASE u = t /\ ~Fits(t, n)
      <4>1. t \in registered
        <5>1. t \notin registered => Capacity - (tail[t] - head[t]) >= n
          BY <1>4, <1>5 DEF LogInv, RingHolds
        <5>2. QED
          BY <3>3, <5>1 DEF Fits
      <4>2. pc'[t] = "idle"
        BY <1>6, <3>3, <4>1
      <4>3. QED
        BY <2>1, <3>3, <4>2
    <3>4. QED
      BY <3>1, <3>2, <3>3
  <2>2. ASSUME NEW u \in Threads, u \notin registered'
        PROVE  head[u] = tail[u] /\ pc'[u] \notin {"dirty", "write"}
    <3>1. u # t /\ u \notin registered
      BY <2>2 DEF Log
    <3>2. pc'[u] = pc[u]
      BY <1>6, <3>1
    <3>3. QED
      BY <3>1, <3>2 DEF LogInv, RingHolds
  <2>3. TAKE u \in Threads
  <2>4. /\ head[u] <= tail[u] /\ tail[u] - head[u] <= Capacity
        /\ \A k \in head[u] + 1 .. tail[u] : mem[u][(k - 1) % Capacity] = k
    BY DEF LogInv, RingHolds
  <2>5. QED
    BY <1>1, <2>1, <2>2, <2>4 DEF RingHolds
<1>12. \A u \in Threads : Answered(u)'
  <2>1. \A u \in Threads : Answered(u)
    BY DEF LogInv
  <2>2. QED
    BY <1>1, <1>2, <2>1 DEF Answered, Written
<1>13. BackendAt' /\ FileKeeps'
  BY <1>1, <1>5, FrontFrame
<1>14. (doneSeq <= reqSeq)'
  BY <1>1, <1>2, <1>3
<1>15. QED
  BY <1>8, <1>9, <1>10, <1>11, <1>12, <1>13, <1>14, RecordsKeptPartsNext DEF LogInv

\* A step of a thread that only moves its program counter, not into a write, and asks
\* for nothing.
LEMMA FrontMove ==
  ASSUME LogInv, NEW t \in Threads, NEW p \in {"idle", "write", "gone"},
         pc' = [pc EXCEPT ![t] = p], p = "write" => pc[t] = "dirty",
         dead \subseteq dead', dead' \subseteq Threads,
         UNCHANGED <<registered, size, target, reqSeq, before, ring, buffers, file, backend, globals>>
  PROVE  LogInv'
<1>1. /\ bpc' = bpc /\ local' = local /\ i' = i /\ seen' = seen /\ pos' = pos
      /\ doneSeq' = doneSeq /\ reported' = reported
      /\ mem' = mem /\ head' = head /\ tail' = tail /\ dropCount' = dropCount /\ dropped' = dropped
  BY DEF backend, globals, ring
<1>2. Types /\ BackendAt /\ doneSeq <= reqSeq /\ FileKeeps /\ DropsCounted /\ DeadErased
  BY RecordsKeptParts DEF LogInv
<1>3. pc \in [Threads -> {"idle", "dirty", "write", "flush", "gone"}]
  BY <1>2 DEF Types
<1>4. Types'
  <2>1. pc' \in [Threads -> {"idle", "dirty", "write", "flush", "gone"}]
    BY <1>3
  <2>2. QED
    BY <1>1, <1>2, <2>1 DEF Types
<1>5. \A u \in Threads : RingHolds(u)'
  <2>1. TAKE u \in Threads
  <2>2. pc'[u] \in {"dirty", "write"} => pc[u] \in {"dirty", "write"}
    BY <1>3
  <2>3. RingHolds(u)
    BY DEF LogInv
  <2>4. QED
    BY <1>1, <2>2, <2>3 DEF RingHolds
<1>6. \A u \in Threads : Answered(u)'
  <2>1. \A u \in Threads : Answered(u)
    BY DEF LogInv
  <2>2. QED
    BY <1>1, <2>1 DEF Answered, Written
<1>7. \A u \in Threads : tail'[u] \in Nat /\ tail[u] <= tail'[u]
  BY <1>1, <1>2 DEF Types
<1>8. BackendAt' /\ FileKeeps'
  BY <1>1, <1>7, FrontFrame
<1>9. DropsCounted' /\ DeadErased'
  BY <1>1, <1>2 DEF DropsCounted, DeadErased, Erased
<1>10. QED
  BY <1>1, <1>2, <1>4, <1>5, <1>6, <1>8, <1>9, RecordsKeptPartsNext DEF LogInv

\* registerThread marks the registry.
LEMMA MarkDirtyStep == ASSUME LogInv, NEW t \in Threads, MarkDirty(t) PROVE LogInv'
BY FrontMove DEF MarkDirty, Goto, LogInv, Types

\* ThreadExiter marks the node as dead.
LEMMA ExitStep == ASSUME LogInv, NEW t \in Threads, Exit(t) PROVE LogInv'
<1>1. dead \subseteq dead' /\ dead' \subseteq Threads
  BY DEF Exit, LogInv, Types
<1>2. UNCHANGED buffers
  BY DEF Exit, registry
<1>3. QED
  BY <1>1, <1>2, FrontMove DEF Exit, Goto

\* StopAsyncLogger changes nothing the invariant is about.
LEMMA RequestStopStep == ASSUME LogInv, RequestStop PROVE LogInv'
<1>1. UNCHANGED <<pc, registered, dead, size, target, reqSeq, before, ring, buffers, file, backend,
                  doneSeq, reported>>
  BY DEF RequestStop, frontend, registry
<1>2. /\ bpc' = bpc /\ local' = local /\ i' = i /\ seen' = seen /\ pos' = pos
      /\ mem' = mem /\ head' = head /\ tail' = tail /\ dropCount' = dropCount /\ dropped' = dropped
  BY <1>1 DEF backend, ring
<1>3. Types' /\ BackendAt' /\ (doneSeq <= reqSeq)'
  BY <1>1, <1>2 DEF LogInv, Types, BackendAt
<1>4. \A u \in Threads : RingHolds(u)' /\ Answered(u)'
  BY <1>1, <1>2 DEF LogInv, RingHolds, Answered, Written
<1>5. FileKeeps' /\ DropsCounted' /\ DeadErased'
  <2>1. FileKeeps /\ DropsCounted /\ DeadErased
    BY RecordsKeptParts DEF LogInv
  <2>2. \A t \in Threads : Taken(t)' = Taken(t)
    BY <1>1, <1>2 DEF Taken
  <2>3. QED
    BY <1>1, <1>2, <2>1, <2>2 DEF FileKeeps, Kept, Passed, DropsCounted, DeadErased, Erased
<1>6. QED
  BY <1>3, <1>4, <1>5, RecordsKeptPartsNext DEF LogInv

\* flush() asks: a new request is not answered yet.
LEMMA FlushStep == ASSUME LogInv, NEW t \in Threads, Flush(t) PROVE LogInv'
<1>1. /\ UNCHANGED <<registered, dead, size, ring, registry, file, backend, globals>>
      /\ pc[t] = "idle" /\ pc' = [pc EXCEPT ![t] = "flush"] /\ reqSeq' = reqSeq + 1
      /\ target' = [target EXCEPT ![t] = reqSeq'] /\ before' = [before EXCEPT ![t] = head]
  BY DEF Flush, Goto
<1>2. /\ bpc' = bpc /\ local' = local /\ i' = i /\ seen' = seen /\ pos' = pos
      /\ doneSeq' = doneSeq /\ reported' = reported /\ buffers' = buffers
      /\ mem' = mem /\ head' = head /\ tail' = tail /\ dropCount' = dropCount /\ dropped' = dropped
  BY <1>1 DEF backend, globals, ring, registry
<1>3. Types /\ BackendAt /\ doneSeq <= reqSeq /\ FileKeeps /\ DropsCounted /\ DeadErased
  BY RecordsKeptParts DEF LogInv
<1>4. /\ pc \in [Threads -> {"idle", "dirty", "write", "flush", "gone"}]
      /\ target \in [Threads -> Nat] /\ before \in [Threads -> [Threads -> Nat]]
      /\ head \in [Threads -> Nat] /\ reqSeq \in Nat /\ doneSeq \in Nat
  BY <1>3 DEF Types
<1>5. Types'
  <2>1. /\ pc' \in [Threads -> {"idle", "dirty", "write", "flush", "gone"}]
        /\ target' \in [Threads -> Nat] /\ before' \in [Threads -> [Threads -> Nat]] /\ reqSeq' \in Nat
    BY <1>1, <1>4
  <2>2. QED
    BY <1>1, <1>2, <1>3, <2>1 DEF Types
<1>6. \A u \in Threads : RingHolds(u)'
  <2>1. TAKE u \in Threads
  <2>2. pc'[u] \in {"dirty", "write"} => pc[u] \in {"dirty", "write"}
    BY <1>1, <1>4
  <2>3. RingHolds(u)
    BY DEF LogInv
  <2>4. QED
    BY <1>1, <1>2, <2>2, <2>3 DEF RingHolds
<1>7. \A u \in Threads : Answered(u)'
  <2>1. TAKE u \in Threads
  <2>2. CASE u = t
    <3>1. target'[t] = reqSeq + 1 /\ before'[t] = head
      BY <1>1, <1>4
    <3>2. ~(target'[t] <= doneSeq')
      BY <1>2, <1>3, <1>4, <3>1
    <3>3. \A w \in Threads : before'[t][w] <= head'[w]
      BY <1>2, <1>4, <3>1
    <3>4. QED
      BY <1>1, <1>4, <2>2, <3>1, <3>2, <3>3 DEF Answered
  <2>3. CASE u # t
    <3>1. target'[u] = target[u] /\ before'[u] = before[u] /\ target[u] \in Nat
      BY <1>1, <1>4, <2>3
    <3>2. Answered(u)
      BY DEF LogInv
    <3>3. target'[u] <= reqSeq'
      BY <1>1, <1>4, <3>1, <3>2 DEF Answered
    <3>4. QED
      BY <1>1, <1>2, <3>1, <3>2, <3>3 DEF Answered, Written
  <2>4. QED
    BY <2>2, <2>3
<1>8. BackendAt' /\ FileKeeps'
  <2>1. \A u \in Threads : tail'[u] \in Nat /\ tail[u] <= tail'[u]
    BY <1>2, <1>3 DEF Types
  <2>2. QED
    BY <1>1, <1>2, <2>1, FrontFrame
<1>9. DropsCounted' /\ DeadErased'
  BY <1>1, <1>2, <1>3 DEF DropsCounted, DeadErased, Erased
<1>10. (doneSeq <= reqSeq)'
  BY <1>1, <1>2, <1>3, <1>4
<1>11. QED
  BY <1>5, <1>6, <1>7, <1>8, <1>9, <1>10, RecordsKeptPartsNext DEF LogInv

\* flush() returns.
LEMMA FlushDoneStep == ASSUME LogInv, NEW t \in Threads, FlushDone(t) PROVE LogInv'
<1>1. /\ UNCHANGED <<registered, dead, size, reqSeq, ring, registry, file, backend, globals>>
      /\ pc' = [pc EXCEPT ![t] = "idle"]
      /\ target' = [target EXCEPT ![t] = 0]
      /\ before' = [before EXCEPT ![t] = [u \in Threads |-> 0]]
  BY DEF FlushDone, Goto
<1>2. /\ bpc' = bpc /\ local' = local /\ i' = i /\ seen' = seen /\ pos' = pos
      /\ doneSeq' = doneSeq /\ reported' = reported /\ buffers' = buffers
      /\ mem' = mem /\ head' = head /\ tail' = tail /\ dropCount' = dropCount /\ dropped' = dropped
  BY <1>1 DEF backend, globals, ring, registry
<1>3. Types /\ BackendAt /\ doneSeq <= reqSeq /\ FileKeeps /\ DropsCounted /\ DeadErased
  BY RecordsKeptParts DEF LogInv
<1>4. /\ pc \in [Threads -> {"idle", "dirty", "write", "flush", "gone"}]
      /\ target \in [Threads -> Nat] /\ before \in [Threads -> [Threads -> Nat]]
      /\ head \in [Threads -> Nat] /\ reqSeq \in Nat /\ doneSeq \in Nat
  BY <1>3 DEF Types
<1>5. Types'
  <2>1. /\ pc' \in [Threads -> {"idle", "dirty", "write", "flush", "gone"}]
        /\ target' \in [Threads -> Nat] /\ before' \in [Threads -> [Threads -> Nat]]
    BY <1>1, <1>4
  <2>2. QED
    BY <1>1, <1>2, <1>3, <2>1 DEF Types
<1>6. \A u \in Threads : RingHolds(u)'
  <2>1. TAKE u \in Threads
  <2>2. pc'[u] \in {"dirty", "write"} => pc[u] \in {"dirty", "write"}
    BY <1>1, <1>4
  <2>3. RingHolds(u)
    BY DEF LogInv
  <2>4. QED
    BY <1>1, <1>2, <2>2, <2>3 DEF RingHolds
<1>7. \A u \in Threads : Answered(u)'
  <2>1. TAKE u \in Threads
  <2>2. CASE u = t
    <3>1. target'[t] = 0 /\ \A w \in Threads : before'[t][w] = 0 /\ head[w] \in Nat
      BY <1>1, <1>4
    <3>2. \A w \in Threads : Written(file, w, 0)
      BY DEF Written
    <3>3. QED
      BY <1>1, <1>2, <1>4, <2>2, <3>1, <3>2 DEF Answered, Written
  <2>3. CASE u # t
    <3>1. target'[u] = target[u] /\ before'[u] = before[u]
      BY <1>1, <1>4, <2>3
    <3>2. Answered(u)
      BY DEF LogInv
    <3>3. QED
      BY <1>1, <1>2, <3>1, <3>2 DEF Answered, Written
  <2>4. QED
    BY <2>2, <2>3
<1>8. BackendAt' /\ FileKeeps'
  <2>1. \A u \in Threads : tail'[u] \in Nat /\ tail[u] <= tail'[u]
    BY <1>2, <1>3 DEF Types
  <2>2. QED
    BY <1>1, <1>2, <2>1, FrontFrame
<1>9. DropsCounted' /\ DeadErased'
  BY <1>1, <1>2, <1>3 DEF DropsCounted, DeadErased, Erased
<1>10. QED
  BY <1>1, <1>2, <1>3, <1>5, <1>6, <1>7, <1>8, <1>9, RecordsKeptPartsNext DEF LogInv

\* ThreadLocalBuffer::push copies the record into free places only.
LEMMA WriteStep == ASSUME LogInv, NEW t \in Threads, Write(t) PROVE LogInv'
<1> DEFINE new == tail[t] + 1 .. tail[t] + size[t]
           row == [o \in DOMAIN mem[t] |->
                     IF \E k \in new : (k - 1) % Capacity = o
                     THEN CHOOSE k \in new : (k - 1) % Capacity = o ELSE mem[t][o]]
<1>1. /\ UNCHANGED <<registered, dead, target, reqSeq, before, head, dropCount, dropped, registry, file, backend, globals>>
      /\ pc[t] = "write" /\ pc' = [pc EXCEPT ![t] = "idle"]
      /\ mem' = [mem EXCEPT ![t] = row]
      /\ tail' = [tail EXCEPT ![t] = @ + size[t]] /\ size' = [size EXCEPT ![t] = 1]
  BY DEF Write, Goto
<1>2. /\ bpc' = bpc /\ local' = local /\ i' = i /\ seen' = seen /\ pos' = pos
      /\ doneSeq' = doneSeq /\ reported' = reported /\ buffers' = buffers
  BY <1>1 DEF backend, globals, registry
<1>3. Types /\ BackendAt /\ doneSeq <= reqSeq /\ FileKeeps /\ DropsCounted /\ DeadErased /\ RingHolds(t)
  BY RecordsKeptParts DEF LogInv
<1>4. /\ pc \in [Threads -> {"idle", "dirty", "write", "flush", "gone"}]
      /\ mem \in [Threads -> [0 .. Capacity - 1 -> Nat]]
      /\ head \in [Threads -> Nat] /\ tail \in [Threads -> Nat] /\ size \in [Threads -> Nat]
  BY <1>3 DEF Types
<1>5. Capacity \in Nat \ {0}
  BY LoggingAssumption DEF Sizes
<1>6. PICK h \in Nat, e \in Nat, s \in Nat : h = head[t] /\ e = tail[t] /\ s = size[t]
  BY <1>4
<1>7. h <= e /\ e + s - h <= Capacity /\ \A k \in h + 1 .. e : mem[t][(k - 1) % Capacity] = k
  BY <1>1, <1>3, <1>6 DEF RingHolds
<1>8. \A k, m \in h + 1 .. e + s : (k - 1) % Capacity = (m - 1) % Capacity => k = m
  <2>1. TAKE k, m \in h + 1 .. e + s
  <2>2. HAVE (k - 1) % Capacity = (m - 1) % Capacity
  <2>3. k - 1 \in Nat /\ m - 1 \in Nat /\ k - 1 < m - 1 + Capacity /\ m - 1 < k - 1 + Capacity
    BY <1>5, <1>7
  <2>4. k - 1 = m - 1
    BY <1>5, <2>2, <2>3, SameSlot
  <2>5. QED
    BY <2>4
<1>9. \A k \in h + 1 .. e + s : (k - 1) % Capacity \in 0 .. Capacity - 1
  <2>1. TAKE k \in h + 1 .. e + s
  <2>2. k - 1 \in Nat
    OBVIOUS
  <2>3. QED
    BY <1>5, <2>2, Division
<1>10. DOMAIN mem[t] = 0 .. Capacity - 1 /\ mem[t] \in [0 .. Capacity - 1 -> Nat]
  BY <1>4
<1>11. new = e + 1 .. e + s
  BY <1>6
<1> HIDE DEF new
<1>12. row \in [0 .. Capacity - 1 -> Nat]
  <2>1. ASSUME NEW o \in 0 .. Capacity - 1 PROVE row[o] \in Nat
    <3>1. CASE \E k \in new : (k - 1) % Capacity = o
      <4>1. row[o] = CHOOSE k \in new : (k - 1) % Capacity = o
        BY <1>10, <3>1
      <4>2. row[o] \in new
        BY <3>1, <4>1
      <4>3. QED
        BY <4>2, <1>6, <1>11
    <3>2. CASE ~\E k \in new : (k - 1) % Capacity = o
      BY <1>10, <3>2
    <3>3. QED
      BY <3>1, <3>2
  <2>2. QED
    BY <1>10, <2>1
<1>13. \A k \in h + 1 .. e + s : row[(k - 1) % Capacity] = k
  <2>1. TAKE k \in h + 1 .. e + s
  <2>2. PICK o \in 0 .. Capacity - 1 : o = (k - 1) % Capacity
    BY <1>9
  <2>3. CASE k > e
    <3>1. k \in new /\ \E m \in new : (m - 1) % Capacity = o
      BY <2>2, <2>3, <1>11
    <3>2. PICK m : m = CHOOSE j \in new : (j - 1) % Capacity = o
      OBVIOUS
    <3>3. m \in new /\ (m - 1) % Capacity = o
      BY <3>1, <3>2
    <3>4. m \in h + 1 .. e + s
      BY <3>3, <1>7, <1>11
    <3>5. m = k
      BY <3>3, <3>4, <2>2, <1>8
    <3>6. row[o] = m
      BY <3>1, <3>2, <1>10
    <3>7. QED
      BY <2>2, <3>5, <3>6
  <2>4. CASE k <= e
    <3>1. ASSUME NEW m \in new, (m - 1) % Capacity = o PROVE FALSE
      <4>1. m \in h + 1 .. e + s /\ m > e
        BY <1>7, <1>11
      <4>2. m = k
        BY <3>1, <4>1, <2>2, <1>8
      <4>3. QED
        BY <4>1, <4>2, <2>4
    <3>2. row[o] = mem[t][o]
      BY <3>1, <1>10
    <3>3. k \in h + 1 .. e
      BY <2>4
    <3>4. QED
      BY <2>2, <3>2, <3>3, <1>7
  <2>5. QED
    BY <2>3, <2>4
<1> HIDE DEF row
<1>14. /\ mem' \in [Threads -> [0 .. Capacity - 1 -> Nat]] /\ tail' \in [Threads -> Nat]
       /\ size' \in [Threads -> Nat]
       /\ pc' \in [Threads -> {"idle", "dirty", "write", "flush", "gone"}]
       /\ mem'[t] = row /\ tail'[t] = e + s /\ pc'[t] = "idle"
       /\ \A u \in Threads : u # t => mem'[u] = mem[u] /\ tail'[u] = tail[u] /\ pc'[u] = pc[u] /\ size'[u] = size[u]
       /\ \A u \in Threads : tail'[u] \in Nat /\ tail[u] <= tail'[u]
  BY <1>1, <1>4, <1>6, <1>12
<1>15. Types'
  BY <1>1, <1>2, <1>3, <1>14 DEF Types
<1>16. \A u \in Threads : RingHolds(u)'
  <2>1. ASSUME NEW u \in Threads, u # t PROVE RingHolds(u)'
    <3>1. RingHolds(u)
      BY DEF LogInv
    <3>2. mem'[u] = mem[u] /\ tail'[u] = tail[u] /\ pc'[u] = pc[u] /\ size'[u] = size[u]
      BY <1>14, <2>1
    <3>3. QED
      BY <1>1, <3>1, <3>2 DEF RingHolds
  <2>2. RingHolds(t)'
    <3>1. t \in registered
      BY <1>1, <1>3 DEF RingHolds
    <3>2. h <= e + s /\ e + s - h <= Capacity
      BY <1>7
    <3>3. QED
      BY <1>1, <1>6, <1>13, <1>14, <3>1, <3>2 DEF RingHolds
  <2>3. QED
    BY <2>1, <2>2
<1>17. \A u \in Threads : Answered(u)'
  <2>1. \A u \in Threads : Answered(u)
    BY DEF LogInv
  <2>2. QED
    BY <1>1, <1>2, <2>1 DEF Answered, Written
<1>18. BackendAt' /\ FileKeeps'
  BY <1>1, <1>14, FrontFrame
<1>19. DropsCounted' /\ DeadErased'
  BY <1>1, <1>2, <1>3 DEF DropsCounted, DeadErased, Erased
<1>20. QED
  BY <1>1, <1>2, <1>3, <1>15, <1>16, <1>17, <1>18, <1>19, RecordsKeptPartsNext DEF LogInv

(***************************************************************************)
(* The backend.                                                            *)
(***************************************************************************)
\* ThreadLocalBuffer::consume hands on what the thread wrote, in its order.
LEMMA PassKeeps ==
  ASSUME LogInv, NEW t \in Threads, NEW from \in Nat, NEW end \in Nat,
         head[t] <= from, from < end, end <= tail[t], Kept(file, t, from), Pass(t, from, end)
  PROVE  /\ file' \in FileType /\ Grows(file, file')
         /\ pos' \in Nat /\ from < pos' /\ pos' <= end
         /\ bpc' \in {"release", "part"} /\ (bpc' = "release" <=> pos' = end)
         /\ Kept(file', t, pos')
         /\ \A u \in Threads, n \in Nat : u # t /\ Kept(file, u, n) => Kept(file', u, n)
<1>1. Capacity \in Nat \ {0}
  BY LoggingAssumption DEF Sizes
<1> DEFINE border == (from \div Capacity + 1) * Capacity
<1>2. border \in Nat /\ from < border
  <2>1. PICK q \in Nat, r \in 0 .. Capacity - 1 : from = Capacity * q + r /\ q = from \div Capacity
    BY <1>1, Division
  <2>2. Capacity * q \in Nat /\ Capacity * (q + 1) = Capacity * q + Capacity
    BY <1>1, <2>1, Product
  <2>3. border = Capacity * (q + 1)
    BY <1>1, <2>1
  <2>4. QED
    BY <1>1, <2>1, <2>2, <2>3
<1> HIDE DEF border
<1>3. PICK to \in Nat : to = (IF end <= border THEN end ELSE border)
  BY <1>2
<1>4. from < to /\ to <= end
  BY <1>2, <1>3
<1> DEFINE units == [k \in 1 .. to - from |-> mem[t][(from + k - 1) % Capacity]]
<1>5. /\ file' \in Appends(file, t, units, to - from)
      /\ pos' = to /\ bpc' = IF to = end THEN "release" ELSE "part"
  BY <1>3 DEF Pass, border
<1>6. /\ head \in [Threads -> Nat] /\ tail \in [Threads -> Nat] /\ file \in FileType
      /\ mem \in [Threads -> [0 .. Capacity - 1 -> Nat]]
  BY DEF LogInv, Types
<1>7. \A k \in head[t] + 1 .. tail[t] : mem[t][(k - 1) % Capacity] = k
  BY DEF LogInv, RingHolds
<1>8. \A k \in 1 .. to - from : units[k] = from + k
  <2>1. TAKE k \in 1 .. to - from
  <2>2. from + k \in head[t] + 1 .. tail[t]
    BY <1>4, <1>6
  <2>3. mem[t][(from + k - 1) % Capacity] = from + k
    BY <1>7, <2>2
  <2>4. QED
    BY <2>3
<1>9. to - from \in Nat /\ units \in Seq(Nat) /\ Len(units) = to - from
  <2>1. to - from \in Nat
    BY <1>4
  <2>2. PICK z \in Nat : z = to - from
    BY <2>1
  <2>3. \A k \in 1 .. z : units[k] \in Nat
    BY <1>8, <2>2
  <2>4. units = [k \in 1 .. z |-> units[k]]
    BY <2>2
  <2>5. units \in [1 .. z -> Nat]
    BY <2>3, <2>4
  <2>6. \A q \in [1 .. z -> Nat] : q \in Seq(Nat) /\ Len(q) = z
    OBVIOUS
  <2> HIDE DEF units
  <2>7. QED
    BY <2>1, <2>2, <2>5, <2>6
<1> HIDE DEF units
<1>10. Continues(units, from, to - from)
  BY <1>8, <1>9 DEF Continues
<1>11. Gained(file, file', t, units)
  BY <1>5, <1>6, <1>9, AppendsKeep
<1>12. Kept(file', t, to)
  <2>1. Piece(t, units, t) = units
    BY DEF Piece
  <2>2. Kept(file', t, from + (to - from))
    BY <1>9, <1>10, <1>11, <2>1 DEF Gained
  <2>3. from + (to - from) = to
    OBVIOUS
  <2>4. QED
    BY <2>2, <2>3
<1>13. ASSUME NEW u \in Threads, NEW n \in Nat, u # t, Kept(file, u, n) PROVE Kept(file', u, n)
  <2>1. Piece(t, units, u) = <<>>
    BY <1>13 DEF Piece
  <2>2. Continues(<<>>, n, 0)
    BY DEF Continues
  <2>3. Kept(file', u, n + 0)
    BY <1>11, <1>13, <2>1, <2>2 DEF Gained
  <2>4. QED
    BY <2>3
<1>14. QED
  BY <1>4, <1>5, <1>11, <1>12, <1>13 DEF Gained

\* A warning about drops takes no unit from the file and forgets no drop.
LEMMA ReportKeeps ==
  ASSUME LogInv, NEW t \in Threads, ReportDrops(t), dropped' = dropped
  PROVE  /\ file' \in FileType /\ Grows(file, file')
         /\ \A u \in Threads, n \in Nat : Kept(file, u, n) => Kept(file', u, n)
         /\ dropCount' \in [Threads -> Nat] /\ reported' \in [Threads -> Nat] /\ DropsCounted'
<1>1. Types /\ DropsCounted
  BY RecordsKeptParts DEF LogInv
<1>2. /\ dropCount \in [Threads -> Nat] /\ reported \in [Threads -> Nat]
      /\ dropped \in [Threads -> Nat] /\ file \in FileType
  BY <1>1 DEF Types
<1>3. CASE UNCHANGED <<dropCount, reported, file>>
  BY <1>1, <1>2, <1>3 DEF DropsCounted, Grows
<1>4. CASE /\ dropCount' = [dropCount EXCEPT ![t] = 0]
           /\ reported' = [reported EXCEPT ![t] = @ + dropCount[t]]
           /\ file' \in Appends(file, t, <<>>, 1)
  <2>1. dropCount' \in [Threads -> Nat] /\ reported' \in [Threads -> Nat] /\ DropsCounted'
    <3>1. ASSUME NEW u \in Threads PROVE dropped[u] = dropCount'[u] + reported'[u]
      <4>1. dropped[u] = dropCount[u] + reported[u]
        BY <1>1 DEF DropsCounted
      <4>2. QED
        BY <1>2, <1>4, <4>1
    <3>2. QED
      BY <1>2, <1>4, <3>1 DEF DropsCounted
  <2>2. Gained(file, file', t, <<>>)
    <3>1. <<>> \in Seq(Nat) /\ 1 \in Nat
      OBVIOUS
    <3>2. QED
      BY <1>2, <1>4, <3>1, AppendsKeep
  <2>3. ASSUME NEW u \in Threads, NEW n \in Nat, Kept(file, u, n) PROVE Kept(file', u, n)
    <3>1. Piece(t, <<>>, u) = <<>>
      BY DEF Piece
    <3>2. Continues(<<>>, n, 0)
      BY DEF Continues
    <3>3. Kept(file', u, n + 0)
      BY <2>2, <2>3, <3>1, <3>2 DEF Gained
    <3>4. QED
      BY <3>3
  <2>4. QED
    BY <2>1, <2>2, <2>3 DEF Gained
<1>5. QED
  BY <1>3, <1>4 DEF ReportDrops

\* A request that is covered stays covered when files only grow and heads advance.
LEMMA AnsweredFrame ==
  ASSUME LogInv, UNCHANGED <<frontend, doneSeq>>, Grows(file, file'),
         \A u \in Threads : head'[u] \in Nat /\ head[u] <= head'[u]
  PROVE  \A t \in Threads : Answered(t)'
<1>1. target' = target /\ reqSeq' = reqSeq /\ before' = before /\ doneSeq' = doneSeq
  BY DEF frontend
<1>2. head \in [Threads -> Nat] /\ before \in [Threads -> [Threads -> Nat]]
  BY DEF LogInv, Types
<1>3. TAKE t \in Threads
<1>4. Answered(t)
  BY DEF LogInv
<1>5. ASSUME NEW u \in Threads PROVE before[t][u] <= head'[u]
  <2>1. before[t][u] \in Nat /\ head[u] \in Nat /\ before[t][u] <= head[u]
    BY <1>2, <1>4 DEF Answered
  <2>2. head'[u] \in Nat /\ head[u] <= head'[u]
    OBVIOUS
  <2>3. QED
    BY <2>1, <2>2
<1>6. ASSUME NEW u \in Threads, target[t] <= doneSeq PROVE Written(file', u, before[t][u])
  <2>1. Written(file, u, before[t][u])
    BY <1>4, <1>6 DEF Answered
  <2>2. QED
    BY <2>1, WrittenGrows
<1>7. QED
  BY <1>1, <1>4, <1>5, <1>6 DEF Answered, Written

\* A ring that is neither written nor released holds what it held.
LEMMA RingFrame ==
  ASSUME LogInv, UNCHANGED <<frontend, mem, tail, head>>
  PROVE  \A t \in Threads : RingHolds(t)'
BY DEF LogInv, RingHolds, frontend

\* A turn begins: what is buffered may be flushed, the registry may be copied.
LEMMA TopStep == ASSUME LogInv, Top PROVE LogInv'
<1>1. /\ bpc = "top" /\ bpc' = "node" /\ i' = 1
      /\ file' = (IF hasData THEN Flushed(file) ELSE file)
      /\ UNCHANGED <<frontend, ring, buffers, seen, pos, took, globals>>
  BY DEF Top
<1>2. /\ mem' = mem /\ head' = head /\ tail' = tail /\ dropCount' = dropCount /\ dropped' = dropped
      /\ doneSeq' = doneSeq /\ reported' = reported /\ seen' = seen /\ pos' = pos
      /\ pc' = pc /\ registered' = registered /\ dead' = dead /\ size' = size /\ target' = target
      /\ reqSeq' = reqSeq /\ before' = before /\ buffers' = buffers
  BY <1>1 DEF frontend, ring, globals
<1>3. Types /\ BackendAt /\ doneSeq <= reqSeq /\ FileKeeps /\ DropsCounted /\ DeadErased
  BY RecordsKeptParts DEF LogInv
<1>4. /\ file' \in FileType /\ Grows(file, file')
      /\ \A u \in Threads, n \in Nat : Kept(file, u, n) => Kept(file', u, n)
  <2>1. file \in FileType /\ Grows(file, file)
    BY <1>3 DEF Types, Grows
  <2>2. CASE hasData
    BY <1>1, <2>1, <2>2, FlushedKeeps
  <2>3. CASE ~hasData
    BY <1>1, <2>1, <2>3
  <2>4. QED
    BY <2>2, <2>3
<1>5. local' \in Seq(Threads)
  <2>1. local' = buffers \/ local' = local
    BY DEF Top
  <2>2. QED
    BY <1>3, <2>1 DEF Types
<1>6. Types'
  BY <1>1, <1>2, <1>3, <1>4, <1>5 DEF Types
<1>7. BackendAt'
  BY <1>1 DEF BackendAt
<1>8. \A u \in Threads : RingHolds(u)'
  BY <1>1, <1>2, RingFrame
<1>9. \A u \in Threads : Answered(u)'
  <2>1. \A u \in Threads : head'[u] \in Nat /\ head[u] <= head'[u]
    BY <1>2, <1>3 DEF Types
  <2>2. QED
    BY <1>1, <1>2, <1>4, <2>1, AnsweredFrame
<1>10. FileKeeps'
  <2>1. ASSUME NEW t \in Threads PROVE Kept(file', t, Taken(t)')
    <3>1. Taken(t)' = head[t] /\ Taken(t) = head[t] /\ head[t] \in Nat
      BY <1>1, <1>2, <1>3 DEF Taken, Types
    <3>2. Kept(file, t, head[t])
      BY <1>3, <3>1 DEF FileKeeps
    <3>3. QED
      BY <1>4, <3>1, <3>2
  <2>2. QED
    BY <2>1 DEF FileKeeps, Kept, Passed
<1>11. DropsCounted' /\ DeadErased'
  BY <1>2, <1>3 DEF DropsCounted, DeadErased, Erased
<1>12. QED
  BY <1>2, <1>3, <1>6, <1>7, <1>8, <1>9, <1>10, <1>11, RecordsKeptPartsNext DEF LogInv

\* The look at the next node.
LEMMA NodeStep == ASSUME LogInv, Node PROVE LogInv'
<1>1. /\ bpc = "node"
      /\ UNCHANGED <<frontend, mem, head, tail, dropped, registry, local, i, draining, doneSeq, stop>>
  BY DEF Node
<1>2. /\ pc' = pc /\ registered' = registered /\ dead' = dead /\ size' = size /\ target' = target
      /\ reqSeq' = reqSeq /\ before' = before /\ buffers' = buffers
      /\ mem' = mem /\ head' = head /\ tail' = tail /\ dropped' = dropped
      /\ local' = local /\ i' = i /\ doneSeq' = doneSeq
  BY <1>1 DEF frontend, registry
<1>3. Types /\ BackendAt /\ doneSeq <= reqSeq /\ FileKeeps /\ DropsCounted /\ DeadErased
  BY RecordsKeptParts DEF LogInv
<1>4. /\ head \in [Threads -> Nat] /\ tail \in [Threads -> Nat] /\ file \in FileType
      /\ local \in Seq(Threads) /\ i \in Nat \ {0} /\ seen \in Nat /\ pos \in Nat
      /\ dropCount \in [Threads -> Nat] /\ reported \in [Threads -> Nat]
  BY <1>3 DEF Types
<1>5. \A t \in Threads : Taken(t) = head[t] /\ head[t] \in Nat /\ Kept(file, t, head[t])
  BY <1>1, <1>3, <1>4 DEF Taken, FileKeeps
<1>6. DeadErased'
  BY <1>2, <1>3 DEF DeadErased, Erased
<1>7. \A u \in Threads : RingHolds(u)'
  BY <1>1, <1>2, RingFrame
<1>8. Grows(file, file') => \A u \in Threads : Answered(u)'
  <2>1. \A u \in Threads : head'[u] \in Nat /\ head[u] <= head'[u]
    BY <1>2, <1>4
  <2>2. QED
    BY <1>1, <1>2, <2>1, AnsweredFrame
<1>9. CASE i > Len(local)
  <2>1. /\ bpc' = "seq" /\ file' = file /\ seen' = seen /\ pos' = pos
        /\ dropCount' = dropCount /\ reported' = reported
    BY <1>9 DEF Node
  <2>2. Types' /\ BackendAt' /\ Grows(file, file') /\ DropsCounted'
    BY <1>2, <1>3, <2>1 DEF Types, BackendAt, Grows, DropsCounted
  <2>3. FileKeeps'
    <3>1. \A t \in Threads : Taken(t)' = head[t]
      BY <1>2, <2>1 DEF Taken
    <3>2. QED
      BY <1>5, <2>1, <3>1 DEF FileKeeps, Kept, Passed
  <2>4. QED
    BY <1>2, <1>3, <1>6, <1>7, <1>8, <2>2, <2>3, RecordsKeptPartsNext DEF LogInv
<1>10. CASE ~(i > Len(local))
  <2>1. PICK t \in Threads : t = local[i] /\ i \in 1 .. Len(local)
    BY <1>4, <1>10
  <2>2. seen' = tail[t] /\ took' = (head[t] < tail[t])
    BY <1>10, <2>1 DEF Node
  <2>3. CASE head[t] < tail[t]
    <3>1. Pass(t, head[t], tail[t]) /\ dropCount' = dropCount /\ reported' = reported
      BY <1>10, <2>1, <2>2, <2>3 DEF Node
    <3>2. /\ head[t] \in Nat /\ tail[t] \in Nat
      BY <1>4
    <3>3. /\ file' \in FileType /\ Grows(file, file')
          /\ pos' \in Nat /\ head[t] < pos' /\ pos' <= tail[t]
          /\ bpc' \in {"release", "part"} /\ (bpc' = "release" <=> pos' = tail[t])
          /\ Kept(file', t, pos')
          /\ \A u \in Threads, n \in Nat : u # t /\ Kept(file, u, n) => Kept(file', u, n)
      BY <1>5, <2>3, <3>1, <3>2, PassKeeps
    <3>4. Types'
      BY <1>2, <1>3, <2>2, <3>1, <3>2, <3>3 DEF Types
    <3>5. BackendAt'
      BY <1>2, <2>1, <2>2, <3>2, <3>3 DEF BackendAt
    <3>6. FileKeeps'
      <4>1. ASSUME NEW u \in Threads PROVE Kept(file', u, Taken(u)')
        <5>1. CASE u = t
          BY <1>2, <2>1, <3>3, <5>1 DEF Taken
        <5>2. CASE u # t
          <6>1. Taken(u)' = head[u]
            BY <1>2, <2>1, <5>2 DEF Taken
          <6>2. QED
            BY <1>5, <3>3, <5>2, <6>1
        <5>3. QED
          BY <5>1, <5>2
      <4>2. QED
        BY <4>1 DEF FileKeeps, Kept, Passed
    <3>7. DropsCounted'
      BY <1>2, <1>3, <3>1 DEF DropsCounted
    <3>8. QED
      BY <1>2, <1>3, <1>6, <1>7, <1>8, <3>3, <3>4, <3>5, <3>6, <3>7, RecordsKeptPartsNext DEF LogInv
  <2>4. CASE ~(head[t] < tail[t])
    <3>1. ReportDrops(t) /\ bpc' = "dead" /\ pos' = pos
      BY <1>10, <2>1, <2>2, <2>4 DEF Node
    <3>2. /\ file' \in FileType /\ Grows(file, file')
          /\ \A u \in Threads, n \in Nat : Kept(file, u, n) => Kept(file', u, n)
          /\ dropCount' \in [Threads -> Nat] /\ reported' \in [Threads -> Nat] /\ DropsCounted'
      BY <1>2, <3>1, ReportKeeps
    <3>3. Types'
      BY <1>2, <1>3, <1>4, <2>2, <3>1, <3>2 DEF Types
    <3>4. BackendAt'
      BY <1>2, <2>1, <3>1 DEF BackendAt
    <3>5. FileKeeps'
      <4>1. \A u \in Threads : Taken(u)' = head[u]
        BY <1>2, <3>1 DEF Taken
      <4>2. \A u \in Threads : Kept(file', u, Taken(u)')
        BY <1>5, <3>2, <4>1
      <4>3. QED
        BY <4>2 DEF FileKeeps, Kept, Passed
    <3>6. QED
      BY <1>2, <1>3, <1>6, <1>7, <1>8, <3>2, <3>3, <3>4, <3>5, RecordsKeptPartsNext DEF LogInv
  <2>5. QED
    BY <2>3, <2>4
<1>11. QED
  BY <1>9, <1>10

\* The rest of the data, at the start of the ring.
LEMMA PartStep == ASSUME LogInv, Part PROVE LogInv'
<1>1. /\ bpc = "part" /\ Pass(local[i], pos, seen)
      /\ UNCHANGED <<frontend, ring, registry, local, i, seen, flags, globals>>
  BY DEF Part
<1>2. /\ pc' = pc /\ registered' = registered /\ dead' = dead /\ size' = size /\ target' = target
      /\ reqSeq' = reqSeq /\ before' = before /\ buffers' = buffers
      /\ mem' = mem /\ head' = head /\ tail' = tail /\ dropCount' = dropCount /\ dropped' = dropped
      /\ local' = local /\ i' = i /\ seen' = seen /\ doneSeq' = doneSeq /\ reported' = reported
  BY <1>1 DEF frontend, ring, registry, globals
<1>3. Types /\ BackendAt /\ doneSeq <= reqSeq /\ FileKeeps /\ DropsCounted /\ DeadErased
  BY RecordsKeptParts DEF LogInv
<1>4. /\ head \in [Threads -> Nat] /\ tail \in [Threads -> Nat] /\ seen \in Nat /\ pos \in Nat
      /\ local \in Seq(Threads) /\ i \in 1 .. Len(local)
  BY <1>1, <1>3 DEF Types, BackendAt
<1>5. PICK t \in Threads : t = local[i]
  BY <1>4
<1>6. head[t] <= pos /\ pos < seen /\ seen <= tail[t]
  BY <1>1, <1>3, <1>5 DEF BackendAt
<1>7. Kept(file, t, pos)
  <2>1. Taken(t) = pos
    BY <1>1, <1>5 DEF Taken
  <2>2. QED
    BY <1>3, <2>1 DEF FileKeeps
<1>8. /\ file' \in FileType /\ Grows(file, file')
      /\ pos' \in Nat /\ pos < pos' /\ pos' <= seen
      /\ bpc' \in {"release", "part"} /\ (bpc' = "release" <=> pos' = seen)
      /\ Kept(file', t, pos')
      /\ \A u \in Threads, n \in Nat : u # t /\ Kept(file, u, n) => Kept(file', u, n)
  BY <1>1, <1>4, <1>5, <1>6, <1>7, PassKeeps
<1>9. Types'
  BY <1>2, <1>3, <1>8 DEF Types
<1>10. BackendAt'
  <2>1. head[t] \in Nat
    BY <1>4
  <2>2. QED
    BY <1>2, <1>4, <1>5, <1>6, <1>8, <2>1 DEF BackendAt
<1>11. \A u \in Threads : RingHolds(u)'
  BY <1>1, <1>2, RingFrame
<1>12. \A u \in Threads : Answered(u)'
  <2>1. \A u \in Threads : head'[u] \in Nat /\ head[u] <= head'[u]
    BY <1>2, <1>4
  <2>2. QED
    BY <1>1, <1>2, <1>8, <2>1, AnsweredFrame
<1>13. FileKeeps'
  <2>1. ASSUME NEW u \in Threads PROVE Kept(file', u, Taken(u)')
    <3>1. CASE u = t
      BY <1>2, <1>5, <1>8, <3>1 DEF Taken
    <3>2. CASE u # t
      <4>1. Taken(u)' = head[u] /\ Taken(u) = head[u] /\ head[u] \in Nat
        BY <1>2, <1>4, <1>5, <3>2 DEF Taken
      <4>2. Kept(file, u, head[u])
        BY <1>3, <4>1 DEF FileKeeps
      <4>3. QED
        BY <1>8, <3>2, <4>1, <4>2
    <3>3. QED
      BY <3>1, <3>2
  <2>2. QED
    BY <2>1 DEF FileKeeps, Kept, Passed
<1>14. DropsCounted' /\ DeadErased'
  BY <1>2, <1>3 DEF DropsCounted, DeadErased, Erased
<1>15. QED
  BY <1>2, <1>3, <1>9, <1>10, <1>11, <1>12, <1>13, <1>14, RecordsKeptPartsNext DEF LogInv

\* The places of what was handed on are released.
LEMMA ReleaseStep == ASSUME LogInv, Release PROVE LogInv'
<1>1. /\ bpc = "release" /\ bpc' = "dead" /\ head' = [head EXCEPT ![local[i]] = seen]
      /\ ReportDrops(local[i])
      /\ UNCHANGED <<frontend, mem, tail, dropped, registry, local, i, seen, pos, flags, doneSeq, stop>>
  BY DEF Release
<1>2. /\ pc' = pc /\ registered' = registered /\ dead' = dead /\ size' = size /\ target' = target
      /\ reqSeq' = reqSeq /\ before' = before /\ buffers' = buffers
      /\ mem' = mem /\ tail' = tail /\ dropped' = dropped
      /\ local' = local /\ i' = i /\ seen' = seen /\ pos' = pos /\ doneSeq' = doneSeq
  BY <1>1 DEF frontend, registry
<1>3. Types /\ BackendAt /\ doneSeq <= reqSeq /\ FileKeeps /\ DropsCounted /\ DeadErased
  BY RecordsKeptParts DEF LogInv
<1>4. /\ head \in [Threads -> Nat] /\ tail \in [Threads -> Nat] /\ seen \in Nat /\ pos \in Nat
      /\ local \in Seq(Threads) /\ i \in 1 .. Len(local)
  BY <1>1, <1>3 DEF Types, BackendAt
<1>5. PICK t \in Threads : t = local[i]
  BY <1>4
<1>6. head[t] <= pos /\ pos = seen /\ seen <= tail[t]
  BY <1>1, <1>3, <1>5 DEF BackendAt
<1>7. /\ file' \in FileType /\ Grows(file, file')
      /\ \A u \in Threads, n \in Nat : Kept(file, u, n) => Kept(file', u, n)
      /\ dropCount' \in [Threads -> Nat] /\ reported' \in [Threads -> Nat] /\ DropsCounted'
  BY <1>1, <1>2, <1>5, ReportKeeps
<1>8. /\ head' \in [Threads -> Nat] /\ head'[t] = seen
      /\ \A u \in Threads : u # t => head'[u] = head[u]
  BY <1>1, <1>4, <1>5
<1>9. Types'
  BY <1>1, <1>2, <1>3, <1>7, <1>8 DEF Types
<1>10. BackendAt'
  BY <1>1, <1>2, <1>4 DEF BackendAt
<1>11. \A u \in Threads : RingHolds(u)'
  <2>1. TAKE u \in Threads
  <2>2. RingHolds(u) /\ head[u] \in Nat /\ tail[u] \in Nat /\ size[u] \in Nat
    BY <1>3 DEF LogInv, Types
  <2>3. CASE u # t
    BY <1>2, <1>8, <2>2, <2>3 DEF RingHolds
  <2>4. CASE u = t
    <3>1. Capacity \in Nat
      BY LoggingAssumption
    <3>2. PICK h \in Nat, e \in Nat, s \in Nat : h = head[t] /\ e = tail[t] /\ s = size[t]
      BY <2>2, <2>4
    <3>3. h <= seen /\ seen <= e /\ e - h <= Capacity
      BY <1>6, <2>2, <2>4, <3>2 DEF RingHolds
    <3>4. e - seen <= Capacity
      BY <1>4, <3>1, <3>3
    <3>5. pc[t] \in {"dirty", "write"} => e + s - seen <= Capacity
      <4>1. pc[t] \in {"dirty", "write"} => e + s - h <= Capacity
        BY <2>2, <2>4, <3>2 DEF RingHolds
      <4>2. \A x, y, z, c \in Int : x <= y /\ z - x <= c => z - y <= c
        OBVIOUS
      <4>3. e + s \in Int /\ h \in Int /\ seen \in Int /\ Capacity \in Int /\ h <= seen
        BY <1>4, <3>1, <3>3
      <4>4. e + s - h <= Capacity => e + s - seen <= Capacity
        BY <4>2, <4>3
      <4>5. QED
        BY <4>1, <4>4
    <3>6. t \notin registered => seen = e /\ pc[t] \notin {"dirty", "write"}
      BY <1>4, <2>2, <2>4, <3>2, <3>3 DEF RingHolds
    <3>7. \A k \in seen + 1 .. e : mem[t][(k - 1) % Capacity] = k
      <4>1. \A k \in seen + 1 .. e : k \in h + 1 .. e
        BY <1>4, <3>3
      <4>2. \A k \in h + 1 .. e : mem[t][(k - 1) % Capacity] = k
        BY <2>2, <2>4, <3>2 DEF RingHolds
      <4>3. QED
        BY <4>1, <4>2
    <3>8. QED
      BY <1>2, <1>8, <2>4, <3>2, <3>3, <3>4, <3>5, <3>6, <3>7 DEF RingHolds
  <2>5. QED
    BY <2>3, <2>4
<1>12. \A u \in Threads : Answered(u)'
  <2>1. \A u \in Threads : head'[u] \in Nat /\ head[u] <= head'[u]
    <3>1. head[t] \in Nat /\ head[t] <= seen
      BY <1>4, <1>6
    <3>2. ASSUME NEW u \in Threads PROVE head'[u] \in Nat /\ head[u] <= head'[u]
      <4>1. head[u] \in Nat /\ head'[u] \in Nat
        BY <1>4, <1>8
      <4>2. CASE u = t
        BY <1>8, <3>1, <4>2
      <4>3. CASE u # t
        BY <1>8, <4>1, <4>3
      <4>4. QED
        BY <4>1, <4>2, <4>3
    <3>3. QED
      BY <3>2
  <2>2. QED
    BY <1>1, <1>2, <1>7, <2>1, AnsweredFrame
<1>13. FileKeeps'
  <2>1. ASSUME NEW u \in Threads PROVE Kept(file', u, Taken(u)')
    <3>1. Taken(u)' = head'[u] /\ head'[u] \in Nat
      BY <1>1, <1>8 DEF Taken
    <3>2. Taken(u) = head'[u]
      BY <1>1, <1>5, <1>6, <1>8 DEF Taken
    <3>3. QED
      BY <1>3, <1>7, <3>1, <3>2 DEF FileKeeps
  <2>2. QED
    BY <2>1 DEF FileKeeps, Kept, Passed
<1>14. DeadErased'
  BY <1>2, <1>3 DEF DeadErased, Erased
<1>15. QED
  BY <1>2, <1>3, <1>7, <1>9, <1>10, <1>11, <1>12, <1>13, <1>14, RecordsKeptPartsNext DEF LogInv

\* Only the node of a thread that is gone is erased.
LEMMA DeadStep == ASSUME LogInv, Dead PROVE LogInv'
<1>1. /\ bpc = "dead" /\ bpc' = "node" /\ seen' = 0 /\ pos' = 0
      /\ UNCHANGED <<frontend, ring, dirty, file, hasData, draining, globals>>
  BY DEF Dead
<1>2. /\ pc' = pc /\ registered' = registered /\ dead' = dead /\ size' = size /\ target' = target
      /\ reqSeq' = reqSeq /\ before' = before
      /\ mem' = mem /\ head' = head /\ tail' = tail /\ dropCount' = dropCount /\ dropped' = dropped
      /\ doneSeq' = doneSeq /\ reported' = reported /\ file' = file
  BY <1>1 DEF frontend, ring, globals
<1>3. Types /\ BackendAt /\ doneSeq <= reqSeq /\ FileKeeps /\ DropsCounted /\ DeadErased
  BY RecordsKeptParts DEF LogInv
<1>4. /\ local \in Seq(Threads) /\ buffers \in Seq(Threads) /\ i \in 1 .. Len(local) /\ i \in Nat \ {0}
      /\ registered \subseteq Threads /\ head \in [Threads -> Nat]
  BY <1>1, <1>3 DEF Types, BackendAt
<1>5. /\ local' \in Seq(Threads) /\ buffers' \in Seq(Threads) /\ i' \in Nat \ {0} /\ DeadErased'
  <2>1. CASE local[i] \in dead /\ ~took /\ ~draining
    <3>1. buffers' = Without(buffers, local[i]) /\ local' = RemoveAt(local, i) /\ i' = i
      BY <2>1 DEF Dead
    <3>2. local' \in Seq(Threads)
      BY <1>4, <3>1, RemoveAtKeeps
    <3>3. buffers' \in Seq(Threads) /\ ToSet(buffers) \ {local[i]} \subseteq ToSet(buffers')
      BY <1>4, <3>1, WithoutKeeps
    <3>4. DeadErased'
      BY <1>2, <1>3, <2>1, <3>3 DEF DeadErased, Erased
    <3>5. QED
      BY <1>4, <3>1, <3>2, <3>3, <3>4
  <2>2. CASE ~(local[i] \in dead /\ ~took /\ ~draining)
    <3>1. buffers' = buffers /\ local' = local /\ i' = i + 1
      BY <2>2 DEF Dead
    <3>2. QED
      BY <1>2, <1>3, <1>4, <3>1 DEF DeadErased, Erased
  <2>3. QED
    BY <2>1, <2>2
<1>6. Types'
  BY <1>1, <1>2, <1>3, <1>5 DEF Types
<1>7. BackendAt'
  BY <1>1 DEF BackendAt
<1>8. \A u \in Threads : RingHolds(u)'
  BY <1>1, <1>2, RingFrame
<1>9. \A u \in Threads : Answered(u)'
  <2>1. Grows(file, file') /\ \A u \in Threads : head'[u] \in Nat /\ head[u] <= head'[u]
    BY <1>2, <1>4 DEF Grows
  <2>2. QED
    BY <1>1, <1>2, <2>1, AnsweredFrame
<1>10. FileKeeps'
  <2>1. \A u \in Threads : Taken(u)' = Taken(u)
    BY <1>1, <1>2 DEF Taken
  <2>2. QED
    BY <1>2, <1>3, <2>1 DEF FileKeeps, Kept, Passed
<1>11. DropsCounted'
  BY <1>2, <1>3 DEF DropsCounted
<1>12. QED
  BY <1>2, <1>3, <1>5, <1>6, <1>7, <1>8, <1>9, <1>10, <1>11, RecordsKeptPartsNext DEF LogInv

\* The requests seen so far are answered after the file is flushed.
LEMMA AnswerFlushStep == ASSUME LogInv, AnswerFlush PROVE LogInv'
<1>1. /\ bpc = "seq" /\ bpc' \in {"ended", "top"}
      /\ UNCHANGED <<frontend, ring, registry, local, i, seen, pos, flags, stop, reported>>
  BY DEF AnswerFlush
<1>2. /\ pc' = pc /\ registered' = registered /\ dead' = dead /\ size' = size /\ target' = target
      /\ reqSeq' = reqSeq /\ before' = before /\ buffers' = buffers
      /\ mem' = mem /\ head' = head /\ tail' = tail /\ dropCount' = dropCount /\ dropped' = dropped
      /\ local' = local /\ i' = i /\ seen' = seen /\ pos' = pos /\ reported' = reported
  BY <1>1 DEF frontend, ring, registry
<1>3. Types /\ BackendAt /\ doneSeq <= reqSeq /\ FileKeeps /\ DropsCounted /\ DeadErased
  BY RecordsKeptParts DEF LogInv
<1>4. /\ head \in [Threads -> Nat] /\ file \in FileType /\ reqSeq \in Nat /\ doneSeq \in Nat
      /\ target \in [Threads -> Nat] /\ before \in [Threads -> [Threads -> Nat]]
  BY <1>3 DEF Types
<1>5. \A u \in Threads : Taken(u) = head[u] /\ Taken(u)' = head[u] /\ head[u] \in Nat /\ Kept(file, u, head[u])
  BY <1>1, <1>2, <1>3, <1>4 DEF Taken, FileKeeps
<1>6. \/ file' = Flushed(file) /\ doneSeq' \in {doneSeq, reqSeq}
      \/ file' = file /\ doneSeq' = reqSeq /\ ~(reqSeq > doneSeq)
  BY DEF AnswerFlush
<1>7. /\ file' \in FileType /\ Grows(file, file')
      /\ \A u \in Threads, n \in Nat : Kept(file, u, n) => Kept(file', u, n)
  <2>1. CASE file' = Flushed(file)
    BY <1>4, <2>1, FlushedKeeps
  <2>2. CASE file' = file
    BY <1>4, <2>2 DEF Grows
  <2>3. QED
    BY <1>6, <2>1, <2>2
<1>8. Types' /\ BackendAt' /\ (doneSeq <= reqSeq)'
  BY <1>1, <1>2, <1>3, <1>4, <1>6, <1>7 DEF Types, BackendAt
<1>9. \A u \in Threads : RingHolds(u)'
  BY <1>1, <1>2, RingFrame
<1>10. \A u \in Threads : Answered(u)'
  <2>1. TAKE u \in Threads
  <2>2. Answered(u)
    BY DEF LogInv
  <2>3. ASSUME NEW w \in Threads, target[u] <= doneSeq' PROVE Written(file', w, before[u][w])
    <3>1. before[u][w] \in Nat /\ before[u][w] <= head[w]
      BY <1>4, <2>2 DEF Answered
    <3>2. CASE file' = Flushed(file)
      <4>1. file'.buf[w] = <<>>
        BY <1>4, <3>2, FlushedKeeps
      <4>2. Kept(file', w, head[w]) /\ head[w] \in Nat
        BY <1>5, <1>7
      <4>3. QED
        BY <1>7, <3>1, <4>1, <4>2, KeptIsWritten
    <3>3. CASE file' = file /\ doneSeq' = reqSeq /\ ~(reqSeq > doneSeq)
      <4>1. target[u] \in Nat
        BY <1>4
      <4>2. target[u] <= doneSeq
        BY <1>3, <1>4, <2>3, <3>3, <4>1
      <4>3. Written(file, w, before[u][w])
        BY <2>2, <4>2 DEF Answered
      <4>4. QED
        BY <3>3, <4>3
    <3>4. QED
      BY <1>6, <3>2, <3>3
  <2>4. QED
    BY <1>2, <2>2, <2>3 DEF Answered, Written
<1>11. FileKeeps'
  <2>1. \A u \in Threads : Kept(file', u, Taken(u)')
    BY <1>5, <1>7
  <2>2. QED
    BY <2>1 DEF FileKeeps, Kept, Passed
<1>12. DropsCounted' /\ DeadErased'
  BY <1>2, <1>3 DEF DropsCounted, DeadErased, Erased
<1>13. QED
  BY <1>8, <1>9, <1>10, <1>11, <1>12, RecordsKeptPartsNext DEF LogInv

-----------------------------------------------------------------------------
\* Every step of the program keeps the invariant.
LEMMA NextLogInv == LogInv /\ [Next]_vars => LogInv'
<1> SUFFICES ASSUME LogInv, [Next]_vars PROVE LogInv'
  OBVIOUS
<1>1. CASE Backend
  BY <1>1, TopStep, NodeStep, PartStep, ReleaseStep, DeadStep, AnswerFlushStep DEF Backend
<1>2. CASE RequestStop
  BY <1>2, RequestStopStep
<1>3. ASSUME NEW t \in Threads, OwnStep(t) \/ Flush(t) \/ Exit(t) PROVE LogInv'
  BY <1>3, MarkDirtyStep, WriteStep, FlushDoneStep, FlushStep, ExitStep DEF OwnStep
<1>4. ASSUME NEW t \in Threads, NEW n \in Sizes, Log(t, n) PROVE LogInv'
  BY <1>4, LogStep
<1>5. CASE UNCHANGED vars
  <2>1. /\ UNCHANGED <<pc, registered, dead, size, target, reqSeq, before, file, bpc, local, i, seen, pos>>
        /\ UNCHANGED <<mem, head, tail, dropCount, dropped, buffers, doneSeq, reported>>
    BY <1>5 DEF vars, frontend, ring, registry, backend, globals
  <2>2. Types' /\ BackendAt' /\ (doneSeq <= reqSeq)'
    BY <2>1 DEF LogInv, Types, BackendAt
  <2>3. \A t \in Threads : RingHolds(t)' /\ Answered(t)'
    BY <2>1 DEF LogInv, RingHolds, Answered, Written
  <2>4. RecordsKept'
    <3>1. \A t \in Threads : Taken(t)' = Taken(t)
      BY <2>1 DEF Taken
    <3>2. QED
      BY <2>1, <3>1 DEF LogInv, RecordsKept, Kept, Passed, Erased
  <2>5. QED
    BY <2>2, <2>3, <2>4 DEF LogInv
<1>6. QED
  BY <1>1, <1>2, <1>3, <1>4, <1>5 DEF Next

\* What the backend took from a ring is in the file or its buffer, each unit once and in
\* order, unless its file was rolled; drops are counted; only rings of threads that are
\* gone are erased (AsyncLogging.h:67-138, ThreadLocalBuffer.h:39-118, LogFile.h:42-87).
THEOREM RecordsKeptHolds == Spec => []RecordsKept
<1>1. LogInv => RecordsKept
  BY DEF LogInv
<1>2. QED
  BY InitLogInv, NextLogInv, <1>1, PTL DEF Spec

\* flush() returns only when what had been taken from every ring at the time of the call
\* has been written, unless its file was rolled (AsyncLogging.h:111-121, 142-158).
THEOREM FlushCoversHolds == Spec => FlushCovers
<1> DEFINE Covered == \A t \in Threads : pc[t] = "flush" /\ pc'[t] = "idle" =>
                        \A u \in Threads : Written(file, u, before[t][u])
<1>1. LogInv /\ [Next]_vars => [Covered]_vars
  <2> SUFFICES ASSUME LogInv, Next, NEW t \in Threads, pc[t] = "flush", pc'[t] = "idle"
               PROVE  \A u \in Threads : Written(file, u, before[t][u])
    OBVIOUS
  <2>1. pc \in [Threads -> {"idle", "dirty", "write", "flush", "gone"}]
    BY DEF LogInv, Types
  <2>2. ~(Backend \/ RequestStop)
    <3>1. Backend \/ RequestStop => pc' = pc
      BY DEF Backend, Top, Node, Part, Release, Dead, AnswerFlush, RequestStop, frontend
    <3>2. QED
      BY <3>1
  <2>3. PICK u \in Threads : OwnStep(u) \/ Flush(u) \/ Exit(u) \/ \E n \in Sizes : Log(u, n)
    BY <2>2 DEF Next
  <2>4. u = t
    BY <2>1, <2>3 DEF OwnStep, MarkDirty, Write, FlushDone, Flush, Exit, Log, Goto
  <2>5. FlushDone(t)
    BY <2>1, <2>3, <2>4 DEF OwnStep, MarkDirty, Write, Flush, Exit, Log
  <2>6. Answered(t) /\ target[t] <= doneSeq
    BY <2>5 DEF LogInv, FlushDone, Types
  <2>7. QED
    BY <2>6 DEF Answered
<1>2. QED
  BY InitLogInv, NextLogInv, <1>1, PTL DEF Spec, FlushCovers
=============================================================================
