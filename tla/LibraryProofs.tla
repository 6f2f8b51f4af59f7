--------------------------- MODULE LibraryProofs ---------------------------
(***************************************************************************)
(* Proofs about the parts of Library: the buffer, the three queues and the *)
(* mutex, whatever the capacities and the numbers of threads and items.    *)
(***************************************************************************)
EXTENDS Library, FiniteSetTheorems, TLAPS

(***************************************************************************)
(* Quotients and remainders.                                               *)
(***************************************************************************)
\* A product of naturals is one.
LEMMA Product == \A x, y \in Nat : x * y \in Nat /\ x * (y + 1) = x * y + x
BY Z3

\* What \div and % are.
LEMMA Division ==
  ASSUME NEW n \in Nat, NEW m \in Nat \ {0}
  PROVE  n = m * (n \div m) + (n % m) /\ n % m \in 0 .. m - 1 /\ n \div m \in Nat
BY Z3

\* A later lap starts after the end of an earlier one.
LEMMA Laps ==
  ASSUME NEW m \in Nat \ {0}, NEW a \in Nat, NEW b \in Nat, a < b
  PROVE  m * a + m <= m * b /\ m * a \in Nat /\ m * b \in Nat
<1>1. PICK d \in Nat : b = a + 1 + d
  <2>1. b = a + 1 + (b - a - 1) /\ b - a - 1 \in Nat
    OBVIOUS
  <2>2. QED
    BY <2>1
<1>2. m * b = m * a + m + m * d
  BY <1>1, Z3
<1>3. m * d \in Nat /\ m * a \in Nat /\ m * b \in Nat
  BY Product
<1>4. QED
  BY <1>2, <1>3

\* Two indices less than a lap apart that use the same slot are the same.
LEMMA SameSlot ==
  ASSUME NEW i \in Nat, NEW j \in Nat, NEW m \in Nat \ {0},
         i % m = j % m, i < j + m, j < i + m
  PROVE  i = j
<1> DEFINE a == i \div m
           b == j \div m
           r == i % m
<1>1. i = m * a + r /\ j = m * b + r /\ a \in Nat /\ b \in Nat /\ r \in 0 .. m - 1
  BY Division
<1> HIDE DEF a, b, r
<1>2. CASE a < b
  <2>1. m * a + m <= m * b /\ m * a \in Nat /\ m * b \in Nat
    BY <1>1, <1>2, Laps
  <2>2. QED
    BY <1>1, <2>1
<1>3. CASE b < a
  <2>1. m * b + m <= m * a /\ m * a \in Nat /\ m * b \in Nat
    BY <1>1, <1>3, Laps
  <2>2. QED
    BY <1>1, <2>1
<1>4. CASE a = b
  BY <1>1, <1>4
<1>5. QED
  BY <1>1, <1>2, <1>3, <1>4

\* An index and the one a lap later use the same slot.
LEMMA NextLap ==
  ASSUME NEW i \in Nat, NEW m \in Nat \ {0}
  PROVE  (i + m) % m = i % m
<1> DEFINE a == i \div m
           r == i % m
           b == (i + m) \div m
           s == (i + m) % m
<1>1. /\ i = m * a + r /\ i + m = m * b + s
      /\ a \in Nat /\ b \in Nat /\ r \in 0 .. m - 1 /\ s \in 0 .. m - 1
  <2>1. i = m * a + r /\ a \in Nat /\ r \in 0 .. m - 1
    BY Division
  <2>2. \A k \in Nat : k = m * (k \div m) + (k % m) /\ k % m \in 0 .. m - 1 /\ k \div m \in Nat
    BY Division
  <2>3. i + m \in Nat
    OBVIOUS
  <2>4. i + m = m * b + s /\ b \in Nat /\ s \in 0 .. m - 1
    BY <2>2, <2>3, Zenon
  <2>5. QED
    BY <2>1, <2>4
<1> HIDE DEF a, b, r, s
<1>2. m * (a + 1) = m * a + m /\ m * a \in Nat /\ m * b \in Nat /\ m * (a + 1) \in Nat
  BY <1>1, Product
<1>3. ~(a + 1 < b)
  <2>1. ASSUME a + 1 < b PROVE m * (a + 1) + m <= m * b
    BY <1>1, <2>1, Laps
  <2>2. QED
    BY <1>1, <1>2, <2>1
<1>4. ~(b < a + 1)
  <2>1. ASSUME b < a + 1 PROVE m * b + m <= m * (a + 1)
    BY <1>1, <2>1, Laps
  <2>2. QED
    BY <1>1, <1>2, <2>1
<1>5. b = a + 1
  BY <1>1, <1>3, <1>4
<1>6. QED
  BY <1>1, <1>2, <1>5 DEF r, s
-----------------------------------------------------------------------------
(***************************************************************************)
(* Buffer.                                                                 *)
(***************************************************************************)
\* A buffer of which k places are allocated, with the readable bytes numbered from
\* first + 1 on.
Block(b, k) ==
  /\ k \in Nat /\ b.cap \in Nat /\ k <= b.cap /\ b.r \in Nat /\ b.w \in b.r .. k
  /\ b.mem \in [0 .. k - 1 -> Nat]
Content(b, first) == \A i \in 1 .. b.w - b.r : b.mem[b.r + i - 1] = first + i
Following(b, first) == first + (b.w - b.r)

BufferTypes ==
  /\ capacity \in Nat /\ readerIndex \in Nat /\ writerIndex \in Nat
  /\ arrived \in Nat /\ taken \in Nat
  /\ mem \in [0 .. capacity - 1 -> Nat]

BufferInv == BufferTypes /\ BytesInOrder

\* append, readv: the bytes put at the write index follow those before them.
LEMMA PutKeeps ==
  ASSUME NEW b, NEW k, Block(b, k), NEW first \in Nat, Content(b, first),
         NEW n \in Nat, b.w + n <= k
  PROVE  LET p == Bytes!Put(b, Bytes!Numbers(n, Following(b, first)))
         IN  /\ Block(p, k) /\ Content(p, first)
             /\ p.w = b.w + n /\ p.r = b.r /\ p.cap = b.cap
<1> DEFINE from == Following(b, first)
           bytes == Bytes!Numbers(n, from)
           p == Bytes!Put(b, bytes)
<1>1. from \in Nat /\ from = first + (b.w - b.r) /\ b.r \in Nat /\ b.w \in Nat /\ b.r <= b.w /\ k \in Nat
      /\ b.mem \in [0 .. k - 1 -> Nat]
  BY DEF Following, Block
<1>2. Len(bytes) = n /\ \A i \in 1 .. n : bytes[i] = from + i
  BY <1>1 DEF Bytes!Numbers
<1>3. /\ p.w = b.w + n /\ p.r = b.r /\ p.cap = b.cap
      /\ p.mem = [i \in 0 .. k - 1 |-> IF i >= b.w /\ i < b.w + n THEN bytes[i - b.w + 1] ELSE b.mem[i]]
  BY <1>1, <1>2 DEF Bytes!Put
<1> HIDE DEF p, bytes, from
<1>4. \A i \in 0 .. k - 1 : p.mem[i] = IF i >= b.w /\ i < b.w + n THEN from + (i - b.w + 1) ELSE b.mem[i]
  BY <1>1, <1>2, <1>3
<1>5. p.mem \in [0 .. k - 1 -> Nat]
  <2>1. ASSUME NEW i \in 0 .. k - 1 PROVE p.mem[i] \in Nat
    <3>1. i \in Int /\ b.mem[i] \in Nat
      BY <1>1
    <3>2. CASE i >= b.w /\ i < b.w + n
      <4>1. p.mem[i] = from + (i - b.w + 1)
        BY <1>4, <3>2
      <4>2. \A x, y, z \in Nat : z >= y => x + (z - y + 1) \in Nat
        OBVIOUS
      <4>3. from \in Nat /\ b.w \in Nat /\ i \in Nat
        BY <1>1
      <4>4. from + (i - b.w + 1) \in Nat
        BY <4>2, <4>3, <3>2
      <4>5. QED
        BY <4>1, <4>4
    <3>3. CASE ~(i >= b.w /\ i < b.w + n)
      <4>1. p.mem[i] = b.mem[i]
        BY <1>4, <3>3
      <4>2. QED
        BY <4>1, <3>1
    <3>4. QED
      BY <3>2, <3>3
  <2>2. p.mem = [i \in 0 .. k - 1 |-> p.mem[i]]
    BY <1>3, Zenon
  <2>3. QED
    BY <2>1, <2>2, Zenon
<1>6. Block(p, k)
  BY <1>1, <1>3, <1>5 DEF Block
<1>7. Content(p, first)
  <2>1. SUFFICES ASSUME NEW i \in 1 .. (b.w + n) - b.r PROVE p.mem[b.r + i - 1] = first + i
    BY <1>3 DEF Content
  <2>2. b.r + i - 1 \in 0 .. k - 1
    BY SMTT(30), <1>1
  <2> DEFINE o == b.r + i - 1
  <2>6. o \in 0 .. k - 1 /\ o = b.r + i - 1
    BY <2>2
  <2> HIDE DEF o
  <2>7. p.mem[o] = IF o >= b.w /\ o < b.w + n THEN from + (o - b.w + 1) ELSE b.mem[o]
    BY <1>4, <2>6
  <2>3. CASE o >= b.w
    <3>1. o < b.w + n
      BY SMTT(30), <1>1, <2>6
    <3>2. p.mem[o] = from + (o - b.w + 1)
      BY <2>3, <2>7, <3>1
    <3>3. from + (o - b.w + 1) = first + i
      <4>1. \A f, w, r, j \in Int : (f + (w - r)) + ((r + j - 1) - w + 1) = f + j
        OBVIOUS
      <4>2. i \in Int /\ b.w \in Int /\ b.r \in Int /\ first \in Int
        BY <1>1
      <4>3. from = first + (b.w - b.r) /\ o = b.r + i - 1
        BY <1>1, <2>6
      <4>4. (first + (b.w - b.r)) + ((b.r + i - 1) - b.w + 1) = first + i
        BY <4>1, <4>2
      <4>5. QED
        BY <4>3, <4>4
    <3>4. QED
      BY <2>6, <3>2, <3>3
  <2>4. CASE o < b.w
    <3>1. i \in 1 .. b.w - b.r
      BY <1>1, <2>4, <2>6
    <3>2. b.mem[b.r + i - 1] = first + i
      BY <3>1 DEF Content
    <3>3. p.mem[o] = b.mem[o]
      BY <1>1, <2>4, <2>6, <2>7
    <3>4. QED
      BY <2>6, <3>2, <3>3
  <2>5. QED
    BY <1>1, <2>3, <2>4, <2>6
<1>8. QED
  BY <1>3, <1>6, <1>7 DEF p, bytes, from

\* makeSpace: sliding or copying keeps the readable bytes.
LEMMA MovedKeeps ==
  ASSUME NEW b, NEW k, Block(b, k), NEW first \in Nat, Content(b, first),
         NEW m \in Nat, NEW block \in [0 .. m - 1 -> Nat], NEW cap \in Nat,
         m <= cap, b.w - b.r <= m
  PROVE  LET p == Bytes!MovedInto(b, block, cap)
         IN  /\ Block(p, m) /\ Content(p, first)
             /\ p.r = 0 /\ p.w = b.w - b.r /\ p.cap = cap
<1> DEFINE p == Bytes!MovedInto(b, block, cap)
           n == b.w - b.r
<1>1. /\ b.r \in Nat /\ b.w \in Nat /\ b.r <= b.w /\ k \in Nat /\ b.w <= k
      /\ b.mem \in [0 .. k - 1 -> Nat]
  BY DEF Block
<1>2. /\ p.w = n /\ p.r = 0 /\ p.cap = cap
      /\ p.mem = [i \in 0 .. m - 1 |-> IF i < n THEN b.mem[b.r + i] ELSE block[i]]
  BY DEF Bytes!MovedInto
<1>3. n \in Nat /\ n <= m
  BY <1>1
<1> HIDE DEF p
<1>4. \A i \in 0 .. m - 1 : i < n => b.r + i \in 0 .. k - 1
  BY SMTT(30), <1>1
<1>5. p.mem \in [0 .. m - 1 -> Nat]
  BY <1>1, <1>2, <1>4
<1>6. Block(p, m)
  BY <1>2, <1>3, <1>5 DEF Block
<1>7. Content(p, first)
  <2>1. SUFFICES ASSUME NEW i \in 1 .. n PROVE p.mem[i - 1] = first + i
    BY <1>2, <1>3 DEF Content
  <2>2. i - 1 \in 0 .. m - 1 /\ i - 1 < n
    BY <1>3
  <2>3. p.mem[i - 1] = b.mem[b.r + (i - 1)]
    BY <1>2, <2>2
  <2>4. b.mem[b.r + i - 1] = first + i
    BY DEF Content
  <2>5. b.r + (i - 1) = b.r + i - 1
    BY <1>1
  <2>6. QED
    BY <2>3, <2>4, <2>5
<1>8. QED
  BY <1>2, <1>6, <1>7 DEF p
-----------------------------------------------------------------------------
\* The allocator's sizes are not less than what is asked for.
LEMMA RoundUpType == ASSUME NEW n \in Nat PROVE Bytes!RoundUp(n) \in Nat /\ n <= Bytes!RoundUp(n)
<1>1. \A u \in Nat \ {0} : ((n + u - 1) \div u) * u \in Nat /\ n <= ((n + u - 1) \div u) * u
  BY Z3
<1>2. QED
  BY <1>1, LibraryAssumption DEF Bytes!RoundUp

\* append, appendSlow: after what there was come the new bytes, wherever they are put.
LEMMA AppendedKeeps ==
  ASSUME NEW b, NEW k, Block(b, k), b.cap = k, NEW first \in Nat, Content(b, first), NEW n \in Nat
  PROVE  LET p == Bytes!Appended(b, Bytes!Numbers(n, Following(b, first)))
         IN  /\ \E m : Block(p, m)
             /\ Content(p, first) /\ p.w - p.r = b.w - b.r + n
<1> DEFINE bytes == Bytes!Numbers(n, Following(b, first))
           q == Bytes!MakeSpace(b, n)
<1>1. /\ b.r \in Nat /\ b.w \in Nat /\ b.r <= b.w /\ k \in Nat /\ b.w <= k /\ b.cap = k
      /\ b.mem \in [0 .. k - 1 -> Nat]
  BY DEF Block
<1>2. Len(bytes) = n
  BY DEF Bytes!Numbers
<1>3. CASE b.cap - b.w >= n
  <2>1. Bytes!Appended(b, bytes) = Bytes!Put(b, bytes)
    BY <1>2, <1>3 DEF Bytes!Appended
  <2>2. b.w + n <= k
    BY <1>1, <1>3
  <2>3. /\ Block(Bytes!Put(b, bytes), k) /\ Content(Bytes!Put(b, bytes), first)
        /\ Bytes!Put(b, bytes).w = b.w + n /\ Bytes!Put(b, bytes).r = b.r
    BY <2>2, PutKeeps
  <2> HIDE DEF bytes
  <2>4. QED
    BY <1>1, <2>1, <2>3 DEF bytes
<1>4. CASE ~(b.cap - b.w >= n)
  <2>1. Bytes!Appended(b, bytes) = Bytes!Put(q, bytes)
    BY <1>2, <1>4 DEF Bytes!Appended
  <2>2. PICK m : /\ Block(q, m) /\ Content(q, first)
                 /\ q.r = 0 /\ q.w = b.w - b.r /\ m \in Nat /\ b.w - b.r + n <= m
    <3>1. CASE b.cap - b.w + b.r < n
      <4> DEFINE m == Bytes!Max2(2 * b.cap, b.w - b.r + n)
                 cap == Bytes!RoundUp(m)
                 block == Bytes!Blank(m)
      <4>1. m \in Nat /\ b.w - b.r + n <= m
        BY <1>1 DEF Bytes!Max2
      <4> HIDE DEF m
      <4>2. cap \in Nat /\ m <= cap
        BY <4>1, RoundUpType
      <4>3. block \in [0 .. m - 1 -> Nat]
        BY DEF Bytes!Blank, Bytes!Junk
      <4>4. q = Bytes!MovedInto(b, block, cap)
        BY <3>1 DEF Bytes!MakeSpace, m
      <4> HIDE DEF block, cap
      <4>5. b.w - b.r <= m
        BY <1>1, <4>1
      <4>6. /\ Block(q, m) /\ Content(q, first) /\ q.r = 0 /\ q.w = b.w - b.r
        BY SMTT(30), <4>1, <4>2, <4>3, <4>4, <4>5, MovedKeeps
      <4>7. QED
        BY <4>1, <4>6
    <3>2. CASE ~(b.cap - b.w + b.r < n)
      <4>1. q = Bytes!MovedInto(b, b.mem, b.cap)
        BY <3>2 DEF Bytes!MakeSpace
      <4>2. b.w - b.r + n <= k /\ b.w - b.r <= k /\ k <= b.cap /\ b.cap \in Nat
        BY <1>1, <3>2
      <4> HIDE DEF q
      <4>5. k \in Nat /\ b.mem \in [0 .. k - 1 -> Nat]
        BY <1>1
      <4> DEFINE block == b.mem
                 cap == b.cap
                 p == Bytes!MovedInto(b, block, cap)
      <4>6. block \in [0 .. k - 1 -> Nat] /\ cap \in Nat /\ k <= cap /\ b.w - b.r <= k
        BY <4>2, <4>5
      <4> HIDE DEF block, cap
      <4>7. Block(p, k) /\ Content(p, first) /\ p.r = 0 /\ p.w = b.w - b.r
        BY <4>5, <4>6, MovedKeeps
      <4>3. /\ Block(q, k) /\ Content(q, first) /\ q.r = 0 /\ q.w = b.w - b.r
        BY <4>1, <4>7 DEF block, cap
      <4>4. QED
        BY <1>1, <4>2, <4>3
    <3>3. QED
      BY <3>1, <3>2
  <2>3. Following(q, first) = Following(b, first)
    BY <1>1, <2>2 DEF Following
  <2>4. q.w + n <= m /\ bytes = Bytes!Numbers(n, Following(q, first))
    BY <1>1, <2>2, <2>3
  <2> HIDE DEF bytes, q
  <2>5. /\ Block(Bytes!Put(q, bytes), m) /\ Content(Bytes!Put(q, bytes), first)
        /\ Bytes!Put(q, bytes).w = q.w + n /\ Bytes!Put(q, bytes).r = q.r
    BY <2>2, <2>4, PutKeeps
  <2>6. (b.w - b.r) + n = (q.w + n) - q.r
    BY <1>1, <2>2
  <2>7. QED
    BY <2>1, <2>5, <2>6 DEF bytes
<1>5. QED
  BY <1>3, <1>4

\* makeSpace: the block that a buffer goes over to keeps what is readable.
LEMMA BecomesKeeps ==
  ASSUME NEW b, NEW m, Block(b, m), Content(b, taken'), Bytes!Becomes(b),
         arrived' \in Nat, taken' \in Nat, b.w - b.r = arrived' - taken'
  PROVE  BufferInv'
<1>1. /\ b.r \in Nat /\ b.w \in Nat /\ b.r <= b.w /\ m \in Nat /\ b.w <= m /\ b.cap \in Nat /\ m <= b.cap
      /\ b.mem \in [0 .. m - 1 -> Nat]
  BY SMTT(30) DEF Block
<1>2. /\ mem' = [i \in 0 .. b.cap - 1 |-> IF i \in 0 .. m - 1 THEN b.mem[i] ELSE 0]
      /\ capacity' = b.cap /\ readerIndex' = b.r /\ writerIndex' = b.w
  BY <1>1 DEF Bytes!Becomes, Bytes!Junk
<1>3. mem' \in [0 .. b.cap - 1 -> Nat]
  BY <1>1, <1>2
<1>4. BufferTypes'
  BY <1>1, <1>2, <1>3 DEF BufferTypes
<1>5. \A i \in 1 .. b.w - b.r : mem'[b.r + i - 1] = taken' + i
  <2>1. TAKE i \in 1 .. b.w - b.r
  <2>2. b.r + i - 1 \in 0 .. m - 1 /\ b.r + i - 1 \in 0 .. b.cap - 1
    <3>1. \A r, w, n, c \in Nat : w <= n /\ n <= c =>
            \A j \in 1 .. w - r : r + j - 1 \in 0 .. n - 1 /\ r + j - 1 \in 0 .. c - 1
      OBVIOUS
    <3>2. QED
      BY <1>1, <3>1
  <2>3. mem'[b.r + i - 1] = b.mem[b.r + i - 1]
    BY <1>2, <2>2
  <2>4. QED
    BY <2>3 DEF Content
<1>6. BytesInOrder'
  BY <1>1, <1>2, <1>5 DEF BytesInOrder, Bytes!BytesInOrder, Bytes!readableBytes
<1>7. QED
  BY <1>4, <1>6 DEF BufferInv

\* The buffer as it stands.
LEMMA ThisHolds ==
  ASSUME BufferInv
  PROVE  /\ Block(Bytes!This, capacity) /\ Content(Bytes!This, taken)
         /\ Bytes!This.cap = capacity /\ Bytes!This.w = writerIndex /\ Bytes!This.r = readerIndex
         /\ Following(Bytes!This, taken) = arrived
<1> DEFINE b == Bytes!This
<1>1. b.mem = mem /\ b.cap = capacity /\ b.r = readerIndex /\ b.w = writerIndex
  BY DEF Bytes!This
<1> HIDE DEF b
<1>2. BufferTypes /\ 0 <= readerIndex /\ readerIndex <= writerIndex /\ writerIndex <= capacity
      /\ writerIndex - readerIndex = arrived - taken
      /\ \A i \in 1 .. writerIndex - readerIndex : mem[readerIndex + i - 1] = taken + i
  BY DEF BufferInv, BytesInOrder, Bytes!BytesInOrder, Bytes!readableBytes
<1>3. Block(b, capacity)
  BY <1>1, <1>2 DEF Block, BufferTypes
<1>4. Content(b, taken)
  BY <1>1, <1>2 DEF Content
<1>5. Following(b, taken) = arrived
  BY <1>1, <1>2 DEF Following, BufferTypes
<1>6. QED
  BY <1>1, <1>3, <1>4, <1>5 DEF b

\* append.
LEMMA AppendKeeps == ASSUME BufferInv, NEW n \in Nat, Bytes!AppendBytes(n) PROVE BufferInv'
<1> DEFINE b == Bytes!This
           p == Bytes!Appended(b, Bytes!Numbers(n, arrived))
<1>1. Bytes!Becomes(p) /\ arrived' = arrived + n /\ taken' = taken
  BY DEF Bytes!AppendBytes
<1>2. /\ Block(b, capacity) /\ Content(b, taken) /\ b.cap = capacity
      /\ b.w = writerIndex /\ b.r = readerIndex /\ Following(b, taken) = arrived
  BY ThisHolds
<1>3. /\ arrived \in Nat /\ taken \in Nat /\ writerIndex \in Nat /\ readerIndex \in Nat
      /\ writerIndex - readerIndex = arrived - taken
  BY DEF BufferInv, BufferTypes, BytesInOrder, Bytes!BytesInOrder, Bytes!readableBytes
<1> HIDE DEF b
<1>4. (\E m : Block(p, m)) /\ Content(p, taken) /\ p.w - p.r = b.w - b.r + n
  BY <1>2, <1>3, AppendedKeeps
<1> HIDE DEF p
<1>5. PICK m : Block(p, m)
  BY <1>4
<1>6. arrived' \in Nat /\ taken' \in Nat /\ p.w - p.r = arrived' - taken' /\ Content(p, taken')
  BY <1>1, <1>2, <1>3, <1>4
<1>7. QED
  BY <1>1, <1>5, <1>6, BecomesKeeps

\* retrieve.
LEMMA RetrieveKeeps == ASSUME BufferInv, NEW n \in Nat, Bytes!Retrieve(n) PROVE BufferInv'
<1>1. /\ BufferTypes /\ readerIndex <= writerIndex /\ writerIndex <= capacity
      /\ writerIndex - readerIndex = arrived - taken
      /\ \A i \in 1 .. writerIndex - readerIndex : mem[readerIndex + i - 1] = taken + i
  BY DEF BufferInv, BytesInOrder, Bytes!BytesInOrder, Bytes!readableBytes
<1>2. /\ n <= writerIndex - readerIndex /\ taken' = taken + n /\ arrived' = arrived
      /\ mem' = mem /\ capacity' = capacity
      /\ \/ n < writerIndex - readerIndex /\ readerIndex' = readerIndex + n /\ writerIndex' = writerIndex
         \/ ~(n < writerIndex - readerIndex) /\ readerIndex' = 0 /\ writerIndex' = 0
  BY DEF Bytes!Retrieve, Bytes!readableBytes
<1>3. BufferTypes'
  BY <1>1, <1>2 DEF BufferTypes
<1>4. /\ readerIndex' <= writerIndex' /\ writerIndex' <= capacity'
      /\ writerIndex' - readerIndex' = arrived' - taken'
  BY <1>1, <1>2 DEF BufferTypes
<1>5. ASSUME NEW i \in 1 .. writerIndex' - readerIndex' PROVE mem'[readerIndex' + i - 1] = taken' + i
  <2>1. /\ n + i \in 1 .. writerIndex - readerIndex
        /\ readerIndex' + i - 1 = readerIndex + (n + i) - 1 /\ taken' + i = taken + (n + i)
    BY <1>1, <1>2 DEF BufferTypes
  <2>2. mem[readerIndex + (n + i) - 1] = taken + (n + i)
    BY <1>1, <2>1
  <2>3. QED
    BY <1>2, <2>1, <2>2
<1>6. 0 <= readerIndex'
  BY <1>3 DEF BufferTypes
<1>7. QED
  BY <1>3, <1>4, <1>5, <1>6 DEF BufferInv, BytesInOrder, Bytes!BytesInOrder, Bytes!readableBytes

\* readFd: what a readv put into the block and into the spare buffer.
LEMMA ReadvKeeps == ASSUME BufferInv, NEW n \in Nat, Bytes!Readv(n) PROVE BufferInv'
<1> DEFINE b == Bytes!This
           here == IF n <= Bytes!writableBytes THEN n ELSE Bytes!writableBytes
           full == Bytes!Put(b, Bytes!Numbers(here, arrived))
           p == IF n > here THEN Bytes!Appended(full, Bytes!Numbers(n - here, arrived + here)) ELSE full
<1>1. Bytes!Becomes(p) /\ arrived' = arrived + n /\ taken' = taken
  BY DEF Bytes!Readv
<1>2. /\ Block(b, capacity) /\ Content(b, taken) /\ b.cap = capacity
      /\ b.w = writerIndex /\ b.r = readerIndex /\ Following(b, taken) = arrived
  BY ThisHolds
<1>3. /\ arrived \in Nat /\ taken \in Nat /\ writerIndex \in Nat /\ readerIndex \in Nat
      /\ writerIndex - readerIndex = arrived - taken /\ capacity \in Nat /\ writerIndex <= capacity
  BY DEF BufferInv, BufferTypes, BytesInOrder, Bytes!BytesInOrder, Bytes!readableBytes
<1>4. here \in Nat /\ here <= n /\ writerIndex + here <= capacity
  BY <1>3 DEF Bytes!writableBytes
<1> HIDE DEF b, here
<1>5. /\ Block(full, capacity) /\ Content(full, taken)
      /\ full.w = b.w + here /\ full.r = b.r /\ full.cap = b.cap
  <2>1. b.w + here <= capacity
    BY <1>2, <1>4
  <2>2. QED
    BY <1>2, <1>3, <1>4, <2>1, PutKeeps
<1> HIDE DEF full
<1>6. Following(full, taken) = arrived + here
  BY <1>2, <1>3, <1>4, <1>5 DEF Following
<1>7. (\E m : Block(p, m)) /\ Content(p, taken) /\ p.w - p.r = arrived + n - taken
  <2>1. CASE n > here
    <3>1. n - here \in Nat /\ full.cap = capacity
      BY <1>2, <1>4, <1>5, <2>1
    <3> DEFINE q == Bytes!Appended(full, Bytes!Numbers(n - here, arrived + here))
    <3>2. (\E m : Block(q, m)) /\ Content(q, taken) /\ q.w - q.r = full.w - full.r + (n - here)
      BY <1>3, <1>5, <1>6, <3>1, AppendedKeeps
    <3> HIDE DEF q
    <3>3. p = q
      BY <2>1 DEF q
    <3>4. full.w - full.r + (n - here) = arrived + n - taken
      BY <1>2, <1>3, <1>4, <1>5
    <3>5. QED
      BY <3>2, <3>3, <3>4
  <2>2. CASE ~(n > here)
    <3>1. p = full /\ n = here
      BY <1>4, <2>2
    <3>2. full.w - full.r = arrived + n - taken
      BY <1>2, <1>3, <1>4, <1>5, <3>1
    <3>3. QED
      BY <1>5, <3>1, <3>2
  <2>3. QED
    BY <2>1, <2>2
<1> HIDE DEF p
<1>8. PICK m : Block(p, m)
  BY <1>7
<1>9. arrived' \in Nat /\ taken' \in Nat /\ p.w - p.r = arrived' - taken' /\ Content(p, taken')
  BY <1>1, <1>3, <1>7
<1>10. QED
  BY <1>1, <1>8, <1>9, BecomesKeeps

\* A buffer is made empty.
LEMMA InitBuffer == Bytes!Init => BufferInv
BY LibraryAssumption
DEF Bytes!Init, BufferInv, BufferTypes, BytesInOrder, Bytes!BytesInOrder, Bytes!readableBytes,
    Bytes!Blank, Bytes!Junk

\* Every step of the library keeps the buffer in order.
LEMMA NextBuffer == BufferInv /\ [Next]_vars => BufferInv'
<1> SUFFICES ASSUME BufferInv, [Next]_vars PROVE BufferInv'
  OBVIOUS
<1>1. CASE UNCHANGED bufferVars
  <2>1. BufferTypes'
    BY <1>1 DEF BufferInv, BufferTypes, bufferVars
  <2>2. BytesInOrder'
    BY <1>1 DEF BufferInv, BytesInOrder, Bytes!BytesInOrder, Bytes!readableBytes, bufferVars
  <2>3. QED
    BY <2>1, <2>2 DEF BufferInv
<1>2. CASE Bytes!Next
  <2>1. ASSUME NEW n \in Lengths, Bytes!AppendBytes(n) PROVE BufferInv'
    BY <2>1, AppendKeeps, LibraryAssumption
  <2>2. ASSUME NEW n \in 0 .. Bytes!readableBytes, Bytes!Retrieve(n) PROVE BufferInv'
    <3>1. n \in Nat
      BY DEF Bytes!readableBytes, BufferInv, BufferTypes
    <3>2. QED
      BY <2>2, <3>1, RetrieveKeeps
  <2>3. CASE Bytes!ReadFd
    BY <2>3 DEF Bytes!ReadFd, BufferInv, BufferTypes, BytesInOrder, Bytes!BytesInOrder, Bytes!readableBytes
  <2>4. ASSUME NEW n \in 0 .. MaxBytes, Bytes!Readv(n) PROVE BufferInv'
    <3>1. n \in Nat
      OBVIOUS
    <3>2. QED
      BY <2>4, <3>1, ReadvKeeps
  <2>5. QED
    BY <1>2, <2>1, <2>2, <2>3, <2>4 DEF Bytes!Next
<1>3. QED
  BY <1>1, <1>2 DEF Next, Others, vars

\* Buffer: whatever is appended, read and retrieved, the readable bytes are those that
\* arrived and were not taken, in order, inside the block.
THEOREM BytesInOrderHolds == Spec => []BytesInOrder
<1>1. Init => BufferInv
  BY InitBuffer DEF Init
<1>2. BufferInv => BytesInOrder
  BY DEF BufferInv
<1>3. QED
  BY <1>1, <1>2, NextBuffer, PTL DEF Spec
-----------------------------------------------------------------------------
(***************************************************************************)
(* ArrayMpmcQueue: the slots.                                              *)
(***************************************************************************)
\* i & Mask.
LEMMA SlotType == \A i \in Nat : Mpmc!Slot(i) \in Mpmc!Slots
BY Division, LibraryAssumption DEF Mpmc!Slot, Mpmc!Slots

\* Indices less than a lap apart have slots of their own.
LEMMA SlotApart ==
  \A i, j \in Nat : Mpmc!Slot(i) = Mpmc!Slot(j) /\ i < j + Capacity /\ j < i + Capacity => i = j
BY SameSlot, LibraryAssumption DEF Mpmc!Slot

\* A lap later the slot is the same.
LEMMA SlotLap == \A i \in Nat : Mpmc!Slot(i + Capacity) = Mpmc!Slot(i)
BY NextLap, LibraryAssumption DEF Mpmc!Slot
-----------------------------------------------------------------------------
(***************************************************************************)
(* ArrayMpmcQueue: the inductive invariant.                                *)
(***************************************************************************)
Enqueueing == {"probeFree", "recheckFree", "reloadTail", "casTail"}
Dequeueing == {"probeItem", "recheckItem", "reloadHead", "casHead"}
Working == {"construct", "publish", "moveOut", "release"}

RingTypes ==
  /\ mHead \in Nat /\ mTail \in Nat /\ mHead <= mTail /\ mTail <= mHead + Capacity
  /\ sequence \in [Mpmc!Slots -> Nat]
  /\ mData \in [Mpmc!Slots -> (Producers \X Nat) \cup {Nothing}]
  /\ mSent \in [Producers -> Nat]
  /\ mPos \in [Mpmc!Procs -> Nat] /\ want \in [Mpmc!Procs -> Nat] /\ found \in [Mpmc!Procs -> Nat]
  /\ mPc \in [Mpmc!Procs -> {"idle"} \cup Enqueueing \cup Dequeueing \cup Working]

\* enqueueBulk, dequeueBulk: a call asks for something, looks at no more slots than there
\* are, and has found a slot when it goes on to take it.
InCall(p) ==
  /\ mPc[p] \in Enqueueing \cup {"construct", "publish"} => p \in Producers
  /\ mPc[p] \in Dequeueing \cup {"moveOut", "release"} => p \in Consumers
  /\ mPc[p] \in Enqueueing \cup Dequeueing => want[p] > 0
  /\ mPc[p] \in Working \cup {"casTail", "casHead"} => found[p] > 0
  /\ mPc[p] = "probeFree" => found[p] < Mpmc!Lesser(want[p], Capacity)
  /\ mPc[p] = "casTail" => found[p] <= Capacity

\* The slots that a call has probed: what it saw there is still so, or they have moved on.
Probed(p) ==
  /\ mPc[p] \in {"probeFree", "casTail"} =>
       \A i \in mPos[p] .. mPos[p] + found[p] - 1 : sequence[Mpmc!Slot(i)] >= i
  /\ mPc[p] \in {"probeItem", "casHead"} =>
       \A i \in mPos[p] .. mPos[p] + found[p] - 1 : sequence[Mpmc!Slot(i)] >= i + 1
  /\ mPc[p] \in Enqueueing => mPos[p] <= mTail
  /\ mPc[p] \in Dequeueing => mPos[p] <= mHead

\* enqueue: an index that a producer has won is in the queue, and its slot is the
\* producer's until it is published.
Constructing ==
  \A p \in Producers : \A i \in Mpmc!Won(p) :
    /\ mHead <= i /\ i < mTail
    /\ sequence[Mpmc!Slot(i)] = i
    /\ mData[Mpmc!Slot(i)] = Nothing <=> ~(mPc[p] = "publish" /\ i = mPos[p])

\* dequeue: the slot of an index that a consumer has won is not used for the next lap.
MovingOut ==
  \A c \in Consumers : \A i \in Mpmc!Won(c) :
    /\ mTail <= i + Capacity /\ i < mHead
    /\ sequence[Mpmc!Slot(i)] = i + 1
    /\ mData[Mpmc!Slot(i)] = Nothing <=> mPc[c] = "release" /\ i = mPos[c]

\* The CAS gives an index to one thread.
WonOnce == \A p, q \in Mpmc!Procs : \A i : i \in Mpmc!Won(p) /\ i \in Mpmc!Won(q) => p = q

\* An index in the queue is published, or a producer's.
QueuedSlots ==
  \A i \in Nat : mHead <= i /\ i < mTail =>
    \/ sequence[Mpmc!Slot(i)] = i + 1 /\ mData[Mpmc!Slot(i)] # Nothing
    \/ \E p \in Producers : i \in Mpmc!Won(p)

\* The slot of an index to come is free, or a consumer is still at the lap before.
FreeIndices ==
  \A i \in Nat : mTail <= i /\ i < mHead + Capacity =>
    \/ sequence[Mpmc!Slot(i)] = i /\ mData[Mpmc!Slot(i)] = Nothing
    \/ \E c \in Consumers : i - Capacity \in Mpmc!Won(c)

\* A sequence number never falls behind the indices that were given away.
Passed ==
  /\ \A i \in Nat : i < mTail => sequence[Mpmc!Slot(i)] >= i
  /\ \A i \in Nat : i < mHead => sequence[Mpmc!Slot(i)] >= i + 1

RingInv == /\ RingTypes /\ Constructing /\ MovingOut /\ WonOnce
           /\ QueuedSlots /\ FreeIndices /\ Passed
           /\ \A p \in Mpmc!Procs : InCall(p) /\ Probed(p)

ringVars == <<mHead, mTail, sequence, mData, mSent>>

\* The indices a process has won are naturals.
LEMMA WonType ==
  ASSUME RingTypes, NEW p \in Mpmc!Procs
  PROVE  /\ Mpmc!Won(p) \subseteq Nat
         /\ mPc[p] \in Working => Mpmc!Won(p) = mPos[p] .. mPos[p] + found[p] - 1
         /\ mPc[p] \notin Working => Mpmc!Won(p) = {}
<1>1. mPos[p] \in Nat /\ found[p] \in Nat
  BY DEF RingTypes
<1>2. Mpmc!Won(p) = IF mPc[p] \in Working THEN mPos[p] .. mPos[p] + found[p] - 1 ELSE {}
  BY DEF Mpmc!Won, Working
<1>3. QED
  BY <1>1, <1>2

\* The processes other than p stand where they stood.
Stay(p) == \A q \in Mpmc!Procs : q # p =>
             mPc'[q] = mPc[q] /\ mPos'[q] = mPos[q] /\ found'[q] = found[q] /\ want'[q] = want[q]

\* A process that does not move keeps what it has won.
LEMMA StayWon ==
  ASSUME NEW p, Stay(p), NEW q \in Mpmc!Procs, q # p
  PROVE  Mpmc!Won(q)' = Mpmc!Won(q) /\ (InCall(q) => InCall(q)')
BY DEF Stay, Mpmc!Won, InCall

\* What a process has seen while probing stays true when numbers and indices only grow.
LEMMA StayProbed ==
  ASSUME RingTypes, RingTypes', NEW p, Stay(p), NEW q \in Mpmc!Procs, q # p, Probed(q),
         mHead <= mHead', mTail <= mTail',
         \A s \in Mpmc!Slots : sequence[s] <= sequence'[s]
  PROVE  Probed(q)'
<1>1. mPc'[q] = mPc[q] /\ mPos'[q] = mPos[q] /\ found'[q] = found[q]
  BY DEF Stay
<1>2. /\ mPos[q] \in Nat /\ found[q] \in Nat /\ mHead \in Nat /\ mHead' \in Nat /\ mTail \in Nat /\ mTail' \in Nat
  BY DEF RingTypes
<1>3. \A i \in Nat : /\ sequence[Mpmc!Slot(i)] \in Nat /\ sequence'[Mpmc!Slot(i)] \in Nat
                     /\ sequence[Mpmc!Slot(i)] <= sequence'[Mpmc!Slot(i)]
  <2>1. \A s \in Mpmc!Slots : sequence[s] \in Nat /\ sequence'[s] \in Nat
    BY DEF RingTypes
  <2>2. QED
    BY <2>1, SlotType
<1>4. \A i \in mPos[q] .. mPos[q] + found[q] - 1 : i \in Nat
  BY <1>2
<1>5. ASSUME mPc[q] \in {"probeFree", "casTail"}, NEW i \in mPos[q] .. mPos[q] + found[q] - 1
      PROVE  sequence'[Mpmc!Slot(i)] >= i
  BY <1>3, <1>4, <1>5 DEF Probed
<1>6. ASSUME mPc[q] \in {"probeItem", "casHead"}, NEW i \in mPos[q] .. mPos[q] + found[q] - 1
      PROVE  sequence'[Mpmc!Slot(i)] >= i + 1
  BY <1>3, <1>4, <1>6 DEF Probed
<1>7. /\ mPc[q] \in Enqueueing => mPos[q] <= mTail'
      /\ mPc[q] \in Dequeueing => mPos[q] <= mHead'
  BY <1>2 DEF Probed
<1>8. QED
  BY <1>1, <1>5, <1>6, <1>7 DEF Probed, Mpmc!Slot

\* enqueueBulk, dequeueBulk: a step that touches nothing shared, of a process that works
\* on no slot before and after.
LEMMA RingQuiet ==
  ASSUME RingInv, NEW p \in Mpmc!Procs, UNCHANGED ringVars, Stay(p),
         mPc[p] \notin Working, mPc'[p] \notin Working,
         RingTypes', InCall(p)', Probed(p)'
  PROVE  RingInv'
<1>1. UNCHANGED <<mHead, mTail, sequence, mData, mSent>>
  BY DEF ringVars
<1>2. \A q \in Mpmc!Procs : Mpmc!Won(q)' = Mpmc!Won(q)
  BY StayWon DEF Mpmc!Won, Working
<1>3. \A q \in Mpmc!Procs : InCall(q)' /\ Probed(q)'
  <2>1. TAKE q \in Mpmc!Procs
  <2>2. CASE q = p
    BY <2>2
  <2>3. CASE q # p
    <3>1. InCall(q)'
      BY <2>3, StayWon DEF RingInv
    <3>2. \A s \in Mpmc!Slots : sequence[s] <= sequence'[s]
      BY <1>1 DEF RingInv, RingTypes
    <3>3. mHead <= mHead' /\ mTail <= mTail'
      BY <1>1 DEF RingInv, RingTypes
    <3>4. QED
      BY <2>3, <3>1, <3>2, <3>3, StayProbed DEF RingInv
  <2>4. QED
    BY <2>2, <2>3
<1>4. \A q \in Mpmc!Procs : Mpmc!Won(q) # {} => mPc'[q] = mPc[q] /\ mPos'[q] = mPos[q]
  BY DEF Mpmc!Won, Working, Stay
<1>5. \A q \in Producers \cup Consumers : q \in Mpmc!Procs
  BY DEF Mpmc!Procs
<1>6. Constructing'
  BY <1>1, <1>2, <1>4, <1>5 DEF RingInv, Constructing, Mpmc!Slot
<1>7. MovingOut'
  BY <1>1, <1>2, <1>4, <1>5 DEF RingInv, MovingOut, Mpmc!Slot
<1>8. WonOnce'
  BY <1>2 DEF RingInv, WonOnce, Mpmc!Procs
<1>9. QueuedSlots'
  BY <1>1, <1>2, <1>5 DEF RingInv, QueuedSlots, Mpmc!Slot
<1>10. FreeIndices'
  BY <1>1, <1>2, <1>5 DEF RingInv, FreeIndices, Mpmc!Slot
<1>11. Passed'
  BY <1>1 DEF RingInv, Passed, Mpmc!Slot
<1>12. QED
  BY <1>3, <1>6, <1>7, <1>8, <1>9, <1>10, <1>11 DEF RingInv, Mpmc!Procs

\* A call goes on to label l, with index i, n slots found and w asked for.
LEMMA RingMove ==
  ASSUME RingInv, NEW p \in Mpmc!Procs, UNCHANGED ringVars, mPc[p] \notin Working,
         NEW l \in {"idle"} \cup Enqueueing \cup Dequeueing, NEW i \in Nat, NEW n \in Nat, NEW w \in Nat,
         mPc' = [mPc EXCEPT ![p] = l], mPos' = [mPos EXCEPT ![p] = i],
         found' = [found EXCEPT ![p] = n], want' = [want EXCEPT ![p] = w],
         l \in Enqueueing => p \in Producers /\ i <= mTail /\ w > 0,
         l \in Dequeueing => p \in Consumers /\ i <= mHead /\ w > 0,
         l \in {"casTail", "casHead"} => n > 0,
         l = "probeFree" => n < Mpmc!Lesser(w, Capacity), l = "casTail" => n <= Capacity,
         l \in {"probeFree", "casTail"} => \A j \in i .. i + n - 1 : sequence[Mpmc!Slot(j)] >= j,
         l \in {"probeItem", "casHead"} => \A j \in i .. i + n - 1 : sequence[Mpmc!Slot(j)] >= j + 1
  PROVE  RingInv'
<1>1. UNCHANGED <<mHead, mTail, sequence, mData, mSent>> /\ RingTypes
  BY DEF ringVars, RingInv
<1>2. RingTypes'
  BY <1>1 DEF RingTypes, Mpmc!Procs, Mpmc!Slots
<1>3. mPc'[p] = l /\ mPos'[p] = i /\ found'[p] = n /\ want'[p] = w
  BY <1>1 DEF RingTypes
<1>4. Stay(p)
  BY <1>1 DEF RingTypes, Stay
<1>5. l \notin Working
  BY DEF Enqueueing, Dequeueing, Working
<1>6. InCall(p)'
  BY <1>3, <1>5 DEF InCall, Enqueueing, Dequeueing, Working, Mpmc!Lesser
<1>7. Probed(p)'
  BY <1>1, <1>3 DEF Probed, Mpmc!Slot
<1>8. QED
  BY <1>2, <1>3, <1>4, <1>5, <1>6, <1>7, RingQuiet

\* A call returns, having worked on no slot.
LEMMA RingReturn ==
  ASSUME RingInv, NEW p \in Mpmc!Procs, UNCHANGED ringVars, mPc[p] \notin Working, Mpmc!Return(p)
  PROVE  RingInv'
<1>1. /\ mPc' = [mPc EXCEPT ![p] = "idle"] /\ mPos' = [mPos EXCEPT ![p] = 0]
      /\ found' = [found EXCEPT ![p] = 0] /\ want' = [want EXCEPT ![p] = 0]
  BY DEF Mpmc!Return, Mpmc!ProbeFrom, Mpmc!Goto
<1>2. "idle" \notin Enqueueing \cup Dequeueing \cup {"casTail", "casHead", "probeFree", "probeItem"}
  BY DEF Enqueueing, Dequeueing
<1>3. QED
  BY <1>1, <1>2, RingMove

\* enqueue: a call begins, or starts over from the current _tail.
LEMMA ProbeFreeKeeps ==
  ASSUME RingInv, NEW p \in Producers, UNCHANGED ringVars, mPc[p] \notin Working,
         mPc' = [mPc EXCEPT ![p] = "probeFree"], Mpmc!ProbeFrom(p, mTail),
         NEW w \in Nat, w > 0, want' = [want EXCEPT ![p] = w]
  PROVE  RingInv'
<1>1. mPos' = [mPos EXCEPT ![p] = mTail] /\ found' = [found EXCEPT ![p] = 0] /\ p \in Mpmc!Procs
  BY DEF Mpmc!ProbeFrom, Mpmc!Procs
<1>2. mTail \in Nat /\ mTail <= mTail
  BY DEF RingInv, RingTypes
<1>3. 0 < Mpmc!Lesser(w, Capacity)
  BY LibraryAssumption DEF Mpmc!Lesser
<1>4. "probeFree" \in Enqueueing /\ "probeFree" \notin Dequeueing
  BY DEF Enqueueing, Dequeueing
<1>5. \A j \in mTail .. mTail + 0 - 1 : sequence[Mpmc!Slot(j)] >= j
  BY <1>2
<1>6. QED
  BY <1>1, <1>2, <1>3, <1>4, <1>5, RingMove

\* dequeue: the same from the current _head.
LEMMA ProbeItemKeeps ==
  ASSUME RingInv, NEW p \in Consumers, UNCHANGED ringVars, mPc[p] \notin Working,
         mPc' = [mPc EXCEPT ![p] = "probeItem"], Mpmc!ProbeFrom(p, mHead),
         NEW w \in Nat, w > 0, want' = [want EXCEPT ![p] = w]
  PROVE  RingInv'
<1>1. mPos' = [mPos EXCEPT ![p] = mHead] /\ found' = [found EXCEPT ![p] = 0] /\ p \in Mpmc!Procs
  BY DEF Mpmc!ProbeFrom, Mpmc!Procs
<1>2. mHead \in Nat /\ mHead <= mHead
  BY DEF RingInv, RingTypes
<1>3. "probeItem" \in Dequeueing /\ "probeItem" \notin Enqueueing
  BY DEF Enqueueing, Dequeueing
<1>4. \A j \in mHead .. mHead + 0 - 1 : sequence[Mpmc!Slot(j)] >= j + 1
  BY <1>2
<1>5. QED
  BY <1>1, <1>2, <1>3, <1>4, RingMove

\* enqueue: the steps that take no slot.
LEMMA EnqMoveKeeps ==
  ASSUME RingInv, NEW p \in Producers,
         \/ \E n \in 1 .. MaxBulk : Mpmc!EnqBegin(p, n)
         \/ Mpmc!EnqProbe(p) \/ Mpmc!EnqRecheck(p) \/ Mpmc!EnqReload(p)
  PROVE  RingInv'
<1>1. p \in Mpmc!Procs /\ RingTypes /\ InCall(p) /\ Probed(p)
  BY DEF RingInv, Mpmc!Procs
<1>2. mPos[p] \in Nat /\ found[p] \in Nat /\ want[p] \in Nat /\ mTail \in Nat
  BY <1>1 DEF RingTypes
<1>3. /\ mPos = [mPos EXCEPT ![p] = mPos[p]] /\ found = [found EXCEPT ![p] = found[p]]
      /\ want = [want EXCEPT ![p] = want[p]]
  BY <1>1 DEF RingTypes
<1>4. {"probeFree", "recheckFree", "reloadTail", "casTail"} = Enqueueing /\ Enqueueing \cap Dequeueing = {}
      /\ Enqueueing \cap Working = {} /\ "idle" \notin Working
  BY DEF Enqueueing, Dequeueing, Working
<1>5. ASSUME NEW n \in 1 .. MaxBulk, Mpmc!EnqBegin(p, n) PROVE RingInv'
  <2>1. /\ mPc[p] = "idle" /\ Mpmc!ProbeFrom(p, mTail) /\ want' = [want EXCEPT ![p] = n]
        /\ mPc' = [mPc EXCEPT ![p] = "probeFree"] /\ UNCHANGED ringVars
    BY <1>5 DEF Mpmc!EnqBegin, Mpmc!Goto, Mpmc!shared, ringVars
  <2>2. n \in Nat /\ n > 0 /\ mPc[p] \notin Working
    BY <1>4, <2>1
  <2>3. QED
    BY <2>1, <2>2, ProbeFreeKeeps
<1>6. CASE Mpmc!EnqReload(p)
  <2>1. /\ mPc[p] = "reloadTail" /\ Mpmc!ProbeFrom(p, mTail) /\ want' = want
        /\ mPc' = [mPc EXCEPT ![p] = "probeFree"] /\ UNCHANGED ringVars
    BY <1>6 DEF Mpmc!EnqReload, Mpmc!Goto, Mpmc!shared, ringVars
  <2>2. want[p] > 0 /\ mPc[p] \notin Working
    BY <1>1, <1>4, <2>1 DEF InCall
  <2>3. QED
    BY <1>2, <1>3, <2>1, <2>2, ProbeFreeKeeps
<1>7. CASE Mpmc!EnqRecheck(p)
  <2>1. mPc[p] = "recheckFree" /\ UNCHANGED ringVars /\ mPc[p] \notin Working
    BY <1>4, <1>7 DEF Mpmc!EnqRecheck, Mpmc!shared, ringVars
  <2>2. CASE Mpmc!Return(p)
    BY <1>1, <2>1, <2>2, RingReturn
  <2>3. CASE mPc' = [mPc EXCEPT ![p] = "reloadTail"] /\ UNCHANGED <<mPos, want, found>>
    <3>1. want[p] > 0 /\ mPos[p] <= mTail
      BY <1>1, <1>4, <2>1 DEF InCall, Probed
    <3>2. "reloadTail" \in Enqueueing /\ "reloadTail" \notin Dequeueing
          /\ "reloadTail" \notin {"casTail", "casHead", "probeFree", "probeItem"}
      BY <1>4
    <3>3. mPos' = [mPos EXCEPT ![p] = mPos[p]] /\ found' = [found EXCEPT ![p] = found[p]]
          /\ want' = [want EXCEPT ![p] = want[p]]
      BY <1>3, <2>3
    <3>4. PICK l : l = "reloadTail"
      OBVIOUS
    <3>5. mPc' = [mPc EXCEPT ![p] = l]
      BY <2>3, <3>4
    <3>6. QED
      BY <1>1, <1>2, <2>1, <3>1, <3>2, <3>3, <3>4, <3>5, RingMove
  <2>4. QED
    BY <1>7, <2>2, <2>3 DEF Mpmc!EnqRecheck, Mpmc!Goto
<1>8. CASE Mpmc!EnqProbe(p)
  <2> DEFINE i == mPos[p] + found[p]
             limit == Mpmc!Lesser(want[p], Capacity)
  <2>1. mPc[p] = "probeFree" /\ UNCHANGED <<mPos, want>> /\ UNCHANGED ringVars /\ mPc[p] \notin Working
    BY <1>4, <1>8 DEF Mpmc!EnqProbe, Mpmc!Probe, Mpmc!shared, ringVars
  <2>2. /\ want[p] > 0 /\ mPos[p] <= mTail /\ found[p] < limit
        /\ \A j \in mPos[p] .. mPos[p] + found[p] - 1 : sequence[Mpmc!Slot(j)] >= j
    BY <1>1, <1>4, <2>1 DEF InCall, Probed
  <2>3. limit \in Nat /\ limit <= Capacity
    BY <1>2, LibraryAssumption DEF Mpmc!Lesser
  <2>4. mPos' = [mPos EXCEPT ![p] = mPos[p]] /\ want' = [want EXCEPT ![p] = want[p]]
    BY <1>3, <2>1
  <2>5. CASE sequence[Mpmc!Slot(i)] = i
    <3>1. PICK n \in Nat : n = found[p] + 1
      BY <1>2
    <3>2. found' = [found EXCEPT ![p] = n] /\ found'[p] = n
      BY <1>1, <1>8, <2>5, <3>1 DEF Mpmc!EnqProbe, Mpmc!Probe, RingTypes
    <3>3. PICK l : l = IF n = limit THEN "casTail" ELSE "probeFree"
      OBVIOUS
    <3>4. mPc' = [mPc EXCEPT ![p] = l]
      BY <1>8, <2>5, <3>2, <3>3 DEF Mpmc!EnqProbe, Mpmc!Probe, Mpmc!Goto
    <3>5. /\ l \in {"casTail", "probeFree"} /\ (l = "probeFree" => n < limit) /\ n <= Capacity /\ n > 0
      BY <1>2, <2>2, <2>3, <3>1, <3>3, LibraryAssumption
    <3>6. \A j \in mPos[p] .. mPos[p] + n - 1 : sequence[Mpmc!Slot(j)] >= j
      <4>1. TAKE j \in mPos[p] .. mPos[p] + n - 1
      <4>2. j \in mPos[p] .. mPos[p] + found[p] - 1 \/ j = i
        BY <1>2, <3>1
      <4>3. i >= i
        BY <1>2
      <4>4. QED
        BY <2>2, <2>5, <4>2, <4>3
    <3>7. l \in Enqueueing /\ l \notin Dequeueing /\ l \notin {"probeItem", "casHead"}
      BY <3>5 DEF Enqueueing, Dequeueing
    <3> HIDE DEF i
    <3>8. QED
      BY <1>1, <1>2, <2>1, <2>2, <2>4, <3>2, <3>4, <3>5, <3>6, <3>7, RingMove
  <2>6. CASE sequence[Mpmc!Slot(i)] # i
    <3>1. PICK l : l = IF found[p] = 0 THEN "recheckFree" ELSE "casTail"
      OBVIOUS
    <3>2. found' = [found EXCEPT ![p] = found[p]] /\ mPc' = [mPc EXCEPT ![p] = l]
      BY <1>3, <1>8, <2>6, <3>1 DEF Mpmc!EnqProbe, Mpmc!Probe, Mpmc!Goto
    <3>3. l \in {"recheckFree", "casTail"} /\ (l = "casTail" => found[p] > 0) /\ found[p] <= Capacity
      BY <1>2, <2>2, <2>3, <3>1, LibraryAssumption
    <3>4. l \in Enqueueing /\ l \notin Dequeueing /\ l \notin {"probeItem", "casHead", "probeFree"}
      BY <3>3 DEF Enqueueing, Dequeueing
    <3> HIDE DEF i, limit
    <3>5. /\ l \in {"idle"} \cup Enqueueing \cup Dequeueing /\ mPos[p] \in Nat /\ found[p] \in Nat /\ want[p] \in Nat
          /\ l \in Enqueueing => p \in Producers /\ mPos[p] <= mTail /\ want[p] > 0
      BY <1>1, <1>2, <2>2, <3>4
    <3>6. /\ l \in Dequeueing => p \in Consumers /\ mPos[p] <= mHead /\ want[p] > 0
          /\ l = "probeFree" => found[p] < Mpmc!Lesser(want[p], Capacity)
          /\ l \in {"casTail", "casHead"} => found[p] > 0
          /\ l = "casTail" => found[p] <= Capacity
      BY <3>3, <3>4
    <3>7. /\ l \in {"probeFree", "casTail"} => \A j \in mPos[p] .. mPos[p] + found[p] - 1 : sequence[Mpmc!Slot(j)] >= j
          /\ l \in {"probeItem", "casHead"} => \A j \in mPos[p] .. mPos[p] + found[p] - 1 : sequence[Mpmc!Slot(j)] >= j + 1
      BY <2>2, <3>4
    <3>8. QED
      BY <1>1, <2>1, <2>4, <3>2, <3>5, <3>6, <3>7, RingMove, ZenonT(30)
  <2>7. QED
    BY <2>5, <2>6
<1>9. QED
  BY <1>5, <1>6, <1>7, <1>8

\* dequeue: the steps that take no slot.
LEMMA DeqMoveKeeps ==
  ASSUME RingInv, NEW p \in Consumers,
         \/ \E n \in 1 .. MaxBulk : Mpmc!DeqBegin(p, n)
         \/ Mpmc!DeqProbe(p) \/ Mpmc!DeqRecheck(p) \/ Mpmc!DeqReload(p)
  PROVE  RingInv'
<1>1. p \in Mpmc!Procs /\ RingTypes /\ InCall(p) /\ Probed(p)
  BY DEF RingInv, Mpmc!Procs
<1>2. mPos[p] \in Nat /\ found[p] \in Nat /\ want[p] \in Nat /\ mHead \in Nat
  BY <1>1 DEF RingTypes
<1>3. /\ mPos = [mPos EXCEPT ![p] = mPos[p]] /\ found = [found EXCEPT ![p] = found[p]]
      /\ want = [want EXCEPT ![p] = want[p]]
  BY <1>1 DEF RingTypes
<1>4. {"probeItem", "recheckItem", "reloadHead", "casHead"} = Dequeueing /\ Enqueueing \cap Dequeueing = {}
      /\ Dequeueing \cap Working = {} /\ "idle" \notin Working
  BY DEF Enqueueing, Dequeueing, Working
<1>5. ASSUME NEW n \in 1 .. MaxBulk, Mpmc!DeqBegin(p, n) PROVE RingInv'
  <2>1. /\ mPc[p] = "idle" /\ Mpmc!ProbeFrom(p, mHead) /\ want' = [want EXCEPT ![p] = n]
        /\ mPc' = [mPc EXCEPT ![p] = "probeItem"] /\ UNCHANGED ringVars
    BY <1>5 DEF Mpmc!DeqBegin, Mpmc!Goto, Mpmc!shared, ringVars
  <2>2. n \in Nat /\ n > 0 /\ mPc[p] \notin Working
    BY <1>4, <2>1
  <2>3. QED
    BY <2>1, <2>2, ProbeItemKeeps
<1>6. CASE Mpmc!DeqReload(p)
  <2>1. /\ mPc[p] = "reloadHead" /\ Mpmc!ProbeFrom(p, mHead) /\ want' = want
        /\ mPc' = [mPc EXCEPT ![p] = "probeItem"] /\ UNCHANGED ringVars
    BY <1>6 DEF Mpmc!DeqReload, Mpmc!Goto, Mpmc!shared, ringVars
  <2>2. want[p] > 0 /\ mPc[p] \notin Working
    BY <1>1, <1>4, <2>1 DEF InCall
  <2>3. QED
    BY <1>2, <1>3, <2>1, <2>2, ProbeItemKeeps
<1>7. CASE Mpmc!DeqRecheck(p)
  <2>1. mPc[p] = "recheckItem" /\ UNCHANGED ringVars /\ mPc[p] \notin Working
    BY <1>4, <1>7 DEF Mpmc!DeqRecheck, Mpmc!shared, ringVars
  <2>2. CASE Mpmc!Return(p)
    BY <1>1, <2>1, <2>2, RingReturn
  <2>3. CASE mPc' = [mPc EXCEPT ![p] = "reloadHead"] /\ UNCHANGED <<mPos, want, found>>
    <3>1. want[p] > 0 /\ mPos[p] <= mHead
      BY <1>1, <1>4, <2>1 DEF InCall, Probed
    <3>2. PICK l : l = "reloadHead"
      OBVIOUS
    <3>3. /\ l \in Dequeueing /\ l \notin Enqueueing
          /\ l \notin {"casTail", "casHead", "probeFree", "probeItem"}
      BY <1>4, <3>2
    <3>4. mPos' = [mPos EXCEPT ![p] = mPos[p]] /\ found' = [found EXCEPT ![p] = found[p]]
          /\ want' = [want EXCEPT ![p] = want[p]]
      BY <1>3, <2>3
    <3>5. mPc' = [mPc EXCEPT ![p] = l]
      BY <2>3, <3>2
    <3>6. QED
      BY <1>1, <1>2, <2>1, <3>1, <3>3, <3>4, <3>5, RingMove
  <2>4. QED
    BY <1>7, <2>2, <2>3 DEF Mpmc!DeqRecheck, Mpmc!Goto
<1>8. CASE Mpmc!DeqProbe(p)
  <2> DEFINE i == mPos[p] + found[p]
  <2>1. mPc[p] = "probeItem" /\ UNCHANGED <<mPos, want>> /\ UNCHANGED ringVars /\ mPc[p] \notin Working
    BY <1>4, <1>8 DEF Mpmc!DeqProbe, Mpmc!Probe, Mpmc!shared, ringVars
  <2>2. /\ want[p] > 0 /\ mPos[p] <= mHead
        /\ \A j \in mPos[p] .. mPos[p] + found[p] - 1 : sequence[Mpmc!Slot(j)] >= j + 1
    BY <1>1, <1>4, <2>1 DEF InCall, Probed
  <2>4. mPos' = [mPos EXCEPT ![p] = mPos[p]] /\ want' = [want EXCEPT ![p] = want[p]]
    BY <1>3, <2>1
  <2>5. CASE sequence[Mpmc!Slot(i)] = i + 1
    <3>1. PICK n \in Nat : n = found[p] + 1
      BY <1>2
    <3>2. found' = [found EXCEPT ![p] = n] /\ found'[p] = n
      BY <1>1, <1>8, <2>5, <3>1 DEF Mpmc!DeqProbe, Mpmc!Probe, RingTypes
    <3>3. PICK l : l = IF n = want[p] THEN "casHead" ELSE "probeItem"
      OBVIOUS
    <3>4. mPc' = [mPc EXCEPT ![p] = l]
      BY <1>8, <2>5, <3>2, <3>3 DEF Mpmc!DeqProbe, Mpmc!Probe, Mpmc!Goto
    <3>5. l \in {"casHead", "probeItem"} /\ n > 0
      BY <1>2, <3>1, <3>3
    <3>6. \A j \in mPos[p] .. mPos[p] + n - 1 : sequence[Mpmc!Slot(j)] >= j + 1
      <4>1. TAKE j \in mPos[p] .. mPos[p] + n - 1
      <4>2. j \in mPos[p] .. mPos[p] + found[p] - 1 \/ j = i
        BY <1>2, <3>1
      <4>3. i + 1 >= i + 1
        BY <1>2
      <4>4. QED
        BY <2>2, <2>5, <4>2, <4>3
    <3>7. l \in Dequeueing /\ l \notin Enqueueing /\ l \notin {"probeFree", "casTail"}
      BY <3>5 DEF Enqueueing, Dequeueing
    <3> HIDE DEF i
    <3>8. QED
      BY <1>1, <1>2, <2>1, <2>2, <2>4, <3>2, <3>4, <3>5, <3>6, <3>7, RingMove
  <2>6. CASE sequence[Mpmc!Slot(i)] # i + 1
    <3>1. PICK n \in Nat : n = found[p]
      BY <1>2
    <3>2. PICK l : l = IF n = 0 THEN "recheckItem" ELSE "casHead"
      OBVIOUS
    <3>3. found' = [found EXCEPT ![p] = n] /\ mPc' = [mPc EXCEPT ![p] = l]
      BY <1>3, <1>8, <2>6, <3>1, <3>2 DEF Mpmc!DeqProbe, Mpmc!Probe, Mpmc!Goto
    <3>4. l \in {"recheckItem", "casHead"} /\ (l = "casHead" => n > 0)
      BY <3>1, <3>2
    <3>5. l \in Dequeueing /\ l \notin Enqueueing /\ l \notin {"probeFree", "casTail", "probeItem"}
      BY <3>4 DEF Enqueueing, Dequeueing
    <3>6. \A j \in mPos[p] .. mPos[p] + n - 1 : sequence[Mpmc!Slot(j)] >= j + 1
      BY <2>2, <3>1
    <3> HIDE DEF i
    <3>7. PICK k \in Nat, w \in Nat : k = mPos[p] /\ w = want[p]
      BY <1>2
    <3>8. /\ mPos' = [mPos EXCEPT ![p] = k] /\ want' = [want EXCEPT ![p] = w] /\ k <= mHead /\ w > 0
          /\ \A j \in k .. k + n - 1 : sequence[Mpmc!Slot(j)] >= j + 1
      BY <2>2, <2>4, <3>6, <3>7
    <3>9. l \in {"idle"} \cup Enqueueing \cup Dequeueing
      BY <3>5
    <3>10. /\ l \in Enqueueing => p \in Producers /\ k <= mTail /\ w > 0
           /\ l \in Dequeueing => p \in Consumers /\ k <= mHead /\ w > 0
           /\ l \in {"casTail", "casHead"} => n > 0
           /\ l = "probeFree" => n < Mpmc!Lesser(w, Capacity)
           /\ l = "casTail" => n <= Capacity
           /\ l \in {"probeFree", "casTail"} => \A j \in k .. k + n - 1 : sequence[Mpmc!Slot(j)] >= j
           /\ l \in {"probeItem", "casHead"} => \A j \in k .. k + n - 1 : sequence[Mpmc!Slot(j)] >= j + 1
      BY <3>4, <3>5, <3>8
    <3>11. mPc[p] \notin Working /\ UNCHANGED ringVars /\ p \in Mpmc!Procs
      BY <1>1, <2>1
    <3>12. QED
      BY ZenonT(30), <3>3, <3>8, <3>9, <3>10, <3>11, RingMove
  <2>7. QED
    BY <2>5, <2>6
<1>9. QED
  BY <1>5, <1>6, <1>7, <1>8
-----------------------------------------------------------------------------
(***************************************************************************)
(* ArrayMpmcQueue: the CAS on _tail and on _head.                          *)
(***************************************************************************)
\* What the invariant says of the numbers of the slots, in one place.
LEMMA RingFacts ==
  ASSUME RingInv
  PROVE  /\ Capacity \in Nat /\ Capacity > 0
         /\ mHead \in Nat /\ mTail \in Nat /\ mHead <= mTail /\ mTail <= mHead + Capacity
         /\ \A i \in Nat : Mpmc!Slot(i) \in Mpmc!Slots /\ sequence[Mpmc!Slot(i)] \in Nat
         /\ \A i \in Nat : mHead <= i /\ i < mTail =>
              sequence[Mpmc!Slot(i)] = i + 1 \/ sequence[Mpmc!Slot(i)] = i
         /\ \A i \in Nat : mTail <= i /\ i < mHead + Capacity =>
              \/ sequence[Mpmc!Slot(i)] = i
              \/ i - Capacity \in Nat /\ sequence[Mpmc!Slot(i)] = i - Capacity + 1
<1>1. /\ Capacity \in Nat /\ Capacity > 0 /\ RingTypes
      /\ mHead \in Nat /\ mTail \in Nat /\ mHead <= mTail /\ mTail <= mHead + Capacity
  BY LibraryAssumption DEF RingInv, RingTypes
<1>2. \A i \in Nat : Mpmc!Slot(i) \in Mpmc!Slots /\ sequence[Mpmc!Slot(i)] \in Nat
  BY <1>1, SlotType DEF RingTypes
<1>3. ASSUME NEW i \in Nat, mHead <= i, i < mTail
      PROVE  sequence[Mpmc!Slot(i)] = i + 1 \/ sequence[Mpmc!Slot(i)] = i
  BY <1>3 DEF RingInv, QueuedSlots, Constructing
<1>4. ASSUME NEW i \in Nat, mTail <= i, i < mHead + Capacity
      PROVE  \/ sequence[Mpmc!Slot(i)] = i
             \/ i - Capacity \in Nat /\ sequence[Mpmc!Slot(i)] = i - Capacity + 1
  <2>1. CASE \E c \in Consumers : i - Capacity \in Mpmc!Won(c)
    <3>1. PICK c \in Consumers : i - Capacity \in Mpmc!Won(c)
      BY <2>1
    <3>2. i - Capacity \in Nat
      BY <1>1, <3>1, WonType DEF Mpmc!Procs
    <3>3. sequence[Mpmc!Slot(i - Capacity)] = i - Capacity + 1
      BY <3>1 DEF RingInv, MovingOut
    <3>4. i = (i - Capacity) + Capacity
      BY <1>1
    <3>5. Mpmc!Slot(i) = Mpmc!Slot(i - Capacity)
      BY <3>2, <3>4, SlotLap, Zenon
    <3>6. QED
      BY <3>2, <3>3, <3>5
  <2>2. QED
    BY <1>4, <2>1 DEF RingInv, FreeIndices
<1>5. QED
  BY <1>1, <1>2, <1>3, <1>4

\* enqueue: slots that were free when probed are free as long as _tail stands before them.
LEMMA FreeAtTail ==
  ASSUME RingInv, Capacity # 1, NEW n \in Nat, n <= Capacity,
         \A i \in mTail .. mTail + n - 1 : sequence[Mpmc!Slot(i)] >= i
  PROVE  /\ mTail + n <= mHead + Capacity
         /\ \A i \in mTail .. mTail + n - 1 : sequence[Mpmc!Slot(i)] = i /\ mData[Mpmc!Slot(i)] = Nothing
         /\ \A c \in Consumers : \A i \in Mpmc!Won(c) : mTail + n <= i + Capacity
<1>1. /\ Capacity \in Nat /\ Capacity > 1
      /\ mHead \in Nat /\ mTail \in Nat /\ mHead <= mTail /\ mTail <= mHead + Capacity
  BY RingFacts
<1>2. mTail + n <= mHead + Capacity
  <2>1. SUFFICES ASSUME mTail + n > mHead + Capacity PROVE FALSE
    BY <1>1
  <2>2. mHead < mTail /\ mHead + Capacity \in mTail .. mTail + n - 1
    BY <1>1, <2>1
  <2>3. sequence[Mpmc!Slot(mHead)] >= mHead + Capacity
    BY <1>1, <2>2, SlotLap
  <2>4. sequence[Mpmc!Slot(mHead)] = mHead + 1 \/ sequence[Mpmc!Slot(mHead)] = mHead
    BY <1>1, <2>2, RingFacts
  <2>5. QED
    BY <1>1, <2>3, <2>4
<1>3. ASSUME NEW c \in Consumers, NEW i \in Mpmc!Won(c) PROVE mTail + n <= i + Capacity
  <2>1. i \in Nat /\ mTail <= i + Capacity /\ sequence[Mpmc!Slot(i)] = i + 1
    BY WonType DEF RingInv, MovingOut, Mpmc!Procs
  <2>2. SUFFICES ASSUME i + Capacity < mTail + n PROVE FALSE
    BY <1>1, <2>1
  <2>3. i + Capacity \in mTail .. mTail + n - 1
    BY <1>1, <2>1, <2>2
  <2>4. sequence[Mpmc!Slot(i)] >= i + Capacity
    BY <2>1, <2>3, SlotLap
  <2>5. QED
    BY <1>1, <2>1, <2>4
<1>4. ASSUME NEW i \in mTail .. mTail + n - 1
      PROVE  sequence[Mpmc!Slot(i)] = i /\ mData[Mpmc!Slot(i)] = Nothing
  <2>1. i \in Nat /\ mTail <= i /\ i < mHead + Capacity
    BY <1>1, <1>2
  <2>2. CASE \E c \in Consumers : i - Capacity \in Mpmc!Won(c)
    <3>1. PICK c \in Consumers : i - Capacity \in Mpmc!Won(c)
      BY <2>2
    <3>2. mTail + n <= (i - Capacity) + Capacity
      BY <1>3, <3>1
    <3>3. QED
      BY <1>1, <2>1, <3>2
  <2>3. QED
    BY <2>1, <2>2 DEF RingInv, FreeIndices
<1>5. QED
  BY <1>2, <1>3, <1>4

\* dequeue: slots that held items when probed hold them as long as _head stands before them.
LEMMA ItemsAtHead ==
  ASSUME RingInv, NEW n \in Nat,
         \A i \in mHead .. mHead + n - 1 : sequence[Mpmc!Slot(i)] >= i + 1
  PROVE  /\ mHead + n <= mTail
         /\ \A i \in mHead .. mHead + n - 1 : sequence[Mpmc!Slot(i)] = i + 1 /\ mData[Mpmc!Slot(i)] # Nothing
         /\ \A p \in Producers : \A i \in Mpmc!Won(p) : mHead + n <= i
<1>1. /\ Capacity \in Nat /\ Capacity > 0
      /\ mHead \in Nat /\ mTail \in Nat /\ mHead <= mTail /\ mTail <= mHead + Capacity
  BY RingFacts
<1>2. mHead + n <= mTail
  <2>1. SUFFICES ASSUME mTail < mHead + n PROVE FALSE
    BY <1>1
  <2>2. mTail \in mHead .. mHead + n - 1
    BY <1>1, <2>1
  <2>3. sequence[Mpmc!Slot(mTail)] >= mTail + 1
    BY <2>2
  <2>4. CASE mTail < mHead + Capacity
    <3>1. \/ sequence[Mpmc!Slot(mTail)] = mTail
          \/ sequence[Mpmc!Slot(mTail)] = mTail - Capacity + 1
      BY <1>1, <2>4, RingFacts
    <3>2. QED
      BY <1>1, <2>3, <3>1
  <2>5. CASE mTail = mHead + Capacity
    <3>1. Mpmc!Slot(mTail) = Mpmc!Slot(mHead)
      BY <1>1, <2>5, SlotLap
    <3>2. sequence[Mpmc!Slot(mHead)] = mHead + 1 \/ sequence[Mpmc!Slot(mHead)] = mHead
      BY <1>1, <2>5, RingFacts
    <3>3. QED
      BY <1>1, <2>3, <2>5, <3>1, <3>2
  <2>6. QED
    BY <1>1, <2>4, <2>5
<1>3. ASSUME NEW p \in Producers, NEW i \in Mpmc!Won(p) PROVE mHead + n <= i
  <2>1. i \in Nat /\ mHead <= i /\ sequence[Mpmc!Slot(i)] = i
    BY WonType DEF RingInv, Constructing, Mpmc!Procs
  <2>2. SUFFICES ASSUME i < mHead + n PROVE FALSE
    BY <1>1, <2>1
  <2>3. i \in mHead .. mHead + n - 1
    BY <1>1, <2>1, <2>2
  <2>4. QED
    BY <2>1, <2>3
<1>4. ASSUME NEW i \in mHead .. mHead + n - 1
      PROVE  sequence[Mpmc!Slot(i)] = i + 1 /\ mData[Mpmc!Slot(i)] # Nothing
  <2>1. i \in Nat /\ mHead <= i /\ i < mTail /\ i < mHead + n
    BY <1>1, <1>2
  <2>2. \A p \in Producers : i \notin Mpmc!Won(p)
    BY <1>1, <1>3, <2>1
  <2>3. QED
    BY <2>1, <2>2 DEF RingInv, QueuedSlots
<1>5. QED
  BY <1>2, <1>3, <1>4

\* The others' indices when p wins some from first on.
WinsFrom(p, first, l) ==
  /\ mPc[p] \notin Working /\ mPc' = [mPc EXCEPT ![p] = l] /\ l \in Working
  /\ UNCHANGED <<mPos, found, want>> /\ mPos[p] = first

\* A CAS changes the indices of no other thread, and nothing about its own calls.
LEMMA WinsKeeps ==
  ASSUME RingInv, NEW p \in Mpmc!Procs, NEW first, NEW l, WinsFrom(p, first, l),
         l \in {"construct", "publish"} => p \in Producers,
         l \in {"moveOut", "release"} => p \in Consumers, found[p] > 0,
         UNCHANGED <<sequence, mData, mSent>>,
         mHead' \in Nat, mTail' \in Nat, mHead <= mHead', mTail <= mTail',
         mHead' <= mTail', mTail' <= mHead' + Capacity
  PROVE  /\ RingTypes' /\ \A q \in Mpmc!Procs : InCall(q)' /\ Probed(q)'
         /\ \A q \in Mpmc!Procs : q # p => Mpmc!Won(q)' = Mpmc!Won(q) /\ mPc'[q] = mPc[q]
         /\ Mpmc!Won(p) = {} /\ Mpmc!Won(p)' = first .. first + found[p] - 1 /\ mPc'[p] = l
<1>1. RingTypes /\ RingTypes'
  BY DEF RingInv, RingTypes, WinsFrom, Mpmc!Procs, Mpmc!Slots
<1>2. Stay(p)
  BY <1>1 DEF Stay, RingTypes, WinsFrom
<1>3. mPc'[p] = l /\ l \in Working
  BY <1>1 DEF RingTypes, WinsFrom
<1>4. Mpmc!Won(p) = {} /\ Mpmc!Won(p)' = first .. first + found[p] - 1
  BY <1>3 DEF Mpmc!Won, Working, WinsFrom
<1>5. InCall(p)' /\ Probed(p)'
  BY <1>3 DEF InCall, Probed, WinsFrom, Working, Enqueueing, Dequeueing
<1>6. \A s \in Mpmc!Slots : sequence[s] <= sequence'[s]
  BY <1>1 DEF RingTypes
<1>7. ASSUME NEW q \in Mpmc!Procs, q # p PROVE InCall(q)' /\ Probed(q)'
  BY <1>1, <1>2, <1>6, <1>7, StayWon, StayProbed DEF RingInv
<1>8. \A q \in Mpmc!Procs : q # p => Mpmc!Won(q)' = Mpmc!Won(q) /\ mPc'[q] = mPc[q]
  BY <1>2, StayWon DEF Stay
<1>9. QED
  BY <1>1, <1>3, <1>4, <1>5, <1>7, <1>8

\* enqueue: the CAS on _tail, won or lost.
LEMMA EnqCasKeeps == ASSUME RingInv, Capacity # 1, NEW p \in Producers, Mpmc!EnqCas(p) PROVE RingInv'
<1>1. p \in Mpmc!Procs /\ RingTypes /\ InCall(p) /\ Probed(p) /\ mPc[p] = "casTail" /\ mPc[p] \notin Working
  BY DEF RingInv, Mpmc!Procs, Mpmc!EnqCas, Working
<1>2. CASE mTail # mPos[p]
  <2>1. /\ Mpmc!ProbeFrom(p, mTail) /\ mPc' = [mPc EXCEPT ![p] = "probeFree"] /\ UNCHANGED ringVars
        /\ want' = want
    BY <1>2 DEF Mpmc!EnqCas, Mpmc!Goto, ringVars
  <2>2. want[p] > 0 /\ want[p] \in Nat /\ want = [want EXCEPT ![p] = want[p]]
    BY <1>1 DEF RingTypes, InCall, Enqueueing
  <2>3. QED
    BY <1>1, <2>1, <2>2, ProbeFreeKeeps
<1>3. CASE mTail = mPos[p]
  <2> DEFINE n == found[p]
  <2>1. /\ mTail' = mTail + n /\ UNCHANGED <<mHead, sequence, mData, mSent>>
        /\ WinsFrom(p, mTail, "construct")
    BY <1>1, <1>3 DEF Mpmc!EnqCas, Mpmc!Goto, WinsFrom, Working
  <2>2. n \in Nat /\ n > 0 /\ n <= Capacity /\ \A i \in mTail .. mTail + n - 1 : sequence[Mpmc!Slot(i)] >= i
    BY <1>1, <1>3 DEF RingTypes, InCall, Probed
  <2>3. /\ mTail + n <= mHead + Capacity
        /\ \A i \in mTail .. mTail + n - 1 : sequence[Mpmc!Slot(i)] = i /\ mData[Mpmc!Slot(i)] = Nothing
        /\ \A c \in Consumers : \A i \in Mpmc!Won(c) : mTail + n <= i + Capacity
    BY <2>2, FreeAtTail
  <2>4. /\ mHead \in Nat /\ mTail \in Nat /\ mHead <= mTail
    BY <1>1 DEF RingTypes
  <2>5. mTail' \in Nat /\ mTail <= mTail' /\ mHead' \in Nat /\ mHead <= mHead' /\ mHead' <= mTail' /\ mTail' <= mHead' + Capacity
    BY <2>1, <2>2, <2>3, <2>4
  <2>6. /\ RingTypes' /\ \A q \in Mpmc!Procs : InCall(q)' /\ Probed(q)'
        /\ \A q \in Mpmc!Procs : q # p => Mpmc!Won(q)' = Mpmc!Won(q) /\ mPc'[q] = mPc[q]
        /\ Mpmc!Won(p) = {} /\ Mpmc!Won(p)' = mTail .. mTail + n - 1 /\ mPc'[p] = "construct"
    BY <1>1, <2>1, <2>2, <2>5, WinsKeeps
  <2>7. \A q \in Producers \cup Consumers : q \in Mpmc!Procs
    BY DEF Mpmc!Procs
  <2>8. \A q \in Mpmc!Procs : \A i \in Mpmc!Won(q) : i \in Nat /\ i < mTail
    <3>1. \A q \in Mpmc!Procs : Mpmc!Won(q) \subseteq Nat
      BY <1>1, WonType
    <3>2. \A q \in Producers : \A i \in Mpmc!Won(q) : i < mTail
      BY DEF RingInv, Constructing
    <3>3. \A q \in Consumers : \A i \in Mpmc!Won(q) : i < mHead
      BY DEF RingInv, MovingOut
    <3>4. QED
      BY <2>4, <3>1, <3>2, <3>3 DEF Mpmc!Procs
  <2> HIDE DEF n
  <2>9. Constructing'
    <3>1. SUFFICES ASSUME NEW q \in Producers, NEW i \in Mpmc!Won(q)'
                   PROVE  /\ mHead <= i /\ i < mTail' /\ sequence[Mpmc!Slot(i)] = i
                          /\ mData[Mpmc!Slot(i)] = Nothing <=> ~(mPc'[q] = "publish" /\ i = mPos[q])
      BY <2>1 DEF Constructing, Mpmc!Slot, WinsFrom
    <3>2. CASE q = p
      BY <2>1, <2>2, <2>3, <2>4, <2>6, <3>2
    <3>3. CASE q # p
      <4>1. i \in Mpmc!Won(q) /\ mPc'[q] = mPc[q] /\ i \in Nat /\ i < mTail
        BY <2>6, <2>7, <2>8, <3>3
      <4>2. QED
        BY <2>1, <2>2, <2>4, <4>1 DEF RingInv, Constructing
    <3>4. QED
      BY <3>2, <3>3
  <2>10. MovingOut'
    <3>1. SUFFICES ASSUME NEW c \in Consumers, NEW i \in Mpmc!Won(c)'
                   PROVE  /\ mTail' <= i + Capacity /\ i < mHead /\ sequence[Mpmc!Slot(i)] = i + 1
                          /\ mData[Mpmc!Slot(i)] = Nothing <=> mPc'[c] = "release" /\ i = mPos[c]
      BY <2>1 DEF MovingOut, Mpmc!Slot, WinsFrom
    <3>2. c # p /\ c \in Mpmc!Procs
      BY LibraryAssumption DEF Mpmc!Procs
    <3>3. i \in Mpmc!Won(c) /\ mPc'[c] = mPc[c]
      BY <2>6, <3>2
    <3>4. QED
      BY <2>1, <2>3, <3>3 DEF RingInv, MovingOut
  <2>11. WonOnce'
    <3>1. SUFFICES ASSUME NEW q \in Mpmc!Procs, NEW r \in Mpmc!Procs, NEW i,
                          i \in Mpmc!Won(q)', i \in Mpmc!Won(r)', q # r
                   PROVE  FALSE
      BY DEF WonOnce, Mpmc!Procs
    <3>2. CASE q # p /\ r # p
      BY <2>6, <3>1, <3>2 DEF RingInv, WonOnce
    <3>3. CASE q = p
      BY <2>4, <2>6, <2>8, <3>1, <3>3
    <3>4. CASE r = p
      BY <2>4, <2>6, <2>8, <3>1, <3>4
    <3>5. QED
      BY <3>2, <3>3, <3>4
  <2>12. QueuedSlots'
    <3>1. SUFFICES ASSUME NEW i \in Nat, mHead <= i, i < mTail'
                   PROVE  \/ sequence[Mpmc!Slot(i)] = i + 1 /\ mData[Mpmc!Slot(i)] # Nothing
                          \/ \E q \in Producers : i \in Mpmc!Won(q)'
      BY <2>1 DEF QueuedSlots, Mpmc!Slot
    <3>2. CASE i < mTail
      <4>1. \/ sequence[Mpmc!Slot(i)] = i + 1 /\ mData[Mpmc!Slot(i)] # Nothing
            \/ \E q \in Producers : i \in Mpmc!Won(q)
        BY <3>1, <3>2 DEF RingInv, QueuedSlots
      <4>2. \A q \in Producers : i \in Mpmc!Won(q) => i \in Mpmc!Won(q)'
        BY <2>6, <2>7
      <4>3. QED
        BY <4>1, <4>2
    <3>3. CASE ~(i < mTail)
      <4>1. i \in Mpmc!Won(p)'
        BY <2>1, <2>2, <2>4, <2>6, <3>1, <3>3
      <4>2. QED
        BY <4>1
    <3>4. QED
      BY <3>2, <3>3
  <2>13. FreeIndices'
    <3>1. SUFFICES ASSUME NEW i \in Nat, mTail' <= i, i < mHead + Capacity
                   PROVE  \/ sequence[Mpmc!Slot(i)] = i /\ mData[Mpmc!Slot(i)] = Nothing
                          \/ \E c \in Consumers : i - Capacity \in Mpmc!Won(c)'
      BY <2>1 DEF FreeIndices, Mpmc!Slot
    <3>2. mTail <= i
      BY <2>4, <2>5, <3>1
    <3>3. \A c \in Consumers : Mpmc!Won(c)' = Mpmc!Won(c)
      BY <2>6, <2>7, LibraryAssumption
    <3>4. QED
      BY <3>1, <3>2, <3>3 DEF RingInv, FreeIndices
  <2>14. Passed'
    <3>1. ASSUME NEW i \in Nat, i < mTail' PROVE sequence[Mpmc!Slot(i)] >= i
      <4>1. CASE i < mTail
        BY <4>1 DEF RingInv, Passed
      <4>2. CASE ~(i < mTail)
        <5>1. i \in mTail .. mTail + n - 1
          BY <2>1, <2>2, <2>4, <3>1, <4>2
        <5>2. QED
          BY <2>2, <5>1 DEF n
      <4>3. QED
        BY <4>1, <4>2
    <3>2. QED
      BY <2>1, <3>1 DEF RingInv, Passed, Mpmc!Slot
  <2>15. QED
    BY <2>6, <2>9, <2>10, <2>11, <2>12, <2>13, <2>14 DEF RingInv, Mpmc!Procs
<1>4. QED
  BY <1>2, <1>3

\* dequeue: the CAS on _head, won or lost.
LEMMA DeqCasKeeps == ASSUME RingInv, NEW p \in Consumers, Mpmc!DeqCas(p) PROVE RingInv'
<1>1. p \in Mpmc!Procs /\ RingTypes /\ InCall(p) /\ Probed(p) /\ mPc[p] = "casHead" /\ mPc[p] \notin Working
  BY DEF RingInv, Mpmc!Procs, Mpmc!DeqCas, Working
<1>2. CASE mHead # mPos[p]
  <2>1. /\ Mpmc!ProbeFrom(p, mHead) /\ mPc' = [mPc EXCEPT ![p] = "probeItem"] /\ UNCHANGED ringVars
        /\ want' = want
    BY <1>2 DEF Mpmc!DeqCas, Mpmc!Goto, ringVars
  <2>2. want[p] > 0 /\ want[p] \in Nat /\ want = [want EXCEPT ![p] = want[p]]
    BY <1>1 DEF RingTypes, InCall, Dequeueing
  <2>3. QED
    BY <1>1, <2>1, <2>2, ProbeItemKeeps
<1>3. CASE mHead = mPos[p]
  <2> DEFINE n == found[p]
  <2>1. /\ mHead' = mHead + n /\ UNCHANGED <<mTail, sequence, mData, mSent>>
        /\ WinsFrom(p, mHead, "moveOut")
    BY <1>1, <1>3 DEF Mpmc!DeqCas, Mpmc!Goto, WinsFrom, Working
  <2>2. n \in Nat /\ n > 0 /\ \A i \in mHead .. mHead + n - 1 : sequence[Mpmc!Slot(i)] >= i + 1
    BY <1>1, <1>3 DEF RingTypes, InCall, Probed
  <2>3. /\ mHead + n <= mTail
        /\ \A i \in mHead .. mHead + n - 1 : sequence[Mpmc!Slot(i)] = i + 1 /\ mData[Mpmc!Slot(i)] # Nothing
        /\ \A q \in Producers : \A i \in Mpmc!Won(q) : mHead + n <= i
    BY <2>2, ItemsAtHead
  <2>4. /\ mHead \in Nat /\ mTail \in Nat /\ mHead <= mTail /\ mTail <= mHead + Capacity /\ Capacity \in Nat
    BY <1>1, LibraryAssumption DEF RingTypes
  <2>5. mTail' \in Nat /\ mTail <= mTail' /\ mHead' \in Nat /\ mHead <= mHead' /\ mHead' <= mTail' /\ mTail' <= mHead' + Capacity
    BY <2>1, <2>2, <2>3, <2>4
  <2>6. /\ RingTypes' /\ \A q \in Mpmc!Procs : InCall(q)' /\ Probed(q)'
        /\ \A q \in Mpmc!Procs : q # p => Mpmc!Won(q)' = Mpmc!Won(q) /\ mPc'[q] = mPc[q]
        /\ Mpmc!Won(p) = {} /\ Mpmc!Won(p)' = mHead .. mHead + n - 1 /\ mPc'[p] = "moveOut"
    BY <1>1, <2>1, <2>2, <2>5, WinsKeeps
  <2>7. \A q \in Producers \cup Consumers : q \in Mpmc!Procs
    BY DEF Mpmc!Procs
  <2> HIDE DEF n
  <2>8. \A q \in Mpmc!Procs : \A i \in Mpmc!Won(q) : i \in Nat /\ (i < mHead \/ mHead + n <= i)
    <3>1. \A q \in Mpmc!Procs : Mpmc!Won(q) \subseteq Nat
      BY <1>1, WonType
    <3>2. \A q \in Consumers : \A i \in Mpmc!Won(q) : i < mHead
      BY DEF RingInv, MovingOut
    <3>3. QED
      BY <2>3, <2>4, <3>1, <3>2 DEF Mpmc!Procs
  <2>9. Constructing'
    <3>1. SUFFICES ASSUME NEW q \in Producers, NEW i \in Mpmc!Won(q)'
                   PROVE  /\ mHead' <= i /\ i < mTail /\ sequence[Mpmc!Slot(i)] = i
                          /\ mData[Mpmc!Slot(i)] = Nothing <=> ~(mPc'[q] = "publish" /\ i = mPos[q])
      BY <2>1 DEF Constructing, Mpmc!Slot, WinsFrom
    <3>2. q # p /\ q \in Mpmc!Procs
      BY LibraryAssumption DEF Mpmc!Procs
    <3>3. i \in Mpmc!Won(q) /\ mPc'[q] = mPc[q]
      BY <2>6, <3>2
    <3>4. QED
      BY <2>1, <2>3, <3>3 DEF RingInv, Constructing
  <2>10. MovingOut'
    <3>1. SUFFICES ASSUME NEW c \in Consumers, NEW i \in Mpmc!Won(c)'
                   PROVE  /\ mTail <= i + Capacity /\ i < mHead' /\ sequence[Mpmc!Slot(i)] = i + 1
                          /\ mData[Mpmc!Slot(i)] = Nothing <=> mPc'[c] = "release" /\ i = mPos[c]
      BY <2>1 DEF MovingOut, Mpmc!Slot, WinsFrom
    <3>2. CASE c = p
      BY <2>1, <2>2, <2>3, <2>4, <2>6, <3>2
    <3>3. CASE c # p
      <4>1. i \in Mpmc!Won(c) /\ mPc'[c] = mPc[c] /\ i \in Nat
        BY <2>6, <2>7, <2>8, <3>3
      <4>2. QED
        BY <2>1, <2>2, <2>4, <4>1 DEF RingInv, MovingOut
    <3>4. QED
      BY <3>2, <3>3
  <2>11. WonOnce'
    <3>1. SUFFICES ASSUME NEW q \in Mpmc!Procs, NEW r \in Mpmc!Procs, NEW i,
                          i \in Mpmc!Won(q)', i \in Mpmc!Won(r)', q # r
                   PROVE  FALSE
      BY DEF WonOnce, Mpmc!Procs
    <3>2. CASE q # p /\ r # p
      BY <2>6, <3>1, <3>2 DEF RingInv, WonOnce
    <3>3. CASE q = p
      BY <2>2, <2>4, <2>6, <2>8, <3>1, <3>3
    <3>4. CASE r = p
      BY <2>2, <2>4, <2>6, <2>8, <3>1, <3>4
    <3>5. QED
      BY <3>2, <3>3, <3>4
  <2>12. QueuedSlots'
    <3>1. SUFFICES ASSUME NEW i \in Nat, mHead' <= i, i < mTail
                   PROVE  \/ sequence[Mpmc!Slot(i)] = i + 1 /\ mData[Mpmc!Slot(i)] # Nothing
                          \/ \E q \in Producers : i \in Mpmc!Won(q)'
      BY <2>1 DEF QueuedSlots, Mpmc!Slot
    <3>2. mHead <= i
      BY <2>4, <2>5, <3>1
    <3>3. \A q \in Producers : Mpmc!Won(q)' = Mpmc!Won(q)
      BY <2>6, <2>7, LibraryAssumption
    <3>4. QED
      BY <3>1, <3>2, <3>3 DEF RingInv, QueuedSlots
  <2>13. FreeIndices'
    <3>1. SUFFICES ASSUME NEW i \in Nat, mTail <= i, i < mHead' + Capacity
                   PROVE  \/ sequence[Mpmc!Slot(i)] = i /\ mData[Mpmc!Slot(i)] = Nothing
                          \/ \E c \in Consumers : i - Capacity \in Mpmc!Won(c)'
      BY <2>1 DEF FreeIndices, Mpmc!Slot
    <3>2. CASE i < mHead + Capacity
      <4>1. \/ sequence[Mpmc!Slot(i)] = i /\ mData[Mpmc!Slot(i)] = Nothing
            \/ \E c \in Consumers : i - Capacity \in Mpmc!Won(c)
        BY <3>1, <3>2 DEF RingInv, FreeIndices
      <4>2. \A c \in Consumers : i - Capacity \in Mpmc!Won(c) => i - Capacity \in Mpmc!Won(c)'
        BY <2>6, <2>7
      <4>3. QED
        BY <4>1, <4>2
    <3>3. CASE ~(i < mHead + Capacity)
      <4>1. i - Capacity \in Mpmc!Won(p)'
        BY <2>1, <2>2, <2>4, <2>6, <3>1, <3>3
      <4>2. QED
        BY <4>1
    <3>4. QED
      BY <3>2, <3>3
  <2>14. Passed'
    <3>1. ASSUME NEW i \in Nat, i < mHead' PROVE sequence[Mpmc!Slot(i)] >= i + 1
      <4>1. CASE i < mHead
        BY <4>1 DEF RingInv, Passed
      <4>2. CASE ~(i < mHead)
        <5>1. i \in mHead .. mHead + n - 1
          BY <2>1, <2>2, <2>4, <3>1, <4>2
        <5>2. QED
          BY <2>2, <5>1 DEF n
      <4>3. QED
        BY <4>1, <4>2
    <3>2. QED
      BY <2>1, <3>1 DEF RingInv, Passed, Mpmc!Slot
  <2>15. QED
    BY <2>6, <2>9, <2>10, <2>11, <2>12, <2>13, <2>14 DEF RingInv, Mpmc!Procs
<1>4. QED
  BY <1>2, <1>3
-----------------------------------------------------------------------------
(***************************************************************************)
(* ArrayMpmcQueue: the work on the slots won.                              *)
(***************************************************************************)
\* The other threads, when one works on its slots.
LEMMA OthersKeep ==
  ASSUME RingInv, RingTypes', NEW p \in Mpmc!Procs, Stay(p), UNCHANGED <<mHead, mTail>>,
         \A s \in Mpmc!Slots : sequence[s] <= sequence'[s]
  PROVE  \A q \in Mpmc!Procs : q # p =>
           /\ Mpmc!Won(q)' = Mpmc!Won(q) /\ mPc'[q] = mPc[q] /\ mPos'[q] = mPos[q]
           /\ InCall(q)' /\ Probed(q)'
<1>1. mHead <= mHead' /\ mTail <= mTail' /\ RingTypes
  BY DEF RingInv, RingTypes
<1>2. TAKE q \in Mpmc!Procs
<1>3. HAVE q # p
<1>4. InCall(q) /\ Probed(q)
  BY DEF RingInv
<1>5. Mpmc!Won(q)' = Mpmc!Won(q) /\ InCall(q)'
  BY <1>3, <1>4, StayWon
<1>6. Probed(q)'
  BY <1>1, <1>3, <1>4, StayProbed
<1>7. QED
  BY <1>3, <1>5, <1>6 DEF Stay

\* The slot of a producer's index is that of no other index in use or to come.
LEMMA ProducerApart ==
  ASSUME RingInv, NEW p \in Producers, NEW i \in Mpmc!Won(p)
  PROVE  /\ i \in Nat /\ mHead <= i /\ i < mTail /\ sequence[Mpmc!Slot(i)] = i
         /\ \A q \in Mpmc!Procs : \A j \in Mpmc!Won(q) : j \in Nat /\ (j # i => Mpmc!Slot(j) # Mpmc!Slot(i))
         /\ \A j \in Nat : mHead <= j /\ j < mHead + Capacity /\ j # i => Mpmc!Slot(j) # Mpmc!Slot(i)
<1>1. /\ Capacity \in Nat /\ mHead \in Nat /\ mTail \in Nat /\ mHead <= mTail /\ mTail <= mHead + Capacity
      /\ RingTypes
  BY RingFacts DEF RingInv
<1>2. i \in Nat /\ mHead <= i /\ i < mTail /\ sequence[Mpmc!Slot(i)] = i
  BY <1>1, WonType DEF RingInv, Constructing, Mpmc!Procs
<1>3. \A j \in Nat : mHead <= j /\ j < mHead + Capacity /\ j # i => Mpmc!Slot(j) # Mpmc!Slot(i)
  BY <1>1, <1>2, SlotApart
<1>4. ASSUME NEW q \in Mpmc!Procs, NEW j \in Mpmc!Won(q), j # i PROVE Mpmc!Slot(j) # Mpmc!Slot(i)
  <2>1. j \in Nat
    BY <1>1, <1>4, WonType
  <2>2. CASE q \in Producers
    <3>1. mHead <= j /\ j < mTail
      BY <1>4, <2>2 DEF RingInv, Constructing
    <3>2. j < mHead + Capacity
      BY <1>1, <2>1, <3>1
    <3>3. QED
      BY <1>3, <1>4, <2>1, <3>1, <3>2
  <2>3. CASE q \in Consumers
    <3>1. mTail <= j + Capacity /\ j < mHead
      BY <1>4, <2>3 DEF RingInv, MovingOut
    <3>2. i < j + Capacity /\ j < i + Capacity
      BY <1>1, <1>2, <2>1, <3>1
    <3>3. QED
      BY <1>2, <1>4, <2>1, <3>2, SlotApart
  <2>4. QED
    BY <2>2, <2>3 DEF Mpmc!Procs
<1>5. \A q \in Mpmc!Procs : \A j \in Mpmc!Won(q) : j \in Nat
  BY <1>1, WonType
<1>6. QED
  BY <1>2, <1>3, <1>4, <1>5

\* The slot of a consumer's index is that of the same index a lap later, and of no other.
LEMMA ConsumerApart ==
  ASSUME RingInv, NEW c \in Consumers, NEW i \in Mpmc!Won(c)
  PROVE  /\ i \in Nat /\ mTail <= i + Capacity /\ i < mHead /\ sequence[Mpmc!Slot(i)] = i + 1
         /\ \A q \in Mpmc!Procs : \A j \in Mpmc!Won(q) : j \in Nat /\ (j # i => Mpmc!Slot(j) # Mpmc!Slot(i))
         /\ \A j \in Nat : mHead <= j /\ j < mHead + Capacity /\ j # i + Capacity => Mpmc!Slot(j) # Mpmc!Slot(i)
<1>1. /\ Capacity \in Nat /\ mHead \in Nat /\ mTail \in Nat /\ mHead <= mTail /\ mTail <= mHead + Capacity
      /\ RingTypes
  BY RingFacts DEF RingInv
<1>2. i \in Nat /\ mTail <= i + Capacity /\ i < mHead /\ sequence[Mpmc!Slot(i)] = i + 1
  BY <1>1, WonType DEF RingInv, MovingOut, Mpmc!Procs
<1>3. ASSUME NEW j \in Nat, mHead <= j, j < mHead + Capacity, j # i + Capacity
      PROVE  Mpmc!Slot(j) # Mpmc!Slot(i)
  <2>1. i + Capacity \in Nat /\ j < (i + Capacity) + Capacity /\ (i + Capacity) < j + Capacity
    BY <1>1, <1>2, <1>3
  <2>2. Mpmc!Slot(j) # Mpmc!Slot(i + Capacity)
    BY <1>3, <2>1, SlotApart
  <2>3. QED
    BY <1>2, <2>2, SlotLap
<1>4. ASSUME NEW q \in Mpmc!Procs, NEW j \in Mpmc!Won(q), j # i PROVE Mpmc!Slot(j) # Mpmc!Slot(i)
  <2>1. j \in Nat
    BY <1>1, <1>4, WonType
  <2>2. CASE q \in Producers
    <3>1. mHead <= j /\ j < mTail
      BY <1>4, <2>2 DEF RingInv, Constructing
    <3>2. j < i + Capacity /\ i < j + Capacity
      BY <1>1, <1>2, <2>1, <3>1
    <3>3. QED
      BY <1>2, <1>4, <2>1, <3>2, SlotApart
  <2>3. CASE q \in Consumers
    <3>1. mTail <= j + Capacity /\ j < mHead
      BY <1>4, <2>3 DEF RingInv, MovingOut
    <3>2. i < j + Capacity /\ j < i + Capacity
      BY <1>1, <1>2, <2>1, <3>1
    <3>3. QED
      BY <1>2, <1>4, <2>1, <3>2, SlotApart
  <2>4. QED
    BY <2>2, <2>3 DEF Mpmc!Procs
<1>5. \A q \in Mpmc!Procs : \A j \in Mpmc!Won(q) : j \in Nat
  BY <1>1, WonType
<1>6. QED
  BY <1>2, <1>3, <1>4, <1>5

\* enqueue: the item is constructed in the slot won.
LEMMA EnqConstructKeeps == ASSUME RingInv, NEW p \in Producers, Mpmc!EnqConstruct(p) PROVE RingInv'
<1>1. p \in Mpmc!Procs /\ RingTypes /\ mPc[p] = "construct" /\ found[p] > 0
      /\ mPos[p] \in Nat /\ found[p] \in Nat
  BY DEF RingInv, RingTypes, InCall, Working, Mpmc!Procs, Mpmc!EnqConstruct
<1>2. PICK i \in Nat : i = mPos[p]
  BY <1>1
<1>3. PICK n \in Nat : n = mSent[p] + 1
  BY <1>1 DEF RingTypes
<1>4. PICK item \in Producers \X Nat : item = <<p, n>>
  BY <1>3
<1>5. /\ mSent' = [mSent EXCEPT ![p] = n] /\ mData' = [mData EXCEPT ![Mpmc!Slot(i)] = item]
      /\ mPc' = [mPc EXCEPT ![p] = "publish"]
      /\ UNCHANGED <<mHead, mTail, sequence, mPos, want, found>>
  BY <1>1, <1>2, <1>3, <1>4 DEF Mpmc!EnqConstruct, Mpmc!Goto, RingTypes
<1>6. item # Nothing
  BY LibraryAssumption
<1>7. Mpmc!Won(p) = i .. i + found[p] - 1 /\ Mpmc!Won(p)' = Mpmc!Won(p) /\ mPc'[p] = "publish"
      /\ i \in Mpmc!Won(p)
  <2>1. mPc'[p] = "publish"
    BY <1>1, <1>5 DEF RingTypes
  <2>2. Mpmc!Won(p) = i .. i + found[p] - 1
    BY <1>1, <1>2 DEF Mpmc!Won
  <2>3. Mpmc!Won(p)' = Mpmc!Won(p)
    BY <1>1, <1>5, <2>1 DEF Mpmc!Won
  <2>4. QED
    BY <1>1, <2>1, <2>2, <2>3
<1>8. Mpmc!Slot(i) \in Mpmc!Slots
  BY SlotType
<1>9. RingTypes'
  BY <1>1, <1>5 DEF RingTypes, Working, Mpmc!Procs, Mpmc!Slots
<1>10. \A s \in Mpmc!Slots : sequence[s] <= sequence'[s]
  BY <1>1, <1>5 DEF RingTypes
<1>11. Stay(p)
  BY <1>1, <1>5 DEF Stay, RingTypes
<1>12. \A q \in Mpmc!Procs : q # p =>
         Mpmc!Won(q)' = Mpmc!Won(q) /\ mPc'[q] = mPc[q] /\ mPos'[q] = mPos[q] /\ InCall(q)' /\ Probed(q)'
  BY <1>1, <1>5, <1>9, <1>10, <1>11, OthersKeep
<1>13. InCall(p)' /\ Probed(p)'
  BY <1>1, <1>5, <1>7 DEF InCall, Probed, Enqueueing, Dequeueing, Working
<1>14. /\ mHead <= i /\ i < mTail /\ sequence[Mpmc!Slot(i)] = i
       /\ \A q \in Mpmc!Procs : \A j \in Mpmc!Won(q) : j \in Nat /\ (j # i => Mpmc!Slot(j) # Mpmc!Slot(i))
       /\ \A j \in Nat : mHead <= j /\ j < mHead + Capacity /\ j # i => Mpmc!Slot(j) # Mpmc!Slot(i)
  BY <1>7, ProducerApart
<1>15. \A q \in Mpmc!Procs : Mpmc!Won(q)' = Mpmc!Won(q)
  BY <1>7, <1>12
<1>16. \A q \in Producers \cup Consumers : q \in Mpmc!Procs
  BY DEF Mpmc!Procs
<1>17. \A j \in Nat : /\ j = i => mData'[Mpmc!Slot(j)] = item
                      /\ Mpmc!Slot(j) # Mpmc!Slot(i) => mData'[Mpmc!Slot(j)] = mData[Mpmc!Slot(j)]
  BY <1>1, <1>5, <1>8, SlotType DEF RingTypes
<1>18. Constructing'
  <2>1. SUFFICES ASSUME NEW q \in Producers, NEW j \in Mpmc!Won(q)
                 PROVE  /\ mHead <= j /\ j < mTail /\ sequence[Mpmc!Slot(j)] = j
                        /\ mData'[Mpmc!Slot(j)] = Nothing <=> ~(mPc'[q] = "publish" /\ j = mPos[q])
    BY <1>5, <1>15, <1>16 DEF Constructing, Mpmc!Slot
  <2>2. mHead <= j /\ j < mTail /\ sequence[Mpmc!Slot(j)] = j /\ j \in Nat
    BY <1>14, <1>16 DEF RingInv, Constructing
  <2>3. mData[Mpmc!Slot(j)] = Nothing <=> ~(mPc[q] = "publish" /\ j = mPos[q])
    BY DEF RingInv, Constructing
  <2>4. CASE j = i
    <3>1. q = p
      BY <1>1, <1>7, <1>16, <2>4 DEF RingInv, WonOnce
    <3>2. QED
      BY <1>2, <1>6, <1>7, <1>17, <2>2, <2>4, <3>1
  <2>5. CASE j # i
    <3>1. mData'[Mpmc!Slot(j)] = mData[Mpmc!Slot(j)]
      BY <1>14, <1>16, <1>17, <2>2, <2>5
    <3>2. CASE q = p
      BY <1>1, <1>2, <2>2, <2>3, <2>5, <3>1, <3>2
    <3>3. CASE q # p
      <4>1. mPc'[q] = mPc[q]
        BY <1>12, <1>16, <3>3
      <4>2. QED
        BY <2>2, <2>3, <3>1, <4>1
    <3>4. QED
      BY <3>2, <3>3
  <2>6. QED
    BY <2>4, <2>5
<1>19. MovingOut'
  <2>1. SUFFICES ASSUME NEW c \in Consumers, NEW j \in Mpmc!Won(c)
                 PROVE  /\ mTail <= j + Capacity /\ j < mHead /\ sequence[Mpmc!Slot(j)] = j + 1
                        /\ mData'[Mpmc!Slot(j)] = Nothing <=> mPc'[c] = "release" /\ j = mPos[c]
    BY <1>5, <1>15, <1>16 DEF MovingOut, Mpmc!Slot
  <2>2. /\ mTail <= j + Capacity /\ j < mHead /\ sequence[Mpmc!Slot(j)] = j + 1
        /\ mData[Mpmc!Slot(j)] = Nothing <=> mPc[c] = "release" /\ j = mPos[c]
    BY DEF RingInv, MovingOut
  <2>3. c # p /\ c \in Mpmc!Procs
    BY LibraryAssumption DEF Mpmc!Procs
  <2>4. j # i /\ j \in Nat
    BY <1>1, <1>7, <1>14, <2>3 DEF RingInv, WonOnce
  <2>5. mData'[Mpmc!Slot(j)] = mData[Mpmc!Slot(j)]
    BY <1>14, <1>17, <2>3, <2>4
  <2>6. mPc'[c] = mPc[c]
    BY <1>12, <2>3
  <2>7. QED
    BY <2>2, <2>5, <2>6
<1>20. WonOnce'
  BY <1>15 DEF RingInv, WonOnce, Mpmc!Procs
<1>21. QueuedSlots'
  <2>1. SUFFICES ASSUME NEW j \in Nat, mHead <= j, j < mTail
                 PROVE  \/ sequence[Mpmc!Slot(j)] = j + 1 /\ mData'[Mpmc!Slot(j)] # Nothing
                        \/ \E q \in Producers : j \in Mpmc!Won(q)
    BY <1>5, <1>15, <1>16 DEF QueuedSlots, Mpmc!Slot
  <2>2. CASE j = i
    BY <1>7, <2>2
  <2>3. CASE j # i
    <3>1. j < mHead + Capacity
      BY <2>1, RingFacts
    <3>2. mData'[Mpmc!Slot(j)] = mData[Mpmc!Slot(j)]
      BY <1>14, <1>17, <2>1, <2>3, <3>1
    <3>3. QED
      BY <2>1, <3>2 DEF RingInv, QueuedSlots
  <2>4. QED
    BY <2>2, <2>3
<1>22. FreeIndices'
  <2>1. SUFFICES ASSUME NEW j \in Nat, mTail <= j, j < mHead + Capacity
                 PROVE  \/ sequence[Mpmc!Slot(j)] = j /\ mData'[Mpmc!Slot(j)] = Nothing
                        \/ \E c \in Consumers : j - Capacity \in Mpmc!Won(c)
    BY <1>5, <1>15, <1>16 DEF FreeIndices, Mpmc!Slot
  <2>2. mHead <= j /\ j # i
    BY <1>14, <2>1, RingFacts
  <2>3. mData'[Mpmc!Slot(j)] = mData[Mpmc!Slot(j)]
    BY <1>14, <1>17, <2>1, <2>2
  <2>4. QED
    BY <2>1, <2>3 DEF RingInv, FreeIndices
<1>23. Passed'
  BY <1>5 DEF RingInv, Passed, Mpmc!Slot
<1>24. QED
  BY <1>9, <1>12, <1>13, <1>18, <1>19, <1>20, <1>21, <1>22, <1>23 DEF RingInv, Mpmc!Procs

\* dequeue: the item is moved out of the slot won.
LEMMA DeqMoveOutKeeps == ASSUME RingInv, NEW p \in Consumers, Mpmc!DeqMoveOut(p) PROVE RingInv'
<1>1. p \in Mpmc!Procs /\ RingTypes /\ mPc[p] = "moveOut" /\ found[p] > 0
      /\ mPos[p] \in Nat /\ found[p] \in Nat
  BY DEF RingInv, RingTypes, InCall, Working, Mpmc!Procs, Mpmc!DeqMoveOut
<1>2. PICK i \in Nat : i = mPos[p]
  BY <1>1
<1>5. /\ mData' = [mData EXCEPT ![Mpmc!Slot(i)] = Nothing]
      /\ mPc' = [mPc EXCEPT ![p] = "release"]
      /\ UNCHANGED <<mHead, mTail, sequence, mPos, want, found, mSent>>
  BY <1>1, <1>2 DEF Mpmc!DeqMoveOut, Mpmc!Goto
<1>7. Mpmc!Won(p) = i .. i + found[p] - 1 /\ Mpmc!Won(p)' = Mpmc!Won(p) /\ mPc'[p] = "release"
      /\ i \in Mpmc!Won(p)
  <2>1. mPc'[p] = "release"
    BY <1>1, <1>5 DEF RingTypes
  <2>2. Mpmc!Won(p) = i .. i + found[p] - 1
    BY <1>1, <1>2 DEF Mpmc!Won
  <2>3. Mpmc!Won(p)' = Mpmc!Won(p)
    BY <1>1, <1>5, <2>1 DEF Mpmc!Won
  <2>4. QED
    BY <1>1, <2>1, <2>2, <2>3
<1>8. Mpmc!Slot(i) \in Mpmc!Slots
  BY SlotType
<1>9. RingTypes'
  BY <1>1, <1>5 DEF RingTypes, Working, Mpmc!Procs, Mpmc!Slots
<1>10. \A s \in Mpmc!Slots : sequence[s] <= sequence'[s]
  BY <1>1, <1>5 DEF RingTypes
<1>11. Stay(p)
  BY <1>1, <1>5 DEF Stay, RingTypes
<1>12. \A q \in Mpmc!Procs : q # p =>
         Mpmc!Won(q)' = Mpmc!Won(q) /\ mPc'[q] = mPc[q] /\ mPos'[q] = mPos[q] /\ InCall(q)' /\ Probed(q)'
  BY <1>1, <1>5, <1>9, <1>10, <1>11, OthersKeep
<1>13. InCall(p)' /\ Probed(p)'
  BY <1>1, <1>5, <1>7 DEF InCall, Probed, Enqueueing, Dequeueing, Working
<1>14. /\ mTail <= i + Capacity /\ i < mHead /\ sequence[Mpmc!Slot(i)] = i + 1
       /\ \A q \in Mpmc!Procs : \A j \in Mpmc!Won(q) : j \in Nat /\ (j # i => Mpmc!Slot(j) # Mpmc!Slot(i))
       /\ \A j \in Nat : mHead <= j /\ j < mHead + Capacity /\ j # i + Capacity => Mpmc!Slot(j) # Mpmc!Slot(i)
  BY <1>7, ConsumerApart
<1>15. \A q \in Mpmc!Procs : Mpmc!Won(q)' = Mpmc!Won(q)
  BY <1>7, <1>12
<1>16. \A q \in Producers \cup Consumers : q \in Mpmc!Procs
  BY DEF Mpmc!Procs
<1>17. \A j \in Nat : /\ j = i => mData'[Mpmc!Slot(j)] = Nothing
                      /\ Mpmc!Slot(j) # Mpmc!Slot(i) => mData'[Mpmc!Slot(j)] = mData[Mpmc!Slot(j)]
  BY <1>1, <1>5, <1>8, SlotType DEF RingTypes
<1>18. Constructing'
  <2>1. SUFFICES ASSUME NEW q \in Producers, NEW j \in Mpmc!Won(q)
                 PROVE  /\ mHead <= j /\ j < mTail /\ sequence[Mpmc!Slot(j)] = j
                        /\ mData'[Mpmc!Slot(j)] = Nothing <=> ~(mPc'[q] = "publish" /\ j = mPos[q])
    BY <1>5, <1>15, <1>16 DEF Constructing, Mpmc!Slot
  <2>2. /\ mHead <= j /\ j < mTail /\ sequence[Mpmc!Slot(j)] = j
        /\ mData[Mpmc!Slot(j)] = Nothing <=> ~(mPc[q] = "publish" /\ j = mPos[q])
    BY DEF RingInv, Constructing
  <2>3. q # p /\ q \in Mpmc!Procs
    BY LibraryAssumption DEF Mpmc!Procs
  <2>4. j # i /\ j \in Nat
    BY <1>1, <1>7, <1>14, <2>3 DEF RingInv, WonOnce
  <2>5. mData'[Mpmc!Slot(j)] = mData[Mpmc!Slot(j)]
    BY <1>14, <1>17, <2>3, <2>4
  <2>6. mPc'[q] = mPc[q]
    BY <1>12, <2>3
  <2>7. QED
    BY <2>2, <2>5, <2>6
<1>19. MovingOut'
  <2>1. SUFFICES ASSUME NEW c \in Consumers, NEW j \in Mpmc!Won(c)
                 PROVE  /\ mTail <= j + Capacity /\ j < mHead /\ sequence[Mpmc!Slot(j)] = j + 1
                        /\ mData'[Mpmc!Slot(j)] = Nothing <=> mPc'[c] = "release" /\ j = mPos[c]
    BY <1>5, <1>15, <1>16 DEF MovingOut, Mpmc!Slot
  <2>2. mTail <= j + Capacity /\ j < mHead /\ sequence[Mpmc!Slot(j)] = j + 1 /\ j \in Nat
    BY <1>14, <1>16 DEF RingInv, MovingOut
  <2>3. mData[Mpmc!Slot(j)] = Nothing <=> mPc[c] = "release" /\ j = mPos[c]
    BY DEF RingInv, MovingOut
  <2>4. CASE j = i
    <3>1. c = p
      BY <1>1, <1>7, <1>16, <2>4 DEF RingInv, WonOnce
    <3>2. QED
      BY <1>2, <1>7, <1>17, <2>2, <2>4, <3>1
  <2>5. CASE j # i
    <3>1. mData'[Mpmc!Slot(j)] = mData[Mpmc!Slot(j)]
      BY <1>14, <1>16, <1>17, <2>2, <2>5
    <3>2. CASE c = p
      BY <1>1, <1>2, <2>2, <2>3, <2>5, <3>1, <3>2
    <3>3. CASE c # p
      <4>1. mPc'[c] = mPc[c]
        BY <1>12, <1>16, <3>3
      <4>2. QED
        BY <2>2, <2>3, <3>1, <4>1
    <3>4. QED
      BY <3>2, <3>3
  <2>6. QED
    BY <2>4, <2>5
<1>20. WonOnce'
  BY <1>15 DEF RingInv, WonOnce, Mpmc!Procs
<1>21. QueuedSlots'
  <2>1. SUFFICES ASSUME NEW j \in Nat, mHead <= j, j < mTail
                 PROVE  \/ sequence[Mpmc!Slot(j)] = j + 1 /\ mData'[Mpmc!Slot(j)] # Nothing
                        \/ \E q \in Producers : j \in Mpmc!Won(q)
    BY <1>5, <1>15, <1>16 DEF QueuedSlots, Mpmc!Slot
  <2>2. j < mHead + Capacity /\ j # i + Capacity
    BY <1>14, <2>1, RingFacts
  <2>3. mData'[Mpmc!Slot(j)] = mData[Mpmc!Slot(j)]
    BY <1>14, <1>17, <2>1, <2>2
  <2>4. QED
    BY <2>1, <2>3 DEF RingInv, QueuedSlots
<1>22. FreeIndices'
  <2>1. SUFFICES ASSUME NEW j \in Nat, mTail <= j, j < mHead + Capacity
                 PROVE  \/ sequence[Mpmc!Slot(j)] = j /\ mData'[Mpmc!Slot(j)] = Nothing
                        \/ \E c \in Consumers : j - Capacity \in Mpmc!Won(c)
    BY <1>5, <1>15, <1>16 DEF FreeIndices, Mpmc!Slot
  <2>2. CASE j = i + Capacity
    <3>1. j - Capacity = i
      BY <2>2, RingFacts
    <3>2. QED
      BY <1>7, <3>1
  <2>3. CASE j # i + Capacity
    <3>1. mHead <= j
      BY <2>1, RingFacts
    <3>2. mData'[Mpmc!Slot(j)] = mData[Mpmc!Slot(j)]
      BY <1>14, <1>17, <2>1, <2>3, <3>1
    <3>3. QED
      BY <2>1, <3>2 DEF RingInv, FreeIndices
  <2>4. QED
    BY <2>2, <2>3
<1>23. Passed'
  BY <1>5 DEF RingInv, Passed, Mpmc!Slot
<1>24. QED
  BY <1>9, <1>12, <1>13, <1>18, <1>19, <1>20, <1>21, <1>22, <1>23 DEF RingInv, Mpmc!Procs

\* Sequence numbers that only grow stay ahead of the indices given away.
LEMMA PassedGrows ==
  ASSUME RingInv, RingTypes', UNCHANGED <<mHead, mTail>>,
         \A s \in Mpmc!Slots : sequence[s] <= sequence'[s]
  PROVE  Passed'
<1>1. \A i \in Nat : /\ sequence[Mpmc!Slot(i)] \in Nat /\ sequence'[Mpmc!Slot(i)] \in Nat
                     /\ sequence[Mpmc!Slot(i)] <= sequence'[Mpmc!Slot(i)]
  <2>1. \A s \in Mpmc!Slots : sequence[s] \in Nat /\ sequence'[s] \in Nat
    BY DEF RingInv, RingTypes
  <2>2. QED
    BY <2>1, SlotType
<1>2. ASSUME NEW i \in Nat, i < mTail PROVE sequence'[Mpmc!Slot(i)] >= i
  <2>1. sequence[Mpmc!Slot(i)] >= i
    BY <1>2 DEF RingInv, Passed
  <2>2. QED
    BY <1>1, <2>1
<1>3. ASSUME NEW i \in Nat, i < mHead PROVE sequence'[Mpmc!Slot(i)] >= i + 1
  <2>1. sequence[Mpmc!Slot(i)] >= i + 1
    BY <1>3 DEF RingInv, Passed
  <2>2. QED
    BY <1>1, <2>1
<1>4. QED
  BY <1>2, <1>3 DEF Passed, Mpmc!Slot

\* The loop over the slots won: one done, the next one or the end of the call.
LEMMA SlotDone ==
  ASSUME RingTypes, NEW p \in Mpmc!Procs, mPc[p] \in Working, found[p] > 0,
         NEW l \in {"construct", "moveOut"}, Mpmc!NextSlot(p, l),
         l = "construct" => p \in Producers, l = "moveOut" => p \in Consumers
  PROVE  /\ mPos' \in [Mpmc!Procs -> Nat] /\ want' \in [Mpmc!Procs -> Nat] /\ found' \in [Mpmc!Procs -> Nat]
         /\ mPc' \in [Mpmc!Procs -> {"idle"} \cup Enqueueing \cup Dequeueing \cup Working]
         /\ Stay(p) /\ mPc'[p] \in {"idle", l} /\ InCall(p)' /\ Probed(p)'
         /\ mPos[p] \in Mpmc!Won(p) /\ Mpmc!Won(p)' = Mpmc!Won(p) \ {mPos[p]}
<1>1. mPos[p] \in Nat /\ found[p] \in Nat /\ Mpmc!Won(p) = mPos[p] .. mPos[p] + found[p] - 1
  BY WonType DEF RingTypes
<1>2. PICK i, n, w \in Nat :
        /\ mPos' = [mPos EXCEPT ![p] = i] /\ found' = [found EXCEPT ![p] = n] /\ want' = [want EXCEPT ![p] = w]
        /\ \/ mPc' = [mPc EXCEPT ![p] = "idle"] /\ n = 0 /\ found[p] = 1
           \/ mPc' = [mPc EXCEPT ![p] = l] /\ i = mPos[p] + 1 /\ n = found[p] - 1 /\ n > 0
  <2>1. CASE found[p] = 1
    BY <2>1 DEF Mpmc!NextSlot, Mpmc!Return, Mpmc!ProbeFrom, Mpmc!Goto
  <2>2. CASE found[p] # 1
    <3>1. /\ mPos' = [mPos EXCEPT ![p] = mPos[p] + 1] /\ found' = [found EXCEPT ![p] = found[p] - 1]
          /\ mPc' = [mPc EXCEPT ![p] = l] /\ want' = want
      BY <2>2 DEF Mpmc!NextSlot, Mpmc!Goto
    <3>2. want' = [want EXCEPT ![p] = want[p]] /\ want[p] \in Nat
      BY <3>1 DEF RingTypes
    <3>3. mPos[p] + 1 \in Nat /\ found[p] - 1 \in Nat /\ found[p] - 1 > 0
      BY <1>1, <2>2
    <3>4. QED
      BY <3>1, <3>2, <3>3
  <2>3. QED
    BY <2>1, <2>2
<1>3. /\ mPos' \in [Mpmc!Procs -> Nat] /\ want' \in [Mpmc!Procs -> Nat] /\ found' \in [Mpmc!Procs -> Nat]
      /\ mPos'[p] = i /\ found'[p] = n /\ want'[p] = w
  BY <1>2 DEF RingTypes
<1>4. mPc' \in [Mpmc!Procs -> {"idle"} \cup Enqueueing \cup Dequeueing \cup Working] /\ mPc'[p] \in {"idle", l}
  BY <1>2 DEF RingTypes, Working
<1>5. Stay(p)
  BY <1>2 DEF Stay, RingTypes
<1>6. mPc'[p] = l => n > 0
  BY <1>2 DEF RingTypes
<1>7. InCall(p)' /\ Probed(p)'
  BY <1>3, <1>4, <1>6 DEF InCall, Probed, Enqueueing, Dequeueing, Working
<1>8. Mpmc!Won(p)' = Mpmc!Won(p) \ {mPos[p]}
  <2>1. CASE mPc' = [mPc EXCEPT ![p] = "idle"] /\ n = 0 /\ found[p] = 1
    <3>1. mPc'[p] = "idle"
      BY <2>1 DEF RingTypes
    <3>2. Mpmc!Won(p)' = {}
      BY <3>1 DEF Mpmc!Won
    <3>3. QED
      BY <1>1, <2>1, <3>2
  <2>2. CASE mPc' = [mPc EXCEPT ![p] = l] /\ i = mPos[p] + 1 /\ n = found[p] - 1 /\ n > 0
    <3>1. mPc'[p] = l
      BY <2>2 DEF RingTypes
    <3>2. Mpmc!Won(p)' = i .. i + n - 1
      BY <1>3, <3>1 DEF Mpmc!Won
    <3>3. \A a, c \in Nat : (a + 1) .. (a + 1) + (c - 1) - 1 = (a .. a + c - 1) \ {a}
      OBVIOUS
    <3>4. Mpmc!Won(p)' = (mPos[p] .. mPos[p] + found[p] - 1) \ {mPos[p]}
      BY <1>1, <2>2, <3>2, <3>3
    <3>5. QED
      BY <1>1, <3>4
  <2>3. QED
    BY <1>2, <2>1, <2>2
<1>9. QED
  BY <1>1, <1>3, <1>4, <1>5, <1>7, <1>8

\* enqueue: the slot is published for its index.
LEMMA EnqPublishKeeps == ASSUME RingInv, NEW p \in Producers, Mpmc!EnqPublish(p) PROVE RingInv'
<1>1. p \in Mpmc!Procs /\ RingTypes /\ mPc[p] = "publish" /\ mPc[p] \in Working /\ found[p] > 0
      /\ mPos[p] \in Nat
  BY DEF RingInv, RingTypes, InCall, Working, Mpmc!Procs, Mpmc!EnqPublish
<1>2. PICK i \in Nat : i = mPos[p]
  BY <1>1
<1>3. sequence' = [sequence EXCEPT ![Mpmc!Slot(i)] = i + 1] /\ UNCHANGED <<mHead, mTail, mData, mSent>>
  BY <1>2 DEF Mpmc!EnqPublish
<1>4. /\ mPos' \in [Mpmc!Procs -> Nat] /\ want' \in [Mpmc!Procs -> Nat] /\ found' \in [Mpmc!Procs -> Nat]
      /\ mPc' \in [Mpmc!Procs -> {"idle"} \cup Enqueueing \cup Dequeueing \cup Working]
      /\ Stay(p) /\ mPc'[p] \in {"idle", "construct"} /\ InCall(p)' /\ Probed(p)'
      /\ i \in Mpmc!Won(p) /\ Mpmc!Won(p)' = Mpmc!Won(p) \ {i}
  <2>1. Mpmc!NextSlot(p, "construct")
    BY DEF Mpmc!EnqPublish
  <2>2. PICK l \in {"construct", "moveOut"} : l = "construct"
    OBVIOUS
  <2>3. Mpmc!NextSlot(p, l) /\ (l = "construct" => p \in Producers) /\ (l = "moveOut" => p \in Consumers)
    BY <2>1, <2>2
  <2>4. /\ mPos' \in [Mpmc!Procs -> Nat] /\ want' \in [Mpmc!Procs -> Nat] /\ found' \in [Mpmc!Procs -> Nat]
        /\ mPc' \in [Mpmc!Procs -> {"idle"} \cup Enqueueing \cup Dequeueing \cup Working]
        /\ Stay(p) /\ mPc'[p] \in {"idle", l} /\ InCall(p)' /\ Probed(p)'
        /\ mPos[p] \in Mpmc!Won(p) /\ Mpmc!Won(p)' = Mpmc!Won(p) \ {mPos[p]}
    BY <1>1, <2>3, SlotDone
  <2>5. QED
    BY <1>2, <2>2, <2>4
<1>5. Mpmc!Slot(i) \in Mpmc!Slots
  BY SlotType
<1>6. RingTypes'
  <2>1. sequence' \in [Mpmc!Slots -> Nat]
    <3>1. sequence \in [Mpmc!Slots -> Nat]
      BY <1>1 DEF RingTypes
    <3>2. i + 1 \in Nat
      BY <1>1
    <3>3. QED
      BY <1>3, <3>1, <3>2
  <2>2. mHead' \in Nat /\ mTail' \in Nat /\ mHead' <= mTail' /\ mTail' <= mHead' + Capacity
    BY <1>1, <1>3 DEF RingTypes
  <2>3. /\ mData' \in [Mpmc!Slots -> (Producers \X Nat) \cup {Nothing}]
        /\ mSent' \in [Producers -> Nat]
    BY <1>1, <1>3 DEF RingTypes
  <2>4. QED
    BY <1>4, <2>1, <2>2, <2>3 DEF RingTypes, Mpmc!Procs, Mpmc!Slots
<1>7. /\ mHead <= i /\ i < mTail /\ sequence[Mpmc!Slot(i)] = i
      /\ \A q \in Mpmc!Procs : \A j \in Mpmc!Won(q) : j \in Nat /\ (j # i => Mpmc!Slot(j) # Mpmc!Slot(i))
      /\ \A j \in Nat : mHead <= j /\ j < mHead + Capacity /\ j # i => Mpmc!Slot(j) # Mpmc!Slot(i)
  BY <1>4, ProducerApart
<1>8. \A j \in Nat : /\ j = i => sequence'[Mpmc!Slot(j)] = j + 1
                     /\ Mpmc!Slot(j) # Mpmc!Slot(i) => sequence'[Mpmc!Slot(j)] = sequence[Mpmc!Slot(j)]
  BY <1>1, <1>3, <1>5, SlotType DEF RingTypes
<1>9. \A s \in Mpmc!Slots : sequence[s] <= sequence'[s]
  BY <1>1, <1>3, <1>7 DEF RingTypes
<1>10. \A q \in Mpmc!Procs : q # p =>
         Mpmc!Won(q)' = Mpmc!Won(q) /\ mPc'[q] = mPc[q] /\ mPos'[q] = mPos[q] /\ InCall(q)' /\ Probed(q)'
  BY <1>1, <1>3, <1>4, <1>6, <1>9, OthersKeep
<1>11. \A q \in Producers \cup Consumers : q \in Mpmc!Procs
  BY DEF Mpmc!Procs
<1>12. \A q \in Mpmc!Procs : \A j \in Mpmc!Won(q)' : j \in Mpmc!Won(q) /\ j # i
  <2>1. \A q \in Mpmc!Procs : i \in Mpmc!Won(q) => q = p
    BY <1>1, <1>4 DEF RingInv, WonOnce
  <2>2. QED
    BY <1>4, <1>10, <2>1
<1>13. Constructing'
  <2>1. SUFFICES ASSUME NEW q \in Producers, NEW j \in Mpmc!Won(q)'
                 PROVE  /\ mHead <= j /\ j < mTail /\ sequence'[Mpmc!Slot(j)] = j
                        /\ mData[Mpmc!Slot(j)] = Nothing <=> ~(mPc'[q] = "publish" /\ j = mPos'[q])
    BY <1>3 DEF Constructing, Mpmc!Slot
  <2>2. j \in Mpmc!Won(q) /\ j # i /\ j \in Nat /\ sequence'[Mpmc!Slot(j)] = sequence[Mpmc!Slot(j)]
    BY <1>7, <1>8, <1>11, <1>12
  <2>3. /\ mHead <= j /\ j < mTail /\ sequence[Mpmc!Slot(j)] = j
        /\ mData[Mpmc!Slot(j)] = Nothing <=> ~(mPc[q] = "publish" /\ j = mPos[q])
    BY <2>2 DEF RingInv, Constructing
  <2>4. CASE q = p
    BY <1>2, <1>4, <2>2, <2>3, <2>4
  <2>5. CASE q # p
    <3>1. mPc'[q] = mPc[q] /\ mPos'[q] = mPos[q]
      BY <1>10, <1>11, <2>5
    <3>2. QED
      BY <2>2, <2>3, <3>1
  <2>6. QED
    BY <2>4, <2>5
<1>14. MovingOut'
  <2>1. SUFFICES ASSUME NEW c \in Consumers, NEW j \in Mpmc!Won(c)'
                 PROVE  /\ mTail <= j + Capacity /\ j < mHead /\ sequence'[Mpmc!Slot(j)] = j + 1
                        /\ mData[Mpmc!Slot(j)] = Nothing <=> mPc'[c] = "release" /\ j = mPos'[c]
    BY <1>3 DEF MovingOut, Mpmc!Slot
  <2>2. j \in Mpmc!Won(c) /\ j # i /\ j \in Nat /\ sequence'[Mpmc!Slot(j)] = sequence[Mpmc!Slot(j)]
    BY <1>7, <1>8, <1>11, <1>12
  <2>3. /\ mTail <= j + Capacity /\ j < mHead /\ sequence[Mpmc!Slot(j)] = j + 1
        /\ mData[Mpmc!Slot(j)] = Nothing <=> mPc[c] = "release" /\ j = mPos[c]
    BY <2>2 DEF RingInv, MovingOut
  <2>4. c # p /\ c \in Mpmc!Procs
    BY LibraryAssumption DEF Mpmc!Procs
  <2>5. mPc'[c] = mPc[c] /\ mPos'[c] = mPos[c]
    BY <1>10, <2>4
  <2>6. QED
    BY <2>2, <2>3, <2>5
<1>15. WonOnce'
  BY <1>12 DEF RingInv, WonOnce, Mpmc!Procs
<1>16. QueuedSlots'
  <2>1. SUFFICES ASSUME NEW j \in Nat, mHead <= j, j < mTail
                 PROVE  \/ sequence'[Mpmc!Slot(j)] = j + 1 /\ mData[Mpmc!Slot(j)] # Nothing
                        \/ \E q \in Producers : j \in Mpmc!Won(q)'
    BY <1>3 DEF QueuedSlots, Mpmc!Slot
  <2>2. CASE j = i
    <3>1. mData[Mpmc!Slot(i)] # Nothing
      BY <1>1, <1>2, <1>4 DEF RingInv, Constructing
    <3>2. QED
      BY <1>8, <2>2, <3>1
  <2>3. CASE j # i
    <3>1. j < mHead + Capacity
      BY <2>1, RingFacts
    <3>2. sequence'[Mpmc!Slot(j)] = sequence[Mpmc!Slot(j)]
      BY <1>7, <1>8, <2>1, <2>3, <3>1
    <3>3. \A q \in Producers : j \in Mpmc!Won(q) => j \in Mpmc!Won(q)'
      BY <1>4, <1>10, <1>11, <2>3
    <3>4. QED
      BY <2>1, <3>2, <3>3 DEF RingInv, QueuedSlots
  <2>4. QED
    BY <2>2, <2>3
<1>17. FreeIndices'
  <2>1. SUFFICES ASSUME NEW j \in Nat, mTail <= j, j < mHead + Capacity
                 PROVE  \/ sequence'[Mpmc!Slot(j)] = j /\ mData[Mpmc!Slot(j)] = Nothing
                        \/ \E c \in Consumers : j - Capacity \in Mpmc!Won(c)'
    BY <1>3 DEF FreeIndices, Mpmc!Slot
  <2>2. mHead <= j /\ j # i
    BY <1>7, <2>1, RingFacts
  <2>3. sequence'[Mpmc!Slot(j)] = sequence[Mpmc!Slot(j)]
    BY <1>7, <1>8, <2>1, <2>2
  <2>4. \A c \in Consumers : Mpmc!Won(c)' = Mpmc!Won(c)
    BY <1>10, <1>11, LibraryAssumption
  <2>5. QED
    BY <2>1, <2>3, <2>4 DEF RingInv, FreeIndices
<1>18. Passed'
  BY <1>3, <1>6, <1>9, PassedGrows
<1>19. QED
  BY <1>1, <1>4, <1>6, <1>10, <1>13, <1>14, <1>15, <1>16, <1>17, <1>18 DEF RingInv, Mpmc!Procs

\* dequeue: the slot is released to the producers of the next lap.
LEMMA DeqReleaseKeeps == ASSUME RingInv, NEW p \in Consumers, Mpmc!DeqRelease(p) PROVE RingInv'
<1>1. p \in Mpmc!Procs /\ RingTypes /\ mPc[p] = "release" /\ mPc[p] \in Working /\ found[p] > 0
      /\ mPos[p] \in Nat /\ Capacity \in Nat /\ Capacity > 0
  BY RingFacts DEF RingInv, RingTypes, InCall, Working, Mpmc!Procs, Mpmc!DeqRelease
<1>2. PICK i \in Nat : i = mPos[p]
  BY <1>1
<1>3. sequence' = [sequence EXCEPT ![Mpmc!Slot(i)] = i + Capacity] /\ UNCHANGED <<mHead, mTail, mData, mSent>>
  BY <1>2 DEF Mpmc!DeqRelease
<1>4. /\ mPos' \in [Mpmc!Procs -> Nat] /\ want' \in [Mpmc!Procs -> Nat] /\ found' \in [Mpmc!Procs -> Nat]
      /\ mPc' \in [Mpmc!Procs -> {"idle"} \cup Enqueueing \cup Dequeueing \cup Working]
      /\ Stay(p) /\ mPc'[p] \in {"idle", "moveOut"} /\ InCall(p)' /\ Probed(p)'
      /\ i \in Mpmc!Won(p) /\ Mpmc!Won(p)' = Mpmc!Won(p) \ {i}
  <2>1. Mpmc!NextSlot(p, "moveOut")
    BY DEF Mpmc!DeqRelease
  <2>2. PICK l \in {"construct", "moveOut"} : l = "moveOut"
    OBVIOUS
  <2>3. Mpmc!NextSlot(p, l) /\ (l = "construct" => p \in Producers) /\ (l = "moveOut" => p \in Consumers)
    BY <2>1, <2>2
  <2>4. /\ mPos' \in [Mpmc!Procs -> Nat] /\ want' \in [Mpmc!Procs -> Nat] /\ found' \in [Mpmc!Procs -> Nat]
        /\ mPc' \in [Mpmc!Procs -> {"idle"} \cup Enqueueing \cup Dequeueing \cup Working]
        /\ Stay(p) /\ mPc'[p] \in {"idle", l} /\ InCall(p)' /\ Probed(p)'
        /\ mPos[p] \in Mpmc!Won(p) /\ Mpmc!Won(p)' = Mpmc!Won(p) \ {mPos[p]}
    BY <1>1, <2>3, SlotDone
  <2>5. QED
    BY <1>2, <2>2, <2>4
<1>5. Mpmc!Slot(i) \in Mpmc!Slots
  BY SlotType
<1>6. RingTypes'
  <2>1. sequence' \in [Mpmc!Slots -> Nat]
    <3>1. sequence \in [Mpmc!Slots -> Nat]
      BY <1>1 DEF RingTypes
    <3>2. i + Capacity \in Nat
      BY <1>1
    <3>3. QED
      BY <1>3, <3>1, <3>2
  <2>2. mHead' \in Nat /\ mTail' \in Nat /\ mHead' <= mTail' /\ mTail' <= mHead' + Capacity
    BY <1>1, <1>3 DEF RingTypes
  <2>3. /\ mData' \in [Mpmc!Slots -> (Producers \X Nat) \cup {Nothing}]
        /\ mSent' \in [Producers -> Nat]
    BY <1>1, <1>3 DEF RingTypes
  <2>4. QED
    BY <1>4, <2>1, <2>2, <2>3 DEF RingTypes, Mpmc!Procs, Mpmc!Slots
<1>7. /\ mTail <= i + Capacity /\ i < mHead /\ sequence[Mpmc!Slot(i)] = i + 1
      /\ \A q \in Mpmc!Procs : \A j \in Mpmc!Won(q) : j \in Nat /\ (j # i => Mpmc!Slot(j) # Mpmc!Slot(i))
      /\ \A j \in Nat : mHead <= j /\ j < mHead + Capacity /\ j # i + Capacity => Mpmc!Slot(j) # Mpmc!Slot(i)
  BY <1>4, ConsumerApart
<1>8. \A j \in Nat : /\ Mpmc!Slot(j) = Mpmc!Slot(i) => sequence'[Mpmc!Slot(j)] = i + Capacity
                     /\ Mpmc!Slot(j) # Mpmc!Slot(i) => sequence'[Mpmc!Slot(j)] = sequence[Mpmc!Slot(j)]
  BY <1>1, <1>3, <1>5, SlotType DEF RingTypes
<1>9. \A s \in Mpmc!Slots : sequence[s] <= sequence'[s]
  BY <1>1, <1>3, <1>7 DEF RingTypes
<1>10. \A q \in Mpmc!Procs : q # p =>
         Mpmc!Won(q)' = Mpmc!Won(q) /\ mPc'[q] = mPc[q] /\ mPos'[q] = mPos[q] /\ InCall(q)' /\ Probed(q)'
  BY <1>1, <1>3, <1>4, <1>6, <1>9, OthersKeep
<1>11. \A q \in Producers \cup Consumers : q \in Mpmc!Procs
  BY DEF Mpmc!Procs
<1>12. \A q \in Mpmc!Procs : \A j \in Mpmc!Won(q)' : j \in Mpmc!Won(q) /\ j # i
  <2>1. \A q \in Mpmc!Procs : i \in Mpmc!Won(q) => q = p
    BY <1>1, <1>4 DEF RingInv, WonOnce
  <2>2. QED
    BY <1>4, <1>10, <2>1
<1>13. Constructing'
  <2>1. SUFFICES ASSUME NEW q \in Producers, NEW j \in Mpmc!Won(q)'
                 PROVE  /\ mHead <= j /\ j < mTail /\ sequence'[Mpmc!Slot(j)] = j
                        /\ mData[Mpmc!Slot(j)] = Nothing <=> ~(mPc'[q] = "publish" /\ j = mPos'[q])
    BY <1>3 DEF Constructing, Mpmc!Slot
  <2>2. j \in Mpmc!Won(q) /\ j # i /\ j \in Nat /\ sequence'[Mpmc!Slot(j)] = sequence[Mpmc!Slot(j)]
    BY <1>7, <1>8, <1>11, <1>12
  <2>3. /\ mHead <= j /\ j < mTail /\ sequence[Mpmc!Slot(j)] = j
        /\ mData[Mpmc!Slot(j)] = Nothing <=> ~(mPc[q] = "publish" /\ j = mPos[q])
    BY <2>2 DEF RingInv, Constructing
  <2>4. q # p /\ q \in Mpmc!Procs
    BY LibraryAssumption DEF Mpmc!Procs
  <2>5. mPc'[q] = mPc[q] /\ mPos'[q] = mPos[q]
    BY <1>10, <2>4
  <2>6. QED
    BY <2>2, <2>3, <2>5
<1>14. MovingOut'
  <2>1. SUFFICES ASSUME NEW c \in Consumers, NEW j \in Mpmc!Won(c)'
                 PROVE  /\ mTail <= j + Capacity /\ j < mHead /\ sequence'[Mpmc!Slot(j)] = j + 1
                        /\ mData[Mpmc!Slot(j)] = Nothing <=> mPc'[c] = "release" /\ j = mPos'[c]
    BY <1>3 DEF MovingOut, Mpmc!Slot
  <2>2. j \in Mpmc!Won(c) /\ j # i /\ j \in Nat /\ sequence'[Mpmc!Slot(j)] = sequence[Mpmc!Slot(j)]
    BY <1>7, <1>8, <1>11, <1>12
  <2>3. /\ mTail <= j + Capacity /\ j < mHead /\ sequence[Mpmc!Slot(j)] = j + 1
        /\ mData[Mpmc!Slot(j)] = Nothing <=> mPc[c] = "release" /\ j = mPos[c]
    BY <2>2 DEF RingInv, MovingOut
  <2>4. CASE c = p
    BY <1>2, <1>4, <2>2, <2>3, <2>4
  <2>5. CASE c # p
    <3>1. mPc'[c] = mPc[c] /\ mPos'[c] = mPos[c]
      BY <1>10, <1>11, <2>5
    <3>2. QED
      BY <2>2, <2>3, <3>1
  <2>6. QED
    BY <2>4, <2>5
<1>15. WonOnce'
  BY <1>12 DEF RingInv, WonOnce, Mpmc!Procs
<1>16. QueuedSlots'
  <2>1. SUFFICES ASSUME NEW j \in Nat, mHead <= j, j < mTail
                 PROVE  \/ sequence'[Mpmc!Slot(j)] = j + 1 /\ mData[Mpmc!Slot(j)] # Nothing
                        \/ \E q \in Producers : j \in Mpmc!Won(q)'
    BY <1>3 DEF QueuedSlots, Mpmc!Slot
  <2>2. j < mHead + Capacity /\ j # i + Capacity
    BY <1>7, <2>1, RingFacts
  <2>3. sequence'[Mpmc!Slot(j)] = sequence[Mpmc!Slot(j)]
    BY <1>7, <1>8, <2>1, <2>2
  <2>4. \A q \in Producers : Mpmc!Won(q)' = Mpmc!Won(q)
    BY <1>10, <1>11, LibraryAssumption
  <2>5. QED
    BY <2>1, <2>3, <2>4 DEF RingInv, QueuedSlots
<1>17. FreeIndices'
  <2>1. SUFFICES ASSUME NEW j \in Nat, mTail <= j, j < mHead + Capacity
                 PROVE  \/ sequence'[Mpmc!Slot(j)] = j /\ mData[Mpmc!Slot(j)] = Nothing
                        \/ \E c \in Consumers : j - Capacity \in Mpmc!Won(c)'
    BY <1>3 DEF FreeIndices, Mpmc!Slot
  <2>2. CASE j = i + Capacity
    <3>1. mData[Mpmc!Slot(i)] = Nothing
      BY <1>1, <1>2, <1>4 DEF RingInv, MovingOut
    <3>2. Mpmc!Slot(j) = Mpmc!Slot(i)
      BY <2>2, SlotLap
    <3>3. sequence'[Mpmc!Slot(j)] = j
      BY <1>8, <2>2, <3>2
    <3>4. QED
      BY <3>1, <3>2, <3>3
  <2>3. CASE j # i + Capacity
    <3>1. mHead <= j
      BY <2>1, RingFacts
    <3>2. sequence'[Mpmc!Slot(j)] = sequence[Mpmc!Slot(j)]
      BY <1>7, <1>8, <2>1, <2>3, <3>1
    <3>3. j - Capacity # i
      BY <1>1, <2>3
    <3>4. \A c \in Consumers : j - Capacity \in Mpmc!Won(c) => j - Capacity \in Mpmc!Won(c)'
      BY <1>4, <1>10, <1>11, <3>3
    <3>5. QED
      BY <2>1, <3>2, <3>4 DEF RingInv, FreeIndices
  <2>4. QED
    BY <2>2, <2>3
<1>18. Passed'
  BY <1>3, <1>6, <1>9, PassedGrows
<1>19. QED
  BY <1>1, <1>4, <1>6, <1>10, <1>13, <1>14, <1>15, <1>16, <1>17, <1>18 DEF RingInv, Mpmc!Procs
-----------------------------------------------------------------------------
(***************************************************************************)
(* ArrayMpmcQueue: the theorems.                                           *)
(***************************************************************************)
\* In the constructor's queue every slot is free for the index of its number.
LEMMA InitRing == Mpmc!Init => RingInv
<1>1. SUFFICES ASSUME Mpmc!Init PROVE RingInv
  OBVIOUS
<1>2. Capacity \in Nat /\ Capacity > 0
  BY LibraryAssumption
<1>3. \A p \in Mpmc!Procs : mPc[p] = "idle"
  BY <1>1 DEF Mpmc!Init
<1>4. \A p \in Mpmc!Procs : Mpmc!Won(p) = {}
  BY <1>3 DEF Mpmc!Won
<1>5. \A p \in Producers \cup Consumers : p \in Mpmc!Procs
  BY DEF Mpmc!Procs
<1>6. mHead = 0 /\ mTail = 0 /\ sequence = [s \in Mpmc!Slots |-> s] /\ mData = [s \in Mpmc!Slots |-> Nothing]
  BY <1>1 DEF Mpmc!Init
<1>7. RingTypes
  <2>1. sequence \in [Mpmc!Slots -> Nat]
    BY <1>2, <1>6 DEF Mpmc!Slots
  <2>2. mData \in [Mpmc!Slots -> (Producers \X Nat) \cup {Nothing}]
    BY <1>6
  <2>3. /\ mSent \in [Producers -> Nat]
        /\ mPos \in [Mpmc!Procs -> Nat] /\ want \in [Mpmc!Procs -> Nat] /\ found \in [Mpmc!Procs -> Nat]
    BY <1>1 DEF Mpmc!Init
  <2>4. mPc \in [Mpmc!Procs -> {"idle"} \cup Enqueueing \cup Dequeueing \cup Working]
    BY <1>1 DEF Mpmc!Init
  <2>5. QED
    BY <1>2, <1>6, <2>1, <2>2, <2>3, <2>4 DEF RingTypes
<1>8. \A p \in Mpmc!Procs : InCall(p) /\ Probed(p)
  BY <1>3 DEF InCall, Probed, Enqueueing, Dequeueing, Working
<1>9. Constructing /\ MovingOut /\ WonOnce
  BY <1>4, <1>5 DEF Constructing, MovingOut, WonOnce
<1>10. QueuedSlots /\ Passed
  BY <1>6 DEF QueuedSlots, Passed
<1>11. FreeIndices
  <2>1. SUFFICES ASSUME NEW i \in Nat, i < Capacity
                 PROVE  sequence[Mpmc!Slot(i)] = i /\ mData[Mpmc!Slot(i)] = Nothing
    BY <1>2, <1>6 DEF FreeIndices
  <2>2. Mpmc!Slot(i) = i /\ i \in Mpmc!Slots
    <3>1. i \in Mpmc!Slots
      BY <1>2, <2>1 DEF Mpmc!Slots
    <3>2. i % Capacity = i
      BY <1>2, <2>1, Z3
    <3>3. QED
      BY <3>1, <3>2 DEF Mpmc!Slot
  <2>3. QED
    BY <1>6, <2>2
<1>12. QED
  BY <1>7, <1>8, <1>9, <1>10, <1>11 DEF RingInv

\* Every step keeps the invariant, in a queue of more than one slot.
LEMMA NextRing == RingInv /\ Capacity # 1 /\ [Next]_vars => RingInv'
<1>1. SUFFICES ASSUME RingInv, Capacity # 1, [Next]_vars PROVE RingInv'
  OBVIOUS
<1>2. CASE UNCHANGED mpmcVars
  <2>1. UNCHANGED <<mHead, mTail, sequence, mData, mPc, mPos, want, found, mSent>>
    BY <1>2 DEF mpmcVars
  <2>2. \A p : Mpmc!Won(p)' = Mpmc!Won(p)
    BY <2>1 DEF Mpmc!Won
  <2>3. RingTypes'
    BY <1>1, <2>1 DEF RingInv, RingTypes, Mpmc!Procs, Mpmc!Slots
  <2>4. Constructing' /\ MovingOut' /\ WonOnce'
    BY <1>1, <2>1, <2>2 DEF RingInv, Constructing, MovingOut, WonOnce, Mpmc!Procs, Mpmc!Slot
  <2>5. QueuedSlots' /\ FreeIndices' /\ Passed'
    BY <1>1, <2>1, <2>2 DEF RingInv, QueuedSlots, FreeIndices, Passed, Mpmc!Slot
  <2>6. \A p \in Mpmc!Procs : InCall(p)' /\ Probed(p)'
    BY <1>1, <2>1 DEF RingInv, InCall, Probed, Mpmc!Slot
  <2>7. QED
    BY <2>3, <2>4, <2>5, <2>6 DEF RingInv, Mpmc!Procs
<1>3. CASE Mpmc!Next
  <2>1. ASSUME NEW p \in Producers,
               (\E n \in 1 .. MaxBulk : Mpmc!EnqBegin(p, n)) \/ Mpmc!EnqStep(p)
        PROVE  RingInv'
    <3>1. CASE \/ \E n \in 1 .. MaxBulk : Mpmc!EnqBegin(p, n)
               \/ Mpmc!EnqProbe(p) \/ Mpmc!EnqRecheck(p) \/ Mpmc!EnqReload(p)
      BY <1>1, <3>1, EnqMoveKeeps
    <3>2. CASE Mpmc!EnqCas(p)
      BY <1>1, <3>2, EnqCasKeeps
    <3>3. CASE Mpmc!EnqConstruct(p)
      BY <1>1, <3>3, EnqConstructKeeps
    <3>4. CASE Mpmc!EnqPublish(p)
      BY <1>1, <3>4, EnqPublishKeeps
    <3>5. QED
      BY <2>1, <3>1, <3>2, <3>3, <3>4 DEF Mpmc!EnqStep
  <2>2. ASSUME NEW c \in Consumers,
               (\E n \in 1 .. MaxBulk : Mpmc!DeqBegin(c, n)) \/ Mpmc!DeqStep(c)
        PROVE  RingInv'
    <3>1. CASE \/ \E n \in 1 .. MaxBulk : Mpmc!DeqBegin(c, n)
               \/ Mpmc!DeqProbe(c) \/ Mpmc!DeqRecheck(c) \/ Mpmc!DeqReload(c)
      BY <1>1, <3>1, DeqMoveKeeps
    <3>2. CASE Mpmc!DeqCas(c)
      BY <1>1, <3>2, DeqCasKeeps
    <3>3. CASE Mpmc!DeqMoveOut(c)
      BY <1>1, <3>3, DeqMoveOutKeeps
    <3>4. CASE Mpmc!DeqRelease(c)
      BY <1>1, <3>4, DeqReleaseKeeps
    <3>5. QED
      BY <2>2, <3>1, <3>2, <3>3, <3>4 DEF Mpmc!DeqStep
  <2>3. QED
    BY <1>3, <2>1, <2>2 DEF Mpmc!Next
<1>4. QED
  BY <1>1, <1>2, <1>3 DEF Next, Others, vars

\* The invariant gives the queue's safety property: two indices that threads work on
\* are less than a lap apart.
LEMMA RingExclusive == RingInv => Mpmc!SlotsExclusive
<1>1. SUFFICES ASSUME RingInv PROVE Mpmc!SlotsExclusive
  OBVIOUS
<1>2. ASSUME NEW p \in Mpmc!Procs, NEW q \in Mpmc!Procs, NEW i \in Mpmc!Won(p), NEW j \in Mpmc!Won(q),
             Mpmc!Slot(i) = Mpmc!Slot(j)
      PROVE  p = q /\ i = j
  <2>1. i = j
    <3>1. CASE p \in Producers
      BY <1>1, <1>2, <3>1, ProducerApart
    <3>2. CASE p \in Consumers
      BY <1>1, <1>2, <3>2, ConsumerApart
    <3>3. QED
      BY <3>1, <3>2 DEF Mpmc!Procs
  <2>2. QED
    BY <1>1, <2>1 DEF RingInv, WonOnce
<1>3. \A p \in Producers : \A i \in Mpmc!Won(p) :
        /\ sequence[Mpmc!Slot(i)] = i
        /\ (mData[Mpmc!Slot(i)] = Nothing) <=> ~(mPc[p] = "publish" /\ i = mPos[p])
  BY <1>1 DEF RingInv, Constructing
<1>4. \A c \in Consumers : \A i \in Mpmc!Won(c) :
        /\ sequence[Mpmc!Slot(i)] = i + 1
        /\ (mData[Mpmc!Slot(i)] = Nothing) <=> (mPc[c] = "release" /\ i = mPos[c])
  BY <1>1 DEF RingInv, MovingOut
<1>5. QED
  BY <1>2, <1>3, <1>4 DEF Mpmc!SlotsExclusive

\* ArrayMpmcQueue::enqueue, dequeue: no two threads work on one slot, a producer
\* constructs on raw memory only and a consumer moves out of a published object only, in
\* every queue of more than one slot.
THEOREM SlotsExclusiveHolds == Capacity # 1 => (Spec => []Mpmc!SlotsExclusive)
<1>1. SUFFICES ASSUME Capacity # 1 PROVE Spec => []Mpmc!SlotsExclusive
  OBVIOUS
<1>2. Init => RingInv
  BY InitRing DEF Init
<1>3. RingInv /\ [Next]_vars => RingInv'
  BY <1>1, NextRing
<1>4. QED
  BY <1>2, <1>3, RingExclusive, PTL DEF Spec

\* A thread in recheck that is idle afterwards took the step, and its call gave up.
LEMMA GaveUp ==
  ASSUME RingTypes, Mpmc!Next, NEW p \in Mpmc!Procs, mPc'[p] = "idle"
  PROVE  /\ mPc[p] = "recheckItem" => p \in Consumers /\ sequence[Mpmc!Slot(mPos[p])] < mPos[p] + 1
         /\ mPc[p] = "recheckFree" => p \in Producers /\ sequence[Mpmc!Slot(mPos[p])] < mPos[p]
<1>1. mPc \in [Mpmc!Procs -> {"idle"} \cup Enqueueing \cup Dequeueing \cup Working]
  BY DEF RingTypes
<1>2. \A q : q # p => \A l : mPc' = [mPc EXCEPT ![q] = l] => mPc[p] = "idle"
  BY <1>1
<1>3. ASSUME NEW q, NEW l, mPc' = [mPc EXCEPT ![q] = l], q # p \/ l # "idle" PROVE mPc[p] = "idle"
  BY <1>1, <1>3
<1>4. ASSUME NEW q \in Producers,
             (\E n \in 1 .. MaxBulk : Mpmc!EnqBegin(q, n)) \/ Mpmc!EnqProbe(q) \/ Mpmc!EnqReload(q)
             \/ Mpmc!EnqCas(q) \/ Mpmc!EnqConstruct(q)
      PROVE  mPc[p] = "idle"
  <2>1. PICK l : mPc' = [mPc EXCEPT ![q] = l] /\ l # "idle"
    BY <1>4 DEF Mpmc!EnqBegin, Mpmc!EnqProbe, Mpmc!Probe, Mpmc!EnqReload, Mpmc!EnqCas, Mpmc!EnqConstruct, Mpmc!Goto
  <2>2. QED
    BY <1>3, <2>1
<1>5. ASSUME NEW q \in Consumers,
             (\E n \in 1 .. MaxBulk : Mpmc!DeqBegin(q, n)) \/ Mpmc!DeqProbe(q) \/ Mpmc!DeqReload(q)
             \/ Mpmc!DeqCas(q) \/ Mpmc!DeqMoveOut(q)
      PROVE  mPc[p] = "idle"
  <2>1. PICK l : mPc' = [mPc EXCEPT ![q] = l] /\ l # "idle"
    BY <1>5 DEF Mpmc!DeqBegin, Mpmc!DeqProbe, Mpmc!Probe, Mpmc!DeqReload, Mpmc!DeqCas, Mpmc!DeqMoveOut, Mpmc!Goto
  <2>2. QED
    BY <1>3, <2>1
<1>6. ASSUME NEW q, Mpmc!EnqPublish(q) \/ Mpmc!DeqRelease(q)
      PROVE  mPc[p] = "idle" \/ mPc[p] \in {"publish", "release"}
  <2>1. mPc[q] \in {"publish", "release"} /\ \E l : mPc' = [mPc EXCEPT ![q] = l]
    BY <1>6 DEF Mpmc!EnqPublish, Mpmc!DeqRelease, Mpmc!NextSlot, Mpmc!Return, Mpmc!Goto
  <2>2. QED
    BY <1>2, <2>1
<1>7. ASSUME NEW q \in Producers, Mpmc!EnqRecheck(q)
      PROVE  \/ mPc[p] = "idle"
             \/ p = q /\ mPc[p] = "recheckFree" /\ sequence[Mpmc!Slot(mPos[p])] < mPos[p]
  <2>1. CASE Mpmc!Goto(q, "reloadTail")
    <3>1. PICK l : l = "reloadTail"
      OBVIOUS
    <3>2. mPc' = [mPc EXCEPT ![q] = l] /\ l # "idle"
      BY <2>1, <3>1 DEF Mpmc!Goto
    <3>3. QED
      BY <1>3, <3>2
  <2>2. CASE sequence[Mpmc!Slot(mPos[q])] < mPos[q] /\ Mpmc!Return(q)
    <3>1. \E l : mPc' = [mPc EXCEPT ![q] = l]
      BY <2>2 DEF Mpmc!Return, Mpmc!Goto
    <3>2. mPc[q] = "recheckFree"
      BY <1>7 DEF Mpmc!EnqRecheck
    <3>3. QED
      BY <1>2, <2>2, <3>1, <3>2
  <2>3. QED
    BY <1>7, <2>1, <2>2 DEF Mpmc!EnqRecheck
<1>8. ASSUME NEW q \in Consumers, Mpmc!DeqRecheck(q)
      PROVE  \/ mPc[p] = "idle"
             \/ p = q /\ mPc[p] = "recheckItem" /\ sequence[Mpmc!Slot(mPos[p])] < mPos[p] + 1
  <2>1. CASE Mpmc!Goto(q, "reloadHead")
    <3>1. PICK l : l = "reloadHead"
      OBVIOUS
    <3>2. mPc' = [mPc EXCEPT ![q] = l] /\ l # "idle"
      BY <2>1, <3>1 DEF Mpmc!Goto
    <3>3. QED
      BY <1>3, <3>2
  <2>2. CASE sequence[Mpmc!Slot(mPos[q])] < mPos[q] + 1 /\ Mpmc!Return(q)
    <3>1. \E l : mPc' = [mPc EXCEPT ![q] = l]
      BY <2>2 DEF Mpmc!Return, Mpmc!Goto
    <3>2. mPc[q] = "recheckItem"
      BY <1>8 DEF Mpmc!DeqRecheck
    <3>3. QED
      BY <1>2, <2>2, <3>1, <3>2
  <2>3. QED
    BY <1>8, <2>1, <2>2 DEF Mpmc!DeqRecheck
<1>9. QED
  BY <1>4, <1>5, <1>6, <1>7, <1>8 DEF Mpmc!Next, Mpmc!EnqStep, Mpmc!DeqStep

\* dequeue, dequeueBulk: a call returns 0 only while the first entry is missing or not
\* published: the index it looked at is still the head, since those before it were published.
THEOREM EmptyMeansUnpublishedHolds == Capacity # 1 => (Spec => Mpmc!EmptyMeansUnpublished)
<1>1. SUFFICES ASSUME Capacity # 1 PROVE Spec => Mpmc!EmptyMeansUnpublished
  OBVIOUS
<1>2. Init => RingInv
  BY InitRing DEF Init
<1>3. RingInv /\ [Next]_vars => RingInv'
  BY <1>1, NextRing
<1> DEFINE GivesUp(c) == mPc[c] = "recheckItem" /\ mPc'[c] = "idle"
           Given == \A c \in Consumers : GivesUp(c) => mHead = mTail \/ sequence[Mpmc!Slot(mHead)] # mHead + 1
<1>4. RingInv /\ [Next]_vars => [Given]_(Mpmc!vars)
  <2>1. SUFFICES ASSUME RingInv, Mpmc!Next PROVE Given
    BY DEF Next, Others, vars, mpmcVars, Mpmc!vars
  <2>2. SUFFICES ASSUME NEW c \in Consumers, mPc[c] = "recheckItem", mPc'[c] = "idle"
                 PROVE  sequence[Mpmc!Slot(mHead)] # mHead + 1
    OBVIOUS
  <2>3. c \in Mpmc!Procs /\ RingTypes /\ Probed(c) /\ mPos[c] \in Nat /\ mHead \in Nat
    BY <2>1 DEF RingInv, RingTypes, Mpmc!Procs
  <2>4. sequence[Mpmc!Slot(mPos[c])] < mPos[c] + 1
    BY <2>1, <2>2, <2>3, GaveUp
  <2>5. mPos[c] <= mHead
    BY <2>2, <2>3 DEF Probed, Dequeueing
  <2>6. mPos[c] < mHead => sequence[Mpmc!Slot(mPos[c])] >= mPos[c] + 1
    BY <2>1, <2>3 DEF RingInv, Passed
  <2>7. sequence[Mpmc!Slot(mPos[c])] \in Nat
    BY <2>1, <2>3, RingFacts
  <2>8. QED
    BY <2>3, <2>4, <2>5, <2>6, <2>7
<1>5. QED
  BY <1>2, <1>3, <1>4, PTL DEF Spec, Mpmc!EmptyMeansUnpublished

\* enqueue, enqueueBulk: a call returns 0 only while an index a whole lap back is in the
\* queue or in a consumer's hands: the index it looked at is still the tail.
THEOREM FullMeansLapOutstandingHolds == Capacity # 1 => (Spec => Mpmc!FullMeansLapOutstanding)
<1>1. SUFFICES ASSUME Capacity # 1 PROVE Spec => Mpmc!FullMeansLapOutstanding
  OBVIOUS
<1>2. Init => RingInv
  BY InitRing DEF Init
<1>3. RingInv /\ [Next]_vars => RingInv'
  BY <1>1, NextRing
<1> DEFINE GivesUp(p) == mPc[p] = "recheckFree" /\ mPc'[p] = "idle"
           Given == \A p \in Producers : GivesUp(p) =>
                      \/ mTail - mHead >= Capacity
                      \/ \E c \in Consumers : mPos[p] - Capacity \in Mpmc!Won(c)
<1>4. RingInv /\ [Next]_vars => [Given]_(Mpmc!vars)
  <2>1. SUFFICES ASSUME RingInv, Mpmc!Next PROVE Given
    BY DEF Next, Others, vars, mpmcVars, Mpmc!vars
  <2>2. SUFFICES ASSUME NEW p \in Producers, mPc[p] = "recheckFree", mPc'[p] = "idle",
                        ~(mTail - mHead >= Capacity)
                 PROVE  \E c \in Consumers : mPos[p] - Capacity \in Mpmc!Won(c)
    OBVIOUS
  <2>3. p \in Mpmc!Procs /\ RingTypes /\ Probed(p) /\ mPos[p] \in Nat
    BY <2>1 DEF RingInv, RingTypes, Mpmc!Procs
  <2>4. sequence[Mpmc!Slot(mPos[p])] < mPos[p]
    BY <2>1, <2>2, <2>3, GaveUp
  <2>5. mPos[p] <= mTail /\ mTail \in Nat /\ mHead \in Nat /\ Capacity \in Nat
    BY <2>1, <2>2, <2>3, RingFacts DEF Probed, Enqueueing
  <2>6. mPos[p] < mTail => sequence[Mpmc!Slot(mPos[p])] >= mPos[p]
    BY <2>1, <2>3 DEF RingInv, Passed
  <2>7. sequence[Mpmc!Slot(mPos[p])] \in Nat
    BY <2>1, <2>3, RingFacts
  <2>8. mPos[p] = mTail /\ mTail < mHead + Capacity
    BY <2>2, <2>3, <2>4, <2>5, <2>6, <2>7
  <2>9. sequence[Mpmc!Slot(mTail)] # mTail
    BY <2>3, <2>4, <2>7, <2>8
  <2>10. QED
    BY <2>1, <2>5, <2>8, <2>9 DEF RingInv, FreeIndices
<1>5. QED
  BY <1>2, <1>3, <1>4, PTL DEF Spec, Mpmc!FullMeansLapOutstanding
-----------------------------------------------------------------------------
(***************************************************************************)
(* The items of all the producers.                                         *)
(***************************************************************************)
\* The items of producers of which p has sent f[p], at most m.
Sends(f, m) == {x \in Producers \X (1 .. m) : x[2] <= f[x[1]]}

\* There are not more of them than the producers may send together.
LEMMA SendsBound ==
  ASSUME NEW m \in Nat, NEW f
  PROVE  /\ IsFiniteSet(Sends(f, m)) /\ Cardinality(Sends(f, m)) \in Nat
         /\ Cardinality(Sends(f, m)) <= m * Cardinality(Producers)
<1>1. IsFiniteSet(Producers) /\ Cardinality(Producers) \in Nat
  BY LibraryAssumption, FS_CardinalityType
<1>2. IsFiniteSet(1 .. m) /\ Cardinality(1 .. m) = m
  BY FS_Interval
<1>3. /\ IsFiniteSet(Producers \X (1 .. m))
      /\ Cardinality(Producers \X (1 .. m)) = Cardinality(Producers) * m
  BY <1>1, <1>2, FS_Product
<1>4. Sends(f, m) \in SUBSET (Producers \X (1 .. m))
  BY DEF Sends
<1>5. /\ IsFiniteSet(Sends(f, m)) /\ Cardinality(Sends(f, m)) \in Nat
      /\ Cardinality(Sends(f, m)) <= Cardinality(Producers) * m
  BY <1>3, <1>4, FS_Subset, FS_CardinalityType
<1>6. Cardinality(Producers) * m = m * Cardinality(Producers)
  <2>1. \A a, b \in Nat : a * b = b * a
    BY Z3
  <2>2. QED
    BY <1>1, <2>1
<1>7. QED
  BY <1>5, <1>6

\* A producer that sends n more adds n.
LEMMA SendsMore ==
  ASSUME NEW m \in Nat, NEW f \in [Producers -> Nat], NEW p \in Producers, NEW n \in Nat,
         f[p] + n <= m
  PROVE  Cardinality(Sends([f EXCEPT ![p] = f[p] + n], m)) = Cardinality(Sends(f, m)) + n
<1> DEFINE g == [f EXCEPT ![p] = f[p] + n]
           S == Sends(f, m)
           T == {p} \X (f[p] + 1 .. f[p] + n)
<1>1. f[p] \in Nat /\ f[p] + 1 \in Int /\ f[p] + n \in Int
  OBVIOUS
<1>2. IsFiniteSet({p}) /\ Cardinality({p}) = 1
  BY FS_Singleton
<1>3. IsFiniteSet(f[p] + 1 .. f[p] + n) /\ Cardinality(f[p] + 1 .. f[p] + n) = n
  <2>1. \A a, b \in Int : IsFiniteSet(a .. b) /\ Cardinality(a .. b) = IF a > b THEN 0 ELSE b - a + 1
    BY FS_Interval
  <2>2. /\ IsFiniteSet(f[p] + 1 .. f[p] + n)
        /\ Cardinality(f[p] + 1 .. f[p] + n) = IF f[p] + 1 > f[p] + n THEN 0 ELSE (f[p] + n) - (f[p] + 1) + 1
    BY <1>1, <2>1, Zenon
  <2>3. QED
    BY <1>1, <2>2
<1>4. IsFiniteSet(T) /\ Cardinality(T) = n
  <2>1. IsFiniteSet(T) /\ Cardinality(T) = Cardinality({p}) * Cardinality(f[p] + 1 .. f[p] + n)
    BY <1>2, <1>3, FS_Product
  <2>2. QED
    BY <1>2, <1>3, <2>1
<1>5. Sends(g, m) = S \cup T
  <2>1. ASSUME NEW x \in Producers \X (1 .. m) PROVE x[2] <= g[x[1]] <=> x \in S \cup T
    <3>1. PICK q \in Producers, k \in 1 .. m : x = <<q, k>>
      BY <2>1
    <3>2. x \in S <=> k <= f[q]
      BY <3>1 DEF Sends
    <3>3. x \in T <=> q = p /\ k \in f[p] + 1 .. f[p] + n
      BY <3>1
    <3>4. g[q] = IF q = p THEN f[p] + n ELSE f[q]
      OBVIOUS
    <3>5. x[1] = q /\ x[2] = k
      BY <3>1
    <3>6. f[q] \in Nat
      OBVIOUS
    <3> HIDE DEF S, T, g
    <3>7. QED
      BY <1>1, <3>2, <3>3, <3>4, <3>5, <3>6
  <2>2. S \cup T \subseteq Producers \X (1 .. m)
    BY <1>1 DEF Sends
  <2> HIDE DEF S, T
  <2>3. QED
    BY <2>1, <2>2 DEF Sends
<1>6. S \cap T = {}
  <2>1. SUFFICES ASSUME NEW x \in S, x \in T PROVE FALSE
    OBVIOUS
  <2>2. x[1] = p /\ x[2] \in f[p] + 1 .. f[p] + n /\ x[2] <= f[x[1]]
    BY <2>1 DEF Sends
  <2>3. QED
    BY <1>1, <2>2
<1>7. IsFiniteSet(S) /\ Cardinality(S) \in Nat
  BY SendsBound
<1> HIDE DEF S, T, g
<1>8. Cardinality(S \cup T) = Cardinality(S) + Cardinality(T) - Cardinality(S \cap T)
  BY <1>4, <1>7, FS_Union
<1>9. Cardinality(S \cap T) = 0
  BY <1>6, FS_EmptySet
<1>10. Cardinality(Sends(g, m)) = Cardinality(S) + n
  BY <1>4, <1>5, <1>7, <1>8, <1>9
<1>11. QED
  BY <1>10 DEF S, g

\* A producer that has sent nothing adds none.
LEMMA SendsNone == ASSUME NEW m \in Nat PROVE Cardinality(Sends([p \in Producers |-> 0], m)) = 0
<1>1. Sends([p \in Producers |-> 0], m) = {}
  BY DEF Sends
<1>2. QED
  BY <1>1, FS_EmptySet
-----------------------------------------------------------------------------
(***************************************************************************)
(* ArrayMpscQueue: the inductive invariant.                                *)
(***************************************************************************)
Deciding == {"loadHead", "reloadHead", "cas"}
Filling == {"construct", "publish"}
Popping == {"check", "moveOut", "release", "advance"}

\* The index up to which the consumer has emptied the slots.
Front == IF sPc[Consumer] = "idle" THEN sHead ELSE sPos[Consumer]

\* The items that each producer has constructed or won a place for.
Given == [p \in Producers |-> IF sPc[p] = "construct" THEN sSent[p] + left[p]
                              ELSE IF sPc[p] = "publish" THEN sSent[p] + left[p] - 1
                              ELSE sSent[p]]

StripTypes ==
  /\ sHead \in Nat /\ sTail \in Nat /\ sHead <= sTail /\ sTail <= sHead + Capacity
  /\ written \in [Mpsc!Slots -> BOOLEAN]
  /\ sData \in [Mpsc!Slots -> (Producers \X (1 .. MpscItems)) \cup {Nothing}]
  /\ sPc \in [Mpsc!Procs -> {"idle"} \cup Deciding \cup Filling \cup Popping]
  /\ sPos \in [Mpsc!Procs -> Nat] /\ left \in [Mpsc!Procs -> 0 .. MaxBulk]
  /\ seen \in [Producers -> Nat] /\ sSent \in [Producers -> 0 .. MpscItems]

\* pushBulk: what a producer knows of _head is old at worst; when it tries to claim there
\* is room by what it knows.
Pushing(p) ==
  /\ sPc[p] \in {"idle"} \cup Deciding \cup Filling
  /\ seen[p] <= sHead /\ Given[p] <= MpscItems
  /\ sPc[p] # "idle" => left[p] > 0
  /\ sPc[p] \in Deciding => sPos[p] <= sTail /\ sSent[p] + left[p] <= MpscItems
  /\ sPc[p] = "cas" => Mpsc!Available(sPos[p], seen[p]) > 0

\* pushBulk: an index won is in the queue, its slot unwritten until it is published.
Claimed ==
  \A p \in Producers : \A i \in Mpsc!Won(p) :
    /\ Front <= i /\ i < sTail
    /\ written[Mpsc!Slot(i)] = FALSE
    /\ sData[Mpsc!Slot(i)] = Nothing <=> ~(sPc[p] = "publish" /\ i = sPos[p])

\* The CAS gives an index to one producer.
ClaimedOnce == \A p, q \in Producers : \A i : i \in Mpsc!Won(p) /\ i \in Mpsc!Won(q) => p = q

\* An index that is not emptied is published, or a producer's.
Published ==
  \A i \in Nat : Front <= i /\ i < sTail =>
    \/ /\ written[Mpsc!Slot(i)] = TRUE
       /\ sData[Mpsc!Slot(i)] = Nothing <=> sPc[Consumer] = "release" /\ i = sPos[Consumer]
    \/ \E p \in Producers : i \in Mpsc!Won(p)

\* The slot of an index to come is empty as soon as the consumer is past the lap before.
Emptied ==
  \A i \in Nat : sTail <= i /\ i < Front + Capacity =>
    written[Mpsc!Slot(i)] = FALSE /\ sData[Mpsc!Slot(i)] = Nothing

\* popBulk: the consumer works in the queue, on a published slot.
Emptying ==
  /\ sPc[Consumer] \in {"idle"} \cup Popping
  /\ sHead <= Front /\ Front <= sTail
  /\ sPc[Consumer] \in {"moveOut", "release"} =>
       /\ Front < sTail /\ left[Consumer] > 0 /\ written[Mpsc!Slot(Front)] = TRUE

StripInv == /\ StripTypes /\ Claimed /\ ClaimedOnce /\ Published /\ Emptied /\ Emptying
            /\ sTail = Cardinality(Sends(Given, MpscItems))
            /\ \A p \in Producers : Pushing(p)

\* The mpsc queue has a consumer, which does not produce.
LEMMA ConsumerPops == Consumer \in Consumers /\ Consumer \notin Producers /\ Consumer \in Mpsc!Procs
<1>1. \E c \in Consumers : c \notin Suspended
  BY LibraryAssumption
<1>2. Consumer \in Consumers
  BY <1>1 DEF Consumer
<1>3. QED
  BY <1>2, LibraryAssumption DEF Mpsc!Procs

\* The slots are those of the mpmc queue.
LEMMA StripSlots ==
  /\ \A i \in Nat : Mpsc!Slot(i) \in Mpsc!Slots /\ Mpsc!Slot(i + Capacity) = Mpsc!Slot(i)
  /\ \A i, j \in Nat : Mpsc!Slot(i) = Mpsc!Slot(j) /\ i < j + Capacity /\ j < i + Capacity => i = j
BY SlotType, SlotApart, SlotLap DEF Mpsc!Slot, Mpmc!Slot, Mpsc!Slots, Mpmc!Slots

\* The indices won, and what they stand for.
LEMMA StripWon ==
  ASSUME StripTypes, NEW p \in Producers
  PROVE  /\ p \in Mpsc!Procs /\ p # Consumer /\ Mpsc!Won(p) \subseteq Nat
         /\ sPc[p] \in Filling => Mpsc!Won(p) = sPos[p] .. sPos[p] + left[p] - 1
         /\ sPc[p] \notin Filling => Mpsc!Won(p) = {}
         /\ sPos[p] \in Nat /\ left[p] \in Nat /\ left[p] <= MaxBulk
         /\ seen[p] \in Nat /\ sSent[p] \in Nat
<1>1. p \in Mpsc!Procs
  BY DEF Mpsc!Procs
<1>2. p # Consumer
  BY ConsumerPops
<1>3. sPos[p] \in Nat /\ left[p] \in Nat /\ left[p] <= MaxBulk /\ seen[p] \in Nat /\ sSent[p] \in Nat
  <2>1. sPos[p] \in Nat /\ left[p] \in 0 .. MaxBulk /\ seen[p] \in Nat /\ sSent[p] \in 0 .. MpscItems
    BY <1>1 DEF StripTypes
  <2>2. QED
    BY <2>1, LibraryAssumption
<1>4. Mpsc!Won(p) = IF sPc[p] \in Filling THEN sPos[p] .. sPos[p] + left[p] - 1 ELSE {}
  BY DEF Mpsc!Won, Filling
<1>5. QED
  BY <1>1, <1>2, <1>3, <1>4

\* The processes other than p stand where they stood.
StripStay(p) ==
  /\ \A q \in Mpsc!Procs : q # p => sPc'[q] = sPc[q] /\ sPos'[q] = sPos[q] /\ left'[q] = left[q]
  /\ \A q \in Producers : q # p => seen'[q] = seen[q] /\ sSent'[q] = sSent[q]

\* A producer that does not move keeps what it has won and knows.
LEMMA StripOthers ==
  ASSUME StripInv, NEW p, StripStay(p), sHead <= sHead', sTail <= sTail', sHead' \in Nat, sTail' \in Nat
  PROVE  \A q \in Producers : q # p =>
           /\ Mpsc!Won(q)' = Mpsc!Won(q) /\ Given'[q] = Given[q]
           /\ sPc'[q] = sPc[q] /\ sPos'[q] = sPos[q] /\ Pushing(q)'
<1>1. TAKE q \in Producers
<1>2. HAVE q # p
<1>3. /\ sPc'[q] = sPc[q] /\ sPos'[q] = sPos[q] /\ left'[q] = left[q]
      /\ seen'[q] = seen[q] /\ sSent'[q] = sSent[q]
  BY <1>2 DEF StripStay, Mpsc!Procs
<1>4. Mpsc!Won(q)' = Mpsc!Won(q)
  BY <1>3 DEF Mpsc!Won
<1>5. Given'[q] = Given[q]
  BY <1>3 DEF Given
<1>6. Pushing(q) /\ StripTypes
  BY DEF StripInv
<1>7. sPos[q] \in Nat /\ seen[q] \in Nat /\ sHead \in Nat /\ sTail \in Nat
  BY <1>6, StripWon DEF StripTypes
<1>8. seen[q] <= sHead' /\ (sPc[q] \in Deciding => sPos[q] <= sTail')
  BY <1>6, <1>7 DEF Pushing
<1>9. Mpsc!Available(sPos'[q], seen'[q]) = Mpsc!Available(sPos[q], seen[q])
  BY <1>3
<1>10. Pushing(q)'
  BY <1>3, <1>5, <1>6, <1>8, <1>9 DEF Pushing, Mpsc!Available, Mpsc!Size
<1>11. QED
  BY <1>3, <1>4, <1>5, <1>10

\* What the invariant says of the indices and their slots, in one place.
LEMMA StripFacts ==
  ASSUME StripInv
  PROVE  /\ Capacity \in Nat /\ Capacity > 0 /\ StripTypes
         /\ sHead \in Nat /\ sTail \in Nat /\ Front \in Nat
         /\ sHead <= Front /\ Front <= sTail /\ sTail <= sHead + Capacity
         /\ \A i, j \in Nat : Front <= i /\ i < Front + Capacity /\ Front <= j /\ j < Front + Capacity /\ i # j
              => Mpsc!Slot(i) # Mpsc!Slot(j)
         /\ \A p \in Producers : \A i \in Mpsc!Won(p) :
              /\ i \in Nat /\ Front <= i /\ i < sTail /\ i < Front + Capacity
              /\ written[Mpsc!Slot(i)] = FALSE
<1>1. Capacity \in Nat /\ Capacity > 0 /\ StripTypes
  BY LibraryAssumption DEF StripInv
<1>2. sHead \in Nat /\ sTail \in Nat /\ sTail <= sHead + Capacity
  BY <1>1 DEF StripTypes
<1>3. Front \in Nat
  BY <1>1, ConsumerPops DEF StripTypes, Front
<1>4. sHead <= Front /\ Front <= sTail
  BY DEF StripInv, Emptying
<1>5. \A i, j \in Nat : Front <= i /\ i < Front + Capacity /\ Front <= j /\ j < Front + Capacity /\ i # j
        => Mpsc!Slot(i) # Mpsc!Slot(j)
  BY <1>1, <1>3, StripSlots
<1>6. ASSUME NEW p \in Producers, NEW i \in Mpsc!Won(p)
      PROVE  /\ i \in Nat /\ Front <= i /\ i < sTail /\ i < Front + Capacity
             /\ written[Mpsc!Slot(i)] = FALSE
  <2>1. i \in Nat
    BY <1>1, <1>6, StripWon
  <2>2. Front <= i /\ i < sTail /\ written[Mpsc!Slot(i)] = FALSE
    BY <1>6 DEF StripInv, Claimed
  <2>3. QED
    BY <1>1, <1>2, <1>3, <1>4, <2>1, <2>2
<1>7. QED
  BY <1>1, <1>2, <1>3, <1>4, <1>5, <1>6

\* pushBulk: a step that touches nothing shared, of a producer that has won nothing.
LEMMA StripQuiet ==
  ASSUME StripInv, NEW p \in Producers, UNCHANGED <<sHead, sTail, written, sData, sSent>>, StripStay(p),
         sPc[p] \notin Filling, sPc'[p] \notin Filling, StripTypes', Pushing(p)'
  PROVE  StripInv'
<1>1. p # Consumer /\ Consumer \in Mpsc!Procs /\ StripTypes /\ p \in Mpsc!Procs
  BY ConsumerPops DEF StripInv, Mpsc!Procs
<1>2. sHead <= sHead' /\ sTail <= sTail' /\ sHead' \in Nat /\ sTail' \in Nat
  BY <1>1 DEF StripTypes
<1>3. \A q \in Producers : q # p =>
        /\ Mpsc!Won(q)' = Mpsc!Won(q) /\ Given'[q] = Given[q]
        /\ sPc'[q] = sPc[q] /\ sPos'[q] = sPos[q] /\ Pushing(q)'
  BY <1>2, StripOthers
<1>4. Mpsc!Won(p) = {} /\ Mpsc!Won(p)' = {}
  BY DEF Mpsc!Won, Filling
<1>5. \A q \in Producers : Mpsc!Won(q)' = Mpsc!Won(q)
  BY <1>3, <1>4
<1>6. Given'[p] = sSent[p] /\ Given[p] = sSent[p]
  BY DEF Given, Filling
<1>7. Given' = Given
  BY <1>3, <1>6 DEF Given
<1>8. sPc'[Consumer] = sPc[Consumer] /\ sPos'[Consumer] = sPos[Consumer] /\ left'[Consumer] = left[Consumer]
  BY <1>1 DEF StripStay
<1>9. Front' = Front
  BY <1>8 DEF Front
<1>10. Claimed'
  <2>1. SUFFICES ASSUME NEW q \in Producers, NEW i \in Mpsc!Won(q)
                 PROVE  /\ Front <= i /\ i < sTail
                        /\ written[Mpsc!Slot(i)] = FALSE
                        /\ sData[Mpsc!Slot(i)] = Nothing <=> ~(sPc'[q] = "publish" /\ i = sPos'[q])
    BY <1>5, <1>9 DEF Claimed, Mpsc!Slot
  <2>2. q # p
    BY <1>4
  <2>3. QED
    BY <1>3, <2>2 DEF StripInv, Claimed
<1>11. ClaimedOnce'
  BY <1>5 DEF StripInv, ClaimedOnce
<1>12. Published'
  BY <1>5, <1>8, <1>9 DEF StripInv, Published, Mpsc!Slot
<1>13. Emptied'
  BY <1>9 DEF StripInv, Emptied, Mpsc!Slot
<1>14. Emptying'
  BY <1>8, <1>9 DEF StripInv, Emptying, Mpsc!Slot
<1>15. sTail' = Cardinality(Sends(Given', MpscItems))
  BY <1>7 DEF StripInv
<1>16. \A q \in Producers : Pushing(q)'
  BY <1>3
<1>17. QED
  BY <1>10, <1>11, <1>12, <1>13, <1>14, <1>15, <1>16 DEF StripInv, Sends

\* available: a number of slots.
LEMMA AvailableType == \A t, h \in Nat : Mpsc!Available(t, h) \in Nat
<1>1. WordMod \in Nat /\ WordMod > 0 /\ Capacity \in Nat
  <2>1. MpscItems * Cardinality(Producers) \in Nat
    BY LibraryAssumption, FS_CardinalityType, Product
  <2>2. QED
    BY <2>1, LibraryAssumption
<1>2. \A w \in Nat : w > 0 => \A x \in Int : x % w \in Nat
  BY Z3
<1>3. \A t, h \in Nat : Mpsc!Size(t, h) \in Nat
  BY <1>1, <1>2 DEF Mpsc!Size
<1>4. TAKE t, h \in Nat
<1>5. PICK s \in Nat : s = Mpsc!Size(t, h)
  BY <1>3
<1>6. Mpsc!Available(t, h) = IF s >= Capacity THEN 0 ELSE Capacity - s
  BY <1>5 DEF Mpsc!Available
<1>7. QED
  BY <1>1, <1>5, <1>6

\* A call goes on to label l, with index i, n items and the copy h of _head.
LEMMA StripMove ==
  ASSUME StripInv, NEW p \in Producers, UNCHANGED <<sHead, sTail, written, sData, sSent>>, sPc[p] \notin Filling,
         NEW l \in {"idle"} \cup Deciding, NEW i \in Nat, NEW n \in 0 .. MaxBulk, NEW h \in Nat,
         sPc' = [sPc EXCEPT ![p] = l], sPos' = [sPos EXCEPT ![p] = i],
         left' = [left EXCEPT ![p] = n], seen' = [seen EXCEPT ![p] = h], h <= sHead,
         l # "idle" => n > 0 /\ i <= sTail /\ sSent[p] + n <= MpscItems,
         l = "cas" => Mpsc!Available(i, h) > 0
  PROVE  StripInv'
<1>1. StripTypes /\ p \in Mpsc!Procs /\ Pushing(p)
  BY DEF StripInv, Mpsc!Procs
<1>2. StripTypes'
  BY <1>1 DEF StripTypes, Mpsc!Slots, Mpsc!Procs
<1>3. sPc'[p] = l /\ sPos'[p] = i /\ left'[p] = n /\ seen'[p] = h /\ l \notin Filling
  BY <1>1 DEF StripTypes, Deciding, Filling
<1>4. StripStay(p)
  BY <1>1 DEF StripStay, StripTypes
<1>5. Given'[p] = sSent[p] /\ Given[p] = sSent[p]
  BY <1>3 DEF Given, Filling
<1>6. Given[p] <= MpscItems
  BY <1>1 DEF Pushing
<1>7. Pushing(p)'
  BY <1>3, <1>5, <1>6 DEF Pushing, Deciding, Mpsc!Available, Mpsc!Size
<1>8. QED
  BY <1>2, <1>3, <1>4, <1>7, StripQuiet

\* push, pushBulk: the steps that claim nothing.
LEMMA PushMoveKeeps ==
  ASSUME StripInv, NEW p \in Producers,
         \/ \E n \in 1 .. MaxBulk : Mpsc!PushLoadTail(p, n)
         \/ Mpsc!PushLoadHead(p) \/ Mpsc!PushReloadHead(p)
         \/ Mpsc!PushCas(p) /\ sTail # sPos[p]
  PROVE  StripInv'
<1>1. StripTypes /\ p \in Mpsc!Procs /\ Pushing(p) /\ sHead \in Nat /\ sTail \in Nat
      /\ sPos[p] \in Nat /\ left[p] \in 0 .. MaxBulk /\ seen[p] \in Nat
  BY DEF StripInv, StripTypes, Mpsc!Procs
<1>2. /\ sPos = [sPos EXCEPT ![p] = sPos[p]] /\ left = [left EXCEPT ![p] = left[p]]
      /\ seen = [seen EXCEPT ![p] = seen[p]]
  BY <1>1 DEF StripTypes
<1>3. seen[p] <= sHead
  BY <1>1 DEF Pushing
<1>4. sPc[p] \in Deciding => left[p] > 0 /\ sPos[p] <= sTail /\ sSent[p] + left[p] <= MpscItems
  BY <1>1 DEF Pushing, Deciding
<1>5. ASSUME sPc[p] \in Deciding, UNCHANGED <<sHead, sTail, written, sData, sSent>>, UNCHANGED left,
             NEW t \in Nat, t <= sTail, NEW h \in Nat, h <= sHead, Mpsc!Compare(p, t, h),
             sPos' = [sPos EXCEPT ![p] = t], seen' = [seen EXCEPT ![p] = h]
      PROVE  StripInv'
  <2>1. PICK l : l = IF Mpsc!Available(t, h) < left[p] THEN "reloadHead" ELSE "cas"
    OBVIOUS
  <2>2. sPc' = [sPc EXCEPT ![p] = l]
    BY <1>5, <2>1 DEF Mpsc!Compare, Mpsc!Goto
  <2>3. left' = [left EXCEPT ![p] = left[p]]
    BY <1>2, <1>5
  <2>4. Mpsc!Available(t, h) \in Nat
    BY <1>5, AvailableType
  <2>5. l \in Deciding /\ l # "idle" /\ (l = "cas" => Mpsc!Available(t, h) > 0)
    BY <1>1, <1>4, <1>5, <2>1, <2>4 DEF Deciding
  <2>6. sPc[p] \notin Filling
    BY <1>5 DEF Deciding, Filling
  <2>7. QED
    BY <1>1, <1>4, <1>5, <2>2, <2>3, <2>5, <2>6, StripMove
<1>6. ASSUME NEW n \in 1 .. MaxBulk, Mpsc!PushLoadTail(p, n) PROVE StripInv'
  <2>1. PICK l : l = "loadHead"
    OBVIOUS
  <2>2. /\ sPc[p] = "idle" /\ sSent[p] + n <= MpscItems /\ sPos' = [sPos EXCEPT ![p] = sTail]
        /\ left' = [left EXCEPT ![p] = n] /\ sPc' = [sPc EXCEPT ![p] = l] /\ seen' = seen
        /\ UNCHANGED <<sHead, sTail, written, sData, sSent>>
    BY <1>6, <2>1 DEF Mpsc!PushLoadTail, Mpsc!Goto, Mpsc!shared
  <2>3. /\ l \in Deciding /\ l # "cas" /\ sPc[p] \notin Filling /\ n \in 0 .. MaxBulk /\ n > 0
        /\ sTail <= sTail
    BY <1>1, <2>1, <2>2 DEF Deciding, Filling
  <2>4. seen' = [seen EXCEPT ![p] = seen[p]]
    BY <1>2, <2>2
  <2>5. QED
    BY <1>1, <1>3, <2>2, <2>3, <2>4, StripMove
<1>7. CASE Mpsc!PushLoadHead(p)
  <2>1. /\ sPc[p] \in Deciding /\ UNCHANGED <<sHead, sTail, written, sData, sSent>> /\ UNCHANGED left
        /\ Mpsc!Compare(p, sPos[p], sHead) /\ sPos' = sPos /\ seen' = [seen EXCEPT ![p] = sHead]
    BY <1>7 DEF Mpsc!PushLoadHead, Mpsc!shared, Deciding
  <2>2. sPos' = [sPos EXCEPT ![p] = sPos[p]] /\ sHead <= sHead
    BY <1>1, <1>2, <2>1
  <2>3. QED
    BY <1>1, <1>4, <1>5, <2>1, <2>2
<1>8. CASE Mpsc!PushCas(p) /\ sTail # sPos[p]
  <2>1. /\ sPc[p] \in Deciding /\ UNCHANGED <<sHead, sTail, written, sData, sSent>> /\ UNCHANGED left
        /\ Mpsc!Compare(p, sTail, seen[p]) /\ sPos' = [sPos EXCEPT ![p] = sTail] /\ seen' = seen
    BY <1>8 DEF Mpsc!PushCas, Deciding
  <2>2. seen' = [seen EXCEPT ![p] = seen[p]] /\ sTail <= sTail
    BY <1>1, <1>2, <2>1
  <2>3. QED
    BY <1>1, <1>3, <1>5, <2>1, <2>2
<1>9. CASE Mpsc!PushReloadHead(p)
  <2>1. sPc[p] = "reloadHead" /\ UNCHANGED <<sHead, sTail, written, sData, sSent>>
    BY <1>9 DEF Mpsc!PushReloadHead, Mpsc!shared
  <2>2. sPc[p] \in Deciding /\ sPc[p] \notin Filling
    BY <2>1 DEF Deciding, Filling
  <2>3. CASE Mpsc!Return(p) /\ Mpsc!ForgetHead(p)
    <3>1. PICK l : l = "idle"
      OBVIOUS
    <3>2. /\ sPc' = [sPc EXCEPT ![p] = l] /\ sPos' = [sPos EXCEPT ![p] = 0]
          /\ left' = [left EXCEPT ![p] = 0] /\ seen' = [seen EXCEPT ![p] = 0]
      BY <2>3, <3>1 DEF Mpsc!Return, Mpsc!ForgetHead, Mpsc!Goto
    <3>3. 0 \in Nat /\ 0 \in 0 .. MaxBulk /\ 0 <= sHead /\ l # "cas"
      BY <1>1, <3>1, LibraryAssumption
    <3>4. QED
      BY <2>1, <2>2, <3>1, <3>2, <3>3, StripMove
  <2>4. CASE /\ Mpsc!Available(sPos[p], sHead) # 0
             /\ seen' = [seen EXCEPT ![p] = sHead] /\ Mpsc!Goto(p, "cas") /\ UNCHANGED <<sPos, left>>
    <3>1. PICK l : l = "cas"
      OBVIOUS
    <3>2. /\ sPc' = [sPc EXCEPT ![p] = l] /\ sPos' = [sPos EXCEPT ![p] = sPos[p]]
          /\ left' = [left EXCEPT ![p] = left[p]] /\ seen' = [seen EXCEPT ![p] = sHead]
      BY <1>2, <2>4, <3>1 DEF Mpsc!Goto
    <3>3. Mpsc!Available(sPos[p], sHead) > 0
      BY <1>1, <2>4, AvailableType
    <3>4. l \in Deciding /\ l # "idle" /\ sHead <= sHead
      BY <1>1, <3>1 DEF Deciding
    <3>5. QED
      BY <1>1, <1>4, <2>1, <2>2, <3>2, <3>3, <3>4, StripMove
  <2>5. QED
    BY <1>9, <2>3, <2>4 DEF Mpsc!PushReloadHead
<1>10. QED
  BY <1>6, <1>7, <1>8, <1>9

\* The indices given out are no more than the items the producers may send.
LEMMA StripBound == StripInv => sTail <= MpscItems * Cardinality(Producers) /\ sTail < WordMod
<1>1. SUFFICES ASSUME StripInv PROVE sTail <= MpscItems * Cardinality(Producers) /\ sTail < WordMod
  OBVIOUS
<1>2. MpscItems * Cardinality(Producers) \in Nat
  BY LibraryAssumption, FS_CardinalityType, Product
<1>3. sTail <= MpscItems * Cardinality(Producers)
  BY <1>1, LibraryAssumption, SendsBound DEF StripInv
<1>4. sTail \in Nat
  BY <1>1 DEF StripInv, StripTypes
<1>5. QED
  BY <1>2, <1>3, <1>4, LibraryAssumption

\* pushBulk: the CAS on _tail that succeeds claims slots the consumer has emptied.
LEMMA PushWinKeeps ==
  ASSUME StripInv, NEW p \in Producers, Mpsc!PushCas(p), sTail = sPos[p]
  PROVE  StripInv'
<1>1. /\ StripTypes /\ p \in Mpsc!Procs /\ Pushing(p) /\ sPc[p] = "cas" /\ p # Consumer
      /\ left[p] \in 0 .. MaxBulk /\ seen[p] \in Nat /\ sSent[p] \in Nat /\ MaxBulk \in Nat
  BY ConsumerPops, LibraryAssumption DEF StripInv, StripTypes, Mpsc!Procs, Mpsc!PushCas
<1>2. /\ Capacity \in Nat /\ Capacity > 0 /\ sHead \in Nat /\ sTail \in Nat /\ Front \in Nat
      /\ sHead <= Front /\ Front <= sTail /\ sTail <= sHead + Capacity
  BY StripFacts
<1>3. left[p] > 0 /\ seen[p] <= sHead /\ sSent[p] + left[p] <= MpscItems /\ Mpsc!Available(sTail, seen[p]) > 0
  BY <1>1 DEF Pushing, Deciding
<1>4. Mpsc!Available(sTail, seen[p]) = Capacity - (sTail - seen[p])
  <2>1. PICK x \in Nat : x = sTail - seen[p]
    BY <1>1, <1>2, <1>3
  <2>2. x < WordMod /\ WordMod \in Nat
    BY <1>1, <1>2, <2>1, StripBound, LibraryAssumption
  <2>3. \A y, w \in Nat : y < w => y % w = y
    BY Z3
  <2>4. Mpsc!Size(sTail, seen[p]) = x
    BY <2>1, <2>2, <2>3 DEF Mpsc!Size
  <2>5. Mpsc!Available(sTail, seen[p]) = IF x >= Capacity THEN 0 ELSE Capacity - x
    BY <2>4 DEF Mpsc!Available
  <2>6. QED
    BY <1>3, <2>1, <2>5
<1>5. PICK n : n = Mpsc!Lesser(left[p], Mpsc!Available(sTail, seen[p]))
  OBVIOUS
<1>6. n \in 0 .. MaxBulk /\ n > 0 /\ n <= left[p] /\ sTail + n <= sHead + Capacity
  <2>1. PICK a \in Nat : a = Mpsc!Available(sTail, seen[p])
    BY <1>1, <1>2, AvailableType
  <2>2. n = IF left[p] <= a THEN left[p] ELSE a
    BY <1>5, <2>1 DEF Mpsc!Lesser
  <2>3. a = Capacity - (sTail - seen[p]) /\ a > 0
    BY <1>3, <1>4, <2>1
  <2>4. QED
    BY <1>1, <1>2, <1>3, <2>2, <2>3
<1>7. /\ sTail' = sTail + n /\ UNCHANGED <<sHead, written, sData, sSent>>
      /\ left' = [left EXCEPT ![p] = n] /\ sPos' = sPos /\ seen' = [seen EXCEPT ![p] = 0]
      /\ sPc' = [sPc EXCEPT ![p] = "construct"]
  BY <1>5 DEF Mpsc!PushCas, Mpsc!Goto, Mpsc!ForgetHead
<1>8. sPc'[p] = "construct" /\ left'[p] = n /\ sPos'[p] = sTail /\ seen'[p] = 0
  BY <1>1, <1>7 DEF StripTypes
<1>9. StripTypes'
  <2>1. "construct" \in Filling
    BY DEF Filling
  <2>2. sHead' \in Nat /\ sTail' \in Nat /\ sHead' <= sTail' /\ sTail' <= sHead' + Capacity
    BY <1>1, <1>2, <1>6, <1>7
  <2>3. left' \in [Mpsc!Procs -> 0 .. MaxBulk] /\ sPos' \in [Mpsc!Procs -> Nat] /\ seen' \in [Producers -> Nat]
    BY <1>1, <1>6, <1>7 DEF StripTypes
  <2>4. sPc' \in [Mpsc!Procs -> {"idle"} \cup Deciding \cup Filling \cup Popping]
    BY <1>1, <1>7, <2>1 DEF StripTypes
  <2>5. QED
    BY <1>1, <1>7, <2>2, <2>3, <2>4 DEF StripTypes, Mpsc!Slots, Mpsc!Procs
<1>10. StripStay(p)
  BY <1>1, <1>7 DEF StripStay, StripTypes
<1>11. \A q \in Producers : q # p =>
         /\ Mpsc!Won(q)' = Mpsc!Won(q) /\ Given'[q] = Given[q]
         /\ sPc'[q] = sPc[q] /\ sPos'[q] = sPos[q] /\ Pushing(q)'
  <2>1. sHead <= sHead' /\ sTail <= sTail' /\ sHead' \in Nat /\ sTail' \in Nat
    BY <1>1, <1>2, <1>6, <1>7
  <2>2. QED
    BY <1>10, <2>1, StripOthers
<1>12. Mpsc!Won(p) = {} /\ Mpsc!Won(p)' = sTail .. sTail + n - 1
  BY <1>1, <1>8 DEF Mpsc!Won
<1>13. sPc'[Consumer] = sPc[Consumer] /\ sPos'[Consumer] = sPos[Consumer] /\ left'[Consumer] = left[Consumer]
       /\ Front' = Front
  <2>1. Consumer # p /\ Consumer \in Mpsc!Procs
    BY <1>1, ConsumerPops
  <2>2. sPc'[Consumer] = sPc[Consumer] /\ sPos'[Consumer] = sPos[Consumer] /\ left'[Consumer] = left[Consumer]
    BY <1>10, <2>1 DEF StripStay
  <2>3. sHead' = sHead
    BY <1>7
  <2>4. QED
    BY <2>2, <2>3 DEF Front
<1>14. Given'[p] = sSent[p] + n /\ Given[p] = sSent[p]
  <2>1. sSent'[p] = sSent[p] /\ sPc'[p] = "construct" /\ left'[p] = n /\ sPc[p] = "cas"
    BY <1>1, <1>7, <1>8
  <2>2. Given[p] = sSent[p]
    BY <2>1 DEF Given
  <2>3. Given'[p] = sSent'[p] + left'[p]
    BY <2>1 DEF Given
  <2>4. QED
    BY <2>1, <2>2, <2>3
<1>15. Pushing(p)'
  <2>1. sSent[p] + n <= MpscItems
    BY <1>1, <1>3, <1>6, LibraryAssumption
  <2>2. sPc'[p] \notin Deciding /\ sPc'[p] \in Filling
    BY <1>8 DEF Deciding, Filling
  <2>3. QED
    BY <1>2, <1>6, <1>7, <1>8, <1>14, <2>1, <2>2 DEF Pushing, Deciding
<1>16. \A q \in Producers : \A i \in Mpsc!Won(q) : i \in Nat /\ i < sTail
  BY StripFacts
<1>17. Claimed'
  <2>1. SUFFICES ASSUME NEW q \in Producers, NEW i \in Mpsc!Won(q)'
                 PROVE  /\ Front <= i /\ i < sTail' /\ written[Mpsc!Slot(i)] = FALSE
                        /\ sData[Mpsc!Slot(i)] = Nothing <=> ~(sPc'[q] = "publish" /\ i = sPos[q])
    BY <1>7, <1>13 DEF Claimed, Mpsc!Slot
  <2>2. CASE q = p
    <3>1. i \in Nat /\ sTail <= i /\ i < sTail' /\ i < Front + Capacity
      BY <1>1, <1>2, <1>6, <1>7, <1>12, <2>2
    <3>2. written[Mpsc!Slot(i)] = FALSE /\ sData[Mpsc!Slot(i)] = Nothing
      BY <3>1 DEF StripInv, Emptied
    <3>3. QED
      BY <1>2, <1>8, <2>2, <3>1, <3>2
  <2>3. CASE q # p
    <3>1. i \in Mpsc!Won(q) /\ sPc'[q] = sPc[q]
      BY <1>11, <2>3
    <3>2. i \in Nat /\ i < sTail
      BY <1>16, <3>1
    <3>3. i < sTail'
      BY <1>1, <1>2, <1>6, <1>7, <3>2
    <3>4. QED
      BY <3>1, <3>3 DEF StripInv, Claimed
  <2>4. QED
    BY <2>2, <2>3
<1>18. ClaimedOnce'
  <2>1. SUFFICES ASSUME NEW q \in Producers, NEW r \in Producers, NEW i,
                        i \in Mpsc!Won(q)', i \in Mpsc!Won(r)', q # r
                 PROVE  FALSE
    BY DEF ClaimedOnce
  <2>2. CASE q # p /\ r # p
    BY <1>11, <2>1, <2>2 DEF StripInv, ClaimedOnce
  <2>3. CASE q = p
    BY <1>2, <1>11, <1>12, <1>16, <2>1, <2>3
  <2>4. CASE r = p
    BY <1>2, <1>11, <1>12, <1>16, <2>1, <2>4
  <2>5. QED
    BY <2>2, <2>3, <2>4
<1>19. \A q \in Producers : \A i : i \in Mpsc!Won(q) => i \in Mpsc!Won(q)'
  BY <1>11, <1>12
<1>20. Published'
  <2>1. SUFFICES ASSUME NEW i \in Nat, Front <= i, i < sTail'
                 PROVE  \/ /\ written[Mpsc!Slot(i)] = TRUE
                           /\ sData[Mpsc!Slot(i)] = Nothing <=> sPc[Consumer] = "release" /\ i = sPos[Consumer]
                        \/ \E q \in Producers : i \in Mpsc!Won(q)'
    BY <1>7, <1>13 DEF Published, Mpsc!Slot
  <2>2. CASE i < sTail
    BY <1>19, <2>1, <2>2 DEF StripInv, Published
  <2>3. CASE ~(i < sTail)
    <3>1. i \in Mpsc!Won(p)'
      BY <1>1, <1>2, <1>6, <1>7, <1>12, <2>1, <2>3
    <3>2. QED
      BY <3>1
  <2>4. QED
    BY <2>2, <2>3
<1>21. Emptied'
  <2>1. SUFFICES ASSUME NEW i \in Nat, sTail' <= i, i < Front + Capacity
                 PROVE  written[Mpsc!Slot(i)] = FALSE /\ sData[Mpsc!Slot(i)] = Nothing
    BY <1>7, <1>13 DEF Emptied, Mpsc!Slot
  <2>2. sTail <= i
    BY <1>1, <1>2, <1>6, <1>7, <2>1
  <2>3. QED
    BY <2>1, <2>2 DEF StripInv, Emptied
<1>22. Emptying'
  <2>1. sHead <= Front /\ Front <= sTail' /\ (Front < sTail => Front < sTail')
    BY <1>1, <1>2, <1>6, <1>7
  <2>2. QED
    BY <1>7, <1>13, <2>1 DEF StripInv, Emptying, Mpsc!Slot
<1>23. sTail' = Cardinality(Sends(Given', MpscItems))
  <2>1. Given \in [Producers -> Nat]
    <3>1. \A q \in Producers : Given[q] \in Nat
      <4>1. TAKE q \in Producers
      <4>2. sSent[q] \in Nat /\ left[q] \in Nat
        BY <1>1, StripWon
      <4>3. sPc[q] # "idle" => left[q] > 0
        BY DEF StripInv, Pushing
      <4>4. QED
        BY <4>2, <4>3 DEF Given
    <3>2. QED
      BY <3>1 DEF Given
  <2>2. Given' = [Given EXCEPT ![p] = Given[p] + n]
    BY <1>11, <1>14, <2>1 DEF Given
  <2>3. Given[p] + n <= MpscItems /\ n \in Nat /\ MpscItems \in Nat
    BY <1>1, <1>3, <1>6, <1>14, LibraryAssumption
  <2>4. Cardinality(Sends([Given EXCEPT ![p] = Given[p] + n], MpscItems)) = Cardinality(Sends(Given, MpscItems)) + n
    BY <2>1, <2>3, SendsMore
  <2>5. QED
    BY <1>7, <2>2, <2>4 DEF StripInv
<1>24. QED
  BY <1>9, <1>11, <1>15, <1>17, <1>18, <1>20, <1>21, <1>22, <1>23 DEF StripInv, Sends

\* pushBulk: the item is constructed in the slot won.
LEMMA PushConstructKeeps == ASSUME StripInv, NEW p \in Producers, Mpsc!PushConstruct(p) PROVE StripInv'
<1>1. /\ StripTypes /\ p \in Mpsc!Procs /\ Pushing(p) /\ sPc[p] = "construct" /\ left[p] > 0
      /\ sPos[p] \in Nat /\ left[p] \in Nat /\ sSent[p] \in Nat /\ p # Consumer
  <2>1. StripTypes /\ Pushing(p) /\ sPc[p] = "construct"
    BY DEF StripInv, Mpsc!PushConstruct
  <2>2. QED
    BY <2>1, StripWon DEF Pushing
<1>2. PICK i \in Nat : i = sPos[p]
  BY <1>1
<1>3. PICK n \in Nat : n = sSent[p] + 1
  BY <1>1
<1>4. Given[p] = sSent[p] + left[p] /\ n \in 1 .. MpscItems
  <2>1. Given[p] = sSent[p] + left[p] /\ Given[p] <= MpscItems
    BY <1>1 DEF Given, Pushing
  <2>2. QED
    BY <1>1, <1>3, <2>1, LibraryAssumption
<1>5. PICK item \in Producers \X (1 .. MpscItems) : item = <<p, n>>
  BY <1>4
<1>6. /\ sSent' = [sSent EXCEPT ![p] = n] /\ sData' = [sData EXCEPT ![Mpsc!Slot(i)] = item]
      /\ sPc' = [sPc EXCEPT ![p] = "publish"]
      /\ UNCHANGED <<sHead, sTail, written, sPos, seen, left>>
  BY <1>1, <1>2, <1>3, <1>5 DEF Mpsc!PushConstruct, Mpsc!Goto, StripTypes
<1>7. item # Nothing
  <2>1. item \in Producers \X Nat
    BY <1>5
  <2>2. QED
    BY <2>1, LibraryAssumption
<1>8. sPc'[p] = "publish" /\ sPos'[p] = sPos[p] /\ left'[p] = left[p] /\ sSent'[p] = n
  BY <1>1, <1>6 DEF StripTypes
<1>9. i \in Mpsc!Won(p) /\ Mpsc!Won(p)' = Mpsc!Won(p)
  <2>1. Mpsc!Won(p) = i .. i + left[p] - 1
    BY <1>1, <1>2 DEF Mpsc!Won
  <2>2. Mpsc!Won(p)' = Mpsc!Won(p)
    BY <1>1, <1>8 DEF Mpsc!Won
  <2>3. QED
    BY <1>1, <2>1, <2>2
<1>10. StripTypes'
  <2>1. "publish" \in Filling
    BY DEF Filling
  <2>2. sData' \in [Mpsc!Slots -> (Producers \X (1 .. MpscItems)) \cup {Nothing}]
    BY <1>1, <1>6 DEF StripTypes
  <2>3. sSent' \in [Producers -> 0 .. MpscItems]
    <3>1. n \in 0 .. MpscItems
      BY <1>4
    <3>2. QED
      BY <1>1, <1>6, <3>1 DEF StripTypes
  <2>4. sPc' \in [Mpsc!Procs -> {"idle"} \cup Deciding \cup Filling \cup Popping]
    BY <1>1, <1>6, <2>1 DEF StripTypes
  <2>5. QED
    BY <1>1, <1>6, <2>2, <2>3, <2>4 DEF StripTypes, Mpsc!Slots, Mpsc!Procs
<1>11. StripStay(p)
  BY <1>1, <1>6 DEF StripStay, StripTypes
<1>12. \A q \in Producers : q # p =>
         /\ Mpsc!Won(q)' = Mpsc!Won(q) /\ Given'[q] = Given[q]
         /\ sPc'[q] = sPc[q] /\ sPos'[q] = sPos[q] /\ Pushing(q)'
  <2>1. sHead <= sHead' /\ sTail <= sTail' /\ sHead' \in Nat /\ sTail' \in Nat
    BY <1>1, <1>6 DEF StripTypes
  <2>2. QED
    BY <1>11, <2>1, StripOthers
<1>13. sPc'[Consumer] = sPc[Consumer] /\ sPos'[Consumer] = sPos[Consumer] /\ left'[Consumer] = left[Consumer]
       /\ Front' = Front
  <2>1. Consumer # p /\ Consumer \in Mpsc!Procs
    BY <1>1, ConsumerPops
  <2>2. sPc'[Consumer] = sPc[Consumer] /\ sPos'[Consumer] = sPos[Consumer] /\ left'[Consumer] = left[Consumer]
    BY <1>11, <2>1 DEF StripStay
  <2>3. sHead' = sHead
    BY <1>6
  <2>4. QED
    BY <2>2, <2>3 DEF Front
<1>14. Given'[p] = Given[p]
  <2>1. Given'[p] = sSent'[p] + left'[p] - 1
    BY <1>8 DEF Given
  <2>2. QED
    BY <1>1, <1>3, <1>4, <1>8, <2>1
<1>15. Given' = Given
  BY <1>12, <1>14 DEF Given
<1>16. Pushing(p)'
  <2>1. seen[p] <= sHead /\ Given[p] <= MpscItems
    BY <1>1 DEF Pushing
  <2>2. "publish" \notin Deciding /\ "publish" \in Filling
    BY DEF Deciding, Filling
  <2>3. seen'[p] = seen[p] /\ sHead' = sHead
    BY <1>6
  <2>4. QED
    BY <1>1, <1>8, <1>14, <2>1, <2>2, <2>3 DEF Pushing
<1>17. \A q \in Producers : Mpsc!Won(q)' = Mpsc!Won(q)
  BY <1>9, <1>12
<1>18. /\ \A j \in Nat : Front <= j /\ j < Front + Capacity /\ j # i => Mpsc!Slot(j) # Mpsc!Slot(i)
       /\ \A q \in Producers : \A j \in Mpsc!Won(q) : j \in Nat /\ Front <= j /\ j < Front + Capacity
       /\ Front <= i /\ i < sTail /\ i < Front + Capacity /\ sTail <= Front + Capacity
       /\ sHead \in Nat /\ sTail \in Nat /\ Front \in Nat /\ Capacity \in Nat
  <2>1. i \in Nat /\ Front <= i /\ i < sTail /\ i < Front + Capacity
    BY <1>9, StripFacts
  <2>2. \A q \in Producers : \A j \in Mpsc!Won(q) : j \in Nat /\ Front <= j /\ j < Front + Capacity
    BY StripFacts
  <2>3. \A j \in Nat : Front <= j /\ j < Front + Capacity /\ j # i => Mpsc!Slot(j) # Mpsc!Slot(i)
    BY <2>1, StripFacts
  <2>4. /\ Capacity \in Nat /\ sHead \in Nat /\ sTail \in Nat /\ Front \in Nat
        /\ sHead <= Front /\ sTail <= sHead + Capacity
    BY StripFacts
  <2>5. QED
    BY <2>1, <2>2, <2>3, <2>4
<1>19. \A j \in Nat : /\ j = i => sData'[Mpsc!Slot(j)] = item
                      /\ Mpsc!Slot(j) # Mpsc!Slot(i) => sData'[Mpsc!Slot(j)] = sData[Mpsc!Slot(j)]
  BY <1>1, <1>6, StripSlots DEF StripTypes
<1>20. Claimed'
  <2>0. sTail' = sTail /\ written' = written /\ sPos' = sPos /\ Front' = Front
    BY <1>6, <1>13
  <2>1. SUFFICES ASSUME NEW q \in Producers, NEW j \in Mpsc!Won(q)
                 PROVE  /\ Front <= j /\ j < sTail /\ written[Mpsc!Slot(j)] = FALSE
                        /\ sData'[Mpsc!Slot(j)] = Nothing <=> ~(sPc'[q] = "publish" /\ j = sPos[q])
    BY <1>17, <2>0 DEF Claimed, Mpsc!Slot
  <2>2. Front <= j /\ j < sTail /\ written[Mpsc!Slot(j)] = FALSE /\ j \in Nat /\ j < Front + Capacity
    BY <1>18 DEF StripInv, Claimed
  <2>3. sData[Mpsc!Slot(j)] = Nothing <=> ~(sPc[q] = "publish" /\ j = sPos[q])
    BY DEF StripInv, Claimed
  <2>4. CASE j = i
    <3>1. q = p
      BY <1>9, <2>4 DEF StripInv, ClaimedOnce
    <3>2. QED
      BY <1>2, <1>7, <1>8, <1>19, <2>2, <2>4, <3>1
  <2>5. CASE j # i
    <3>1. sData'[Mpsc!Slot(j)] = sData[Mpsc!Slot(j)]
      BY <1>18, <1>19, <2>2, <2>5
    <3>2. CASE q = p
      BY <1>1, <1>2, <2>2, <2>3, <2>5, <3>1, <3>2
    <3>3. CASE q # p
      BY <1>12, <2>2, <2>3, <3>1, <3>3
    <3>4. QED
      BY <3>2, <3>3
  <2>6. QED
    BY <2>4, <2>5
<1>21. ClaimedOnce'
  BY <1>17 DEF StripInv, ClaimedOnce
<1>22. Published'
  <2>1. SUFFICES ASSUME NEW j \in Nat, Front <= j, j < sTail
                 PROVE  \/ /\ written[Mpsc!Slot(j)] = TRUE
                           /\ sData'[Mpsc!Slot(j)] = Nothing <=> sPc[Consumer] = "release" /\ j = sPos[Consumer]
                        \/ \E q \in Producers : j \in Mpsc!Won(q)
    BY <1>6, <1>13, <1>17 DEF Published, Mpsc!Slot
  <2>2. CASE j = i
    BY <1>9, <2>2
  <2>3. CASE j # i
    <3>1. j < Front + Capacity
      BY <1>18, <2>1
    <3>2. sData'[Mpsc!Slot(j)] = sData[Mpsc!Slot(j)]
      BY <1>18, <1>19, <2>1, <2>3, <3>1
    <3>3. QED
      BY <2>1, <3>2 DEF StripInv, Published
  <2>4. QED
    BY <2>2, <2>3
<1>23. Emptied'
  <2>1. SUFFICES ASSUME NEW j \in Nat, sTail <= j, j < Front + Capacity
                 PROVE  written[Mpsc!Slot(j)] = FALSE /\ sData'[Mpsc!Slot(j)] = Nothing
    BY <1>6, <1>13 DEF Emptied, Mpsc!Slot
  <2>2. Front <= j /\ j # i
    BY <1>18, <2>1
  <2>3. sData'[Mpsc!Slot(j)] = sData[Mpsc!Slot(j)]
    BY <1>18, <1>19, <2>1, <2>2
  <2>4. QED
    BY <2>1, <2>3 DEF StripInv, Emptied
<1>24. Emptying'
  BY <1>6, <1>13 DEF StripInv, Emptying, Mpsc!Slot
<1>25. sTail' = Cardinality(Sends(Given', MpscItems))
  BY <1>6, <1>15 DEF StripInv
<1>26. QED
  BY <1>10, <1>12, <1>16, <1>20, <1>21, <1>22, <1>23, <1>24, <1>25 DEF StripInv, Sends

\* pushBulk: the slot is marked written.
LEMMA PushPublishKeeps == ASSUME StripInv, NEW p \in Producers, Mpsc!PushPublish(p) PROVE StripInv'
<1>1. /\ StripTypes /\ p \in Mpsc!Procs /\ Pushing(p) /\ sPc[p] = "publish" /\ left[p] > 0
      /\ sPos[p] \in Nat /\ left[p] \in Nat /\ left[p] <= MaxBulk /\ sSent[p] \in Nat /\ p # Consumer
  <2>1. StripTypes /\ Pushing(p) /\ sPc[p] = "publish"
    BY DEF StripInv, Mpsc!PushPublish
  <2>2. QED
    BY <2>1, StripWon DEF Pushing
<1>2. PICK i \in Nat : i = sPos[p]
  BY <1>1
<1>3. written' = [written EXCEPT ![Mpsc!Slot(i)] = TRUE] /\ UNCHANGED <<sHead, sTail, sData, seen, sSent>>
  BY <1>2 DEF Mpsc!PushPublish
<1>4. PICK j, n \in Nat, l \in {"idle", "construct"} :
        /\ sPos' = [sPos EXCEPT ![p] = j] /\ left' = [left EXCEPT ![p] = n] /\ sPc' = [sPc EXCEPT ![p] = l]
        /\ n <= MaxBulk
        /\ \/ l = "idle" /\ left[p] = 1
           \/ l = "construct" /\ j = i + 1 /\ n = left[p] - 1 /\ n > 0
  <2>1. CASE left[p] = 1
    <3>1. /\ sPos' = [sPos EXCEPT ![p] = 0] /\ left' = [left EXCEPT ![p] = 0] /\ sPc' = [sPc EXCEPT ![p] = "idle"]
      BY <2>1 DEF Mpsc!PushPublish, Mpsc!Return, Mpsc!Goto
    <3>2. 0 \in Nat /\ 0 <= MaxBulk
      BY LibraryAssumption
    <3>3. QED
      BY <2>1, <3>1, <3>2
  <2>2. CASE left[p] # 1
    <3>1. /\ sPos' = [sPos EXCEPT ![p] = sPos[p] + 1] /\ left' = [left EXCEPT ![p] = left[p] - 1]
          /\ sPc' = [sPc EXCEPT ![p] = "construct"]
      BY <2>2 DEF Mpsc!PushPublish, Mpsc!Goto
    <3>2. PICK j, n \in Nat : j = i + 1 /\ n = left[p] - 1 /\ n > 0 /\ n <= MaxBulk
      BY <1>1, <1>2, <2>2, LibraryAssumption
    <3>3. sPos' = [sPos EXCEPT ![p] = j] /\ left' = [left EXCEPT ![p] = n]
      BY <1>2, <3>1, <3>2
    <3>4. QED
      BY <3>1, <3>2, <3>3
  <2>3. QED
    BY <2>1, <2>2
<1>5. sPc'[p] = l /\ sPos'[p] = j /\ left'[p] = n
  BY <1>1, <1>4 DEF StripTypes
<1>6. i \in Mpsc!Won(p) /\ Mpsc!Won(p)' = Mpsc!Won(p) \ {i}
  <2>1. Mpsc!Won(p) = i .. i + left[p] - 1
    BY <1>1, <1>2 DEF Mpsc!Won
  <2>2. CASE l = "idle" /\ left[p] = 1
    <3>1. Mpsc!Won(p)' = {}
      BY <1>5, <2>2 DEF Mpsc!Won
    <3>2. QED
      BY <1>1, <2>1, <2>2, <3>1
  <2>3. CASE l = "construct" /\ j = i + 1 /\ n = left[p] - 1 /\ n > 0
    <3>1. Mpsc!Won(p)' = j .. j + n - 1
      BY <1>5, <2>3 DEF Mpsc!Won
    <3>2. QED
      BY SMTT(30), <1>1, <2>1, <2>3, <3>1
  <2>4. QED
    BY <1>4, <2>2, <2>3
<1>7. StripTypes'
  <2>1. l \in {"idle"} \cup Filling
    BY DEF Filling
  <2>2. written' \in [Mpsc!Slots -> BOOLEAN]
    BY <1>1, <1>3 DEF StripTypes
  <2>3. left' \in [Mpsc!Procs -> 0 .. MaxBulk] /\ sPos' \in [Mpsc!Procs -> Nat]
    <3>1. n \in 0 .. MaxBulk
      BY <1>4, LibraryAssumption
    <3>2. QED
      BY <1>1, <1>4, <3>1 DEF StripTypes
  <2>4. sPc' \in [Mpsc!Procs -> {"idle"} \cup Deciding \cup Filling \cup Popping]
    BY <1>1, <1>4, <2>1 DEF StripTypes
  <2>5. QED
    BY <1>1, <1>3, <2>2, <2>3, <2>4 DEF StripTypes, Mpsc!Slots, Mpsc!Procs
<1>8. StripStay(p)
  BY <1>1, <1>3, <1>4 DEF StripStay, StripTypes
<1>9. \A q \in Producers : q # p =>
        /\ Mpsc!Won(q)' = Mpsc!Won(q) /\ Given'[q] = Given[q]
        /\ sPc'[q] = sPc[q] /\ sPos'[q] = sPos[q] /\ Pushing(q)'
  <2>1. sHead <= sHead' /\ sTail <= sTail' /\ sHead' \in Nat /\ sTail' \in Nat
    BY <1>1, <1>3 DEF StripTypes
  <2>2. QED
    BY <1>8, <2>1, StripOthers
<1>10. sPc'[Consumer] = sPc[Consumer] /\ sPos'[Consumer] = sPos[Consumer] /\ left'[Consumer] = left[Consumer]
       /\ Front' = Front
  <2>1. Consumer # p /\ Consumer \in Mpsc!Procs
    BY <1>1, ConsumerPops
  <2>2. sPc'[Consumer] = sPc[Consumer] /\ sPos'[Consumer] = sPos[Consumer] /\ left'[Consumer] = left[Consumer]
    BY <1>8, <2>1 DEF StripStay
  <2>3. sHead' = sHead
    BY <1>3
  <2>4. QED
    BY <2>2, <2>3 DEF Front
<1>11. Given'[p] = Given[p]
  <2>1. Given[p] = sSent[p] + left[p] - 1 /\ sSent'[p] = sSent[p]
    BY <1>1, <1>3 DEF Given
  <2>2. CASE l = "idle" /\ left[p] = 1
    <3>1. Given'[p] = sSent'[p]
      BY <1>5, <2>2 DEF Given
    <3>2. QED
      BY <1>1, <2>1, <2>2, <3>1
  <2>3. CASE l = "construct" /\ j = i + 1 /\ n = left[p] - 1 /\ n > 0
    <3>1. Given'[p] = sSent'[p] + left'[p]
      BY <1>5, <2>3 DEF Given
    <3>2. QED
      BY <1>1, <1>5, <2>1, <2>3, <3>1
  <2>4. QED
    BY <1>4, <2>2, <2>3
<1>12. Given' = Given
  BY <1>9, <1>11 DEF Given
<1>13. Pushing(p)'
  <2>1. seen[p] <= sHead /\ Given[p] <= MpscItems
    BY <1>1 DEF Pushing
  <2>2. l \notin Deciding /\ l \in {"idle"} \cup Deciding \cup Filling /\ l # "cas" /\ (l # "idle" => n > 0)
    BY <1>4 DEF Deciding, Filling
  <2>3. seen'[p] = seen[p] /\ sHead' = sHead
    BY <1>3
  <2>4. QED
    BY <1>5, <1>11, <2>1, <2>2, <2>3 DEF Pushing
<1>14. \A q \in Producers : \A k \in Mpsc!Won(q)' : k \in Mpsc!Won(q) /\ k # i
  <2>1. \A q \in Producers : i \in Mpsc!Won(q) => q = p
    BY <1>6 DEF StripInv, ClaimedOnce
  <2>2. QED
    BY <1>6, <1>9, <2>1
<1>15. /\ \A k \in Nat : Front <= k /\ k < Front + Capacity /\ k # i => Mpsc!Slot(k) # Mpsc!Slot(i)
       /\ \A q \in Producers : \A k \in Mpsc!Won(q) : k \in Nat /\ Front <= k /\ k < Front + Capacity
       /\ Front <= i /\ i < sTail /\ i < Front + Capacity /\ sTail <= Front + Capacity
       /\ sHead \in Nat /\ sTail \in Nat /\ Front \in Nat /\ Capacity \in Nat
       /\ written[Mpsc!Slot(i)] = FALSE
  <2>1. i \in Nat /\ Front <= i /\ i < sTail /\ i < Front + Capacity /\ written[Mpsc!Slot(i)] = FALSE
    BY <1>6, StripFacts
  <2>2. \A q \in Producers : \A k \in Mpsc!Won(q) : k \in Nat /\ Front <= k /\ k < Front + Capacity
    BY StripFacts
  <2>3. \A k \in Nat : Front <= k /\ k < Front + Capacity /\ k # i => Mpsc!Slot(k) # Mpsc!Slot(i)
    BY <2>1, StripFacts
  <2>4. /\ Capacity \in Nat /\ sHead \in Nat /\ sTail \in Nat /\ Front \in Nat
        /\ sHead <= Front /\ sTail <= sHead + Capacity
    BY StripFacts
  <2>5. QED
    BY <2>1, <2>2, <2>3, <2>4
<1>16. \A k \in Nat : /\ k = i => written'[Mpsc!Slot(k)] = TRUE
                      /\ Mpsc!Slot(k) # Mpsc!Slot(i) => written'[Mpsc!Slot(k)] = written[Mpsc!Slot(k)]
  BY <1>1, <1>3, StripSlots DEF StripTypes
<1>17. sData[Mpsc!Slot(i)] # Nothing
  BY <1>1, <1>2, <1>6 DEF StripInv, Claimed
<1>18. Front = sPos[Consumer] \/ sPc[Consumer] = "idle"
  BY DEF Front
<1>19. ~(sPc[Consumer] = "release" /\ i = sPos[Consumer])
  BY <1>15, <1>18 DEF StripInv, Emptying
<1>20. sTail' = sTail /\ sData' = sData /\ sHead' = sHead
  BY <1>3
<1>21. Claimed'
  <2>1. SUFFICES ASSUME NEW q \in Producers, NEW k \in Mpsc!Won(q)'
                 PROVE  /\ Front <= k /\ k < sTail /\ written'[Mpsc!Slot(k)] = FALSE
                        /\ sData[Mpsc!Slot(k)] = Nothing <=> ~(sPc'[q] = "publish" /\ k = sPos'[q])
    BY <1>10, <1>20 DEF Claimed, Mpsc!Slot
  <2>2. k \in Mpsc!Won(q) /\ k # i
    BY <1>14
  <2>3. /\ Front <= k /\ k < sTail /\ written[Mpsc!Slot(k)] = FALSE
        /\ sData[Mpsc!Slot(k)] = Nothing <=> ~(sPc[q] = "publish" /\ k = sPos[q])
    BY <2>2 DEF StripInv, Claimed
  <2>4. written'[Mpsc!Slot(k)] = written[Mpsc!Slot(k)]
    BY <1>15, <1>16, <2>2
  <2>5. CASE q = p
    BY <1>2, <1>4, <1>5, <2>2, <2>3, <2>4, <2>5
  <2>6. CASE q # p
    BY <1>9, <2>3, <2>4, <2>6
  <2>7. QED
    BY <2>5, <2>6
<1>22. ClaimedOnce'
  BY <1>14 DEF StripInv, ClaimedOnce
<1>23. Published'
  <2>1. SUFFICES ASSUME NEW k \in Nat, Front <= k, k < sTail
                 PROVE  \/ /\ written'[Mpsc!Slot(k)] = TRUE
                           /\ sData[Mpsc!Slot(k)] = Nothing <=> sPc[Consumer] = "release" /\ k = sPos[Consumer]
                        \/ \E q \in Producers : k \in Mpsc!Won(q)'
    BY <1>10, <1>20 DEF Published, Mpsc!Slot
  <2>2. CASE k = i
    BY <1>16, <1>17, <1>19, <2>2
  <2>3. CASE k # i
    <3>1. k < Front + Capacity
      BY <1>15, <2>1
    <3>2. written'[Mpsc!Slot(k)] = written[Mpsc!Slot(k)]
      BY <1>15, <1>16, <2>1, <2>3, <3>1
    <3>3. \A q \in Producers : k \in Mpsc!Won(q) => k \in Mpsc!Won(q)'
      BY <1>6, <1>9, <2>3
    <3>4. \/ /\ written[Mpsc!Slot(k)] = TRUE
             /\ sData[Mpsc!Slot(k)] = Nothing <=> sPc[Consumer] = "release" /\ k = sPos[Consumer]
          \/ \E q \in Producers : k \in Mpsc!Won(q)
      BY <2>1 DEF StripInv, Published
    <3>5. QED
      BY <3>2, <3>3, <3>4
  <2>4. QED
    BY <2>2, <2>3
<1>24. Emptied'
  <2>1. SUFFICES ASSUME NEW k \in Nat, sTail <= k, k < Front + Capacity
                 PROVE  written'[Mpsc!Slot(k)] = FALSE /\ sData[Mpsc!Slot(k)] = Nothing
    BY <1>10, <1>20 DEF Emptied, Mpsc!Slot
  <2>2. Front <= k /\ k # i
    BY <1>15, <2>1
  <2>3. written'[Mpsc!Slot(k)] = written[Mpsc!Slot(k)]
    BY <1>15, <1>16, <2>1, <2>2
  <2>4. QED
    BY <2>1, <2>3 DEF StripInv, Emptied
<1>25. Emptying'
  <2>1. ASSUME sPc[Consumer] \in {"moveOut", "release"} PROVE written'[Mpsc!Slot(Front)] = TRUE
    <3>1. written[Mpsc!Slot(Front)] = TRUE /\ Front < sTail
      BY <2>1 DEF StripInv, Emptying
    <3>2. Front # i
      BY <1>15, <3>1
    <3>3. Front < Front + Capacity /\ Front <= Front
      BY <1>15, StripFacts
    <3>4. QED
      BY <1>15, <1>16, <3>1, <3>2, <3>3
  <2>2. QED
    BY <1>10, <1>20, <2>1 DEF StripInv, Emptying, Mpsc!Slot
<1>26. sTail' = Cardinality(Sends(Given', MpscItems))
  BY <1>12, <1>20 DEF StripInv
<1>27. QED
  BY <1>7, <1>9, <1>13, <1>21, <1>22, <1>23, <1>24, <1>25, <1>26 DEF StripInv, Sends

-----------------------------------------------------------------------------
\* pop, popBulk: the producers, when the consumer moves.
LEMMA PopOthers ==
  ASSUME StripInv, StripStay(Consumer), UNCHANGED <<sTail, seen, sSent>>, sHead' \in Nat, sHead <= sHead'
  PROVE  /\ \A q \in Producers : /\ Mpsc!Won(q)' = Mpsc!Won(q) /\ sPc'[q] = sPc[q] /\ sPos'[q] = sPos[q]
                                 /\ Pushing(q)'
         /\ ClaimedOnce' /\ sTail' = Cardinality(Sends(Given', MpscItems))
<1>1. sTail <= sTail' /\ sTail' \in Nat /\ sTail' = sTail
  BY DEF StripInv, StripTypes
<1>2. \A q \in Producers :
        /\ Mpsc!Won(q)' = Mpsc!Won(q) /\ Given'[q] = Given[q]
        /\ sPc'[q] = sPc[q] /\ sPos'[q] = sPos[q] /\ Pushing(q)'
  BY <1>1, StripOthers, ConsumerPops
<1>3. Given' = Given
  BY <1>2 DEF Given
<1>4. ClaimedOnce'
  BY <1>2 DEF StripInv, ClaimedOnce
<1>5. QED
  BY <1>1, <1>2, <1>3, <1>4 DEF StripInv

\* popBulk: a step of the consumer that changes no slot, from l to m; i is its index
\* afterwards.
LEMMA PopMove ==
  ASSUME StripInv, UNCHANGED <<sTail, written, sData, seen, sSent>>, sHead' \in Nat, sHead <= sHead',
         NEW m \in {"idle", "check", "moveOut", "advance"}, NEW i \in Nat, NEW n \in 0 .. MaxBulk,
         sPc' = [sPc EXCEPT ![Consumer] = m], sPos' = [sPos EXCEPT ![Consumer] = i],
         left' = [left EXCEPT ![Consumer] = n], sPc[Consumer] # "release",
         Front' = Front, sHead' <= Front,
         m # "idle" => i = Front,
         m = "moveOut" => n > 0 /\ written[Mpsc!Slot(Front)] = TRUE
  PROVE  StripInv'
<1>1. /\ Capacity \in Nat /\ Capacity > 0 /\ StripTypes
      /\ sHead \in Nat /\ sTail \in Nat /\ Front \in Nat
      /\ sHead <= Front /\ Front <= sTail /\ sTail <= sHead + Capacity
  BY StripFacts
<1>2. Consumer \in Mpsc!Procs /\ Consumer \notin Producers
  BY ConsumerPops
<1>3. sPc'[Consumer] = m /\ sPos'[Consumer] = i /\ left'[Consumer] = n
  BY <1>1, <1>2 DEF StripTypes
<1>4. StripTypes'
  <2>1. m \in {"idle"} \cup Popping
    BY DEF Popping
  <2>2. sHead' \in Nat /\ sTail' \in Nat /\ sHead' <= sTail' /\ sTail' <= sHead' + Capacity
    <3>1. sTail' = sTail /\ sHead' \in Nat /\ sHead <= sHead' /\ sHead' <= Front
      OBVIOUS
    <3>2. /\ sHead \in Nat /\ sTail \in Nat /\ Front \in Nat /\ Capacity \in Nat
          /\ Front <= sTail /\ sTail <= sHead + Capacity
      BY <1>1
    <3>3. \A h, t, g, f, c \in Nat : h <= g /\ g <= f /\ f <= t /\ t <= h + c => g <= t /\ t <= g + c
      OBVIOUS
    <3>4. sHead' <= sTail /\ sTail <= sHead' + Capacity
      BY <3>1, <3>2, <3>3, Zenon
    <3>5. QED
      BY <3>1, <3>2, <3>4, Zenon
  <2>3. left' \in [Mpsc!Procs -> 0 .. MaxBulk] /\ sPos' \in [Mpsc!Procs -> Nat]
    BY <1>1 DEF StripTypes
  <2>4. sPc' \in [Mpsc!Procs -> {"idle"} \cup Deciding \cup Filling \cup Popping]
    BY <1>1, <2>1 DEF StripTypes
  <2>5. QED
    BY <1>1, <2>2, <2>3, <2>4 DEF StripTypes, Mpsc!Slots, Mpsc!Procs
<1>5. StripStay(Consumer)
  BY <1>1 DEF StripStay, StripTypes
<1>6. /\ \A q \in Producers : /\ Mpsc!Won(q)' = Mpsc!Won(q) /\ sPc'[q] = sPc[q] /\ sPos'[q] = sPos[q]
                              /\ Pushing(q)'
      /\ ClaimedOnce' /\ sTail' = Cardinality(Sends(Given', MpscItems))
  BY <1>5, PopOthers
<1>7. sTail' = sTail /\ written' = written /\ sData' = sData
  OBVIOUS
<1>8. Claimed'
  BY <1>6, <1>7 DEF StripInv, Claimed, Mpsc!Slot
<1>9. Published'
  <2>1. m # "release"
    OBVIOUS
  <2>2. QED
    BY <1>3, <1>6, <1>7, <2>1 DEF StripInv, Published, Mpsc!Slot
<1>10. Emptied'
  BY <1>7 DEF StripInv, Emptied, Mpsc!Slot
<1>11. Emptying'
  <2>1. sPc'[Consumer] \in {"idle"} \cup Popping /\ sPc'[Consumer] # "release"
    BY <1>3 DEF Popping
  <2>2. m = "moveOut" => Front < sTail
    <3>1. m = "moveOut" => written[Mpsc!Slot(Front)] = TRUE
      OBVIOUS
    <3>2. ASSUME Front = sTail PROVE written[Mpsc!Slot(Front)] = FALSE
      <4>1. sTail <= Front /\ Front < Front + Capacity
        BY <1>1, <3>2
      <4>2. QED
        BY <1>1, <4>1 DEF StripInv, Emptied
    <3>3. Front = sTail \/ Front < sTail
      BY <1>1
    <3>4. QED
      BY <3>1, <3>2, <3>3
  <2>3. sHead' <= Front /\ Front <= sTail
    BY <1>1
  <2>4. QED
    BY <1>3, <1>7, <2>1, <2>2, <2>3 DEF Emptying, Mpsc!Slot
<1>12. QED
  BY <1>4, <1>6, <1>8, <1>9, <1>10, <1>11 DEF StripInv, Sends

\* pop, popBulk: the steps that change no slot.
LEMMA PopMoveKeeps ==
  ASSUME StripInv, (\E n \in 1 .. MaxBulk : Mpsc!PopBegin(n)) \/ Mpsc!PopCheck \/ Mpsc!PopAdvance
  PROVE  StripInv'
<1>1. /\ StripTypes /\ sHead \in Nat /\ sTail \in Nat /\ Front \in Nat /\ sHead <= Front /\ sHead <= sHead
  <2>1. StripTypes /\ sHead \in Nat /\ sTail \in Nat /\ Front \in Nat /\ sHead <= Front
    BY StripFacts
  <2>2. QED
    BY <2>1
<1>2. Consumer \in Mpsc!Procs
  BY ConsumerPops
<1>3. sPos[Consumer] \in Nat /\ left[Consumer] \in 0 .. MaxBulk
  BY <1>1, <1>2 DEF StripTypes
<1>4. ASSUME NEW n \in 1 .. MaxBulk, Mpsc!PopBegin(n) PROVE StripInv'
  <2>1. PICK m : m = "check"
    OBVIOUS
  <2>2. /\ sPc[Consumer] = "idle" /\ sPos' = [sPos EXCEPT ![Consumer] = sHead]
        /\ left' = [left EXCEPT ![Consumer] = n] /\ sPc' = [sPc EXCEPT ![Consumer] = m]
        /\ UNCHANGED <<sHead, sTail, written, sData, seen, sSent>>
    BY <1>4, <2>1 DEF Mpsc!PopBegin, Mpsc!Goto, Mpsc!shared
  <2>3. sPc'[Consumer] = "check" /\ sPos'[Consumer] = sHead
    BY <1>1, <1>2, <2>1, <2>2 DEF StripTypes
  <2>4. Front = sHead /\ Front' = Front
    BY <2>2, <2>3 DEF Front
  <2>5. n \in 0 .. MaxBulk /\ m \in {"idle", "check", "moveOut", "advance"} /\ m # "moveOut"
    BY <2>1
  <2>6. sPc[Consumer] # "release"
    BY <2>2
  <2>7. QED
    BY <1>1, <2>2, <2>4, <2>5, <2>6, PopMove
<1>5. CASE Mpsc!PopCheck
  <2>1. PICK m \in {"moveOut", "advance"} :
          /\ sPc' = [sPc EXCEPT ![Consumer] = m]
          /\ m = "moveOut" => left[Consumer] > 0 /\ written[Mpsc!Slot(sPos[Consumer])]
    <3>1. CASE left[Consumer] > 0 /\ written[Mpsc!Slot(sPos[Consumer])]
      <4>1. sPc' = [sPc EXCEPT ![Consumer] = "moveOut"]
        BY <1>5, <3>1, Zenon DEF Mpsc!PopCheck, Mpsc!Goto
      <4>2. QED
        BY <3>1, <4>1
    <3>2. CASE ~(left[Consumer] > 0 /\ written[Mpsc!Slot(sPos[Consumer])])
      <4>1. sPc' = [sPc EXCEPT ![Consumer] = "advance"]
        BY <1>5, <3>2, Zenon DEF Mpsc!PopCheck, Mpsc!Goto
      <4>2. QED
        BY <4>1
    <3>3. QED
      BY <3>1, <3>2
  <2>2. /\ sPc[Consumer] = "check" /\ UNCHANGED <<sHead, sTail, written, sData, seen, sSent>>
        /\ UNCHANGED <<sPos, left>>
    BY <1>5 DEF Mpsc!PopCheck, Mpsc!shared
  <2>3. sPos' = [sPos EXCEPT ![Consumer] = sPos[Consumer]] /\ left' = [left EXCEPT ![Consumer] = left[Consumer]]
    BY <1>1, <2>2 DEF StripTypes
  <2>4. sPc'[Consumer] = m
    BY <1>1, <1>2, <2>1 DEF StripTypes
  <2>5. Front = sPos[Consumer] /\ Front' = Front
    BY <2>1, <2>2, <2>4 DEF Front
  <2>6. written[Mpsc!Slot(Front)] \in BOOLEAN
    BY <1>1, StripSlots DEF StripTypes
  <2>7. m = "moveOut" => left[Consumer] > 0 /\ written[Mpsc!Slot(Front)] = TRUE
    BY <2>1, <2>5, <2>6
  <2>8. /\ sPc[Consumer] # "release" /\ m \in {"idle", "check", "moveOut", "advance"} /\ sHead' \in Nat
        /\ sHead <= sHead' /\ sHead' <= Front
    BY <1>1, <2>1, <2>2
  <2>9. QED
    BY <1>3, <2>1, <2>2, <2>3, <2>5, <2>7, <2>8, PopMove
<1>6. CASE Mpsc!PopAdvance
  <2>1. PICK m : m = "idle"
    OBVIOUS
  <2>2. /\ sPc[Consumer] = "advance" /\ sHead' = sPos[Consumer] /\ UNCHANGED <<sTail, written, sData, seen, sSent>>
        /\ sPos' = [sPos EXCEPT ![Consumer] = 0] /\ left' = [left EXCEPT ![Consumer] = 0]
        /\ sPc' = [sPc EXCEPT ![Consumer] = m]
    BY <1>6, <2>1 DEF Mpsc!PopAdvance, Mpsc!Return, Mpsc!Goto
  <2>3. sPc'[Consumer] = "idle"
    BY <1>1, <1>2, <2>1, <2>2 DEF StripTypes
  <2>4. Front = sPos[Consumer] /\ Front' = Front
    BY <2>2, <2>3 DEF Front
  <2>5. /\ 0 \in Nat /\ 0 \in 0 .. MaxBulk /\ m \in {"idle", "check", "moveOut", "advance"} /\ m # "moveOut"
        /\ sPc[Consumer] # "release" /\ sHead' \in Nat /\ sHead <= sHead' /\ sHead' <= Front
    BY <1>1, <2>1, <2>2, <2>4, LibraryAssumption
  <2>6. QED
    BY <2>1, <2>2, <2>4, <2>5, PopMove
<1>7. QED
  BY <1>4, <1>5, <1>6

\* pop, popBulk: the object is moved out and destroyed.
LEMMA PopMoveOutKeeps == ASSUME StripInv, Mpsc!PopMoveOut PROVE StripInv'
<1>1. /\ Capacity \in Nat /\ Capacity > 0 /\ StripTypes
      /\ sHead \in Nat /\ sTail \in Nat /\ Front \in Nat
      /\ sHead <= Front /\ Front <= sTail /\ sTail <= sHead + Capacity
      /\ \A i, j \in Nat : Front <= i /\ i < Front + Capacity /\ Front <= j /\ j < Front + Capacity /\ i # j
           => Mpsc!Slot(i) # Mpsc!Slot(j)
      /\ \A p \in Producers : \A i \in Mpsc!Won(p) :
           /\ i \in Nat /\ Front <= i /\ i < sTail /\ i < Front + Capacity
           /\ written[Mpsc!Slot(i)] = FALSE
  BY StripFacts
<1>2. Consumer \in Mpsc!Procs /\ Consumer \notin Producers
  BY ConsumerPops
<1>3. PICK m : m = "release"
  OBVIOUS
<1>4. /\ sPc[Consumer] = "moveOut" /\ sData' = [sData EXCEPT ![Mpsc!Slot(sPos[Consumer])] = Nothing]
      /\ sPc' = [sPc EXCEPT ![Consumer] = m]
      /\ UNCHANGED <<sHead, sTail, written, sPos, seen, left, sSent>>
  BY <1>3 DEF Mpsc!PopMoveOut, Mpsc!Goto
<1>5. sPc'[Consumer] = "release"
  BY <1>1, <1>2, <1>3, <1>4 DEF StripTypes
<1>6. Front = sPos[Consumer] /\ Front' = Front /\ sPos'[Consumer] = Front
  BY <1>4, <1>5 DEF Front
<1>7. Front < sTail /\ left[Consumer] > 0 /\ written[Mpsc!Slot(Front)] = TRUE
  BY <1>4 DEF StripInv, Emptying
<1>8. Mpsc!Slot(Front) \in Mpsc!Slots /\ Front < Front + Capacity /\ Front <= Front /\ sTail <= Front + Capacity
  BY <1>1, StripSlots
<1>9. /\ sData'[Mpsc!Slot(Front)] = Nothing
      /\ \A s \in Mpsc!Slots : s # Mpsc!Slot(Front) => sData'[s] = sData[s]
  BY <1>1, <1>4, <1>6, <1>8 DEF StripTypes
<1>10. \A i \in Nat : Front <= i /\ i < Front + Capacity /\ i # Front => sData'[Mpsc!Slot(i)] = sData[Mpsc!Slot(i)]
  <2>1. TAKE i \in Nat
  <2>2. HAVE Front <= i /\ i < Front + Capacity /\ i # Front
  <2>3. Mpsc!Slot(i) # Mpsc!Slot(Front)
    BY <1>1, <1>8, <2>2, Zenon
  <2>4. QED
    BY <1>9, <2>3, StripSlots
<1>11. StripTypes'
  <2>1. m \in {"idle"} \cup Popping
    BY <1>3 DEF Popping
  <2>2. sPc' \in [Mpsc!Procs -> {"idle"} \cup Deciding \cup Filling \cup Popping]
    BY <1>1, <1>4, <2>1 DEF StripTypes
  <2>3. sData' \in [Mpsc!Slots -> (Producers \X (1 .. MpscItems)) \cup {Nothing}]
    BY <1>1, <1>4 DEF StripTypes
  <2>4. /\ sHead' = sHead /\ sTail' = sTail /\ written' = written /\ sPos' = sPos
        /\ seen' = seen /\ left' = left /\ sSent' = sSent
    BY <1>4
  <2>5. QED
    BY <1>1, <2>2, <2>3, <2>4 DEF StripTypes, Mpsc!Slots, Mpsc!Procs
<1>12. StripStay(Consumer)
  BY <1>1, <1>4 DEF StripStay, StripTypes
<1>13. /\ \A q \in Producers : /\ Mpsc!Won(q)' = Mpsc!Won(q) /\ sPc'[q] = sPc[q] /\ sPos'[q] = sPos[q]
                               /\ Pushing(q)'
       /\ ClaimedOnce' /\ sTail' = Cardinality(Sends(Given', MpscItems))
  <2>1. UNCHANGED <<sTail, seen, sSent>> /\ sHead' \in Nat /\ sHead <= sHead'
    BY <1>1, <1>4
  <2>2. QED
    BY <1>12, <2>1, PopOthers
<1>14. sTail' = sTail /\ written' = written /\ sHead' = sHead
  BY <1>4
<1>15. Claimed'
  <2>1. SUFFICES ASSUME NEW p \in Producers, NEW i \in Mpsc!Won(p)
                 PROVE  /\ Front' <= i /\ i < sTail' /\ written'[Mpsc!Slot(i)] = FALSE
                        /\ sData'[Mpsc!Slot(i)] = Nothing <=> ~(sPc'[p] = "publish" /\ i = sPos'[p])
    BY <1>13 DEF Claimed, Mpsc!Slot
  <2>2. i \in Nat /\ Front <= i /\ i < sTail /\ i < Front + Capacity /\ written[Mpsc!Slot(i)] = FALSE
    BY <1>1
  <2>3. i # Front
    BY <1>7, <2>2
  <2>4. sData'[Mpsc!Slot(i)] = sData[Mpsc!Slot(i)]
    BY <1>10, <2>2, <2>3, Zenon
  <2>5. sData[Mpsc!Slot(i)] = Nothing <=> ~(sPc[p] = "publish" /\ i = sPos[p])
    BY DEF StripInv, Claimed
  <2>6. QED
    BY <1>6, <1>13, <1>14, <2>2, <2>4, <2>5
<1>16. Published'
  <2>1. SUFFICES ASSUME NEW i \in Nat, Front <= i, i < sTail
                 PROVE  \/ /\ written[Mpsc!Slot(i)] = TRUE
                           /\ sData'[Mpsc!Slot(i)] = Nothing <=> i = Front
                        \/ \E p \in Producers : i \in Mpsc!Won(p)
    BY <1>5, <1>6, <1>13, <1>14 DEF Published, Mpsc!Slot
  <2>2. CASE i = Front
    BY <1>7, <1>9, <2>2
  <2>3. CASE i # Front
    <3>1. i < Front + Capacity
      BY <1>1, <2>1
    <3>2. sData'[Mpsc!Slot(i)] = sData[Mpsc!Slot(i)]
      BY <1>10, <2>1, <2>3, <3>1, Zenon
    <3>3. \/ written[Mpsc!Slot(i)] = TRUE /\ sData[Mpsc!Slot(i)] # Nothing
          \/ \E p \in Producers : i \in Mpsc!Won(p)
      BY <1>4, <2>1 DEF StripInv, Published
    <3>4. QED
      BY <2>3, <3>2, <3>3
  <2>4. QED
    BY <2>2, <2>3
<1>17. Emptied'
  <2>1. SUFFICES ASSUME NEW i \in Nat, sTail <= i, i < Front + Capacity
                 PROVE  written[Mpsc!Slot(i)] = FALSE /\ sData'[Mpsc!Slot(i)] = Nothing
    BY <1>6, <1>14 DEF Emptied, Mpsc!Slot
  <2>2. Front <= i /\ i # Front
    BY <1>1, <1>7, <2>1
  <2>3. sData'[Mpsc!Slot(i)] = sData[Mpsc!Slot(i)]
    BY <1>10, <2>1, <2>2, Zenon
  <2>4. QED
    BY <2>1, <2>3 DEF StripInv, Emptied
<1>18. Emptying'
  <2>1. left' = left
    BY <1>4
  <2>2. sPc'[Consumer] \in {"idle"} \cup Popping
    BY <1>5 DEF Popping
  <2>3. QED
    BY <1>1, <1>6, <1>7, <1>14, <2>1, <2>2 DEF Emptying, Mpsc!Slot
<1>19. QED
  BY <1>11, <1>13, <1>15, <1>16, <1>17, <1>18 DEF StripInv, Sends

\* pop, popBulk: the slot is given back, before _head moves.
LEMMA PopReleaseKeeps == ASSUME StripInv, Mpsc!PopRelease PROVE StripInv'
<1>1. /\ Capacity \in Nat /\ Capacity > 0 /\ StripTypes
      /\ sHead \in Nat /\ sTail \in Nat /\ Front \in Nat
      /\ sHead <= Front /\ Front <= sTail /\ sTail <= sHead + Capacity
      /\ \A i, j \in Nat : Front <= i /\ i < Front + Capacity /\ Front <= j /\ j < Front + Capacity /\ i # j
           => Mpsc!Slot(i) # Mpsc!Slot(j)
      /\ \A p \in Producers : \A i \in Mpsc!Won(p) :
           /\ i \in Nat /\ Front <= i /\ i < sTail /\ i < Front + Capacity
           /\ written[Mpsc!Slot(i)] = FALSE
  BY StripFacts
<1>2. Consumer \in Mpsc!Procs /\ Consumer \notin Producers
  BY ConsumerPops
<1>3. PICK m : m = "check"
  OBVIOUS
<1>4. PICK n \in 0 .. MaxBulk : n = left[Consumer] - 1 /\ sPos[Consumer] + 1 \in Nat
  <2>1. left[Consumer] > 0
    BY DEF Mpsc!PopRelease, StripInv, Emptying
  <2>2. left[Consumer] \in 0 .. MaxBulk /\ sPos[Consumer] \in Nat
    BY <1>1, <1>2 DEF StripTypes
  <2>3. QED
    BY <2>1, <2>2, LibraryAssumption
<1>5. /\ sPc[Consumer] = "release" /\ written' = [written EXCEPT ![Mpsc!Slot(sPos[Consumer])] = FALSE]
      /\ sPos' = [sPos EXCEPT ![Consumer] = sPos[Consumer] + 1] /\ left' = [left EXCEPT ![Consumer] = n]
      /\ sPc' = [sPc EXCEPT ![Consumer] = m]
      /\ UNCHANGED <<sHead, sTail, sData, seen, sSent>>
  BY <1>3, <1>4 DEF Mpsc!PopRelease, Mpsc!Goto
<1>6. sPc'[Consumer] = "check" /\ sPos'[Consumer] = sPos[Consumer] + 1
  BY <1>1, <1>2, <1>3, <1>5 DEF StripTypes
<1>7. Front = sPos[Consumer] /\ Front' = Front + 1 /\ sPos'[Consumer] = Front + 1
  BY <1>5, <1>6 DEF Front
<1>8. Front < sTail /\ written[Mpsc!Slot(Front)] = TRUE
  BY <1>5 DEF StripInv, Emptying
<1>9. Mpsc!Slot(Front) \in Mpsc!Slots /\ Front < Front + Capacity /\ Front <= Front /\ sTail <= Front + Capacity
  BY <1>1, StripSlots
<1>10. /\ written'[Mpsc!Slot(Front)] = FALSE
       /\ \A s \in Mpsc!Slots : s # Mpsc!Slot(Front) => written'[s] = written[s]
  BY <1>1, <1>5, <1>7, <1>9 DEF StripTypes
<1>11. \A i \in Nat : Front <= i /\ i < Front + Capacity /\ i # Front
         => written'[Mpsc!Slot(i)] = written[Mpsc!Slot(i)]
  <2>1. TAKE i \in Nat
  <2>2. HAVE Front <= i /\ i < Front + Capacity /\ i # Front
  <2>3. Mpsc!Slot(i) # Mpsc!Slot(Front)
    BY <1>1, <1>9, <2>2, Zenon
  <2>4. QED
    BY <1>10, <2>3, StripSlots
<1>12. sData[Mpsc!Slot(Front)] = Nothing
  <2>1. ~\E p \in Producers : Front \in Mpsc!Won(p)
    BY <1>1, <1>8
  <2>2. QED
    BY <1>1, <1>5, <1>7, <1>8, <2>1 DEF StripInv, Published
<1>13. sTail' = sTail /\ sData' = sData /\ sHead' = sHead
  BY <1>5
<1>14. StripTypes'
  <2>1. m \in {"idle"} \cup Popping
    BY <1>3 DEF Popping
  <2>2. sPc' \in [Mpsc!Procs -> {"idle"} \cup Deciding \cup Filling \cup Popping]
    BY <1>1, <1>5, <2>1 DEF StripTypes
  <2>3. written' \in [Mpsc!Slots -> BOOLEAN]
    BY <1>1, <1>5 DEF StripTypes
  <2>4. sPos' \in [Mpsc!Procs -> Nat] /\ left' \in [Mpsc!Procs -> 0 .. MaxBulk]
    BY <1>1, <1>4, <1>5 DEF StripTypes
  <2>5. seen' = seen /\ sSent' = sSent
    BY <1>5
  <2>6. QED
    BY <1>1, <1>13, <2>2, <2>3, <2>4, <2>5 DEF StripTypes, Mpsc!Slots, Mpsc!Procs
<1>15. StripStay(Consumer)
  BY <1>1, <1>5 DEF StripStay, StripTypes
<1>16. /\ \A q \in Producers : /\ Mpsc!Won(q)' = Mpsc!Won(q) /\ sPc'[q] = sPc[q] /\ sPos'[q] = sPos[q]
                               /\ Pushing(q)'
       /\ ClaimedOnce' /\ sTail' = Cardinality(Sends(Given', MpscItems))
  <2>1. UNCHANGED <<sTail, seen, sSent>> /\ sHead' \in Nat /\ sHead <= sHead'
    BY <1>1, <1>5
  <2>2. QED
    BY <1>15, <2>1, PopOthers, ZenonT(30)
<1>17. Claimed'
  <2>1. SUFFICES ASSUME NEW p \in Producers, NEW i \in Mpsc!Won(p)
                 PROVE  /\ Front + 1 <= i /\ i < sTail' /\ written'[Mpsc!Slot(i)] = FALSE
                        /\ sData'[Mpsc!Slot(i)] = Nothing <=> ~(sPc'[p] = "publish" /\ i = sPos'[p])
    BY <1>7, <1>16 DEF Claimed, Mpsc!Slot
  <2>2. i \in Nat /\ Front <= i /\ i < sTail /\ i < Front + Capacity /\ written[Mpsc!Slot(i)] = FALSE
    BY <1>1
  <2>3. i # Front
    BY <1>8, <2>2
  <2>4. Front + 1 <= i
    BY <1>1, <2>2, <2>3
  <2>5. written'[Mpsc!Slot(i)] = written[Mpsc!Slot(i)]
    BY <1>11, <2>2, <2>3, Zenon
  <2>6. sData[Mpsc!Slot(i)] = Nothing <=> ~(sPc[p] = "publish" /\ i = sPos[p])
    BY DEF StripInv, Claimed
  <2>7. QED
    BY <1>13, <1>16, <2>2, <2>4, <2>5, <2>6
<1>18. Published'
  <2>1. SUFFICES ASSUME NEW i \in Nat, Front + 1 <= i, i < sTail
                 PROVE  \/ written'[Mpsc!Slot(i)] = TRUE /\ sData[Mpsc!Slot(i)] # Nothing
                        \/ \E p \in Producers : i \in Mpsc!Won(p)
    BY <1>6, <1>7, <1>13, <1>16 DEF Published, Mpsc!Slot
  <2>2. Front <= i /\ i # Front /\ i < Front + Capacity
    BY <1>1, <2>1
  <2>3. written'[Mpsc!Slot(i)] = written[Mpsc!Slot(i)]
    BY <1>11, <2>1, <2>2, Zenon
  <2>4. \/ written[Mpsc!Slot(i)] = TRUE /\ sData[Mpsc!Slot(i)] # Nothing
        \/ \E p \in Producers : i \in Mpsc!Won(p)
    BY <1>7, <2>1, <2>2 DEF StripInv, Published
  <2>5. QED
    BY <2>3, <2>4
<1>19. Emptied'
  <2>1. SUFFICES ASSUME NEW i \in Nat, sTail <= i, i < Front + 1 + Capacity
                 PROVE  written'[Mpsc!Slot(i)] = FALSE /\ sData[Mpsc!Slot(i)] = Nothing
    BY <1>7, <1>13 DEF Emptied, Mpsc!Slot
  <2>2. CASE i = Front + Capacity
    <3>1. Mpsc!Slot(i) = Mpsc!Slot(Front)
      BY <1>1, <2>2, StripSlots
    <3>2. QED
      BY <1>10, <1>12, <3>1
  <2>3. CASE i # Front + Capacity
    <3>1. Front <= i /\ i # Front /\ i < Front + Capacity
      BY <1>1, <1>8, <2>1, <2>3
    <3>2. written'[Mpsc!Slot(i)] = written[Mpsc!Slot(i)]
      BY <1>11, <2>1, <3>1, Zenon
    <3>3. QED
      BY <2>1, <3>1, <3>2 DEF StripInv, Emptied
  <2>4. QED
    BY <2>2, <2>3
<1>20. Emptying'
  <2>1. sPc'[Consumer] \in {"idle"} \cup Popping /\ sPc'[Consumer] \notin {"moveOut", "release"}
    BY <1>6 DEF Popping
  <2>2. sHead <= Front + 1 /\ Front + 1 <= sTail
    BY <1>1, <1>8
  <2>3. QED
    BY <1>7, <1>13, <2>1, <2>2 DEF Emptying
<1>21. QED
  BY <1>14, <1>16, <1>17, <1>18, <1>19, <1>20 DEF StripInv, Sends

-----------------------------------------------------------------------------
\* In the constructor's queue every slot is raw and unwritten.
LEMMA InitStrip == Mpsc!Init => StripInv
<1>1. SUFFICES ASSUME Mpsc!Init PROVE StripInv
  OBVIOUS
<1>2. Capacity \in Nat /\ Capacity > 0 /\ MpscItems \in Nat /\ MaxBulk \in Nat
  BY LibraryAssumption
<1>3. Consumer \in Mpsc!Procs /\ (\A p \in Producers : p \in Mpsc!Procs)
  BY ConsumerPops DEF Mpsc!Procs
<1>4. /\ sHead = 0 /\ sTail = 0 /\ written = [s \in Mpsc!Slots |-> FALSE] /\ sData = [s \in Mpsc!Slots |-> Nothing]
      /\ sPc = [p \in Mpsc!Procs |-> "idle"] /\ sPos = [p \in Mpsc!Procs |-> 0]
      /\ left = [p \in Mpsc!Procs |-> 0] /\ seen = [p \in Producers |-> 0] /\ sSent = [p \in Producers |-> 0]
  BY <1>1 DEF Mpsc!Init
<1>5. sPc[Consumer] = "idle" /\ (\A p \in Producers : sPc[p] = "idle" /\ seen[p] = 0 /\ sSent[p] = 0)
  BY <1>3, <1>4
<1>6. \A p \in Producers : Mpsc!Won(p) = {}
  BY <1>5 DEF Mpsc!Won
<1>7. Front = 0
  BY <1>4, <1>5 DEF Front
<1>8. Given = [p \in Producers |-> 0]
  BY <1>5 DEF Given
<1>9. StripTypes
  <2>1. written \in [Mpsc!Slots -> BOOLEAN] /\ sData \in [Mpsc!Slots -> (Producers \X (1 .. MpscItems)) \cup {Nothing}]
    BY <1>4
  <2>2. sPos \in [Mpsc!Procs -> Nat] /\ left \in [Mpsc!Procs -> 0 .. MaxBulk]
    BY <1>2, <1>4
  <2>3. seen \in [Producers -> Nat] /\ sSent \in [Producers -> 0 .. MpscItems]
    BY <1>2, <1>4
  <2>4. sPc \in [Mpsc!Procs -> {"idle"} \cup Deciding \cup Filling \cup Popping]
    BY <1>4
  <2>5. sHead \in Nat /\ sTail \in Nat /\ sHead <= sTail /\ sTail <= sHead + Capacity
    BY <1>2, <1>4
  <2>6. QED
    BY <2>1, <2>2, <2>3, <2>4, <2>5 DEF StripTypes
<1>10. Claimed /\ ClaimedOnce
  BY <1>6 DEF Claimed, ClaimedOnce
<1>11. Published
  BY <1>4, <1>7 DEF Published
<1>12. Emptied
  <2>1. \A i \in Nat : Mpsc!Slot(i) \in Mpsc!Slots
    BY StripSlots
  <2>2. QED
    BY <1>4, <2>1 DEF Emptied
<1>13. Emptying
  BY <1>4, <1>5, <1>7 DEF Emptying
<1>14. sTail = Cardinality(Sends(Given, MpscItems))
  BY <1>2, <1>4, <1>8, SendsNone
<1>15. \A p \in Producers : Pushing(p)
  <2>1. \A p \in Producers : Given[p] = 0
    BY <1>8
  <2>2. QED
    BY <1>2, <1>4, <1>5, <2>1 DEF Pushing, Deciding
<1>16. QED
  BY <1>9, <1>10, <1>11, <1>12, <1>13, <1>14, <1>15 DEF StripInv

\* Every step of the library keeps the invariant of the mpsc queue.
LEMMA NextStrip == StripInv /\ [Next]_vars => StripInv'
<1>1. SUFFICES ASSUME StripInv, [Next]_vars PROVE StripInv'
  OBVIOUS
<1>2. CASE UNCHANGED mpscVars
  <2>1. /\ sHead' = sHead /\ sTail' = sTail /\ written' = written /\ sData' = sData /\ sPc' = sPc
        /\ sPos' = sPos /\ seen' = seen /\ left' = left /\ sSent' = sSent
    BY <1>2 DEF mpscVars
  <2>2. StripTypes'
    BY <1>1, <2>1 DEF StripInv, StripTypes, Mpsc!Slots, Mpsc!Procs
  <2>3. sHead \in Nat /\ sHead <= sHead'
    BY <1>1, <2>1 DEF StripInv, StripTypes
  <2>4. StripStay(Consumer)
    BY <2>1 DEF StripStay
  <2>5. /\ \A q \in Producers : /\ Mpsc!Won(q)' = Mpsc!Won(q) /\ sPc'[q] = sPc[q] /\ sPos'[q] = sPos[q]
                                /\ Pushing(q)'
        /\ ClaimedOnce' /\ sTail' = Cardinality(Sends(Given', MpscItems))
    <3>1. UNCHANGED <<sTail, seen, sSent>> /\ sHead' \in Nat
      BY <2>1, <2>3
    <3>2. QED
      BY <1>1, <2>3, <2>4, <3>1, PopOthers
  <2>6. Front' = Front
    BY <2>1 DEF Front
  <2>7. Claimed' /\ Published'
    BY <1>1, <2>1, <2>5, <2>6 DEF StripInv, Claimed, Published, Mpsc!Slot
  <2>8. Emptied' /\ Emptying'
    BY <1>1, <2>1, <2>6 DEF StripInv, Emptied, Emptying, Mpsc!Slot
  <2>9. QED
    BY <2>2, <2>5, <2>7, <2>8 DEF StripInv, Sends
<1>3. CASE Mpsc!Next
  <2>1. ASSUME NEW p \in Producers, (\E n \in 1 .. MaxBulk : Mpsc!PushLoadTail(p, n)) \/ Mpsc!PushStep(p)
        PROVE  StripInv'
    <3>1. CASE \E n \in 1 .. MaxBulk : Mpsc!PushLoadTail(p, n)
      BY <1>1, <3>1, PushMoveKeeps
    <3>2. CASE Mpsc!PushLoadHead(p) \/ Mpsc!PushReloadHead(p)
      BY <1>1, <3>2, PushMoveKeeps
    <3>3. CASE Mpsc!PushCas(p)
      <4>1. CASE sTail = sPos[p]
        BY <1>1, <3>3, <4>1, PushWinKeeps
      <4>2. CASE sTail # sPos[p]
        BY <1>1, <3>3, <4>2, PushMoveKeeps
      <4>3. QED
        BY <4>1, <4>2
    <3>4. CASE Mpsc!PushConstruct(p)
      BY <1>1, <3>4, PushConstructKeeps
    <3>5. CASE Mpsc!PushPublish(p)
      BY <1>1, <3>5, PushPublishKeeps
    <3>6. QED
      BY <2>1, <3>1, <3>2, <3>3, <3>4, <3>5 DEF Mpsc!PushStep
  <2>2. CASE (\E n \in 1 .. MaxBulk : Mpsc!PopBegin(n)) \/ Mpsc!PopCheck \/ Mpsc!PopAdvance
    BY <1>1, <2>2, PopMoveKeeps
  <2>3. CASE Mpsc!PopMoveOut
    BY <1>1, <2>3, PopMoveOutKeeps
  <2>4. CASE Mpsc!PopRelease
    BY <1>1, <2>4, PopReleaseKeeps
  <2>5. QED
    BY <1>3, <2>1, <2>2, <2>3, <2>4, Zenon DEF Mpsc!Next, Mpsc!PopStep
<1>4. QED
  BY <1>1, <1>2, <1>3 DEF Next, Others, vars

\* What the queue promises of its slots follows from the invariant.
LEMMA StripExclusive == StripInv => Mpsc!SlotsExclusive /\ Mpsc!WaitNeverBlocks
<1>1. SUFFICES ASSUME StripInv PROVE Mpsc!SlotsExclusive /\ Mpsc!WaitNeverBlocks
  OBVIOUS
<1>2. /\ \A i, j \in Nat : Front <= i /\ i < Front + Capacity /\ Front <= j /\ j < Front + Capacity /\ i # j
           => Mpsc!Slot(i) # Mpsc!Slot(j)
      /\ \A p \in Producers : \A i \in Mpsc!Won(p) :
           /\ i \in Nat /\ Front <= i /\ i < sTail /\ i < Front + Capacity
           /\ written[Mpsc!Slot(i)] = FALSE
      /\ Capacity \in Nat /\ Capacity > 0 /\ sTail \in Nat /\ Front \in Nat
  BY <1>1, StripFacts
<1>3. Mpsc!WaitNeverBlocks
  BY <1>2, Zenon DEF Mpsc!WaitNeverBlocks
<1>4. ASSUME NEW p \in Producers, NEW q \in Producers, NEW i \in Mpsc!Won(p), NEW j \in Mpsc!Won(q),
             Mpsc!Slot(i) = Mpsc!Slot(j)
      PROVE  p = q /\ i = j
  <2>1. i = j
    BY <1>2, <1>4
  <2>2. QED
    BY <1>1, <2>1 DEF StripInv, ClaimedOnce
<1>5. ASSUME NEW p \in Producers, NEW i \in Mpsc!Won(p)
      PROVE  (sData[Mpsc!Slot(i)] = Nothing) <=> ~(sPc[p] = "publish" /\ i = sPos[p])
  BY <1>1 DEF StripInv, Claimed
<1>6. ASSUME sPc[Consumer] = "moveOut"
      PROVE  /\ sData[Mpsc!Slot(sPos[Consumer])] # Nothing
             /\ \A p \in Producers : \A i \in Mpsc!Won(p) : Mpsc!Slot(i) # Mpsc!Slot(sPos[Consumer])
  <2>1. Front = sPos[Consumer] /\ Front < sTail /\ written[Mpsc!Slot(Front)] = TRUE
    BY <1>1, <1>6 DEF Front, StripInv, Emptying
  <2>2. \A p \in Producers : \A i \in Mpsc!Won(p) : Mpsc!Slot(i) # Mpsc!Slot(Front)
    BY <1>2, <2>1
  <2>3. ~\E p \in Producers : Front \in Mpsc!Won(p)
    BY <2>2
  <2>4. Front <= Front /\ sPc[Consumer] # "release"
    BY <1>2, <1>6
  <2>5. sData[Mpsc!Slot(Front)] # Nothing
    BY <1>1, <1>2, <2>1, <2>3, <2>4 DEF StripInv, Published
  <2>6. QED
    BY <2>1, <2>2, <2>5
<1>7. QED
  BY <1>3, <1>4, <1>5, <1>6 DEF Mpsc!SlotsExclusive

\* ArrayMpscQueue.h push, popBulk: no two producers work on one slot, the consumer moves
\* out of a slot that is live and no producer's, and a producer never waits for a slot it
\* has claimed to be given back.
THEOREM MpscSlotsHold == Spec => [](Mpsc!SlotsExclusive /\ Mpsc!WaitNeverBlocks)
<1>1. Init => StripInv
  BY InitStrip DEF Init
<1>2. QED
  BY <1>1, NextStrip, StripExclusive, PTL DEF Spec

\* ArrayMpscQueue.h size, available: _tail is never behind _head nor more than a lap
\* ahead of it, although a producer compares it with a _head it read before.
THEOREM MpscNeverOverfull == Spec => [](sHead <= sTail /\ sTail <= sHead + Capacity)
<1>1. Init => StripInv
  BY InitStrip DEF Init
<1>2. StripInv => sHead <= sTail /\ sTail <= sHead + Capacity
  BY DEF StripInv, StripTypes
<1>3. QED
  BY <1>1, <1>2, NextStrip, PTL DEF Spec
-----------------------------------------------------------------------------
(***************************************************************************)
(* WorkStealingDeque: the inductive invariant.                             *)
(***************************************************************************)
Reserved == {"popLoadHead", "popCas", "popTake", "popTakeLast", "popRestore"}
Owning == {"idle", "construct"} \cup Reserved
Stealing == {"stealLoadTail", "stealCas", "stealTake", "stealFree"}

\* The indices from _head up to High are taken or being filled.
High == IF dPc[Owner] \in Reserved THEN top[Owner] + 1
        ELSE IF dPc[Owner] = "construct" THEN top[Owner] ELSE dTail

\* The indices whose objects are to be moved out by who has won them, and the indices
\* whose flag is still to be set.
Taken == {top[t] : t \in {u \in Consumers : dPc[u] = "stealTake"}}
Live == (dHead .. High - 1) \cup Taken \cup (IF dPc[Owner] = "popTakeLast" THEN {top[Owner]} ELSE {})
Going == {top[t] : t \in {u \in Consumers : dPc[u] = "stealFree"}}

DequeTypes ==
  /\ dHead \in Nat /\ dTail \in Nat /\ count \in Nat /\ pushed \in Nat
  /\ dData \in [Deque!Slots -> (1 .. DequeItems) \cup {Nothing}]
  /\ extracted \in [Deque!Slots -> BOOLEAN]
  /\ dPc \in [Deque!Procs -> Owning \cup Stealing] /\ top \in [Deque!Procs -> Nat]

\* push, pop: where the indices stand at each step of the owner.
OwnerAt ==
  /\ dPc[Owner] \in Owning
  /\ dHead <= High /\ High <= pushed /\ pushed <= DequeItems /\ count <= MaxBulk
  /\ dPc[Owner] = "construct" => dHead <= dTail /\ dTail <= top[Owner] /\ pushed + count <= DequeItems
  /\ dPc[Owner] \in Reserved => dTail = top[Owner]
  /\ dPc[Owner] = "popCas" => top[Owner] <= dHead
  /\ dPc[Owner] = "popTake" => dHead <= top[Owner]
  /\ dPc[Owner] \in {"popTakeLast", "popRestore"} => dHead = top[Owner] + 1

\* steal: a thief's index is _head or behind it; at its CAS the index is in the deque if
\* it is _head, although the owner may have lowered _tail since the thief read it.
ThiefAt(t) ==
  /\ dPc[t] \in {"idle"} \cup Stealing
  /\ dPc[t] # "idle" => top[t] <= dHead
  /\ dPc[t] = "stealCas" /\ top[t] = dHead => dHead < Deque!EndIndex
  /\ dPc[t] \in {"stealTake", "stealFree"} => top[t] < dHead

\* An index is won by one process.
Apart ==
  /\ \A t, u \in Consumers : dPc[t] \in {"stealTake", "stealFree"} /\ dPc[u] \in {"stealTake", "stealFree"}
       /\ top[t] = top[u] => t = u
  /\ dPc[Owner] = "popTakeLast" => \A t \in Consumers : dPc[t] \in {"stealTake", "stealFree"} => top[t] # top[Owner]

\* The indices in use are less than a lap apart, a slot holds an object exactly when it
\* is that of a live index, and its flag is set exactly when it is in use by none.
SlotsTell(live, going, high, objects, flags) ==
  /\ \A i \in live \cup going : i \in Nat /\ i < high /\ high <= i + Capacity
  /\ \A s \in Deque!Slots : objects[s] # Nothing <=> \E i \in live : Deque!Slot(i) = s
  /\ \A s \in Deque!Slots : flags[s] = TRUE <=> \A i \in live \cup going : Deque!Slot(i) # s

DequeInv == /\ DequeTypes /\ OwnerAt /\ Apart
            /\ \A t \in Consumers : ThiefAt(t)
            /\ SlotsTell(Live, Going, High, dData, extracted)

\* The deque's owner steals from none: the thieves are the consumers.
LEMMA OwnerApart == Owner \in Producers /\ Owner \notin Consumers /\ Owner \in Deque!Procs
                    /\ \A t \in Consumers : t \in Deque!Procs /\ t # Owner
<1>1. \E p \in Producers : p \notin Suspended
  BY LibraryAssumption
<1>2. Owner \in Producers
  BY <1>1 DEF Owner
<1>3. QED
  BY <1>2, LibraryAssumption DEF Deque!Procs

\* The slots are those of the mpmc queue.
LEMMA DequeSlots ==
  /\ Capacity \in Nat /\ Capacity > 0
  /\ \A i \in Nat : Deque!Slot(i) \in Deque!Slots /\ Deque!Slot(i + Capacity) = Deque!Slot(i)
  /\ \A i, j \in Nat : Deque!Slot(i) = Deque!Slot(j) /\ i < j + Capacity /\ j < i + Capacity => i = j
<1>1. Capacity \in Nat /\ Capacity > 0
  BY LibraryAssumption
<1>2. /\ \A i \in Nat : Deque!Slot(i) \in Deque!Slots /\ Deque!Slot(i + Capacity) = Deque!Slot(i)
      /\ \A i, j \in Nat : Deque!Slot(i) = Deque!Slot(j) /\ i < j + Capacity /\ j < i + Capacity => i = j
  BY SlotType, SlotApart, SlotLap DEF Deque!Slot, Mpmc!Slot, Deque!Slots, Mpmc!Slots
<1>3. QED
  BY <1>1, <1>2

\* No two indices in use share a slot.
LEMMA TellApart ==
  ASSUME NEW live, NEW going, NEW high \in Nat, NEW objects, NEW flags,
         SlotsTell(live, going, high, objects, flags)
  PROVE  /\ \A i, j \in live \cup going : Deque!Slot(i) = Deque!Slot(j) => i = j
         /\ \A i \in live \cup going : Deque!Slot(i) \in Deque!Slots
<1>1. \A i \in live \cup going : i \in Nat /\ i < high /\ high <= i + Capacity
  BY DEF SlotsTell
<1>2. ASSUME NEW i \in live \cup going, NEW j \in live \cup going, Deque!Slot(i) = Deque!Slot(j) PROVE i = j
  <2>1. i \in Nat /\ j \in Nat /\ i < j + Capacity /\ j < i + Capacity
    BY <1>1, DequeSlots
  <2>2. QED
    BY <1>2, <2>1, DequeSlots
<1>3. QED
  BY <1>1, <1>2, DequeSlots

\* An object is constructed at the next index, whose slot is not in use.
SlotFilled(slot, objects, flags, objects2, flags2) ==
  /\ flags[slot] = TRUE /\ objects2[slot] # Nothing /\ flags2[slot] = FALSE
  /\ \A s \in Deque!Slots : s # slot => objects2[s] = objects[s] /\ flags2[s] = flags[s]

\* No index in use is a lap behind the one that is added, for its flag would be cleared.
LEMMA TellAdd ==
  ASSUME NEW live, NEW going, NEW high \in Nat, NEW objects, NEW flags, NEW objects2, NEW flags2,
         SlotsTell(live, going, high, objects, flags),
         SlotFilled(Deque!Slot(high), objects, flags, objects2, flags2)
  PROVE  SlotsTell(live \cup {high}, going, high + 1, objects2, flags2)
<1> USE DEF SlotFilled
<1>1. \A i \in live \cup going : i \in Nat /\ i < high /\ high <= i + Capacity
  BY DEF SlotsTell
<1>2. Deque!Slot(high) \in Deque!Slots /\ Capacity \in Nat /\ Capacity > 0
  BY DequeSlots
<1>3. \A i \in live \cup going : Deque!Slot(i) # Deque!Slot(high)
  BY <1>2 DEF SlotsTell
<1>4. ASSUME NEW i \in (live \cup {high}) \cup going PROVE i \in Nat /\ i < high + 1 /\ high + 1 <= i + Capacity
  <2>1. CASE i = high
    BY <1>2, <2>1
  <2>2. CASE i # high
    <3>1. i \in Nat /\ i < high /\ high <= i + Capacity /\ Deque!Slot(i) # Deque!Slot(high)
      BY <1>1, <1>3, <2>2
    <3>2. high # i + Capacity
      BY <3>1, DequeSlots
    <3>3. QED
      BY <1>2, <3>1, <3>2
  <2>3. QED
    BY <2>1, <2>2
<1>5. ASSUME NEW s \in Deque!Slots
      PROVE  /\ objects2[s] # Nothing <=> \E i \in live \cup {high} : Deque!Slot(i) = s
             /\ flags2[s] = TRUE <=> \A i \in (live \cup {high}) \cup going : Deque!Slot(i) # s
  <2>1. CASE s = Deque!Slot(high)
    BY <2>1
  <2>2. CASE s # Deque!Slot(high)
    <3>1. objects2[s] = objects[s] /\ flags2[s] = flags[s]
      BY <2>2
    <3>2. /\ objects[s] # Nothing <=> \E i \in live : Deque!Slot(i) = s
          /\ flags[s] = TRUE <=> \A i \in live \cup going : Deque!Slot(i) # s
      BY DEF SlotsTell
    <3>3. QED
      BY <2>2, <3>1, <3>2
  <2>3. QED
    BY <2>1, <2>2
<1>6. QED
  BY <1>4, <1>5 DEF SlotsTell

\* The object of a live index is moved out.
LEMMA TellTake ==
  ASSUME NEW live, NEW going, NEW high \in Nat, NEW objects, NEW flags, NEW objects2, NEW x \in live, x \notin going,
         SlotsTell(live, going, high, objects, flags), objects2[Deque!Slot(x)] = Nothing,
         \A s \in Deque!Slots : s # Deque!Slot(x) => objects2[s] = objects[s]
  PROVE  SlotsTell(live \ {x}, going \cup {x}, high, objects2, flags)
<1>1. (live \ {x}) \cup (going \cup {x}) = live \cup going
  OBVIOUS
<1>2. \A i \in live : Deque!Slot(i) = Deque!Slot(x) => i = x
  BY TellApart
<1>3. ASSUME NEW s \in Deque!Slots
      PROVE  objects2[s] # Nothing <=> \E i \in live \ {x} : Deque!Slot(i) = s
  <2>1. objects[s] # Nothing <=> \E i \in live : Deque!Slot(i) = s
    BY DEF SlotsTell
  <2>2. CASE s = Deque!Slot(x)
    BY <1>2, <2>2
  <2>3. CASE s # Deque!Slot(x)
    BY <2>1, <2>3
  <2>4. QED
    BY <2>2, <2>3
<1>4. QED
  BY <1>1, <1>3 DEF SlotsTell

\* The flag of an index moved out is set.
LEMMA TellFree ==
  ASSUME NEW live, NEW going, NEW high \in Nat, NEW objects, NEW flags, NEW flags2, NEW x \in going, x \notin live,
         SlotsTell(live, going, high, objects, flags), flags2[Deque!Slot(x)] = TRUE,
         \A s \in Deque!Slots : s # Deque!Slot(x) => flags2[s] = flags[s]
  PROVE  SlotsTell(live, going \ {x}, high, objects, flags2)
<1>1. \A i \in live \cup going : Deque!Slot(i) = Deque!Slot(x) => i = x
  BY TellApart
<1>2. ASSUME NEW s \in Deque!Slots
      PROVE  flags2[s] = TRUE <=> \A i \in live \cup (going \ {x}) : Deque!Slot(i) # s
  <2>1. flags[s] = TRUE <=> \A i \in live \cup going : Deque!Slot(i) # s
    BY DEF SlotsTell
  <2>2. CASE s = Deque!Slot(x)
    BY <1>1, <2>2
  <2>3. CASE s # Deque!Slot(x)
    BY <2>1, <2>3
  <2>4. QED
    BY <2>2, <2>3
<1>3. QED
  BY <1>2 DEF SlotsTell

\* What a step of the thief t leaves alone.
LEMMA ThiefFrame ==
  ASSUME DequeTypes, NEW t \in Consumers, NEW l, NEW i, dTail' = dTail,
         dPc' = [dPc EXCEPT ![t] = l], top' = [top EXCEPT ![t] = i]
  PROVE  /\ \A u \in Consumers : u # t => dPc'[u] = dPc[u] /\ top'[u] = top[u]
         /\ dPc'[t] = l /\ top'[t] = i /\ dPc'[Owner] = dPc[Owner] /\ top'[Owner] = top[Owner]
         /\ High' = High /\ Deque!EndIndex' = Deque!EndIndex
<1>1. /\ Owner \in Deque!Procs /\ Owner # t /\ t \in Deque!Procs
      /\ \A u \in Consumers : u \in Deque!Procs
  BY OwnerApart
<1>2. /\ \A u \in Consumers : u # t => dPc'[u] = dPc[u] /\ top'[u] = top[u]
      /\ dPc'[t] = l /\ top'[t] = i /\ dPc'[Owner] = dPc[Owner] /\ top'[Owner] = top[Owner]
  BY <1>1 DEF DequeTypes
<1>3. High' = High /\ Deque!EndIndex' = Deque!EndIndex
  BY <1>2 DEF High, Deque!EndIndex
<1>4. QED
  BY <1>2, <1>3

\* steal: a step of a thief that has won nothing and wins nothing.
LEMMA StealQuiet ==
  ASSUME DequeInv, NEW t \in Consumers, UNCHANGED <<dHead, dTail, dData, extracted, count, pushed>>,
         NEW l \in {"idle", "stealLoadTail", "stealCas"}, NEW i \in Nat,
         dPc' = [dPc EXCEPT ![t] = l], top' = [top EXCEPT ![t] = i],
         dPc[t] \notin {"stealTake", "stealFree"},
         l # "idle" => i <= dHead, l = "stealCas" /\ i = dHead => dHead < Deque!EndIndex
  PROVE  DequeInv'
<1>1. DequeTypes /\ OwnerAt /\ Apart /\ t \in Deque!Procs /\ \A u \in Consumers : ThiefAt(u)
  BY OwnerApart DEF DequeInv
<1>2. /\ \A u \in Consumers : u # t => dPc'[u] = dPc[u] /\ top'[u] = top[u]
      /\ dPc'[t] = l /\ top'[t] = i /\ dPc'[Owner] = dPc[Owner] /\ top'[Owner] = top[Owner]
      /\ High' = High /\ Deque!EndIndex' = Deque!EndIndex
  BY <1>1, ThiefFrame
<1>3. dHead' = dHead /\ dTail' = dTail /\ dData' = dData /\ extracted' = extracted /\ count' = count /\ pushed' = pushed
  OBVIOUS
<1>4. DequeTypes'
  <2>1. l \in Owning \cup Stealing
    BY DEF Owning, Stealing
  <2>2. dPc' \in [Deque!Procs -> Owning \cup Stealing] /\ top' \in [Deque!Procs -> Nat]
    BY <1>1, <2>1 DEF DequeTypes
  <2>3. QED
    BY <1>1, <1>3, <2>2 DEF DequeTypes, Deque!Procs, Deque!Slots
<1>5. OwnerAt'
  BY <1>1, <1>2, <1>3 DEF OwnerAt
<1>6. Apart'
  BY <1>1, <1>2 DEF Apart
<1>7. ASSUME NEW u \in Consumers PROVE ThiefAt(u)'
  <2>1. CASE u = t
    BY <1>2, <1>3, <2>1 DEF ThiefAt, Stealing
  <2>2. CASE u # t
    BY <1>1, <1>2, <1>3, <2>2 DEF ThiefAt
  <2>3. QED
    BY <2>1, <2>2
<1>8. Taken' = Taken /\ Going' = Going
  BY <1>2 DEF Taken, Going
<1>9. Live' = Live
  BY <1>2, <1>3, <1>8 DEF Live
<1>10. SlotsTell(Live, Going, High, dData, extracted)'
  BY <1>2, <1>3, <1>8, <1>9 DEF DequeInv, SlotsTell, Deque!Slots, Deque!Slot
<1>11. QED
  BY <1>4, <1>5, <1>6, <1>7, <1>10 DEF DequeInv

\* What the invariant says of the indices, in one place.
LEMMA DequeFacts ==
  ASSUME DequeInv
  PROVE  /\ DequeTypes /\ OwnerAt /\ Apart /\ SlotsTell(Live, Going, High, dData, extracted)
         /\ dHead \in Nat /\ dTail \in Nat /\ High \in Nat /\ dHead <= High /\ High <= DequeItems
         /\ Deque!EndIndex \in Nat /\ dTail <= Deque!EndIndex /\ Deque!EndIndex <= High
         /\ \A t \in Consumers : ThiefAt(t) /\ t \in Deque!Procs /\ top[t] \in Nat
         /\ Owner \in Deque!Procs /\ top[Owner] \in Nat /\ dPc[Owner] \in Owning
<1>1. /\ DequeTypes /\ OwnerAt /\ Apart /\ SlotsTell(Live, Going, High, dData, extracted)
      /\ \A t \in Consumers : ThiefAt(t)
  BY DEF DequeInv
<1>2. Owner \in Deque!Procs /\ \A t \in Consumers : t \in Deque!Procs
  BY OwnerApart
<1>3. /\ dHead \in Nat /\ dTail \in Nat /\ pushed \in Nat /\ top[Owner] \in Nat
      /\ \A t \in Consumers : top[t] \in Nat
  BY <1>1, <1>2 DEF DequeTypes
<1>4. High \in Nat
  BY <1>3 DEF High
<1>5. dHead <= High /\ High <= DequeItems
  BY <1>1, <1>3, <1>4, LibraryAssumption DEF OwnerAt
<1>6. dPc[Owner] \in Owning /\ (dPc[Owner] \in Reserved => dTail = top[Owner])
      /\ (dPc[Owner] = "construct" => dTail <= top[Owner])
  BY <1>1 DEF OwnerAt
<1>7. Deque!EndIndex \in Nat /\ dTail <= Deque!EndIndex /\ Deque!EndIndex <= High
  BY <1>3, <1>6 DEF Deque!EndIndex, High, Reserved
<1>8. QED
  BY <1>1, <1>2, <1>3, <1>4, <1>5, <1>6, <1>7

\* steal: the steps that win and move nothing.
LEMMA StealMoveKeeps ==
  ASSUME DequeInv, NEW t \in Consumers,
         \/ Deque!StealLoadHead(t) \/ Deque!StealLoadTail(t) \/ (Deque!StealCas(t) /\ dHead # top[t])
  PROVE  DequeInv'
<1>1. /\ DequeTypes /\ ThiefAt(t) /\ t \in Deque!Procs /\ top[t] \in Nat
      /\ dHead \in Nat /\ dTail \in Nat /\ Deque!EndIndex \in Nat /\ dTail <= Deque!EndIndex
  BY DequeFacts
<1>2. top = [top EXCEPT ![t] = top[t]]
  BY <1>1 DEF DequeTypes
<1>3. CASE Deque!StealLoadHead(t)
  <2>1. PICK l : l = "stealLoadTail"
    OBVIOUS
  <2>2. /\ dPc[t] = "idle" /\ UNCHANGED <<dHead, dTail, dData, extracted, count, pushed>>
        /\ dPc' = [dPc EXCEPT ![t] = l] /\ top' = [top EXCEPT ![t] = dHead]
    BY <1>3, <2>1 DEF Deque!StealLoadHead, Deque!Goto, Deque!SetTop
  <2>3. /\ dHead <= dHead /\ l \in {"idle", "stealLoadTail", "stealCas"} /\ l # "stealCas"
        /\ dPc[t] \notin {"stealTake", "stealFree"}
    BY <1>1, <2>1, <2>2
  <2>4. QED
    BY <1>1, <2>2, <2>3, StealQuiet
<1>4. CASE Deque!StealLoadTail(t)
  <2>1. PICK l : l = IF top[t] < dTail THEN "stealCas" ELSE "idle"
    OBVIOUS
  <2>2. dPc[t] = "stealLoadTail" /\ UNCHANGED <<dHead, dTail, dData, extracted, count, pushed>>
    BY <1>4 DEF Deque!StealLoadTail
  <2>3. dPc' = [dPc EXCEPT ![t] = l] /\ top' = [top EXCEPT ![t] = top[t]]
    BY <1>2, <1>4, <2>1 DEF Deque!StealLoadTail, Deque!Goto
  <2>4. top[t] <= dHead
    BY <1>1, <2>2 DEF ThiefAt
  <2>5. /\ l \in {"idle", "stealLoadTail", "stealCas"} /\ dPc[t] \notin {"stealTake", "stealFree"}
        /\ l = "stealCas" /\ top[t] = dHead => dHead < Deque!EndIndex
    BY <1>1, <2>1, <2>2
  <2>6. QED
    BY <1>1, <2>2, <2>3, <2>4, <2>5, StealQuiet
<1>5. CASE Deque!StealCas(t) /\ dHead # top[t]
  <2>1. PICK l : l = "idle"
    OBVIOUS
  <2>2. dPc[t] = "stealCas" /\ UNCHANGED <<dHead, dTail, dData, extracted, count, pushed>>
        /\ dPc' = [dPc EXCEPT ![t] = l]
    BY <1>5, <2>1 DEF Deque!StealCas, Deque!Goto
  <2>3. top' = [top EXCEPT ![t] = top[t]]
    BY <1>2, <1>5 DEF Deque!StealCas
  <2>4. l \in {"idle", "stealLoadTail", "stealCas"} /\ l # "stealCas" /\ dPc[t] \notin {"stealTake", "stealFree"}
    BY <2>1, <2>2
  <2>5. QED
    BY <1>1, <2>1, <2>2, <2>3, <2>4, StealQuiet
<1>6. QED
  BY <1>3, <1>4, <1>5

\* steal: the CAS on _head that succeeds.
LEMMA StealCasKeeps == ASSUME DequeInv, NEW t \in Consumers, Deque!StealCas(t), dHead = top[t] PROVE DequeInv'
<1>1. /\ DequeTypes /\ OwnerAt /\ Apart /\ ThiefAt(t) /\ t \in Deque!Procs
      /\ dHead \in Nat /\ dTail \in Nat /\ High \in Nat /\ top[Owner] \in Nat /\ dPc[Owner] \in Owning
      /\ Deque!EndIndex \in Nat /\ Deque!EndIndex <= High
      /\ \A u \in Consumers : ThiefAt(u) /\ top[u] \in Nat
  BY DequeFacts
<1>2. PICK l : l = "stealTake"
  OBVIOUS
<1>3. /\ dPc[t] = "stealCas" /\ dHead' = dHead + 1 /\ dPc' = [dPc EXCEPT ![t] = l]
      /\ UNCHANGED <<dTail, dData, extracted, top, count, pushed>>
  BY <1>2 DEF Deque!StealCas, Deque!Goto
<1>4. top' = [top EXCEPT ![t] = top[t]]
  BY <1>1, <1>3 DEF DequeTypes
<1>5. /\ \A u \in Consumers : u # t => dPc'[u] = dPc[u] /\ top'[u] = top[u]
      /\ dPc'[t] = "stealTake" /\ top'[t] = dHead /\ dPc'[Owner] = dPc[Owner] /\ top'[Owner] = top[Owner]
      /\ High' = High /\ Deque!EndIndex' = Deque!EndIndex
  <2>1. DequeTypes /\ dTail' = dTail /\ dPc' = [dPc EXCEPT ![t] = l] /\ dHead = top[t]
    BY <1>1, <1>3
  <2>2. /\ \A u \in Consumers : u # t => dPc'[u] = dPc[u] /\ top'[u] = top[u]
        /\ dPc'[t] = l /\ top'[t] = top[t] /\ dPc'[Owner] = dPc[Owner] /\ top'[Owner] = top[Owner]
        /\ High' = High /\ Deque!EndIndex' = Deque!EndIndex
    BY <1>4, <2>1, ThiefFrame
  <2>3. QED
    BY <1>2, <2>1, <2>2
<1>6. dHead < Deque!EndIndex
  BY <1>1, <1>3 DEF ThiefAt
<1>7. dTail' = dTail /\ dData' = dData /\ extracted' = extracted /\ count' = count /\ pushed' = pushed
  BY <1>3
<1>8. DequeTypes'
  <2>1. l \in Owning \cup Stealing
    BY <1>2 DEF Stealing
  <2>2. dPc' \in [Deque!Procs -> Owning \cup Stealing] /\ top' \in [Deque!Procs -> Nat]
    BY <1>1, <1>3, <2>1 DEF DequeTypes
  <2>3. QED
    BY <1>1, <1>3, <1>7, <2>2 DEF DequeTypes, Deque!Procs, Deque!Slots
<1>9. dPc[Owner] \notin {"popTakeLast", "popRestore"}
  BY <1>1, <1>6 DEF OwnerAt, Deque!EndIndex
<1>10. OwnerAt'
  <2>1. dHead' <= High
    BY <1>1, <1>3, <1>6
  <2>2. dPc[Owner] = "construct" => dHead' <= dTail
    BY <1>1, <1>3, <1>6 DEF Deque!EndIndex
  <2>3. dPc[Owner] = "popCas" => top[Owner] <= dHead'
    BY <1>1, <1>3 DEF OwnerAt
  <2>4. dPc[Owner] = "popTake" => dHead' <= top[Owner]
    BY <1>1, <1>3, <1>6 DEF OwnerAt, Deque!EndIndex, Reserved
  <2>5. QED
    BY <1>1, <1>5, <1>7, <1>9, <2>1, <2>2, <2>3, <2>4 DEF OwnerAt
<1>11. \A u \in Consumers : dPc[u] \in {"stealTake", "stealFree"} => top[u] # dHead
  BY <1>1 DEF ThiefAt
<1>12. Apart'
  BY <1>1, <1>5, <1>9, <1>11 DEF Apart
<1>13. ASSUME NEW u \in Consumers PROVE ThiefAt(u)'
  <2>1. CASE u = t
    BY <1>1, <1>3, <1>5, <2>1 DEF ThiefAt, Stealing
  <2>2. CASE u # t
    <3>1. dPc'[u] = dPc[u] /\ top'[u] = top[u] /\ top[u] \in Nat /\ ThiefAt(u)
      BY <1>1, <1>5, <2>2
    <3>2. dPc[u] # "idle" => top[u] < dHead'
      BY <1>1, <1>3, <3>1 DEF ThiefAt
    <3>3. QED
      BY <1>1, <1>3, <3>1, <3>2 DEF ThiefAt
  <2>3. QED
    BY <2>1, <2>2
<1>14. Taken' = Taken \cup {dHead} /\ Going' = Going
  BY <1>3, <1>5 DEF Taken, Going
<1>15. Live' = Live
  <2>1. dHead .. High - 1 = (dHead' .. High - 1) \cup {dHead}
    BY <1>1, <1>3, <1>6
  <2>2. QED
    BY <1>5, <1>14, <2>1 DEF Live
<1>16. SlotsTell(Live, Going, High, dData, extracted)'
  BY <1>5, <1>7, <1>14, <1>15 DEF DequeInv, SlotsTell, Deque!Slots, Deque!Slot
<1>17. QED
  BY <1>8, <1>10, <1>12, <1>13, <1>16 DEF DequeInv

\* A step of a thief that has won its index, on to the step l.
LEMMA StealWorks ==
  ASSUME DequeInv, NEW t \in Consumers, UNCHANGED <<dHead, dTail, top, count, pushed>>,
         dPc[t] \in {"stealTake", "stealFree"}, NEW l \in {"stealFree", "idle"},
         dPc' = [dPc EXCEPT ![t] = l],
         dData' \in [Deque!Slots -> (1 .. DequeItems) \cup {Nothing}], extracted' \in [Deque!Slots -> BOOLEAN],
         SlotsTell(Live, Going, High, dData, extracted)'
  PROVE  DequeInv'
<1>1. /\ DequeTypes /\ OwnerAt /\ Apart /\ t \in Deque!Procs /\ top[t] \in Nat
      /\ \A u \in Consumers : ThiefAt(u)
  BY DequeFacts
<1>2. top' = [top EXCEPT ![t] = top[t]] /\ dTail' = dTail
  BY <1>1 DEF DequeTypes
<1>3. /\ \A u \in Consumers : u # t => dPc'[u] = dPc[u] /\ top'[u] = top[u]
      /\ dPc'[t] = l /\ top'[t] = top[t] /\ dPc'[Owner] = dPc[Owner] /\ top'[Owner] = top[Owner]
      /\ High' = High /\ Deque!EndIndex' = Deque!EndIndex
  BY <1>1, <1>2, ThiefFrame
<1>4. dHead' = dHead /\ dTail' = dTail /\ top' = top /\ count' = count /\ pushed' = pushed
  OBVIOUS
<1>5. DequeTypes'
  <2>1. l \in Owning \cup Stealing
    BY DEF Owning, Stealing
  <2>2. dPc' \in [Deque!Procs -> Owning \cup Stealing]
    BY <1>1, <2>1 DEF DequeTypes
  <2>3. QED
    BY <1>1, <1>4, <2>2 DEF DequeTypes, Deque!Procs, Deque!Slots
<1>6. OwnerAt'
  BY <1>1, <1>3, <1>4 DEF OwnerAt
<1>7. Apart'
  BY <1>1, <1>3 DEF Apart
<1>8. ASSUME NEW u \in Consumers PROVE ThiefAt(u)'
  <2>1. CASE u = t
    <3>1. ThiefAt(t)
      BY <1>1
    <3>2. top[t] < dHead /\ top[t] <= dHead /\ l \in {"idle"} \cup Stealing /\ l # "stealCas"
      BY <1>1, <3>1 DEF ThiefAt, Stealing, DequeTypes
    <3>3. QED
      BY <1>3, <1>4, <2>1, <3>2 DEF ThiefAt
  <2>2. CASE u # t
    BY <1>1, <1>3, <1>4, <2>2 DEF ThiefAt
  <2>3. QED
    BY <2>1, <2>2
<1>9. QED
  BY <1>5, <1>6, <1>7, <1>8 DEF DequeInv

\* The index a thief has won is no other process's and not in the deque.
LEMMA Winner ==
  ASSUME DequeInv, NEW t \in Consumers, dPc[t] \in {"stealTake", "stealFree"}
  PROVE  /\ top[t] \notin dHead .. High - 1 /\ (dPc[Owner] = "popTakeLast" => top[t] # top[Owner])
         /\ \A u \in Consumers : u # t /\ dPc[u] \in {"stealTake", "stealFree"} => top[u] # top[t]
         /\ Deque!Slot(top[t]) \in Deque!Slots
<1>1. /\ DequeTypes /\ Apart /\ ThiefAt(t) /\ top[t] \in Nat /\ dHead \in Nat /\ High \in Nat
  BY DequeFacts
<1>2. top[t] < dHead
  BY <1>1 DEF ThiefAt
<1>3. top[t] \notin dHead .. High - 1
  BY <1>1, <1>2
<1>4. /\ (dPc[Owner] = "popTakeLast" => top[t] # top[Owner])
      /\ \A u \in Consumers : u # t /\ dPc[u] \in {"stealTake", "stealFree"} => top[u] # top[t]
  BY <1>1 DEF Apart
<1>5. QED
  BY <1>1, <1>3, <1>4, DequeSlots

\* steal: the thief moves the object out and destroys it.
LEMMA StealTakeKeeps == ASSUME DequeInv, NEW t \in Consumers, Deque!StealTake(t) PROVE DequeInv'
<1>1. PICK l : l = "stealFree"
  OBVIOUS
<1>2. /\ dPc[t] = "stealTake" /\ dPc' = [dPc EXCEPT ![t] = l]
      /\ dData' = [dData EXCEPT ![Deque!Slot(top[t])] = Nothing]
      /\ UNCHANGED <<dHead, dTail, extracted, top, count, pushed>>
  BY <1>1 DEF Deque!StealTake, Deque!MoveOut, Deque!Goto
<1>3. dPc[t] \in {"stealTake", "stealFree"} /\ l \in {"stealFree", "idle"}
  BY <1>1, <1>2
<1>4. /\ top[t] \notin dHead .. High - 1 /\ (dPc[Owner] = "popTakeLast" => top[t] # top[Owner])
      /\ \A u \in Consumers : u # t /\ dPc[u] \in {"stealTake", "stealFree"} => top[u] # top[t]
      /\ Deque!Slot(top[t]) \in Deque!Slots
  BY <1>3, Winner
<1>5. /\ DequeTypes /\ SlotsTell(Live, Going, High, dData, extracted) /\ High \in Nat /\ top[t] \in Nat
      /\ t \in Deque!Procs
  BY DequeFacts
<1>6. top' = [top EXCEPT ![t] = top[t]]
  BY <1>2, <1>5 DEF DequeTypes
<1>7. /\ \A u \in Consumers : u # t => dPc'[u] = dPc[u] /\ top'[u] = top[u]
      /\ dPc'[t] = l /\ top'[t] = top[t] /\ dPc'[Owner] = dPc[Owner] /\ top'[Owner] = top[Owner]
      /\ High' = High
  <2>1. dTail' = dTail /\ dPc' = [dPc EXCEPT ![t] = l]
    BY <1>2
  <2>2. QED
    BY <1>5, <1>6, <2>1, ThiefFrame
<1>8. /\ dData'[Deque!Slot(top[t])] = Nothing
      /\ \A s \in Deque!Slots : s # Deque!Slot(top[t]) => dData'[s] = dData[s]
      /\ dData' \in [Deque!Slots -> (1 .. DequeItems) \cup {Nothing}]
      /\ extracted' = extracted /\ extracted' \in [Deque!Slots -> BOOLEAN] /\ dHead' = dHead
  BY <1>2, <1>4, <1>5 DEF DequeTypes
<1>9. Taken' = Taken \ {top[t]}
  BY <1>1, <1>2, <1>4, <1>7 DEF Taken
<1>10. Going' = Going \cup {top[t]}
  BY <1>1, <1>2, <1>7 DEF Going
<1>11. Live' = Live \ {top[t]}
  BY <1>4, <1>7, <1>8, <1>9 DEF Live
<1>12. top[t] \in Live
  BY <1>2 DEF Live, Taken
<1>13. top[t] \notin Going
  BY <1>2, <1>4 DEF Going
<1>14. SlotsTell(Live \ {top[t]}, Going \cup {top[t]}, High, dData', extracted)
  BY <1>5, <1>8, <1>12, <1>13, TellTake
<1>15. SlotsTell(Live, Going, High, dData, extracted)'
  BY <1>7, <1>8, <1>10, <1>11, <1>14 DEF SlotsTell, Deque!Slots, Deque!Slot
<1>16. UNCHANGED <<dHead, dTail, top, count, pushed>> /\ dPc' = [dPc EXCEPT ![t] = l]
  BY <1>2
<1>17. QED
  BY <1>3, <1>8, <1>15, <1>16, StealWorks

\* steal: the thief sets is_extracted.
LEMMA StealFreeKeeps == ASSUME DequeInv, NEW t \in Consumers, Deque!StealFree(t) PROVE DequeInv'
<1>1. PICK l : l = "idle"
  OBVIOUS
<1>2. /\ dPc[t] = "stealFree" /\ dPc' = [dPc EXCEPT ![t] = l]
      /\ extracted' = [extracted EXCEPT ![Deque!Slot(top[t])] = TRUE]
      /\ UNCHANGED <<dHead, dTail, dData, top, count, pushed>>
  BY <1>1 DEF Deque!StealFree, Deque!MarkExtracted, Deque!Goto
<1>3. dPc[t] \in {"stealTake", "stealFree"} /\ l \in {"stealFree", "idle"}
  BY <1>1, <1>2
<1>4. /\ top[t] \notin dHead .. High - 1 /\ (dPc[Owner] = "popTakeLast" => top[t] # top[Owner])
      /\ \A u \in Consumers : u # t /\ dPc[u] \in {"stealTake", "stealFree"} => top[u] # top[t]
      /\ Deque!Slot(top[t]) \in Deque!Slots
  BY <1>3, Winner
<1>5. /\ DequeTypes /\ SlotsTell(Live, Going, High, dData, extracted) /\ High \in Nat /\ top[t] \in Nat
      /\ t \in Deque!Procs
  BY DequeFacts
<1>6. top' = [top EXCEPT ![t] = top[t]]
  BY <1>2, <1>5 DEF DequeTypes
<1>7. /\ \A u \in Consumers : u # t => dPc'[u] = dPc[u] /\ top'[u] = top[u]
      /\ dPc'[t] = l /\ top'[t] = top[t] /\ dPc'[Owner] = dPc[Owner] /\ top'[Owner] = top[Owner]
      /\ High' = High
  <2>1. dTail' = dTail /\ dPc' = [dPc EXCEPT ![t] = l]
    BY <1>2
  <2>2. QED
    BY <1>5, <1>6, <2>1, ThiefFrame
<1>8. /\ extracted'[Deque!Slot(top[t])] = TRUE
      /\ \A s \in Deque!Slots : s # Deque!Slot(top[t]) => extracted'[s] = extracted[s]
      /\ extracted' \in [Deque!Slots -> BOOLEAN]
      /\ dData' = dData /\ dData' \in [Deque!Slots -> (1 .. DequeItems) \cup {Nothing}] /\ dHead' = dHead
  BY <1>2, <1>4, <1>5 DEF DequeTypes
<1>9. Taken' = Taken
  BY <1>1, <1>2, <1>7 DEF Taken
<1>10. Going' = Going \ {top[t]}
  BY <1>1, <1>2, <1>4, <1>7 DEF Going
<1>11. Live' = Live
  BY <1>7, <1>8, <1>9 DEF Live
<1>12. top[t] \in Going
  BY <1>2 DEF Going
<1>13. top[t] \notin Live
  BY <1>2, <1>4 DEF Live, Taken
<1>14. SlotsTell(Live, Going \ {top[t]}, High, dData, extracted')
  BY <1>5, <1>8, <1>12, <1>13, TellFree
<1>15. SlotsTell(Live, Going, High, dData, extracted)'
  BY <1>7, <1>8, <1>10, <1>11, <1>14 DEF SlotsTell, Deque!Slots, Deque!Slot
<1>16. UNCHANGED <<dHead, dTail, top, count, pushed>> /\ dPc' = [dPc EXCEPT ![t] = l]
  BY <1>2
<1>17. QED
  BY <1>3, <1>8, <1>15, <1>16, StealWorks

-----------------------------------------------------------------------------
\* What a step of the owner leaves alone.
LEMMA OwnerFrame ==
  ASSUME DequeTypes, NEW l, NEW i, dPc' = [dPc EXCEPT ![Owner] = l], top' = [top EXCEPT ![Owner] = i]
  PROVE  /\ \A t \in Consumers : dPc'[t] = dPc[t] /\ top'[t] = top[t]
         /\ dPc'[Owner] = l /\ top'[Owner] = i /\ Taken' = Taken /\ Going' = Going
<1>1. Owner \in Deque!Procs /\ \A t \in Consumers : t \in Deque!Procs /\ t # Owner
  BY OwnerApart
<1>2. /\ \A t \in Consumers : dPc'[t] = dPc[t] /\ top'[t] = top[t]
      /\ dPc'[Owner] = l /\ top'[Owner] = i
  BY <1>1 DEF DequeTypes
<1>3. Taken' = Taken /\ Going' = Going
  BY <1>2 DEF Taken, Going
<1>4. QED
  BY <1>2, <1>3

\* A step of the owner on to the step l, with the index i.
LEMMA OwnerWorks ==
  ASSUME DequeInv, NEW l \in Owning, NEW i \in Nat,
         dPc' = [dPc EXCEPT ![Owner] = l], top' = [top EXCEPT ![Owner] = i],
         dHead' \in Nat, dTail' \in Nat, count' \in Nat, pushed' \in Nat, dHead <= dHead', OwnerAt',
         dData' \in [Deque!Slots -> (1 .. DequeItems) \cup {Nothing}], extracted' \in [Deque!Slots -> BOOLEAN],
         \A t \in Consumers : dPc[t] = "stealCas" /\ top[t] = dHead' => dHead' < Deque!EndIndex',
         l = "popTakeLast" => \A t \in Consumers : dPc[t] \in {"stealTake", "stealFree"} => top[t] # i,
         SlotsTell(Live, Going, High, dData, extracted)'
  PROVE  DequeInv'
<1>1. /\ DequeTypes /\ Apart /\ dHead \in Nat
      /\ \A t \in Consumers : ThiefAt(t) /\ top[t] \in Nat
  BY DequeFacts
<1>2. /\ \A t \in Consumers : dPc'[t] = dPc[t] /\ top'[t] = top[t]
      /\ dPc'[Owner] = l /\ top'[Owner] = i
  BY <1>1, OwnerFrame
<1>3. DequeTypes'
  <2>1. dPc' \in [Deque!Procs -> Owning \cup Stealing] /\ top' \in [Deque!Procs -> Nat]
    BY <1>1 DEF DequeTypes
  <2>2. /\ dHead' \in Nat /\ dTail' \in Nat /\ count' \in Nat /\ pushed' \in Nat
        /\ dData' \in [Deque!Slots -> (1 .. DequeItems) \cup {Nothing}] /\ extracted' \in [Deque!Slots -> BOOLEAN]
    OBVIOUS
  <2>3. QED
    BY <2>1, <2>2 DEF DequeTypes, Deque!Procs, Deque!Slots
<1>4. Apart'
  BY <1>1, <1>2 DEF Apart
<1>5. ASSUME NEW t \in Consumers PROVE ThiefAt(t)'
  <2>1. dPc'[t] = dPc[t] /\ top'[t] = top[t] /\ top[t] \in Nat /\ ThiefAt(t)
    BY <1>1, <1>2
  <2>2. dPc[t] = "stealCas" /\ top[t] = dHead' => dHead' < Deque!EndIndex'
    OBVIOUS
  <2>3. /\ dPc[t] # "idle" => top[t] <= dHead'
        /\ dPc[t] \in {"stealTake", "stealFree"} => top[t] < dHead'
    BY <1>1, <2>1 DEF ThiefAt
  <2>4. dPc[t] \in {"idle"} \cup Stealing
    BY <2>1 DEF ThiefAt
  <2>5. QED
    BY <2>1, <2>2, <2>3, <2>4 DEF ThiefAt
<1>6. QED
  BY <1>3, <1>4, <1>5 DEF DequeInv

\* The same, when no slot changes and the live indices stay.
LEMMA OwnerMove ==
  ASSUME DequeInv, NEW l \in Owning, NEW i \in Nat,
         dPc' = [dPc EXCEPT ![Owner] = l], top' = [top EXCEPT ![Owner] = i],
         dHead' \in Nat, dTail' \in Nat, count' \in Nat, dHead <= dHead', OwnerAt',
         UNCHANGED <<dData, extracted, pushed>>, High' = High, Live' = Live,
         \A t \in Consumers : dPc[t] = "stealCas" /\ top[t] = dHead' => dHead' < Deque!EndIndex',
         l = "popTakeLast" => \A t \in Consumers : dPc[t] \in {"stealTake", "stealFree"} => top[t] # i
  PROVE  DequeInv'
<1>1. DequeTypes /\ SlotsTell(Live, Going, High, dData, extracted)
  BY DequeFacts
<1>2. Going' = Going
  BY <1>1, OwnerFrame
<1>3. dData' = dData /\ extracted' = extracted /\ pushed' = pushed /\ High' = High /\ Live' = Live
  OBVIOUS
<1>4. SlotsTell(Live, Going, High, dData, extracted)'
  BY <1>1, <1>2, <1>3 DEF SlotsTell, Deque!Slots, Deque!Slot
<1>5. /\ pushed' \in Nat /\ dData' \in [Deque!Slots -> (1 .. DequeItems) \cup {Nothing}]
      /\ extracted' \in [Deque!Slots -> BOOLEAN]
  BY <1>1, <1>3 DEF DequeTypes
<1>6. QED
  BY <1>4, <1>5, OwnerWorks

\* pushBulk: the free places are counted.
LEMMA PushBeginKeeps == ASSUME DequeInv, NEW n \in 1 .. MaxBulk, Deque!PushBegin(n) PROVE DequeInv'
<1>1. /\ DequeTypes /\ OwnerAt /\ dHead \in Nat /\ dTail \in Nat /\ High \in Nat /\ top[Owner] \in Nat
      /\ \A t \in Consumers : ThiefAt(t)
  BY DequeFacts
<1>2. PICK l \in Owning : l = "construct"
  BY DEF Owning
<1>3. /\ dPc[Owner] = "idle" /\ pushed + n <= DequeItems /\ count' = Deque!Lesser(n, Capacity - (dTail - dHead))
      /\ Capacity - (dTail - dHead) > 0
      /\ dPc' = [dPc EXCEPT ![Owner] = l] /\ top' = [top EXCEPT ![Owner] = dTail]
      /\ UNCHANGED <<dHead, dTail, dData, extracted, pushed>>
  BY <1>2 DEF Deque!PushBegin, Deque!Goto, Deque!SetTop
<1>4. /\ dPc'[Owner] = "construct" /\ top'[Owner] = dTail /\ Taken' = Taken
      /\ \A t \in Consumers : dPc'[t] = dPc[t] /\ top'[t] = top[t]
  <2>1. dPc' = [dPc EXCEPT ![Owner] = l] /\ top' = [top EXCEPT ![Owner] = dTail]
    BY <1>3
  <2>2. QED
    BY <1>1, <1>2, <2>1, OwnerFrame
<1>5. dHead' = dHead /\ dTail' = dTail /\ pushed' = pushed /\ UNCHANGED <<dData, extracted, pushed>>
  BY <1>3
<1>6. count' \in Nat /\ count' <= n
  BY <1>1, <1>3, DequeSlots DEF Deque!Lesser
<1>7. High = dTail /\ High' = dTail
  BY <1>3, <1>4, <1>5 DEF High, Reserved
<1>8. Deque!EndIndex = dTail /\ Deque!EndIndex' = dTail
  BY <1>3, <1>4, <1>5 DEF Deque!EndIndex
<1>9. Live' = Live
  BY <1>3, <1>4, <1>5, <1>7 DEF Live
<1>10. OwnerAt'
  <2>1. pushed \in Nat /\ MaxBulk \in Nat /\ DequeItems \in Nat
    BY <1>1, LibraryAssumption DEF DequeTypes
  <2>2. dHead <= dTail /\ dTail <= pushed /\ pushed <= DequeItems
    BY <1>1, <1>7 DEF OwnerAt
  <2>3. count' <= MaxBulk /\ pushed + count' <= DequeItems
    BY <1>3, <1>6, <2>1
  <2>4. QED
    BY <1>1, <1>4, <1>5, <1>7, <2>2, <2>3 DEF OwnerAt, Owning, Reserved
<1>11. \A t \in Consumers : dPc[t] = "stealCas" /\ top[t] = dHead' => dHead' < Deque!EndIndex'
  BY <1>1, <1>5, <1>8 DEF ThiefAt
<1>12. /\ dHead' \in Nat /\ dTail' \in Nat /\ dHead <= dHead' /\ High' = High
       /\ dPc' = [dPc EXCEPT ![Owner] = l] /\ top' = [top EXCEPT ![Owner] = dTail] /\ l # "popTakeLast"
  BY <1>1, <1>2, <1>3, <1>5, <1>7
<1>13. QED
  BY <1>1, <1>5, <1>6, <1>9, <1>10, <1>11, <1>12, OwnerMove

\* pushBulk: _tail is stored.
LEMMA DequePublishKeeps == ASSUME DequeInv, Deque!PushPublish PROVE DequeInv'
<1>1. /\ DequeTypes /\ OwnerAt /\ dHead \in Nat /\ dTail \in Nat /\ High \in Nat /\ top[Owner] \in Nat
      /\ \A t \in Consumers : ThiefAt(t)
  BY DequeFacts
<1>2. PICK l \in Owning : l = "idle"
  BY DEF Owning
<1>3. /\ dPc[Owner] = "construct" /\ dTail' = top[Owner] /\ dPc' = [dPc EXCEPT ![Owner] = l]
      /\ UNCHANGED <<dHead, dData, extracted, top, count, pushed>>
  BY <1>2 DEF Deque!PushPublish, Deque!Goto
<1>4. top' = [top EXCEPT ![Owner] = top[Owner]] /\ dPc' = [dPc EXCEPT ![Owner] = l]
  BY <1>1, <1>3 DEF DequeTypes
<1>5. /\ dPc'[Owner] = "idle" /\ Taken' = Taken
      /\ \A t \in Consumers : dPc'[t] = dPc[t] /\ top'[t] = top[t]
  BY <1>1, <1>2, <1>4, OwnerFrame
<1>6. dHead' = dHead /\ UNCHANGED <<dData, extracted, pushed>> /\ count' = count /\ pushed' = pushed /\ count \in Nat
  BY <1>1, <1>3 DEF DequeTypes
<1>7. High = top[Owner] /\ High' = top[Owner]
  BY <1>3, <1>5 DEF High, Reserved
<1>8. Deque!EndIndex = dTail /\ Deque!EndIndex' = top[Owner] /\ dTail <= top[Owner]
  BY <1>1, <1>3, <1>5 DEF Deque!EndIndex, OwnerAt
<1>9. Live' = Live
  BY <1>3, <1>5, <1>6, <1>7 DEF Live
<1>10. OwnerAt'
  BY <1>1, <1>5, <1>6, <1>7 DEF OwnerAt, Owning, Reserved
<1>11. \A t \in Consumers : dPc[t] = "stealCas" /\ top[t] = dHead' => dHead' < Deque!EndIndex'
  BY <1>1, <1>6, <1>8 DEF ThiefAt
<1>12. dHead' \in Nat /\ dTail' \in Nat /\ count' \in Nat /\ dHead <= dHead' /\ High' = High /\ l # "popTakeLast"
  BY <1>1, <1>2, <1>3, <1>6, <1>7
<1>13. QED
  BY <1>1, <1>4, <1>6, <1>9, <1>10, <1>11, <1>12, OwnerMove

\* pop: _tail is lowered.
LEMMA PopReserveKeeps == ASSUME DequeInv, Deque!PopReserve PROVE DequeInv'
<1>1. /\ DequeTypes /\ OwnerAt /\ dHead \in Nat /\ dTail \in Nat /\ High \in Nat /\ top[Owner] \in Nat
      /\ \A t \in Consumers : ThiefAt(t)
  BY DequeFacts
<1>2. PICK l \in Owning : l = "popLoadHead"
  BY DEF Owning, Reserved
<1>3. PICK i \in Nat : i = dTail - 1
  BY <1>1 DEF Deque!PopReserve
<1>4. /\ dPc[Owner] = "idle" /\ dTail' = i /\ dPc' = [dPc EXCEPT ![Owner] = l] /\ top' = [top EXCEPT ![Owner] = i]
      /\ UNCHANGED <<dHead, dData, extracted, count, pushed>>
  BY <1>2, <1>3 DEF Deque!PopReserve, Deque!Goto, Deque!SetTop
<1>5. dPc' = [dPc EXCEPT ![Owner] = l] /\ top' = [top EXCEPT ![Owner] = i]
  BY <1>4
<1>6. /\ dPc'[Owner] = "popLoadHead" /\ top'[Owner] = i /\ Taken' = Taken
      /\ \A t \in Consumers : dPc'[t] = dPc[t] /\ top'[t] = top[t]
  BY <1>1, <1>2, <1>5, OwnerFrame
<1>7. dHead' = dHead /\ UNCHANGED <<dData, extracted, pushed>> /\ count' = count /\ pushed' = pushed /\ count \in Nat
  BY <1>1, <1>4 DEF DequeTypes
<1>8. High = dTail /\ High' = dTail
  BY <1>1, <1>3, <1>4, <1>6 DEF High, Reserved
<1>9. Deque!EndIndex = dTail /\ Deque!EndIndex' = dTail
  BY <1>1, <1>3, <1>4, <1>6 DEF Deque!EndIndex
<1>10. Live' = Live
  BY <1>4, <1>6, <1>7, <1>8 DEF Live
<1>11. OwnerAt'
  BY <1>1, <1>4, <1>6, <1>7, <1>8 DEF OwnerAt, Owning, Reserved
<1>12. \A t \in Consumers : dPc[t] = "stealCas" /\ top[t] = dHead' => dHead' < Deque!EndIndex'
  BY <1>1, <1>7, <1>9 DEF ThiefAt
<1>13. dHead' \in Nat /\ dTail' \in Nat /\ count' \in Nat /\ dHead <= dHead' /\ High' = High /\ l # "popTakeLast"
  BY <1>1, <1>2, <1>4, <1>7, <1>8
<1>14. QED
  BY <1>1, <1>5, <1>7, <1>10, <1>11, <1>12, <1>13, OwnerMove

\* pop: a step of the owner that has lowered _tail and neither moves _head nor _tail.
LEMMA PopStays ==
  ASSUME DequeInv, dPc[Owner] \in Reserved, dPc[Owner] # "popTakeLast",
         NEW l \in {"popTake", "popCas", "popRestore"}, dPc' = [dPc EXCEPT ![Owner] = l],
         UNCHANGED <<dHead, dTail, dData, extracted, top, count, pushed>>,
         l = "popCas" => top[Owner] <= dHead, l = "popTake" => dHead < top[Owner],
         l = "popRestore" => top[Owner] < dHead
  PROVE  DequeInv'
<1>1. /\ DequeTypes /\ OwnerAt /\ dHead \in Nat /\ dTail \in Nat /\ High \in Nat /\ top[Owner] \in Nat
      /\ \A t \in Consumers : ThiefAt(t)
  BY DequeFacts
<1>2. l \in Owning /\ l \in Reserved /\ l # "popTakeLast"
  BY DEF Owning, Reserved
<1>3. top' = [top EXCEPT ![Owner] = top[Owner]] /\ dPc' = [dPc EXCEPT ![Owner] = l]
  BY <1>1 DEF DequeTypes
<1>4. /\ dPc'[Owner] = l /\ top'[Owner] = top[Owner] /\ Taken' = Taken
      /\ \A t \in Consumers : dPc'[t] = dPc[t] /\ top'[t] = top[t]
  BY <1>1, <1>3, OwnerFrame
<1>5. /\ dHead' = dHead /\ dTail' = dTail /\ UNCHANGED <<dData, extracted, pushed>> /\ count' = count
      /\ pushed' = pushed /\ count \in Nat
  BY <1>1 DEF DequeTypes
<1>6. High = top[Owner] + 1 /\ High' = top[Owner] + 1
  BY <1>2, <1>4 DEF High
<1>7. Live' = Live
  BY <1>2, <1>4, <1>5, <1>6 DEF Live
<1>8. l = "popRestore" => dHead = top[Owner] + 1
  BY <1>1, <1>6 DEF OwnerAt
<1>9. OwnerAt'
  <2>1. dTail = top[Owner] /\ dHead <= High /\ High <= pushed /\ pushed <= DequeItems /\ count <= MaxBulk
    BY <1>1 DEF OwnerAt
  <2>2. l = "popTake" => dHead <= top[Owner]
    BY <1>1
  <2>3. QED
    BY <1>2, <1>4, <1>5, <1>6, <1>8, <2>1, <2>2 DEF OwnerAt
<1>10. ASSUME NEW t \in Consumers, dPc[t] = "stealCas", top[t] = dHead' PROVE dHead' < Deque!EndIndex'
  <2>1. dHead < Deque!EndIndex
    BY <1>1, <1>5, <1>10 DEF ThiefAt
  <2>2. Deque!EndIndex <= top[Owner] + 1
    BY <1>6, DequeFacts
  <2>3. dTail = top[Owner]
    BY <1>1 DEF OwnerAt
  <2>4. Deque!EndIndex' = IF l = "popTake" THEN top[Owner] ELSE top[Owner] + 1
    BY <1>4, <1>5, <2>3 DEF Deque!EndIndex
  <2>5. Deque!EndIndex \in Nat
    BY DequeFacts
  <2>6. QED
    BY <1>1, <1>5, <2>1, <2>2, <2>4, <2>5
<1>11. dHead' \in Nat /\ dTail' \in Nat /\ count' \in Nat /\ dHead <= dHead' /\ High' = High
  BY <1>1, <1>5, <1>6
<1>12. QED
  BY <1>1, <1>2, <1>3, <1>5, <1>7, <1>9, <1>10, <1>11, OwnerMove

\* pop: _head is loaded; the CAS fails.
LEMMA PopLookKeeps ==
  ASSUME DequeInv, Deque!PopLoadHead \/ (Deque!PopCas /\ dHead # top[Owner])
  PROVE  DequeInv'
<1>1. /\ DequeTypes /\ OwnerAt /\ dHead \in Nat /\ top[Owner] \in Nat
  BY DequeFacts
<1>2. CASE Deque!PopLoadHead
  <2>1. PICK l : l = CASE dHead < top[Owner] -> "popTake" [] dHead = top[Owner] -> "popCas" [] OTHER -> "popRestore"
    OBVIOUS
  <2>2. /\ dPc[Owner] = "popLoadHead" /\ dPc' = [dPc EXCEPT ![Owner] = l]
        /\ UNCHANGED <<dHead, dTail, dData, extracted, top, count, pushed>>
    BY <1>2, <2>1 DEF Deque!PopLoadHead, Deque!Goto
  <2>3. /\ l \in {"popTake", "popCas", "popRestore"} /\ (l = "popCas" => top[Owner] <= dHead)
        /\ (l = "popTake" => dHead < top[Owner]) /\ (l = "popRestore" => top[Owner] < dHead)
    BY <1>1, <2>1
  <2>4. dPc[Owner] \in Reserved /\ dPc[Owner] # "popTakeLast"
    BY <2>2 DEF Reserved
  <2>5. QED
    BY <2>2, <2>3, <2>4, PopStays
<1>3. CASE Deque!PopCas /\ dHead # top[Owner]
  <2>1. PICK l : l = "popRestore"
    OBVIOUS
  <2>2. /\ dPc[Owner] = "popCas" /\ dPc' = [dPc EXCEPT ![Owner] = l]
        /\ UNCHANGED <<dHead, dTail, dData, extracted, top, count, pushed>>
    BY <1>3, <2>1 DEF Deque!PopCas, Deque!Goto
  <2>3. top[Owner] < dHead
    BY <1>1, <1>3, <2>2 DEF OwnerAt
  <2>4. dPc[Owner] \in Reserved /\ dPc[Owner] # "popTakeLast" /\ l \in {"popTake", "popCas", "popRestore"}
        /\ l # "popCas" /\ l # "popTake"
    BY <2>1, <2>2 DEF Reserved
  <2>5. QED
    BY <2>2, <2>3, <2>4, PopStays
<1>4. QED
  BY <1>2, <1>3

\* pop: the CAS on the last item succeeds.
LEMMA PopCasKeeps == ASSUME DequeInv, Deque!PopCas, dHead = top[Owner] PROVE DequeInv'
<1>1. /\ DequeTypes /\ OwnerAt /\ dHead \in Nat /\ dTail \in Nat /\ High \in Nat /\ top[Owner] \in Nat
      /\ \A t \in Consumers : ThiefAt(t) /\ top[t] \in Nat
  BY DequeFacts
<1>2. PICK l \in Owning : l = "popTakeLast"
  BY DEF Owning, Reserved
<1>3. /\ dPc[Owner] = "popCas" /\ dHead' = dHead + 1 /\ dPc' = [dPc EXCEPT ![Owner] = l]
      /\ UNCHANGED <<dTail, dData, extracted, top, count, pushed>>
  BY <1>2 DEF Deque!PopCas, Deque!Goto
<1>4. top' = [top EXCEPT ![Owner] = top[Owner]] /\ dPc' = [dPc EXCEPT ![Owner] = l]
  BY <1>1, <1>3 DEF DequeTypes
<1>5. /\ dPc'[Owner] = l /\ top'[Owner] = top[Owner] /\ Taken' = Taken
      /\ \A t \in Consumers : dPc'[t] = dPc[t] /\ top'[t] = top[t]
  BY <1>1, <1>4, OwnerFrame
<1>6. /\ dTail' = dTail /\ UNCHANGED <<dData, extracted, pushed>> /\ count' = count
      /\ pushed' = pushed /\ count \in Nat
  BY <1>1, <1>3 DEF DequeTypes
<1>7. High = top[Owner] + 1 /\ High' = top[Owner] + 1
  BY <1>2, <1>3, <1>5 DEF High, Reserved
<1>8. Live' = Live
  <2>1. dHead .. High - 1 = {top[Owner]} /\ dHead' .. High' - 1 = {}
    BY <1>1, <1>3, <1>7
  <2>2. Live = {top[Owner]} \cup Taken /\ Live' = Taken \cup {top[Owner]}
    BY <1>2, <1>3, <1>5, <2>1 DEF Live
  <2>3. QED
    BY <2>2
<1>9. OwnerAt'
  <2>1. dTail = top[Owner] /\ High <= pushed /\ pushed <= DequeItems /\ count <= MaxBulk
    BY <1>1, <1>3 DEF OwnerAt, Reserved
  <2>2. dHead' = top[Owner] + 1 /\ dHead' <= High
    BY <1>1, <1>3, <1>7
  <2>3. l \in Owning /\ l # "construct" /\ l # "popCas" /\ l # "popTake"
    BY <1>2
  <2>4. QED
    BY <1>5, <1>6, <1>7, <2>1, <2>2, <2>3 DEF OwnerAt
<1>10. \A t \in Consumers : ~(dPc[t] = "stealCas" /\ top[t] = dHead')
  BY <1>1, <1>3 DEF ThiefAt
<1>11. \A t \in Consumers : dPc[t] \in {"stealTake", "stealFree"} => top[t] # top[Owner]
  BY <1>1 DEF ThiefAt
<1>12. dHead' \in Nat /\ dTail' \in Nat /\ count' \in Nat /\ dHead <= dHead' /\ High' = High
  BY <1>1, <1>3, <1>6, <1>7
<1>13. QED
  BY <1>1, <1>4, <1>6, <1>8, <1>9, <1>10, <1>11, <1>12, OwnerMove

\* pop: _tail is restored.
LEMMA PopRestoreKeeps == ASSUME DequeInv, Deque!PopRestore PROVE DequeInv'
<1>1. /\ DequeTypes /\ OwnerAt /\ dHead \in Nat /\ dTail \in Nat /\ High \in Nat /\ top[Owner] \in Nat
      /\ \A t \in Consumers : ThiefAt(t)
  BY DequeFacts
<1>2. PICK l \in Owning : l = "idle"
  BY DEF Owning
<1>3. /\ dPc[Owner] = "popRestore" /\ dTail' = top[Owner] + 1 /\ dPc' = [dPc EXCEPT ![Owner] = l]
      /\ UNCHANGED <<dHead, dData, extracted, top, count, pushed>>
  BY <1>2 DEF Deque!PopRestore, Deque!Goto
<1>4. top' = [top EXCEPT ![Owner] = top[Owner]] /\ dPc' = [dPc EXCEPT ![Owner] = l]
  BY <1>1, <1>3 DEF DequeTypes
<1>5. /\ dPc'[Owner] = "idle" /\ Taken' = Taken
      /\ \A t \in Consumers : dPc'[t] = dPc[t] /\ top'[t] = top[t]
  BY <1>1, <1>2, <1>4, OwnerFrame
<1>6. dHead' = dHead /\ UNCHANGED <<dData, extracted, pushed>> /\ count' = count /\ pushed' = pushed /\ count \in Nat
  BY <1>1, <1>3 DEF DequeTypes
<1>7. High = top[Owner] + 1 /\ High' = top[Owner] + 1
  BY <1>3, <1>5 DEF High, Reserved
<1>8. Deque!EndIndex = top[Owner] + 1 /\ Deque!EndIndex' = top[Owner] + 1
  BY <1>3, <1>5 DEF Deque!EndIndex
<1>9. Live' = Live
  BY <1>3, <1>5, <1>6, <1>7 DEF Live
<1>10. OwnerAt'
  BY <1>1, <1>3, <1>5, <1>6, <1>7 DEF OwnerAt, Owning, Reserved
<1>11. \A t \in Consumers : dPc[t] = "stealCas" /\ top[t] = dHead' => dHead' < Deque!EndIndex'
  BY <1>1, <1>6, <1>8 DEF ThiefAt
<1>12. dHead' \in Nat /\ dTail' \in Nat /\ count' \in Nat /\ dHead <= dHead' /\ High' = High /\ l # "popTakeLast"
  BY <1>1, <1>2, <1>3, <1>6, <1>7
<1>13. QED
  BY <1>1, <1>4, <1>6, <1>9, <1>10, <1>11, <1>12, OwnerMove

\* pushBulk: an object is constructed in a slot whose flag is set.
LEMMA DequeConstructKeeps == ASSUME DequeInv, Deque!PushConstruct PROVE DequeInv'
<1>1. /\ DequeTypes /\ OwnerAt /\ dHead \in Nat /\ dTail \in Nat /\ High \in Nat /\ top[Owner] \in Nat
      /\ SlotsTell(Live, Going, High, dData, extracted)
      /\ \A t \in Consumers : ThiefAt(t)
  BY DequeFacts
<1>2. PICK l \in Owning : l = "construct"
  BY DEF Owning
<1>3. PICK i \in Nat : i = top[Owner] + 1
  BY <1>1
<1>4. PICK x \in Nat : x = pushed + 1
  BY <1>1 DEF DequeTypes
<1>5. /\ dPc[Owner] = "construct" /\ count > 0 /\ extracted[Deque!Slot(top[Owner])] /\ pushed' = x
      /\ dData' = [dData EXCEPT ![Deque!Slot(top[Owner])] = x]
      /\ extracted' = [extracted EXCEPT ![Deque!Slot(top[Owner])] = FALSE]
      /\ top' = [top EXCEPT ![Owner] = i] /\ count' = count - 1
      /\ UNCHANGED <<dHead, dTail, dPc>>
  BY <1>3, <1>4 DEF Deque!PushConstruct, Deque!SetTop
<1>6. top' = [top EXCEPT ![Owner] = i] /\ dPc' = [dPc EXCEPT ![Owner] = l]
  BY <1>1, <1>2, <1>5 DEF DequeTypes
<1>7. /\ dPc'[Owner] = "construct" /\ top'[Owner] = i /\ Taken' = Taken /\ Going' = Going
      /\ \A t \in Consumers : dPc'[t] = dPc[t] /\ top'[t] = top[t]
  BY <1>1, <1>2, <1>6, OwnerFrame
<1>8. dHead' = dHead /\ dTail' = dTail
  BY <1>5
<1>9. /\ pushed \in Nat /\ count \in Nat /\ MaxBulk \in Nat /\ DequeItems \in Nat
      /\ dHead <= dTail /\ dTail <= top[Owner] /\ pushed + count <= DequeItems /\ count <= MaxBulk
  BY <1>1, <1>5, LibraryAssumption DEF DequeTypes, OwnerAt
<1>10. High = top[Owner] /\ High' = High + 1
  BY <1>3, <1>5, <1>7 DEF High, Reserved
<1>11. High <= pushed
  BY <1>1 DEF OwnerAt
<1>12. x \in 1 .. DequeItems /\ count' \in Nat /\ count' <= MaxBulk /\ pushed' + count' <= DequeItems
       /\ High' <= pushed' /\ pushed' <= DequeItems
  BY <1>1, <1>4, <1>5, <1>9, <1>10, <1>11
<1>13. Live' = Live \cup {High}
  <2>1. dHead' .. High' - 1 = (dHead .. High - 1) \cup {High}
    BY <1>1, <1>8, <1>9, <1>10
  <2>2. QED
    BY <1>5, <1>7, <2>1 DEF Live
<1>14. Deque!Slot(High) \in Deque!Slots
  BY <1>1, DequeSlots
<1>15. dData' \in [Deque!Slots -> (1 .. DequeItems) \cup {Nothing}]
  <2>1. dData \in [Deque!Slots -> (1 .. DequeItems) \cup {Nothing}] /\ x \in (1 .. DequeItems) \cup {Nothing}
    BY <1>1, <1>12 DEF DequeTypes
  <2>2. QED
    BY <1>5, <2>1
<1>16. extracted' \in [Deque!Slots -> BOOLEAN]
  BY <1>1, <1>5 DEF DequeTypes
<1>17. /\ dData'[Deque!Slot(High)] = x /\ extracted'[Deque!Slot(High)] = FALSE
       /\ \A s \in Deque!Slots : s # Deque!Slot(High) => dData'[s] = dData[s] /\ extracted'[s] = extracted[s]
  BY <1>1, <1>5, <1>10, <1>14 DEF DequeTypes
<1>18. x # Nothing
  BY LibraryAssumption
<1>19. extracted[Deque!Slot(High)] = TRUE
  <2>1. extracted[Deque!Slot(High)] \in BOOLEAN
    BY <1>1, <1>14 DEF DequeTypes
  <2>2. QED
    BY <1>5, <1>10, <2>1
<1>20. SlotsTell(Live \cup {High}, Going, High + 1, dData', extracted')
  <2>1. SlotsTell(Live, Going, High, dData, extracted) /\ High \in Nat
    BY <1>1
  <2>2. SlotFilled(Deque!Slot(High), dData, extracted, dData', extracted')
    BY <1>17, <1>18, <1>19 DEF SlotFilled
  <2>3. QED
    BY <2>1, <2>2, TellAdd, ZenonT(30)
<1>21. SlotsTell(Live, Going, High, dData, extracted)'
  BY <1>7, <1>10, <1>13, <1>20 DEF SlotsTell, Deque!Slots, Deque!Slot
<1>22. OwnerAt'
  <2>1. dHead' <= High' /\ dTail' <= i
    BY <1>1, <1>3, <1>8, <1>9, <1>10
  <2>2. QED
    BY <1>7, <1>8, <1>9, <1>12, <2>1 DEF OwnerAt, Owning, Reserved
<1>23. Deque!EndIndex = dTail /\ Deque!EndIndex' = dTail
  BY <1>5, <1>7, <1>8 DEF Deque!EndIndex
<1>24. \A t \in Consumers : dPc[t] = "stealCas" /\ top[t] = dHead' => dHead' < Deque!EndIndex'
  BY <1>1, <1>8, <1>23 DEF ThiefAt
<1>25. dHead' \in Nat /\ dTail' \in Nat /\ pushed' \in Nat /\ dHead <= dHead' /\ l # "popTakeLast"
  BY <1>1, <1>2, <1>4, <1>5, <1>8
<1>26. QED
  BY <1>6, <1>12, <1>15, <1>16, <1>21, <1>22, <1>24, <1>25, OwnerWorks

\* pop: the owner moves the object out and sets is_extracted.
LEMMA PopTakeKeeps == ASSUME DequeInv, Deque!PopTake PROVE DequeInv'
<1>1. /\ DequeTypes /\ OwnerAt /\ Apart /\ dHead \in Nat /\ dTail \in Nat /\ High \in Nat /\ top[Owner] \in Nat
      /\ SlotsTell(Live, Going, High, dData, extracted)
      /\ \A t \in Consumers : ThiefAt(t) /\ top[t] \in Nat
  BY DequeFacts
<1>2. PICK l \in Owning : l = IF dPc[Owner] = "popTake" THEN "idle" ELSE "popRestore"
  BY DEF Owning, Reserved
<1>3. /\ dPc[Owner] \in {"popTake", "popTakeLast"} /\ dPc' = [dPc EXCEPT ![Owner] = l]
      /\ dData' = [dData EXCEPT ![Deque!Slot(top[Owner])] = Nothing]
      /\ extracted' = [extracted EXCEPT ![Deque!Slot(top[Owner])] = TRUE]
      /\ UNCHANGED <<dHead, dTail, top, count, pushed>>
  BY <1>2 DEF Deque!PopTake, Deque!Goto, Deque!MoveOut, Deque!MarkExtracted
<1>4. top' = [top EXCEPT ![Owner] = top[Owner]] /\ dPc' = [dPc EXCEPT ![Owner] = l]
  BY <1>1, <1>3 DEF DequeTypes
<1>5. /\ dPc'[Owner] = l /\ top'[Owner] = top[Owner] /\ Taken' = Taken /\ Going' = Going
      /\ \A t \in Consumers : dPc'[t] = dPc[t] /\ top'[t] = top[t]
  BY <1>1, <1>4, OwnerFrame
<1>6. dHead' = dHead /\ dTail' = dTail /\ count' = count /\ pushed' = pushed /\ count \in Nat /\ pushed \in Nat
  BY <1>1, <1>3 DEF DequeTypes
<1>7. dTail = top[Owner] /\ High = top[Owner] + 1
  BY <1>1, <1>3 DEF OwnerAt, High, Reserved
<1>8. High' = IF l = "idle" THEN top[Owner] ELSE top[Owner] + 1
  BY <1>2, <1>5, <1>6, <1>7 DEF High, Reserved
<1>9. /\ dPc[Owner] = "popTake" => dHead <= top[Owner]
      /\ dPc[Owner] = "popTakeLast" => dHead = top[Owner] + 1
  BY <1>1 DEF OwnerAt
<1>10. \A t \in Consumers : dPc[t] \in {"stealTake", "stealFree"} => top[t] < dHead /\ top[t] # top[Owner]
  BY <1>1, <1>3, <1>9 DEF ThiefAt, Apart
<1>11. top[Owner] \in Live /\ top[Owner] \notin Going /\ top[Owner] \notin Taken
  <2>1. top[Owner] \notin Going /\ top[Owner] \notin Taken
    BY <1>10 DEF Going, Taken
  <2>2. CASE dPc[Owner] = "popTake"
    <3>1. top[Owner] \in dHead .. High - 1
      BY <1>1, <1>7, <1>9, <2>2
    <3>2. QED
      BY <2>1, <3>1 DEF Live
  <2>3. CASE dPc[Owner] = "popTakeLast"
    BY <2>1, <2>3 DEF Live
  <2>4. QED
    BY <1>3, <2>1, <2>2, <2>3
<1>12. Live' = Live \ {top[Owner]}
  <2>1. CASE dPc[Owner] = "popTake"
    <3>1. dHead' .. High' - 1 = (dHead .. High - 1) \ {top[Owner]} /\ l = "idle"
      BY <1>1, <1>2, <1>6, <1>7, <1>8, <2>1
    <3>2. Live = (dHead .. High - 1) \cup Taken /\ Live' = (dHead' .. High' - 1) \cup Taken
      BY <1>5, <2>1, <3>1 DEF Live
    <3>3. QED
      BY <1>11, <3>1, <3>2
  <2>2. CASE dPc[Owner] = "popTakeLast"
    <3>1. dHead' .. High' - 1 = {} /\ dHead .. High - 1 = {} /\ l = "popRestore"
      BY <1>1, <1>2, <1>6, <1>7, <1>8, <1>9, <2>2
    <3>2. Live = Taken \cup {top[Owner]} /\ Live' = Taken
      BY <1>5, <2>2, <3>1 DEF Live
    <3>3. QED
      BY <1>11, <3>2
  <2>3. QED
    BY <1>3, <2>1, <2>2
<1>13. Deque!Slot(top[Owner]) \in Deque!Slots
  BY <1>1, DequeSlots
<1>14. /\ dData'[Deque!Slot(top[Owner])] = Nothing /\ extracted'[Deque!Slot(top[Owner])] = TRUE
       /\ \A s \in Deque!Slots : s # Deque!Slot(top[Owner]) => dData'[s] = dData[s]
       /\ \A s \in Deque!Slots : s # Deque!Slot(top[Owner]) => extracted'[s] = extracted[s]
       /\ dData' \in [Deque!Slots -> (1 .. DequeItems) \cup {Nothing}] /\ extracted' \in [Deque!Slots -> BOOLEAN]
  BY <1>1, <1>3, <1>13 DEF DequeTypes
<1>15. SlotsTell(Live \ {top[Owner]}, Going \cup {top[Owner]}, High, dData', extracted)
  BY <1>1, <1>11, <1>14, TellTake
<1>16. top[Owner] \in Going \cup {top[Owner]} /\ top[Owner] \notin Live \ {top[Owner]}
       /\ (Going \cup {top[Owner]}) \ {top[Owner]} = Going
  BY <1>11
<1>17. SlotsTell(Live \ {top[Owner]}, (Going \cup {top[Owner]}) \ {top[Owner]}, High, dData', extracted')
  BY <1>1, <1>14, <1>15, <1>16, TellFree
<1>18. SlotsTell(Live', Going, High, dData', extracted')
  BY <1>12, <1>16, <1>17
<1>19. ASSUME NEW i \in Live' \cup Going PROVE i < High' /\ High' <= i + Capacity
  <2>1. i \in Nat /\ i < High /\ High <= i + Capacity /\ Capacity \in Nat
    BY <1>18, <1>19, DequeSlots DEF SlotsTell
  <2>2. i # top[Owner]
    BY <1>11, <1>12, <1>19
  <2>3. QED
    BY <1>1, <1>7, <1>8, <2>1, <2>2
<1>20. SlotsTell(Live, Going, High, dData, extracted)'
  BY <1>5, <1>18, <1>19 DEF SlotsTell, Deque!Slots, Deque!Slot
<1>21. OwnerAt'
  <2>1. High <= pushed /\ pushed <= DequeItems /\ count <= MaxBulk /\ dHead <= High
    BY <1>1 DEF OwnerAt
  <2>2. High' <= pushed /\ dHead <= High' /\ (l = "popRestore" => dHead = top[Owner] + 1)
    BY <1>1, <1>2, <1>3, <1>6, <1>7, <1>8, <1>9, <2>1
  <2>3. l \in {"idle", "popRestore"}
    BY <1>2
  <2>4. QED
    BY <1>5, <1>6, <1>7, <2>1, <2>2, <2>3 DEF OwnerAt, Owning, Reserved
<1>22. ASSUME NEW t \in Consumers, dPc[t] = "stealCas", top[t] = dHead' PROVE dHead' < Deque!EndIndex'
  <2>1. dHead < Deque!EndIndex
    BY <1>1, <1>6, <1>22 DEF ThiefAt
  <2>2. Deque!EndIndex = IF dPc[Owner] = "popTake" THEN top[Owner] ELSE top[Owner] + 1
    BY <1>3, <1>7 DEF Deque!EndIndex
  <2>3. Deque!EndIndex' = IF l = "popRestore" THEN top[Owner] + 1 ELSE top[Owner]
    BY <1>2, <1>5, <1>6, <1>7 DEF Deque!EndIndex
  <2>4. QED
    BY <1>2, <1>3, <1>6, <2>1, <2>2, <2>3
<1>23. dHead' \in Nat /\ dTail' \in Nat /\ count' \in Nat /\ pushed' \in Nat /\ dHead <= dHead' /\ l # "popTakeLast"
  BY <1>1, <1>2, <1>6
<1>24. QED
  BY <1>1, <1>4, <1>14, <1>20, <1>21, <1>22, <1>23, OwnerWorks

-----------------------------------------------------------------------------
\* In the constructor's deque nothing is live and no call is open.
LEMMA InitDeque == Deque!Init => DequeInv
<1>1. SUFFICES ASSUME Deque!Init PROVE DequeInv
  OBVIOUS
<1>2. Owner \in Deque!Procs /\ \A t \in Consumers : t \in Deque!Procs
  BY OwnerApart
<1>3. /\ dHead = 0 /\ dTail = 0 /\ dData = [s \in Deque!Slots |-> Nothing] /\ extracted = [s \in Deque!Slots |-> TRUE]
      /\ dPc = [p \in Deque!Procs |-> "idle"] /\ top = [p \in Deque!Procs |-> 0] /\ count = 0 /\ pushed = 0
  BY <1>1 DEF Deque!Init
<1>4. dPc[Owner] = "idle" /\ \A t \in Consumers : dPc[t] = "idle"
  BY <1>2, <1>3
<1>5. High = 0
  BY <1>3, <1>4 DEF High, Reserved
<1>6. Live = {} /\ Going = {}
  BY <1>3, <1>4, <1>5 DEF Live, Taken, Going
<1>7. DequeTypes
  <2>1. dData \in [Deque!Slots -> (1 .. DequeItems) \cup {Nothing}] /\ extracted \in [Deque!Slots -> BOOLEAN]
    BY <1>3
  <2>2. dPc \in [Deque!Procs -> Owning \cup Stealing]
    BY <1>3 DEF Owning
  <2>3. top \in [Deque!Procs -> Nat]
    BY <1>3
  <2>4. QED
    BY <1>3, <2>1, <2>2, <2>3 DEF DequeTypes
<1>8. OwnerAt
  BY <1>3, <1>4, <1>5, LibraryAssumption DEF OwnerAt, Owning, Reserved
<1>9. Apart /\ \A t \in Consumers : ThiefAt(t)
  BY <1>4 DEF Apart, ThiefAt
<1>10. SlotsTell(Live, Going, High, dData, extracted)
  BY <1>3, <1>6 DEF SlotsTell
<1>11. QED
  BY <1>7, <1>8, <1>9, <1>10 DEF DequeInv

\* Every step of the library keeps the invariant of the deque.
LEMMA NextDeque == DequeInv /\ [Next]_vars => DequeInv'
<1>1. SUFFICES ASSUME DequeInv, [Next]_vars PROVE DequeInv'
  OBVIOUS
<1>2. CASE UNCHANGED dequeVars
  <2>1. /\ dHead' = dHead /\ dTail' = dTail /\ dData' = dData /\ extracted' = extracted /\ dPc' = dPc
        /\ top' = top /\ count' = count /\ pushed' = pushed
    BY <1>2 DEF dequeVars
  <2>2. Taken' = Taken /\ Going' = Going /\ High' = High /\ Deque!EndIndex' = Deque!EndIndex
    BY <2>1 DEF Taken, Going, High, Deque!EndIndex
  <2>3. Live' = Live
    BY <2>1, <2>2 DEF Live
  <2>4. DequeTypes' /\ OwnerAt' /\ Apart'
    BY <1>1, <2>1, <2>2 DEF DequeInv, DequeTypes, OwnerAt, Apart, Deque!Slots, Deque!Procs
  <2>5. \A t \in Consumers : ThiefAt(t)'
    BY <1>1, <2>1, <2>2 DEF DequeInv, ThiefAt
  <2>6. SlotsTell(Live, Going, High, dData, extracted)'
    BY <1>1, <2>1, <2>2, <2>3 DEF DequeInv, SlotsTell, Deque!Slots, Deque!Slot
  <2>7. QED
    BY <2>4, <2>5, <2>6 DEF DequeInv
<1>3. CASE Deque!Next
  <2>1. ASSUME NEW n \in 1 .. MaxBulk, Deque!PushBegin(n) PROVE DequeInv'
    BY <1>1, <2>1, PushBeginKeeps
  <2>2. CASE Deque!PopReserve
    BY <1>1, <2>2, PopReserveKeeps
  <2>3. CASE Deque!PushStep
    BY <1>1, <2>3, DequeConstructKeeps, DequePublishKeeps DEF Deque!PushStep
  <2>4. CASE Deque!PopStep
    <3>1. CASE Deque!PopLoadHead
      BY <1>1, <3>1, PopLookKeeps
    <3>2. CASE Deque!PopCas
      <4>1. CASE dHead = top[Owner]
        BY <1>1, <3>2, <4>1, PopCasKeeps
      <4>2. CASE dHead # top[Owner]
        BY <1>1, <3>2, <4>2, PopLookKeeps
      <4>3. QED
        BY <4>1, <4>2
    <3>3. CASE Deque!PopTake
      BY <1>1, <3>3, PopTakeKeeps
    <3>4. CASE Deque!PopRestore
      BY <1>1, <3>4, PopRestoreKeeps
    <3>5. QED
      BY <2>4, <3>1, <3>2, <3>3, <3>4 DEF Deque!PopStep
  <2>5. ASSUME NEW t \in Consumers, Deque!StealLoadHead(t) \/ Deque!StealStep(t) PROVE DequeInv'
    <3>1. CASE Deque!StealLoadHead(t) \/ Deque!StealLoadTail(t)
      BY <1>1, <3>1, StealMoveKeeps
    <3>2. CASE Deque!StealCas(t)
      <4>1. CASE dHead = top[t]
        BY <1>1, <3>2, <4>1, StealCasKeeps
      <4>2. CASE dHead # top[t]
        BY <1>1, <3>2, <4>2, StealMoveKeeps
      <4>3. QED
        BY <4>1, <4>2
    <3>3. CASE Deque!StealTake(t)
      BY <1>1, <3>3, StealTakeKeeps
    <3>4. CASE Deque!StealFree(t)
      BY <1>1, <3>4, StealFreeKeeps
    <3>5. QED
      BY <2>5, <3>1, <3>2, <3>3, <3>4 DEF Deque!StealStep
  <2>6. QED
    BY <1>3, <2>1, <2>2, <2>3, <2>4, <2>5 DEF Deque!Next
<1>4. QED
  BY <1>1, <1>2, <1>3 DEF Next, Others, vars

\* The indices in use are those of the module, under other names.
LEMMA InUse == DequeInv => Deque!LiveIndices = Live /\ Deque!FreeingIndices = Going
<1>1. SUFFICES ASSUME DequeInv PROVE Deque!LiveIndices = Live /\ Deque!FreeingIndices = Going
  OBVIOUS
<1>2. /\ OwnerAt /\ dHead \in Nat /\ dTail \in Nat /\ High \in Nat /\ top[Owner] \in Nat
      /\ dPc[Owner] \in Owning /\ \A t \in Consumers : ThiefAt(t)
  BY <1>1, DequeFacts
<1>3. Owner \in Deque!Procs /\ \A p : p \in Deque!Procs <=> p \in Consumers \/ p = Owner
  BY OwnerApart DEF Deque!Procs
<1>4. /\ \A t \in Consumers : Deque!Claims(t) <=> dPc[t] = "stealTake"
      /\ Deque!Claims(Owner) <=> dPc[Owner] \in {"popTake", "popTakeLast"}
  BY <1>2 DEF Deque!Claims, ThiefAt, Stealing, Owning, Reserved
<1>5. {top[p] : p \in {q \in Deque!Procs : Deque!Claims(q)}}
        = Taken \cup (IF dPc[Owner] \in {"popTake", "popTakeLast"} THEN {top[Owner]} ELSE {})
  BY <1>3, <1>4 DEF Taken
<1>6. (dHead .. Deque!EndIndex - 1) \cup (IF dPc[Owner] = "construct" THEN dTail .. top[Owner] - 1 ELSE {})
        \cup (IF dPc[Owner] = "popTake" THEN {top[Owner]} ELSE {})
        = dHead .. High - 1
  <2>1. CASE dPc[Owner] = "construct"
    <3>1. dHead <= dTail /\ dTail <= top[Owner]
      BY <1>2, <2>1 DEF OwnerAt
    <3>2. Deque!EndIndex = dTail /\ High = top[Owner]
      BY <2>1 DEF Deque!EndIndex, High, Reserved
    <3>3. QED
      BY <1>2, <2>1, <3>1, <3>2
  <2>2. CASE dPc[Owner] = "popTake"
    <3>1. dTail = top[Owner] /\ dHead <= top[Owner]
      BY <1>2, <2>2 DEF OwnerAt, Reserved
    <3>2. Deque!EndIndex = top[Owner] /\ High = top[Owner] + 1
      BY <2>2, <3>1 DEF Deque!EndIndex, High, Reserved
    <3>3. QED
      BY <1>2, <2>2, <3>1, <3>2
  <2>3. CASE dPc[Owner] \notin {"construct", "popTake"}
    <3>1. Deque!EndIndex = High
      BY <1>2, <2>3 DEF Deque!EndIndex, High, Owning, Reserved
    <3>2. QED
      BY <2>3, <3>1
  <2>4. QED
    BY <2>1, <2>2, <2>3
<1>7. Deque!LiveIndices = Live
  BY <1>5, <1>6 DEF Deque!LiveIndices, Live
<1>8. Deque!FreeingIndices = Going
  BY DEF Deque!FreeingIndices, Going
<1>9. QED
  BY <1>7, <1>8

\* What the deque promises of its slots follows from the invariant.
LEMMA DequeExclusive == DequeInv => Deque!SlotsAccounted /\ Deque!PopFailsOnlyWhenEmpty
<1>1. SUFFICES ASSUME DequeInv PROVE Deque!SlotsAccounted /\ Deque!PopFailsOnlyWhenEmpty
  OBVIOUS
<1>2. Deque!LiveIndices = Live /\ Deque!FreeingIndices = Going
  BY <1>1, InUse
<1>3. DequeTypes /\ OwnerAt /\ High \in Nat /\ SlotsTell(Live, Going, High, dData, extracted)
  BY <1>1, DequeFacts
<1>4. \A i, j \in Live \cup Going : Deque!Slot(i) = Deque!Slot(j) => i = j
  BY <1>3, TellApart
<1>5. ASSUME NEW s \in Deque!Slots
      PROVE  /\ (dData[s] # Nothing) <=> \E i \in Live : Deque!Slot(i) = s
             /\ extracted[s] <=> \A i \in Live \cup Going : Deque!Slot(i) # s
  <2>1. extracted[s] \in BOOLEAN
    BY <1>3 DEF DequeTypes
  <2>2. /\ (dData[s] # Nothing) <=> \E i \in Live : Deque!Slot(i) = s
        /\ extracted[s] = TRUE <=> \A i \in Live \cup Going : Deque!Slot(i) # s
    BY <1>3 DEF SlotsTell
  <2>3. QED
    BY <2>1, <2>2
<1>6. Deque!SlotsAccounted
  BY <1>2, <1>4, <1>5 DEF Deque!SlotsAccounted
<1>7. Deque!PopFailsOnlyWhenEmpty
  BY <1>3 DEF OwnerAt, Deque!PopFailsOnlyWhenEmpty, Deque!EndIndex
<1>8. QED
  BY <1>6, <1>7

\* The local indices of the processes are indices of items, those too that are left over
\* from an earlier call.
TopBound == \A p \in Deque!Procs : top[p] <= DequeItems

\* Every step keeps a register within the number of items sent.
LEMMA NextTop == DequeInv /\ DequeInv' /\ TopBound /\ [Next]_vars => TopBound'
<1>1. SUFFICES ASSUME DequeInv, DequeInv', TopBound, [Next]_vars, NEW p \in Deque!Procs PROVE top'[p] <= DequeItems
  BY DEF TopBound, Deque!Procs
<1>2. /\ top \in [Deque!Procs -> Nat] /\ top' \in [Deque!Procs -> Nat] /\ dPc \in [Deque!Procs -> Owning \cup Stealing]
      /\ dHead' \in Nat /\ dTail \in Nat /\ High' \in Nat /\ dHead' <= High' /\ High' <= pushed' /\ pushed' <= DequeItems
      /\ pushed' \in Nat /\ DequeItems \in Nat
  <2>1. /\ dHead \in Nat /\ top \in [Deque!Procs -> Nat] /\ dTail \in Nat
        /\ dPc \in [Deque!Procs -> Owning \cup Stealing]
    BY <1>1 DEF DequeInv, DequeTypes
  <2>2. /\ dHead' \in Nat /\ dTail' \in Nat /\ pushed' \in Nat /\ top' \in [Deque!Procs -> Nat]
        /\ dHead' <= High' /\ High' <= pushed' /\ pushed' <= DequeItems
    BY <1>1 DEF DequeInv, DequeTypes, OwnerAt, Deque!Procs
  <2>3. High' \in Nat
    BY <2>2, OwnerApart DEF High, Deque!Procs
  <2>4. QED
    BY <2>1, <2>2, <2>3, LibraryAssumption
<1>3. CASE dPc'[p] # "idle"
  <2>1. CASE p = Owner
    <3>1. dPc'[Owner] \in Owning
      BY <1>1 DEF DequeInv, OwnerAt
    <3>2. top'[Owner] <= High'
      BY <1>2, <1>3, <2>1, <3>1 DEF High, Owning
    <3>3. QED
      BY <1>2, <2>1, <3>2
  <2>2. CASE p \in Consumers
    <3>1. top'[p] <= dHead'
      BY <1>1, <1>3, <2>2 DEF DequeInv, ThiefAt
    <3>2. QED
      BY <1>2, <3>1
  <2>3. QED
    BY <2>1, <2>2 DEF Deque!Procs
<1>4. CASE dPc'[p] = "idle"
  <2>1. top[p] <= DequeItems
    BY <1>1 DEF TopBound
  <2>2. CASE UNCHANGED top
    BY <2>1, <2>2
  <2>3. ASSUME NEW q \in Deque!Procs, NEW i, NEW l, top' = [top EXCEPT ![q] = i], dPc' = [dPc EXCEPT ![q] = l], l # "idle"
        PROVE  top'[p] <= DequeItems
    BY <1>2, <1>4, <2>1, <2>3
  <2>4. ASSUME NEW n \in 1 .. MaxBulk, Deque!PushBegin(n) PROVE top'[p] <= DequeItems
    <3>1. top' = [top EXCEPT ![Owner] = dTail] /\ dPc' = [dPc EXCEPT ![Owner] = "construct"]
      BY <2>4 DEF Deque!PushBegin, Deque!Goto, Deque!SetTop
    <3>2. QED
      BY <2>3, <3>1, OwnerApart
  <2>5. CASE Deque!PopReserve
    <3>1. top' = [top EXCEPT ![Owner] = dTail - 1] /\ dPc' = [dPc EXCEPT ![Owner] = "popLoadHead"]
      BY <2>5 DEF Deque!PopReserve, Deque!Goto, Deque!SetTop
    <3>2. QED
      BY <2>3, <3>1, OwnerApart
  <2>6. CASE Deque!PushConstruct
    <3>1. /\ top' = [top EXCEPT ![Owner] = top[Owner] + 1] /\ dPc[Owner] = "construct"
          /\ dPc' = [dPc EXCEPT ![Owner] = "construct"]
      BY <1>2, <2>6 DEF Deque!PushConstruct, Deque!SetTop
    <3>2. QED
      BY <2>3, <3>1, OwnerApart
  <2>7. ASSUME NEW t \in Consumers, Deque!StealLoadHead(t) PROVE top'[p] <= DequeItems
    <3>1. top' = [top EXCEPT ![t] = dHead] /\ dPc' = [dPc EXCEPT ![t] = "stealLoadTail"]
      BY <2>7 DEF Deque!StealLoadHead, Deque!Goto, Deque!SetTop
    <3>2. QED
      BY <2>3, <3>1, OwnerApart
  <2>8. CASE Deque!PushPublish \/ Deque!PopStep \/ \E t \in Consumers : Deque!StealStep(t)
    <3>1. UNCHANGED top
      BY <2>8 DEF Deque!PushPublish, Deque!PopStep, Deque!PopLoadHead, Deque!PopCas, Deque!PopTake, Deque!PopRestore,
                  Deque!StealStep, Deque!StealLoadTail, Deque!StealCas, Deque!StealTake, Deque!StealFree
    <3>2. QED
      BY <2>2, <3>1
  <2>9. Deque!Next => top'[p] <= DequeItems
    BY <2>4, <2>5, <2>6, <2>7, <2>8 DEF Deque!Next, Deque!PushStep
  <2>10. Deque!Next \/ UNCHANGED top
    BY <1>1 DEF Next, Others, vars, dequeVars
  <2>11. QED
    BY <2>2, <2>9, <2>10
<1>5. QED
  BY <1>3, <1>4

\* The values of the deque stay in their ranges.
LEMMA DequeTyped == DequeInv /\ TopBound => Deque!TypeOK
<1>1. SUFFICES ASSUME DequeInv, TopBound PROVE Deque!TypeOK
  OBVIOUS
<1>2. /\ DequeTypes /\ OwnerAt /\ dHead \in Nat /\ dTail \in Nat /\ High \in Nat /\ dHead <= High /\ High <= DequeItems
      /\ Deque!EndIndex \in Nat /\ dTail <= Deque!EndIndex /\ Deque!EndIndex <= High
  BY <1>1, DequeFacts
<1>3. DequeItems \in Nat /\ MaxBulk \in Nat
  BY LibraryAssumption
<1>4. dHead \in 0 .. DequeItems /\ dTail \in 0 .. DequeItems
  BY <1>2, <1>3
<1>5. top \in [Deque!Procs -> 0 .. DequeItems]
  BY <1>1, <1>2, <1>3 DEF DequeTypes, TopBound
<1>6. count \in 0 .. MaxBulk /\ pushed \in 0 .. DequeItems
  BY <1>2, <1>3 DEF DequeTypes, OwnerAt
<1>7. Owning \cup Stealing = {"idle", "construct", "popLoadHead", "popCas", "popTake",
                              "popTakeLast", "popRestore", "stealLoadTail",
                              "stealCas", "stealTake", "stealFree"}
  BY DEF Owning, Stealing, Reserved
<1>8. dPc \in [Deque!Procs -> {"idle", "construct", "popLoadHead", "popCas", "popTake",
                               "popTakeLast", "popRestore", "stealLoadTail",
                               "stealCas", "stealTake", "stealFree"}]
  BY <1>2, <1>7 DEF DequeTypes
<1>9. QED
  BY <1>2, <1>4, <1>5, <1>6, <1>8 DEF Deque!TypeOK, DequeTypes, Deque!Item

\* WorkStealingDeque.h push, pop, steal: two live items never share a slot, nobody moves
\* out of raw memory or constructs over an object, and is_extracted tells the owner the
\* truth, although the owner may reuse a slot that a thief is still emptying.
THEOREM DequeSlotsHold == Spec => [](Deque!TypeOK /\ Deque!SlotsAccounted)
<1>1. Init => DequeInv /\ TopBound
  <2>1. SUFFICES ASSUME Init PROVE DequeInv /\ TopBound
    OBVIOUS
  <2>2. Deque!Init
    BY <2>1 DEF Init
  <2>3. TopBound
    BY <2>2, LibraryAssumption DEF Deque!Init, TopBound
  <2>4. QED
    BY <2>2, <2>3, InitDeque
<1>2. DequeInv /\ TopBound /\ [Next]_vars => (DequeInv /\ TopBound)'
  BY NextDeque, NextTop
<1>3. DequeInv /\ TopBound => Deque!TypeOK /\ Deque!SlotsAccounted
  BY DequeExclusive, DequeTyped
<1>4. QED
  BY <1>1, <1>2, <1>3, PTL DEF Spec

\* WorkStealingDeque.h pop, ArrayMpmcQueue.h enqueue, dequeue: a call that gives up has a
\* reason: the deque is empty, the first entry is missing or unpublished, an index of the
\* lap before is still in use.
THEOREM GiveUpForAReasonHolds == Capacity # 1 => (Spec => GiveUpForAReason)
<1>1. Init => DequeInv
  BY InitDeque DEF Init
<1>2. Spec => []Deque!PopFailsOnlyWhenEmpty
  BY <1>1, NextDeque, DequeExclusive, PTL DEF Spec
<1>3. QED
  BY <1>2, EmptyMeansUnpublishedHolds, FullMeansLapOutstandingHolds DEF GiveUpForAReason
-----------------------------------------------------------------------------
(***************************************************************************)
(* The ranges of the mpsc queue's variables.                               *)
(***************************************************************************)
\* A process outside a call holds no index.
StripIdle == \A p \in Mpsc!Procs : sPc[p] = "idle" => sPos[p] = 0

\* A process is given label l and index i.
LEMMA IdleSet ==
  ASSUME StripTypes, StripIdle, NEW p \in Mpsc!Procs, NEW l, NEW i, l = "idle" => i = 0,
         sPc' = [sPc EXCEPT ![p] = l], sPos' = [sPos EXCEPT ![p] = i]
  PROVE  StripIdle'
<1>1. \A q \in Mpsc!Procs : /\ sPc'[q] = IF q = p THEN l ELSE sPc[q]
                            /\ sPos'[q] = IF q = p THEN i ELSE sPos[q]
  BY DEF StripTypes
<1>2. QED
  BY <1>1 DEF StripIdle, Mpsc!Procs

\* Only a call that returns ends in the label "idle", and then its index is gone.
LEMMA NextIdle == StripTypes /\ StripIdle /\ [Next]_vars => StripIdle'
<1>1. SUFFICES ASSUME StripTypes, StripIdle, [Next]_vars PROVE StripIdle'
  OBVIOUS
<1>2. CASE UNCHANGED mpscVars
  BY <1>1, <1>2 DEF mpscVars, StripIdle, Mpsc!Procs
<1>3. ASSUME NEW p \in Mpsc!Procs, NEW l, l # "idle", sPc' = [sPc EXCEPT ![p] = l], sPos' = sPos
      PROVE  StripIdle'
  <2>1. \A q \in Mpsc!Procs : sPc'[q] = (IF q = p THEN l ELSE sPc[q]) /\ sPos'[q] = sPos[q]
    BY <1>1, <1>3 DEF StripTypes
  <2>2. QED
    BY <1>1, <1>3, <2>1 DEF StripIdle, Mpsc!Procs
<1>4. CASE Mpsc!Next
  <2>1. ASSUME NEW p \in Producers, (\E n \in 1 .. MaxBulk : Mpsc!PushLoadTail(p, n)) \/ Mpsc!PushStep(p)
        PROVE  StripIdle'
    <3>1. p \in Mpsc!Procs
      BY ConsumerPops DEF Mpsc!Procs
    <3>2. CASE \E n \in 1 .. MaxBulk : Mpsc!PushLoadTail(p, n)
      BY <1>1, <3>1, <3>2, IdleSet DEF Mpsc!PushLoadTail, Mpsc!Goto
    <3>3. CASE Mpsc!PushLoadHead(p)
      BY <1>1, <1>3, <3>1, <3>3 DEF Mpsc!PushLoadHead, Mpsc!Compare, Mpsc!Goto
    <3>4. CASE Mpsc!PushReloadHead(p)
      <4>1. CASE Mpsc!Return(p)
        BY <1>1, <3>1, <4>1, IdleSet DEF Mpsc!Return, Mpsc!Goto
      <4>2. CASE Mpsc!Goto(p, "cas") /\ sPos' = sPos
        BY <1>1, <1>3, <3>1, <4>2 DEF Mpsc!Goto
      <4>3. QED
        BY <3>4, <4>1, <4>2 DEF Mpsc!PushReloadHead
    <3>5. CASE Mpsc!PushCas(p)
      <4>1. CASE Mpsc!Goto(p, "construct") /\ sPos' = sPos
        BY <1>1, <1>3, <3>1, <4>1 DEF Mpsc!Goto
      <4>2. CASE sPos' = [sPos EXCEPT ![p] = sTail] /\ Mpsc!Compare(p, sTail, seen[p])
        <5>1. PICK l : l = IF Mpsc!Available(sTail, seen[p]) < left[p] THEN "reloadHead" ELSE "cas"
          OBVIOUS
        <5>2. l # "idle" /\ sPc' = [sPc EXCEPT ![p] = l]
          BY <4>2, <5>1 DEF Mpsc!Compare, Mpsc!Goto
        <5>3. QED
          BY <1>1, <3>1, <4>2, <5>2, IdleSet
      <4>3. QED
        BY <3>5, <4>1, <4>2 DEF Mpsc!PushCas
    <3>6. CASE Mpsc!PushConstruct(p)
      BY <1>1, <1>3, <3>1, <3>6 DEF Mpsc!PushConstruct, Mpsc!Goto
    <3>7. CASE Mpsc!PushPublish(p)
      <4>1. CASE Mpsc!Return(p)
        BY <1>1, <3>1, <4>1, IdleSet DEF Mpsc!Return, Mpsc!Goto
      <4>2. CASE Mpsc!Goto(p, "construct") /\ sPos' = [sPos EXCEPT ![p] = @ + 1]
        BY <1>1, <3>1, <4>2, IdleSet DEF Mpsc!Goto
      <4>3. QED
        BY <3>7, <4>1, <4>2 DEF Mpsc!PushPublish
    <3>8. QED
      BY <2>1, <3>2, <3>3, <3>4, <3>5, <3>6, <3>7 DEF Mpsc!PushStep
  <2>2. CASE \E n \in 1 .. MaxBulk : Mpsc!PopBegin(n)
    BY <1>1, <2>2, ConsumerPops, IdleSet DEF Mpsc!PopBegin, Mpsc!Goto
  <2>3. CASE Mpsc!PopCheck \/ Mpsc!PopMoveOut
    BY <1>1, <1>3, <2>3, ConsumerPops DEF Mpsc!PopCheck, Mpsc!PopMoveOut, Mpsc!Goto
  <2>4. CASE Mpsc!PopRelease
    BY <1>1, <2>4, ConsumerPops, IdleSet DEF Mpsc!PopRelease, Mpsc!Goto
  <2>5. CASE Mpsc!PopAdvance
    BY <1>1, <2>5, ConsumerPops, IdleSet DEF Mpsc!PopAdvance, Mpsc!Return, Mpsc!Goto
  <2>6. QED
    BY <1>4, <2>1, <2>2, <2>3, <2>4, <2>5, Zenon DEF Mpsc!Next, Mpsc!PopStep
<1>5. QED
  BY <1>1, <1>2, <1>4 DEF Next, Others, vars

\* The instances count as this module does.
LEMMA InstancesCount == /\ Mpsc!Cardinality(Producers) = Cardinality(Producers)
                        /\ Mpmc!Cardinality(Producers) = Cardinality(Producers)
BY DEF Mpsc!Cardinality, Mpmc!Cardinality, Cardinality

\* The values of the mpsc queue stay in their ranges.
LEMMA StripTyped == StripInv /\ StripIdle => Mpsc!TypeOK
<1>1. SUFFICES ASSUME StripInv, StripIdle PROVE Mpsc!TypeOK
  OBVIOUS
<1>2. StripTypes /\ sTail <= Mpsc!MaxIndex
  <2>1. StripTypes
    BY <1>1 DEF StripInv
  <2>2. sTail <= MpscItems * Cardinality(Producers)
    BY <1>1, StripBound
  <2>3. QED
    BY <2>1, <2>2, InstancesCount DEF Mpsc!MaxIndex
<1>3. Mpsc!MaxIndex \in Nat
  <2>1. MpscItems \in Nat /\ Cardinality(Producers) \in Nat
    BY LibraryAssumption, FS_CardinalityType
  <2>2. MpscItems * Cardinality(Producers) \in Nat
    BY <2>1, Product, Zenon
  <2>3. QED
    BY <2>2, InstancesCount DEF Mpsc!MaxIndex
<1>4. ASSUME NEW p \in Mpsc!Procs PROVE sPos[p] <= sTail
  <2>1. sPos[p] \in Nat /\ left[p] \in Nat /\ sTail \in Nat
    BY <1>2, LibraryAssumption DEF StripTypes
  <2>2. CASE p = Consumer
    <3>1. sPc[p] # "idle" => sPos[p] = Front
      BY <2>2 DEF Front
    <3>2. QED
      BY <1>1, <2>1, <3>1 DEF StripInv, Emptying, StripIdle
  <2>3. CASE p \in Producers
    <3>1. Pushing(p)
      BY <1>1, <2>3 DEF StripInv
    <3>2. CASE sPc[p] = "idle"
      BY <1>1, <2>1, <3>2 DEF StripIdle
    <3>3. CASE sPc[p] \in Deciding
      BY <3>1, <3>3 DEF Pushing
    <3>4. CASE sPc[p] \in Filling
      <4>1. left[p] > 0 /\ sPos[p] \in Mpsc!Won(p)
        BY <2>1, <3>1, <3>4 DEF Pushing, Filling, Mpsc!Won
      <4>2. sPos[p] < sTail
        BY <1>1, <2>3, <4>1 DEF StripInv, Claimed
      <4>3. QED
        BY <2>1, <4>2
    <3>5. QED
      BY <3>1, <3>2, <3>3, <3>4 DEF Pushing
  <2>4. QED
    BY <2>2, <2>3 DEF Mpsc!Procs
<1>5. sPos \in [Mpsc!Procs -> 0 .. Mpsc!MaxIndex]
  <2>1. sPos \in [Mpsc!Procs -> Nat] /\ sTail \in Nat
    BY <1>2 DEF StripTypes
  <2>2. QED
    BY <1>2, <1>3, <1>4, <2>1
<1>6. seen \in [Producers -> 0 .. Mpsc!MaxIndex]
  <2>1. seen \in [Producers -> Nat] /\ sHead \in Nat /\ sTail \in Nat /\ sHead <= sTail
    BY <1>2 DEF StripTypes
  <2>2. \A p \in Producers : seen[p] <= sHead
    BY <1>1 DEF StripInv, Pushing
  <2>3. QED
    BY <1>2, <1>3, <2>1, <2>2
<1>7. sHead \in 0 .. Mpsc!MaxIndex /\ sTail \in sHead .. Mpsc!MaxIndex
  BY <1>2, <1>3 DEF StripTypes
<1>8. {"idle"} \cup Deciding \cup Filling \cup Popping
        = {"idle", "loadHead", "reloadHead", "cas", "construct",
           "publish", "check", "moveOut", "release", "advance"}
  BY DEF Deciding, Filling, Popping
<1>9. QED
  BY <1>2, <1>5, <1>6, <1>7, <1>8 DEF Mpsc!TypeOK, StripTypes, Mpsc!Item
-----------------------------------------------------------------------------
(***************************************************************************)
(* The ranges of the mpmc queue's variables.                               *)
(***************************************************************************)
\* The items that each producer has constructed or won a place for.
Promised == [p \in Producers |-> IF mPc[p] = "construct" THEN mSent[p] + found[p]
                                 ELSE IF mPc[p] = "publish" THEN mSent[p] + found[p] - 1
                                 ELSE mSent[p]]

\* A call finds no more than it asked for.
WithinCall(p) ==
  /\ found[p] <= want[p] /\ want[p] <= MaxBulk
  /\ mPc[p] = "idle" => mPos[p] = 0
  /\ mPc[p] = "probeItem" => found[p] < want[p]

\* A producer asks for places for the items it still has.
WithinItems(p) ==
  /\ Promised[p] <= MpmcItems
  /\ mPc[p] \in Enqueueing => mSent[p] + want[p] <= MpmcItems

RingRange ==
  /\ \A p \in Mpmc!Procs : WithinCall(p)
  /\ \A p \in Producers : WithinItems(p)
  /\ \A s \in Mpmc!Slots : sequence[s] <= mTail + Capacity
  /\ mData \in [Mpmc!Slots -> (Producers \X (1 .. MpmcItems)) \cup {Nothing}]
  /\ mTail = Cardinality(Sends(Promised, MpmcItems))

\* What holds of the processes that do not move goes on holding.
LEMMA RangeFrame ==
  ASSUME RingRange, NEW p \in Mpmc!Procs, Stay(p), WithinCall(p)',
         \A q \in Producers : q # p => mSent'[q] = mSent[q],
         p \in Producers => WithinItems(p)'
  PROVE  /\ \A q \in Mpmc!Procs : WithinCall(q)'
         /\ \A q \in Producers : WithinItems(q)'
<1>1. ASSUME NEW q \in Mpmc!Procs PROVE WithinCall(q)'
  BY DEF RingRange, Stay, WithinCall
<1>2. ASSUME NEW q \in Producers PROVE WithinItems(q)'
  <2>1. CASE q = p
    BY <2>1
  <2>2. CASE q # p
    <3>1. q \in Mpmc!Procs
      BY DEF Mpmc!Procs
    <3>2. mPc'[q] = mPc[q] /\ found'[q] = found[q] /\ want'[q] = want[q] /\ mSent'[q] = mSent[q]
      BY <2>2, <3>1 DEF Stay
    <3>3. Promised'[q] = Promised[q]
      BY <3>2 DEF Promised
    <3>4. QED
      BY <3>2, <3>3 DEF RingRange, WithinItems
  <2>3. QED
    BY <2>1, <2>2
<1>3. QED
  BY <1>1, <1>2

\* A step by which p gets no place and constructs nothing changes no promise.
LEMMA PromisedStays ==
  ASSUME NEW p \in Mpmc!Procs, Stay(p),
         \A q \in Producers : q # p => mSent'[q] = mSent[q],
         p \in Producers => Promised'[p] = Promised[p]
  PROVE  Promised' = Promised
<1>1. ASSUME NEW q \in Producers PROVE Promised'[q] = Promised[q]
  <2>1. CASE q = p
    BY <2>1
  <2>2. CASE q # p
    <3>1. q \in Mpmc!Procs
      BY DEF Mpmc!Procs
    <3>2. mPc'[q] = mPc[q] /\ found'[q] = found[q] /\ mSent'[q] = mSent[q]
      BY <2>2, <3>1 DEF Stay
    <3>3. QED
      BY <3>2 DEF Promised
  <2>3. QED
    BY <2>1, <2>2
<1>2. QED
  BY <1>1 DEF Promised

\* A call that works on no slot goes on to another step that works on none.
LEMMA RangeMove ==
  ASSUME RingInv, RingRange, NEW p \in Mpmc!Procs, UNCHANGED ringVars, mPc[p] \notin Working,
         NEW l \in {"idle"} \cup Enqueueing \cup Dequeueing, NEW i \in Nat, NEW n \in Nat, NEW w \in Nat,
         mPc' = [mPc EXCEPT ![p] = l], mPos' = [mPos EXCEPT ![p] = i],
         found' = [found EXCEPT ![p] = n], want' = [want EXCEPT ![p] = w],
         n <= w, w <= MaxBulk, l = "idle" => i = 0, l = "probeItem" => n < w,
         l \in Enqueueing => p \in Producers /\ mSent[p] + w <= MpmcItems
  PROVE  RingRange'
<1>1. UNCHANGED <<mHead, mTail, sequence, mData, mSent>> /\ RingTypes
  BY DEF ringVars, RingInv
<1>2. mPc'[p] = l /\ mPos'[p] = i /\ found'[p] = n /\ want'[p] = w /\ Stay(p)
  BY <1>1 DEF RingTypes, Stay
<1>3. WithinCall(p)'
  BY <1>2 DEF WithinCall
<1>4. p \in Producers => Promised'[p] = Promised[p]
  BY <1>1, <1>2 DEF Promised, Working, Enqueueing, Dequeueing
<1>5. p \in Producers => WithinItems(p)'
  BY <1>1, <1>2, <1>4 DEF RingRange, WithinItems
<1>6. Promised' = Promised
  BY <1>1, <1>2, <1>4, PromisedStays
<1>7. (\A q \in Mpmc!Procs : WithinCall(q)') /\ (\A q \in Producers : WithinItems(q)')
  BY <1>1, <1>2, <1>3, <1>5, RangeFrame
<1>8. QED
  BY <1>1, <1>6, <1>7 DEF RingRange, Sends, Mpmc!Procs, Mpmc!Slots

\* A call returns without having worked on a slot.
LEMMA RangeReturn ==
  ASSUME RingInv, RingRange, NEW p \in Mpmc!Procs, UNCHANGED ringVars, mPc[p] \notin Working, Mpmc!Return(p)
  PROVE  RingRange'
<1>1. PICK l : l = "idle"
  OBVIOUS
<1>2. /\ mPc' = [mPc EXCEPT ![p] = l] /\ mPos' = [mPos EXCEPT ![p] = 0]
      /\ found' = [found EXCEPT ![p] = 0] /\ want' = [want EXCEPT ![p] = 0]
  BY <1>1 DEF Mpmc!Return, Mpmc!ProbeFrom, Mpmc!Goto
<1>3. l \in {"idle"} \cup Enqueueing \cup Dequeueing /\ l \notin Enqueueing /\ l # "probeItem"
  BY <1>1 DEF Enqueueing
<1>4. 0 \in Nat /\ 0 <= 0 /\ 0 <= MaxBulk
  BY LibraryAssumption
<1>5. QED
  BY <1>2, <1>3, <1>4, RangeMove

\* enqueueBulk: probing, looking again, and a CAS that fails.
LEMMA EnqMoveRange ==
  ASSUME RingInv, RingRange, NEW p \in Producers,
         \/ \E n \in 1 .. MaxBulk : Mpmc!EnqBegin(p, n)
         \/ Mpmc!EnqProbe(p) \/ Mpmc!EnqRecheck(p) \/ Mpmc!EnqReload(p)
         \/ Mpmc!EnqCas(p) /\ mTail # mPos[p]
  PROVE  RingRange'
<1>1. p \in Mpmc!Procs /\ RingTypes
  BY DEF Mpmc!Procs, RingInv
<1>2. /\ mPos[p] \in Nat /\ found[p] \in Nat /\ want[p] \in Nat /\ mTail \in Nat /\ mSent[p] \in Nat
      /\ Capacity \in Nat /\ MaxBulk \in Nat
  BY <1>1, LibraryAssumption DEF RingTypes
<1>3. /\ mPos' = mPos => mPos' = [mPos EXCEPT ![p] = mPos[p]]
      /\ want' = want => want' = [want EXCEPT ![p] = want[p]]
      /\ found' = found => found' = [found EXCEPT ![p] = found[p]]
  BY <1>1 DEF RingTypes
<1>4. /\ found[p] <= want[p] /\ want[p] <= MaxBulk
      /\ mPc[p] \in Enqueueing => mSent[p] + want[p] <= MpmcItems
  BY <1>1 DEF RingRange, WithinCall, WithinItems
<1>5. /\ "probeFree" \in Enqueueing /\ "recheckFree" \in Enqueueing
      /\ "reloadTail" \in Enqueueing /\ "casTail" \in Enqueueing
      /\ \A l \in Enqueueing \cup {"idle"} : l \notin Working /\ l # "probeItem"
      /\ "idle" \notin Enqueueing
  BY DEF Enqueueing, Working
<1>6. ASSUME NEW w \in Nat, w <= MaxBulk, mSent[p] + w <= MpmcItems, UNCHANGED ringVars, mPc[p] \notin Working,
             Mpmc!ProbeFrom(p, mTail), Mpmc!Goto(p, "probeFree"), want' = [want EXCEPT ![p] = w]
      PROVE  RingRange'
  <2>1. PICK l : l = "probeFree"
    OBVIOUS
  <2>2. /\ mPc' = [mPc EXCEPT ![p] = l] /\ mPos' = [mPos EXCEPT ![p] = mTail]
        /\ found' = [found EXCEPT ![p] = 0] /\ want' = [want EXCEPT ![p] = w]
    BY <1>6, <2>1 DEF Mpmc!ProbeFrom, Mpmc!Goto
  <2>3. /\ l \in {"idle"} \cup Enqueueing \cup Dequeueing /\ l # "probeItem" /\ l # "idle"
        /\ 0 \in Nat /\ 0 <= w
    BY <1>5, <1>6, <2>1
  <2>4. QED
    BY <1>1, <1>2, <1>6, <2>2, <2>3, RangeMove
<1>7. ASSUME NEW n \in 1 .. MaxBulk, Mpmc!EnqBegin(p, n) PROVE RingRange'
  <2>1. UNCHANGED ringVars /\ mPc[p] \notin Working
    BY <1>5, <1>7 DEF Mpmc!EnqBegin, Mpmc!shared, ringVars
  <2>2. n \in Nat /\ n <= MaxBulk
    BY <1>2
  <2>3. QED
    BY <1>6, <1>7, <2>1, <2>2 DEF Mpmc!EnqBegin
<1>8. CASE Mpmc!EnqProbe(p)
  <2>1. mPc[p] = "probeFree" /\ UNCHANGED <<mPos, want>> /\ UNCHANGED ringVars /\ mPc[p] \notin Working
    BY <1>5, <1>8 DEF Mpmc!EnqProbe, Mpmc!Probe, Mpmc!shared, ringVars
  <2>2. /\ mPos' = [mPos EXCEPT ![p] = mPos[p]] /\ want' = [want EXCEPT ![p] = want[p]]
        /\ mSent[p] + want[p] <= MpmcItems
    BY <1>3, <1>4, <1>5, <2>1
  <2>3. PICK n \in Nat, l \in Enqueueing :
          n <= want[p] /\ found' = [found EXCEPT ![p] = n] /\ mPc' = [mPc EXCEPT ![p] = l]
    <3>1. found[p] < want[p]
      <4>1. InCall(p)
        BY <1>1 DEF RingInv
      <4>2. QED
        BY <1>2, <2>1, <4>1 DEF InCall, Mpmc!Lesser
    <3>2. CASE found' = [found EXCEPT ![p] = @ + 1]
      <4>1. PICK l \in Enqueueing : mPc' = [mPc EXCEPT ![p] = l]
        BY <1>5, <1>8 DEF Mpmc!EnqProbe, Mpmc!Probe, Mpmc!Goto
      <4>2. found[p] + 1 \in Nat /\ found[p] + 1 <= want[p]
        BY <1>2, <3>1
      <4>3. QED
        BY <3>2, <4>1, <4>2
    <3>3. CASE found' = found
      <4>1. PICK l \in Enqueueing : mPc' = [mPc EXCEPT ![p] = l]
        BY <1>5, <1>8 DEF Mpmc!EnqProbe, Mpmc!Probe, Mpmc!Goto
      <4>2. QED
        BY <1>2, <1>3, <1>4, <3>3, <4>1
    <3>4. QED
      BY <1>8, <3>2, <3>3 DEF Mpmc!EnqProbe, Mpmc!Probe
  <2>4. l \in {"idle"} \cup Enqueueing \cup Dequeueing /\ l # "probeItem" /\ l # "idle"
    BY <1>5, <2>3
  <2>5. QED
    BY <1>1, <1>2, <1>4, <2>1, <2>2, <2>3, <2>4, RangeMove
<1>9. CASE Mpmc!EnqRecheck(p)
  <2>1. mPc[p] = "recheckFree" /\ UNCHANGED ringVars /\ mPc[p] \notin Working
    BY <1>5, <1>9 DEF Mpmc!EnqRecheck, Mpmc!shared, ringVars
  <2>2. CASE Mpmc!Return(p)
    BY <1>1, <2>1, <2>2, RangeReturn
  <2>3. CASE mPc' = [mPc EXCEPT ![p] = "reloadTail"] /\ UNCHANGED <<mPos, want, found>>
    <3>1. PICK l \in Enqueueing : l = "reloadTail"
      BY <1>5
    <3>2. /\ mPos' = [mPos EXCEPT ![p] = mPos[p]] /\ want' = [want EXCEPT ![p] = want[p]]
          /\ found' = [found EXCEPT ![p] = found[p]] /\ mSent[p] + want[p] <= MpmcItems
          /\ mPc' = [mPc EXCEPT ![p] = l]
      BY <1>3, <1>4, <1>5, <2>1, <2>3, <3>1
    <3>3. l \in {"idle"} \cup Enqueueing \cup Dequeueing /\ l # "probeItem" /\ l # "idle"
      BY <1>5
    <3>4. QED
      BY <1>1, <1>2, <1>4, <2>1, <3>2, <3>3, RangeMove
  <2>4. QED
    BY <1>9, <2>2, <2>3 DEF Mpmc!EnqRecheck, Mpmc!Goto
<1>10. CASE Mpmc!EnqReload(p)
  <2>1. UNCHANGED ringVars /\ mPc[p] \notin Working /\ mPc[p] \in Enqueueing /\ want' = want
    BY <1>5, <1>10 DEF Mpmc!EnqReload, Mpmc!shared, ringVars
  <2>2. QED
    BY <1>2, <1>3, <1>4, <1>6, <1>10, <2>1 DEF Mpmc!EnqReload
<1>11. CASE Mpmc!EnqCas(p) /\ mTail # mPos[p]
  <2>1. UNCHANGED ringVars /\ mPc[p] \notin Working /\ mPc[p] \in Enqueueing /\ want' = want
    BY <1>5, <1>11 DEF Mpmc!EnqCas, Mpmc!shared, ringVars
  <2>2. QED
    BY <1>2, <1>3, <1>4, <1>6, <1>11, <2>1 DEF Mpmc!EnqCas
<1>12. QED
  BY <1>7, <1>8, <1>9, <1>10, <1>11

\* dequeueBulk: probing, looking again, and a CAS that fails.
LEMMA DeqMoveRange ==
  ASSUME RingInv, RingRange, NEW p \in Consumers,
         \/ \E n \in 1 .. MaxBulk : Mpmc!DeqBegin(p, n)
         \/ Mpmc!DeqProbe(p) \/ Mpmc!DeqRecheck(p) \/ Mpmc!DeqReload(p)
         \/ Mpmc!DeqCas(p) /\ mHead # mPos[p]
  PROVE  RingRange'
<1>1. p \in Mpmc!Procs /\ RingTypes
  BY DEF Mpmc!Procs, RingInv
<1>2. /\ mPos[p] \in Nat /\ found[p] \in Nat /\ want[p] \in Nat /\ mHead \in Nat /\ MaxBulk \in Nat
  BY <1>1, LibraryAssumption DEF RingTypes
<1>3. /\ mPos' = mPos => mPos' = [mPos EXCEPT ![p] = mPos[p]]
      /\ want' = want => want' = [want EXCEPT ![p] = want[p]]
      /\ found' = found => found' = [found EXCEPT ![p] = found[p]]
  BY <1>1 DEF RingTypes
<1>4. /\ found[p] <= want[p] /\ want[p] <= MaxBulk
      /\ mPc[p] = "probeItem" => found[p] < want[p]
      /\ mPc[p] \in Dequeueing => want[p] > 0
  BY <1>1 DEF RingRange, RingInv, WithinCall, InCall
<1>5. /\ "probeItem" \in Dequeueing /\ "recheckItem" \in Dequeueing
      /\ "reloadHead" \in Dequeueing /\ "casHead" \in Dequeueing
      /\ \A l \in Dequeueing \cup {"idle"} : l \notin Working /\ l \notin Enqueueing
      /\ "idle" \notin Dequeueing
  BY DEF Dequeueing, Enqueueing, Working
<1>6. ASSUME NEW w \in Nat, w > 0, w <= MaxBulk, UNCHANGED ringVars, mPc[p] \notin Working,
             Mpmc!ProbeFrom(p, mHead), Mpmc!Goto(p, "probeItem"), want' = [want EXCEPT ![p] = w]
      PROVE  RingRange'
  <2>1. PICK l : l = "probeItem"
    OBVIOUS
  <2>2. /\ mPc' = [mPc EXCEPT ![p] = l] /\ mPos' = [mPos EXCEPT ![p] = mHead]
        /\ found' = [found EXCEPT ![p] = 0] /\ want' = [want EXCEPT ![p] = w]
    BY <1>6, <2>1 DEF Mpmc!ProbeFrom, Mpmc!Goto
  <2>3. /\ l \in {"idle"} \cup Enqueueing \cup Dequeueing /\ l \notin Enqueueing /\ l # "idle"
        /\ 0 \in Nat /\ 0 <= w /\ 0 < w
    BY <1>5, <1>6, <2>1
  <2>4. QED
    BY <1>1, <1>2, <1>6, <2>2, <2>3, RangeMove
<1>7. ASSUME NEW n \in 1 .. MaxBulk, Mpmc!DeqBegin(p, n) PROVE RingRange'
  <2>1. UNCHANGED ringVars /\ mPc[p] \notin Working
    BY <1>5, <1>7 DEF Mpmc!DeqBegin, Mpmc!shared, ringVars
  <2>2. n \in Nat /\ n > 0 /\ n <= MaxBulk
    BY <1>2
  <2>3. QED
    BY <1>6, <1>7, <2>1, <2>2 DEF Mpmc!DeqBegin
<1>8. CASE Mpmc!DeqProbe(p)
  <2>1. mPc[p] = "probeItem" /\ UNCHANGED <<mPos, want>> /\ UNCHANGED ringVars /\ mPc[p] \notin Working
    BY <1>5, <1>8 DEF Mpmc!DeqProbe, Mpmc!Probe, Mpmc!shared, ringVars
  <2>2. mPos' = [mPos EXCEPT ![p] = mPos[p]] /\ want' = [want EXCEPT ![p] = want[p]] /\ found[p] < want[p]
    BY <1>3, <1>4, <2>1
  <2>3. PICK n \in Nat, l \in Dequeueing :
          /\ n <= want[p] /\ (l = "probeItem" => n < want[p])
          /\ found' = [found EXCEPT ![p] = n] /\ mPc' = [mPc EXCEPT ![p] = l]
    <3>1. CASE /\ found' = [found EXCEPT ![p] = @ + 1]
               /\ mPc' = [mPc EXCEPT ![p] = IF found'[p] = want[p] THEN "casHead" ELSE "probeItem"]
      <4>1. found[p] + 1 \in Nat /\ found[p] + 1 <= want[p] /\ found'[p] = found[p] + 1
        BY <1>1, <1>2, <2>2, <3>1 DEF RingTypes
      <4>2. PICK l \in Dequeueing : l = IF found[p] + 1 = want[p] THEN "casHead" ELSE "probeItem"
        BY <1>5
      <4>3. mPc' = [mPc EXCEPT ![p] = l] /\ found' = [found EXCEPT ![p] = found[p] + 1]
        BY <3>1, <4>1, <4>2
      <4>4. l = "probeItem" => found[p] + 1 < want[p]
        BY <1>2, <4>1, <4>2
      <4>5. QED
        BY <4>1, <4>3, <4>4
    <3>2. CASE /\ found' = found
               /\ mPc' = [mPc EXCEPT ![p] = IF found[p] = 0 THEN "recheckItem" ELSE "casHead"]
      <4>1. PICK l \in Dequeueing : mPc' = [mPc EXCEPT ![p] = l]
        BY <1>5, <3>2
      <4>2. QED
        BY <1>2, <1>3, <1>4, <2>2, <3>2, <4>1
    <3>3. QED
      BY <1>8, <3>1, <3>2 DEF Mpmc!DeqProbe, Mpmc!Probe, Mpmc!Goto
  <2>4. l \in {"idle"} \cup Enqueueing \cup Dequeueing /\ l \notin Enqueueing /\ l # "idle"
    BY <1>5, <2>3
  <2>5. QED
    BY <1>1, <1>2, <1>4, <2>1, <2>2, <2>3, <2>4, RangeMove
<1>9. CASE Mpmc!DeqRecheck(p)
  <2>1. mPc[p] = "recheckItem" /\ UNCHANGED ringVars /\ mPc[p] \notin Working
    BY <1>5, <1>9 DEF Mpmc!DeqRecheck, Mpmc!shared, ringVars
  <2>2. CASE Mpmc!Return(p)
    BY <1>1, <2>1, <2>2, RangeReturn
  <2>3. CASE mPc' = [mPc EXCEPT ![p] = "reloadHead"] /\ UNCHANGED <<mPos, want, found>>
    <3>1. PICK l \in Dequeueing : l = "reloadHead"
      BY <1>5
    <3>2. /\ mPos' = [mPos EXCEPT ![p] = mPos[p]] /\ want' = [want EXCEPT ![p] = want[p]]
          /\ found' = [found EXCEPT ![p] = found[p]] /\ mPc' = [mPc EXCEPT ![p] = l]
      BY <1>3, <2>3, <3>1
    <3>3. l \in {"idle"} \cup Enqueueing \cup Dequeueing /\ l \notin Enqueueing /\ l # "idle" /\ l # "probeItem"
      BY <1>5, <3>1
    <3>4. QED
      BY <1>1, <1>2, <1>4, <2>1, <3>2, <3>3, RangeMove
  <2>4. QED
    BY <1>9, <2>2, <2>3 DEF Mpmc!DeqRecheck, Mpmc!Goto
<1>10. CASE Mpmc!DeqReload(p)
  <2>1. UNCHANGED ringVars /\ mPc[p] \notin Working /\ mPc[p] \in Dequeueing /\ want' = want
    BY <1>5, <1>10 DEF Mpmc!DeqReload, Mpmc!shared, ringVars
  <2>2. QED
    BY <1>2, <1>3, <1>4, <1>6, <1>10, <2>1 DEF Mpmc!DeqReload
<1>11. CASE Mpmc!DeqCas(p) /\ mHead # mPos[p]
  <2>1. UNCHANGED ringVars /\ mPc[p] \notin Working /\ mPc[p] \in Dequeueing /\ want' = want
    BY <1>5, <1>11 DEF Mpmc!DeqCas, Mpmc!shared, ringVars
  <2>2. QED
    BY <1>2, <1>3, <1>4, <1>6, <1>11, <2>1 DEF Mpmc!DeqCas
<1>12. QED
  BY <1>7, <1>8, <1>9, <1>10, <1>11

\* enqueueBulk: the CAS turns what a producer asked for into places.
LEMMA EnqWinRange ==
  ASSUME RingInv, RingRange, NEW p \in Producers, Mpmc!EnqCas(p), mTail = mPos[p]
  PROVE  RingRange'
<1>1. p \in Mpmc!Procs /\ RingTypes
  BY DEF Mpmc!Procs, RingInv
<1>2. /\ mPos[p] \in Nat /\ found[p] \in Nat /\ want[p] \in Nat /\ mTail \in Nat /\ mSent[p] \in Nat
      /\ Capacity \in Nat /\ MaxBulk \in Nat /\ MpmcItems \in Nat
  BY <1>1, LibraryAssumption DEF RingTypes
<1>3. /\ mPc[p] = "casTail" /\ mPc' = [mPc EXCEPT ![p] = "construct"] /\ mTail' = mTail + found[p]
      /\ UNCHANGED <<mHead, sequence, mData, mPos, want, found, mSent>>
  BY DEF Mpmc!EnqCas, Mpmc!Goto
<1>4. mPc'[p] = "construct" /\ Stay(p) /\ "construct" \notin Enqueueing /\ "casTail" \in Enqueueing
  BY <1>1, <1>3 DEF RingTypes, Stay, Enqueueing
<1>5. /\ found[p] <= want[p] /\ want[p] <= MaxBulk /\ mSent[p] + want[p] <= MpmcItems
  BY <1>1, <1>3, <1>4 DEF RingRange, WithinCall, WithinItems
<1>6. WithinCall(p)'
  BY <1>3, <1>4, <1>5 DEF WithinCall
<1>7. Promised[p] = mSent[p] /\ Promised'[p] = mSent[p] + found[p]
  BY <1>3, <1>4 DEF Promised
<1>8. WithinItems(p)'
  BY <1>2, <1>4, <1>5, <1>7 DEF WithinItems
<1>9. (\A q \in Mpmc!Procs : WithinCall(q)') /\ (\A q \in Producers : WithinItems(q)')
  BY <1>1, <1>3, <1>4, <1>6, <1>8, RangeFrame
<1>10. Promised \in [Producers -> Nat]
  <2>1. ASSUME NEW q \in Producers PROVE Promised[q] \in Nat
    <3>1. /\ q \in Mpmc!Procs /\ mSent[q] \in Nat /\ found[q] \in Nat
          /\ mPc[q] = "publish" => found[q] > 0
      BY <1>1 DEF Mpmc!Procs, RingTypes, RingInv, InCall, Working
    <3>2. QED
      BY <3>1 DEF Promised
  <2>2. QED
    BY <2>1 DEF Promised
<1>11. Promised' = [Promised EXCEPT ![p] = Promised[p] + found[p]]
  <2>1. ASSUME NEW q \in Producers, q # p PROVE Promised'[q] = Promised[q]
    <3>1. q \in Mpmc!Procs
      BY DEF Mpmc!Procs
    <3>2. mPc'[q] = mPc[q]
      BY <1>4, <2>1, <3>1 DEF Stay
    <3>3. QED
      BY <1>3, <3>2 DEF Promised
  <2>2. Promised' = [q \in Producers |-> Promised'[q]] /\ Promised = [q \in Producers |-> Promised[q]]
    BY DEF Promised
  <2>3. QED
    BY <1>7, <2>1, <2>2
<1>12. mTail' = Cardinality(Sends(Promised', MpmcItems))
  <2>1. Promised[p] + found[p] <= MpmcItems
    BY <1>2, <1>5, <1>7
  <2>2. Cardinality(Sends([Promised EXCEPT ![p] = Promised[p] + found[p]], MpmcItems))
          = Cardinality(Sends(Promised, MpmcItems)) + found[p]
    BY <1>2, <1>10, <2>1, SendsMore
  <2>3. mTail = Cardinality(Sends(Promised, MpmcItems))
    BY DEF RingRange
  <2>4. QED
    BY <1>3, <1>11, <2>2, <2>3
<1>13. \A s \in Mpmc!Slots : sequence'[s] <= mTail' + Capacity
  <2>1. \A s \in Mpmc!Slots : sequence[s] <= mTail + Capacity /\ sequence[s] \in Nat
    BY <1>1 DEF RingRange, RingTypes
  <2>2. QED
    BY <1>2, <1>3, <2>1
<1>14. mData' = mData
  BY <1>3
<1>15. QED
  BY <1>9, <1>12, <1>13, <1>14 DEF RingRange, Sends, Mpmc!Procs, Mpmc!Slots

\* enqueueBulk: the item constructed is one that was promised.
LEMMA EnqConstructRange ==
  ASSUME RingInv, RingRange, NEW p \in Producers, Mpmc!EnqConstruct(p)
  PROVE  RingRange'
<1>1. p \in Mpmc!Procs /\ RingTypes
  BY DEF Mpmc!Procs, RingInv
<1>2. /\ mPos[p] \in Nat /\ found[p] \in Nat /\ want[p] \in Nat /\ mSent[p] \in Nat /\ MpmcItems \in Nat
      /\ found[p] > 0
  BY <1>1, LibraryAssumption DEF RingTypes, RingInv, InCall, Working, Mpmc!EnqConstruct
<1>3. /\ mPc[p] = "construct" /\ mPc' = [mPc EXCEPT ![p] = "publish"] /\ mSent' = [mSent EXCEPT ![p] = @ + 1]
      /\ mData' = [mData EXCEPT ![Mpmc!Slot(mPos[p])] = <<p, mSent'[p]>>]
      /\ UNCHANGED <<mHead, mTail, sequence, mPos, want, found>>
  BY DEF Mpmc!EnqConstruct, Mpmc!Goto
<1>4. /\ mPc'[p] = "publish" /\ mSent'[p] = mSent[p] + 1 /\ Stay(p) /\ "publish" \notin Enqueueing
      /\ \A q \in Producers : q # p => mSent'[q] = mSent[q]
  BY <1>1, <1>3 DEF RingTypes, Stay, Enqueueing
<1>5. Promised[p] = mSent[p] + found[p] /\ Promised'[p] = Promised[p]
  BY <1>2, <1>3, <1>4 DEF Promised
<1>6. Promised[p] <= MpmcItems /\ found[p] <= want[p] /\ want[p] <= MaxBulk
  BY <1>1 DEF RingRange, WithinItems, WithinCall
<1>7. WithinCall(p)' /\ WithinItems(p)'
  BY <1>3, <1>4, <1>5, <1>6 DEF WithinCall, WithinItems
<1>8. (\A q \in Mpmc!Procs : WithinCall(q)') /\ (\A q \in Producers : WithinItems(q)')
  BY <1>1, <1>4, <1>7, RangeFrame
<1>9. Promised' = Promised
  BY <1>1, <1>4, <1>5, PromisedStays
<1>10. mSent'[p] \in 1 .. MpmcItems
  BY <1>2, <1>4, <1>5, <1>6
<1>11. mData' \in [Mpmc!Slots -> (Producers \X (1 .. MpmcItems)) \cup {Nothing}]
  <2>1. <<p, mSent'[p]>> \in (Producers \X (1 .. MpmcItems)) \cup {Nothing}
    BY <1>10
  <2>2. mData \in [Mpmc!Slots -> (Producers \X (1 .. MpmcItems)) \cup {Nothing}]
    BY DEF RingRange
  <2>3. QED
    BY <1>3, <2>1, <2>2
<1>12. (\A s \in Mpmc!Slots : sequence'[s] <= mTail' + Capacity) /\ mTail' = Cardinality(Sends(Promised', MpmcItems))
  BY <1>3, <1>9 DEF RingRange
<1>13. QED
  BY <1>8, <1>11, <1>12 DEF RingRange, Sends, Mpmc!Procs, Mpmc!Slots

\* A number is given to one slot: it is in range if the new one is.
LEMMA NumberRange ==
  ASSUME RingTypes, RingRange, NEW i \in Nat, NEW n \in Nat, n <= mTail + Capacity, mTail' = mTail,
         sequence' = [sequence EXCEPT ![Mpmc!Slot(i)] = n]
  PROVE  \A s \in Mpmc!Slots : sequence'[s] <= mTail' + Capacity
<1>1. ASSUME NEW s \in Mpmc!Slots PROVE sequence'[s] = IF s = Mpmc!Slot(i) THEN n ELSE sequence[s]
  BY DEF RingTypes
<1>2. \A s \in Mpmc!Slots : sequence[s] <= mTail + Capacity
  BY DEF RingRange
<1>3. QED
  BY <1>1, <1>2

\* enqueueBulk, dequeueBulk: what NextSlot leaves of a call is within it.
LEMMA NextSlotRange ==
  ASSUME RingInv, RingRange, NEW p \in Mpmc!Procs, mPc[p] \in Working,
         NEW l \in Working, Mpmc!NextSlot(p, l), mSent' = mSent
  PROVE  /\ Stay(p) /\ WithinCall(p)' /\ found[p] \in Nat /\ found[p] > 0
         /\ (mPc'[p] = "idle" /\ found[p] = 1) \/ (mPc'[p] = l /\ found'[p] = found[p] - 1 /\ found[p] # 1)
<1>1. RingTypes /\ InCall(p) /\ WithinCall(p)
  BY DEF RingInv, RingRange
<1>2. /\ mPos[p] \in Nat /\ found[p] \in Nat /\ found[p] > 0 /\ want[p] \in Nat /\ MaxBulk \in Nat
      /\ found[p] <= want[p] /\ want[p] <= MaxBulk
  BY <1>1, LibraryAssumption DEF RingTypes, InCall, WithinCall
<1>3. l # "idle" /\ l # "probeItem"
  BY DEF Working
<1>4. CASE found[p] = 1
  <2>1. /\ mPc' = [mPc EXCEPT ![p] = "idle"] /\ mPos' = [mPos EXCEPT ![p] = 0]
        /\ found' = [found EXCEPT ![p] = 0] /\ want' = [want EXCEPT ![p] = 0]
    BY <1>4 DEF Mpmc!NextSlot, Mpmc!Return, Mpmc!ProbeFrom, Mpmc!Goto
  <2>2. mPc'[p] = "idle" /\ mPos'[p] = 0 /\ found'[p] = 0 /\ want'[p] = 0 /\ Stay(p)
    BY <1>1, <2>1 DEF RingTypes, Stay
  <2>3. WithinCall(p)'
    BY <1>2, <2>2 DEF WithinCall
  <2>4. QED
    BY <1>2, <1>4, <2>2, <2>3
<1>5. CASE found[p] # 1
  <2>1. /\ mPc' = [mPc EXCEPT ![p] = l] /\ mPos' = [mPos EXCEPT ![p] = @ + 1]
        /\ found' = [found EXCEPT ![p] = @ - 1] /\ want' = want
    BY <1>5 DEF Mpmc!NextSlot, Mpmc!Goto
  <2>2. mPc'[p] = l /\ found'[p] = found[p] - 1 /\ want'[p] = want[p] /\ Stay(p)
    BY <1>1, <2>1 DEF RingTypes, Stay
  <2>3. WithinCall(p)'
    BY <1>2, <1>3, <2>2 DEF WithinCall
  <2>4. QED
    BY <1>2, <1>5, <2>2, <2>3
<1>6. QED
  BY <1>4, <1>5

\* enqueueBulk: a published item is constructed, and the rest are still promised.
LEMMA EnqPublishRange ==
  ASSUME RingInv, RingRange, NEW p \in Producers, Mpmc!EnqPublish(p)
  PROVE  RingRange'
<1>1. p \in Mpmc!Procs /\ RingTypes
  BY DEF Mpmc!Procs, RingInv
<1>2. /\ mPc[p] = "publish" /\ sequence' = [sequence EXCEPT ![Mpmc!Slot(mPos[p])] = mPos[p] + 1]
      /\ Mpmc!NextSlot(p, "construct") /\ UNCHANGED <<mHead, mTail, mData, mSent>>
  BY DEF Mpmc!EnqPublish
<1>3. "publish" \in Working /\ "construct" \in Working /\ "construct" \notin Enqueueing /\ "idle" \notin Enqueueing
  BY DEF Working, Enqueueing
<1>4. PICK l \in Working : l = "construct"
  BY <1>3
<1>5. /\ Stay(p) /\ WithinCall(p)' /\ found[p] \in Nat /\ found[p] > 0
      /\ (mPc'[p] = "idle" /\ found[p] = 1) \/ (mPc'[p] = l /\ found'[p] = found[p] - 1 /\ found[p] # 1)
  BY <1>1, <1>2, <1>3, <1>4, NextSlotRange
<1>6. mSent'[p] = mSent[p] /\ mSent[p] \in Nat
  BY <1>1, <1>2 DEF RingTypes
<1>7. Promised[p] = mSent[p] + found[p] - 1
  BY <1>2 DEF Promised
<1>8. Promised'[p] = Promised[p]
  BY <1>4, <1>5, <1>6, <1>7 DEF Promised
<1>9. Promised[p] <= MpmcItems
  BY DEF RingRange, WithinItems
<1>10. WithinItems(p)'
  BY <1>3, <1>4, <1>5, <1>8, <1>9 DEF WithinItems
<1>11. (\A q \in Mpmc!Procs : WithinCall(q)') /\ (\A q \in Producers : WithinItems(q)')
  BY <1>1, <1>2, <1>5, <1>10, RangeFrame
<1>12. Promised' = Promised
  BY <1>1, <1>2, <1>5, <1>8, PromisedStays
<1>13. \A s \in Mpmc!Slots : sequence'[s] <= mTail' + Capacity
  <2>1. mPos[p] \in Nat /\ mPos[p] + 1 \in Nat /\ mTail \in Nat /\ Capacity \in Nat
    BY <1>1, LibraryAssumption DEF RingTypes
  <2>2. mPos[p] \in Mpmc!Won(p)
    BY <1>2, <1>5, <2>1 DEF Mpmc!Won
  <2>3. mPos[p] < mTail
    BY <2>2 DEF RingInv, Constructing
  <2>4. mPos[p] + 1 <= mTail + Capacity /\ mTail' = mTail /\ RingTypes
    BY <1>1, <1>2, <2>1, <2>3
  <2>5. sequence' = [sequence EXCEPT ![Mpmc!Slot(mPos[p])] = mPos[p] + 1]
    BY <1>2
  <2>6. QED
    BY <2>1, <2>4, <2>5, NumberRange, ZenonT(30)
<1>14. QED
  BY <1>2, <1>11, <1>12, <1>13 DEF RingRange, Sends, Mpmc!Procs, Mpmc!Slots

\* dequeueBulk: a consumer promises nothing, so what it does to a slot changes no promise.
LEMMA ConsumerRange ==
  ASSUME RingRange, NEW p \in Consumers, Stay(p), WithinCall(p)', UNCHANGED <<mTail, mSent>>,
         mData' \in [Mpmc!Slots -> (Producers \X (1 .. MpmcItems)) \cup {Nothing}],
         \A s \in Mpmc!Slots : sequence'[s] <= mTail' + Capacity
  PROVE  RingRange'
<1>1. p \in Mpmc!Procs /\ p \notin Producers
  BY LibraryAssumption DEF Mpmc!Procs
<1>2. Promised' = Promised
  BY <1>1, PromisedStays
<1>3. (\A q \in Mpmc!Procs : WithinCall(q)') /\ (\A q \in Producers : WithinItems(q)')
  BY <1>1, RangeFrame
<1>4. mTail' = Cardinality(Sends(Promised', MpmcItems))
  BY <1>2 DEF RingRange
<1>5. QED
  BY <1>3, <1>4 DEF RingRange, Sends, Mpmc!Procs, Mpmc!Slots

\* dequeueBulk: the CAS, the moves and the releases.
LEMMA DeqWorkRange ==
  ASSUME RingInv, RingRange, NEW p \in Consumers,
         \/ Mpmc!DeqCas(p) /\ mHead = mPos[p]
         \/ Mpmc!DeqMoveOut(p) \/ Mpmc!DeqRelease(p)
  PROVE  RingRange'
<1>1. p \in Mpmc!Procs /\ RingTypes /\ WithinCall(p)
  BY DEF Mpmc!Procs, RingInv, RingRange
<1>2. /\ mData \in [Mpmc!Slots -> (Producers \X (1 .. MpmcItems)) \cup {Nothing}]
      /\ \A s \in Mpmc!Slots : sequence[s] <= mTail + Capacity
  BY DEF RingRange
<1>3. ASSUME NEW l \in Working, mPc' = [mPc EXCEPT ![p] = l], UNCHANGED <<mPos, want, found>>
      PROVE  Stay(p) /\ WithinCall(p)'
  <2>1. mPc'[p] = l /\ l # "idle" /\ l # "probeItem" /\ Stay(p)
    BY <1>1, <1>3 DEF RingTypes, Stay, Working
  <2>2. QED
    BY <1>1, <1>3, <2>1 DEF WithinCall
<1>4. CASE Mpmc!DeqCas(p) /\ mHead = mPos[p]
  <2>1. /\ mPc' = [mPc EXCEPT ![p] = "moveOut"] /\ UNCHANGED <<mPos, want, found>>
        /\ UNCHANGED <<mTail, mSent>> /\ mData' = mData /\ sequence' = sequence
    BY <1>4 DEF Mpmc!DeqCas, Mpmc!Goto
  <2>2. Stay(p) /\ WithinCall(p)'
    BY <1>3, <2>1 DEF Working
  <2>3. QED
    BY <1>2, <2>1, <2>2, ConsumerRange
<1>5. CASE Mpmc!DeqMoveOut(p)
  <2>1. /\ mPc' = [mPc EXCEPT ![p] = "release"] /\ UNCHANGED <<mPos, want, found>>
        /\ UNCHANGED <<mTail, mSent>> /\ mData' = [mData EXCEPT ![Mpmc!Slot(mPos[p])] = Nothing]
        /\ sequence' = sequence
    BY <1>5 DEF Mpmc!DeqMoveOut, Mpmc!Goto
  <2>2. Stay(p) /\ WithinCall(p)'
    BY <1>3, <2>1 DEF Working
  <2>3. mData' \in [Mpmc!Slots -> (Producers \X (1 .. MpmcItems)) \cup {Nothing}]
    BY <1>2, <2>1
  <2>4. QED
    BY <1>2, <2>1, <2>2, <2>3, ConsumerRange
<1>6. CASE Mpmc!DeqRelease(p)
  <2>1. /\ mPc[p] = "release" /\ sequence' = [sequence EXCEPT ![Mpmc!Slot(mPos[p])] = mPos[p] + Capacity]
        /\ Mpmc!NextSlot(p, "moveOut") /\ UNCHANGED <<mTail, mSent>> /\ mData' = mData
    BY <1>6 DEF Mpmc!DeqRelease
  <2>2. PICK l \in Working : l = "moveOut"
    BY DEF Working
  <2>3. Stay(p) /\ WithinCall(p)' /\ found[p] \in Nat /\ found[p] > 0
    BY <1>1, <2>1, <2>2, NextSlotRange DEF Working
  <2>4. /\ mPos[p] \in Nat /\ mPos[p] + Capacity \in Nat /\ mHead \in Nat /\ mTail \in Nat /\ mHead <= mTail
        /\ Capacity \in Nat
    BY <1>1, LibraryAssumption DEF RingTypes
  <2>5. mPos[p] \in Mpmc!Won(p)
    BY <2>1, <2>3, <2>4 DEF Mpmc!Won
  <2>6. mPos[p] < mHead
    BY <2>5 DEF RingInv, MovingOut
  <2>7. mPos[p] + Capacity <= mTail + Capacity /\ mTail' = mTail
    BY <2>1, <2>4, <2>6
  <2>8. \A s \in Mpmc!Slots : sequence'[s] <= mTail' + Capacity
    BY <1>1, <2>1, <2>4, <2>7, NumberRange, ZenonT(30)
  <2>9. QED
    BY <1>2, <2>1, <2>3, <2>8, ConsumerRange
<1>7. QED
  BY <1>4, <1>5, <1>6

\* Every step of the queue, and of the other parts, keeps the ranges.
LEMMA NextRange == RingInv /\ RingRange /\ [Next]_vars => RingRange'
<1>1. SUFFICES ASSUME RingInv, RingRange, [Next]_vars PROVE RingRange'
  OBVIOUS
<1>2. CASE UNCHANGED mpmcVars
  <2>1. UNCHANGED <<mHead, mTail, sequence, mData, mPc, mPos, want, found, mSent>>
    BY <1>2 DEF mpmcVars
  <2>2. Promised' = Promised
    BY <2>1 DEF Promised
  <2>3. \A p \in Mpmc!Procs : WithinCall(p)'
    BY <1>1, <2>1 DEF RingRange, WithinCall
  <2>4. \A p \in Producers : WithinItems(p)'
    BY <1>1, <2>1, <2>2 DEF RingRange, WithinItems
  <2>5. QED
    BY <1>1, <2>1, <2>2, <2>3, <2>4 DEF RingRange, Sends, Mpmc!Procs, Mpmc!Slots
<1>3. CASE Mpmc!Next
  <2>1. ASSUME NEW p \in Producers, (\E n \in 1 .. MaxBulk : Mpmc!EnqBegin(p, n)) \/ Mpmc!EnqStep(p)
        PROVE  RingRange'
    <3>1. CASE \/ \E n \in 1 .. MaxBulk : Mpmc!EnqBegin(p, n)
               \/ Mpmc!EnqProbe(p) \/ Mpmc!EnqRecheck(p) \/ Mpmc!EnqReload(p)
               \/ Mpmc!EnqCas(p) /\ mTail # mPos[p]
      BY <1>1, <3>1, EnqMoveRange
    <3>2. CASE Mpmc!EnqCas(p) /\ mTail = mPos[p]
      BY <1>1, <3>2, EnqWinRange
    <3>3. CASE Mpmc!EnqConstruct(p)
      BY <1>1, <3>3, EnqConstructRange
    <3>4. CASE Mpmc!EnqPublish(p)
      BY <1>1, <3>4, EnqPublishRange
    <3>5. QED
      BY <2>1, <3>1, <3>2, <3>3, <3>4 DEF Mpmc!EnqStep
  <2>2. ASSUME NEW c \in Consumers, (\E n \in 1 .. MaxBulk : Mpmc!DeqBegin(c, n)) \/ Mpmc!DeqStep(c)
        PROVE  RingRange'
    <3>1. CASE \/ \E n \in 1 .. MaxBulk : Mpmc!DeqBegin(c, n)
               \/ Mpmc!DeqProbe(c) \/ Mpmc!DeqRecheck(c) \/ Mpmc!DeqReload(c)
               \/ Mpmc!DeqCas(c) /\ mHead # mPos[c]
      BY <1>1, <3>1, DeqMoveRange
    <3>2. CASE \/ Mpmc!DeqCas(c) /\ mHead = mPos[c]
               \/ Mpmc!DeqMoveOut(c) \/ Mpmc!DeqRelease(c)
      BY <1>1, <3>2, DeqWorkRange
    <3>3. QED
      BY <2>2, <3>1, <3>2 DEF Mpmc!DeqStep
  <2>3. QED
    BY <1>3, <2>1, <2>2 DEF Mpmc!Next
<1>4. QED
  BY <1>1, <1>2, <1>3 DEF Next, Others, vars

\* An empty queue is in range.
LEMMA InitRange == Mpmc!Init => RingRange
<1>1. SUFFICES ASSUME Mpmc!Init PROVE RingRange
  OBVIOUS
<1>2. Capacity \in Nat /\ MaxBulk \in Nat /\ MpmcItems \in Nat
  BY LibraryAssumption
<1>3. \A p \in Mpmc!Procs : WithinCall(p)
  BY <1>1, <1>2 DEF Mpmc!Init, WithinCall
<1>4. Promised = [p \in Producers |-> 0]
  BY <1>1 DEF Mpmc!Init, Promised, Mpmc!Procs
<1>5. \A p \in Producers : mPc[p] = "idle"
  BY <1>1 DEF Mpmc!Init, Mpmc!Procs
<1>6. \A p \in Producers : WithinItems(p)
  BY <1>2, <1>4, <1>5 DEF WithinItems, Enqueueing
<1>7. mTail = Cardinality(Sends(Promised, MpmcItems))
  BY <1>1, <1>2, <1>4, SendsNone DEF Mpmc!Init
<1>8. \A s \in Mpmc!Slots : sequence[s] <= mTail + Capacity
  BY <1>1, <1>2 DEF Mpmc!Init, Mpmc!Slots
<1>9. mData \in [Mpmc!Slots -> (Producers \X (1 .. MpmcItems)) \cup {Nothing}]
  BY <1>1 DEF Mpmc!Init
<1>10. QED
  BY <1>3, <1>6, <1>7, <1>8, <1>9 DEF RingRange

\* The values of the mpmc queue stay in their ranges.
LEMMA RingTyped == RingInv /\ RingRange => Mpmc!TypeOK
<1>1. SUFFICES ASSUME RingInv, RingRange PROVE Mpmc!TypeOK
  OBVIOUS
<1>2. RingTypes /\ MpmcItems \in Nat /\ Capacity \in Nat /\ MaxBulk \in Nat
  BY <1>1, LibraryAssumption DEF RingInv
<1>3. Mpmc!MaxIndex \in Nat /\ mTail <= Mpmc!MaxIndex
  <2>1. MpmcItems \in Nat /\ Cardinality(Producers) \in Nat
    BY LibraryAssumption, FS_CardinalityType
  <2>2. MpmcItems * Cardinality(Producers) \in Nat
    BY <2>1, Product, Zenon
  <2>3. mTail <= MpmcItems * Cardinality(Producers)
    BY <1>1, <2>1, SendsBound DEF RingRange
  <2>4. QED
    BY <2>2, <2>3, InstancesCount DEF Mpmc!MaxIndex
<1>4. mTail \in Nat /\ mHead \in Nat /\ mHead <= mTail
  BY <1>2 DEF RingTypes
<1>5. ASSUME NEW p \in Mpmc!Procs PROVE mPos[p] \in Nat /\ mPos[p] <= mTail
  <2>1. mPos[p] \in Nat /\ found[p] \in Nat /\ Probed(p) /\ InCall(p) /\ WithinCall(p)
    BY <1>1, <1>2 DEF RingTypes, RingInv, RingRange
  <2>2. CASE mPc[p] = "idle"
    BY <1>4, <2>1, <2>2 DEF WithinCall
  <2>3. CASE mPc[p] \in Enqueueing \cup Dequeueing
    BY <1>4, <2>1, <2>3 DEF Probed
  <2>4. CASE mPc[p] \in Working
    <3>1. mPos[p] \in Mpmc!Won(p)
      BY <2>1, <2>4 DEF InCall, Working, Mpmc!Won
    <3>2. CASE p \in Producers
      BY <1>1, <1>4, <2>1, <3>1, <3>2 DEF RingInv, Constructing
    <3>3. CASE p \in Consumers
      BY <1>1, <1>4, <2>1, <3>1, <3>3 DEF RingInv, MovingOut
    <3>4. QED
      BY <3>2, <3>3 DEF Mpmc!Procs
  <2>5. QED
    BY <1>2, <2>2, <2>3, <2>4 DEF RingTypes
<1>6. mPos \in [Mpmc!Procs -> 0 .. Mpmc!MaxIndex]
  BY <1>2, <1>3, <1>4, <1>5 DEF RingTypes
<1>7. want \in [Mpmc!Procs -> 0 .. MaxBulk] /\ found \in [Mpmc!Procs -> 0 .. MaxBulk]
  BY <1>1, <1>2 DEF RingTypes, RingRange, WithinCall
<1>8. mSent \in [Producers -> 0 .. MpmcItems]
  <2>1. ASSUME NEW p \in Producers PROVE mSent[p] \in 0 .. MpmcItems
    <3>1. /\ p \in Mpmc!Procs /\ mSent[p] \in Nat /\ found[p] \in Nat /\ Promised[p] <= MpmcItems
          /\ mPc[p] = "publish" => found[p] > 0
      BY <1>1, <1>2 DEF RingTypes, RingInv, RingRange, WithinItems, InCall, Working, Mpmc!Procs
    <3>2. QED
      BY <1>2, <3>1 DEF Promised
  <2>2. QED
    BY <1>2, <2>1 DEF RingTypes
<1>9. sequence \in [Mpmc!Slots -> 0 .. (Mpmc!MaxIndex + Capacity)]
  <2>1. ASSUME NEW s \in Mpmc!Slots PROVE sequence[s] \in 0 .. (Mpmc!MaxIndex + Capacity)
    <3>1. sequence[s] \in Nat /\ sequence[s] <= mTail + Capacity
      BY <1>1, <1>2 DEF RingTypes, RingRange
    <3>2. QED
      BY <1>2, <1>3, <1>4, <3>1
  <2>2. QED
    BY <1>2, <2>1 DEF RingTypes
<1>10. {"idle"} \cup Enqueueing \cup Dequeueing \cup Working
         = {"idle", "probeFree", "recheckFree", "reloadTail",
            "casTail", "construct", "publish", "probeItem",
            "recheckItem", "reloadHead", "casHead", "moveOut", "release"}
  BY DEF Enqueueing, Dequeueing, Working
<1>11. mPc \in [Mpmc!Procs -> {"idle", "probeFree", "recheckFree", "reloadTail",
                               "casTail", "construct", "publish", "probeItem",
                               "recheckItem", "reloadHead", "casHead", "moveOut", "release"}]
  BY <1>2, <1>10 DEF RingTypes
<1>12. mHead \in 0 .. Mpmc!MaxIndex /\ mTail \in mHead .. Mpmc!MaxIndex
  BY <1>3, <1>4
<1>13. mData \in [Mpmc!Slots -> Mpmc!Item \cup {Nothing}]
  BY <1>1 DEF RingRange, Mpmc!Item
<1>14. QED
  BY <1>6, <1>7, <1>8, <1>9, <1>11, <1>12, <1>13 DEF Mpmc!TypeOK
-----------------------------------------------------------------------------
\* ArrayMpmcQueue, ArrayMpscQueue and WorkStealingDeque: indices, numbers and items stay
\* in their ranges, a slot holds an object exactly when an index in use maps to it, no
\* two threads work on one slot, flags and sequence numbers tell the truth.
THEOREM SlotsHoldHolds == Capacity # 1 => (Spec => []SlotsHold)
<1>1. Mpsc!Init => StripIdle
  BY DEF Mpsc!Init, StripIdle
<1>2. Init => RingInv /\ RingRange /\ StripInv /\ StripIdle
  BY <1>1, InitRing, InitRange, InitStrip DEF Init
<1>3. StripInv => StripTypes
  BY DEF StripInv
<1>4. Spec => [](StripInv /\ StripIdle)
  BY <1>2, <1>3, NextStrip, NextIdle, PTL DEF Spec
<1>5. Capacity # 1 => (Spec => [](RingInv /\ RingRange))
  <2>1. SUFFICES ASSUME Capacity # 1 PROVE Spec => [](RingInv /\ RingRange)
    OBVIOUS
  <2>2. RingInv /\ RingRange /\ [Next]_vars => (RingInv /\ RingRange)'
    BY <2>1, NextRing, NextRange
  <2>3. QED
    BY <1>2, <2>2, PTL DEF Spec
<1>6. (RingInv /\ RingRange) /\ (StripInv /\ StripIdle) /\ (Deque!TypeOK /\ Deque!SlotsAccounted) => SlotsHold
  BY RingExclusive, RingTyped, StripExclusive, StripTyped DEF SlotsHold
<1>7. QED
  BY <1>4, <1>5, <1>6, DequeSlotsHold, PTL

-----------------------------------------------------------------------------
(***************************************************************************)
(* SpinMutex, for every set of threads and every SpinLimit: mutual         *)
(* exclusion, no lost wakeup, and that each step of the lock is a step of  *)
(* Mutex or changes no ownership.                                          *)
(***************************************************************************)
\* lock() / unlock(): the inductive invariant.  Mutual exclusion is not
\* inductive: that a CAS from 0 lets nobody in beside an owner rests on the
\* state being 0 only when there is none.  Nor is the range of the loop
\* variable: the CAS inside the loop is reached only below the limit.
CasBelowLimit == \A t \in Threads : lPc[t] = "spinCas" => spins[t] < SpinLimit

LockInv ==
  /\ Lock!TypeOK /\ Lock!MutualExclusion /\ Lock!StateTellsOwnership
  /\ CasBelowLimit

\* A mutex nobody has touched: the state is free and no thread owns it.
LEMMA InitLockInv == Init => LockInv
  BY LibraryAssumption DEF Init, Lock!Init, LockInv, Lock!TypeOK, Lock!MutualExclusion, Lock!StateTellsOwnership,
         Lock!Free, CasBelowLimit

\* Every step of lock, unlock and try_lock preserves the invariant.
LEMMA NextLockInv == LockInv /\ [Lock!Next]_Lock!vars => LockInv'
<1> SUFFICES ASSUME LockInv, [Lock!Next]_Lock!vars PROVE LockInv'
  OBVIOUS
<1> USE LibraryAssumption DEF LockInv, Lock!TypeOK, Lock!MutualExclusion,
            Lock!StateTellsOwnership, CasBelowLimit, Lock!Goto, Lock!Free, Lock!Locked, Lock!LockedWaiting
<1>1. ASSUME NEW t \in Threads, Lock!FastCas(t) PROVE LockInv'
  BY <1>1 DEF Lock!FastCas
<1>2. ASSUME NEW t \in Threads, Lock!TryLock(t) PROVE LockInv'
  BY <1>2 DEF Lock!TryLock
<1>3. ASSUME NEW t \in Threads, Lock!SpinLoad(t) PROVE LockInv'
  BY <1>3 DEF Lock!SpinLoad
<1>4. ASSUME NEW t \in Threads, Lock!SpinCas(t) PROVE LockInv'
  BY <1>4 DEF Lock!SpinCas
<1>5. ASSUME NEW t \in Threads, Lock!SpinGiveUp(t) PROVE LockInv'
  BY <1>5 DEF Lock!SpinGiveUp
<1>6. ASSUME NEW t \in Threads, Lock!SlowExchange(t) PROVE LockInv'
  BY <1>6 DEF Lock!SlowExchange
<1>7. ASSUME NEW t \in Threads, Lock!WaitCheck(t) PROVE LockInv'
  BY <1>7 DEF Lock!WaitCheck
<1>8. ASSUME NEW t \in Threads, Lock!Unlock(t) PROVE LockInv'
  BY <1>8 DEF Lock!Unlock
<1>9. ASSUME NEW t \in Threads, Lock!NotifyOne(t) PROVE LockInv'
  BY <1>9 DEF Lock!NotifyOne, Lock!Asleep
<1>10. CASE UNCHANGED Lock!vars
  BY <1>10 DEF Lock!vars
<1>11. QED
  BY <1>1, <1>2, <1>3, <1>4, <1>5, <1>6, <1>7, <1>8, <1>9, <1>10
  DEF Lock!Next, Lock!LockStep, Lock!UnlockStep

\* A step of the library is one of the mutex or leaves the mutex alone.
LEMMA LockMoves == [Next]_vars => [Lock!Next]_Lock!vars
  BY DEF Next, Others, vars, lockVars, Lock!vars

\* SpinMutex stays within the three documented states.
THEOREM LockTypeCorrect == Spec => []Lock!TypeOK
<1>1. LockInv => Lock!TypeOK
  BY DEF LockInv
<1>2. QED
  BY InitLockInv, NextLockInv, LockMoves, <1>1, PTL DEF Spec

\* lock() never lets a second thread in.
THEOREM MutualExclusionHolds == Spec => []Lock!MutualExclusion
<1>1. LockInv => Lock!MutualExclusion
  BY DEF LockInv
<1>2. QED
  BY InitLockInv, NextLockInv, LockMoves, <1>1, PTL DEF Spec

\* unlock() leaves the lock free exactly when nobody owns it.
THEOREM OwnershipHolds == Spec => []Lock!StateTellsOwnership
<1>1. LockInv => Lock!StateTellsOwnership
  BY DEF LockInv
<1>2. QED
  BY InitLockInv, NextLockInv, LockMoves, <1>1, PTL DEF Spec
-----------------------------------------------------------------------------
(***************************************************************************)
(* No lost wakeup.  A sleeper is safe while the state is 2, and a step     *)
(* that moves the state away from 2 (Unlock) makes its thread a notifier.  *)
(***************************************************************************)
\* unlock() / lock(): no step strands the threads asleep in wait(2).
LEMMA NextNoSleeperLost ==
  LockInv /\ Lock!NoLostWakeup /\ [Lock!Next]_Lock!vars => Lock!NoLostWakeup'
<1> SUFFICES ASSUME LockInv, Lock!NoLostWakeup, [Lock!Next]_Lock!vars PROVE Lock!NoLostWakeup'
  OBVIOUS
<1> USE DEF LockInv, Lock!TypeOK, Lock!NoLostWakeup, Lock!Asleep, Lock!Goto,
            Lock!Free, Lock!Locked, Lock!LockedWaiting
<1>1. ASSUME NEW t \in Threads, Lock!FastCas(t) PROVE Lock!NoLostWakeup'
  BY <1>1 DEF Lock!FastCas
<1>2. ASSUME NEW t \in Threads, Lock!TryLock(t) PROVE Lock!NoLostWakeup'
  BY <1>2 DEF Lock!TryLock
<1>3. ASSUME NEW t \in Threads, Lock!SpinLoad(t) PROVE Lock!NoLostWakeup'
  BY <1>3 DEF Lock!SpinLoad
<1>4. ASSUME NEW t \in Threads, Lock!SpinCas(t) PROVE Lock!NoLostWakeup'
  BY <1>4 DEF Lock!SpinCas
<1>5. ASSUME NEW t \in Threads, Lock!SpinGiveUp(t) PROVE Lock!NoLostWakeup'
  BY <1>5 DEF Lock!SpinGiveUp
<1>6. ASSUME NEW t \in Threads, Lock!SlowExchange(t) PROVE Lock!NoLostWakeup'
  BY <1>6 DEF Lock!SlowExchange
<1>7. ASSUME NEW t \in Threads, Lock!WaitCheck(t) PROVE Lock!NoLostWakeup'
  BY <1>7 DEF Lock!WaitCheck
<1>8. ASSUME NEW t \in Threads, Lock!Unlock(t) PROVE Lock!NoLostWakeup'
  <2>1. CASE state = Lock!LockedWaiting
    BY <1>8, <2>1 DEF Lock!Unlock
  <2>2. CASE state # Lock!LockedWaiting
    BY <1>8, <2>2 DEF Lock!Unlock
  <2>3. QED
    BY <2>1, <2>2
<1>9. ASSUME NEW t \in Threads, Lock!NotifyOne(t) PROVE Lock!NoLostWakeup'
  <2>1. CASE Lock!Asleep = {} /\ Lock!Goto(t, "idle")
    BY <1>9, <2>1 DEF Lock!NotifyOne
  <2>2. ASSUME NEW w \in Lock!Asleep,
               lPc' = [lPc EXCEPT ![t] = "idle", ![w] = "wait"]
        PROVE  Lock!NoLostWakeup'
    <3>1. w \in Threads /\ lPc'[w] = "wait"
      BY <2>2
    <3>2. QED
      BY <3>1
  <2>3. QED
    BY <1>9, <2>1, <2>2 DEF Lock!NotifyOne
<1>10. CASE UNCHANGED Lock!vars
  BY <1>10 DEF Lock!vars
<1>11. QED
  BY <1>1, <1>2, <1>3, <1>4, <1>5, <1>6, <1>7, <1>8, <1>9, <1>10
  DEF Lock!Next, Lock!LockStep, Lock!UnlockStep

\* lock() / unlock(): no thread sleeps through the last notification.
THEOREM NoLostWakeupHolds == Spec => []NoLostWakeup
<1>1. Init => Lock!NoLostWakeup
  BY DEF Init, Lock!Init, Lock!NoLostWakeup, Lock!Asleep
<1>2. QED
  BY InitLockInv, NextLockInv, LockMoves, <1>1, NextNoSleeperLost, PTL DEF Spec, NoLostWakeup
-----------------------------------------------------------------------------
(***************************************************************************)
(* Refinement of Mutex.  Owner is the expression Mutex's variable is       *)
(* replaced by: the thread inside the critical section, or NoOne.          *)
(***************************************************************************)

\* A thread in the critical section is the owner.
LEMMA OwnerIs == ASSUME Lock!MutualExclusion, NEW t \in Threads, lPc[t] = "owns"
                 PROVE  Lock!Owner = t
  BY DEF Lock!MutualExclusion, Lock!Owner, Lock!SomeoneOwns

\* So it is after a step.
LEMMA OwnerIsNext ==
  ASSUME Lock!MutualExclusion', NEW t \in Threads, lPc'[t] = "owns"
  PROVE  Lock!Owner' = t
  BY DEF Lock!MutualExclusion, Lock!Owner, Lock!SomeoneOwns

\* A step that moves no thread in or out of the critical section leaves the
\* owner as it is.
LEMMA OwnerKept ==
  ASSUME \A u \in Threads : (lPc'[u] = "owns") <=> (lPc[u] = "owns"),
         Lock!MutualExclusion, Lock!MutualExclusion'
  PROVE  Lock!Owner' = Lock!Owner
<1>1. CASE \E u \in Threads : lPc[u] = "owns"
  <2>1. PICK u \in Threads : lPc[u] = "owns"
    BY <1>1
  <2>2. Lock!Owner = u /\ Lock!Owner' = u
    BY <2>1, OwnerIs, OwnerIsNext
  <2>3. QED
    BY <2>2
<1>2. CASE ~ \E u \in Threads : lPc[u] = "owns"
  BY <1>2 DEF Lock!Owner, Lock!SomeoneOwns
<1>3. QED
  BY <1>1, <1>2

\* A free lock has no owner.
LEMMA OwnerOfFree == ASSUME LockInv, state = Lock!Free PROVE Lock!Owner = NoOne
  BY DEF LockInv, Lock!StateTellsOwnership, Lock!Owner, Lock!SomeoneOwns

\* A step in which t takes a free lock is an Acquire of Mutex.
LEMMA Acquires ==
  ASSUME LockInv, LockInv', NEW t \in Threads, state = Lock!Free, lPc'[t] = "owns"
  PROVE  Lock!Abstract!Acquire(t)
<1>1. Lock!Owner = NoOne
  BY OwnerOfFree
<1>2. Lock!Owner' = t
  BY OwnerIsNext DEF LockInv
<1>3. QED
  BY <1>1, <1>2 DEF Lock!Abstract!Acquire

\* lock(), unlock() and try_lock(): each step is an Acquire, a Release, or
\* leaves the owner alone.
LEMMA LockStepRefines ==
  LockInv /\ LockInv' /\ [Lock!Next]_Lock!vars => [Lock!Abstract!Next]_Lock!Owner
<1> SUFFICES ASSUME LockInv, LockInv', [Lock!Next]_Lock!vars PROVE [Lock!Abstract!Next]_Lock!Owner
  OBVIOUS
<1> DEFINE Same == \A u \in Threads : (lPc'[u] = "owns") <=> (lPc[u] = "owns")
<1> USE DEF Lock!Goto
<1>0. Same => Lock!Owner' = Lock!Owner
  BY OwnerKept DEF LockInv
<1>a. ASSUME NEW t \in Threads, Lock!Abstract!Acquire(t)
      PROVE  [Lock!Abstract!Next]_Lock!Owner
  BY <1>a DEF Lock!Abstract!Next
<1>p. lPc \in [Threads -> {"idle", "spin", "spinCas", "exchange", "wait",
                          "asleep", "owns", "notify"}]
  BY DEF LockInv, Lock!TypeOK
<1>1. ASSUME NEW t \in Threads, Lock!FastCas(t) PROVE [Lock!Abstract!Next]_Lock!Owner
  <2>1. CASE state = Lock!Free
    BY <1>1, <2>1, <1>p, <1>a, Acquires DEF Lock!FastCas
  <2>2. CASE state # Lock!Free
    <3>1. Same
      BY <1>1, <2>2, <1>p DEF Lock!FastCas
    <3>2. QED
      BY <3>1, <1>0
  <2>3. QED
    BY <2>1, <2>2
<1>2. ASSUME NEW t \in Threads, Lock!TryLock(t) PROVE [Lock!Abstract!Next]_Lock!Owner
  BY <1>2, <1>p, <1>a, Acquires DEF Lock!TryLock
<1>3. ASSUME NEW t \in Threads,
             Lock!SpinLoad(t) \/ Lock!SpinGiveUp(t) \/ Lock!WaitCheck(t)
      PROVE  [Lock!Abstract!Next]_Lock!Owner
  <2>1. Same
    BY <1>3, <1>p DEF Lock!SpinLoad, Lock!SpinGiveUp, Lock!WaitCheck
  <2>2. QED
    BY <2>1, <1>0
<1>4. ASSUME NEW t \in Threads, Lock!SpinCas(t) PROVE [Lock!Abstract!Next]_Lock!Owner
  <2>1. CASE state = Lock!Free
    BY <1>4, <2>1, <1>p, <1>a, Acquires DEF Lock!SpinCas
  <2>2. CASE state # Lock!Free
    <3>1. Same
      BY <1>4, <2>2, <1>p DEF Lock!SpinCas
    <3>2. QED
      BY <3>1, <1>0
  <2>3. QED
    BY <2>1, <2>2
<1>5. ASSUME NEW t \in Threads, Lock!SlowExchange(t) PROVE [Lock!Abstract!Next]_Lock!Owner
  <2>1. CASE state = Lock!Free
    BY <1>5, <2>1, <1>p, <1>a, Acquires DEF Lock!SlowExchange
  <2>2. CASE state # Lock!Free
    <3>1. Same
      BY <1>5, <2>2, <1>p DEF Lock!SlowExchange
    <3>2. QED
      BY <3>1, <1>0
  <2>3. QED
    BY <2>1, <2>2
<1>6. ASSUME NEW t \in Threads, Lock!Unlock(t) PROVE [Lock!Abstract!Next]_Lock!Owner
  <2>1. Lock!Owner = t
    BY <1>6, OwnerIs DEF LockInv, Lock!Unlock
  <2>2. \A u \in Threads : lPc'[u] # "owns"
    BY <1>6, <1>p DEF Lock!Unlock, LockInv, Lock!MutualExclusion, Lock!Free, Lock!LockedWaiting
  <2>3. Lock!Owner' = NoOne
    BY <2>2 DEF Lock!Owner, Lock!SomeoneOwns
  <2>4. Lock!Abstract!Release(t)
    BY <2>1, <2>3 DEF Lock!Abstract!Release
  <2>5. QED
    BY <2>4 DEF Lock!Abstract!Next
<1>7. ASSUME NEW t \in Threads, Lock!NotifyOne(t) PROVE [Lock!Abstract!Next]_Lock!Owner
  <2>1. Same
    BY <1>7, <1>p DEF Lock!NotifyOne, Lock!Asleep
  <2>2. QED
    BY <2>1, <1>0
<1>8. CASE UNCHANGED Lock!vars
  <2>1. Same
    BY <1>8 DEF Lock!vars
  <2>2. QED
    BY <2>1, <1>0
<1>9. QED
  BY <1>1, <1>2, <1>3, <1>4, <1>5, <1>6, <1>7, <1>8
  DEF Lock!Next, Lock!LockStep, Lock!UnlockStep

\* SpinMutex is a lock: it implements Mutex.
THEOREM LockRefines == Spec => MutexRefines
<1>1. Init => Lock!Abstract!Init
  BY DEF Init, Lock!Init, Lock!Abstract!Init, Lock!Owner, Lock!SomeoneOwns
<1>2. QED
  BY InitLockInv, NextLockInv, LockMoves, <1>1, LockStepRefines, PTL
  DEF Spec, MutexRefines, Lock!ImplementsMutex, Lock!Abstract!Spec
=============================================================================
