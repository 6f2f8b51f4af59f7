---------------------------- MODULE SizeClasses ----------------------------
(* SizeUtils: the size classes of the allocator, and what the reallocating   *)
(* and aligning calls compute from them.  A behaviour builds the table.      *)
EXTENDS Integers, Sequences

CONSTANTS
    Aligned,       \* bound: sizes up to this one are reallocated and aligned
    Alignments, Growths \* inputs: alignments, and by how much a block is reallocated

VARIABLE table     \* _class_to_size, as far as it is built

K               == 1024
PAGE_SIZE       == 16 * K
MAX_BYTES       == 256 * K
MAX_NFREELISTS  == 264
kMinAlignment   == 8

UpTo(n, unit) == ((n + unit - 1) \div unit) * unit
Least(a, b)   == IF a < b THEN a ELSE b

\* The block size that follows another.
CalculateNextBlockSize(b) ==
    b + CASE b < 128                      -> 8
          [] b >= 128 /\ b < K            -> 16
          [] b >= K /\ b < 8 * K          -> 128
          [] b >= 8 * K /\ b < 64 * K     -> 512
          [] OTHER                        -> 8 * K
\* Index: up to 32 KB from a table with an entry for eight sizes, the entry of the last one;
\* beyond, computed.
TableIndexDown(i) ==
    CASE i <= 128                -> (i + 7) \div 8 - 1
      [] i > 128 /\ i <= K       -> 15 + (i - 128) \div 16
      [] i > K /\ i <= 8 * K     -> 71 + (i - K + 127) \div 128
      [] OTHER                   -> 127 + (i - 8 * K + 511) \div 512
TableIndex(i) ==
    CASE i <= 128                -> (i + 7) \div 8 - 1
      [] i > 128 /\ i <= K       -> 15 + (i - 128 + 15) \div 16
      [] i > K /\ i <= 8 * K     -> 71 + (i - K + 127) \div 128
      [] OTHER                   -> 127 + (i - 8 * K + 511) \div 512
Index(n) ==
    CASE n = 0                        -> 0
      [] n > 0 /\ n <= 32 * K         -> TableIndex(UpTo(n, 8))
      [] n > 32 * K /\ n <= 64 * K    -> 127 + (n - 8 * K + 511) \div 512
      [] OTHER                        -> 239 + (n - 64 * K + 8191) \div 8192

SizeOf(i)  == table[i + 1]
RoundUp(n) == IF n > MAX_BYTES THEN UpTo(n, PAGE_SIZE) ELSE SizeOf(Index(n))

\* How many objects move at once, and how many pages a span of the class has.
NumMoveSize(i) == IF MAX_BYTES \div SizeOf(i) < 2 THEN 2 ELSE Least(MAX_BYTES \div SizeOf(i), 32768)
CalculateFetchBatchSize(b) == Least(IF MAX_BYTES \div b = 0 THEN 1 ELSE MAX_BYTES \div b, 512)
CalculatePageNeed(b)       == UpTo(CalculateFetchBatchSize(b) * b, PAGE_SIZE) \div PAGE_SIZE

\* realloc(ptr, old, new): the block is kept unless the new size needs a larger class.
Kept(old, new) == RoundUp(new) <= RoundUp(old)

\* malloc_aligned: the header and the aligned address in a block at raw.
GetAlignedRequestSize(n, a) == n + a + 8
AlignedAt(raw, a)           == UpTo(raw + 8, a)
AlignedKept(old, new, a)    == RoundUp(GetAlignedRequestSize(new, a)) <= RoundUp(GetAlignedRequestSize(old, a))
\* Without the old size: what is left of the block behind the aligned address.
StillFits(raw, old, new, a) ==
    new <= RoundUp(GetAlignedRequestSize(old, a)) - (AlignedAt(raw, a) - raw)

------------------------------------------------------------------------------
Built == Len(table) = MAX_NFREELISTS

\* GenerateClassToSizeTable goes on to the next block once a size exceeds the last.
Init == table = <<8>>
Next == /\ ~Built /\ table[Len(table)] < MAX_BYTES
        /\ table' = Append(table, CalculateNextBlockSize(table[Len(table)]))
Spec == Init /\ [][Next]_table

\* The table has room for all classes and its last one is MAX_BYTES; every size of a class
\* has the index of the class, computed or looked up, so that ThreadCache and CentralCache
\* find the same list for the size asked for and for the size of the block; and a span of
\* the class holds the objects fetched at once.
ClassesFit ==
    LET i == Len(table) - 1
        from == IF i = 0 THEN 0 ELSE SizeOf(i - 1) + 1
    IN  /\ \A n \in from .. SizeOf(i) : Index(n) = i
        /\ Built <=> SizeOf(i) >= MAX_BYTES
        /\ SizeOf(i) <= MAX_BYTES
        /\ CalculatePageNeed(SizeOf(i)) * PAGE_SIZE >= CalculateFetchBatchSize(SizeOf(i)) * SizeOf(i)
        /\ NumMoveSize(i) >= 2

\* A block the reallocating calls keep holds the new size, and an aligned one lies with its
\* header inside its block, wherever the block begins.
BlocksHold ==
    Built => \A n \in 1 .. Aligned :
        /\ \A g \in Growths : Kept(n, n + g) => RoundUp(n) >= n + g
        /\ \A a \in Alignments : \A raw \in {kMinAlignment * i : i \in 0 .. a \div kMinAlignment} :
              LET end == raw + RoundUp(GetAlignedRequestSize(n, a))
                  at == AlignedAt(raw, a)
              IN  /\ at >= raw + 8 /\ at + n <= end
                  /\ \A g \in Growths :
                        AlignedKept(n, n + g, a) \/ StillFits(raw, n, n + g, a) => at + n + g <= end
=============================================================================
