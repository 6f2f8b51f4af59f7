------------------------------- MODULE Buffer -------------------------------
(* Buffer: one block of memory with a read and a write index, moved together *)
(* or copied to a larger block when the end is reached.  Bytes are numbered  *)
(* in the order they arrive.                                                 *)
EXTENDS Integers, Sequences

CONSTANTS
    InitialSize,   \* the capacity it is made with
    Lengths,       \* input: lengths appended
    Unit,          \* sizes the allocator gives are multiples of this
    Extra,         \* sizeof(t_extrabuf)
    MaxLoop,       \* kReadLoopHybrid
    MaxBytes       \* bound: bytes that arrive

VARIABLES
    mem, capacity, \* _buffer and _capacity
    readerIndex, writerIndex,
    loop, totalN,  \* readFd: readv calls made (-1 when not reading), bytes read
    arrived, taken \* history: bytes appended or read, bytes retrieved

vars == <<mem, capacity, readerIndex, writerIndex, loop, totalN, arrived, taken>>

readableBytes == writerIndex - readerIndex
writableBytes == capacity - writerIndex
RoundUp(n)    == ((n + Unit - 1) \div Unit) * Unit
Max2(a, b)    == IF a > b THEN a ELSE b
Junk          == 0       \* memory never written

Blank(n) == [i \in 0 .. n - 1 |-> Junk]
Numbers(n, from) == [i \in 1 .. n |-> from + i]

\* A buffer as the operations below see it, and bytes put at its write index.
This == [mem |-> mem, cap |-> capacity, r |-> readerIndex, w |-> writerIndex]
Put(b, bytes) ==
    [mem |-> [i \in DOMAIN b.mem |-> IF i >= b.w /\ i < b.w + Len(bytes)
                                     THEN bytes[i - b.w + 1] ELSE b.mem[i]],
     cap |-> b.cap, r |-> b.r, w |-> b.w + Len(bytes)]

\* makeSpace: a larger block, if sliding the content to the front does not make room.
MovedInto(b, block, cap) ==
    [mem |-> [i \in DOMAIN block |-> IF i < b.w - b.r THEN b.mem[b.r + i] ELSE block[i]],
     cap |-> cap, r |-> 0, w |-> b.w - b.r]
MakeSpaceEnd(b, len) ==
    LET cap == Max2(2 * b.cap, b.w - b.r + len)
    IN  IF b.cap < len THEN MovedInto(b, Blank(cap), RoundUp(cap))
        ELSE MovedInto(b, b.mem, b.cap)
MakeSpace(b, len) ==
    LET cap == Max2(2 * b.cap, b.w - b.r + len)
    IN  IF b.cap - b.w + b.r < len THEN MovedInto(b, Blank(cap), RoundUp(cap))
        ELSE MovedInto(b, b.mem, b.cap)

Appended(b, bytes) ==
    IF b.cap - b.w >= Len(bytes) THEN Put(b, bytes) ELSE Put(MakeSpace(b, Len(bytes)), bytes)

\* The block really has the capacity noted for it: the allocator rounds up the same way.
Becomes(b) ==
    /\ mem' = [i \in 0 .. b.cap - 1 |-> IF i \in DOMAIN b.mem THEN b.mem[i] ELSE Junk]
    /\ capacity' = b.cap
    /\ readerIndex' = b.r /\ writerIndex' = b.w

------------------------------------------------------------------------------
Init ==
    /\ mem = Blank(InitialSize) /\ capacity = InitialSize
    /\ readerIndex = 0 /\ writerIndex = 0
    /\ loop = -1 /\ totalN = 0 /\ arrived = 0 /\ taken = 0

AppendBytes(n) ==
    /\ loop = -1 /\ arrived + n <= MaxBytes
    /\ Becomes(Appended(This, Numbers(n, arrived)))
    /\ arrived' = arrived + n
    /\ UNCHANGED <<loop, totalN, taken>>

\* retrieve: with everything read both indices go back to the front.
Retrieve(n) ==
    /\ loop = -1 /\ n <= readableBytes
    /\ IF n < readableBytes THEN readerIndex' = readerIndex + n /\ UNCHANGED writerIndex
                            ELSE readerIndex' = 0 /\ writerIndex' = 0
    /\ taken' = taken + n
    /\ UNCHANGED <<mem, capacity, loop, totalN, arrived>>

\* readFd: readv into what is writable and then into the thread's spare buffer, until less
\* came than there was room for, nothing, or an error.
ReadFd ==
    /\ loop = -1
    /\ loop' = 0 /\ totalN' = 0
    /\ UNCHANGED <<mem, capacity, readerIndex, writerIndex, arrived, taken>>

Readv(n) ==
    LET room == writableBytes + IF writableBytes < Extra THEN Extra ELSE 0
        here == IF n <= writableBytes THEN n ELSE writableBytes
    IN  /\ loop >= 0 /\ n <= room /\ arrived + n <= MaxBytes
        /\ LET full == Put(This, Numbers(here, arrived))
           IN  Becomes(IF n > here THEN Appended(full, Numbers(n - here, arrived + here)) ELSE full)
        /\ arrived' = arrived + n /\ totalN' = totalN + n
        /\ loop' = IF n = 0 \/ n < room \/ loop + 1 = MaxLoop THEN -1 ELSE loop + 1
        /\ UNCHANGED taken

Next == \/ \E n \in Lengths : AppendBytes(n)
        \/ \E n \in 0 .. readableBytes : Retrieve(n)
        \/ ReadFd
        \/ \E n \in 0 .. MaxBytes : Readv(n)
Spec == Init /\ [][Next]_vars

------------------------------------------------------------------------------
\* Whatever is appended, read from a socket and retrieved, and however often the content
\* moves, the readable bytes are those that arrived and were not taken, in order, inside
\* the block.
BytesInOrder ==
    /\ 0 <= readerIndex /\ readerIndex <= writerIndex /\ writerIndex <= capacity
    /\ readableBytes = arrived - taken
    /\ \A i \in 1 .. readableBytes : mem[readerIndex + i - 1] = taken + i
=============================================================================
