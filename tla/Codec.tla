------------------------------- MODULE Codec -------------------------------
(* Serializer and Deserializer: the fields of a message as bytes, with       *)
(* integers of fixed width or as varints.  A behaviour writes one message.   *)
EXTENDS Integers, Sequences, SequencesExt

CONSTANTS
    Inputs,        \* the fields a message may have: [type, value]
    MaxFields      \* bound: fields of a message

VARIABLES
    varint,        \* UseVarint, the same on both sides
    fields,        \* history: what was written
    buffer         \* Serializer::_buffer

vars == <<varint, fields, buffer>>

Width  == [u8 |-> 8, i8 |-> 8, u16 |-> 16, i16 |-> 16, u32 |-> 32]
Signed == {"i8", "i16"}
Header == <<0, 0>>      \* the place of the header, KZ_RPC_HEADER_SIZE bytes

\* An integer of w bits as an unsigned one, and back.
Wrap(x, w)   == x % 2 ^ w
Unwrap(x, w) == IF x >= 2 ^ (w - 1) THEN x - 2 ^ w ELSE x

ZigZag(x, type)   == IF type \in Signed THEN (IF x < 0 THEN -2 * x - 1 ELSE 2 * x) ELSE x
UnZigZag(n, type) == IF type \in Signed THEN (IF n % 2 = 1 THEN -(n \div 2) - 1 ELSE n \div 2) ELSE n

\* write_varint: groups of seven bits, the low ones first, all but the last marked.
WriteVarintLate(n) ==
    LET groups == CHOOSE k \in 1 .. 5 : n <= 128 ^ k /\ (k = 1 \/ n > 128 ^ (k - 1))
    IN  [i \in 1 .. groups |-> ((n \div 128 ^ (i - 1)) % 128) + IF i < groups THEN 128 ELSE 0]
WriteVarint(n) ==
    LET groups == CHOOSE k \in 1 .. 5 : n < 128 ^ k /\ (k = 1 \/ n >= 128 ^ (k - 1))
    IN  [i \in 1 .. groups |-> ((n \div 128 ^ (i - 1)) % 128) + IF i < groups THEN 128 ELSE 0]

\* write_fixed: little endian.
WriteFixed(n, bytes) == [i \in 1 .. bytes |-> (n \div 256 ^ (i - 1)) % 256]

WriteInt(x, type, var) ==
    IF var THEN WriteVarint(ZigZag(x, type))
    ELSE IF type = "u32" THEN WriteFixed(x, 3) \o <<0>>      \* lengths are below 2^24 here
    ELSE WriteFixed(Wrap(x, Width[type]), Width[type] \div 8)

\* operator<<: strings and containers have their length in front, but a container without
\* elements is not written at all.
WriteVec(v, var) ==
    IF v = <<>> THEN <<>>
    ELSE WriteInt(Len(v), "u32", var) \o FlattenSeq([i \in DOMAIN v |-> WriteInt(v[i], "i16", var)])
Write(f, var) ==
    CASE f.type = "bool" -> <<IF f.value THEN 1 ELSE 0>>
      [] f.type = "str"  -> WriteInt(Len(f.value), "u32", var) \o f.value
      [] f.type = "vec"  -> WriteVec(f.value, var)
      [] OTHER           -> WriteInt(f.value, f.type, var)

------------------------------------------------------------------------------
\* What a read leaves: the position, the error and the value.
Ok(pos, x)       == [pos |-> pos, error |-> "Ok", value |-> x]
Failed(pos, err) == [pos |-> pos, error |-> err, value |-> 0]
CheckBounds(view, pos, n) == pos + n <= Len(view)

\* read_varint stops at the last group, the end of the buffer or the width of the type.
Bits(type) == IF type = "u32" THEN 64 ELSE Width[type]
Stop(view, pos, w, i) == \/ ~CheckBounds(view, pos + i, 1)
                         \/ 7 * i >= w
                         \/ view[pos + i + 1] < 128
Little(base, groups) ==
    LET sum[i \in 0 .. Len(groups)] == IF i = 0 THEN 0 ELSE sum[i - 1] + groups[i] * base ^ (i - 1)
    IN  sum[Len(groups)]
Varint(view, pos, type, w, n) ==
    LET groups == [i \in 1 .. n + 1 |-> view[pos + i] % 128]
    IN  IF ~CheckBounds(view, pos + n, 1) THEN Failed(pos + n, "EndOfBuffer")
        ELSE IF 7 * n >= w THEN Failed(pos + n + 1, "VarintOverflow")
        ELSE Ok(pos + n + 1, UnZigZag(IF w = 64 THEN Little(128, groups)
                                      ELSE Wrap(Little(128, groups), w), type))
ReadVarint(view, pos, type) ==
    Varint(view, pos, type, Bits(type),
           CHOOSE i \in 0 .. 10 : /\ Stop(view, pos, Bits(type), i)
                                  /\ \A j \in 0 .. i - 1 : ~Stop(view, pos, Bits(type), j))

ReadFixed(view, pos, type) ==
    LET b == Width[type] \div 8
        bytes == [i \in 1 .. IF b = 4 THEN 3 ELSE b |-> view[pos + i]]
        from(n) == IF type \in Signed THEN Unwrap(n, 8 * b) ELSE n
    IN  IF ~CheckBounds(view, pos, b) THEN Failed(pos, "EndOfBuffer")
        ELSE Ok(pos + b, from(Little(256, bytes)))

ReadInt(view, pos, type, var) ==
    IF var THEN ReadVarint(view, pos, type) ELSE ReadFixed(view, pos, type)

\* What is read behind a length n.
StrOf(view, n) ==
    IF n.error # "Ok" THEN n
    ELSE IF ~CheckBounds(view, n.pos, n.value) THEN Failed(n.pos, "EndOfBuffer")
    ELSE Ok(n.pos + n.value, SubSeq(view, n.pos + 1, n.pos + n.value))

\* Elements of fixed width are copied at once, others are read one by one, unless there
\* cannot be as many as the length says.
VecOf(view, n, var) ==
    LET grown(r, x) == [x EXCEPT !.value = IF x.error = "Ok" THEN Append(r.value, @) ELSE @]
        item(r)     == IF r.error # "Ok" THEN r ELSE grown(r, ReadInt(view, r.pos, "i16", var))
        items[i \in 0 .. n.value] == IF i = 0 THEN Ok(n.pos, <<>>) ELSE item(items[i - 1])
    IN  IF n.error # "Ok" THEN n
        ELSE IF ~CheckBounds(view, n.pos, IF var THEN n.value ELSE 2 * n.value)
             THEN Failed(n.pos, "EndOfBuffer")
        ELSE items[n.value]

Read(view, pos, type, var) ==
    CASE type = "bool" -> IF CheckBounds(view, pos, 1) THEN Ok(pos + 1, view[pos + 1] # 0)
                                                       ELSE Failed(pos, "EndOfBuffer")
      [] type = "str"  -> StrOf(view, ReadInt(view, pos, "u32", var))
      [] type = "vec"  -> VecOf(view, ReadInt(view, pos, "u32", var), var)
      [] OTHER         -> ReadInt(view, pos, type, var)

\* The reader asks for the types it expects, one after the other; after an error nothing
\* is read any more.
Decode(view, types, var) ==
    LET grown(r, x, type) ==
          [pos |-> x.pos, error |-> x.error,
           out |-> IF x.error = "Ok" THEN Append(r.out, [type |-> type, value |-> x.value])
                                     ELSE r.out]
        step(r, type) == IF r.error # "Ok" THEN r ELSE grown(r, Read(view, r.pos, type, var), type)
        read[i \in 0 .. Len(types)] ==
          IF i = 0 THEN [pos |-> Len(Header), error |-> "Ok", out |-> <<>>]
          ELSE step(read[i - 1], types[i])
    IN  read[Len(types)]

------------------------------------------------------------------------------
Init == varint \in BOOLEAN /\ fields = <<>> /\ buffer = Header

Put == /\ Len(fields) < MaxFields
       /\ \E f \in Inputs :
             /\ fields' = Append(fields, f)
             /\ buffer' = buffer \o Write(f, varint)
       /\ UNCHANGED varint

Next == Put
Spec == Init /\ [][Next]_vars

------------------------------------------------------------------------------
Types == [i \in DOMAIN fields |-> fields[i].type]
NoEmptyVec == \A i \in DOMAIN fields : fields[i] # [type |-> "vec", value |-> <<>>]
IsWhole(r) == r.out = fields /\ r.error = "Ok" /\ r.pos = Len(buffer)
IsCut(r)   == IsPrefix(r.out, fields) /\ r.error = "EndOfBuffer"

\* A reader gets the fields that were written, whatever their types and lengths; from a
\* message cut short it gets a beginning of them and then EndOfBuffer, never a wrong value.
DecodesWritten ==
    NoEmptyVec =>
        /\ IsWhole(Decode(buffer, Types, varint))
        /\ \A n \in Len(Header) .. Len(buffer) - 1 :
              IsCut(Decode(SubSeq(buffer, 1, n), Types, varint))
=============================================================================
