----------------------------- MODULE MCLibrary -----------------------------
(* Library with the fields of a message: the bounds of the integer types,   *)
(* of the seven-bit groups and of the lengths.                              *)
EXTENDS Library

F(type, value) == [type |-> type, value |-> value]

MCInputs ==
    { F("bool", TRUE), F("u8", 255), F("i8", -128), F("i8", 64), F("u16", 16384),
      F("i16", -32768), F("i16", 63), F("str", <<>>), F("str", <<128, 0>>),
      F("str", [i \in 1 .. 128 |-> 7]), F("vec", <<>>), F("vec", <<-1, 300>>) }
============================================================================
