------------------------------ MODULE PBFields ------------------------------
(***************************************************************************)
(* What the encoder and the decoder of protobuf share: the types of fields *)
(* and how wide numbers are.                                               *)
(*                                                                         *)
(* The widths are parameters: in the program a varint has 7 bits to the    *)
(* byte (Base is 128) and at most 10 bytes, and a fixed32 has 4 bytes.     *)
(***************************************************************************)
EXTENDS Integers, Sequences, SequencesExt, WireTypes

CONSTANTS
    Base,           \* how many values the bits of a varint's byte have
    MaxVarInt,      \* how many bytes the longest varint has
    Fixed32         \* how many bytes a fixed32 has; a fixed64 has twice as many

Power(b, n) == LET power[k \in Nat] == IF k = 0 THEN 1 ELSE b * power[k - 1]
               IN  power[n]

Byte == 2 * Base
Word32 == Power(Byte, Fixed32)
Word64 == Word32 * Word32

\* The tags 1 and 2 inside of a map's entry are taken to have one byte each.
ASSUME WidthAssumption ==
    /\ Base \in Nat /\ Base > 2 * 8 + 7
    /\ MaxVarInt \in Nat \ {0} /\ Word64 <= Power(Base, MaxVarInt)
    /\ Fixed32 \in Nat \ {0}

Sum(s) == LET sum[k \in 0 .. Len(s)] == IF k = 0 THEN 0 ELSE sum[k - 1] + s[k]
          IN  sum[Len(s)]

-----------------------------------------------------------------------------
(***************************************************************************)
(* Types of fields, and their wire types.                                  *)
(***************************************************************************)
Varint32 == {"INT32", "BOOL", "ENUM", "UINT32", "SINT32"}
Varint64 == {"INT64", "UINT64", "SINT64"}
FixedTypes32 == {"FIXED32", "SFIXED32"}
FixedTypes64 == {"FIXED64", "SFIXED64"}
Delimited == {"STRING", "BYTES", "MESSAGE"}

FieldTypes == Varint32 \cup Varint64 \cup FixedTypes32 \cup FixedTypes64 \cup Delimited

fieldType2WireType(type) ==
    CASE type \in Varint32 \cup Varint64 -> 0
      [] type \in FixedTypes64 -> 1
      [] type \in Delimited -> WIRETYPE_LENGTH_DELIMITED
      [] type \in FixedTypes32 -> 5

-----------------------------------------------------------------------------
(***************************************************************************)
(* Field: number, has, shape (one, repeated, packed or map), type, values  *)
(* and, for a map, type2.  Its values are one, or the elements, or the     *)
(* pairs of a map.                                                         *)
(***************************************************************************)
\* A mutant: Field::getHas is not asked.
HasNumber(f) == f.number # 0
\* operator&.  makeField drops `has' for a packed field.
IsSet(f) == (f.has \/ f.shape = "packed") /\ f.number # 0

\* Is it a string, vector or map with nothing in it?
Empty(f) == IF f.shape = "one" THEN f.type \in {"STRING", "BYTES"} /\ f.values = <<<<>>>>
            ELSE f.values = <<>>

IsWritten(f) == IsSet(f) /\ ~Empty(f)

=============================================================================
