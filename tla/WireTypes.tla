----------------------------- MODULE WireTypes ------------------------------
(***************************************************************************)
(* WireType: how the bytes of a field of a protobuf message are laid out,  *)
(* the last three bits of its tag.                                         *)
(***************************************************************************)
EXTENDS Integers

WIRETYPE_VARINT == 0
WIRETYPE_FIXED64 == 1
WIRETYPE_LENGTH_DELIMITED == 2
WIRETYPE_START_GROUP == 3
WIRETYPE_END_GROUP == 4
WIRETYPE_FIXED32 == 5

=============================================================================
