----------------------------- MODULE PBWriterMC -----------------------------
(***************************************************************************)
(* PBWriter on messages of every type and shape of field, nested in each   *)
(* other.                                                                  *)
(***************************************************************************)
EXTENDS PBReadBack

CONSTANT Values64   \* values of int64 fields

Types == <<"INT32", "BOOL", "ENUM", "UINT32", "SINT32", "INT64", "UINT64", "SINT64", "FIXED32",
           "SFIXED32", "FIXED64", "SFIXED64", "STRING", "BYTES">>

String(n) == [k \in 1 .. n |-> k]

\* Values to either side of every step of varintSize, and the extremes.
Values(type) ==
    CASE type \in {"INT32", "ENUM", "SFIXED32"} -> <<0, -1, 31, 32, 1023, 1024, 2047, -2048>>
      [] type = "BOOL" -> <<0, 1>>
      [] type = "UINT32" -> <<0, 31, 32, 1023, 1024, 4095>>
      [] type = "SINT32" -> <<0, -1, 15, -16, 16, -17, 511, 512, 2047, -2048>>
      [] type = "INT64" -> Values64
      [] type = "UINT64" -> <<0, 4096, 32767, 32768, 1048575, 1048576, 16777215>>
      [] type = "SINT64" -> <<0, -1, 16384, 524287, -524288, 524288, -524289, 8388607, -8388608>>
      [] type = "FIXED32" -> <<0, 65, 4095>>
      [] type = "FIXED64" -> <<0, 4097, 16777215>>
      [] type = "SFIXED64" -> <<0, -1, 8388607, -8388608>>
      [] type \in {"STRING", "BYTES"} -> <<<<>>, <<63, 0>>, String(31), String(32)>>

Shape(number, has, shape, type, values, type2) ==
    [number |-> number, has |-> has, shape |-> shape, type |-> type, values |-> values,
     type2 |-> type2]
Field(number, shape, type, values) == Shape(number, TRUE, shape, type, values, "NONE")
Map(number, type, type2, pairs) == Shape(number, TRUE, "map", type, pairs, type2)

\* Messages of one field: with the values of one type, not set, without a number.
Leaves(type) ==
    LET vs == Values(type)
    IN  [k \in DOMAIN vs |-> <<Field(1, "one", type, <<vs[k]>>)>>]
        \o [k \in DOMAIN vs |-> <<Field(4, "one", type, <<vs[k]>>)>>]
        \o [k \in DOMAIN vs |-> <<Field(128, "repeated", type, <<vs[k], vs[1], vs[k]>>)>>]
        \o [k \in DOMAIN vs |-> <<Map(3, type, "STRING", <<<<vs[k], <<5>>>>>>)>>]
        \o <<<<Field(2, "repeated", type, <<>>)>>, <<Map(2, type, "STRING", <<>>)>>,
             <<Field(0, "one", type, <<vs[2]>>)>>,
             <<Shape(1, FALSE, "one", type, <<vs[2]>>, "NONE")>>>>

Flat == <<<<>>>> \o FlattenSeq([t \in DOMAIN Types |-> Leaves(Types[t])])

\* Messages around those numbered by `inner'.
Around(inner) ==
    [k \in DOMAIN inner |-> <<Field(1, "one", "MESSAGE", <<inner[k]>>)>>]
    \o [k \in DOMAIN inner |-> <<Field(4, "repeated", "MESSAGE", <<inner[k], 1, inner[k]>>)>>]
    \o [k \in DOMAIN inner |-> <<Map(1, "SINT32", "MESSAGE", <<<<-16, inner[k]>>, <<16, 1>>>>)>>]
    \o [k \in DOMAIN inner |->
            <<Field(1, "one", "MESSAGE", <<inner[k]>>), Field(2, "repeated", "STRING", <<<<>>, <<9>>>>),
              Field(3, "one", "INT32", <<-1>>)>>]
Every(n, ms) == [k \in 1 .. Len(ms) \div n |-> n * k]

\* Some of the flat messages in another, some of those in a third.
Nested == Around(Every(3, Flat))
Twice == Around([k \in DOMAIN Every(5, Nested) |-> Len(Flat) + 5 * k])
Packed == [k \in 1 .. 6 |-> <<Shape(3, k > 3, "packed", "UINT32",
                                     <<<<>>, <<0>>, <<31, 7, 1>>>>[(k % 3) + 1], "NONE")>>]
MCMessages == Flat \o Nested \o Twice \o Packed

MCBefore == {<<>>, <<8, 5>>}       \* a field 1 that is 5
MCValues64 == <<0, 31, 32, 1023, 1024, 4095>>
MCLargeValues64 == MCValues64 \o <<-1, 4096>>

=============================================================================
