----------------------------- MODULE PBMessage ------------------------------
(***************************************************************************)
(* What protobuf::Reader promises: the fields of a message by the wire     *)
(* format alone, and that the reader accepts the whole messages and finds  *)
(* their fields.                                                           *)
(***************************************************************************)
EXTENDS PBReader

CONSTANT Numbers        \* the field numbers that are asked for

-----------------------------------------------------------------------------
(***************************************************************************)
(* The field that begins at position p: a tag, and then what its wire type *)
(* says.  A varint has its lowest septet first, and goes on behind a byte  *)
(* from 128 on; tags and lengths are numbers of 32 bits.                   *)
(***************************************************************************)
VarIntFrom[i \in 1 .. Len(src)] ==
    (src[i] % 128) + (IF src[i] < 128 \/ i = Len(src) THEN 0 ELSE 128 * VarIntFrom[i + 1])
TypeAt(p) == VarIntFrom[p] % 8
BodyAt(p) == LastByte(p) + 1

\* Where its bytes begin, and where the next field does.
ValueAt(p) == IF TypeAt(p) = WIRETYPE_LENGTH_DELIMITED THEN LastByte(BodyAt(p)) + 1 ELSE BodyAt(p)
NextAt(p) ==
    LET type == TypeAt(p)
        body == BodyAt(p)
    IN  CASE type = WIRETYPE_VARINT -> LastByte(body) + 1
          [] type = WIRETYPE_FIXED64 -> body + 8
          [] type = WIRETYPE_FIXED32 -> body + 4
          [] type = WIRETYPE_LENGTH_DELIMITED -> LastByte(body) + 1 + VarIntFrom[body]
          [] type \in {WIRETYPE_START_GROUP, WIRETYPE_END_GROUP} -> body

\* Are its tag or its length no numbers of 32 bits?
TooLarge(p) == VarIntEnds(p) /\ VarIntFrom[p] >= Range32
IsBeyond(p) ==
    TooLarge(p) \/ (VarIntEnds(p) /\ TypeAt(p) = WIRETYPE_LENGTH_DELIMITED /\ TooLarge(BodyAt(p)))

\* Or is something missing, or of no type there is?
IsCut(p) ==
    \/ ~VarIntEnds(p)
    \/ TypeAt(p) \in {6, 7}
    \/ TypeAt(p) \in {WIRETYPE_VARINT, WIRETYPE_LENGTH_DELIMITED} /\ ~VarIntEnds(BodyAt(p))
    \/ NextAt(p) > Len(src) + 1

\* A group's tags are no field.
FieldAt(p) ==
    LET tag == VarIntFrom[p]
        value == ValueAt(p)
    IN  IF tag % 8 \in {WIRETYPE_START_GROUP, WIRETYPE_END_GROUP} THEN <<>>
        ELSE <<[number |-> tag \div 8, type |-> tag % 8,
                value |-> value, value_size |-> NextAt(p) - value]>>

Missing == [number |-> -1]
Beyond == [number |-> -2]
FieldsFrom[p \in 1 .. Len(src) + 1] ==
    IF p > Len(src) THEN <<>>
    ELSE IF IsBeyond(p) THEN <<Beyond>>
    ELSE IF IsCut(p) THEN <<Missing>>
    ELSE FieldAt(p) \o FieldsFrom[NextAt(p)]

MessageFields == FieldsFrom[1]
Has(mark) == LET fields == MessageFields IN \E i \in DOMAIN fields : fields[i] = mark
InWidth == ~Has(Beyond)
IsWhole == ~Has(Missing) /\ InWidth

-----------------------------------------------------------------------------
\* parse answers true for the whole messages, and for these only, if tags and lengths
\* have 32 bits; a longer length is taken modulo the width of what remains.
AcceptsWhole == pass = 3 /\ InWidth => (ok <=> IsWhole)

\* The number a field is kept under: protobuf's go up to 2^29 - 1.
Kept(f) == f.number % 8192

\* Protobuf lets a writer scatter the elements of a repeated field.
Adjacent(fields) == \A i, k \in DOMAIN fields : \A j \in i .. k :
                        Kept(fields[i]) = Kept(fields[k]) => Kept(fields[j]) = Kept(fields[i])

\* Two fields next to each other are kept under 0, by the number 8192 for one.
KeepsZeroTwice(fields) ==
    \E i \in DOMAIN fields : i > 1 /\ Kept(fields[i - 1]) = 0 /\ Kept(fields[i]) = 0

\* The nodes that `next' links, from node i on.
Chain[i \in 1 .. cur_ndex_] ==
    <<i>> \o (IF nodes_[i].next = NULL THEN <<>> ELSE Chain[nodes_[i].next])
ChainFrom(i) == IF i = NULL THEN <<>> ELSE Chain[i]

Spells(node, f) == /\ node.number = Kept(f) /\ node.type = f.type
                   /\ node.value = f.value /\ node.value_size = f.value_size

\* Asked for a number, the reader gives all fields of that number in the order of
\* the message, each with its bytes, and none, without a crash, if there is no such
\* field: but a number from 8192 on is never found, and its fields are among those
\* of the number modulo 8192.  That is unless fields of one number are scattered, or
\* two kept under 0 leave an entry of numbers_ without a node.
FieldsFound(fields, number) ==
    LET first == getNodeByNumber(number)
        chain == ChainFrom(first)
        found == {i \in DOMAIN fields : Kept(fields[i]) = number}
    IN  /\ first # CRASH
        /\ {chain[k] : k \in DOMAIN chain} = found
        /\ \A j, k \in DOMAIN chain : j < k => chain[j] < chain[k]
        /\ \A i \in found : Spells(nodes_[i], fields[i])
AdjacentFieldsFound ==
    pass = 3 /\ ok /\ InWidth =>
        LET fields == MessageFields
        IN  Adjacent(fields) /\ ~KeepsZeroTwice(fields) => \A number \in Numbers : FieldsFound(fields, number)

=============================================================================
