------------------------------- MODULE PBWire -------------------------------
(***************************************************************************)
(* The wire format: the records that protobuf::Reader makes of the bytes   *)
(* of a message, their numbers still whole.                                *)
(***************************************************************************)
EXTENDS PBFields, FiniteSetsExt

\* Position p of b on: where the varint ends, and its value.
VarIntEnd(b, p) == Min({e \in p .. Len(b) : b[e] < Base} \cup {Len(b) + 1})
VarIntAt(b, p) == Sum([k \in 1 .. VarIntEnd(b, p) + 1 - p |-> (b[p + k - 1] % Base) * Power(Base, k - 1)])
LittleEndian(b) == Sum([k \in DOMAIN b |-> b[k] * Power(Byte, k - 1)])

\* The field whose tag is at p of b: where its value begins, and where it ends; behind
\* the end of b if there are too few bytes, or if there is no such wire type.
FirstAt(b, wire_type, p) == IF wire_type = 2 THEN VarIntEnd(b, p) + 1 ELSE p
LastAt(b, wire_type, p) ==
    CASE wire_type = 0 -> VarIntEnd(b, p)
      [] wire_type = 1 -> p + 2 * Fixed32 - 1
      [] wire_type = 2 -> LET e == VarIntEnd(b, p)
                          IN  IF e > Len(b) THEN e ELSE e + VarIntAt(b, p)
      [] wire_type \in {3, 4} -> p - 1
      [] wire_type = 5 -> p + Fixed32 - 1
      [] wire_type \in {6, 7} -> Len(b) + 1
LastOf(b, p) ==
    LET e == VarIntEnd(b, p)
    IN  IF e > Len(b) THEN e ELSE LastAt(b, VarIntAt(b, p) % 8, e + 1)

\* Its number, wire type and bytes; nothing is kept of a group's begin and end.
RecordOf(b, p) ==
    LET tag == VarIntAt(b, p)
        wire_type == tag % 8
        first == FirstAt(b, wire_type, VarIntEnd(b, p) + 1)
    IN  IF wire_type \in {3, 4} THEN <<>>
        ELSE <<[number |-> tag \div 8, wire_type |-> wire_type,
                bytes |-> SubSeq(b, first, LastOf(b, p))]>>

\* The records from each place on, one after the other; cut where one has no end.
Cut == [number |-> -1, wire_type |-> -1, bytes |-> <<>>]
RecordsFrom(b) ==
    LET from[p \in 1 .. Len(b) + 1] ==
            IF p > Len(b) THEN <<>>
            ELSE IF LastOf(b, p) > Len(b) THEN <<Cut>>
            ELSE RecordOf(b, p) \o from[LastOf(b, p) + 1]
    IN  from
Records(b) == RecordsFrom(b)[1]

=============================================================================
