----------------------------- MODULE PBReadBack -----------------------------
(***************************************************************************)
(* What the bytes that PBWriter has written mean: the wire format reads    *)
(* them, without any of the program's decoder, and finds every field that  *)
(* is set with its values, and no other.                                   *)
(***************************************************************************)
EXTENDS PBWriter, PBWire

Signed(n, word) == IF 2 * n >= word THEN n - word ELSE n

\* Is v what record r gives for a value of this type?  texts[m] is the set of strings
\* that are read as message m.
ValueIsRead(type, r, v, texts) ==
    LET varint == VarIntAt(r.bytes, 1)
        fixed == LittleEndian(r.bytes)
    IN  /\ r.wire_type = fieldType2WireType(type)
        /\ CASE type \in {"INT32", "BOOL", "ENUM"} -> Signed(varint, Word32) = v
             [] type = "INT64" -> Signed(varint, Word64) = v
             [] type \in {"UINT32", "UINT64"} -> varint = v
             [] type \in {"SINT32", "SINT64"} ->
                    v = IF varint % 2 = 0 THEN varint \div 2 ELSE -((varint + 1) \div 2)
             [] type \in {"FIXED32", "FIXED64"} -> fixed = v
             [] type = "SFIXED32" -> Signed(fixed, Word32) = v
             [] type = "SFIXED64" -> Signed(fixed, Word64) = v
             [] type \in {"STRING", "BYTES"} -> r.bytes = v
             [] type = "MESSAGE" -> r.bytes \in texts[v]

EntryIsRead(f, r, e, texts) ==
    LET rs == Records(r.bytes)
    IN  /\ r.wire_type = WIRETYPE_LENGTH_DELIMITED
        /\ Len(rs) = 2 /\ rs[1].number = 1 /\ rs[2].number = 2
        /\ ValueIsRead(f.type, rs[1], e[1], texts) /\ ValueIsRead(f.type2, rs[2], e[2], texts)

\* The elements of a packed field are varints, one after another.
Starts(b) == {p \in DOMAIN b : p = 1 \/ b[p - 1] < Base}
PackedIsRead(r, values) ==
    LET b == r.bytes
    IN  /\ r.wire_type = WIRETYPE_LENGTH_DELIMITED
        /\ Len(values) = Cardinality(Starts(b))
        /\ b # <<>> => b[Len(b)] < Base
        /\ \A p \in Starts(b) : VarIntAt(b, p) = values[Cardinality(Starts(b) \cap 1 .. p)]

\* What is to be found in a message: its set fields, by element, and its packed
\* fields, set or not.
Expected(f) ==
    IF f.number = 0 \/ ~(f.has \/ f.shape = "packed") \/ f.values = <<>> THEN <<>>
    ELSE IF f.shape = "packed" THEN <<[field |-> f, element |-> f.values]>>
    ELSE IF f.shape = "one" /\ f.type \in {"STRING", "BYTES"} /\ f.values[1] = <<>> THEN <<>>
    ELSE [k \in DOMAIN f.values |-> [field |-> f, element |-> f.values[k]]]

\* Is r what is to be found of e?
RecordIsRead(r, e, texts) ==
    LET f == e.field
    IN  /\ r.number = f.number
        /\ f.shape = "map" => EntryIsRead(f, r, e.element, texts)
        /\ f.shape = "packed" => PackedIsRead(r, e.element)
        /\ f.shape \in {"one", "repeated"} => ValueIsRead(f.type, r, e.element, texts)

IsRead(b, m, texts) ==
    LET rs == Records(b)
        es == FlattenSeq([k \in DOMAIN Messages[m] |-> Expected(Messages[m][k])])
    IN  /\ Len(rs) = Len(es)
        /\ \A k \in DOMAIN rs : RecordIsRead(rs[k], es[k], texts)

Texts[m \in DOMAIN Messages] == {b \in Seq(0 .. Byte - 1) : IsRead(b, m, Texts)}

\* Read by the wire format, what has been written gives every field that is set,
\* with its values, and none that is not; what the string held before is left.
BytesReadBack ==
    pc = "done" => /\ IsPrefix(start, str_)
                   /\ SubSeq(str_, Len(start) + 1, Len(str_)) \in Texts[message]

=============================================================================
