----------------------------- MODULE PBDecoder ------------------------------
(***************************************************************************)
(* ProtobufDecoder: the serialize function of a message names its fields   *)
(* one after the other, and each is looked for among the records that      *)
(* protobuf::Reader has found.  A message inside of the message is given   *)
(* to a decoder of its own.                                                *)
(*                                                                         *)
(* An object is a sequence of fields, those of PBWriter, of which each     *)
(* also has `of': what T() gives for an element, or K() and V() for the    *)
(* key and the value of a map.  A message's value is its fields.           *)
(***************************************************************************)
EXTENDS PBWire

VARIABLES
    data,           \* the bytes that are decoded
    fields,         \* the object that is filled
    looked,         \* how many fields have been looked for
    pc,             \* "idle"; "read"; "done": operator>> has returned
    failed,         \* has an assert failed?
    result          \* what operator>> has returned

vars == <<data, fields, looked, pc, failed, result>>

-----------------------------------------------------------------------------
(***************************************************************************)
(* protobuf::Reader: records and the runs of those with equal numbers.     *)
(***************************************************************************)
\* parse has an error.
Fails(bytes) == Cut \in ToSet(Records(bytes))

\* A node keeps 13 bits of a number.
Numbered(nodes, number) == {k \in DOMAIN nodes : nodes[k].number % 8192 = number}

\* getNodeByNumber and getNextNode: the first run of the number.
RunOf(nodes, number) ==
    LET at == Numbered(nodes, number)
        last(p) == CHOOSE q \in at : p .. q \subseteq at /\ q + 1 \notin at /\ p <= q
    IN  IF at = {} THEN <<>> ELSE SubSeq(nodes, Min(at), last(Min(at)))

\* The union of u32 and u64 in a node: 0 for bytes with a length.
U64(node) == CASE node.wire_type = 0 -> VarIntAt(node.bytes, 1) % Word64
               [] node.wire_type \in {1, 5} -> LittleEndian(node.bytes)
               [] OTHER -> 0

-----------------------------------------------------------------------------
(***************************************************************************)
(* readValue.                                                              *)
(***************************************************************************)
Signed(n, word) == IF 2 * n >= word THEN n - word ELSE n

\* (n >> 1) ^ -(n & 1)
zigZagDecode(n) == IF n % 2 = 0 THEN n \div 2 ELSE -(n \div 2) - 1

Integer(type, u32, u64) ==
    CASE type \in {"INT32", "BOOL", "ENUM", "SFIXED32"} -> Signed(u32, Word32)
      [] type \in {"INT64", "SFIXED64"} -> Signed(u64, Word64)
      [] type = "SINT32" -> zigZagDecode(u32)
      [] type = "SINT64" -> zigZagDecode(u64)
      [] type \in {"UINT32", "FIXED32"} -> u32
      [] type \in {"UINT64", "FIXED64"} -> u64
Number(type, u64) == Integer(type, u64 % Word32, u64)

RECURSIVE readFields(_, _)

\* A string is appended to what is there; a message fills the one that is there.
readValue(node, v, type) ==
    CASE type \in {"STRING", "BYTES"} -> v \o node.bytes
      [] type = "MESSAGE" -> readFields(v, Records(node.bytes))
      [] OTHER -> Number(type, U64(node))

-----------------------------------------------------------------------------
(***************************************************************************)
(* readField.                                                              *)
(***************************************************************************)
\* A mutant: the wire type is not compared.
HasAnyType(run, types) == run # <<>>
HasWireType(run, types) == run # <<>> /\ run[1].wire_type \in types

readSingular(f, run) ==
    IF ~HasWireType(run, {fieldType2WireType(f.type)}) THEN f
    ELSE [f EXCEPT !.has = TRUE, !.values = <<readValue(run[1], f.values[1], f.type)>>]

\* A mutant: the elements are appended to those there are.
AppendRepeated(f, run) ==
    IF ~HasWireType(run, {fieldType2WireType(f.type), WIRETYPE_LENGTH_DELIMITED}) THEN f
    ELSE [f EXCEPT !.has = f.shape # "packed" \/ @,
                   !.values = @ \o [k \in DOMAIN run |-> readValue(run[k], f.of, f.type)]]

\* One element for each record, also where a record is a packed field.  Field has
\* no `has' of a packed field to set.
readRepeated(f, run) ==
    IF ~HasWireType(run, {fieldType2WireType(f.type), WIRETYPE_LENGTH_DELIMITED}) THEN f
    ELSE [f EXCEPT !.has = f.shape # "packed" \/ @,
                   !.values = [k \in DOMAIN run |-> readValue(run[k], f.of, f.type)]]

\* An entry without a key or a value is left out, a later one of the same key too.
EntryRun(node, number) == RunOf(Records(node.bytes), number)
HasBoth(node) == EntryRun(node, 1) # <<>> /\ EntryRun(node, 2) # <<>>
Inserted(values, e) == IF \E k \in DOMAIN values : values[k][1] = e[1] THEN values ELSE Append(values, e)

readMap(f, run) ==
    LET Entry(node) == <<readValue(EntryRun(node, 1)[1], f.of[1], f.type),
                         readValue(EntryRun(node, 2)[1], f.of[2], f.type2)>>
        Insert(values, node) == IF HasBoth(node) THEN Inserted(values, Entry(node)) ELSE values
    IN  IF ~HasWireType(run, {WIRETYPE_LENGTH_DELIMITED}) THEN f
        ELSE [f EXCEPT !.has = TRUE, !.values = FoldLeft(Insert, <<>>, run)]

readField(f, nodes) ==
    LET run == RunOf(nodes, f.number)
    IN  CASE f.shape = "one" -> readSingular(f, run)
          [] f.shape \in {"repeated", "packed"} -> readRepeated(f, run)
          [] f.shape = "map" -> readMap(f, run)

readFields(fs, nodes) == [k \in DOMAIN fs |-> readField(fs[k], nodes)]

\* Does an assert fail?  A singular field may occur only once in a row, an entry
\* of a map has its key and its value, and the bytes of a message are sound.
RECURSIVE AssertsFields(_, _)
AssertsValue(node, v, type) ==
    type = "MESSAGE" /\ (Fails(node.bytes) \/ AssertsFields(v, Records(node.bytes)))

AssertsField(f, nodes) ==
    LET run == RunOf(nodes, f.number)
    IN  CASE f.shape = "one" ->
                /\ HasWireType(run, {fieldType2WireType(f.type)})
                /\ Len(run) > 1 \/ AssertsValue(run[1], f.values[1], f.type)
          [] f.shape \in {"repeated", "packed"} ->
                /\ HasWireType(run, {fieldType2WireType(f.type), WIRETYPE_LENGTH_DELIMITED})
                /\ \E k \in DOMAIN run : AssertsValue(run[k], f.of, f.type)
          [] f.shape = "map" ->
                /\ HasWireType(run, {WIRETYPE_LENGTH_DELIMITED})
                /\ \E k \in DOMAIN run :
                    \/ Fails(run[k].bytes) \/ ~HasBoth(run[k])
                    \/ AssertsValue(EntryRun(run[k], 1)[1], f.of[1], f.type)
                    \/ AssertsValue(EntryRun(run[k], 2)[1], f.of[2], f.type2)
AssertsFields(fs, nodes) == \E k \in DOMAIN fs : AssertsField(fs[k], nodes)

-----------------------------------------------------------------------------
\* The constructor: parse, and assert(status).
Construct ==
    /\ pc = "idle"
    /\ failed' = Fails(data) /\ pc' = "read"
    /\ UNCHANGED <<data, fields, looked, result>>

\* operator& on the next field.
ReadField ==
    /\ pc = "read" /\ looked < Len(fields)
    /\ fields' = [fields EXCEPT ![looked + 1] = readField(@, Records(data))]
    /\ failed' = (failed \/ AssertsField(fields[looked + 1], Records(data)))
    /\ looked' = looked + 1
    /\ UNCHANGED <<data, pc, result>>

\* operator>> returns whether parse had no error.
ReturnRead ==
    /\ pc = "read" /\ looked = Len(fields)
    /\ pc' = "done" /\ result' = ~Fails(data)
    /\ UNCHANGED <<data, fields, looked, failed>>

Next == Construct \/ ReadField \/ ReturnRead

=============================================================================
