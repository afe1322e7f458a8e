------------------------------ MODULE PBWriter ------------------------------
(***************************************************************************)
(* ProtobufEncoder and protobuf::MessageByteSize: operator<< walks a       *)
(* message twice.  The first pass adds up how many bytes its fields take;  *)
(* the second writes them.  For a message inside of a message the sum is   *)
(* also written, as the length in front of its bytes, so that both passes  *)
(* must agree, to the byte, about every field of every nested message.     *)
(*                                                                         *)
(* The messages are numbered, and a nested message has a number smaller    *)
(* than that of the message around it.  One step is one operator& on a     *)
(* field.                                                                  *)
(***************************************************************************)
EXTENDS PBFields

CONSTANTS
    Messages,       \* a sequence of messages; a message is a sequence of fields
    Before          \* what the string may hold that is handed to the encoder

ASSUME BeforeAssumption == Before \subseteq Seq(0 .. Byte - 1)

Ints(word) == -(word \div 2) .. word \div 2 - 1

\* What a field of this type, in message m, has for a value.
ValuesOf(type, m) ==
    CASE type \in {"INT32", "BOOL", "ENUM", "SINT32", "SFIXED32"} -> Ints(Word32)
      [] type \in {"UINT32", "FIXED32"} -> 0 .. Word32 - 1
      [] type \in {"INT64", "SINT64", "SFIXED64"} -> Ints(Word64)
      [] type \in {"UINT64", "FIXED64"} -> 0 .. Word64 - 1
      [] type \in {"STRING", "BYTES"} -> Seq(0 .. Byte - 1)
      [] type = "MESSAGE" -> 1 .. m - 1

IsField(f, m) ==
    /\ f.number \in Nat /\ f.has \in BOOLEAN /\ f.type \in FieldTypes
    /\ \/ f.shape = "one" /\ f.values \in Seq(ValuesOf(f.type, m)) /\ Len(f.values) = 1
       \/ f.shape \in {"repeated", "packed"} /\ f.values \in Seq(ValuesOf(f.type, m))
       \/ /\ f.shape = "map" /\ f.type2 \in FieldTypes
          /\ f.values \in Seq(ValuesOf(f.type, m) \X ValuesOf(f.type2, m))

ASSUME MessagesAssumption ==
    /\ DOMAIN Messages = 1 .. Len(Messages) /\ Len(Messages) \in Nat
    /\ \A m \in DOMAIN Messages :
          /\ DOMAIN Messages[m] = 1 .. Len(Messages[m]) /\ Len(Messages[m]) \in Nat
          /\ \A k \in DOMAIN Messages[m] : IsField(Messages[m][k], m)

VARIABLES
    message,        \* the message operator<< is given
    pc,             \* "size", "write", "done": the two passes, and after them
    seen,           \* the fields that the pass has seen
    size_,          \* MessageByteSize: what the first pass has counted
    str_,           \* what has been written
    result,         \* what operator<< has returned
    start           \* history: what str_ has held before

vars == <<message, pc, seen, size_, str_, result, start>>

-----------------------------------------------------------------------------
(***************************************************************************)
(* The integers of a type as a varint carries them.                        *)
(***************************************************************************)
zigZagEncode(v) == IF v >= 0 THEN 2 * v ELSE -2 * v - 1

\* What valueSize counts, and what writeValue writes: of an int64 no more than the
\* low half.
Sized(type, v) ==
    CASE type \in {"SINT32", "SINT64"} -> zigZagEncode(v)
      [] type \in Varint32 \ {"SINT32"} -> v % Word32
      [] type \in Varint64 \ {"SINT64"} -> v % Word64
Written(type, v) == IF type = "INT64" THEN v % Word32 ELSE Sized(type, v)

-----------------------------------------------------------------------------
(***************************************************************************)
(* MessageByteSize.                                                        *)
(***************************************************************************)
\* A mutant: the second step is taken a value too late.
VarintSizeLate(v) ==
    CHOOSE n \in 1 .. MaxVarInt : /\ n = MaxVarInt \/ v <= Power(Base, n)
                                  /\ \A k \in 1 .. n - 1 : v > Power(Base, k)

varintSize(v) ==
    CHOOSE n \in 1 .. MaxVarInt : /\ n = MaxVarInt \/ v < Power(Base, n)
                                  /\ \A k \in 1 .. n - 1 : v >= Power(Base, k)

\* The number is shifted in 32 bits.
Tag(number, wire_type) == (8 * number + wire_type) % Word32
TagSize(number, type) == varintSize(Tag(number, fieldType2WireType(type)))

\* A value of n bytes together with its length, if its type has one.
WithLength(type, n) == n + IF type \in Delimited THEN varintSize(n) ELSE 0

\* fieldSize; size[m] is the size of message m.  The elements of a map are pairs.
\* What a packed field counts for are the elements' lengths and their length, not
\* its tag, and for an element how long the varint is that gives its length.
valueSize(type, v, size) ==
    CASE type \in Varint32 \cup Varint64 -> varintSize(Sized(type, v))
      [] type \in FixedTypes32 -> Fixed32
      [] type \in FixedTypes64 -> 2 * Fixed32
      [] type \in {"STRING", "BYTES"} -> Len(v)
      [] type = "MESSAGE" -> size[v]

EntrySize(f, e, size) == 1 + WithLength(f.type, valueSize(f.type, e[1], size))
                         + 1 + WithLength(f.type2, valueSize(f.type2, e[2], size))
PackedSize(f, size) ==
    Sum([k \in DOMAIN f.values |-> varintSize(valueSize(f.type, f.values[k], size))])

ElementSize(f, e, size) ==
    IF f.shape = "map"
    THEN TagSize(f.number, "MESSAGE") + WithLength("MESSAGE", EntrySize(f, e, size))
    ELSE TagSize(f.number, f.type) + WithLength(f.type, valueSize(f.type, e, size))

fieldSize(f, size) ==
    CASE ~IsWritten(f) -> 0
      [] IsWritten(f) /\ f.shape = "packed" -> WithLength("BYTES", PackedSize(f, size))
      [] IsWritten(f) /\ f.shape # "packed" ->
            Sum([k \in DOMAIN f.values |-> ElementSize(f, f.values[k], size)])

Size[m \in DOMAIN Messages] ==
    Sum([k \in DOMAIN Messages[m] |-> fieldSize(Messages[m][k], Size)])

\* MessageByteSize counts in 32 bits.
ASSUME FitsAssumption == \A m \in DOMAIN Messages : Size[m] < Word32

-----------------------------------------------------------------------------
(***************************************************************************)
(* ProtobufEncoder.                                                        *)
(***************************************************************************)
writeVarint[v \in Nat] ==
    IF v < Base THEN <<v>> ELSE <<Base + (v % Base)>> \o writeVarint[v \div Base]

\* A mutant: the bytes are not masked.
UnmaskedBytes(v, n) == [k \in 1 .. n |-> v \div Power(Byte, k - 1)]

\* writeFixed32 and writeFixed64: the low byte first.
FixedBytes(v, n) == [k \in 1 .. n |-> (v \div Power(Byte, k - 1)) % Byte]

writeTag(number, type) == writeVarint[Tag(number, fieldType2WireType(type))]

\* writeValue; bytes[m] is what the fields of message m are written as.
writeValue(type, v, bytes) ==
    CASE type \in Varint32 \cup Varint64 -> writeVarint[Written(type, v)]
      [] type \in FixedTypes32 -> FixedBytes(v % Word32, Fixed32)
      [] type \in FixedTypes64 -> FixedBytes(v % Word64, 2 * Fixed32)
      [] type \in {"STRING", "BYTES"} -> writeVarint[Len(v)] \o v
      [] type = "MESSAGE" -> writeVarint[Size[v]] \o bytes[v]

WritePacked(f, bytes) ==
    writeTag(f.number, "BYTES") \o writeVarint[PackedSize(f, Size)]
    \o FlattenSeq([k \in DOMAIN f.values |-> writeValue(f.type, f.values[k], bytes)])

WriteElement(f, e, bytes) ==
    IF f.shape = "map"
    THEN writeTag(f.number, "MESSAGE") \o writeVarint[EntrySize(f, e, Size)]
         \o writeTag(1, f.type) \o writeValue(f.type, e[1], bytes)
         \o writeTag(2, f.type2) \o writeValue(f.type2, e[2], bytes)
    ELSE writeTag(f.number, f.type) \o writeValue(f.type, e, bytes)

writeField(f, bytes) ==
    CASE ~IsWritten(f) -> <<>>
      [] IsWritten(f) /\ f.shape = "packed" -> WritePacked(f, bytes)
      [] IsWritten(f) /\ f.shape # "packed" ->
            FlattenSeq([k \in DOMAIN f.values |-> WriteElement(f, f.values[k], bytes)])

Bytes[m \in DOMAIN Messages] ==
    FlattenSeq([k \in DOMAIN Messages[m] |-> writeField(Messages[m][k], Bytes)])

-----------------------------------------------------------------------------
(***************************************************************************)
(* operator<<.                                                             *)
(***************************************************************************)
Fields == Messages[message]

Init ==
    /\ message \in DOMAIN Messages /\ str_ \in Before /\ start = str_
    /\ pc = "size" /\ seen = 0 /\ size_ = 0 /\ result = FALSE

\* MessageByteSize::operator&
SizeField ==
    /\ pc = "size" /\ seen < Len(Fields)
    /\ size_' = size_ + fieldSize(Fields[seen + 1], Size)
    /\ seen' = seen + 1
    /\ UNCHANGED <<message, pc, str_, result, start>>

\* Between the passes: str_ is given room for size_ bytes more.
Reserve ==
    /\ pc = "size" /\ seen = Len(Fields)
    /\ pc' = "write" /\ seen' = 0
    /\ UNCHANGED <<message, size_, str_, result, start>>

\* ProtobufEncoder::operator&
WriteField ==
    /\ pc = "write" /\ seen < Len(Fields)
    /\ str_' = str_ \o writeField(Fields[seen + 1], Bytes)
    /\ seen' = seen + 1
    /\ UNCHANGED <<message, pc, size_, result, start>>

Return ==
    /\ pc = "write" /\ seen = Len(Fields)
    /\ pc' = "done" /\ result' = (str_ # <<>>)
    /\ UNCHANGED <<message, seen, size_, str_, start>>

Next == SizeField \/ Reserve \/ WriteField \/ Return

Spec == Init /\ [][Next]_vars

-----------------------------------------------------------------------------
\* Every variable has its type.
TypeOK ==
    /\ message \in DOMAIN Messages
    /\ pc \in {"size", "write", "done"}
    /\ seen \in 0 .. Len(Fields)
    /\ size_ \in Nat
    /\ str_ \in Seq(0 .. Byte - 1) /\ start \in Before
    /\ result \in BOOLEAN

\* The value that is counted as it is written: an int64 is if its high half is 0.
CountsValue(type, v, counts) ==
    /\ type = "INT64" => v \in 0 .. Word32 - 1
    /\ type = "MESSAGE" => counts[v]

\* A packed field is not, unless it is left out: PackedSize has not its tag.
CountsField(f, counts) ==
    IsWritten(f) =>
    /\ f.shape # "packed"
    /\ f.shape # "map" => \A j \in DOMAIN f.values : CountsValue(f.type, f.values[j], counts)
    /\ f.shape = "map" => \A j \in DOMAIN f.values :
          CountsValue(f.type, f.values[j][1], counts) /\ CountsValue(f.type2, f.values[j][2], counts)

Counts[m \in DOMAIN Messages] == \A k \in DOMAIN Messages[m] : CountsField(Messages[m][k], Counts)

\* The first pass counts exactly the bytes that the second writes, but for packed
\* fields and large int64s: the memory reserved is what is needed and, for a message
\* inside another, the length in front of it is how many bytes follow.
SizeExact == pc = "done" /\ Counts[message] => Len(str_) = Len(start) + size_

=============================================================================
