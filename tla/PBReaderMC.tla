----------------------------- MODULE PBReaderMC -----------------------------
(***************************************************************************)
(* PBReader on messages put together from fields, whole and cut off.       *)
(***************************************************************************)
EXTENDS PBMessage, FiniteSetsExt, SequencesExt

CONSTANT MaxFields  \* how many fields a whole message has at most

\* The number of a field and of its tag, as it stands in the message.
RECURSIVE VarIntOf(_)
VarIntOf(n) == IF n < 128 THEN <<n>> ELSE <<128 + (n % 128)>> \o VarIntOf(n \div 128)

Payloads(type) ==
    CASE type = WIRETYPE_VARINT -> {<<0>>, <<128, 1>>}
      [] type = WIRETYPE_FIXED64 -> {<<1, 2, 3, 4, 5, 6, 7, 255>>}
      [] type = WIRETYPE_FIXED32 -> {<<8, 9, 10, 128>>}
      [] type = WIRETYPE_LENGTH_DELIMITED -> {<<0>>, <<1, 200>>}
      [] OTHER -> {<<>>}

\* Lengths of five bytes, beyond the end of the message, and beyond Range32 and
\* Range64: 1, 8192, 2^18, 2^18 + 1 and 2^28.
LongPayloads(type) ==
    CASE type = WIRETYPE_VARINT -> {<<127>>, <<255, 255, 255, 255, 255, 1>>}
      [] type = WIRETYPE_LENGTH_DELIMITED ->
            {<<3, 8, 128, 1>>, <<129, 128, 128, 128, 0, 200>>, <<128, 64>>, <<128, 128, 16>>,
             <<129, 128, 16, 200>>, <<128, 128, 128, 128, 1>>}
      [] OTHER -> {}

Tagged(type, payloads) == {VarIntOf(8 * n + type) \o body : n \in Numbers, body \in payloads}
FieldsOf(types) == UNION {Tagged(type, Payloads(type)) : type \in types}
LongFields == UNION {Tagged(type, LongPayloads(type)) : type \in {WIRETYPE_VARINT, WIRETYPE_LENGTH_DELIMITED}}
MessagesOf(fields, k) == {FlattenSeq(fs) : fs \in SeqOf(fields, k)}

\* Wire types 6 and 7 do not exist.
Few == MessagesOf(FieldsOf(0 .. 7), 2)
Long == {m \o n : m \in FieldsOf({0, 2}) \cup {<<>>}, n \in LongFields} \cup {m \o n : m \in LongFields, n \in FieldsOf({0})}
CutOff == UNION {{SubSeq(m, 1, k) : k \in 0 .. Len(m)} : m \in Few \cup Long}

MCInputs == MessagesOf(FieldsOf({0, 2}), MaxFields) \cup CutOff

-----------------------------------------------------------------------------
\* A message in which bytes are missing ends with an error.
OverrunReturns == str_error_ ~> pass = 3

=============================================================================
