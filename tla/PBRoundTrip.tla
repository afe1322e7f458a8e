---------------------------- MODULE PBRoundTrip -----------------------------
(***************************************************************************)
(* A message is encoded, behind what the string held before or alone, and  *)
(* the string is decoded into an object that has just been made or was     *)
(* used before.                                                            *)
(***************************************************************************)
EXTENDS PBWriterMC

VARIABLES data, fields, looked, phase, failed, decoded,
    object      \* history: the object before it is decoded into

decoderVars == <<data, fields, looked, phase, failed, decoded, object>>

D == INSTANCE PBDecoder WITH pc <- phase, result <- decoded

-----------------------------------------------------------------------------
(***************************************************************************)
(* An object of the type of message m.  The elements of a repeated field   *)
(* have the type of the first.                                             *)
(***************************************************************************)
RECURSIVE Made(_, _)
MadeValue(type, v, used) ==
    CASE type = "MESSAGE" -> Made(v, used)
      [] type \in {"STRING", "BYTES"} -> IF used THEN <<7>> ELSE <<>>
      [] OTHER -> IF used THEN 7 ELSE 0

MadeField(f, used) ==
    LET first == IF f.values = <<>> THEN 0 ELSE f.values[1]
        Value(u) == IF f.shape # "map" THEN MadeValue(f.type, first, u)
                    ELSE <<MadeValue(f.type, IF f.values = <<>> THEN 0 ELSE first[1], u),
                           MadeValue(f.type2, IF f.values = <<>> THEN 0 ELSE first[2], u)>>
    IN  [number |-> f.number, has |-> used, shape |-> f.shape, type |-> f.type, type2 |-> f.type2,
         of |-> Value(FALSE), values |-> IF f.shape = "one" \/ used THEN <<Value(used)>> ELSE <<>>]

Made(m, used) == [k \in DOMAIN Messages[m] |-> MadeField(Messages[m][k], used)]

Decode ==
    /\ pc = "done" /\ phase = "none"
    /\ data' = str_
    /\ \E used \in BOOLEAN : fields' = Made(message, used)
    /\ object' = fields' /\ phase' = "idle"
    /\ UNCHANGED <<looked, failed, decoded>>

InitBoth ==
    /\ Init
    /\ data = <<>> /\ fields = <<>> /\ object = <<>> /\ looked = 0
    /\ phase = "none" /\ failed = FALSE /\ decoded = FALSE

NextBoth == \/ Next /\ UNCHANGED decoderVars
            \/ Decode /\ UNCHANGED vars
            \/ D!Next /\ UNCHANGED <<vars, object>>

RoundTrip == InitBoth /\ [][NextBoth]_<<vars, decoderVars>>

-----------------------------------------------------------------------------
\* What the fields s are to be when message m is decoded into them: a string has
\* the new one behind the old, a message inside keeps what the new one does not
\* set; elements and entries are all new.
RECURSIVE Filled(_, _)
FilledValue(type, v, w) ==
    CASE type = "MESSAGE" -> Filled(v, w)
      [] type \in {"STRING", "BYTES"} -> v \o w
      [] OTHER -> w

FilledField(s, f) ==
    CASE f.shape = "one" -> [s EXCEPT !.has = TRUE, !.values = <<FilledValue(f.type, @[1], f.values[1])>>]
      [] f.shape = "repeated" ->
            [s EXCEPT !.has = TRUE,
                      !.values = [k \in DOMAIN f.values |-> FilledValue(f.type, s.of, f.values[k])]]
      [] f.shape = "map" ->
            [s EXCEPT !.has = TRUE,
                      !.values = [k \in DOMAIN f.values |->
                            <<FilledValue(f.type, s.of[1], f.values[k][1]),
                              FilledValue(f.type2, s.of[2], f.values[k][2])>>]]

Filled(s, m) ==
    [k \in DOMAIN s |->
        LET same == SelectSeq(Messages[m], LAMBDA f : f.number = s[k].number /\ IsWritten(f))
        IN  IF same = <<>> THEN s[k] ELSE FilledField(s[k], same[1])]

\* The packed fields of the message that have been written.
PackedFields == {k \in DOMAIN Messages[message] : Messages[message][k].shape = "packed" /\ IsWritten(Messages[message][k])}

\* A message without packed fields that is encoded into an empty string is decoded
\* as it was, into a new object; into one that was used before, but for what is said
\* above.  No assert of the decoder fails.
MessageComesBack ==
    phase = "done" /\ start = <<>> /\ PackedFields = {} =>
        decoded /\ ~failed /\ fields = Filled(object, message)

\* A packed field, which has the wire type of bytes, is decoded as the elements that
\* were encoded.
PackedComesBack ==
    phase = "done" /\ start = <<>> =>
        \A k \in PackedFields : fields[k].values = Messages[message][k].values

\* The asserts of the decoder hold of what the encoder has written, also of a message
\* written behind a field of another, where protobuf has the later field count.
AssertsHold == ~failed

=============================================================================
