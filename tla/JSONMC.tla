------------------------------- MODULE JSONMC --------------------------------
(***************************************************************************)
(* The JSON format: a text is read, which is JSONReaderMC; or a value is   *)
(* written, which is JSONWriter; or an object is encoded and decoded into  *)
(* another, which is JSONRoundTrip.  The three share no state; those that  *)
(* are not looked at stay as they are.                                     *)
(***************************************************************************)
EXTENDS JSONReaderMC, JSONWriter, JSONChars

VARIABLES
    half,               \* "read"; "write"; "decode"
    \* JSONRoundTrip
    object, start, nodes, convert_by_type_, case_insensitive_, current_,
    calls, at, filled, success

decoderVars == <<object, start, nodes, convert_by_type_, case_insensitive_, current_,
                 calls, at, filled, success>>

D == INSTANCE JSONRoundTrip WITH
        frames <- calls, pc <- at, value <- filled, result <- success,
        Alike <- MCAlike, Unescape <- MCUnescape, ToNumber <- MCToNumber, IsTrue <- MCIsTrue

NothingRead == src = <<>> /\ ReaderInit
NothingWritten == Init
NothingDecoded ==
    /\ object = <<>> /\ start = <<>> /\ filled = <<>> /\ nodes = <<>> /\ calls = <<>>
    /\ current_ = NULL /\ convert_by_type_ = FALSE /\ case_insensitive_ = FALSE
    /\ at = "idle" /\ success = FALSE

InitHalf ==
    \/ half = "read" /\ NothingWritten /\ NothingDecoded /\ ReaderInit
    \/ half = "write" /\ NothingRead /\ NothingDecoded /\ Init
    \/ half = "decode" /\ NothingRead /\ NothingWritten /\ D!Init

Read == half = "read" /\ ReaderNext /\ UNCHANGED <<vars, decoderVars, half>>
Write == half = "write" /\ Next /\ UNCHANGED <<readerVars, decoderVars, half>>
Decode == /\ half = "decode" /\ D!Next
          /\ UNCHANGED <<readerVars, vars, object, start, half>>

\* parse is a sequential function: it goes on as long as it has a step.
JSON == /\ InitHalf
        /\ [][Read \/ Write \/ Decode]_<<readerVars, vars, decoderVars, half>>
        /\ WF_readerVars(Read)

-----------------------------------------------------------------------------
\* parse returns for every text: a value that reads nothing ends its loop.
Terminates == half = "read" => <>(pass = 3)

\* What was encoded is decoded, into any object, in every member, element and
\* entry: see JSONRoundTrip.
DocumentComesBack == half = "decode" => D!DocumentComesBack

=============================================================================
