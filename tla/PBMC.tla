-------------------------------- MODULE PBMC --------------------------------
(***************************************************************************)
(* The protobuf format: a message is read, which is PBReaderMC, or one is  *)
(* encoded and decoded, which is PBRoundTrip.  The two share no state; the *)
(* one that is not looked at stays where it begins.                        *)
(***************************************************************************)
EXTENDS PBReaderMC, PBRoundTrip

VARIABLE half       \* "read"; "write"

writerVars == <<vars, decoderVars>>

NoMessageRead == src = <<>> /\ ReaderInit
NoMessageWritten == message = 1 /\ start = <<>> /\ InitBoth

InitHalf == \/ half = "read" /\ NoMessageWritten /\ ReaderInit
            \/ half = "write" /\ NoMessageRead /\ InitBoth

Read == half = "read" /\ ReaderNext /\ UNCHANGED <<writerVars, half>>
Write == half = "write" /\ NextBoth /\ UNCHANGED <<readerVars, half>>

Protobuf == InitHalf /\ [][Read \/ Write]_<<readerVars, writerVars, half>> /\ WF_readerVars(Read)

-----------------------------------------------------------------------------
\* parse returns from every whole message.
WholeReturns == (half = "read" /\ pass = 1 /\ pos = 1 /\ IsWhole) ~> pass = 3

=============================================================================
