-------------------------------- MODULE XMLMC --------------------------------
(***************************************************************************)
(* The XML format: a text is read, which is XMLReaderMC, or an object is   *)
(* encoded and decoded, which is XMLRoundTrip.  The two share no state;    *)
(* the one that is not looked at stays where it begins.                    *)
(***************************************************************************)
EXTENDS XMLReaderMC, XMLRoundTrip

VARIABLES
    half,           \* "read"; "write"
    known           \* history: what is known of the text that is read

NothingRead == src = <<>> /\ ReaderInit
NothingWritten == object = Struct(<<>>) /\ formatted_ = FALSE /\ InitBoth

InitRead == \E documents \in {Documents}, forms \in {BalancedForms}, pieceTexts \in {PieceTexts} :
                ReaderInit /\ known = Known(documents, forms, pieceTexts)

InitHalf == \/ half = "read" /\ NothingWritten /\ InitRead
            \/ half = "write" /\ NothingRead /\ InitBoth /\ known = Known({}, {}, {})

Reading == half = "read" /\ ReaderNext /\ UNCHANGED <<vars, decoderVars, half, known>>
Writing == half = "write" /\ NextBoth /\ UNCHANGED <<readerVars, half, known>>

\* parse is a sequential function: it goes on as long as it has a step.
XML == /\ InitHalf
       /\ [][Reading \/ Writing]_<<readerVars, vars, decoderVars, half, known>>
       /\ WF_readerVars(Reading)

-----------------------------------------------------------------------------
\* Every document is accepted, and the tree returned is its outermost element:
\* the names, texts, order and nesting of all that is in it.
DocumentsRead ==
    pass = 3 /\ known.outermost # <<>> =>
        ~ctl.err /\ Results # <<>> /\ Spell(Head(Results)) = known.outermost

\* Of the texts put together from pieces exactly the balanced ones are accepted.
AcceptsBalanced == pass = 3 /\ known.pieces => (Accepted <=> known.forms # {})

\* Counting comes to its end for every text, errors or not, unless it leaves
\* the text as CutMarkup may do for <!.
CountingEnds ==
    half = "read" /\ (\A i \in 1 .. Len(src) : src[i] # "bang") => <>(pass # 1)

\* Of every balanced text parse returns, without an error, and it has made its
\* nodes: each element and what is not recognized, in order and nested as they
\* are, with the text that an element has in one place.  (What parse returns of
\* them is the outermost element called serialflex; these texts have none, and it
\* returns NULL.)
BalancedRead == known.forms # {} => <>(Accepted /\ \A f \in known.forms : NodesAre(f))

=============================================================================
