------------------------------ MODULE XMLText ------------------------------
(***************************************************************************)
(* What an encoder that writes XML promises: its output is at all times    *)
(* the beginning of one well-formed document, and whole when the encoder   *)
(* says so.                                                                *)
(*                                                                         *)
(* A text is a sequence of pieces, and is given by where it is, `want',    *)
(* and by the names of the elements it is inside of, `nest'.               *)
(***************************************************************************)
EXTENDS Integers, Sequences

CONSTANT Names      \* of elements

VARIABLES text, complete

(***************************************************************************)
(*   prolog   before the outermost element   end     behind it             *)
(*   content  in an element                  reject  no document           *)
(***************************************************************************)
State == [want : {"prolog", "content", "end", "reject"}, nest : Seq(Names)]

NoText == [want |-> "prolog", nest |-> <<>>]

\* Characters of a string, and what some of them are escaped as.
Plain == {"ws", "x", "bang", "lbr", "rbr", "CDATA", "true", "false"}
Special == {"lt", "gt", "apos", "quot", "amp"}
Reference == {"&lt;", "&gt;", "&apos;", "&quot;", "&amp;"}

\* <name>, </name>, text between tags, <![CDATA[...]]>
OpenTag(name) == [kind |-> "open", name |-> name, chars |-> <<>>]
CloseTag(name) == [kind |-> "close", name |-> name, chars |-> <<>>]
Data(chars) == [kind |-> "data", name |-> "none", chars |-> chars]
Cdata(chars) == [kind |-> "cdata", name |-> "none", chars |-> chars]

Piece == [kind : {"open", "close", "data", "cdata"}, name : Names \cup {"none"},
          chars : Seq(Plain \cup Special \cup Reference)]

\* A < or & in text would begin markup; ]]> ends a CDATA section.
IsText(chars) == \A k \in 1 .. Len(chars) : chars[k] \notin {"lt", "amp"}
IsSection(chars) == \A k \in 1 .. Len(chars) - 2 :
                        ~(chars[k] = "rbr" /\ chars[k + 1] = "rbr" /\ chars[k + 2] = "gt")

Innermost(g) == g.nest[Len(g.nest)]
Left(g) == SubSeq(g.nest, 1, Len(g.nest) - 1)
Rejected(g) == [g EXCEPT !.want = "reject"]

\* The text g with one more piece.
Opened(g, name) == [want |-> "content", nest |-> Append(g.nest, name)]
Closed(g) == [want |-> IF Len(g.nest) = 1 THEN "end" ELSE "content", nest |-> Left(g)]
After(g, p) ==
    CASE p.kind = "open" /\ g.want \in {"prolog", "content"} -> Opened(g, p.name)
      [] p.kind = "close" /\ g.want = "content" /\ p.name = Innermost(g) -> Closed(g)
      [] p.kind = "data" /\ g.want = "content" /\ IsText(p.chars) -> g
      [] p.kind = "cdata" /\ g.want = "content" /\ IsSection(p.chars) -> g
      [] OTHER -> Rejected(g)

Init == text = NoText /\ complete = FALSE

\* Writing a tag.  Text that is sound leaves the document where it was, and so
\* does an element written with its text at once.
WriteTag == /\ ~complete /\ complete' = FALSE
            /\ \E name \in Names : \/ text' = After(text, OpenTag(name))
                                  \/ text' = After(text, CloseTag(name))
            /\ text'.want = "content"

\* Writing the last tag and reporting that the text is whole.
WriteLast == /\ ~complete /\ complete'
             /\ \E name \in Names : text' = After(text, CloseTag(name))
             /\ text'.want = "end"

Next == WriteTag \/ WriteLast

Spec == Init /\ [][Next]_<<text, complete>>

=============================================================================
