------------------------------ MODULE JSONText ------------------------------
(***************************************************************************)
(* What an encoder that writes JSON promises: its output is at all times   *)
(* the beginning of a JSON text, and complete when the encoder says so.    *)
(*                                                                         *)
(* A text is given by what it may go on with: `want', and the containers   *)
(* it is inside of, `nest'.                                                *)
(***************************************************************************)
EXTENDS Integers, Sequences

VARIABLES text, complete

(***************************************************************************)
(*   value   a value                      key    a member's key            *)
(*   item    a value or the closing ]     colon  the colon after a key     *)
(*   member  a key or the closing }       more   a comma or the closer     *)
(*   end     nothing: the text is whole   reject it is no JSON text        *)
(***************************************************************************)
Want == {"value", "item", "member", "key", "colon", "more", "end", "reject"}
State == [want : Want, nest : Seq({"object", "array"})]

Scalar == {"string", "empty", "number", "null", "bool"}
Punctuation == {"lbrace", "rbrace", "lbracket", "rbracket", "colon", "comma"}

NoText == [want |-> "value", nest |-> <<>>]

\* The innermost container.
Inside(g, kind) == g.nest # <<>> /\ g.nest[Len(g.nest)] = kind

Then(g, want) == [want |-> want, nest |-> g.nest]
Opened(g, kind, want) == [want |-> want, nest |-> Append(g.nest, kind)]
ValueDone(nest) == [want |-> IF nest = <<>> THEN "end" ELSE "more", nest |-> nest]
Closed(g) == ValueDone(SubSeq(g.nest, 1, Len(g.nest) - 1))

\* The text g with one more token; "none" stands for no token.
After(g, t) ==
    CASE t = "none" -> g
      [] t \in Scalar /\ g.want \in {"value", "item"} -> ValueDone(g.nest)
      [] t \in {"string", "empty"} /\ g.want \in {"member", "key"} -> Then(g, "colon")
      [] t = "colon" /\ g.want = "colon" -> Then(g, "value")
      [] t = "comma" /\ g.want = "more" ->
            Then(g, IF Inside(g, "object") THEN "key" ELSE "value")
      [] t = "lbrace" /\ g.want \in {"value", "item"} -> Opened(g, "object", "member")
      [] t = "lbracket" /\ g.want \in {"value", "item"} -> Opened(g, "array", "item")
      [] t = "rbrace" /\ g.want \in {"member", "more"} /\ Inside(g, "object") -> Closed(g)
      [] t = "rbracket" /\ g.want \in {"item", "more"} /\ Inside(g, "array") -> Closed(g)
      [] OTHER -> Then(g, "reject")

Init == text = NoText /\ complete = FALSE

Write == /\ ~complete /\ complete' = FALSE
         /\ \E t, u \in Scalar \cup Punctuation \cup {"none"} :
                text' = After(After(text, t), u)
         /\ text'.want # "reject"

\* Writing the last token and reporting that the text is whole.
WriteLast == /\ ~complete /\ complete'
             /\ \E t \in {"rbrace", "rbracket"} : text' = After(text, t)
             /\ text'.want = "end"

Next == Write \/ WriteLast

Spec == Init /\ [][Next]_<<text, complete>>

=============================================================================
