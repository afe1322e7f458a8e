------------------------------ MODULE JSONChars ------------------------------
(***************************************************************************)
(* What JSONDecoder does with the characters of a key, string or number.   *)
(* The characters that matter here: "bs" is a backslash, "nl" the end of a *)
(* line, "ctl" a control character.                                        *)
(***************************************************************************)
EXTENDS Integers, Sequences

MCAlike(i, n, m) == n = m \/ (i /\ {n, m} = {<<"a">>, <<"A">>})

\* Characters that are no digits make up a number like any others do.
MCToNumber(chars) == IF chars = <<>> THEN <<"0">> ELSE chars
MCIsTrue(chars) == chars # <<>> /\ Head(chars) = "1"

\* JSONDecoder: parse_string.
RECURSIVE MCUnescape(_)
MCUnescape(chars) ==
    CASE chars = <<>> -> <<>>
      [] Head(chars) # "bs" -> <<Head(chars)>> \o MCUnescape(Tail(chars))
      [] OTHER ->
            LET c == chars[2] IN
            CASE c = "n" -> <<"nl">> \o MCUnescape(SubSeq(chars, 3, Len(chars)))
              [] c = "u" -> <<"ctl">> \o MCUnescape(SubSeq(chars, 4, Len(chars)))
              [] OTHER -> <<c>> \o MCUnescape(SubSeq(chars, 3, Len(chars)))

=============================================================================
