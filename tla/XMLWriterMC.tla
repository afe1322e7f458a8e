---------------------------- MODULE XMLWriterMC ----------------------------
(***************************************************************************)
(* XMLWriter on strings of the characters that matter, on structs, vectors *)
(* and maps nested in each other; and how what it writes is read.          *)
(***************************************************************************)
EXTENDS XMLWriter, FiniteSetsExt

CONSTANT MaxChars   \* length of the strings enumerated

Number == [kind |-> "number", chars |-> <<"x">>]
Other == [kind |-> "number", chars |-> <<"x", "x">>]
Bool(b) == [kind |-> "bool", chars |-> <<b>>]
String(s) == [kind |-> "string", chars |-> s]
Struct(members) == [kind |-> "struct", members |-> members]
Vector(elements) == [kind |-> "vector", elements |-> elements]
Pair(k, v) == [kind |-> "pair", key |-> k, value |-> v]
Map(pairs) == [kind |-> "map", elements |-> pairs]
Member(name, has, v) == [name |-> name, has |-> has, value |-> v]

\* Strings of any characters, and such that look like CDATA sections.
Begin == <<"bang", "lbr", "CDATA", "lbr">>
Strings == SeqOf(T!Special \cup {"ws", "x"}, MaxChars)
             \cup {Begin \o s : s \in SeqOf({"rbr", "gt", "x"}, 4)}
             \cup {<<"x">> \o Begin \o s : s \in SeqOf({"rbr"}, 2)}
OfString == {String(s) : s \in Strings}

\* Values nested in each other.
Flat == {Number, String(<<>>), String(<<"ws", "amp">>), Vector(<<Bool("true"), Bool("false")>>)}
InMap(vs) == {Pair(k, v) : k \in {Number, Other}, v \in vs}
Keys == <<String(<<>>), String(<<"ws">>), String(<<"ws", "x">>), String(<<"x">>)>>
ByString(n) == {Pair(Keys[n], v) : v \in Flat}
Maps == UNION {{Map(<<p, q>>) : p \in ByString(m), q \in ByString(n)} : <<m, n>> \in
                 {mn \in (1 .. 4) \X (1 .. 4) : mn[1] < mn[2]}}
InStruct(vs) == {Struct(<<Member("a", TRUE, v)>>) : v \in vs}
Around(vs) ==
    {Struct(<<>>), Vector(<<>>), Map(<<>>)}
    \cup {Struct(<<Member("a", h, v), Member("value", TRUE, Number)>>) : h \in BOOLEAN, v \in vs}
    \cup {Vector(<<v, v>>) : v \in vs} \cup {Map(<<Pair(Number, v), Pair(Other, v)>>) : v \in vs}
Once == Around(Flat)
          \cup {Vector(<<u, v>>) : u, v \in Flat \ {Number}}
          \cup {Struct(<<Member("A", g, Number), Member("a", h, Other)>>) : g, h \in BOOLEAN}
Twice == Around(Once)
Thrice == Around(Twice)

MCValues == UNION {OfString, InStruct(OfString), Flat, {Other, Bool("true"), Bool("false")},
                   ToSet(Keys), Maps, InStruct(Maps), Once, Twice, Thrice,
                   UNION {ByString(n) : n \in 1 .. 4}, InMap(Flat), InMap(Once), InMap(Twice)}
MCNames == {"serialflex", "value", "key", "a", "A"}

-----------------------------------------------------------------------------
\* What the pieces from position p on say up to the closing tag of the element
\* they are in: its text and its children.  A CDATA section stands for itself
\* with its markers, as the reader of this library has it.
Unescape(c) == CASE c = "&lt;" -> "lt"
                 [] c = "&gt;" -> "gt"
                 [] c = "&apos;" -> "apos"
                 [] c = "&quot;" -> "quot"
                 [] c = "&amp;" -> "amp"
                 [] c \in {"lt", "amp"} -> "markup"
                 [] OTHER -> c

RECURSIVE Read(_)
Read(p) ==
    LET piece == str_[p]
        after == Read(p + 1)
    IN  IF p > Len(str_) \/ piece.kind = "close" THEN [end |-> p, text |-> <<>>, children |-> <<>>]
        ELSE CASE piece.kind = "white" -> [after EXCEPT !.text = <<"ws">> \o @]
               [] piece.kind = "data" ->
                    [after EXCEPT !.text = [k \in DOMAIN piece.chars |-> Unescape(piece.chars[k])] \o @]
               [] piece.kind = "cdata" -> [after EXCEPT !.text = piece.chars \o @]
               [] piece.kind = "open" ->
                    LET child == [name |-> piece.name, text |-> after.text, children |-> after.children]
                        rest == Read(after.end + 1)
                    IN  [rest EXCEPT !.children = <<child>> \o @]
               [] OTHER -> after

\* What is to be found in an element.
Expected(v) ==
    CASE v.kind = "struct" -> FlattenSeq([k \in DOMAIN v.members |->
                                IF v.members[k].has THEN <<v.members[k]>> ELSE <<>>])
      [] v.kind = "pair" -> <<Member("key", TRUE, v.key), Member("value", TRUE, v.value)>>
      [] OTHER -> [k \in DOMAIN v.elements |-> Member("value", TRUE, v.elements[k])]

\* Is it an element of that name with that value?  Around the elements inside of
\* another there may be white space.
RECURSIVE IsRead(_, _, _)
IsRead(element_, name, v) ==
    /\ element_.name = name
    /\ IF IsScalar(v) THEN element_.text = v.chars /\ element_.children = <<>>
       ELSE LET items == Expected(v) IN
            /\ \A k \in DOMAIN element_.text : element_.text[k] = "ws"
            /\ Len(element_.children) = Len(items)
            /\ \A k \in DOMAIN items : IsRead(element_.children[k], items[k].name, items[k].value)

\* Read as XML, what has been written has every member that is set and every
\* element and pair, in order, each with the string it had, and nothing else.
TextReadsBack ==
    result => LET all == Read(1) IN
              Len(all.children) = 1 /\ IsRead(all.children[1], "serialflex", object)

=============================================================================
