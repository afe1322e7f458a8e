---------------------------- MODULE XMLRoundTrip ----------------------------
(***************************************************************************)
(* An object is encoded, the text is read and decoded into another object, *)
(* one just made or one that was used before.                              *)
(***************************************************************************)
EXTENDS XMLWriterMC

VARIABLES nodes, case_insensitive_, current_, calls, phase, value, decoded,
    start       \* history: the object before it is decoded into

decoderVars == <<nodes, case_insensitive_, current_, calls, phase, value, decoded, start>>

\* Names are alike, ignoring case if i.
MCAlike(i, n, m) == n = m \/ (i /\ {n, m} = {"a", "A"})

D == INSTANCE XMLDecoder WITH Alike <- MCAlike, frames <- calls, pc <- phase, result <- decoded

-----------------------------------------------------------------------------
(***************************************************************************)
(* What xml::Reader makes of the pieces.                                   *)
(***************************************************************************)
RECURSIVE Trim(_)
Trim(chars) == IF chars # <<>> /\ Head(chars) = "ws" THEN Trim(Tail(chars)) ELSE chars

NewNode == [key |-> "none", value |-> <<>>, child |-> 0, next |-> 0]

\* The nodes made, the elements open, and of each the last child.
NoNodes == [nodes |-> <<>>, open |-> <<>>, last |-> <<>>]

\* A new node is the child of the innermost element or the next of its last child.
LinkedTo(r, n) ==
    IF r.open = <<>> THEN r.nodes
    ELSE IF r.last[Len(r.last)] = 0 THEN [r.nodes EXCEPT ![r.open[Len(r.open)]].child = n]
    ELSE [r.nodes EXCEPT ![r.last[Len(r.last)]].next = n]
WithNode(r, node) ==
    LET n == Len(r.nodes) + 1 IN
    [r EXCEPT !.nodes = Append(LinkedTo(r, n), node),
              !.last = IF r.open = <<>> THEN @ ELSE [@ EXCEPT ![Len(@)] = n]]
Entering(r) == [r EXCEPT !.open = Append(@, Len(r.nodes)), !.last = Append(@, 0)]

\* White space between tags and before a text is skipped.
WithPiece(r, piece) ==
    CASE piece.kind = "open" -> Entering(WithNode(r, [NewNode EXCEPT !.key = piece.name]))
      [] piece.kind = "close" -> [r EXCEPT !.open = Front(@), !.last = Front(@)]
      [] piece.kind = "cdata" -> WithNode(r, [NewNode EXCEPT !.value = piece.chars])
      [] piece.kind = "data" ->
            IF Trim(piece.chars) = <<>> THEN r
            ELSE [r EXCEPT !.nodes[r.open[Len(r.open)]].value = Trim(piece.chars)]
      [] OTHER -> r

NodesOf(pieces) == FoldLeft(WithPiece, NoNodes, pieces).nodes

-----------------------------------------------------------------------------
(***************************************************************************)
(* Objects of the same type as one that was encoded.                       *)
(***************************************************************************)
Old == <<"x", "x", "x">>
RECURSIVE Made(_, _, _)

\* It is just made, or was used before.  An empty vector or map has elements like `of'.
Made(v, used, of) ==
    LET Of(w) == Made(w, used, of)
        first == IF v.elements # <<>> THEN v.elements[1]
                 ELSE IF v.kind = "map" THEN Pair(of, of) ELSE of
    IN  CASE v.kind = "bool" -> Bool(IF used THEN "true" ELSE "false")
          [] v.kind \in {"number", "string"} -> [v EXCEPT !.chars = IF used THEN Old ELSE <<>>]
          [] v.kind = "struct" ->
                Struct([k \in DOMAIN v.members |-> Member(v.members[k].name, used, Of(v.members[k].value))])
          [] v.kind = "pair" -> Struct(<<Member("key", used, Of(v.key)), Member("value", used, Of(v.value))>>)
          [] OTHER -> [kind |-> v.kind, of |-> Made(first, FALSE, of),
                       elements |-> IF used THEN <<Made(first, TRUE, of)>> ELSE <<>>]

\* Do all elements of a vector or map have one type?
RECURSIVE OneType(_)
OneType(v) ==
    LET Type(w) == Made(w, FALSE, Number) IN
    CASE v.kind = "struct" -> \A k \in DOMAIN v.members : OneType(v.members[k].value)
      [] v.kind = "pair" -> OneType(v.key) /\ OneType(v.value)
      [] v.kind \in {"vector", "map"} ->
            \A k \in DOMAIN v.elements : OneType(v.elements[k]) /\ Type(v.elements[k]) = Type(v.elements[1])
      [] OTHER -> TRUE

-----------------------------------------------------------------------------
\* XMLDecoder's constructor: parse.
Construct ==
    /\ result /\ phase = "none" /\ OneType(object)
    /\ nodes' = NodesOf(str_) /\ current_' = 1
    /\ case_insensitive_' \in BOOLEAN
    /\ \E used \in BOOLEAN, of \in {Number, Bool("true")} : value' = Made(object, used, of)
    /\ start' = value'
    /\ phase' = "idle"
    /\ UNCHANGED <<calls, decoded>>

InitBoth ==
    /\ Init
    /\ nodes = <<>> /\ case_insensitive_ = FALSE /\ current_ = 0
    /\ calls = <<>> /\ phase = "none" /\ value = Number /\ decoded = FALSE /\ start = Number

NextBoth == \/ Next /\ UNCHANGED decoderVars
            \/ Construct /\ UNCHANGED vars
            \/ D!Next /\ UNCHANGED <<vars, start>>

RoundTrip == InitBoth /\ [][NextBoth]_<<vars, decoderVars>>

-----------------------------------------------------------------------------
\* The member that is read for the name: the first that is written with one alike.
Written(v, name) == SelectSeq(v.members, LAMBDA m : m.has /\ MCAlike(case_insensitive_, name, m.name))

\* A string is read without the white space it begins with.
Text(v) == Trim(v.chars)

\* What the object s is when v has been decoded into it.  A string of white space
\* only leaves s as it is, and so does a vector<bool> without elements; one with
\* elements is appended.  Every other member that is in the text replaces what
\* was there; elements and entries are decoded into new ones; the first of two
\* keys that have become equal stays.
Says(s, v) == ~(v.kind = "string" /\ Text(v) = <<>>) /\ ~(D!IsBools(s) /\ v.elements = <<>>)

RECURSIVE Filled(_, _)
Filled(s, v) ==
    CASE v.kind \in {"number", "bool"} -> v
      [] v.kind = "string" -> IF Text(v) = <<>> THEN s ELSE String(Text(v))
      [] v.kind = "struct" ->
            [s EXCEPT !.members = [k \in DOMAIN s.members |->
                LET m == s.members[k]
                    w == Written(v, m.name)
                IN  IF w = <<>> THEN m
                    ELSE Member(m.name, m.has \/ Says(m.value, w[1].value), Filled(m.value, w[1].value))]]
      [] v.kind = "pair" -> Filled(s, Struct(<<Member("key", TRUE, v.key), Member("value", TRUE, v.value)>>))
      [] v.kind = "vector" ->
            [s EXCEPT !.elements = (IF D!IsBools(s) THEN @ ELSE <<>>)
                                      \o [k \in DOMAIN v.elements |-> Filled(s.of, v.elements[k])]]
      [] v.kind = "map" ->
            FoldLeft(LAMBDA m, p : LET e == Filled(s.of, p) IN
                        IF \E k \in DOMAIN m.elements : m.elements[k].members[1].value = e.members[1].value
                        THEN m ELSE [m EXCEPT !.elements = Append(@, e)],
                     [s EXCEPT !.elements = <<>>], v.elements)

\* Decoding what was encoded succeeds, and gives a struct that is the one encoded
\* in every member that was set, but for what is said above.
ElementsComeBack ==
    phase = "done" => /\ decoded
                      /\ object.kind = "struct" => value = Filled(start, object)

\* So does operator>> of a vector or a map, which reads what operator<< has
\* written for it, as where it is the member of a struct.
TopLevelComesBack ==
    phase = "done" /\ object.kind \in {"vector", "map"} => value = Filled(start, object)

=============================================================================
