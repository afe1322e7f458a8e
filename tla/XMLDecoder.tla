----------------------------- MODULE XMLDecoder -----------------------------
(***************************************************************************)
(* XMLDecoder: it fills an object from the nodes that xml::Reader has made *)
(* of a text.  The templates of decoder.h call each other as the type of   *)
(* the object has it; all of them share the cursor current_, which each    *)
(* moves and sets back.                                                    *)
(*                                                                         *)
(* A value carries the default of its type: a vector or map knows the      *)
(* element T() it would append, an entry of a map is a struct with the     *)
(* members key and value.                                                  *)
(***************************************************************************)
EXTENDS Integers, Sequences, SequencesExt

CONSTANT Alike(_, _, _)     \* Alike(i, n, m): is n the name m, ignoring case if i?

VARIABLES
    nodes,              \* xml::Reader: values_; node 1 is <serialflex>
    case_insensitive_,
    current_,           \* a node, or NULL
    frames,             \* the decodeValue calls in progress
    pc,                 \* "idle"; "walk"; "done": operator>> has returned
    value,              \* the object that is given to operator>>, then the one filled
    result              \* what operator>> has returned

vars == <<nodes, case_insensitive_, current_, frames, pc, value, result>>

NULL == 0

(***************************************************************************)
(* A node has its key, <<>> or its text, and the links of GenericNode.     *)
(* A frame has the value being filled, which of its members is next, the   *)
(* cursor to be set back, whether it is that of operator>>, and the node   *)
(* that the loop over a map in operator>> has reached.                     *)
(***************************************************************************)
Frame(v, parent, root, child) ==
    [value |-> v, i |-> 1, parent |-> parent, root |-> root, child |-> child]

IsScalar(v) == v.kind \in {"number", "bool", "string"}
IsLoop(v) == v.kind \in {"vector", "map"}
IsBools(v) == v.kind = "vector" /\ v.of.kind = "bool"

-----------------------------------------------------------------------------
(***************************************************************************)
(* Nodes.                                                                  *)
(***************************************************************************)
getChild(n) == IF n = NULL THEN NULL ELSE nodes[n].child
getNext(n) == IF n = NULL THEN NULL ELSE nodes[n].next

\* The first child of n with that name.  "none" is the name NULL: n itself.
getObjectItem(n, name) ==
    LET from[c \in 0 .. Len(nodes)] ==
            IF c = NULL \/ Alike(case_insensitive_, name, nodes[c].key) THEN c ELSE from[nodes[c].next]
    IN  IF n = NULL \/ name = "none" THEN n ELSE from[nodes[n].child]

\* n and the siblings behind it.
SiblingsFrom[n \in 0 .. Len(nodes)] ==
    IF n = NULL THEN <<>> ELSE <<n>> \o SiblingsFrom[nodes[n].next]

\* convertInt, convertUint and convertDouble: no text is 0.
NumberOf(chars) == [kind |-> "number", chars |-> chars]

item2Bool(n) ==
    [kind |-> "bool", chars |-> IF nodes[n].value \in {<<>>, <<"false">>} THEN <<"false">> ELSE <<"true">>]

\* dealWithString: one pass; a reference that is expanded is not looked at again.
Expand(c) == CASE c = "&lt;" -> "lt"
               [] c = "&gt;" -> "gt"
               [] c = "&apos;" -> "apos"
               [] c = "&quot;" -> "quot"
               [] c = "&amp;" -> "amp"
               [] OTHER -> c
StringOf(chars) == [kind |-> "string", chars |-> chars]
dealWithString(chars) == [k \in DOMAIN chars |-> Expand(chars[k])]

\* What a scalar, or a vector<bool>, is after decodeValue at the node n: a string
\* is that of the node, or of its first child, a CDATA section, or what it was;
\* a vector<bool> is not cleared.
Decoded(v, n) ==
    CASE v.kind = "number" -> NumberOf(nodes[n].value)
      [] v.kind = "bool" -> item2Bool(n)
      [] v.kind = "string" ->
            IF nodes[n].value # <<>> THEN StringOf(dealWithString(nodes[n].value))
            ELSE IF nodes[n].child # NULL THEN StringOf(nodes[nodes[n].child].value) ELSE v
      [] IsBools(v) ->
            LET children == SiblingsFrom[nodes[n].child] IN
            [v EXCEPT !.elements = @ \o [k \in DOMAIN children |-> item2Bool(children[k])]]

\* Does it set *has_value?
SetsHas(v, n) == CASE v.kind = "string" -> nodes[n].value # <<>> \/ nodes[n].child # NULL
                   [] IsBools(v) -> nodes[n].child # NULL
                   [] OTHER -> TRUE

-----------------------------------------------------------------------------
(***************************************************************************)
(* The calls.                                                              *)
(***************************************************************************)
Running == frames[Len(frames)]
Filled == Running.value
Member == Filled.members[Running.i]

InMembers == pc = "walk" /\ Filled.kind = "struct" /\ Running.i <= Len(Filled.members)

\* The loop of operator>> over a map has a variable of its own; those of
\* decodeValue, and of operator>> over a vector, move current_.
Cursor == IF Running.root /\ Filled.kind = "map" THEN Running.child ELSE current_
InElements == pc = "walk" /\ IsLoop(Filled) /\ Cursor # NULL

AtOnce(v) == IsScalar(v) \/ IsBools(v)
Top(f) == [frames EXCEPT ![Len(frames)] = f]

\* The frame f with its member i as it is after decodeValue.
WithMember(f, i, v, has) ==
    [f EXCEPT !.value.members[i].value = v, !.value.members[i].has = has, !.i = @ + 1]

\* std::map::insert leaves an entry of that key as it is.
Inserted(m, entry) ==
    IF \E k \in DOMAIN m.elements : m.elements[k].members[1].value = entry.members[1].value
    THEN m ELSE [m EXCEPT !.elements = Append(@, entry)]

\* The frame f with one more element.
WithElement(f, v) ==
    [f EXCEPT !.value = IF f.value.kind = "map" THEN Inserted(f.value, v)
                        ELSE [f.value EXCEPT !.elements = Append(@, v)],
              !.child = getNext(f.child)]

\* A vector or map is cleared.
Cleared(v) == IF IsLoop(v) THEN [v EXCEPT !.elements = <<>>] ELSE v

\* decodeValue of a struct, vector or map that is found at the node n.
Enter(v, n) == /\ frames' = Append(frames, Frame(Cleared(v), current_, FALSE, NULL))
               /\ current_' = IF IsLoop(v) THEN getChild(n) ELSE n

-----------------------------------------------------------------------------
\* operator>>.  An object of the reader's tree whose members come one by one, or
\* the loop over the elements of a vector or map.  The constructor asserts that there
\* is a node; without one nothing is done.
DecodeRoot ==
    /\ pc = "idle" /\ current_ # NULL
    /\ frames' = <<Frame(Cleared(value), current_, TRUE, getChild(current_))>>
    /\ current_' = IF value.kind = "vector" THEN getChild(current_) ELSE current_
    /\ pc' = "walk"
    /\ UNCHANGED <<nodes, case_insensitive_, value, result>>

\* serialize calls convert for one member after the other.
MemberAtOnce ==
    /\ InMembers /\ AtOnce(Member.value)
    /\ LET n == getObjectItem(current_, Member.name) IN
       frames' = Top(IF n = NULL THEN [Running EXCEPT !.i = @ + 1]
                     ELSE WithMember(Running, Running.i, Decoded(Member.value, n),
                                     Member.has \/ SetsHas(Member.value, n)))
    /\ UNCHANGED <<nodes, case_insensitive_, current_, pc, value, result>>

MemberMissing ==
    /\ InMembers /\ ~AtOnce(Member.value)
    /\ getObjectItem(current_, Member.name) = NULL
    /\ frames' = Top([Running EXCEPT !.i = @ + 1])
    /\ UNCHANGED <<nodes, case_insensitive_, current_, pc, value, result>>

MemberEntered ==
    /\ InMembers /\ ~AtOnce(Member.value)
    /\ LET n == getObjectItem(current_, Member.name) IN n # NULL /\ Enter(Member.value, n)
    /\ UNCHANGED <<nodes, case_insensitive_, pc, value, result>>

\* Elements have no name, but operator>> looks for one: in the element.
ElementAt == getObjectItem(current_, IF Running.root THEN "value" ELSE "none")

\* T item = T(), decodeValue, push_back
ElementAtOnce ==
    /\ InElements /\ Filled.kind = "vector"
    /\ AtOnce(Filled.of) \/ ElementAt = NULL
    /\ frames' = Top(WithElement(Running, IF ElementAt = NULL THEN Filled.of
                                          ELSE Decoded(Filled.of, ElementAt)))
    /\ current_' = getNext(current_)
    /\ UNCHANGED <<nodes, case_insensitive_, pc, value, result>>

ElementEntered ==
    /\ InElements /\ Filled.kind = "vector"
    /\ ~AtOnce(Filled.of) /\ ElementAt # NULL
    /\ Enter(Filled.of, ElementAt)
    /\ UNCHANGED <<nodes, case_insensitive_, pc, value, result>>

\* An entry's key and value are looked for at current_, which is the element in
\* decodeValue but the parent of them all in operator>>.
EntryEntered ==
    /\ InElements /\ Filled.kind = "map"
    /\ Enter(Filled.of, current_)
    /\ UNCHANGED <<nodes, case_insensitive_, pc, value, result>>

\* A call has come to its end, current_ is set back, and its value is where it
\* belongs in that of its caller, whose loop goes on.
Ended == \/ Filled.kind = "struct" /\ Running.i > Len(Filled.members)
         \/ IsLoop(Filled) /\ Cursor = NULL
Caller == frames[Len(frames) - 1]

\* A mutant: current_ is left at the end of the list of elements.
LeftBehind == current_
SetBack == IF IsLoop(Caller.value) /\ ~(Caller.root /\ Caller.value.kind = "map")
           THEN getNext(Running.parent) ELSE Running.parent

Return ==
    /\ pc = "walk" /\ Ended /\ Len(frames) > 1
    /\ frames' = Append(SubSeq(frames, 1, Len(frames) - 2),
                        IF IsLoop(Caller.value) THEN WithElement(Caller, Filled)
                        ELSE WithMember(Caller, Caller.i, Filled, TRUE))
    /\ current_' = SetBack
    /\ UNCHANGED <<nodes, case_insensitive_, pc, value, result>>

\* What current_ is when the loop of operator>> is over: a vector sets it back.
AfterRoot == IF Filled.kind = "vector" THEN Running.parent ELSE current_

\* operator>> returns whether current_ is where it was.  There is no error: a text
\* with one has no nodes, against the assert of the constructor.
ReturnRoot ==
    /\ pc = "walk" /\ Ended /\ Len(frames) = 1
    /\ current_' = AfterRoot
    /\ result' = (current_' = Running.parent)
    /\ value' = Filled /\ frames' = <<>> /\ pc' = "done"
    /\ UNCHANGED <<nodes, case_insensitive_>>

Next == \/ DecodeRoot \/ MemberAtOnce \/ MemberMissing \/ MemberEntered
        \/ ElementAtOnce \/ ElementEntered \/ EntryEntered \/ Return \/ ReturnRoot

=============================================================================
