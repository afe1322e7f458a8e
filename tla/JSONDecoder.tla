---------------------------- MODULE JSONDecoder -----------------------------
(***************************************************************************)
(* JSONDecoder: it fills an object from the nodes that json::Reader has    *)
(* made of a text.  The templates of decoder.h call each other as the type *)
(* of the object has it; all of them share the cursor current_, which each *)
(* moves and sets back.                                                    *)
(*                                                                         *)
(* A value carries the default of its type: a vector knows the element T() *)
(* that it is resized with, a map the V() of a new entry.                  *)
(***************************************************************************)
EXTENDS Integers, Sequences, SequencesExt

CONSTANTS
    Alike(_, _, _),     \* Alike(i, n, m): is n the key m, ignoring case if i?
    Unescape(_),        \* parse_string
    ToNumber(_),        \* convertInt, convertUint and convertDouble
    IsTrue(_)           \* Is the number that characters begin with, atoi's, not 0?

VARIABLES
    nodes,              \* json::Reader: values_; node 1 is the root
    convert_by_type_,
    case_insensitive_,
    current_,           \* a node, or NULL
    frames,             \* the decodeValue calls in progress
    pc,                 \* "idle"; "walk"; "done": operator>> has returned
    value,              \* the object that is given to operator>>, then the one filled
    result              \* what operator>> has returned

vars == <<nodes, convert_by_type_, case_insensitive_, current_, frames, pc, value, result>>
flags == <<nodes, convert_by_type_, case_insensitive_>>

NULL == 0

(***************************************************************************)
(* A frame has the value being filled, which of its members or elements is *)
(* next, the cursor to be set back, whether it is that of operator>>, and  *)
(* the node that the loop over a map in operator>> has reached.            *)
(***************************************************************************)
Frame(v, parent, root, child) ==
    [value |-> v, i |-> 1, parent |-> parent, root |-> root, child |-> child]

IsScalar(v) == v.kind \in {"number", "bool", "string"}
IsBools(v) == v.kind = "vector" /\ v.of.kind = "bool"
AtOnce(v) == IsScalar(v) \/ IsBools(v)

-----------------------------------------------------------------------------
(***************************************************************************)
(* Nodes: type, key, whether it is not NULL, value, child, next.           *)
(***************************************************************************)
getChild(n) == IF n = NULL THEN NULL ELSE nodes[n].child
getNext(n) == IF n = NULL THEN NULL ELSE nodes[n].next

SiblingsFrom[n \in 0 .. Len(nodes)] ==
    IF n = NULL THEN <<>> ELSE <<n>> \o SiblingsFrom[nodes[n].next]
Children(n) == SiblingsFrom[nodes[n].child]
getObjectSize(n) == Len(Children(n))

\* The first child of n with that name.
getObjectItem(n, name) ==
    LET Has(c) == nodes[c].keyed /\ Alike(case_insensitive_, name, nodes[c].key)
    IN  IF SelectSeq(Children(n), Has) = <<>> THEN NULL ELSE SelectSeq(Children(n), Has)[1]

checkItemType(n, type) ==
    IF ~convert_by_type_ /\ nodes[n].type # "null" THEN TRUE ELSE nodes[n].type = type

item2Bool(n) ==
    LET chars == nodes[n].value
        true == \/ nodes[n].type = "bool" /\ chars = <<"true">>
                \/ ~convert_by_type_ /\ nodes[n].type = "number" /\ IsTrue(ToNumber(chars))
                \/ ~convert_by_type_ /\ nodes[n].type = "string" /\ IsTrue(Unescape(chars))
    IN  [kind |-> "bool", chars |-> IF true THEN <<"true">> ELSE <<"false">>]

\* Does decodeValue take the node n for a v?
Takes(v, n) ==
    CASE v.kind \in {"number", "bool"} -> checkItemType(n, v.kind)
      [] v.kind = "string" -> checkItemType(n, "string") /\ nodes[n].value # <<>>
      [] IsBools(v) -> checkItemType(n, "array") /\ checkItemType(n, "bool") /\ nodes[n].child # NULL

\* What a scalar or vector<bool> is then.  Of a vector<bool> the loop asks for the
\* type of the array, not of an element; nothing is cleared.
Decoded(v, n) ==
    CASE ~Takes(v, n) -> v
      [] v.kind = "number" -> [v EXCEPT !.chars = ToNumber(nodes[n].value)]
      [] v.kind = "bool" -> item2Bool(n)
      [] v.kind = "string" -> [v EXCEPT !.chars = Unescape(nodes[n].value)]
      [] IsBools(v) -> [v EXCEPT !.elements = @ \o [k \in DOMAIN Children(n) |-> item2Bool(Children(n)[k])]]

-----------------------------------------------------------------------------
(***************************************************************************)
(* The calls.                                                              *)
(***************************************************************************)
Running == frames[Len(frames)]
Filled == Running.value
Member == Filled.members[Running.i]
Top(f) == [frames EXCEPT ![Len(frames)] = f]

InMembers == pc = "walk" /\ Filled.kind = "struct" /\ Running.i <= Len(Filled.members)
InVector == pc = "walk" /\ Filled.kind = "vector" /\ current_ # NULL /\ Running.i <= Len(Filled.elements)

\* The loop of operator>> over a map has a variable of its own.
Cursor == IF Running.root THEN Running.child ELSE current_
InMap == pc = "walk" /\ Filled.kind = "map" /\ Cursor # NULL

\* std::vector::resize
Resized(v, size) ==
    [v EXCEPT !.elements = [k \in 1 .. size |-> IF k <= Len(v.elements) THEN v.elements[k] ELSE v.of]]

\* A mutant: also when there is no element.
ResizedAlways(v, n) ==
    CASE v.kind = "vector" -> Resized(v, getObjectSize(n))
      [] v.kind = "map" -> [v EXCEPT !.elements = <<>>]
      [] OTHER -> v
\* A map is cleared; a vector is resized if there are elements.
Prepared(v, n) ==
    CASE v.kind = "vector" -> IF getObjectSize(n) > 0 THEN Resized(v, getObjectSize(n)) ELSE v
      [] v.kind = "map" -> [v EXCEPT !.elements = <<>>]
      [] OTHER -> v

\* std::map::insert leaves an entry of that key as it is.
Inserted(m, key, v) ==
    IF \E k \in DOMAIN m.elements : m.elements[k].key = key THEN m
    ELSE [m EXCEPT !.elements = Append(@, [key |-> key, value |-> v])]

\* The frame f when what it had decoded is v: a member of which `has' is set, or
\* not; an element; or an entry with the key of the node n.
WithMember(f, v, has) ==
    [f EXCEPT !.value.members[f.i].value = v, !.value.members[f.i].has = @ \/ has, !.i = @ + 1]
WithElement(f, v) == [f EXCEPT !.value.elements[f.i] = v, !.i = @ + 1]
WithEntry(f, n, v) == [f EXCEPT !.value = Inserted(@, nodes[n].key, v), !.child = getNext(@)]

\* decodeValue of a struct, vector or map that is found at the node n.
Enter(v, n) == /\ frames' = Append(frames, Frame(Prepared(v, n), current_, FALSE, NULL))
               /\ current_' = IF v.kind = "struct" THEN n ELSE getChild(n)

-----------------------------------------------------------------------------
\* operator>>, when the text had an error: the constructor asserts that it has not.
DecodeNothing ==
    /\ pc = "idle" /\ current_ = NULL
    /\ pc' = "done" /\ result' = FALSE
    /\ UNCHANGED <<flags, current_, frames, value>>

DecodeRoot ==
    /\ pc = "idle" /\ current_ # NULL
    /\ frames' = <<Frame(Prepared(value, current_), current_, TRUE, getChild(current_))>>
    /\ current_' = IF value.kind = "vector" THEN getChild(current_) ELSE current_
    /\ pc' = "walk"
    /\ UNCHANGED <<flags, value, result>>

\* serialize calls convert for one member after the other.
MemberAtOnce ==
    /\ InMembers /\ AtOnce(Member.value)
    /\ LET n == getObjectItem(current_, Member.name) IN
       frames' = Top(IF n = NULL THEN WithMember(Running, Member.value, FALSE)
                     ELSE WithMember(Running, Decoded(Member.value, n), Takes(Member.value, n)))
    /\ UNCHANGED <<flags, current_, pc, value, result>>

MemberMissing ==
    /\ InMembers /\ ~AtOnce(Member.value)
    /\ getObjectItem(current_, Member.name) = NULL
    /\ frames' = Top(WithMember(Running, Member.value, FALSE))
    /\ UNCHANGED <<flags, current_, pc, value, result>>

\* No type is asked for: a struct, vector or map may be decoded from any node.
MemberEntered ==
    /\ InMembers /\ ~AtOnce(Member.value)
    /\ LET n == getObjectItem(current_, Member.name) IN n # NULL /\ Enter(Member.value, n)
    /\ UNCHANGED <<flags, pc, value, result>>

\* Elements are decoded where they are, old ones too.
ElementAtOnce ==
    /\ InVector /\ AtOnce(Filled.of)
    /\ frames' = Top(WithElement(Running, Decoded(Filled.elements[Running.i], current_)))
    /\ current_' = getNext(current_)
    /\ UNCHANGED <<flags, pc, value, result>>

ElementEntered ==
    /\ InVector /\ ~AtOnce(Filled.of)
    /\ Enter(Filled.elements[Running.i], current_)
    /\ UNCHANGED <<flags, pc, value, result>>

\* A mutant: operator>>, too, takes the value at the cursor.
EntryAtCursor == Cursor
\* Where an entry's value is: in operator>> it is looked for by its key, so that
\* the first of the keys that are alike is found, and an element has none.
EntryAt ==
    IF Running.root THEN getObjectItem(current_, nodes[Cursor].key) ELSE Cursor

EntryAtOnce ==
    /\ InMap
    /\ AtOnce(Filled.of) \/ EntryAt = NULL
    /\ frames' = Top(WithEntry(Running, Cursor, IF EntryAt = NULL THEN Filled.of ELSE Decoded(Filled.of, EntryAt)))
    /\ current_' = IF Running.root THEN current_ ELSE getNext(current_)
    /\ UNCHANGED <<flags, pc, value, result>>

EntryEntered ==
    /\ InMap /\ ~AtOnce(Filled.of) /\ EntryAt # NULL
    /\ Enter(Filled.of, EntryAt)
    /\ UNCHANGED <<flags, pc, value, result>>

\* A call has come to its end, current_ is set back, and its value is where it
\* belongs in that of its caller, whose loop goes on.
Ended == ~InMembers /\ ~InVector /\ ~InMap
Caller == frames[Len(frames) - 1]
WithValue(v) ==
    CASE Caller.value.kind = "struct" -> WithMember(Caller, v, TRUE)
      [] Caller.value.kind = "vector" -> WithElement(Caller, v)
      [] Caller.value.kind = "map" ->
            WithEntry(Caller, IF Caller.root THEN Caller.child ELSE Running.parent, v)

\* A mutant: current_ is left at the end of the list of elements.
LeftBehind == current_
SetBack == IF Caller.value.kind = "vector" \/ (Caller.value.kind = "map" /\ ~Caller.root)
           THEN getNext(Running.parent) ELSE Running.parent

Return ==
    /\ pc = "walk" /\ Ended /\ Len(frames) > 1
    /\ frames' = Append(SubSeq(frames, 1, Len(frames) - 2), WithValue(Filled))
    /\ current_' = SetBack
    /\ UNCHANGED <<flags, pc, value, result>>

\* operator>> returns whether current_ is where it was.
ReturnRoot ==
    /\ pc = "walk" /\ Ended /\ Len(frames) = 1
    /\ current_' = IF Filled.kind = "vector" THEN Running.parent ELSE current_
    /\ result' = (current_' = Running.parent)
    /\ value' = Filled /\ frames' = <<>> /\ pc' = "done"
    /\ UNCHANGED flags

Next == \/ DecodeNothing \/ DecodeRoot \/ MemberAtOnce \/ MemberMissing \/ MemberEntered
        \/ ElementAtOnce \/ ElementEntered \/ EntryAtOnce \/ EntryEntered \/ Return \/ ReturnRoot

=============================================================================
