----------------------------- MODULE XMLWriter -----------------------------
(***************************************************************************)
(* XMLEncoder over xml::Writer: the encoder walks a value and calls the    *)
(* writer, which keeps nothing of the elements that are open but their     *)
(* number, layer_: that each is closed by its own name, and that nothing   *)
(* is left open, is the encoder's doing.                                   *)
(*                                                                         *)
(* What is written is a sequence of pieces: a tag, the text in an element, *)
(* a CDATA section, or white space of a formatted text.                    *)
(***************************************************************************)
EXTENDS Integers, Sequences, SequencesExt

CONSTANTS
    Names,          \* of elements
    Values          \* all values: those encoded and those inside of them

VARIABLES
    object,         \* the value operator<< is given
    formatted_,     \* Writer: are there tabs and line ends?
    layer_,         \* Writer: how many elements are open
    str_,           \* Writer: the pieces written
    frames,         \* XMLEncoder: the encodeValue calls in progress
    pc,             \* "idle"; "walk"; "done": operator<< has returned
    result,         \* what operator<< has returned
    text            \* history: what str_ is as an XML text

vars == <<object, formatted_, layer_, str_, frames, pc, result, text>>

T == INSTANCE XMLText WITH complete <- result

-----------------------------------------------------------------------------
(***************************************************************************)
(* Values.  A number, bool or string has its characters, a struct its      *)
(* members with their `has'; a vector has elements and a map pairs.        *)
(***************************************************************************)
IsScalar(v) == v.kind \in {"number", "bool", "string"}

Named(name, v) == [name |-> name, value |-> v]

\* A mutant: has is not asked.
ItemsSetOrNot(v) ==
    CASE v.kind = "struct" -> [k \in DOMAIN v.members |-> Named(v.members[k].name, v.members[k].value)]
      [] v.kind \in {"vector", "map"} -> [k \in DOMAIN v.elements |-> Named("value", v.elements[k])]
      [] v.kind = "pair" -> <<Named("key", v.key), Named("value", v.value)>>

\* What encodeValue writes inside of an element, in order.
ItemsOf(v) ==
    CASE v.kind = "struct" -> LET Has(m) == m.has
                                  set == SelectSeq(v.members, Has)
                              IN  [k \in DOMAIN set |-> Named(set[k].name, set[k].value)]
      [] v.kind \in {"vector", "map"} -> [k \in DOMAIN v.elements |-> Named("value", v.elements[k])]
      [] v.kind = "pair" -> <<Named("key", v.key), Named("value", v.value)>>

\* operator<< of a vector<bool> does not compile: its elements have no address.
IsBools(v) == v.kind = "vector" /\ \E k \in DOMAIN v.elements : v.elements[k].kind = "bool"
Object == {v \in Values : v.kind \in {"struct", "vector", "map"} /\ ~IsBools(v)}
Item == [name : Names, value : Values]
Frame == [name : Names, items : Seq(Item), i : Nat]

ASSUME NamesAssumption == {"serialflex", "value", "key"} \subseteq Names
ASSUME ValuesAssumption ==
    \A v \in Values : IF IsScalar(v) THEN v.chars \in Seq(T!Plain \cup T!Special)
                                     ELSE ItemsOf(v) \in Seq(Item)

-----------------------------------------------------------------------------
(***************************************************************************)
(* xml::Writer.                                                            *)
(***************************************************************************)
White == [kind |-> "white", name |-> "none", chars |-> <<>>]
Declaration == [White EXCEPT !.kind = "declaration"]

Newline == IF formatted_ THEN <<White>> ELSE <<>>
Tab(layer) == IF formatted_ /\ layer > 0 THEN <<White>> ELSE <<>>

Write(pieces) == str_' = str_ \o pieces

startObject(name) ==
    /\ Write(Tab(layer_) \o <<T!OpenTag(name)>> \o Newline)
    /\ text' = T!After(text, T!OpenTag(name))
    /\ layer_' = layer_ + 1

\* A mutant: the layer is not left.
EndObjectInLayer(name) ==
    /\ Write(Tab(layer_) \o <<T!CloseTag(name)>> \o Newline)
    /\ text' = T!After(text, T!CloseTag(name))
    /\ UNCHANGED layer_

endObject(name) ==
    /\ layer_' = layer_ - 1
    /\ Write(Tab(layer_') \o <<T!CloseTag(name)>> \o Newline)
    /\ text' = T!After(text, T!CloseTag(name))

Escape(c) == CASE c = "lt" -> "&lt;"
               [] c = "gt" -> "&gt;"
               [] c = "apos" -> "&apos;"
               [] c = "quot" -> "&quot;"
               [] c = "amp" -> "&amp;"
               [] OTHER -> c

\* A mutant: what is behind the first ]] is not looked at.
OpensCdata(s) == IsPrefix(<<"bang", "lbr", "CDATA", "lbr">>, s) /\ \E k \in 1 .. Len(s) - 1 :
                    s[k] = "rbr" /\ s[k + 1] = "rbr"

\* Does it begin with ![CDATA[, and is the first ]] in it at its end?
IsCdata(s) == /\ IsPrefix(<<"bang", "lbr", "CDATA", "lbr">>, s)
              /\ Len(s) > 1 /\ s[Len(s)] = "rbr" /\ s[Len(s) - 1] = "rbr"
              /\ \A k \in 1 .. Len(s) - 2 : ~(s[k] = "rbr" /\ s[k + 1] = "rbr")

\* value: numbers have no special characters.
PieceOf(v) == IF v.kind = "string" /\ IsCdata(v.chars) THEN T!Cdata(v.chars)
              ELSE T!Data([k \in DOMAIN v.chars |-> Escape(v.chars[k])])

\* startKey, value, endKey
element(name, v) ==
    /\ Write(Tab(layer_) \o <<T!OpenTag(name), PieceOf(v), T!CloseTag(name)>> \o Newline)
    /\ text' = T!After(T!After(T!After(text, T!OpenTag(name)), PieceOf(v)), T!CloseTag(name))
    /\ UNCHANGED layer_

-----------------------------------------------------------------------------
(***************************************************************************)
(* XMLEncoder.                                                             *)
(***************************************************************************)
Current == frames[Len(frames)]
NextItem == Current.items[Current.i + 1]
Walks == pc = "walk" /\ Current.i < Len(Current.items)

\* The item that is next counts as written.
Begun == [frames EXCEPT ![Len(frames)].i = @ + 1]
Entered(name, v) == [name |-> name, items |-> ItemsOf(v), i |-> 0]

IsEmpty(v) == v.kind \in {"vector", "map"} /\ v.elements = <<>>

\* operator<<
EncodeRoot ==
    /\ pc = "idle" /\ ~IsEmpty(object)
    /\ startObject("serialflex")
    /\ frames' = <<Entered("serialflex", object)>> /\ pc' = "walk"
    /\ UNCHANGED <<object, formatted_, result>>

\* A mutant: the counter is asked for the result.
EmptyAsWhole ==
    /\ pc = "idle" /\ IsEmpty(object)
    /\ pc' = "done" /\ result' = (layer_ = 0)
    /\ UNCHANGED <<object, formatted_, layer_, str_, frames, text>>

\* An empty vector or map gives false.  The declaration has been written.
EncodeEmpty ==
    /\ pc = "idle" /\ IsEmpty(object)
    /\ pc' = "done"
    /\ UNCHANGED <<object, formatted_, layer_, str_, frames, result, text>>

EncodeScalar ==
    /\ Walks /\ IsScalar(NextItem.value)
    /\ element(NextItem.name, NextItem.value)
    /\ frames' = Begun
    /\ UNCHANGED <<object, formatted_, pc, result>>

\* encodeValue of a struct, vector or map, or a map's loop at a pair
OpenContainer ==
    /\ Walks /\ ~IsScalar(NextItem.value)
    /\ startObject(NextItem.name)
    /\ frames' = Append(Begun, Entered(NextItem.name, NextItem.value))
    /\ UNCHANGED <<object, formatted_, pc, result>>

\* The end of a container; that of the root returns writerResult.
CloseContainer ==
    /\ pc = "walk" /\ ~Walks
    /\ endObject(Current.name)
    /\ frames' = SubSeq(frames, 1, Len(frames) - 1)
    /\ pc' = IF Len(frames) = 1 THEN "done" ELSE "walk"
    /\ result' = (Len(frames) = 1 /\ layer_' = 0)
    /\ UNCHANGED <<object, formatted_>>

Init ==
    /\ object \in Object
    /\ formatted_ \in BOOLEAN
    /\ layer_ = 0 /\ str_ = <<Declaration>> \o Newline
    /\ frames = <<>> /\ pc = "idle" /\ result = FALSE
    /\ text = T!NoText

Next == EncodeRoot \/ EncodeEmpty \/ EncodeScalar \/ OpenContainer \/ CloseContainer

Spec == Init /\ [][Next]_vars

-----------------------------------------------------------------------------
\* Every variable has its type, and the writer counts as many open elements as
\* the encoder's recursion is deep.
TypeOK ==
    /\ object \in Object /\ formatted_ \in BOOLEAN
    /\ layer_ \in Nat /\ layer_ = Len(frames)
    /\ str_ \in Seq(T!Piece \cup {White, Declaration})
    /\ frames \in Seq(Frame)
    /\ pc \in {"idle", "walk", "done"} /\ result \in BOOLEAN
    /\ text \in T!State

\* operator<< answers true exactly when it has written a whole document, although
\* all it asks is whether layer_ is 0.
TrueIfWhole == result <=> pc = "done" /\ text.want = "end"

\* The encoder implements the promise of XMLText: each call extends a well-formed
\* document, whose elements are closed by their own names and whose text and
\* CDATA sections end where they should.
WritesXML == T!Spec

=============================================================================
