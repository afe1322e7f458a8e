---------------------------- MODULE ClassOrderMC ----------------------------
(***************************************************************************)
(* ClassOrder on files of four messages that use each other in every way,  *)
(* and of two, one of which has another message, or a map, inside of it.   *)
(*                                                                         *)
(* A name is the path to a message: the class A_B of the message B inside  *)
(* of A is <<"A", "B">>, and B by itself is <<"B">>.                       *)
(***************************************************************************)
EXTENDS ClassOrder, SequencesExt

\* A message of a .proto file: its types are the paths of the messages in it.
Proto(name, types, entry, nested) ==
    [name |-> name, types |-> types, entry |-> entry, nested |-> nested]

\* FlattenMessagesInFile: nested messages come first.  Here a message is empty if
\* it has no members that are messages and is called D or I.
RECURSIVE Flatten(_, _)
Flatten(m, path) ==
    FlattenSeq([k \in DOMAIN m.nested |-> Flatten(m.nested[k], Append(path, m.nested[k].name))])
      \o <<[name |-> path, entry |-> m.entry, empty |-> m.types = {} /\ m.name \in {"D", "I"},
            types |-> {[name |-> <<t[Len(t)]>>, class |-> t] : t \in m.types}]>>

FlattenMessagesInFile(file) ==
    FlattenSeq([k \in DOMAIN file |-> Flatten(file[k], <<file[k].name>>)])

-----------------------------------------------------------------------------
\* The types a message may have, of those in the file.
Others(name, letters) == SUBSET {<<n>> : n \in letters \ {name}}

Four == {"A", "B", "C", "D"}
Flat == {<<Proto("A", a, FALSE, <<>>), Proto("B", b, FALSE, <<>>),
           Proto("C", c, FALSE, <<>>), Proto("D", d, FALSE, <<>>)>> :
            a \in Others("A", Four), b \in Others("B", Four), c \in Others("C", Four), d \in Others("D", Four)}

\* The inner message may have the name of one outside.
Inside(name, types) == <<Proto(name, types, FALSE, <<>>)>>
Map(types) == <<Proto("E", types, TRUE, <<>>)>>
Two == {"A", "B"}
Both == SUBSET {<<"A">>, <<"B">>}

InFirst == {<<Proto("A", a, FALSE, Inside(name, i)), Proto("B", b, FALSE, <<>>)>> :
               name \in {"I", "B"}, i \in Both, a, b \in SUBSET {<<"A">>, <<"B">>, <<"A", "I">>, <<"A", "B">>}}
InSecond == {<<Proto("A", a, FALSE, <<>>), Proto("B", b, FALSE, Inside(name, i))>> :
               name \in {"I", "A"}, i \in Both, a, b \in SUBSET {<<"A">>, <<"B">>, <<"B", "I">>, <<"B", "A">>}}
\* The message in which the map is has its entry among the types of its fields.
Maps == {<<Proto("A", a \cup {<<"A", "E">>}, FALSE, Map(v)), Proto("B", b, FALSE, <<>>)>> : a, b, v \in Both}
          \cup {<<Proto("A", a, FALSE, <<>>), Proto("B", b \cup {<<"B", "E">>}, FALSE, Map(v))>> : a, b, v \in Both}

\* A type that is named is in the file.
Known(file) ==
    LET msgs_ == FlattenMessagesInFile(file) IN
    \A m \in DOMAIN msgs_ : \A f \in msgs_[m].types : \E n \in DOMAIN msgs_ : msgs_[n].name = f.class
MCFiles == {FlattenMessagesInFile(file) : file \in {f \in Flat \cup InFirst \cup InSecond \cup Maps : Known(f)}}
MCNames == UNION {UNION {{m.name} \cup UNION {{f.name, f.class} : f \in m.types} : m \in ToSet(file)} : file \in MCFiles}

=============================================================================
