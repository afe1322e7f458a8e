----------------------------- MODULE ClassOrder -----------------------------
(***************************************************************************)
(* The class plugin of protoc: the order in which CodeSerialize prints the *)
(* classes of a file.  A C++ class that has a member of another class has  *)
(* to stand behind it.                                                     *)
(*                                                                         *)
(* A message is known by its place among the messages of the file, in the  *)
(* order of FlattenMessagesInFile.                                         *)
(***************************************************************************)
EXTENDS Integers, Sequences

CONSTANTS
    Names,      \* of classes, and of messages inside of their parent
    Files       \* sequences of messages

(***************************************************************************)
(* FieldDescriptorArr.  name: _name, the name of the class, which begins   *)
(* with those of the messages it is nested in; types: of the fields in     *)
(* _vec that are messages, the name and the class; empty: is there no      *)
(* field in _vec?  entry: is it the entry of a map?                        *)
(***************************************************************************)
Message == [name : Names, types : SUBSET [name : Names, class : Names],
            empty : BOOLEAN, entry : BOOLEAN]

ASSUME FilesAssumption == Files \subseteq Seq(Message)

VARIABLES
    msgs,       \* prepareMsgs: _message_generators before it is sorted
    idx,        \* sortMsgs: the message that is inserted next
    at,         \* getInsertIdx: the place that is looked at
    result,     \* sortMsgs: the messages inserted
    line,       \* printClass: the place in the result that is next
    printed     \* the classes printed

vars == <<msgs, idx, at, result, line, printed>>

-----------------------------------------------------------------------------
\* Is a field of m found to be of the class n?
Finds(m, n) == \E f \in msgs[m].types : f.name = msgs[n].name

\* A mutant: the message at that place is overwritten.
Overwritten(n, p) == [q \in 1 .. (IF p > Len(result) THEN p ELSE Len(result)) |->
                          IF q = p THEN n ELSE result[q]]
\* std::vector::insert
Inserted(n, p) == [q \in 1 .. Len(result) + 1 |->
                      IF q < p THEN result[q] ELSE IF q = p THEN n ELSE result[q - 1]]

Looking == idx <= Len(msgs) /\ at <= Len(result)

\* getInsertIdx, one turn of its loop: the message there does not use the new one.
Look ==
    /\ Looking /\ ~Finds(result[at], idx)
    /\ at' = at + 1
    /\ UNCHANGED <<msgs, idx, result, line, printed>>

\* A mutant: behind the first that uses it.
BehindUser == IF at <= Len(result) THEN at + 1 ELSE at
\* The first that uses it, or behind the last.
Place == at

\* sortMsgs, one turn of its loop, when the place is found.
Insert ==
    /\ idx <= Len(msgs)
    /\ Looking => Finds(result[at], idx)
    /\ result' = Inserted(idx, Place)
    /\ idx' = idx + 1 /\ at' = 1
    /\ UNCHANGED <<msgs, line, printed>>

\* A message with no fields, or with such in a oneof only, gets no class.
Skipped(m) == msgs[m].empty \/ msgs[m].entry

\* printClass, one turn of its loop
PrintClass ==
    /\ idx > Len(msgs) /\ line <= Len(result)
    /\ printed' = IF Skipped(result[line]) THEN printed ELSE Append(printed, result[line])
    /\ line' = line + 1
    /\ UNCHANGED <<msgs, idx, at, result>>

Init == msgs \in Files /\ idx = 1 /\ at = 1 /\ result = <<>> /\ line = 1 /\ printed = <<>>

Next == Look \/ Insert \/ PrintClass

Spec == Init /\ [][Next]_vars

-----------------------------------------------------------------------------
Done == idx > Len(msgs) /\ line > Len(result)

\* Each message that has fields is printed once, and no entry of a map is.
EachOnce ==
    /\ \A p, q \in DOMAIN printed : printed[p] = printed[q] => p = q
    /\ Done => \A m \in DOMAIN msgs : (~Skipped(m) <=> (\E p \in DOMAIN printed : printed[p] = m))

\* Has the class m a member that is printed with the class n?  That of a map is
\* printed with the classes of its key and its value, those of the entry's fields.
HasField(m, n) == \E f \in msgs[m].types : f.class = msgs[n].name
Needs(m, n) ==
    /\ m # n
    /\ \/ HasField(m, n)
       \/ \E e \in DOMAIN msgs : msgs[e].entry /\ HasField(m, e) /\ HasField(e, n)

\* Is n before m whatever else is in the file?  It was put there if it comes later
\* in the file, and m finds it under its name, which it does not with the value of
\* a map; if it comes earlier, m stays behind it unless another one makes m move
\* forward.
InPlace(m, n) == IF m < n THEN Finds(m, n) ELSE \A k \in 1 .. m - 1 : ~Finds(k, m)

\* A class is printed behind the classes of its members that are in place.
DefinedBefore ==
    \A p \in DOMAIN printed : \A n \in DOMAIN msgs :
        Needs(printed[p], n) /\ ~Skipped(n) /\ InPlace(printed[p], n) =>
            \E q \in 1 .. p - 1 : printed[q] = n

=============================================================================
