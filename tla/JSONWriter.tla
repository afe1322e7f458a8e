----------------------------- MODULE JSONWriter -----------------------------
(***************************************************************************)
(* JSONEncoder over json::Writer: the encoder walks a value and calls the  *)
(* writer; the writer knows of the value only what its stack_ keeps for    *)
(* every container that is open, and decides from it where a comma or a    *)
(* colon belongs.                                                          *)
(*                                                                         *)
(* The value is chosen while it is walked: every struct and map of at most *)
(* MaxItems members, every vector of at most MaxItems elements, all of one *)
(* type, to a nesting depth of MaxDepth.  A field whose `has' is false is  *)
(* a member that is not there.  White space is not modelled.               *)
(***************************************************************************)
EXTENDS Integers, Sequences

CONSTANTS
    Roots,          \* what operator<< is given: "struct", "map", "scalars" (a
                    \* vector of scalars), "containers" (a vector of others)
    Scalars,        \* the tokens scalar values are written as
    Keys,           \* the tokens keys are written as
    MaxDepth, MaxItems

ASSUME WriterAssumption ==
    /\ Roots \subseteq {"struct", "map", "scalars", "containers"}
    /\ Scalars \subseteq {"string", "empty", "number", "bool"}
    /\ Keys \subseteq {"string", "empty"}
    /\ MaxDepth \in Nat \ {0, 1} /\ MaxItems \in Nat

VARIABLES
    stack_,         \* Writer: <first, second> of every open container
    str_,           \* Writer: the tokens written
    frames,         \* JSONEncoder: the encodeValue calls in progress
    pc,             \* "idle"; "next": before a member or element; "value": before
                    \* its value; "done": operator<< has returned
    result,         \* what operator<< has returned
    text            \* history: what str_ is as a JSON text

vars == <<stack_, str_, frames, pc, result, text>>

T == INSTANCE JSONText WITH complete <- result

NULL_TYPE == 0
KEY_TYPE == 1
VALUE_TYPE == 2
Level == [first : {NULL_TYPE, KEY_TYPE, VALUE_TYPE}, second : Nat]

\* kind of container; what its elements are; whether the loop over them calls
\* writerSeparation; how many of them have been begun
Frame == [kind : {"object", "array"}, elems : {"any", "scalar", "object", "array"},
          separates : BOOLEAN, i : Nat]

-----------------------------------------------------------------------------
(***************************************************************************)
(* json::Writer.                                                           *)
(***************************************************************************)
Top == stack_[Len(stack_)]
SetTop(level) == [stack_ EXCEPT ![Len(stack_)] = level]
Pop(s) == SubSeq(s, 1, Len(s) - 1)

\* Append two tokens to str_, either of which may be "none".
Plus(s, t) == IF t = "none" THEN s ELSE Append(s, t)
Put(t, u) == /\ str_' = Plus(Plus(str_, t), u)
             /\ text' = T!After(T!After(text, t), u)

\* What value, startObject and startArray write first.
Lead == IF stack_ = <<>> THEN "none"
        ELSE CASE Top.first = KEY_TYPE -> "colon"
               [] Top.first = VALUE_TYPE -> "comma"
               [] OTHER -> "none"

\* A mutant: the second member gets no comma.
KeyLateComma(k) == /\ Put(IF Top.second > 1 THEN "comma" ELSE "none", k)
                   /\ stack_' = SetTop([first |-> KEY_TYPE, second |-> Top.second + 1])

key(k) == /\ Put(IF Top.second > 0 THEN "comma" ELSE "none", k)
          /\ stack_' = SetTop([first |-> KEY_TYPE, second |-> Top.second + 1])

\* Writer::value
scalar(v) == /\ Put(Lead, v)
             /\ stack_' = SetTop([Top EXCEPT !.first = VALUE_TYPE])

NewLevel == [first |-> NULL_TYPE, second |-> 0]

startObject == Put(Lead, "lbrace") /\ stack_' = Append(stack_, NewLevel)
startArray == Put(Lead, "lbracket") /\ stack_' = Append(stack_, NewLevel)
endObject == Put("none", "rbrace") /\ stack_' = Pop(stack_)
\* A mutant: the level of an array is not popped.
EndArrayNoPop == Put("none", "rbracket") /\ UNCHANGED stack_
endArray == Put("none", "rbracket") /\ stack_' = Pop(stack_)

separation == /\ IF Top.first = NULL_TYPE THEN Put("none", "comma") ELSE Put("none", "none")
              /\ UNCHANGED stack_

-----------------------------------------------------------------------------
(***************************************************************************)
(* JSONEncoder.                                                            *)
(***************************************************************************)
Current == frames[Len(frames)]
InObject == frames # <<>> /\ Current.kind = "object"
InArray == frames # <<>> /\ Current.kind = "array"

Object == [kind |-> "object", elems |-> "any", separates |-> FALSE, i |-> 0]
Array(elems, separates) ==
    [kind |-> "array", elems |-> elems, separates |-> separates, i |-> 0]

\* The value that is next counts as an element of the container it is in.
Begun == [frames EXCEPT ![Len(frames)].i = @ + 1]
Takes(kind) == Current.elems \in {"any", kind}

\* operator<< of a struct, and of a map or a vector that is not empty
EncodeObject ==
    /\ pc = "idle" /\ Roots \cap {"struct", "map"} # {}
    /\ startObject
    /\ frames' = <<Object>> /\ pc' = "next"
    /\ UNCHANGED result

EncodeVector(elems) ==
    /\ pc = "idle" /\ (IF elems = "scalar" THEN "scalars" ELSE "containers") \in Roots
    /\ startArray
    /\ frames' = <<Array(elems, FALSE)>> /\ pc' = "value"
    /\ UNCHANGED result

\* An empty map or vector is not written: operator<< returns false.
EncodeEmpty ==
    /\ pc = "idle" /\ Roots \cap {"map", "scalars", "containers"} # {}
    /\ pc' = "done"
    /\ UNCHANGED <<stack_, str_, frames, result, text>>

\* convert of a member: encodeValue(name, value) begins with key(name).
NextMember(k) ==
    /\ pc = "next" /\ InObject /\ Current.i < MaxItems
    /\ key(k)
    /\ pc' = "value"
    /\ UNCHANGED <<frames, result>>

\* The head of the loop over a vector; key(NULL) does nothing.
NextElement ==
    /\ pc = "next" /\ InArray /\ Current.i < MaxItems
    /\ Takes("scalar") \/ Len(frames) < MaxDepth
    /\ IF Current.separates /\ Current.i > 0 THEN separation ELSE UNCHANGED <<stack_, str_, text>>
    /\ pc' = "value"
    /\ UNCHANGED <<frames, result>>

EncodeScalar(v) ==
    /\ pc = "value" /\ Takes("scalar")
    /\ scalar(v)
    /\ frames' = Begun /\ pc' = "next"
    /\ UNCHANGED result

\* encodeValue of a struct or map
OpenObject ==
    /\ pc = "value" /\ Takes("object") /\ Len(frames) < MaxDepth
    /\ startObject
    /\ frames' = Append(Begun, Object) /\ pc' = "next"
    /\ UNCHANGED result

\* encodeValue of a vector; the one for vector<bool> does not separate.
OpenArray(elems, separates) ==
    /\ pc = "value" /\ Takes("array") /\ Len(frames) < MaxDepth
    /\ elems # "scalar" => separates
    /\ startArray
    /\ frames' = Append(Begun, Array(elems, separates)) /\ pc' = "next"
    /\ UNCHANGED result

\* A mutant: the result is taken before the last container is closed.
EndedEarly == /\ frames' = Pop(frames)
              /\ pc' = IF Len(frames) = 1 THEN "done" ELSE "next"
              /\ result' = (Len(frames) = 1 /\ stack_ = <<>>)

\* The end of a container; that of the root returns writerResult.
Ended == /\ frames' = Pop(frames)
         /\ pc' = IF Len(frames) = 1 THEN "done" ELSE "next"
         /\ result' = (Len(frames) = 1 /\ stack_' = <<>>)

CloseObject == pc = "next" /\ InObject /\ endObject /\ Ended
CloseArray == pc = "next" /\ InArray /\ endArray /\ Ended

Init ==
    /\ stack_ = <<>> /\ str_ = <<>> /\ frames = <<>>
    /\ pc = "idle" /\ result = FALSE
    /\ text = T!NoText

Next ==
    \/ EncodeObject
    \/ \E elems \in {"scalar", "object", "array"} : EncodeVector(elems)
    \/ EncodeEmpty
    \/ \E k \in Keys : NextMember(k)
    \/ NextElement
    \/ \E v \in Scalars : EncodeScalar(v)
    \/ OpenObject
    \/ \E elems \in {"scalar", "object", "array"}, separates \in BOOLEAN :
            OpenArray(elems, separates)
    \/ CloseObject
    \/ CloseArray

Spec == Init /\ [][Next]_vars

-----------------------------------------------------------------------------
\* Every variable has its type, and the writer's stack_ is as deep as the
\* encoder's recursion.
TypeOK ==
    /\ stack_ \in Seq(Level) /\ frames \in Seq(Frame)
    /\ Len(stack_) = Len(frames)
    /\ str_ \in Seq(T!Scalar \cup T!Punctuation)
    /\ pc \in {"idle", "next", "value", "done"}
    /\ result \in BOOLEAN
    /\ text \in T!State

\* The text stays the beginning of a JSON text: every comma and colon is where
\* it belongs, for commas the writer puts (key, value) and for those the loops
\* over vectors ask for (separation).
GrammarKept == text.want # "reject"

\* operator<< answers true exactly when it has written a whole JSON text.
TrueIfWhole == result <=> pc = "done" /\ text.want = "end"

\* The encoder implements the promise of JSONText: each call extends a
\* JSON text, and true is answered together with the last token.
WritesJSON == T!Spec

=============================================================================
