---------------------------- MODULE DecoderProofs ----------------------------
(***************************************************************************)
(* What operator>> of XMLDecoder and of JSONDecoder returns, for every     *)
(* tree of nodes and every object.                                         *)
(*                                                                         *)
(* It is whether current_ is where it was, after calls of decodeValue that *)
(* have all moved it.  Between two calls made by operator>> itself it is   *)
(* back, because the first of the calls in progress has saved it;          *)
(* operator>> of a vector, whose loop moves it, sets it back at the end.   *)
(* Of the calls further inside nothing needs to be known.                  *)
(***************************************************************************)
EXTENDS XMLDecoder, SequenceTheorems, TLAPS

\* JSONDecoder has these besides.
CONSTANTS Unescape(_), ToNumber(_), IsTrue(_)
VARIABLE convert_by_type_

JSON == INSTANCE JSONDecoder

\* A frame; that of operator>> has a value with a kind.
HasFields(f) == DOMAIN f = {"value", "i", "parent", "root", "child"}
IsFrame(f) == HasFields(f) /\ "kind" \in DOMAIN f.value

IsSeq(s) == \E S : s \in Seq(S)

\* The call of operator>>, and where current_ is while it waits for another.
FirstCall ==
    /\ frames[1].root /\ IsFrame(frames[1])
    /\ frames[1].value.kind # "vector" =>
          IF Len(frames) = 1 THEN current_ = frames[1].parent
                             ELSE frames[2].parent = frames[1].parent

\* The calls in progress.
Calls == /\ IsSeq(frames) /\ Len(frames) > 0
         /\ \A k \in 1 .. Len(frames) : HasFields(frames[k])
         /\ FirstCall

\* Still in the same call of operator>>, and the calls around the one in progress are
\* as they were.
Remains == /\ Calls' /\ frames'[1].parent = frames[1].parent
           /\ \A k \in 1 .. Len(frames') - 1 : frames'[k] = frames[k]
           /\ Len(frames') - 1 <= Len(frames)

-----------------------------------------------------------------------------
(***************************************************************************)
(* The calls in progress as a stack.                                       *)
(***************************************************************************)
\* Length, and what Append and SubSeq give.
LEMMA LenOK == ASSUME NEW s, IsSeq(s) PROVE Len(s) \in Nat
<1>1. PICK S : s \in Seq(S)
  BY DEF IsSeq
<1> QED BY <1>1

LEMMA PushOK ==
    ASSUME NEW s, IsSeq(s), NEW x
    PROVE  /\ IsSeq(Append(s, x)) /\ Len(Append(s, x)) = Len(s) + 1
           /\ Append(s, x)[Len(s) + 1] = x
           /\ \A k \in 1 .. Len(s) : Append(s, x)[k] = s[k]
<1>1. PICK S : s \in Seq(S)
  BY DEF IsSeq
<1>2. s \in Seq(S \cup {x})
  BY <1>1
<1>3. Append(s, x) \in Seq(S \cup {x})
  BY <1>2
<1>4. /\ Len(Append(s, x)) = Len(s) + 1 /\ Append(s, x)[Len(s) + 1] = x
      /\ \A k \in 1 .. Len(s) : Append(s, x)[k] = s[k]
  BY <1>2
<1> QED BY <1>3, <1>4 DEF IsSeq

LEMMA PopOK ==
    ASSUME NEW s, IsSeq(s), Len(s) > 1
    PROVE  LET t == SubSeq(s, 1, Len(s) - 2) IN
           IsSeq(t) /\ Len(t) = Len(s) - 2 /\ \A k \in 1 .. Len(s) - 2 : t[k] = s[k]
<1> DEFINE m == Len(s) - 2
           t == SubSeq(s, 1, m)
<1>1. PICK S : s \in Seq(S)
  BY DEF IsSeq
<1>2. m \in Nat /\ m \in Int /\ 1 \in Int /\ \A k \in 1 .. m : s[k] \in S
  BY <1>1
<1> HIDE DEF m
<1>3. /\ t \in Seq(S) /\ Len(t) = (IF 1 <= m THEN m - 1 + 1 ELSE 0)
      /\ \A k \in 1 .. m - 1 + 1 : t[k] = s[1 + k - 1]
  BY <1>1, <1>2, SubSeqProperties
<1> HIDE DEF t
<1>4. t \in Seq(S) /\ Len(t) = m /\ \A k \in 1 .. m : t[k] = s[k]
  BY <1>2, <1>3
<1> USE DEF t, m
<1> QED BY <1>4 DEF IsSeq

\* A change to the call in progress leaves its cursor, its kind and whether it is the
\* first.
Keeps(f, g) == /\ HasFields(g) /\ g.parent = f.parent /\ g.root = f.root
               /\ IsFrame(f) => IsFrame(g) /\ g.value.kind = f.value.kind

\* The places that matter in a stack of n calls.
LEMMA Depths ==
    ASSUME NEW n \in Nat, n > 0
    PROVE  /\ n = 1 \/ n = 2 \/ n = 3 \/ n > 3
           /\ n > 1 => n # 1 /\ 2 \in 1 .. n
           /\ n > 2 => 1 \in 1 .. n - 1 /\ 2 \in 1 .. n - 1
           /\ n > 3 => 1 \in 1 .. n - 2 /\ 2 \in 1 .. n - 2 /\ n - 1 # 1
           /\ (n > 3 => n > 2) /\ (n = 3 => n > 2) /\ (n > 2 => n > 1)
OBVIOUS

-----------------------------------------------------------------------------
(***************************************************************************)
(* What the actions do to the calls.                                       *)
(***************************************************************************)
\* The call in progress goes on; that of operator>> moves current_ only if it is over a
\* vector.
LEMMA Goes ==
    ASSUME Calls, NEW g, frames' = Top(g), Keeps(Running, g),
           Running.root => current_' = current_ \/ Filled.kind = "vector"
    PROVE  Remains /\ Len(frames') = Len(frames)
<1> DEFINE n == Len(frames)
<1>1. IsSeq(frames) /\ n > 0 /\ FirstCall /\ \A k \in 1 .. n : HasFields(frames[k])
  BY DEF Calls
<1>2. n \in Nat
  BY <1>1, LenOK
<1>3. /\ IsSeq(frames') /\ Len(frames') = n /\ frames'[n] = g
      /\ \A k \in 1 .. n - 1 : frames'[k] = frames[k]
  <2>1. frames' = [frames EXCEPT ![Len(frames)] = g]
    BY DEF Top
  <2>2. PICK S : frames \in Seq(S)
    BY <1>1 DEF IsSeq
  <2>3. frames \in Seq(S \cup {g}) /\ n \in 1 .. n
    BY <1>1, <2>2
  <2>4. frames' \in Seq(S \cup {g}) /\ Len(frames') = n
    BY <2>1, <2>3
  <2>5. frames'[n] = g /\ \A k \in 1 .. n - 1 : frames'[k] = frames[k]
    BY <2>1, <2>3
  <2> QED BY <2>4, <2>5 DEF IsSeq
<1>4. \A k \in 1 .. n : HasFields(frames'[k])
  <2> TAKE k \in 1 .. n
  <2>1. CASE k = n
    BY <1>3, <2>1 DEF Keeps
  <2>2. CASE k # n
    <3>1. k \in 1 .. n - 1
      BY <1>2, <2>2
    <3> QED BY <1>1, <1>3, <3>1
  <2> QED BY <2>1, <2>2
<1>5. FirstCall' /\ frames'[1].parent = frames[1].parent
  <2>1. CASE n = 1
    <3>1. Running = frames[1] /\ Filled = frames[1].value /\ frames'[1] = g
      BY <1>3, <2>1 DEF Running, Filled
    <3> QED BY <1>1, <1>3, <2>1, <3>1 DEF FirstCall, Keeps
  <2>2. CASE n = 2
    <3>1. Running = frames[2] /\ frames'[2] = g /\ frames'[1] = frames[1]
      BY <1>3, <2>2 DEF Running
    <3> QED BY <1>1, <1>3, <2>2, <3>1 DEF FirstCall, Keeps
  <2>3. CASE n > 2
    <3>1. 1 \in 1 .. n - 1 /\ 2 \in 1 .. n - 1 /\ n # 1
      BY <1>1, <1>2, <2>3, Depths
    <3>2. frames'[1] = frames[1] /\ frames'[2] = frames[2]
      BY <1>3, <3>1
    <3> QED BY <1>1, <1>3, <3>1, <3>2 DEF FirstCall
  <2>4. n = 1 \/ n = 2 \/ n > 2
    <3> HIDE DEF n
    <3> QED BY <1>1, <1>2, Depths
  <2> QED BY <2>1, <2>2, <2>3, <2>4
<1> QED BY <1>1, <1>2, <1>3, <1>4, <1>5 DEF Calls, Remains

\* A call is made: it saves current_.
LEMMA Enters ==
    ASSUME Calls, NEW g, HasFields(g), g.parent = current_, frames' = Append(frames, g)
    PROVE  Remains
<1> DEFINE n == Len(frames)
<1>1. IsSeq(frames) /\ n > 0 /\ FirstCall /\ \A k \in 1 .. n : HasFields(frames[k])
  BY DEF Calls
<1>2. n \in Nat
  BY <1>1, LenOK
<1>4. /\ IsSeq(frames') /\ Len(frames') = n + 1 /\ frames'[n + 1] = g
      /\ \A k \in 1 .. n : frames'[k] = frames[k]
  BY <1>1, PushOK
<1>5. \A k \in 1 .. n + 1 : HasFields(frames'[k])
  <2> TAKE k \in 1 .. n + 1
  <2>1. CASE k = n + 1
    BY <1>4, <2>1
  <2>2. CASE k # n + 1
    <3>1. k \in 1 .. n
      BY <1>2, <2>2
    <3> QED BY <1>1, <1>4, <3>1
  <2> QED BY <2>1, <2>2
<1>6. FirstCall' /\ frames'[1] = frames[1]
  <2>1. 1 \in 1 .. n /\ frames'[1] = frames[1] /\ Len(frames') # 1
    BY <1>1, <1>2, <1>4
  <2>2. CASE n = 1
    BY <1>1, <1>4, <2>1, <2>2 DEF FirstCall
  <2>3. CASE n > 1
    <3>1. 2 \in 1 .. n /\ n # 1
      BY <1>1, <1>2, <2>3, Depths
    <3>2. frames'[2] = frames[2]
      BY <1>4, <3>1
    <3> QED BY <1>1, <2>1, <3>1, <3>2 DEF FirstCall
  <2>4. n = 1 \/ n > 1
    <3> HIDE DEF n
    <3> QED BY <1>1, <1>2, Depths
  <2> QED BY <2>1, <2>2, <2>3, <2>4
<1> QED BY <1>1, <1>2, <1>4, <1>5, <1>6 DEF Calls, Remains

\* A call returns.  Its caller is operator>> over something else than a vector: then
\* it has current_ back.
LEMMA Returns ==
    ASSUME Calls, Len(frames) > 1, NEW g, Keeps(Caller, g),
           frames' = Append(SubSeq(frames, 1, Len(frames) - 2), g),
           Caller.root => current_' = Running.parent \/ Caller.value.kind = "vector"
    PROVE  Remains /\ Len(frames') < Len(frames)
<1> DEFINE n == Len(frames)
<1>1. IsSeq(frames) /\ n > 1 /\ FirstCall /\ \A k \in 1 .. n : HasFields(frames[k])
  BY DEF Calls
<1>2. n \in Nat /\ n - 2 \in Nat /\ n - 1 \in 1 .. n /\ n \in 1 .. n
  BY <1>1, LenOK
<1>3. PICK rest : rest = SubSeq(frames, 1, n - 2)
  OBVIOUS
<1>4. IsSeq(rest) /\ Len(rest) = n - 2 /\ \A k \in 1 .. n - 2 : rest[k] = frames[k]
  BY <1>1, <1>3, PopOK
<1>5. Caller = frames[n - 1] /\ HasFields(Caller)
  BY <1>1, <1>2 DEF Caller
<1>6. PICK t : t = Append(rest, g) /\ frames' = t
  BY <1>3
<1>7. /\ IsSeq(frames') /\ Len(frames') = n - 1 /\ frames'[n - 1] = g
      /\ \A k \in 1 .. n - 2 : frames'[k] = frames[k]
  <2>1. /\ IsSeq(t) /\ Len(t) = Len(rest) + 1 /\ t[Len(rest) + 1] = g
        /\ \A k \in 1 .. Len(rest) : t[k] = rest[k]
    BY <1>4, <1>6, PushOK
  <2>2. Len(rest) + 1 = n - 1
    BY <1>2, <1>4
  <2> QED BY <1>4, <1>6, <2>1, <2>2
<1>8. \A k \in 1 .. n - 1 : HasFields(frames'[k])
  <2> TAKE k \in 1 .. n - 1
  <2>1. CASE k = n - 1
    BY <1>7, <2>1 DEF Keeps
  <2>2. CASE k # n - 1
    <3>1. k \in 1 .. n - 2 /\ k \in 1 .. n
      BY <1>2, <2>2
    <3> QED BY <1>1, <1>7, <3>1
  <2> QED BY <2>1, <2>2
<1>9. FirstCall' /\ frames'[1].parent = frames[1].parent
  <2>1. CASE n = 2
    <3>1. Caller = frames[1] /\ Running = frames[2] /\ frames'[1] = g /\ Len(frames') = 1
      BY <1>5, <1>7, <2>1 DEF Running
    <3>2. g.root /\ IsFrame(g) /\ g.value.kind = Caller.value.kind /\ g.parent = Caller.parent
      BY <1>1, <3>1 DEF FirstCall, Keeps
    <3>3. Caller.value.kind # "vector" => current_' = Running.parent
      BY <1>1, <3>1 DEF FirstCall
    <3>4. Caller.value.kind # "vector" => Running.parent = Caller.parent
      BY <1>1, <2>1, <3>1 DEF FirstCall
    <3> QED BY <3>1, <3>2, <3>3, <3>4 DEF FirstCall
  <2>2. CASE n = 3
    <3>1. Caller = frames[2] /\ frames'[2] = g /\ frames'[1] = frames[1] /\ Len(frames') = 2
      BY <1>5, <1>7, <2>2
    <3> QED BY <1>1, <2>2, <3>1 DEF FirstCall, Keeps
  <2>3. CASE n > 3
    <3>1. 1 \in 1 .. n - 2 /\ 2 \in 1 .. n - 2 /\ n # 1 /\ n - 1 # 1
      BY <1>1, <1>2, <2>3, Depths
    <3>2. frames'[1] = frames[1] /\ frames'[2] = frames[2]
      BY <1>7, <3>1
    <3> QED BY <1>1, <1>7, <3>1, <3>2 DEF FirstCall
  <2>4. n = 2 \/ n = 3 \/ n > 3
    <3> HIDE DEF n
    <3> QED BY <1>1, <1>2, Depths
  <2> QED BY <2>1, <2>2, <2>3, <2>4
<1> QED BY <1>1, <1>2, <1>7, <1>8, <1>9 DEF Calls, Remains

\* The call of operator>> alone.
LEMMA Starts ==
    ASSUME NEW g, frames' = <<g>>, IsFrame(g), g.root,
           g.value.kind # "vector" => current_' = g.parent
    PROVE  Calls' /\ frames'[1] = g /\ Len(frames') = 1
<1>1. IsSeq(frames') /\ Len(frames') = 1 /\ frames'[1] = g
  <2>1. <<g>> \in Seq({g})
    OBVIOUS
  <2> QED BY <2>1 DEF IsSeq
<1>2. \A k \in 1 .. Len(frames') : HasFields(frames'[k])
  BY <1>1 DEF IsFrame
<1>3. FirstCall'
  BY <1>1 DEF FirstCall
<1> QED BY <1>1, <1>2, <1>3 DEF Calls

LEMMA RunningOK == ASSUME Calls PROVE HasFields(Running)
<1>1. Len(frames) \in 1 .. Len(frames)
  BY LenOK DEF Calls
<1> QED BY <1>1 DEF Calls, Running

LEMMA CallerOK == ASSUME Calls, Len(frames) > 1 PROVE HasFields(Caller)
<1>1. Len(frames) - 1 \in 1 .. Len(frames)
  BY LenOK DEF Calls
<1> QED BY <1>1 DEF Calls, Caller

-----------------------------------------------------------------------------
(***************************************************************************)
(* XMLDecoder.                                                             *)
(***************************************************************************)
\* The decoder is constructed, with the node that the constructor asserts; the tree,
\* which of its nodes that is, and the object are any.
Constructed == /\ pc = "idle" /\ frames = <<>> /\ result = FALSE
               /\ current_ # NULL /\ "kind" \in DOMAIN value

Decoding == Constructed /\ [][Next]_vars

\* When operator>> has returned, it has returned true.
Succeeds == pc = "done" => result

Inv ==
    /\ pc \in {"idle", "walk", "done"}
    /\ pc = "idle" => "kind" \in DOMAIN value
    /\ pc = "walk" => Calls
    /\ Succeeds

\* So do members and elements.
LEMMA FrameKept ==
    ASSUME NEW f, HasFields(f), NEW i, NEW v, NEW has
    PROVE  /\ Keeps(f, [f EXCEPT !.i = @ + 1])
           /\ Keeps(f, WithMember(f, i, v, has))
           /\ Keeps(f, WithElement(f, v))
<1>1. Keeps(f, [f EXCEPT !.i = @ + 1])
  BY DEF Keeps, HasFields, IsFrame
<1>2. Keeps(f, WithMember(f, i, v, has))
  BY DEF Keeps, HasFields, IsFrame, WithMember
<1>3. Keeps(f, WithElement(f, v))
  <2> DEFINE g == WithElement(f, v)
  <2>1. HasFields(g) /\ g.parent = f.parent /\ g.root = f.root
          /\ g.value = (IF f.value.kind = "map" THEN Inserted(f.value, v)
                        ELSE [f.value EXCEPT !.elements = Append(@, v)])
    BY DEF HasFields, WithElement
  <2>2. ASSUME NEW m, "kind" \in DOMAIN m
        PROVE  /\ "kind" \in DOMAIN Inserted(m, v) /\ Inserted(m, v).kind = m.kind
               /\ "kind" \in DOMAIN [m EXCEPT !.elements = Append(@, v)]
               /\ [m EXCEPT !.elements = Append(@, v)].kind = m.kind
    BY <2>2 DEF Inserted
  <2>3. Keeps(f, g)
    <3> HIDE DEF g
    <3>1. IsFrame(f) => "kind" \in DOMAIN g.value /\ g.value.kind = f.value.kind
      BY <2>1, <2>2 DEF IsFrame
    <3> QED BY <2>1, <3>1 DEF Keeps, IsFrame
  <2> QED BY <2>3
<1> QED BY <1>1, <1>2, <1>3

LEMMA Steps == Inv /\ [Next]_vars => Inv'
<1> SUFFICES ASSUME Inv, [Next]_vars PROVE Inv'
  OBVIOUS
<1>1. pc = "walk" => Calls /\ HasFields(Running)
  BY RunningOK DEF Inv
<1>2. ASSUME pc' = "walk", Remains PROVE Inv'
  BY <1>2 DEF Inv, Remains, Succeeds
<1>3. CASE DecodeRoot
  <2> DEFINE g == Frame(Cleared(value), current_, TRUE, getChild(current_))
  <2>1. pc' = "walk" /\ frames' = <<g>> /\ "kind" \in DOMAIN value
        /\ current_' = IF value.kind = "vector" THEN getChild(current_) ELSE current_
    BY <1>3 DEF Inv, DecodeRoot
  <2>2. "kind" \in DOMAIN Cleared(value) /\ Cleared(value).kind = value.kind
    BY <2>1 DEF Cleared
  <2>3. IsFrame(g) /\ g.root /\ g.parent = current_ /\ g.value.kind = value.kind
    BY <2>2 DEF IsFrame, HasFields, Frame
  <2> HIDE DEF g
  <2>4. Calls'
    BY <2>1, <2>3, Starts
  <2> QED BY <2>1, <2>4 DEF Inv, Succeeds
<1>4. CASE MemberAtOnce
  <2>1. PICK v, has : frames' = Top([Running EXCEPT !.i = @ + 1])
                      \/ frames' = Top(WithMember(Running, Running.i, v, has))
    BY <1>4 DEF MemberAtOnce
  <2>2. pc = "walk" /\ pc' = "walk" /\ current_' = current_
    BY <1>4 DEF MemberAtOnce, InMembers
  <2>3. PICK g : frames' = Top(g) /\ Keeps(Running, g)
    BY <1>1, <2>1, <2>2, FrameKept
  <2> QED BY <1>1, <1>2, <2>2, <2>3, Goes
<1>5. CASE MemberMissing
  <2>1. pc = "walk" /\ pc' = "walk" /\ current_' = current_
        /\ frames' = Top([Running EXCEPT !.i = @ + 1])
    BY <1>5 DEF MemberMissing, InMembers
  <2> QED BY <1>1, <1>2, <2>1, FrameKept, Goes
<1>6. CASE MemberEntered \/ ElementEntered \/ EntryEntered
  <2>1. pc = "walk" /\ pc' = "walk" /\ \E v, node : Enter(v, node)
    BY <1>6 DEF MemberEntered, ElementEntered, EntryEntered, InMembers, InElements
  <2>2. PICK g : HasFields(g) /\ g.parent = current_ /\ frames' = Append(frames, g)
    BY <2>1 DEF HasFields, Frame, Enter
  <2> QED BY <1>1, <1>2, <2>1, <2>2, Enters
<1>7. CASE ElementAtOnce
  <2>1. pc = "walk" /\ pc' = "walk" /\ Filled.kind = "vector"
        /\ \E v : frames' = Top(WithElement(Running, v))
    BY <1>7 DEF ElementAtOnce, InElements
  <2> QED BY <1>1, <1>2, <2>1, FrameKept, Goes
<1>8. CASE Return
  <2> DEFINE g == IF IsLoop(Caller.value) THEN WithElement(Caller, Filled)
                  ELSE WithMember(Caller, Caller.i, Filled, TRUE)
  <2>1. pc = "walk" /\ pc' = "walk" /\ Len(frames) > 1 /\ current_' = SetBack
        /\ frames' = Append(SubSeq(frames, 1, Len(frames) - 2), g)
    BY <1>8 DEF Return
  <2>2. Keeps(Caller, g)
    BY <1>1, <2>1, CallerOK, FrameKept
  <2> HIDE DEF g
  <2>3. Caller.root => current_' = Running.parent \/ Caller.value.kind = "vector"
    BY <2>1 DEF SetBack, IsLoop
  <2> QED BY <1>1, <1>2, <2>1, <2>2, <2>3, Returns
<1>9. CASE ReturnRoot
  <2>1. FirstCall /\ Len(frames) = 1 /\ Running = frames[1] /\ Filled = Running.value
    BY <1>1, <1>9 DEF Calls, ReturnRoot, Running, Filled
  <2>2. current_' = AfterRoot /\ result' = (current_' = Running.parent) /\ pc' = "done"
    BY <1>9 DEF ReturnRoot
  <2>3. AfterRoot = Running.parent
    BY <2>1 DEF AfterRoot, FirstCall
  <2> QED BY <2>2, <2>3 DEF Inv, Succeeds
<1>10. CASE UNCHANGED vars
  <2>1. UNCHANGED <<current_, frames, pc, value, result>>
    BY <1>10 DEF vars
  <2> QED BY <2>1 DEF Inv, Calls, FirstCall, Succeeds, IsSeq, IsFrame, HasFields
<1> QED BY <1>3, <1>4, <1>5, <1>6, <1>7, <1>8, <1>9, <1>10 DEF Next

\* operator>> returns true whatever the tree, where its cursor is and the object it fills
\* are, also when it has found none of the members: a caller cannot tell from it that a
\* document was of another shape.
THEOREM AlwaysTrue == Decoding => []Succeeds
<1>1. Constructed => Inv
  BY DEF Constructed, Inv, Succeeds
<1>2. Inv => Succeeds
  BY DEF Inv
<1> QED BY <1>1, <1>2, Steps, PTL DEF Decoding
-----------------------------------------------------------------------------
(***************************************************************************)
(* JSONDecoder.                                                            *)
(***************************************************************************)
\* The decoder is constructed, with or without a node.
JSONConstructed == pc = "idle" /\ frames = <<>> /\ result = FALSE /\ "kind" \in DOMAIN value

JSONDecoding == JSONConstructed /\ [][JSON!Next]_JSON!vars

\* When operator>> has returned, it has returned whether there is a node.
SaysWhetherRead == pc = "done" => (result <=> current_ # NULL)

\* Only calls that fill one of these make another.
Waiting == \A k \in 1 .. Len(frames) - 1 : frames[k].value.kind \in {"struct", "vector", "map"}

JSONInv ==
    /\ pc \in {"idle", "walk", "done"}
    /\ pc = "idle" => "kind" \in DOMAIN value
    /\ pc = "walk" => Calls /\ Waiting /\ frames[1].parent # NULL
    /\ SaysWhetherRead

\* Members, elements and entries are changes that keep all but the value's content.
LEMMA JSONFrameKept ==
    ASSUME NEW f, HasFields(f), NEW v, NEW n, NEW has
    PROVE  /\ Keeps(f, JSON!WithMember(f, v, has))
           /\ Keeps(f, JSON!WithElement(f, v))
           /\ Keeps(f, JSON!WithEntry(f, n, v))
<1>1. Keeps(f, JSON!WithMember(f, v, has))
  BY DEF Keeps, HasFields, IsFrame, JSON!WithMember
<1>2. Keeps(f, JSON!WithElement(f, v))
  BY DEF Keeps, HasFields, IsFrame, JSON!WithElement
<1>3. Keeps(f, JSON!WithEntry(f, n, v))
  <2> DEFINE g == JSON!WithEntry(f, n, v)
  <2>1. PICK w : w = JSON!Inserted(f.value, nodes[n].key, v)
    OBVIOUS
  <2>2. HasFields(g) /\ g.parent = f.parent /\ g.root = f.root /\ g.value = w
    BY <2>1 DEF HasFields, JSON!WithEntry
  <2>3. "kind" \in DOMAIN f.value => "kind" \in DOMAIN w /\ w.kind = f.value.kind
    BY <2>1 DEF JSON!Inserted
  <2> HIDE DEF g
  <2>4. Keeps(f, g)
    BY <2>2, <2>3 DEF Keeps, IsFrame
  <2> QED BY <2>4 DEF g
<1> QED BY <1>1, <1>2, <1>3

\* A value that is cleared or resized is of the same kind.
LEMMA PreparedOK ==
    ASSUME NEW v, "kind" \in DOMAIN v, NEW n
    PROVE  "kind" \in DOMAIN JSON!Prepared(v, n) /\ JSON!Prepared(v, n).kind = v.kind
<1>1. PICK size : size = JSON!getObjectSize(n)
  OBVIOUS
<1>2. "kind" \in DOMAIN JSON!Resized(v, size) /\ JSON!Resized(v, size).kind = v.kind
  BY DEF JSON!Resized
<1>3. PICK w : w = JSON!Resized(v, size)
  OBVIOUS
<1>4. CASE v.kind = "vector"
  BY <1>1, <1>2, <1>3, <1>4 DEF JSON!Prepared
<1>5. CASE v.kind = "map"
  BY <1>5 DEF JSON!Prepared
<1>6. CASE v.kind \notin {"vector", "map"}
  BY <1>6 DEF JSON!Prepared
<1> QED BY <1>4, <1>5, <1>6

\* What both decoders have.
LEMMA SameNames == /\ JSON!Running = Running /\ JSON!Filled = Filled /\ JSON!Caller = Caller
                   /\ \A g : JSON!Top(g) = Top(g)
                   /\ JSON!NULL = NULL
BY DEF JSON!Running, Running, JSON!Filled, Filled, JSON!Caller, Caller, JSON!Top, Top, JSON!NULL, NULL

LEMMA JSONSteps == JSONInv /\ [JSON!Next]_JSON!vars => JSONInv'
<1> SUFFICES ASSUME JSONInv, [JSON!Next]_JSON!vars PROVE JSONInv'
  OBVIOUS
<1>1. pc = "walk" => Calls /\ HasFields(Running) /\ Waiting /\ frames[1].parent # NULL
  BY RunningOK DEF JSONInv
<1>2. ASSUME pc = "walk", pc' = "walk", Remains,
             Len(frames') <= Len(frames) \/ Filled.kind \in {"struct", "vector", "map"}
      PROVE  JSONInv'
  <2>1. Len(frames) \in Nat /\ Len(frames') \in Nat
    BY <1>1, <1>2, LenOK DEF Remains, Calls
  <2>2. ASSUME NEW k \in 1 .. Len(frames') - 1
        PROVE  frames'[k].value.kind \in {"struct", "vector", "map"}
    <3>1. frames'[k] = frames[k]
      BY <1>2 DEF Remains
    <3>2. k \in 1 .. Len(frames) - 1 \/ (k = Len(frames) /\ ~(Len(frames') <= Len(frames)))
      BY <1>2, <2>1 DEF Remains
    <3>3. CASE k \in 1 .. Len(frames) - 1
      BY <1>1, <1>2, <3>1, <3>3 DEF Waiting
    <3>4. CASE k = Len(frames) /\ ~(Len(frames') <= Len(frames))
      BY <1>2, <3>1, <3>4 DEF Filled, Running
    <3> QED BY <3>2, <3>3, <3>4
  <2> QED BY <1>1, <1>2, <2>2 DEF JSONInv, Waiting, Remains, SaysWhetherRead
<1>3. CASE JSON!DecodeNothing
  BY <1>3, SameNames DEF JSON!DecodeNothing, JSONInv, SaysWhetherRead
<1>4. CASE JSON!DecodeRoot
  <2> DEFINE w == JSON!Prepared(value, current_)
             g == JSON!Frame(w, current_, TRUE, JSON!getChild(current_))
  <2>1. pc' = "walk" /\ frames' = <<g>> /\ "kind" \in DOMAIN value /\ current_ # NULL
        /\ current_' = IF value.kind = "vector" THEN JSON!getChild(current_) ELSE current_
    BY <1>4, SameNames DEF JSONInv, JSON!DecodeRoot
  <2>2. "kind" \in DOMAIN w /\ w.kind = value.kind
    BY <2>1, PreparedOK
  <2> HIDE DEF w
  <2>3. IsFrame(g) /\ g.root /\ g.parent = current_ /\ g.value.kind = value.kind
    BY <2>2 DEF IsFrame, HasFields, JSON!Frame
  <2> HIDE DEF g
  <2>4. Calls' /\ frames'[1] = g /\ Len(frames') = 1
    BY <2>1, <2>3, Starts
  <2>5. Waiting'
    BY <2>4 DEF Waiting
  <2> QED BY <2>1, <2>3, <2>4, <2>5 DEF JSONInv, SaysWhetherRead
<1>5. CASE JSON!MemberAtOnce \/ JSON!MemberMissing
  <2>1. pc = "walk" /\ pc' = "walk" /\ current_' = current_
        /\ \E v, has : frames' = Top(JSON!WithMember(Running, v, has))
    BY <1>5, SameNames DEF JSON!MemberAtOnce, JSON!MemberMissing, JSON!InMembers
  <2>2. PICK g : frames' = Top(g) /\ Keeps(Running, g)
    BY <1>1, <2>1, JSONFrameKept
  <2>3. Remains /\ Len(frames') = Len(frames)
    BY <1>1, <2>1, <2>2, Goes
  <2>4. Len(frames') <= Len(frames)
    BY <2>3, LenOK DEF Remains, Calls
  <2> QED BY <1>2, <2>1, <2>3, <2>4
<1>6. CASE JSON!MemberEntered \/ JSON!ElementEntered \/ JSON!EntryEntered
  <2>1. pc = "walk" /\ pc' = "walk" /\ Filled.kind \in {"struct", "vector", "map"}
        /\ \E v, node : JSON!Enter(v, node)
    BY <1>6, SameNames DEF JSON!MemberEntered, JSON!ElementEntered, JSON!EntryEntered,
                JSON!InMembers, JSON!InVector, JSON!InMap
  <2>2. PICK g : HasFields(g) /\ g.parent = current_ /\ frames' = Append(frames, g)
    BY <2>1 DEF HasFields, JSON!Frame, JSON!Enter
  <2>3. Remains
    BY <1>1, <2>1, <2>2, Enters
  <2> QED BY <1>2, <2>1, <2>3
<1>7. CASE JSON!ElementAtOnce
  <2>1. pc = "walk" /\ pc' = "walk" /\ Filled.kind = "vector"
        /\ \E v : frames' = Top(JSON!WithElement(Running, v))
    BY <1>7, SameNames DEF JSON!ElementAtOnce, JSON!InVector
  <2>2. PICK g : frames' = Top(g) /\ Keeps(Running, g)
    BY <1>1, <2>1, JSONFrameKept
  <2>3. Remains /\ Len(frames') = Len(frames)
    BY <1>1, <2>1, <2>2, Goes
  <2>4. Len(frames') <= Len(frames)
    BY <2>3, LenOK DEF Remains, Calls
  <2> QED BY <1>2, <2>1, <2>3, <2>4
<1>8. CASE JSON!EntryAtOnce
  <2>1. pc = "walk" /\ pc' = "walk" /\ (Running.root => current_' = current_)
        /\ \E n, v : frames' = Top(JSON!WithEntry(Running, n, v))
    BY <1>8, SameNames DEF JSON!EntryAtOnce, JSON!InMap
  <2>2. PICK g : frames' = Top(g) /\ Keeps(Running, g)
    BY <1>1, <2>1, JSONFrameKept
  <2>3. Remains /\ Len(frames') = Len(frames)
    BY <1>1, <2>1, <2>2, Goes
  <2>4. Len(frames') <= Len(frames)
    BY <2>3, LenOK DEF Remains, Calls
  <2> QED BY <1>2, <2>1, <2>3, <2>4
<1>9. CASE JSON!Return
  <2>1. pc = "walk" /\ pc' = "walk" /\ Len(frames) > 1 /\ current_' = JSON!SetBack
        /\ frames' = Append(SubSeq(frames, 1, Len(frames) - 2), JSON!WithValue(Filled))
    BY <1>9, SameNames DEF JSON!Return
  <2>2. Caller.value.kind \in {"struct", "vector", "map"}
    <3>1. Len(frames) - 1 \in 1 .. Len(frames) - 1
      BY <1>1, <2>1, LenOK DEF Calls
    <3> QED BY <1>1, <2>1, <3>1 DEF Waiting, Caller
  <2>3. PICK g : /\ g = JSON!WithValue(Filled)
                 /\ frames' = Append(SubSeq(frames, 1, Len(frames) - 2), g)
    BY <2>1
  <2>4. Keeps(Caller, g)
    <3>1. HasFields(Caller)
      BY <1>1, <2>1, CallerOK
    <3>2. \E n : g \in {JSON!WithMember(Caller, Filled, TRUE), JSON!WithElement(Caller, Filled),
                        JSON!WithEntry(Caller, n, Filled)}
      BY <2>2, <2>3, SameNames DEF JSON!WithValue
    <3> QED BY <3>1, <3>2, JSONFrameKept
  <2>5. Caller.root => current_' = Running.parent \/ Caller.value.kind = "vector"
    BY <2>1, SameNames DEF JSON!SetBack
  <2>6. Remains /\ Len(frames') < Len(frames)
    BY <1>1, <2>1, <2>3, <2>4, <2>5, Returns
  <2>7. Len(frames') <= Len(frames)
    BY <1>1, <2>1, <2>6, LenOK DEF Remains, Calls
  <2> QED BY <1>2, <2>1, <2>6, <2>7
<1>10. CASE JSON!ReturnRoot
  <2>1. FirstCall /\ Len(frames) = 1 /\ Running = frames[1] /\ Filled = Running.value
        /\ Running.parent # NULL
    BY <1>1, <1>10, SameNames DEF Calls, JSON!ReturnRoot, Running, Filled
  <2>2. /\ current_' = IF Filled.kind = "vector" THEN Running.parent ELSE current_
        /\ result' = (current_' = Running.parent) /\ pc' = "done"
    BY <1>10, SameNames DEF JSON!ReturnRoot
  <2>3. current_' = Running.parent
    BY <2>1, <2>2 DEF FirstCall
  <2> QED BY <2>1, <2>2, <2>3 DEF JSONInv, SaysWhetherRead
<1>11. CASE UNCHANGED JSON!vars
  <2>1. UNCHANGED <<current_, frames, pc, value, result>>
    BY <1>11 DEF JSON!vars
  <2> QED BY <2>1 DEF JSONInv, Calls, Waiting, FirstCall, SaysWhetherRead, IsSeq, IsFrame, HasFields
<1> QED BY <1>3, <1>4, <1>5, <1>6, <1>7, <1>8, <1>9, <1>10, <1>11 DEF JSON!Next

\* operator>> of JSONDecoder returns whether json::Reader has made a node, and nothing
\* of whether the object has been found in the document: every call that has moved
\* current_ has set it back, whatever the tree, the object and the flags.
THEOREM TrueIfRead == JSONDecoding => []SaysWhetherRead
<1>1. JSONConstructed => JSONInv
  BY DEF JSONConstructed, JSONInv, SaysWhetherRead
<1>2. JSONInv => SaysWhetherRead
  BY DEF JSONInv
<1> QED BY <1>1, <1>2, JSONSteps, PTL DEF JSONDecoding
=============================================================================
