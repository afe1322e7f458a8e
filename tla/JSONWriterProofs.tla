-------------------------- MODULE JSONWriterProofs --------------------------
(***************************************************************************)
(* For every value, however deep and large, whose root is not a vector of  *)
(* containers: JSONEncoder writes JSON.                                    *)
(*                                                                         *)
(* The argument: the writer's two numbers per level determine what the     *)
(* text wants next.  While a container is open, every container around it  *)
(* is in a state (Below) in which closing the inner one leaves `more'.     *)
(***************************************************************************)
EXTENDS JSONWriter, SequenceTheorems, TLAPS

Outer == 1 .. Len(frames) - 1

\* text is inside of exactly the containers of the encoder.
NestOK == /\ Len(text.nest) = Len(frames)
          /\ \A i \in 1 .. Len(frames) : text.nest[i] = frames[i].kind

\* Every vector of containers asks for its own commas.
SeparatesOK == \A i \in 1 .. Len(frames) :
    frames[i].kind = "array" =>
        frames[i].elems # "any" /\ (frames[i].elems # "scalar" => frames[i].separates)

\* A container around the innermost one is in the middle of a value.
Below == \A i \in Outer :
    IF frames[i].kind = "object" THEN stack_[i].second > 0
    ELSE frames[i].elems # "scalar" /\ frames[i].i > 0 /\ stack_[i].first = NULL_TYPE

\* What the text wants, by what the writer knows of the innermost container.
ObjectWants ==
    IF pc = "value" THEN text.want = "colon" /\ Top.first = KEY_TYPE /\ Top.second > 0
    ELSE text.want = IF Top.second > 0 THEN "more" ELSE "member"

ScalarsWant ==
    IF Current.i > 0 THEN text.want = "more" /\ Top.first = VALUE_TYPE
    ELSE text.want = "item" /\ Top.first = NULL_TYPE

ContainersWant ==
    /\ Top.first = NULL_TYPE
    /\ text.want = IF Current.i = 0 THEN "item" ELSE IF pc = "value" THEN "value" ELSE "more"

Wants == IF Current.kind = "object" THEN ObjectWants
         ELSE IF Current.elems = "scalar" THEN ScalarsWant ELSE ContainersWant

Running == pc \in {"next", "value"} => frames # <<>> /\ ~result /\ Wants

AtRest == /\ pc \in {"idle", "done"} => frames = <<>>
          /\ pc = "idle" => text = T!NoText /\ ~result
          /\ pc = "done" => text = IF result THEN T!Then(T!NoText, "end") ELSE T!NoText

IInv == TypeOK /\ NestOK /\ SeparatesOK /\ Below /\ Running /\ AtRest

-----------------------------------------------------------------------------
(***************************************************************************)
(* Sequences used as stacks.                                               *)
(***************************************************************************)
LEMMA StackTop ==
    ASSUME NEW S, NEW s \in Seq(S), s # <<>>
    PROVE  Len(s) \in Nat \ {0} /\ Len(s) \in 1 .. Len(s) /\ s[Len(s)] \in S
<1>1. Len(s) \in Nat \ {0} /\ Len(s) \in 1 .. Len(s)
  BY SMTT(20)
<1> QED
  BY <1>1

LEMMA StackSet ==
    ASSUME NEW S, NEW s \in Seq(S), s # <<>>, NEW x \in S
    PROVE  LET t == [s EXCEPT ![Len(s)] = x] IN
           /\ t \in Seq(S) /\ Len(t) = Len(s) /\ t # <<>> /\ t[Len(t)] = x
           /\ \A i \in 1 .. Len(s) - 1 : t[i] = s[i]
<1>1. Len(s) \in Nat \ {0} /\ Len(s) \in 1 .. Len(s)
  OBVIOUS
<1> DEFINE t == [s EXCEPT ![Len(s)] = x]
<1>2. t \in Seq(S) /\ Len(t) = Len(s)
  BY <1>1
<1>3. t[Len(s)] = x /\ \A i \in 1 .. Len(s) - 1 : t[i] = s[i]
  BY <1>1
<1>4. t # <<>>
  BY <1>1, <1>2
<1> QED
  BY <1>1, <1>2, <1>3, <1>4

LEMMA StackPush ==
    ASSUME NEW S, NEW s \in Seq(S), NEW x \in S
    PROVE  LET t == Append(s, x) IN
           /\ t \in Seq(S) /\ Len(t) = Len(s) + 1 /\ t # <<>> /\ t[Len(t)] = x
           /\ \A i \in 1 .. Len(s) : t[i] = s[i]
<1> DEFINE t == Append(s, x)
<1>1. t \in Seq(S) /\ Len(t) = Len(s) + 1 /\ Len(s) \in Nat
  OBVIOUS
<1>2. t[Len(s) + 1] = x /\ \A i \in 1 .. Len(s) : t[i] = s[i]
  OBVIOUS
<1>3. t # <<>>
  BY <1>1
<1> QED
  BY <1>1, <1>2, <1>3

LEMMA StackPop ==
    ASSUME NEW S, NEW s \in Seq(S), s # <<>>
    PROVE  /\ Pop(s) \in Seq(S) /\ Len(Pop(s)) = Len(s) - 1
           /\ \A i \in 1 .. Len(s) - 1 : Pop(s)[i] = s[i]
           /\ (Pop(s) = <<>>) <=> (Len(s) = 1)
<1> DEFINE m == Len(s) - 1
<1>1. m \in Nat /\ \A i \in 1 .. m : s[i] \in S
  <2>1. Len(s) \in Nat \ {0}
    OBVIOUS
  <2> QED
    BY <2>1
<1> HIDE DEF m
<1>2. /\ SubSeq(s, 1, m) \in Seq(S)
      /\ Len(SubSeq(s, 1, m)) = IF 1 <= m THEN m - 1 + 1 ELSE 0
      /\ \A i \in 1 .. m - 1 + 1 : SubSeq(s, 1, m)[i] = s[1 + i - 1]
  <2>1. m \in Int /\ 1 \in Int
    BY <1>1
  <2> QED
    BY <1>1, <2>1, SubSeqProperties
<1>3. SubSeq(s, 1, m) \in Seq(S) /\ Len(SubSeq(s, 1, m)) = m
        /\ \A i \in 1 .. m : SubSeq(s, 1, m)[i] = s[i]
  BY <1>1, <1>2
<1>4. (SubSeq(s, 1, m) = <<>>) <=> m = 0
  BY <1>1, <1>3
<1>5. Pop(s) = SubSeq(s, 1, m) /\ (m = 0 <=> Len(s) = 1)
  BY <1>1 DEF Pop, m
<1> QED
  BY <1>3, <1>4, <1>5 DEF m

-----------------------------------------------------------------------------
(***************************************************************************)
(* The grammar.                                                            *)
(***************************************************************************)
LEMMA AfterNone == \A g : T!After(g, "none") = g
BY DEF T!After, T!Scalar

LEMMA AfterScalar ==
    ASSUME NEW g, NEW t \in T!Scalar, g.want \in {"value", "item"}
    PROVE  T!After(g, t) = T!ValueDone(g.nest)
BY DEF T!After, T!Scalar

LEMMA AfterKey ==
    ASSUME NEW g, NEW t \in {"string", "empty"}, g.want \in {"member", "key"}
    PROVE  T!After(g, t) = T!Then(g, "colon")
BY DEF T!After, T!Scalar

LEMMA AfterColon ==
    ASSUME NEW g, g.want = "colon"
    PROVE  T!After(g, "colon") = T!Then(g, "value")
BY DEF T!After, T!Scalar

LEMMA AfterComma ==
    ASSUME NEW g, g.want = "more"
    PROVE  T!After(g, "comma") = T!Then(g, IF T!Inside(g, "object") THEN "key" ELSE "value")
BY DEF T!After, T!Scalar

LEMMA AfterOpening ==
    ASSUME NEW g, g.want \in {"value", "item"}
    PROVE  /\ T!After(g, "lbrace") = T!Opened(g, "object", "member")
           /\ T!After(g, "lbracket") = T!Opened(g, "array", "item")
BY DEF T!After, T!Scalar

LEMMA AfterClosing ==
    ASSUME NEW g
    PROVE  /\ g.want \in {"member", "more"} /\ T!Inside(g, "object")
                => T!After(g, "rbrace") = T!Closed(g)
           /\ g.want \in {"item", "more"} /\ T!Inside(g, "array")
                => T!After(g, "rbracket") = T!Closed(g)
BY DEF T!After, T!Scalar

LEMMA StateParts ==
    ASSUME NEW g, NEW w
    PROVE  /\ T!Then(g, w).want = w /\ T!Then(g, w).nest = g.nest
           /\ T!ValueDone(g.nest).nest = g.nest
           /\ T!ValueDone(g.nest).want = IF g.nest = <<>> THEN "end" ELSE "more"
           /\ \A k : /\ T!Opened(g, k, w).want = w
                     /\ T!Opened(g, k, w).nest = Append(g.nest, k)
BY DEF T!Then, T!ValueDone, T!Opened

LEMMA StateTyped ==
    ASSUME NEW n \in Seq({"object", "array"}), NEW w \in T!Want
    PROVE  [want |-> w, nest |-> n] \in T!State
BY DEF T!State

-----------------------------------------------------------------------------
(***************************************************************************)
(* The steps.                                                              *)
(***************************************************************************)
Tokens == T!Scalar \cup T!Punctuation

LEMMA PlusTyped ==
    ASSUME NEW s \in Seq(Tokens), NEW t \in Tokens \cup {"none"}
    PROVE  Plus(s, t) \in Seq(Tokens)
BY DEF Plus

LEMMA PutTyped ==
    ASSUME TypeOK, NEW t \in Tokens \cup {"none"}, NEW u \in Tokens \cup {"none"}, Put(t, u)
    PROVE  str_' \in Seq(Tokens)
<1>1. str_ \in Seq(Tokens)
  BY DEF TypeOK, Tokens
<1>2. Plus(str_, t) \in Seq(Tokens)
  BY <1>1, PlusTyped
<1> QED
  BY <1>2, PlusTyped DEF Put

\* The innermost container, for the encoder, the writer and the text.
LEMMA Innermost ==
    ASSUME TypeOK, NestOK, frames # <<>>
    PROVE  /\ Current \in Frame /\ Top \in Level /\ stack_ # <<>> /\ text.nest # <<>>
           /\ text.nest \in Seq({"object", "array"}) /\ text.want \in T!Want
           /\ Len(frames) \in Nat \ {0} /\ Len(frames) \in 1 .. Len(frames)
           /\ \A k : T!Inside(text, k) <=> Current.kind = k
<1>1. frames \in Seq(Frame) /\ stack_ \in Seq(Level) /\ Len(stack_) = Len(frames)
  BY DEF TypeOK
<1>2. text.nest \in Seq({"object", "array"}) /\ text.want \in T!Want
  BY DEF TypeOK, T!State
<1>3. Len(frames) \in Nat \ {0} /\ Len(frames) \in 1 .. Len(frames)
  BY <1>1, StackTop
<1>4. stack_ # <<>> /\ text.nest # <<>>
  BY <1>1, <1>2, <1>3 DEF NestOK
<1>5. text.nest[Len(text.nest)] = Current.kind
  BY <1>3 DEF NestOK, Current
<1> QED
  BY <1>1, <1>2, <1>3, <1>4, <1>5, StackTop DEF Current, Top, T!Inside

\* Before a value, the writer's colon or comma makes the text want a value.
LEMMA LeadOK ==
    ASSUME IInv, pc = "value"
    PROVE  /\ T!After(text, Lead).want \in {"value", "item"}
           /\ T!After(text, Lead).nest = text.nest
           /\ Lead \in Tokens \cup {"none"}
           /\ frames # <<>>
<1>1. frames # <<>> /\ Wants /\ TypeOK /\ NestOK
  BY DEF IInv, Running
<1>2. stack_ # <<>> /\ (Current.kind = "object" \/ T!Inside(text, "array"))
        /\ ~(T!Inside(text, "array") /\ T!Inside(text, "object"))
  BY <1>1, Innermost DEF Frame
<1>3. Lead = CASE Top.first = KEY_TYPE -> "colon"
               [] Top.first = VALUE_TYPE -> "comma"
               [] OTHER -> "none"
  BY <1>2 DEF Lead
<1>4. Lead \in Tokens \cup {"none"}
  BY <1>3 DEF Tokens, T!Punctuation
<1>5. CASE Current.kind = "object"
  <2>1. text.want = "colon" /\ Lead = "colon"
    BY <1>1, <1>3, <1>5 DEF Wants, ObjectWants, KEY_TYPE, VALUE_TYPE
  <2> QED
    BY <1>1, <1>4, <2>1, AfterColon, StateParts
<1>6. CASE Current.kind # "object" /\ Current.elems = "scalar"
  <2>1. CASE Current.i > 0
    <3>1. text.want = "more" /\ Lead = "comma"
      BY <1>1, <1>3, <1>6, <2>1 DEF Wants, ScalarsWant, KEY_TYPE, VALUE_TYPE
    <3> QED
      BY <1>1, <1>2, <1>4, <1>6, <3>1, AfterComma, StateParts
  <2>2. CASE ~(Current.i > 0)
    <3>1. text.want = "item" /\ Lead = "none"
      BY <1>1, <1>3, <1>6, <2>2 DEF Wants, ScalarsWant, KEY_TYPE, VALUE_TYPE, NULL_TYPE
    <3> QED
      BY <1>1, <1>4, <3>1, AfterNone
  <2> QED
    BY <2>1, <2>2
<1>7. CASE Current.kind # "object" /\ Current.elems # "scalar"
  <2>1. text.want \in {"value", "item"} /\ Lead = "none"
    BY <1>1, <1>3, <1>7 DEF Wants, ContainersWant, KEY_TYPE, VALUE_TYPE, NULL_TYPE
  <2> QED
    BY <1>1, <1>4, <2>1, AfterNone
<1> QED
  BY <1>5, <1>6, <1>7

\* The element that is begun counts; nothing else of the frames changes.
LEMMA BegunOK ==
    ASSUME TypeOK, NestOK, frames # <<>>
    PROVE  /\ Begun \in Seq(Frame) /\ Len(Begun) = Len(frames) /\ Begun # <<>>
           /\ Begun[Len(frames)].i > 0
           /\ \A i \in 1 .. Len(frames) : /\ Begun[i].kind = frames[i].kind
                                         /\ Begun[i].elems = frames[i].elems
                                         /\ Begun[i].separates = frames[i].separates
           /\ \A i \in Outer : Begun[i] = frames[i]
<1> DEFINE f == [Current EXCEPT !.i = @ + 1]
<1>1. Current \in Frame /\ frames \in Seq(Frame) /\ Len(frames) \in 1 .. Len(frames)
  BY Innermost DEF TypeOK
<1>2. f \in Frame /\ f.kind = Current.kind /\ f.elems = Current.elems
        /\ f.separates = Current.separates /\ f.i > 0
  BY <1>1 DEF Frame
<1>3. Begun = [frames EXCEPT ![Len(frames)] = f]
  BY <1>1 DEF Begun, Current
<1> HIDE DEF f
<1>4. /\ Begun \in Seq(Frame) /\ Len(Begun) = Len(frames) /\ Begun # <<>>
      /\ Begun[Len(frames)] = f /\ \A i \in 1 .. Len(frames) - 1 : Begun[i] = frames[i]
  BY <1>1, <1>2, <1>3, StackSet
<1>5. \A i \in 1 .. Len(frames) : i \in 1 .. Len(frames) - 1 \/ i = Len(frames)
  BY <1>1
<1> QED
  BY <1>2, <1>4, <1>5 DEF Outer, Current

LEMMA KeyStep ==
    ASSUME IInv, NEW k \in Keys, NextMember(k)
    PROVE  IInv'
<1> DEFINE level == [first |-> KEY_TYPE, second |-> Top.second + 1]
<1>1. pc = "next" /\ Current.kind = "object" /\ frames # <<>> /\ pc' = "value"
        /\ UNCHANGED <<frames, result>>
  BY DEF NextMember, InObject
<1>2. Top \in Level /\ stack_ \in Seq(Level) /\ stack_ # <<>>
  BY <1>1, Innermost DEF IInv, TypeOK
<1>3. level \in Level /\ level.first = KEY_TYPE /\ level.second > 0
  BY <1>2 DEF Level
<1> HIDE DEF level
<1>4. stack_' = [stack_ EXCEPT ![Len(stack_)] = level]
  BY DEF NextMember, key, SetTop, level
<1>5. /\ stack_' \in Seq(Level) /\ Len(stack_') = Len(stack_) /\ Top' = level
      /\ \A i \in 1 .. Len(stack_) - 1 : stack_'[i] = stack_[i]
  BY <1>2, <1>3, <1>4, StackSet DEF Top
<1>6. k \in {"string", "empty"}
  BY WriterAssumption
<1>7. text' = T!Then(text, "colon") /\ str_' \in Seq(Tokens)
  <2> DEFINE c == IF Top.second > 0 THEN "comma" ELSE "none"
  <2>1. Put(c, k)
    BY DEF NextMember, key
  <2>2. c \in Tokens \cup {"none"} /\ k \in Tokens
    BY <1>6 DEF Tokens, T!Punctuation, T!Scalar
  <2>3. str_' \in Seq(Tokens)
    BY <2>1, <2>2, PutTyped DEF IInv
  <2>4. text.want = (IF Top.second > 0 THEN "more" ELSE "member") /\ T!Inside(text, "object")
    BY <1>1, Innermost DEF IInv, Running, Wants, ObjectWants
  <2>5. T!After(text, c).want \in {"member", "key"} /\ T!After(text, c).nest = text.nest
    <3>1. CASE Top.second > 0
      BY <2>4, <3>1, AfterComma, StateParts
    <3>2. CASE ~(Top.second > 0)
      BY <2>4, <3>2, AfterNone
    <3> QED
      BY <3>1, <3>2
  <2>6. text' = T!Then(T!After(text, c), "colon")
    BY <1>6, <2>1, <2>5, AfterKey DEF Put
  <2> QED
    BY <2>3, <2>5, <2>6 DEF T!Then
<1>8. text'.want = "colon" /\ text'.nest = text.nest
  BY <1>7, StateParts
<1>9. text' \in T!State
  BY <1>1, <1>7, Innermost, StateTyped DEF IInv, T!Then, T!Want
<1>10. TypeOK'
  BY <1>1, <1>5, <1>7, <1>9 DEF IInv, TypeOK, Tokens
<1>11. NestOK' /\ SeparatesOK'
  BY <1>1, <1>8 DEF IInv, NestOK, SeparatesOK
<1>12. Below'
  BY <1>1, <1>5 DEF IInv, TypeOK, Below, Outer
<1>13. Running' /\ AtRest'
  BY <1>1, <1>3, <1>5, <1>8 DEF IInv, Running, AtRest, Wants, ObjectWants, Current
<1> QED
  BY <1>10, <1>11, <1>12, <1>13 DEF IInv


LEMMA ElementStep ==
    ASSUME IInv, NextElement
    PROVE  IInv'
<1>1. pc = "next" /\ Current.kind = "array" /\ frames # <<>> /\ pc' = "value"
        /\ UNCHANGED <<frames, result>> /\ TypeOK /\ NestOK /\ Wants /\ ~result
  BY DEF NextElement, InArray, IInv, Running
<1>2. Top \in Level /\ stack_ \in Seq(Level) /\ stack_ # <<>> /\ Current \in Frame
        /\ Len(frames) \in 1 .. Len(frames)
  BY <1>1, Innermost DEF TypeOK
<1>3. Current.elems # "scalar" => Current.separates
  BY <1>1, <1>2 DEF IInv, SeparatesOK, Current
<1>4. UNCHANGED stack_ /\ str_' \in Seq(Tokens)
  <2>1. CASE Current.separates /\ Current.i > 0
    <3>1. separation
      BY <2>1 DEF NextElement
    <3>2. PICK t \in {"comma", "none"} : Put("none", t)
      BY <3>1 DEF separation
    <3> QED
      BY <1>1, <3>1, <3>2, PutTyped DEF separation, Tokens, T!Punctuation
  <2>2. CASE ~(Current.separates /\ Current.i > 0)
    BY <1>1, <2>2 DEF NextElement, TypeOK, Tokens
  <2> QED
    BY <2>1, <2>2
<1>5. text' = IF Current.elems # "scalar" /\ Current.i > 0 THEN T!Then(text, "value") ELSE text
  <2>1. CASE Current.elems # "scalar" /\ Current.i > 0
    <3>1. text.want = "more" /\ Top.first = NULL_TYPE /\ ~T!Inside(text, "object")
      BY <1>1, <1>2, <2>1, Innermost DEF Wants, ContainersWant
    <3>2. separation
      BY <1>3, <2>1 DEF NextElement
    <3>3. text' = T!After(T!After(text, "none"), "comma")
      BY <3>1, <3>2 DEF separation, Put
    <3> QED
      BY <2>1, <3>1, <3>3, AfterNone, AfterComma
  <2>2. CASE Current.elems = "scalar" /\ Current.separates /\ Current.i > 0
    <3>1. Top.first = VALUE_TYPE
      BY <1>1, <2>2 DEF Wants, ScalarsWant
    <3>2. separation
      BY <2>2 DEF NextElement
    <3>3. text' = T!After(T!After(text, "none"), "none")
      BY <3>1, <3>2 DEF separation, Put, VALUE_TYPE, NULL_TYPE
    <3> QED
      BY <2>2, <3>3, AfterNone
  <2>3. CASE ~(Current.separates /\ Current.i > 0)
    BY <1>3, <2>3 DEF NextElement
  <2> QED
    BY <1>3, <2>1, <2>2, <2>3
<1>6. text'.nest = text.nest /\ text' \in T!State
        /\ text'.want = IF Current.elems # "scalar" /\ Current.i > 0 THEN "value" ELSE text.want
  BY <1>1, <1>5, Innermost, StateParts, StateTyped DEF TypeOK, T!Then, T!Want
<1>7. Top' = Top /\ Current' = Current
  BY <1>1, <1>4 DEF Top, Current
<1>8. TypeOK' /\ NestOK' /\ SeparatesOK' /\ Below'
  BY <1>1, <1>4, <1>6 DEF IInv, TypeOK, NestOK, SeparatesOK, Below, Outer, Tokens
<1>9. Wants'
  BY <1>1, <1>2, <1>6, <1>7 DEF Wants, ScalarsWant, ContainersWant, Frame
<1> QED
  BY <1>1, <1>8, <1>9 DEF IInv, Running, AtRest

LEMMA ScalarStep ==
    ASSUME IInv, NEW v \in Scalars, EncodeScalar(v)
    PROVE  IInv'
<1> DEFINE level == [Top EXCEPT !.first = VALUE_TYPE]
           g == T!After(text, Lead)
<1>1. /\ pc = "value" /\ pc' = "next" /\ result' = result /\ Takes("scalar") /\ scalar(v)
      /\ frames' = Begun
      /\ TypeOK /\ NestOK /\ Wants /\ ~result /\ frames # <<>>
  BY DEF EncodeScalar, IInv, Running
<1>2. Top \in Level /\ stack_ \in Seq(Level) /\ stack_ # <<>> /\ Current \in Frame
        /\ Len(frames) \in 1 .. Len(frames) /\ text.nest # <<>>
        /\ text.nest \in Seq({"object", "array"})
  BY <1>1, Innermost DEF TypeOK
<1>3. g.want \in {"value", "item"} /\ g.nest = text.nest /\ Lead \in Tokens \cup {"none"}
  BY <1>1, LeadOK
<1>4. level \in Level /\ level.first = VALUE_TYPE /\ level.second = Top.second
  BY <1>2 DEF Level
<1>5. stack_' = [stack_ EXCEPT ![Len(stack_)] = level]
  BY <1>1 DEF scalar, SetTop
<1> HIDE DEF level, g
<1>6. /\ stack_' \in Seq(Level) /\ Len(stack_') = Len(stack_) /\ Top' = level
      /\ \A i \in 1 .. Len(stack_) - 1 : stack_'[i] = stack_[i]
  BY <1>2, <1>4, <1>5, StackSet DEF Top
<1>7. v \in T!Scalar /\ v \in Tokens
  BY WriterAssumption DEF T!Scalar, Tokens
<1>8. text' = T!ValueDone(text.nest) /\ str_' \in Seq(Tokens)
  BY <1>1, <1>3, <1>7, AfterScalar, PutTyped DEF scalar, Put, g
<1>9. text'.want = "more" /\ text'.nest = text.nest /\ text' \in T!State
  BY <1>2, <1>8, StateParts, StateTyped DEF T!ValueDone, T!Want
<1>10. /\ frames' \in Seq(Frame) /\ Len(frames') = Len(frames) /\ frames' # <<>>
       /\ Current'.i > 0 /\ Current'.kind = Current.kind /\ Current'.elems = Current.elems
       /\ \A i \in 1 .. Len(frames) : /\ frames'[i].kind = frames[i].kind
                                      /\ frames'[i].elems = frames[i].elems
                                      /\ frames'[i].separates = frames[i].separates
       /\ \A i \in Outer : frames'[i] = frames[i]
  BY <1>1, <1>2, BegunOK DEF Current
<1>11. TypeOK' /\ NestOK' /\ SeparatesOK'
  BY <1>1, <1>6, <1>8, <1>9, <1>10 DEF IInv, TypeOK, NestOK, SeparatesOK, Tokens
<1>12. Below'
  BY <1>1, <1>6, <1>10 DEF IInv, TypeOK, Below, Outer
<1>13. Current.kind # "object" => Current.elems = "scalar"
  BY <1>1, <1>2 DEF IInv, SeparatesOK, Takes, Current, Frame
<1>14. Current.kind = "object" => level.second > 0
  BY <1>1, <1>4 DEF Wants, ObjectWants
<1>15. Wants'
  BY <1>1, <1>4, <1>6, <1>9, <1>10, <1>13, <1>14 DEF Wants, ObjectWants, ScalarsWant
<1> QED
  BY <1>1, <1>10, <1>11, <1>12, <1>15 DEF IInv, Running, AtRest


\* A frame just entered, and the token that opens its container.
Fresh(f) == /\ f \in Frame /\ f.i = 0
            /\ f.kind = "array" => f.elems # "any" /\ (f.elems # "scalar" => f.separates)
Opens(f) == IF f.kind = "object" THEN startObject ELSE startArray

LEMMA OpenStep ==
    ASSUME IInv, pc = "value", pc' = "next", result' = result,
           NEW f, Fresh(f), Opens(f), frames' = Append(Begun, f),
           Current.kind = "array" => Current.elems # "scalar"
    PROVE  IInv'
<1> DEFINE n == Len(frames)
           g == T!After(text, Lead)
           t == IF f.kind = "object" THEN "lbrace" ELSE "lbracket"
           w == IF f.kind = "object" THEN "member" ELSE "item"
<1>1. TypeOK /\ NestOK /\ Wants /\ ~result /\ frames # <<>>
  BY DEF IInv, Running
<1>2. /\ Top \in Level /\ stack_ \in Seq(Level) /\ Len(stack_) = n /\ Current \in Frame
      /\ n \in 1 .. n /\ n \in Nat /\ text.nest \in Seq({"object", "array"}) /\ Len(text.nest) = n
  BY <1>1, Innermost DEF TypeOK, NestOK
<1>3. g.want \in {"value", "item"} /\ g.nest = text.nest /\ Lead \in Tokens \cup {"none"}
  BY LeadOK
<1>4. Put(Lead, t) /\ stack_' = Append(stack_, NewLevel)
  BY DEF Opens, startObject, startArray
<1>5. f.kind \in {"object", "array"} /\ f \in Frame /\ f.i = 0
  BY DEF Fresh, Frame
<1>6. t \in Tokens /\ str_' \in Seq(Tokens)
  BY <1>1, <1>3, <1>4, PutTyped DEF Tokens, T!Punctuation
<1>7. text' = T!Opened(g, f.kind, w)
  BY <1>3, <1>4, <1>5, AfterOpening DEF Put
<1>8. /\ text'.want = w /\ text'.nest = Append(text.nest, f.kind) /\ text' \in T!State
      /\ Len(text'.nest) = n + 1 /\ text'.nest[n + 1] = f.kind
      /\ \A i \in 1 .. n : text'.nest[i] = text.nest[i]
  <2>1. text'.want = w /\ text'.nest = Append(text.nest, f.kind)
    BY <1>3, <1>7 DEF T!Opened
  <2>2. Append(text.nest, f.kind) \in Seq({"object", "array"}) /\ w \in T!Want
    BY <1>2, <1>5 DEF T!Want
  <2>3. text' \in T!State
    BY <1>3, <1>7, <2>2, StateTyped DEF T!Opened
  <2> QED
    BY <1>2, <1>5, <2>1, <2>3, StackPush
<1>9. NewLevel \in Level /\ NewLevel.first = NULL_TYPE /\ NewLevel.second = 0
  BY DEF NewLevel, Level
<1>10. /\ stack_' \in Seq(Level) /\ Len(stack_') = n + 1 /\ Top' = NewLevel
       /\ \A i \in 1 .. n : stack_'[i] = stack_[i]
  BY <1>2, <1>4, <1>9, StackPush DEF Top
<1>11. /\ frames' \in Seq(Frame) /\ Len(frames') = n + 1 /\ frames' # <<>> /\ Current' = f
       /\ \A i \in 1 .. n : frames'[i] = Begun[i]
  BY <1>1, <1>5, BegunOK, StackPush DEF Current
<1>12. \A i \in 1 .. n + 1 : i \in 1 .. n \/ i = n + 1
  BY <1>2
<1>13. TypeOK'
  BY <1>1, <1>6, <1>8, <1>10, <1>11 DEF TypeOK, Tokens
<1>14. NestOK'
  BY <1>1, <1>8, <1>11, <1>12, BegunOK DEF NestOK, Current
<1>15. SeparatesOK'
  <2>1. frames'[n + 1] = f
    BY <1>11 DEF Current
  <2> QED
    BY <1>1, <1>11, <1>12, <2>1, BegunOK DEF IInv, SeparatesOK, Fresh
<1>16. Below'
  <2> SUFFICES ASSUME NEW i \in 1 .. n
               PROVE  IF frames'[i].kind = "object" THEN stack_'[i].second > 0
                      ELSE /\ frames'[i].elems # "scalar" /\ frames'[i].i > 0
                           /\ stack_'[i].first = NULL_TYPE
    BY <1>2, <1>11 DEF Below, Outer
  <2>1. CASE i \in Outer
    BY <1>1, <1>10, <1>11, <2>1, BegunOK DEF IInv, Below
  <2>2. CASE i = n
    <3>1. stack_[n] = Top /\ frames[n] = Current
      BY <1>2 DEF Top, Current
    <3>2. IF Current.kind = "object" THEN Top.second > 0
          ELSE Current.elems # "scalar" /\ Top.first = NULL_TYPE
      BY <1>1, <1>2 DEF Wants, ObjectWants, ContainersWant, Frame
    <3>3. /\ frames'[n].kind = Current.kind /\ frames'[n].elems = Current.elems
          /\ frames'[n].i > 0 /\ stack_'[n] = Top
      BY <1>1, <1>2, <1>10, <1>11, <3>1, BegunOK
    <3> QED
      BY <2>2, <3>2, <3>3
  <2>3. i \in Outer \/ i = n
    BY <1>2 DEF Outer
  <2> QED
    BY <2>1, <2>2, <2>3
<1>17. Wants'
  <2>1. Top'.first = NULL_TYPE /\ Top'.second = 0 /\ Current'.i = 0 /\ text'.want = w
    BY <1>5, <1>8, <1>9, <1>10, <1>11
  <2> QED
    BY <1>11, <2>1 DEF Wants, ObjectWants, ScalarsWant, ContainersWant
<1> QED
  BY <1>1, <1>11, <1>13, <1>14, <1>15, <1>16, <1>17 DEF IInv, Running, AtRest

LEMMA FreshFrames ==
    /\ Fresh(Object) /\ Object.kind = "object"
    /\ \A e \in {"scalar", "object", "array"}, b \in BOOLEAN :
          (e # "scalar" => b) => Fresh(Array(e, b)) /\ Array(e, b).kind = "array"
<1>1. Fresh(Object) /\ Object.kind = "object"
  BY DEF Fresh, Object, Frame
<1>2. ASSUME NEW e \in {"scalar", "object", "array"}, NEW b \in BOOLEAN, e # "scalar" => b
      PROVE  Fresh(Array(e, b)) /\ Array(e, b).kind = "array"
  <2>1. Array(e, b) \in Frame
    BY DEF Array, Frame
  <2>2. /\ Array(e, b).kind = "array" /\ Array(e, b).i = 0 /\ Array(e, b).elems = e
        /\ Array(e, b).separates = b
    BY DEF Array
  <2> QED
    BY <1>2, <2>1, <2>2 DEF Fresh
<1> QED
  BY <1>1, <1>2

\* The root: an object, or a vector of scalars.
LEMMA RootStep ==
    ASSUME IInv, pc = "idle", result' = result, NEW f, Fresh(f), Opens(f), frames' = <<f>>,
           IF f.kind = "object" THEN pc' = "next" ELSE f.elems = "scalar" /\ pc' = "value"
    PROVE  IInv'
<1> DEFINE t == IF f.kind = "object" THEN "lbrace" ELSE "lbracket"
           w == IF f.kind = "object" THEN "member" ELSE "item"
<1>1. frames = <<>> /\ text = T!NoText /\ ~result /\ TypeOK
  BY DEF IInv, AtRest
<1>2. stack_ = <<>>
  BY <1>1 DEF TypeOK
<1>3. Lead = "none" /\ Put("none", t) /\ stack_' = Append(stack_, NewLevel)
  BY <1>2 DEF Opens, startObject, startArray, Lead
<1>4. f.kind \in {"object", "array"} /\ f \in Frame /\ f.i = 0
  BY DEF Fresh, Frame
<1>5. str_' \in Seq(Tokens)
  BY <1>1, <1>3, PutTyped DEF Tokens, T!Punctuation
<1>6. text' = T!Opened(text, f.kind, w)
  <2>1. text' = T!After(text, t)
    BY <1>3, AfterNone DEF Put
  <2>2. text.want \in {"value", "item"}
    BY <1>1 DEF T!NoText
  <2> QED
    BY <1>4, <2>1, <2>2, AfterOpening
<1>7. text'.want = w /\ text'.nest = <<f.kind>> /\ text' \in T!State
  <2>1. text'.want = w /\ text'.nest = Append(text.nest, f.kind) /\ text.nest = <<>>
    BY <1>1, <1>6 DEF T!NoText, T!Opened
  <2>2. text'.nest = <<f.kind>> /\ <<f.kind>> \in Seq({"object", "array"}) /\ w \in T!Want
    BY <1>4, <2>1 DEF T!Want
  <2> QED
    BY <1>6, <2>1, <2>2, StateTyped DEF T!Opened
<1>8. NewLevel \in Level /\ NewLevel.first = NULL_TYPE /\ NewLevel.second = 0
  BY DEF NewLevel, Level
<1>9. stack_' = <<NewLevel>> /\ stack_' \in Seq(Level) /\ Len(stack_') = 1 /\ Top' = NewLevel
  BY <1>2, <1>3, <1>8 DEF Top
<1>10. /\ frames' \in Seq(Frame) /\ Len(frames') = 1 /\ frames' # <<>> /\ Current' = f
       /\ frames'[1] = f
  BY <1>4 DEF Current
<1>11. pc' \in {"next", "value"}
  OBVIOUS
<1>12. TypeOK'
  BY <1>1, <1>5, <1>7, <1>9, <1>10, <1>11 DEF TypeOK, Tokens
<1>13. NestOK' /\ SeparatesOK' /\ Below'
  BY <1>7, <1>10 DEF NestOK, SeparatesOK, Below, Outer, Fresh
<1>14. Wants'
  BY <1>4, <1>7, <1>8, <1>9, <1>10 DEF Wants, ObjectWants, ScalarsWant
<1> QED
  BY <1>1, <1>10, <1>11, <1>12, <1>13, <1>14 DEF IInv, Running, AtRest

\* The end of a container: the one around it goes on, or the value is written.
LEMMA CloseStep ==
    ASSUME IInv, CloseObject \/ CloseArray
    PROVE  /\ IInv'
           /\ result' => text'.want = "end"
           /\ \E t \in {"rbrace", "rbracket"} : text' = T!After(text, t)
<1> DEFINE n == Len(frames)
           t == IF Current.kind = "object" THEN "rbrace" ELSE "rbracket"
<1>1. /\ pc = "next" /\ frames # <<>> /\ Ended
      /\ IF Current.kind = "object" THEN endObject ELSE endArray
      /\ TypeOK /\ NestOK /\ Wants /\ ~result
  BY DEF CloseObject, CloseArray, InObject, InArray, IInv, Running
<1>2. /\ stack_ \in Seq(Level) /\ stack_ # <<>> /\ Len(stack_) = n
      /\ frames \in Seq(Frame) /\ Current \in Frame /\ n \in 1 .. n /\ n \in Nat \ {0}
      /\ text.nest \in Seq({"object", "array"}) /\ text.nest # <<>> /\ Len(text.nest) = n
      /\ T!Inside(text, Current.kind)
  BY <1>1, Innermost DEF TypeOK, NestOK
<1>3. Put("none", t) /\ stack_' = Pop(stack_)
  BY <1>1 DEF endObject, endArray
<1>4. str_' \in Seq(Tokens)
  BY <1>1, <1>3, PutTyped DEF Tokens, T!Punctuation
<1>5. text' = T!After(text, t)
  BY <1>3, AfterNone DEF Put
<1>6. text' = T!ValueDone(Pop(text.nest))
  <2>1. CASE Current.kind = "object"
    <3>1. text.want \in {"member", "more"}
      BY <1>1, <2>1 DEF Wants, ObjectWants
    <3> QED
      BY <1>2, <1>5, <2>1, <3>1, AfterClosing DEF T!Closed, Pop
  <2>2. CASE Current.kind # "object"
    <3>1. text.want \in {"item", "more"}
      BY <1>1, <2>2 DEF Wants, ScalarsWant, ContainersWant
    <3>2. Current.kind = "array"
      BY <1>2, <2>2 DEF Frame
    <3> QED
      BY <1>2, <1>5, <2>2, <3>1, <3>2, AfterClosing DEF T!Closed, Pop
  <2> QED
    BY <2>1, <2>2
<1>7. /\ Pop(text.nest) \in Seq({"object", "array"}) /\ Len(Pop(text.nest)) = n - 1
      /\ \A i \in 1 .. n - 1 : Pop(text.nest)[i] = text.nest[i]
      /\ Pop(text.nest) = <<>> <=> n = 1
  BY <1>2, StackPop
<1>8. text' \in T!State /\ text'.nest = Pop(text.nest)
        /\ text'.want = IF n = 1 THEN "end" ELSE "more"
  BY <1>6, <1>7, StateTyped DEF T!ValueDone, T!Want
<1>9. /\ stack_' \in Seq(Level) /\ Len(stack_') = n - 1
      /\ \A i \in 1 .. n - 1 : stack_'[i] = stack_[i]
      /\ stack_' = <<>> <=> n = 1
  BY <1>2, <1>3, StackPop
<1>10. /\ frames' = Pop(frames) /\ pc' = (IF n = 1 THEN "done" ELSE "next")
       /\ result' = (n = 1 /\ stack_' = <<>>)
  BY <1>1 DEF Ended
<1>11. result' <=> n = 1
  BY <1>9, <1>10
<1>12. /\ frames' \in Seq(Frame) /\ Len(frames') = n - 1
       /\ \A i \in 1 .. n - 1 : frames'[i] = frames[i]
       /\ frames' = <<>> <=> n = 1
  BY <1>2, <1>10, StackPop
<1>13. TypeOK'
  BY <1>1, <1>4, <1>8, <1>9, <1>10, <1>11, <1>12 DEF TypeOK, Tokens
<1>14. NestOK' /\ SeparatesOK'
  BY <1>1, <1>2, <1>7, <1>8, <1>12 DEF IInv, NestOK, SeparatesOK
<1>15. Below'
  <2>1. n - 1 \in Nat /\ 1 .. n - 1 - 1 \subseteq 1 .. n - 1
    BY <1>2
  <2> QED
    BY <1>9, <1>12, <2>1 DEF IInv, Below, Outer
<1>16. CASE n = 1
  <2>1. text' = T!Then(T!NoText, "end")
    BY <1>6, <1>7, <1>16 DEF T!ValueDone, T!Then, T!NoText
  <2> QED
    BY <1>5, <1>8, <1>10, <1>11, <1>12, <1>13, <1>14, <1>15, <1>16, <2>1
       DEF IInv, Running, AtRest
<1>17. CASE n # 1
  <2>1. n - 1 \in 1 .. n - 1 /\ n - 1 \in Outer
    BY <1>2, <1>17 DEF Outer
  <2>2. Current' = frames[n - 1] /\ Top' = stack_[n - 1]
    BY <1>9, <1>12, <2>1 DEF Current, Top
  <2>3. IF Current'.kind = "object" THEN Top'.second > 0
        ELSE Current'.elems # "scalar" /\ Current'.i > 0 /\ Top'.first = NULL_TYPE
    BY <2>1, <2>2 DEF IInv, Below
  <2>4. Wants'
    BY <1>8, <1>10, <1>17, <2>3 DEF Wants, ObjectWants, ContainersWant
  <2> QED
    BY <1>5, <1>8, <1>10, <1>11, <1>12, <1>13, <1>14, <1>15, <1>17, <2>4
       DEF IInv, Running, AtRest
<1> QED
  BY <1>16, <1>17

LEMMA InitInv == Init => IInv
<1> SUFFICES ASSUME Init PROVE IInv
  OBVIOUS
<1>1. /\ stack_ = <<>> /\ str_ = <<>> /\ frames = <<>> /\ pc = "idle" /\ ~result
      /\ text = T!NoText
  BY DEF Init
<1>2. text.nest = <<>> /\ text \in T!State
  BY <1>1 DEF T!NoText, T!State, T!Want
<1>3. TypeOK
  <2>1. result \in BOOLEAN
    BY Zenon DEF Init
  <2> QED
    BY <1>1, <1>2, <2>1 DEF TypeOK
<1> QED
  BY <1>1, <1>2, <1>3 DEF IInv, NestOK, SeparatesOK, Below, Outer, Running, AtRest

\* A vector of containers as the root is left out: see the run json_top_vector.
NoTopContainers == "containers" \notin Roots

LEMMA StepInv ==
    ASSUME NoTopContainers, IInv, [Next]_vars
    PROVE  IInv'
<1>1. CASE EncodeObject
  BY <1>1, RootStep, FreshFrames DEF EncodeObject, Opens
<1>2. ASSUME NEW e \in {"scalar", "object", "array"}, EncodeVector(e) PROVE IInv'
  <2>1. e = "scalar"
    BY <1>2 DEF EncodeVector, NoTopContainers
  <2>2. Array(e, FALSE).kind = "array" /\ Array(e, FALSE).elems = "scalar" /\ Fresh(Array(e, FALSE))
    BY <2>1, FreshFrames DEF Array
  <2> QED
    BY <1>2, <2>2, RootStep DEF EncodeVector, Opens
<1>3. CASE EncodeEmpty
  <2>1. pc = "idle" /\ pc' = "done" /\ UNCHANGED <<stack_, str_, frames, result, text>>
    BY <1>3 DEF EncodeEmpty
  <2>2. TypeOK' /\ NestOK' /\ SeparatesOK' /\ Below'
    BY <2>1 DEF IInv, TypeOK, NestOK, SeparatesOK, Below, Outer
  <2> QED
    BY <2>1, <2>2 DEF IInv, Running, AtRest
<1>4. ASSUME NEW k \in Keys, NextMember(k) PROVE IInv'
  BY <1>4, KeyStep
<1>5. CASE NextElement
  BY <1>5, ElementStep
<1>6. ASSUME NEW v \in Scalars, EncodeScalar(v) PROVE IInv'
  BY <1>6, ScalarStep
<1>7. ASSUME pc = "value", Takes("object") \/ Takes("array"), Current.kind = "array"
      PROVE  Current.elems # "scalar"
  <2>1. frames # <<>> /\ Len(frames) \in 1 .. Len(frames)
    BY <1>7, Innermost DEF IInv, Running
  <2> QED
    BY <1>7 DEF Takes
<1>8. CASE OpenObject
  BY <1>7, <1>8, OpenStep, FreshFrames DEF OpenObject, Opens
<1>9. ASSUME NEW e \in {"scalar", "object", "array"}, NEW b \in BOOLEAN, OpenArray(e, b)
      PROVE  IInv'
  <2>1. Fresh(Array(e, b)) /\ Array(e, b).kind = "array"
    BY <1>9, FreshFrames DEF OpenArray
  <2> QED
    BY <1>7, <1>9, <2>1, OpenStep DEF OpenArray, Opens
<1>10. CASE CloseObject \/ CloseArray
  BY <1>10, CloseStep
<1>11. CASE UNCHANGED vars
  BY <1>11 DEF vars, IInv, TypeOK, NestOK, SeparatesOK, Below, Outer, Running, AtRest, Wants,
          ObjectWants, ScalarsWant, ContainersWant, Top, Current
<1> QED
  BY <1>1, <1>2, <1>3, <1>4, <1>5, <1>6, <1>8, <1>9, <1>10, <1>11 DEF Next

-----------------------------------------------------------------------------
LEMMA InvImplies == IInv => TypeOK /\ GrammarKept /\ TrueIfWhole
<1> SUFFICES ASSUME IInv PROVE TypeOK /\ GrammarKept /\ TrueIfWhole
  OBVIOUS
<1>1. TypeOK
  BY DEF IInv
<1>2. CASE pc \in {"next", "value"}
  BY <1>2 DEF IInv, Running, Wants, ObjectWants, ScalarsWant, ContainersWant, GrammarKept,
          TrueIfWhole
<1>3. CASE pc \in {"idle", "done"}
  BY <1>3 DEF IInv, AtRest, GrammarKept, TrueIfWhole, T!NoText, T!Then
<1> QED
  BY <1>1, <1>2, <1>3 DEF TypeOK

\* The writer's stack_ is as deep as the encoder's recursion, for every value.
THEOREM TypeCorrect ==
    ASSUME NoTopContainers
    PROVE  Spec => []TypeOK
<1>1. IInv /\ [Next]_vars => IInv'
  BY StepInv
<1> QED
  BY InitInv, <1>1, InvImplies, PTL DEF Spec

\* Commas and colons are where the grammar wants them, for every value.
THEOREM GrammarSafe ==
    ASSUME NoTopContainers
    PROVE  Spec => []GrammarKept
<1>1. IInv /\ [Next]_vars => IInv'
  BY StepInv
<1> QED
  BY InitInv, <1>1, InvImplies, PTL DEF Spec

\* operator<< answers true exactly when the text is whole.
THEOREM ResultCorrect ==
    ASSUME NoTopContainers
    PROVE  Spec => []TrueIfWhole
<1>1. IInv /\ [Next]_vars => IInv'
  BY StepInv
<1> QED
  BY InitInv, <1>1, InvImplies, PTL DEF Spec

LEMMA PutWrites ==
    ASSUME NEW t \in Tokens \cup {"none"}, NEW u \in Tokens \cup {"none"}, Put(t, u),
           ~result, ~result', TypeOK', GrammarKept'
    PROVE  T!Write
<1>1. text' = T!After(T!After(text, t), u) /\ text'.want # "reject"
  BY DEF Put, GrammarKept
<1>2. result' = FALSE
  BY DEF TypeOK
<1> QED
  BY <1>1, <1>2 DEF T!Write, Tokens

LEMMA StepWrites ==
    ASSUME NoTopContainers, IInv, [Next]_vars
    PROVE  [T!Next]_<<text, result>>
<1>1. IInv' /\ TypeOK /\ TypeOK' /\ GrammarKept'
  <2>1. IInv'
    BY StepInv
  <2>2. TypeOK' /\ (pc \in {"next", "value"})' => GrammarKept'
    BY <2>1 DEF IInv, Running, Wants, ObjectWants, ScalarsWant, ContainersWant, GrammarKept
  <2>3. (pc \in {"idle", "done"})' => GrammarKept'
    BY <2>1 DEF IInv, AtRest, GrammarKept, T!NoText, T!Then
  <2> QED
    BY <2>1, <2>2, <2>3 DEF IInv, TypeOK
<1>2. \A x \in T!Punctuation \cup T!Scalar \cup {"none"} : x \in Tokens \cup {"none"}
  BY DEF Tokens
<1>3. {"none", "comma", "lbrace", "lbracket", "rbrace", "rbracket"} \subseteq Tokens \cup {"none"}
        /\ Keys \subseteq Tokens /\ Scalars \subseteq Tokens
  BY WriterAssumption DEF Tokens, T!Punctuation, T!Scalar
<1>4. CASE pc \in {"idle", "next", "value"} /\ result' = result
  <2>1. ~result /\ ~result'
    BY <1>4 DEF IInv, Running, AtRest
  <2>2. ASSUME NEW t \in Tokens \cup {"none"}, NEW u \in Tokens \cup {"none"}, Put(t, u)
        PROVE  T!Next
    BY <1>1, <2>1, <2>2, PutWrites DEF T!Next
  <2>3. pc = "value" => Lead \in Tokens \cup {"none"}
    BY LeadOK
  <2>4. pc = "idle" => Lead = "none"
    <3>1. pc = "idle" => frames = <<>> /\ stack_ \in Seq(Level) /\ Len(stack_) = Len(frames)
      BY <1>1 DEF IInv, AtRest, TypeOK
    <3>2. pc = "idle" => stack_ = <<>>
      BY <3>1, SMTT(20)
    <3> QED
      BY <3>2 DEF Lead
  <2>5. CASE EncodeObject \/ OpenObject
    BY <1>3, <2>2, <2>3, <2>4, <2>5, SMTT(20) DEF EncodeObject, OpenObject, startObject
  <2>6. ASSUME NEW e \in {"scalar", "object", "array"}, NEW b \in BOOLEAN,
               EncodeVector(e) \/ OpenArray(e, b)
        PROVE  T!Next
    BY <1>3, <2>2, <2>3, <2>4, <2>6 DEF EncodeVector, OpenArray, startArray
  <2>7. ASSUME NEW k \in Keys, NextMember(k) PROVE T!Next
    BY <1>3, <2>2, <2>7 DEF NextMember, key
  <2>8. ASSUME NEW v \in Scalars, EncodeScalar(v) PROVE T!Next
    BY <1>3, <2>2, <2>3, <2>8 DEF EncodeScalar, scalar
  <2>9. CASE NextElement
    BY <1>3, <1>4, <2>2, <2>9 DEF NextElement, separation
  <2>10. CASE EncodeEmpty \/ UNCHANGED vars
    BY <2>10 DEF EncodeEmpty, vars
  <2>11. CASE CloseObject \/ CloseArray
    <3>1. Put("none", "rbrace") \/ Put("none", "rbracket")
      BY <2>11 DEF CloseObject, CloseArray, endObject, endArray
    <3> QED
      BY <1>3, <2>2, <3>1
  <2> QED
    BY <2>5, <2>6, <2>7, <2>8, <2>9, <2>10, <2>11 DEF Next
<1>5. CASE (CloseObject \/ CloseArray) /\ result' # result
  <2>1. ~result
    BY <1>5 DEF CloseObject, CloseArray, IInv, Running
  <2>2. result' = TRUE
    BY <1>1, <1>5, <2>1 DEF TypeOK
  <2>3. text'.want = "end" /\ \E t \in {"rbrace", "rbracket"} : text' = T!After(text, t)
    BY <1>5, <2>2, CloseStep
  <2> QED
    BY <2>1, <2>2, <2>3 DEF T!Next, T!WriteLast
<1>6. CASE UNCHANGED vars
  BY <1>6 DEF vars
<1> QED
  BY <1>4, <1>5, <1>6 DEF Next, EncodeObject, EncodeVector, EncodeEmpty, NextMember, NextElement,
     EncodeScalar, OpenObject, OpenArray, CloseObject, CloseArray, InObject, InArray

\* JSONEncoder over json::Writer implements JSONText: whatever the value, each
\* call extends a JSON text, and true comes together with its last token.
THEOREM Implements ==
    ASSUME NoTopContainers
    PROVE  Spec => WritesJSON
<1>1. Init => T!Init
  BY DEF Init, T!Init
<1>2. IInv /\ [Next]_vars => IInv'
  BY StepInv
<1>3. IInv /\ [Next]_vars => [T!Next]_<<text, result>>
  BY StepWrites
<1> QED
  BY InitInv, <1>1, <1>2, <1>3, PTL DEF Spec, WritesJSON, T!Spec

=============================================================================
