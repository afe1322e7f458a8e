-------------------------- MODULE XMLWriterProofs --------------------------
(***************************************************************************)
(* For every value, whatever its names, strings and depth: XMLEncoder      *)
(* writes XML.                                                             *)
(*                                                                         *)
(* The argument: the elements the text is inside of are the calls of       *)
(* encodeValue in progress, name by name, so that the tag each call writes *)
(* at its end closes the innermost element; and what stands in an element  *)
(* as text has lost every < and &, or is a section in which ]] comes last. *)
(***************************************************************************)
EXTENDS XMLWriter, SequenceTheorems, TLAPS

\* text is inside of exactly the elements the encoder has open.
NestOK == /\ Len(text.nest) = Len(frames)
          /\ \A i \in 1 .. Len(frames) : text.nest[i] = frames[i].name

Running == pc = "walk" => frames # <<>> /\ text.want = "content" /\ ~result

AtRest == /\ pc \in {"idle", "done"} => frames = <<>>
          /\ pc = "idle" => text = T!NoText /\ ~result
          /\ pc = "done" => text.want = IF result THEN "end" ELSE "prolog"

IInv == TypeOK /\ NestOK /\ Running /\ AtRest

-----------------------------------------------------------------------------
(***************************************************************************)
(* Sequences used as stacks.                                               *)
(***************************************************************************)
LEMMA StackTop ==
    ASSUME NEW S, NEW s \in Seq(S), s # <<>>
    PROVE  Len(s) \in Nat \ {0} /\ Len(s) \in 1 .. Len(s) /\ s[Len(s)] \in S
<1>1. Len(s) \in Nat \ {0} /\ Len(s) \in 1 .. Len(s)
  OBVIOUS
<1> QED
  BY <1>1

LEMMA StackPop ==
    ASSUME NEW S, NEW s \in Seq(S), s # <<>>
    PROVE  LET t == SubSeq(s, 1, Len(s) - 1) IN
           /\ t \in Seq(S) /\ Len(t) = Len(s) - 1
           /\ \A i \in 1 .. Len(s) - 1 : t[i] = s[i]
           /\ (t = <<>>) <=> (Len(s) = 1)
<1> DEFINE m == Len(s) - 1
           t == SubSeq(s, 1, m)
<1>1. m \in Nat /\ \A i \in 1 .. m : s[i] \in S
  <2>1. Len(s) \in Nat \ {0}
    OBVIOUS
  <2> QED
    BY <2>1
<1> HIDE DEF m
<1>2. /\ t \in Seq(S) /\ Len(t) = (IF 1 <= m THEN m - 1 + 1 ELSE 0)
      /\ \A i \in 1 .. m - 1 + 1 : t[i] = s[1 + i - 1]
  <2>1. m \in Int /\ 1 \in Int
    BY <1>1
  <2> QED
    BY <1>1, <2>1, SubSeqProperties
<1> HIDE DEF t
<1>3. t \in Seq(S) /\ Len(t) = m /\ \A i \in 1 .. m : t[i] = s[i]
  BY <1>1, <1>2
<1>4. (t = <<>>) <=> (m = 0)
  BY <1>1, <1>3
<1>5. (m = 0) <=> (Len(s) = 1)
  BY <1>1 DEF m
<1> QED
  BY <1>3, <1>4, <1>5 DEF m, t

\* What is pushed is popped, and nothing else.
LEMMA PushPop ==
    ASSUME NEW S, NEW s \in Seq(S), NEW x \in S
    PROVE  SubSeq(Append(s, x), 1, Len(Append(s, x)) - 1) = s
<1> DEFINE t == Append(s, x)
           u == SubSeq(t, 1, Len(t) - 1)
<1>1. /\ t \in Seq(S) /\ t # <<>> /\ Len(t) = Len(s) + 1 /\ Len(s) \in Nat
      /\ \A i \in 1 .. Len(s) : t[i] = s[i]
  BY AppendProperties
<1>2. /\ u \in Seq(S) /\ Len(u) = Len(t) - 1 /\ \A i \in 1 .. Len(t) - 1 : u[i] = t[i]
  <2> HIDE DEF t
  <2> QED
    BY <1>1, StackPop
<1> HIDE DEF t, u
<1>3. Len(u) = Len(s) /\ \A i \in 1 .. Len(u) : u[i] = s[i]
  BY <1>1, <1>2
<1>4. u = s
  BY <1>2, <1>3, SeqEqual
<1> QED
  BY <1>4 DEF t, u

-----------------------------------------------------------------------------
(***************************************************************************)
(* What is written as the text of an element.                              *)
(***************************************************************************)
Chars == T!Plain \cup T!Special \cup T!Reference

LEMMA EscapeSound ==
    ASSUME NEW c \in T!Plain \cup T!Special
    PROVE  Escape(c) \in Chars /\ Escape(c) \notin {"lt", "amp"}
BY DEF Escape, Chars, T!Plain, T!Special, T!Reference

\* A scalar is written as one piece that leaves the element as it was.
LEMMA PieceSound ==
    ASSUME NEW v \in Values, IsScalar(v)
    PROVE  /\ PieceOf(v) \in T!Piece
           /\ \/ PieceOf(v).kind = "data" /\ T!IsText(PieceOf(v).chars)
              \/ PieceOf(v).kind = "cdata" /\ T!IsSection(PieceOf(v).chars)
<1> DEFINE s == v.chars
           e == [k \in DOMAIN s |-> Escape(s[k])]
<1>1. s \in Seq(T!Plain \cup T!Special)
  BY ValuesAssumption
<1> HIDE DEF s
<1>2. CASE v.kind = "string" /\ IsCdata(s)
  <2>1. PieceOf(v) = T!Cdata(s)
    BY <1>2 DEF PieceOf, s
  <2>2. s \in Seq(Chars)
    BY <1>1, SeqMonotonic DEF Chars
  <2>3. PieceOf(v) \in T!Piece /\ PieceOf(v).kind = "cdata" /\ PieceOf(v).chars = s
    BY <2>1, <2>2 DEF T!Piece, T!Cdata, Chars
  <2>4. T!IsSection(s)
    BY <1>2 DEF IsCdata, T!IsSection
  <2> QED
    BY <2>3, <2>4
<1>3. CASE ~(v.kind = "string" /\ IsCdata(s))
  <2>1. PieceOf(v) = T!Data(e)
    BY <1>3 DEF PieceOf, s
  <2>2. /\ DOMAIN e = 1 .. Len(s) /\ Len(s) \in Nat
        /\ \A k \in 1 .. Len(s) : /\ e[k] = Escape(s[k])
                                  /\ e[k] \in Chars /\ e[k] \notin {"lt", "amp"}
    <3>1. DOMAIN s = 1 .. Len(s) /\ Len(s) \in Nat
            /\ \A k \in 1 .. Len(s) : s[k] \in T!Plain \cup T!Special
      BY <1>1, LenProperties
    <3> QED
      BY <3>1, EscapeSound
  <2>3. e \in Seq(Chars) /\ Len(e) = Len(s)
    BY <1>1, <2>2
  <2> HIDE DEF e
  <2>4. T!IsText(e)
    BY <2>2, <2>3 DEF T!IsText
  <2>5. PieceOf(v) \in T!Piece /\ PieceOf(v).kind = "data" /\ PieceOf(v).chars = e
    BY <2>1, <2>3 DEF T!Piece, T!Data, Chars
  <2> QED
    BY <2>4, <2>5
<1> QED
  BY <1>2, <1>3

-----------------------------------------------------------------------------
(***************************************************************************)
(* The grammar.                                                            *)
(***************************************************************************)
LEMMA AfterTags ==
    ASSUME NEW g, NEW name
    PROVE  /\ g.want \in {"prolog", "content"} => T!After(g, T!OpenTag(name)) = T!Opened(g, name)
           /\ g.want = "content" /\ name = T!Innermost(g)
                => T!After(g, T!CloseTag(name)) = T!Closed(g)
BY DEF T!After, T!OpenTag, T!CloseTag

LEMMA AfterPiece ==
    ASSUME NEW g, g.want = "content", NEW v \in Values, IsScalar(v)
    PROVE  T!After(g, PieceOf(v)) = g
BY PieceSound DEF T!After

\* An element written at once leaves the text where it was.
LEMMA AfterElement ==
    ASSUME NEW g \in T!State, g.want = "content", g.nest # <<>>, NEW name \in Names,
           NEW v \in Values, IsScalar(v)
    PROVE  T!After(T!After(T!After(g, T!OpenTag(name)), PieceOf(v)), T!CloseTag(name)) = g
<1> DEFINE o == T!Opened(g, name)
<1>1. T!After(g, T!OpenTag(name)) = o
  BY AfterTags
<1>2. g.nest \in Seq(Names) /\ g = [want |-> "content", nest |-> g.nest]
  BY DEF T!State
<1>3. o.want = "content" /\ o.nest = Append(g.nest, name)
  BY DEF T!Opened
<1>4. /\ Len(o.nest) = Len(g.nest) + 1 /\ Len(g.nest) \in Nat \ {0}
      /\ o.nest[Len(o.nest)] = name
  BY <1>2, <1>3, AppendProperties
<1> HIDE DEF o
<1>5. T!After(o, PieceOf(v)) = o
  BY <1>3, AfterPiece
<1>6. T!After(o, T!CloseTag(name)) = T!Closed(o)
  BY <1>3, <1>4, AfterTags DEF T!Innermost
<1>7. T!Left(o) = g.nest
  BY <1>2, <1>3, PushPop DEF T!Left
<1>8. T!Closed(o) = g
  BY <1>2, <1>4, <1>7 DEF T!Closed
<1> QED
  BY <1>1, <1>5, <1>6, <1>8

-----------------------------------------------------------------------------
(***************************************************************************)
(* The steps.                                                              *)
(***************************************************************************)
Pieces == T!Piece \cup {White, Declaration}

LEMMA TagsTyped ==
    ASSUME NEW name \in Names
    PROVE  T!OpenTag(name) \in T!Piece /\ T!CloseTag(name) \in T!Piece
<1>1. <<>> \in Seq(Chars)
  BY EmptySeq
<1> QED
  BY <1>1 DEF T!OpenTag, T!CloseTag, T!Piece, Chars

LEMMA SpacesTyped == Newline \in Seq(Pieces) /\ \A n : Tab(n) \in Seq(Pieces)
<1>1. <<White>> \in Seq(Pieces) /\ <<>> \in Seq(Pieces)
  BY DEF Pieces
<1> QED
  BY <1>1 DEF Newline, Tab

LEMMA WriteTyped ==
    ASSUME TypeOK, NEW tags \in Seq(T!Piece), NEW n, Write(Tab(n) \o tags \o Newline)
    PROVE  str_' \in Seq(Pieces)
<1>1. str_ \in Seq(Pieces) /\ tags \in Seq(Pieces)
  BY SeqMonotonic DEF TypeOK, Pieces
<1>2. (Tab(n) \o tags) \o Newline \in Seq(Pieces)
  BY <1>1, SpacesTyped, ConcatProperties
<1> QED
  BY <1>1, <1>2, ConcatProperties DEF Write

LEMMA Innermost ==
    ASSUME TypeOK, NestOK, frames # <<>>
    PROVE  /\ Current \in Frame /\ Current.name = T!Innermost(text)
           /\ frames \in Seq(Frame) /\ text.nest \in Seq(Names) /\ text.nest # <<>>
           /\ Len(text.nest) = Len(frames)
           /\ Len(frames) \in Nat \ {0} /\ Len(frames) \in 1 .. Len(frames)
<1>1. frames \in Seq(Frame) /\ text.nest \in Seq(Names) /\ Len(text.nest) = Len(frames)
  BY DEF TypeOK, NestOK, T!State
<1>2. Len(frames) \in Nat \ {0} /\ Len(frames) \in 1 .. Len(frames) /\ Current \in Frame
  BY <1>1, StackTop DEF Current
<1>3. text.nest # <<>> /\ Current.name = T!Innermost(text)
  BY <1>1, <1>2 DEF NestOK, Current, T!Innermost
<1> QED
  BY <1>1, <1>2, <1>3

LEMMA NextItemTyped ==
    ASSUME TypeOK, NestOK, frames # <<>>, Walks
    PROVE  NextItem \in Item
<1>1. Current.items \in Seq(Item) /\ Current.i \in Nat /\ Current.i < Len(Current.items)
  BY Innermost DEF Frame, Walks
<1>2. Current.i + 1 \in 1 .. Len(Current.items)
  BY <1>1
<1> QED
  BY <1>1, <1>2, ElementOfSeq DEF NextItem

\* The item that is begun counts; the names of the frames stay.
LEMMA BegunOK ==
    ASSUME TypeOK, NestOK, frames # <<>>
    PROVE  /\ Begun \in Seq(Frame) /\ Len(Begun) = Len(frames) /\ Begun # <<>>
           /\ \A i \in 1 .. Len(frames) : Begun[i].name = frames[i].name
<1> DEFINE f == [Current EXCEPT !.i = @ + 1]
<1>1. Current \in Frame /\ frames \in Seq(Frame) /\ Len(frames) \in 1 .. Len(frames)
  BY Innermost
<1>2. f \in Frame /\ f.name = Current.name
  <2>1. Current.i + 1 \in Nat /\ Current = [name |-> Current.name, items |-> Current.items, i |-> Current.i]
          /\ Current.name \in Names /\ Current.items \in Seq(Item)
    BY <1>1 DEF Frame
  <2>2. f = [name |-> Current.name, items |-> Current.items, i |-> Current.i + 1]
    BY <2>1
  <2> QED
    BY <2>1, <2>2 DEF Frame
<1>3. Begun = [frames EXCEPT ![Len(frames)] = f]
  BY <1>1 DEF Begun, Current
<1> HIDE DEF f
<1>4. /\ Begun \in Seq(Frame) /\ Len(Begun) = Len(frames)
      /\ \A i \in 1 .. Len(frames) : Begun[i] = IF i = Len(frames) THEN f ELSE frames[i]
  BY <1>1, <1>2, <1>3, ExceptSeq
<1> QED
  BY <1>1, <1>2, <1>4 DEF Current

LEMMA EnteredTyped ==
    ASSUME NEW name \in Names, NEW v \in Values, ~IsScalar(v)
    PROVE  Entered(name, v) \in Frame /\ Entered(name, v).name = name
BY ValuesAssumption DEF Entered, Frame

\* The opening of an element, of the root or of one in another.
LEMMA StartOK ==
    ASSUME TypeOK, NestOK, text.want \in {"prolog", "content"}, NEW name \in Names,
           startObject(name)
    PROVE  /\ str_' \in Seq(Pieces) /\ layer_' = layer_ + 1
           /\ text' \in T!State /\ text'.want = "content" /\ text'.nest = Append(text.nest, name)
           /\ Len(text'.nest) = Len(frames) + 1 /\ text'.nest[Len(frames) + 1] = name
           /\ \A i \in 1 .. Len(frames) : text'.nest[i] = frames[i].name
<1>1. str_' \in Seq(Pieces)
  <2>1. <<T!OpenTag(name)>> \in Seq(T!Piece)
    BY TagsTyped
  <2> QED
    BY <2>1, WriteTyped DEF startObject
<1>2. text' = T!Opened(text, name)
  BY AfterTags DEF startObject
<1>3. text.nest \in Seq(Names) /\ Len(text.nest) = Len(frames)
  BY DEF TypeOK, T!State, NestOK
<1>4. text'.want = "content" /\ text'.nest = Append(text.nest, name)
        /\ Append(text.nest, name) \in Seq(Names)
  BY <1>2, <1>3 DEF T!Opened
<1>5. text' \in T!State
  BY <1>2, <1>4 DEF T!State, T!Opened
<1>6. Len(text'.nest) = Len(frames) + 1 /\ text'.nest[Len(frames) + 1] = name
        /\ \A i \in 1 .. Len(frames) : text'.nest[i] = frames[i].name
  BY <1>3, <1>4, AppendProperties DEF NestOK
<1> QED
  BY <1>1, <1>4, <1>5, <1>6 DEF startObject

LEMMA RootStep ==
    ASSUME IInv, EncodeRoot
    PROVE  IInv'
<1> DEFINE f == Entered("serialflex", object)
<1>1. /\ pc = "idle" /\ startObject("serialflex") /\ frames' = <<f>> /\ pc' = "walk"
      /\ UNCHANGED <<object, formatted_, result>>
      /\ frames = <<>> /\ text = T!NoText /\ ~result /\ TypeOK /\ NestOK
  BY DEF EncodeRoot, IInv, AtRest
<1>2. "serialflex" \in Names /\ text.want = "prolog" /\ layer_ = 0 /\ Len(frames) = 0
  BY <1>1, NamesAssumption DEF T!NoText, TypeOK
<1>3. object \in Values /\ ~IsScalar(object)
  BY <1>1 DEF TypeOK, Object, IsScalar
<1>4. f \in Frame /\ f.name = "serialflex"
  BY <1>2, <1>3, EnteredTyped
<1> HIDE DEF f
<1>5. /\ str_' \in Seq(Pieces) /\ layer_' = 1 /\ text' \in T!State /\ text'.want = "content"
      /\ Len(text'.nest) = 1 /\ text'.nest[1] = "serialflex"
  BY <1>1, <1>2, StartOK
<1>6. frames' \in Seq(Frame) /\ Len(frames') = 1 /\ frames' # <<>> /\ frames'[1] = f
  BY <1>1, <1>4
<1>7. TypeOK'
  BY <1>1, <1>5, <1>6 DEF TypeOK, Pieces
<1>8. NestOK'
  BY <1>4, <1>5, <1>6 DEF NestOK
<1> QED
  BY <1>1, <1>5, <1>6, <1>7, <1>8 DEF IInv, Running, AtRest

LEMMA EmptyStep ==
    ASSUME IInv, EncodeEmpty
    PROVE  IInv'
<1>1. /\ pc = "idle" /\ pc' = "done"
      /\ UNCHANGED <<object, formatted_, layer_, str_, frames, result, text>>
  BY DEF EncodeEmpty
<1>2. TypeOK' /\ NestOK'
  BY <1>1 DEF IInv, TypeOK, NestOK
<1>3. frames = <<>> /\ text.want = "prolog" /\ ~result
  BY <1>1 DEF IInv, AtRest, T!NoText
<1> QED
  BY <1>1, <1>2, <1>3 DEF IInv, Running, AtRest

LEMMA ScalarStep ==
    ASSUME IInv, EncodeScalar
    PROVE  IInv' /\ text' = text
<1>1. /\ pc = "walk" /\ Walks /\ IsScalar(NextItem.value) /\ element(NextItem.name, NextItem.value)
      /\ frames' = Begun /\ UNCHANGED <<object, formatted_, pc, result>>
      /\ TypeOK /\ NestOK /\ frames # <<>> /\ text.want = "content" /\ ~result
  BY DEF EncodeScalar, Walks, IInv, Running
<1>2. NextItem.name \in Names /\ NextItem.value \in Values
  BY <1>1, NextItemTyped DEF Item
<1>3. text' = text
  BY <1>1, <1>2, Innermost, AfterElement DEF element, TypeOK
<1>4. str_' \in Seq(Pieces)
  <2>1. <<T!OpenTag(NextItem.name), PieceOf(NextItem.value), T!CloseTag(NextItem.name)>>
          \in Seq(T!Piece)
    BY <1>1, <1>2, TagsTyped, PieceSound
  <2> QED
    BY <1>1, <2>1, WriteTyped DEF element
<1>5. /\ frames' \in Seq(Frame) /\ Len(frames') = Len(frames) /\ frames' # <<>>
      /\ \A i \in 1 .. Len(frames) : frames'[i].name = frames[i].name
  BY <1>1, BegunOK
<1>6. TypeOK' /\ NestOK'
  BY <1>1, <1>3, <1>4, <1>5 DEF element, TypeOK, NestOK, Pieces
<1> QED
  BY <1>1, <1>3, <1>5, <1>6 DEF IInv, Running, AtRest

LEMMA OpenStep ==
    ASSUME IInv, OpenContainer
    PROVE  IInv'
<1> DEFINE f == Entered(NextItem.name, NextItem.value)
           n == Len(frames)
<1>1. /\ pc = "walk" /\ Walks /\ ~IsScalar(NextItem.value) /\ startObject(NextItem.name)
      /\ frames' = Append(Begun, f) /\ UNCHANGED <<object, formatted_, pc, result>>
      /\ TypeOK /\ NestOK /\ frames # <<>> /\ text.want = "content" /\ ~result
  BY DEF OpenContainer, Walks, IInv, Running
<1>2. NextItem.name \in Names /\ NextItem.value \in Values
  BY <1>1, NextItemTyped DEF Item
<1>3. f \in Frame /\ f.name = NextItem.name
  BY <1>1, <1>2, EnteredTyped
<1> HIDE DEF f
<1>4. /\ str_' \in Seq(Pieces) /\ layer_' = layer_ + 1 /\ text' \in T!State
      /\ text'.want = "content" /\ Len(text'.nest) = n + 1 /\ text'.nest[n + 1] = f.name
      /\ \A i \in 1 .. n : text'.nest[i] = frames[i].name
  BY <1>1, <1>2, <1>3, StartOK
<1>5. /\ Begun \in Seq(Frame) /\ Len(Begun) = n /\ n \in Nat
      /\ \A i \in 1 .. n : Begun[i].name = frames[i].name
  BY <1>1, BegunOK, Innermost
<1>6. /\ frames' \in Seq(Frame) /\ Len(frames') = n + 1 /\ frames' # <<>>
      /\ frames'[n + 1] = f /\ \A i \in 1 .. n : frames'[i].name = frames[i].name
  BY <1>1, <1>3, <1>5, AppendProperties
<1> HIDE DEF n
<1>7. TypeOK'
  <2>1. layer_ = n
    BY <1>1 DEF TypeOK, n
  <2> QED
    BY <1>1, <1>4, <1>5, <1>6, <2>1 DEF TypeOK, Pieces
<1>8. NestOK'
  <2>1. \A i \in 1 .. n + 1 : i \in 1 .. n \/ i = n + 1
    BY <1>5
  <2> QED
    BY <1>4, <1>6, <2>1 DEF NestOK
<1> QED
  BY <1>1, <1>4, <1>6, <1>7, <1>8 DEF IInv, Running, AtRest

\* The end of an element: the one around it goes on, or the document ends.
LEMMA CloseStep ==
    ASSUME IInv, CloseContainer
    PROVE  /\ IInv' /\ text' = T!After(text, T!CloseTag(Current.name))
           /\ Current.name \in Names /\ text'.want = IF result' THEN "end" ELSE "content"
<1> DEFINE n == Len(frames)
<1>1. /\ pc = "walk" /\ endObject(Current.name)
      /\ frames' = SubSeq(frames, 1, n - 1) /\ pc' = (IF n = 1 THEN "done" ELSE "walk")
      /\ result' = (n = 1 /\ layer_' = 0) /\ UNCHANGED <<object, formatted_>>
      /\ TypeOK /\ NestOK /\ frames # <<>> /\ text.want = "content"
  BY DEF CloseContainer, IInv, Running
<1>2. /\ Current \in Frame /\ Current.name = T!Innermost(text) /\ frames \in Seq(Frame)
      /\ text.nest \in Seq(Names) /\ text.nest # <<>> /\ Len(text.nest) = n
      /\ n \in Nat \ {0} /\ layer_ = n
  BY <1>1, Innermost DEF TypeOK
<1>3. Current.name \in Names
  BY <1>2 DEF Frame
<1>4. str_' \in Seq(Pieces)
  <2>1. <<T!CloseTag(Current.name)>> \in Seq(T!Piece)
    BY <1>3, TagsTyped
  <2> QED
    BY <1>1, <2>1, WriteTyped DEF endObject
<1>5. text' = T!After(text, T!CloseTag(Current.name)) /\ text' = T!Closed(text)
  BY <1>1, <1>2, AfterTags DEF endObject
<1>6. /\ frames' \in Seq(Frame) /\ Len(frames') = n - 1 /\ (frames' = <<>> <=> n = 1)
      /\ \A i \in 1 .. n - 1 : frames'[i] = frames[i]
  BY <1>1, <1>2, StackPop
<1>7. /\ T!Left(text) \in Seq(Names) /\ Len(T!Left(text)) = n - 1
      /\ \A i \in 1 .. n - 1 : T!Left(text)[i] = text.nest[i]
  BY <1>2, StackPop DEF T!Left
<1>8. text' \in T!State /\ text'.nest = T!Left(text)
        /\ text'.want = IF n = 1 THEN "end" ELSE "content"
  BY <1>2, <1>5, <1>7 DEF T!Closed, T!State
<1>9. layer_' = n - 1 /\ (result' <=> n = 1) /\ result' \in BOOLEAN
  <2>1. layer_' = n - 1
    BY <1>1, <1>2 DEF endObject
  <2>2. n = 1 => layer_' = 0
    BY <2>1
  <2>3. result' \in BOOLEAN
    BY <1>1, Zenon
  <2>4. result' <=> n = 1
    BY <1>1, <2>2, Zenon
  <2> QED
    BY <2>1, <2>3, <2>4
<1>10. TypeOK'
  BY <1>1, <1>2, <1>4, <1>6, <1>8, <1>9 DEF TypeOK, Pieces
<1>11. NestOK'
  <2>1. 1 .. n - 1 \subseteq 1 .. n
    BY <1>2
  <2> QED
    BY <1>1, <1>6, <1>7, <1>8, <2>1, SMTT(20) DEF NestOK
<1>12. Running' /\ AtRest'
  <2>1. CASE n = 1
    <3>1. pc' = "done" /\ frames' = <<>> /\ text'.want = "end" /\ result'
      BY <1>1, <1>6, <1>8, <1>9, <2>1
    <3> QED
      BY <3>1 DEF Running, AtRest
  <2>2. CASE n # 1
    <3>1. pc' = "walk" /\ text'.want = "content"
      BY <1>1, <1>8, <2>2
    <3>2. frames' # <<>>
      BY <1>6, <2>2, Zenon
    <3>3. ~result'
      BY <1>9, <2>2, Zenon
    <3> QED
      BY <3>1, <3>2, <3>3 DEF Running, AtRest
  <2> QED
    BY <2>1, <2>2
<1> QED
  BY <1>3, <1>5, <1>8, <1>9, <1>10, <1>11, <1>12 DEF IInv

LEMMA InitInv == Init => IInv
<1> SUFFICES ASSUME Init PROVE IInv
  OBVIOUS
<1>1. /\ object \in Object /\ formatted_ \in BOOLEAN /\ layer_ = 0 /\ frames = <<>>
      /\ str_ = <<Declaration>> \o Newline /\ pc = "idle" /\ ~result /\ text = T!NoText
  BY DEF Init
<1>2. result \in BOOLEAN
  BY Zenon DEF Init
<1>3. str_ \in Seq(Pieces)
  <2>1. <<Declaration>> \in Seq(Pieces)
    BY DEF Pieces
  <2> QED
    BY <1>1, <2>1, SpacesTyped, ConcatProperties
<1>4. text.nest = <<>> /\ text \in T!State
  BY <1>1 DEF T!NoText, T!State
<1>5. TypeOK
  BY <1>1, <1>2, <1>3, <1>4 DEF TypeOK, Pieces
<1> QED
  BY <1>1, <1>4, <1>5 DEF IInv, NestOK, Running, AtRest

LEMMA StepInv ==
    ASSUME IInv, [Next]_vars
    PROVE  IInv'
<1>1. CASE UNCHANGED vars
  BY <1>1 DEF vars, IInv, TypeOK, NestOK, Running, AtRest
<1> QED
  BY <1>1, RootStep, EmptyStep, ScalarStep, OpenStep, CloseStep DEF Next

LEMMA InvImplies == IInv => TypeOK /\ TrueIfWhole
BY DEF IInv, TypeOK, Running, AtRest, TrueIfWhole, T!NoText

\* The writer's layer_ is the depth of the encoder's recursion, for every value.
THEOREM TypeCorrect == Spec => []TypeOK
<1>1. IInv /\ [Next]_vars => IInv'
  BY StepInv
<1> QED
  BY InitInv, <1>1, InvImplies, PTL DEF Spec

\* operator<< answers true exactly when it has written a whole document.
THEOREM ResultCorrect == Spec => []TrueIfWhole
<1>1. IInv /\ [Next]_vars => IInv'
  BY StepInv
<1> QED
  BY InitInv, <1>1, InvImplies, PTL DEF Spec

LEMMA StepWrites ==
    ASSUME IInv, [Next]_vars
    PROVE  [T!Next]_<<text, result>>
<1>1. IInv'
  BY StepInv
<1>2. CASE EncodeRoot
  <2>1. /\ "serialflex" \in Names /\ text' = T!After(text, T!OpenTag("serialflex"))
        /\ ~result /\ ~result' /\ text'.want = "content"
    BY <1>1, <1>2, NamesAssumption DEF EncodeRoot, startObject, IInv, AtRest, Running
  <2>2. result' = FALSE
    BY <1>1, <2>1 DEF IInv, TypeOK
  <2> QED
    BY <2>1, <2>2 DEF T!Next, T!WriteTag
<1>3. CASE EncodeEmpty
  BY <1>3 DEF EncodeEmpty
<1>4. CASE EncodeScalar
  BY <1>4, ScalarStep DEF EncodeScalar
<1>5. CASE OpenContainer
  <2>1. /\ text' = T!After(text, T!OpenTag(NextItem.name)) /\ pc = "walk" /\ Walks
        /\ ~result /\ ~result' /\ text'.want = "content"
    BY <1>1, <1>5 DEF OpenContainer, Walks, startObject, IInv, Running
  <2>2. NextItem.name \in Names
    BY <2>1, NextItemTyped DEF IInv, Running, Item
  <2>3. result' = FALSE
    BY <1>1, <2>1 DEF IInv, TypeOK
  <2> QED
    BY <2>1, <2>2, <2>3 DEF T!Next, T!WriteTag
<1>6. CASE CloseContainer
  <2>1. /\ Current.name \in Names /\ text' = T!After(text, T!CloseTag(Current.name))
        /\ text'.want = IF result' THEN "end" ELSE "content"
    BY <1>6, CloseStep
  <2>2. ~result /\ result' \in BOOLEAN
    BY <1>1, <1>6 DEF IInv, TypeOK, Running, CloseContainer
  <2>3. CASE result'
    BY <2>1, <2>2, <2>3 DEF T!Next, T!WriteLast
  <2>4. CASE result' = FALSE
    BY <2>1, <2>2, <2>4 DEF T!Next, T!WriteTag
  <2> QED
    BY <2>2, <2>3, <2>4
<1>7. CASE UNCHANGED vars
  BY <1>7 DEF vars
<1> QED
  BY <1>2, <1>3, <1>4, <1>5, <1>6, <1>7 DEF Next

\* XMLEncoder over xml::Writer implements XMLText: whatever the value, each call
\* extends a well-formed document, and true comes with its last tag.
THEOREM Implements == Spec => WritesXML
<1>1. Init => T!Init
  BY DEF Init, T!Init
<1>2. IInv /\ [Next]_vars => IInv'
  BY StepInv
<1>3. IInv /\ [Next]_vars => [T!Next]_<<text, result>>
  BY StepWrites
<1> QED
  BY InitInv, <1>1, <1>2, <1>3, PTL DEF Spec, WritesXML, T!Spec

=============================================================================
