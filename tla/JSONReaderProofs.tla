-------------------------- MODULE JSONReaderProofs --------------------------
(***************************************************************************)
(* For every text: the two passes of json::Reader make the same steps, so  *)
(* that filling never runs out of the nodes that counting counted; and the *)
(* nodes that are handed out are one tree.                                 *)
(*                                                                         *)
(* The argument: CtlNext is deterministic and does not read what the       *)
(* second pass writes.  `trace' is the chain of the first pass, with the   *)
(* nodes counted and the error raised so far; the second pass walks along  *)
(* it, at index `step'.                                                    *)
(***************************************************************************)
EXTENDS JSONReader, SequenceTheorems, TLAPS

Entry == [ctl : Control, n : Nat, err : BOOLEAN]

\* Entry u of the trace follows entry t.
Follows(t, u) == /\ CtlNext(t.ctl, u.ctl)
                 /\ u.n = (IF Allocates(t.ctl) THEN t.n + 1 ELSE t.n)
                 /\ u.err = (t.err \/ Fails(t.ctl))

Last == trace[Len(trace)]

TraceOK ==
    /\ trace \in Seq(Entry)
    /\ Len(trace) > 0
    /\ trace[1] = [ctl |-> StartOfText, n |-> 1, err |-> FALSE]
    /\ \A i \in 1 .. Len(trace) - 1 : Follows(trace[i], trace[i + 1])
    /\ \A i \in 1 .. Len(trace) : trace[i].n <= Last.n /\ (trace[i].err => Last.err)

AtTheEnd == pass = 1 => ctl = Last.ctl /\ capacity_ = Last.n /\ str_error_ = Last.err

Retraces ==
    pass # 1 => /\ Halted(Last.ctl)
                /\ capacity_ = Last.n
                /\ str_error_ = Last.err
                /\ step \in 1 .. Len(trace)
                /\ ctl = trace[step].ctl
                /\ cur_ndex_ = trace[step].n

Returned == pass = 3 => Halted(ctl)

IInv == ReaderTypeOK /\ TraceOK /\ AtTheEnd /\ Retraces /\ Returned

-----------------------------------------------------------------------------
(***************************************************************************)
(* Control.                                                                *)
(***************************************************************************)
\* A control state has one successor: the guards of the steps exclude each
\* other and each step is a function of the state it leaves.
LEMMA Deterministic ==
    ASSUME NEW c, NEW d, NEW e, CtlNext(c, d), CtlNext(c, e)
    PROVE  d = e
<1> USE DEF CtlNext, ParseScalar, ParseEmpty, BeginArray, BeginObject, Element, ArrayNext,
       ArrayReturn, Member, MemberReturn, ObjectNext, ObjectReturn, ClosesAtOnce,
       InsideArray, InsideObject
<1>1. CASE c.pc = "value" /\ Peek(c) \in {"lbracket", "lbrace"}
  BY <1>1
<1>2. CASE c.pc = "value" /\ Peek(c) \notin {"lbracket", "lbrace"}
  BY <1>2
<1>3. CASE c.pc = "element"
  BY <1>3
<1>4. CASE c.pc = "member"
  BY <1>4
<1>5. CASE c.pc = "after" /\ InsideArray(c)
  BY <1>5
<1>6. CASE c.pc = "after" /\ InsideObject(c)
  BY <1>6
<1> QED
  BY <1>1, <1>2, <1>3, <1>4, <1>5, <1>6

\* The descent that has returned from the outermost parseValue makes no step.
LEMMA HaltedIsFinal ==
    ASSUME NEW c, NEW d, Halted(c)
    PROVE  ~CtlNext(c, d) /\ ~Allocates(c)
BY DEF CtlNext, ParseScalar, ParseEmpty, BeginArray, BeginObject, Element, ArrayNext,
       ArrayReturn, Member, MemberReturn, ObjectNext, ObjectReturn, Halted,
       InsideArray, InsideObject, Allocates

\* The relations of the trace depend on the text only.
LEMMA SameText ==
    ASSUME src' = src
    PROVE  \A t, u : Follows(t, u)' <=> Follows(t, u)
BY DEF Follows, CtlNext, ParseScalar, ParseEmpty, BeginArray, BeginObject, Element,
       ArrayNext, ArrayReturn, Member, MemberReturn, ObjectNext, ObjectReturn,
       ClosesAtOnce, ScalarEnd, Allocates, Fails, NoValue, PeekNext, Peek

LEMMA StartTyped ==
    ASSUME src \in Seq(Token)
    PROVE  StartOfText \in Control /\ StartOfText.stack = <<>>
           /\ StartOfText.pc \notin {"element", "member"}
BY DEF StartOfText, At, Control

\* A step leads from a control state to a control state; it grows the stack of
\* frames where SaveCursor is called and shrinks it where RestoreCursor is.
LEMMA CtlTyped ==
    ASSUME src \in Seq(Token), NEW c \in Control, NEW d, CtlNext(c, d)
    PROVE  /\ d \in Control
           /\ Len(d.stack) =
                IF BeginArray(c, d) \/ BeginObject(c, d) THEN Len(c.stack) + 1
                ELSE IF \/ ArrayReturn(c, d) \/ MemberReturn(c, d)
                        \/ ObjectReturn(c, d) THEN Len(c.stack) - 1
                ELSE Len(c.stack)
<1> DEFINE n == Len(c.stack)
<1>1. ScalarEnd(c) \in Nat \ {0} /\ c.pos + 1 \in Nat \ {0} /\ c.pos + 2 \in Nat \ {0}
  BY DEF ScalarEnd, Control
<1>2. c.stack \in Seq(Call) /\ n \in Nat
  BY DEF Control
<1>3. ASSUME c.stack # <<>>
      PROVE  /\ NextIndex(c) \in Seq(Call) /\ Len(NextIndex(c)) = n
             /\ SubSeq(c.stack, 1, n - 1) \in Seq(Call)
             /\ Len(SubSeq(c.stack, 1, n - 1)) = n - 1
  <2>1. n \in 1 .. n
    BY <1>2, <1>3
  <2>2. c.stack[n] \in Call
    BY <1>2, <2>1
  <2>3. [c.stack[n] EXCEPT !.index = @ + 1] \in Call
    BY <2>2 DEF Call
  <2>4. NextIndex(c) = [c.stack EXCEPT ![n] = [c.stack[n] EXCEPT !.index = @ + 1]]
    BY <2>1 DEF NextIndex
  <2>5. NextIndex(c) \in Seq(Call) /\ Len(NextIndex(c)) = n
    BY <1>2, <2>1, <2>3, <2>4
  <2>6. \A i \in 1 .. n - 1 : c.stack[i] \in Call
    BY <1>2
  <2>7. SubSeq(c.stack, 1, n - 1) \in Seq(Call) /\ Len(SubSeq(c.stack, 1, n - 1)) = n - 1
    BY <1>2, <2>1, <2>6
  <2> QED
    BY <2>5, <2>7
<1>4. ASSUME NEW f \in Call
      PROVE  Append(c.stack, f) \in Seq(Call) /\ Len(Append(c.stack, f)) = n + 1
  BY <1>2
<1>5. ASSUME NEW pc \in {"value", "after"}, NEW pos \in Nat \ {0}, NEW st \in Seq(Call)
      PROVE  At(pc, pos, st) \in Control /\ At(pc, pos, st).stack = st
  BY DEF At, Control
<1>6. ASSUME NEW pc \in {"element", "member"}, NEW pos \in Nat \ {0},
             NEW st \in Seq(Call), Len(st) > 0
      PROVE  At(pc, pos, st) \in Control /\ At(pc, pos, st).stack = st
  <2>1. st # <<>>
    BY <1>6
  <2> QED
    BY <2>1 DEF At, Control
<1>7. c.pos \in Nat \ {0} /\ (c.pc \in {"element", "member"} => c.stack # <<>>)
  BY DEF Control
<1>8. CASE ParseScalar(c, d) \/ ParseEmpty(c, d) \/ Element(c, d) \/ Member(c, d)
  <2>1. ~(BeginArray(c, d) \/ BeginObject(c, d) \/ ArrayReturn(c, d) \/ MemberReturn(c, d)
            \/ ObjectReturn(c, d))
    BY <1>8 DEF ParseScalar, ParseEmpty, Element, Member, BeginArray, BeginObject,
                ArrayReturn, MemberReturn, ObjectReturn
  <2>2. d \in Control /\ d.stack = c.stack
    <3>1. CASE ParseScalar(c, d) \/ ParseEmpty(c, d)
      BY <1>1, <1>2, <1>5, <3>1 DEF ParseScalar, ParseEmpty
    <3>2. CASE Element(c, d) \/ Member(c, d)
      BY <1>1, <1>2, <1>5, <1>7, <3>2 DEF Element, Member
    <3> QED BY <1>8, <3>1, <3>2
  <2> QED
    BY <2>1, <2>2
<1>9. CASE ArrayNext(c, d) \/ ObjectNext(c, d)
  <2>1. ~(BeginArray(c, d) \/ BeginObject(c, d) \/ ArrayReturn(c, d) \/ MemberReturn(c, d)
            \/ ObjectReturn(c, d))
    BY <1>9 DEF ArrayNext, ObjectNext, BeginArray, BeginObject, InsideArray, InsideObject,
                ArrayReturn, MemberReturn, ObjectReturn
  <2>2. c.stack # <<>> /\ n > 0
    BY <1>2, <1>9 DEF ArrayNext, ObjectNext, InsideArray, InsideObject
  <2>3. d \in Control /\ d.stack = NextIndex(c)
    <3>1. PICK pc \in {"element", "member"}, p \in {c.pos, c.pos + 1} : d = At(pc, p, NextIndex(c))
      BY <1>9 DEF ArrayNext, ObjectNext
    <3>2. p \in Nat \ {0} /\ NextIndex(c) \in Seq(Call) /\ Len(NextIndex(c)) > 0
      BY <1>1, <1>3, <1>7, <2>2
    <3> QED BY <1>6, <3>1, <3>2
  <2> QED
    BY <1>3, <2>1, <2>2, <2>3
<1>10. CASE BeginArray(c, d) \/ BeginObject(c, d)
  <2>1. \A k \in {"array", "object"} : [kind |-> k, index |-> 0] \in Call
    BY DEF Call
  <2>2. n + 1 > 0
    BY <1>2
  <2>3. PICK k \in {"array", "object"}, pc \in {"element", "member"} :
            d = At(pc, c.pos + 1, Append(c.stack, [kind |-> k, index |-> 0]))
    BY <1>10 DEF BeginArray, BeginObject
  <2>4. d \in Control /\ Len(d.stack) = n + 1
    BY <1>1, <1>4, <1>6, <2>1, <2>2, <2>3
  <2> QED
    BY <1>10, <2>4
<1>11. CASE ArrayReturn(c, d) \/ MemberReturn(c, d) \/ ObjectReturn(c, d)
  <2>1. ~(BeginArray(c, d) \/ BeginObject(c, d))
    BY <1>11 DEF BeginArray, BeginObject, ArrayReturn, MemberReturn, ObjectReturn
  <2>2. c.stack # <<>>
    BY <1>7, <1>11 DEF ArrayReturn, MemberReturn, ObjectReturn, InsideArray, InsideObject
  <2>3. PICK pos \in Nat \ {0} : d = Return(c, pos)
    BY <1>1, <1>7, <1>11 DEF ArrayReturn, MemberReturn, ObjectReturn
  <2>4. d \in Control /\ Len(d.stack) = n - 1
    BY <1>3, <1>5, <2>2, <2>3 DEF Return
  <2> QED
    BY <1>11, <2>1, <2>4
<1> QED
  BY <1>8, <1>9, <1>10, <1>11 DEF CtlNext

-----------------------------------------------------------------------------
(***************************************************************************)
(* Types.                                                                  *)
(***************************************************************************)
\* What every part of a step leaves of the node array.
DataOK == /\ values_' \in Seq(Node) /\ Len(values_') = Len(values_)
          /\ failed' \subseteq {"key_size", "value_size"}
          /\ cur_ndex_' \in Nat /\ capacity_' \in Nat \ {0}
          /\ IF cur_value_ = NULL
             THEN cur_ndex_' = cur_ndex_
             ELSE capacity_' = capacity_ /\ cur_ndex_' \in cur_ndex_ .. capacity_

\* Replacing a node by a node leaves a sequence of nodes.
LEMMA NodeUpdate ==
    ASSUME NEW v \in Seq(Node), NEW i \in 1 .. Len(v), NEW n \in Node
    PROVE  [v EXCEPT ![i] = n] \in Seq(Node) /\ Len([v EXCEPT ![i] = n]) = Len(v)
OBVIOUS

\* The cursor is NULL exactly in the first pass; else it is at a node.
LEMMA CursorOK ==
    ASSUME ReaderTypeOK
    PROVE  /\ pass = 1 <=> cur_value_ = NULL
           /\ cur_value_ # NULL => /\ cur_value_ \in 1 .. cur_ndex_
                                  /\ cur_value_ \in 1 .. Len(values_)
                                  /\ values_[cur_value_] \in Node
<1>1. cur_value_ # NULL => cur_value_ \in 1 .. cur_ndex_ /\ cur_value_ \in 1 .. Len(values_)
  BY DEF ReaderTypeOK, NULL
<1>2. cur_value_ # NULL => values_[cur_value_] \in Node
  BY <1>1 DEF ReaderTypeOK
<1> QED
  BY <1>1, <1>2 DEF ReaderTypeOK, NULL

LEMMA SetTypeOK ==
    ASSUME ReaderTypeOK, NEW type \in Type, setItemType(type)
    PROVE  values_' \in Seq(Node) /\ Len(values_') = Len(values_)
<1>1. CASE cur_value_ = NULL
  BY <1>1 DEF setItemType, ReaderTypeOK
<1>2. CASE cur_value_ # NULL
  <2>1. [values_[cur_value_] EXCEPT !.type = type] \in Node
    BY <1>2, CursorOK DEF Node
  <2>2. values_' = [values_ EXCEPT ![cur_value_] = [values_[cur_value_] EXCEPT !.type = type]]
    BY <1>2 DEF setItemType
  <2> QED
    BY <1>2, <2>1, <2>2, CursorOK, NodeUpdate DEF ReaderTypeOK
<1> QED
  BY <1>1, <1>2

LEMMA SetValueOK ==
    ASSUME ReaderTypeOK, NEW t, setItemValue(t)
    PROVE  /\ values_' \in Seq(Node) /\ Len(values_') = Len(values_)
           /\ failed' \subseteq {"key_size", "value_size"}
<1>1. CASE cur_value_ = NULL
  BY <1>1 DEF setItemValue, ReaderTypeOK
<1>2. CASE cur_value_ # NULL
  <2> DEFINE node == [values_[cur_value_] EXCEPT !.type = ValueType(t), !.value = ctl.pos,
                                                 !.value_size = ValueSize(t)]
  <2>1. ValueType(t) \in Type /\ ValueSize(t) \in {0, 1} /\ ctl.pos \in Nat
    BY DEF ValueType, ValueSize, Type, ReaderTypeOK, Control
  <2>2. node \in Node
    BY <1>2, <2>1, CursorOK DEF Node
  <2>3. values_' = [values_ EXCEPT ![cur_value_] = node]
    BY <1>2 DEF setItemValue
  <2>4. failed' \subseteq {"key_size", "value_size"}
    BY <1>2 DEF setItemValue, ReaderTypeOK
  <2> QED
    BY <1>2, <2>2, <2>3, <2>4, CursorOK, NodeUpdate DEF ReaderTypeOK
<1> QED
  BY <1>1, <1>2

LEMMA ChildOK ==
    ASSUME ReaderTypeOK, NEW key \in Nat, getChildItem(key)
    PROVE  DataOK /\ Child \in Nat /\ (cur_value_ # NULL => Child \in 1 .. cur_ndex_')
<1>1. CASE cur_value_ = NULL
  BY <1>1 DEF getChildItem, ReaderTypeOK, DataOK, Child
<1>2. CASE cur_value_ # NULL
  <2>1. Child = cur_ndex_ + 1 /\ Child \in Nat /\ cur_value_ \in Nat /\ cur_ndex_' = Child
    BY <1>2 DEF Child, ReaderTypeOK, getChildItem
  <2>2. \A m \in Node : LinkTo(m) \in Node
    BY <2>1 DEF LinkTo, Node
  <2> DEFINE v == Linked
             node == [v[Child] EXCEPT !.prev = cur_value_, !.key = key]
  <2>3. v \in Seq(Node) /\ Len(v) = Len(values_)
    BY <1>2, <2>2, CursorOK, NodeUpdate DEF ReaderTypeOK, Linked
  <2>4. Child \in 1 .. Len(v) /\ v[Child] \in Node
    BY <1>2, <2>1, <2>3 DEF ReaderTypeOK, getChildItem
  <2>5. node \in Node
    BY <2>1, <2>4 DEF Node
  <2>6. values_' = [v EXCEPT ![Child] = node]
    BY <1>2 DEF getChildItem
  <2>7. values_' \in Seq(Node) /\ Len(values_') = Len(values_)
    BY <2>3, <2>4, <2>5, <2>6, NodeUpdate
  <2>8. /\ failed' \subseteq {"key_size", "value_size"} /\ capacity_' = capacity_
        /\ cur_ndex_' \in cur_ndex_ .. capacity_
    BY <1>2, <2>1, CursorOK DEF getChildItem, ReaderTypeOK
  <2> QED
    BY <1>2, <2>1, <2>7, <2>8 DEF DataOK, ReaderTypeOK
<1> QED
  BY <1>1, <1>2

LEMMA ParentsOK ==
    ASSUME NEW ps \in Seq(Nat), NEW x \in Nat
    PROVE  /\ Append(ps, x) \in Seq(Nat) /\ Len(Append(ps, x)) = Len(ps) + 1
           /\ \A i \in 1 .. Len(ps) + 1 : Append(ps, x)[i] \in {ps[j] : j \in 1 .. Len(ps)} \cup {x}
           /\ Len(ps) > 0 =>
                /\ SubSeq(ps, 1, Len(ps) - 1) \in Seq(Nat)
                /\ Len(SubSeq(ps, 1, Len(ps) - 1)) = Len(ps) - 1
                /\ \A i \in 1 .. Len(ps) - 1 : SubSeq(ps, 1, Len(ps) - 1)[i] = ps[i]
                /\ ps[Len(ps)] \in Nat
<1>1. /\ Append(ps, x) \in Seq(Nat) /\ Len(Append(ps, x)) = Len(ps) + 1
      /\ \A i \in 1 .. Len(ps) : Append(ps, x)[i] = ps[i]
      /\ Append(ps, x)[Len(ps) + 1] = x
  OBVIOUS
<1>2. ASSUME Len(ps) > 0
      PROVE  /\ SubSeq(ps, 1, Len(ps) - 1) \in Seq(Nat)
             /\ Len(SubSeq(ps, 1, Len(ps) - 1)) = Len(ps) - 1
             /\ \A i \in 1 .. Len(ps) - 1 : SubSeq(ps, 1, Len(ps) - 1)[i] = ps[i]
             /\ ps[Len(ps)] \in Nat
  <2>1. Len(ps) \in 1 .. Len(ps) /\ \A i \in 1 .. Len(ps) - 1 : ps[i] \in Nat
    BY <1>2
  <2>2. ps[Len(ps)] \in Nat
    BY <2>1
  <2> DEFINE m == Len(ps) - 1
  <2>3. m \in Nat /\ m \in Int /\ 1 \in Int /\ \A i \in 1 .. m : ps[i] \in Nat
    BY <1>2, <2>1
  <2> HIDE DEF m
  <2>4. /\ SubSeq(ps, 1, m) \in Seq(Nat)
        /\ Len(SubSeq(ps, 1, m)) = IF 1 <= m THEN m - 1 + 1 ELSE 0
        /\ \A i \in 1 .. m - 1 + 1 : SubSeq(ps, 1, m)[i] = ps[1 + i - 1]
    BY <2>3, SubSeqProperties
  <2>5. /\ SubSeq(ps, 1, m) \in Seq(Nat) /\ Len(SubSeq(ps, 1, m)) = m
        /\ \A i \in 1 .. m : SubSeq(ps, 1, m)[i] = ps[i]
    BY <2>3, <2>4
  <2> QED
    BY <2>2, <2>5 DEF m
<1>3. Len(ps) \in Nat
  OBVIOUS
<1> QED
  BY <1>1, <1>2, <1>3

\* What a step of the descent does to the node array, by cases of its action.
LEMMA ParseDataOK ==
    ASSUME ReaderTypeOK, Parse
    PROVE  DataOK
<1>1. ctl.pos \in Nat /\ KeyAt(ctl) \in Nat
  BY DEF ReaderTypeOK, Control, KeyAt
<1>2. /\ values_ \in Seq(Node) /\ failed \subseteq {"key_size", "value_size"}
      /\ cur_ndex_ \in Nat /\ capacity_ \in Nat \ {0}
      /\ cur_value_ # NULL => cur_ndex_ \in cur_ndex_ .. capacity_
  BY CursorOK DEF ReaderTypeOK
<1>3. CASE Scalar
  <2>1. values_' \in Seq(Node) /\ Len(values_') = Len(values_)
          /\ failed' \subseteq {"key_size", "value_size"}
    BY <1>2, <1>3, SetValueOK DEF Scalar
  <2> QED
    BY <1>2, <1>3, <2>1 DEF Scalar, DataOK
<1>4. CASE EmptyContainer \/ ArrayOpens \/ ObjectOpens
  <2>1. PICK type \in Type : setItemType(type)
    BY <1>4 DEF EmptyContainer, ArrayOpens, ObjectOpens, Type
  <2>2. UNCHANGED <<capacity_, cur_ndex_, failed>>
    BY <1>4 DEF EmptyContainer, ArrayOpens, ObjectOpens
  <2>3. values_' \in Seq(Node) /\ Len(values_') = Len(values_)
    BY <2>1, SetTypeOK
  <2> QED
    BY <1>2, <2>2, <2>3 DEF DataOK
<1>5. CASE ArrayElement \/ ObjectMember \/ (MemberBreaksOff /\ Allocates(ctl))
  <2>1. PICK key \in Nat : getChildItem(key)
    BY <1>1, <1>5 DEF ArrayElement, ObjectMember, MemberBreaksOff
  <2> QED
    BY <2>1, ChildOK
<1>6. CASE ArrayContinues \/ ObjectContinues \/ ArrayReturns \/ ObjectReturns
             \/ (MemberBreaksOff /\ ~Allocates(ctl))
  <2>1. UNCHANGED <<capacity_, cur_ndex_, values_, failed>>
    BY <1>6 DEF ArrayContinues, ObjectContinues, ArrayReturns, ObjectReturns,
                MemberBreaksOff, data
  <2> QED
    BY <1>2, <2>1 DEF DataOK
<1> QED
  BY <1>3, <1>4, <1>5, <1>6 DEF Parse

\* What it does to the cursor and to the cursors saved: one for every frame.
LEMMA ParseCursor ==
    ASSUME ReaderTypeOK, Parse
    PROVE  /\ CtlNext(ctl, ctl') /\ ctl' \in Control
           /\ \/ UNCHANGED <<cur_value_, parents>> /\ Len(ctl'.stack) = Len(ctl.stack)
              \/ SaveCursor /\ Len(ctl'.stack) = Len(ctl.stack) + 1
              \/ RestoreCursor /\ Len(ctl'.stack) = Len(ctl.stack) - 1
              \/ /\ cur_value_' = Child /\ UNCHANGED parents
                 /\ Len(ctl'.stack) = Len(ctl.stack)
                 /\ cur_value_ # NULL => Child \in 1 .. cur_ndex_'
<1> USE DEF ParseScalar, ParseEmpty, BeginArray, BeginObject, Element, ArrayNext,
       ArrayReturn, Member, MemberReturn, ObjectNext, ObjectReturn
<1>1. CtlNext(ctl, ctl')
  BY DEF Parse, CtlNext, Scalar, EmptyContainer, ArrayOpens, ArrayElement, ArrayContinues,
         ArrayReturns, ObjectOpens, ObjectMember, MemberBreaksOff, ObjectContinues, ObjectReturns
<1>2. /\ ctl' \in Control
      /\ Len(ctl'.stack) =
            IF BeginArray(ctl, ctl') \/ BeginObject(ctl, ctl') THEN Len(ctl.stack) + 1
            ELSE IF \/ ArrayReturn(ctl, ctl') \/ MemberReturn(ctl, ctl')
                    \/ ObjectReturn(ctl, ctl') THEN Len(ctl.stack) - 1
            ELSE Len(ctl.stack)
  BY <1>1, CtlTyped DEF ReaderTypeOK
<1>3. CASE Scalar \/ EmptyContainer \/ ArrayContinues \/ ObjectContinues
  <2>1. UNCHANGED <<cur_value_, parents>>
    BY <1>3 DEF Scalar, EmptyContainer, ArrayContinues, ObjectContinues, data
  <2>2. \/ ParseScalar(ctl, ctl') \/ ParseEmpty(ctl, ctl')
        \/ ArrayNext(ctl, ctl') \/ ObjectNext(ctl, ctl')
    BY <1>3 DEF Scalar, EmptyContainer, ArrayContinues, ObjectContinues
  <2>3. Len(ctl'.stack) = Len(ctl.stack)
    BY <1>2, <2>2 DEF InsideArray, InsideObject
  <2> QED
    BY <1>1, <1>2, <2>1, <2>3
<1>4. CASE ArrayOpens \/ ObjectOpens
  BY <1>1, <1>2, <1>4 DEF ArrayOpens, ObjectOpens
<1>5. CASE ArrayReturns \/ ObjectReturns \/ MemberBreaksOff
  <2>1. RestoreCursor
    BY <1>5 DEF ArrayReturns, ObjectReturns, MemberBreaksOff
  <2>2. ArrayReturn(ctl, ctl') \/ MemberReturn(ctl, ctl') \/ ObjectReturn(ctl, ctl')
    BY <1>5 DEF ArrayReturns, ObjectReturns, MemberBreaksOff
  <2>3. Len(ctl'.stack) = Len(ctl.stack) - 1
    BY <1>2, <2>2
  <2> QED
    BY <1>1, <1>2, <2>1, <2>3
<1>6. CASE ArrayElement \/ ObjectMember
  <2>1. PICK key \in Nat : getChildItem(key) /\ cur_value_' = Child /\ UNCHANGED parents
    BY <1>6 DEF ArrayElement, ObjectMember, KeyAt, ReaderTypeOK, Control
  <2>2. Element(ctl, ctl') \/ Member(ctl, ctl')
    BY <1>6 DEF ArrayElement, ObjectMember
  <2>3. Len(ctl'.stack) = Len(ctl.stack)
    BY <1>2, <2>2
  <2> QED
    BY <1>1, <1>2, <2>1, <2>3, ChildOK
<1> QED
  BY <1>3, <1>4, <1>5, <1>6 DEF Parse

LEMMA InitTyped == ReaderInit => ReaderTypeOK
<1> SUFFICES ASSUME ReaderInit PROVE ReaderTypeOK
  OBVIOUS
<1>1. src \in Seq(Token)
  BY InputsAssumption DEF ReaderInit
<1>2. ctl \in Control /\ ctl.stack = <<>>
  BY <1>1, StartTyped DEF ReaderInit
<1>3. parents = <<>> /\ Len(parents) = 0 /\ values_ = <<>>
  BY DEF ReaderInit
<1>4. /\ pass = 1 /\ pass \in {1, 2, 3} /\ capacity_ \in Nat \ {0} /\ cur_ndex_ \in Nat
      /\ cur_value_ \in Nat /\ cur_value_ = NULL
  BY DEF ReaderInit, NULL
<1>5. str_error_ \in BOOLEAN /\ failed \subseteq {"key_size", "value_size"}
  BY Zenon DEF ReaderInit
<1>6. values_ \in Seq(Node) /\ parents \in Seq(Nat) /\ Len(parents) = Len(ctl.stack)
  BY <1>2, <1>3
<1> QED
  BY <1>1, <1>2, <1>3, <1>4, <1>5, <1>6 DEF ReaderTypeOK

LEMMA ParseTyped ==
    ASSUME ReaderTypeOK, Parse
    PROVE  ReaderTypeOK'
<1>1. DataOK /\ ctl' \in Control
  BY ParseDataOK, ParseCursor
<1>2. src' = src /\ pass' = pass /\ pass \in {1, 2} /\ str_error_' \in BOOLEAN
  BY DEF Parse, ReaderTypeOK
<1>3. /\ parents \in Seq(Nat) /\ cur_value_ \in Nat /\ cur_ndex_ \in Nat /\ cur_ndex_' \in Nat
      /\ Len(parents) = Len(ctl.stack) /\ Len(parents) \in Nat
  BY <1>1 DEF ReaderTypeOK, DataOK
<1>4. pass # 1 => cur_ndex_' >= cur_ndex_
  BY <1>1, CursorOK DEF DataOK
<1>5. /\ pass = 1 => cur_value_ = NULL /\ \A i \in 1 .. Len(parents) : parents[i] = NULL
      /\ pass # 1 => /\ cur_value_ \in 1 .. cur_ndex_'
                     /\ \A i \in 1 .. Len(parents) : parents[i] \in 1 .. cur_ndex_'
  BY <1>3, <1>4 DEF ReaderTypeOK
<1> DEFINE Good == /\ cur_value_' \in Nat
                   /\ parents' \in Seq(Nat) /\ Len(parents') = Len(ctl'.stack)
                   /\ pass = 1 => /\ cur_value_' = NULL
                                  /\ \A i \in 1 .. Len(parents') : parents'[i] = NULL
                   /\ pass # 1 => /\ cur_value_' \in 1 .. cur_ndex_'
                                  /\ \A i \in 1 .. Len(parents') : parents'[i] \in 1 .. cur_ndex_'
<1>6. Good
  <2>1. CASE UNCHANGED <<cur_value_, parents>> /\ Len(ctl'.stack) = Len(ctl.stack)
    BY <1>3, <1>5, <2>1
  <2>2. CASE SaveCursor /\ Len(ctl'.stack) = Len(ctl.stack) + 1
    <3>1. parents' = Append(parents, cur_value_) /\ cur_value_' = cur_value_
      BY <2>2 DEF SaveCursor
    <3>2. \A i \in 1 .. Len(parents) + 1 :
             parents'[i] \in {parents[j] : j \in 1 .. Len(parents)} \cup {cur_value_}
      BY <1>3, <3>1, ParentsOK
    <3>3. parents' \in Seq(Nat) /\ Len(parents') = Len(parents) + 1
      BY <1>3, <3>1, ParentsOK
    <3> QED
      BY <1>3, <1>5, <2>2, <3>1, <3>2, <3>3
  <2>3. CASE RestoreCursor /\ Len(ctl'.stack) = Len(ctl.stack) - 1
    <3>1. Len(parents) > 0
      <4>1. ctl'.stack \in Seq(Call)
        BY <1>1 DEF Control
      <4> QED
        BY <1>3, <2>3, <4>1
    <3>2. /\ parents' \in Seq(Nat) /\ Len(parents') = Len(parents) - 1
          /\ \A i \in 1 .. Len(parents') : parents'[i] = parents[i]
          /\ cur_value_' = parents[Len(parents)] /\ cur_value_' \in Nat
      BY <1>3, <2>3, <3>1, ParentsOK DEF RestoreCursor
    <3>3. Len(parents) \in 1 .. Len(parents) /\ 1 .. Len(parents') \subseteq 1 .. Len(parents)
      BY <1>3, <3>1, <3>2
    <3> QED
      BY <1>3, <1>5, <2>3, <3>2, <3>3
  <2>4. CASE /\ cur_value_' = Child /\ UNCHANGED parents
             /\ Len(ctl'.stack) = Len(ctl.stack)
             /\ cur_value_ # NULL => Child \in 1 .. cur_ndex_'
    BY <1>3, <1>5, <2>4, CursorOK DEF Child, NULL
  <2> QED
    BY <2>1, <2>2, <2>3, <2>4, ParseCursor
<1>7. pass # 1 => Len(values_') = capacity_' /\ cur_ndex_' <= capacity_'
  BY <1>1, CursorOK DEF DataOK, ReaderTypeOK
<1> QED
  BY <1>1, <1>2, <1>6, <1>7 DEF ReaderTypeOK, DataOK
LEMMA StepTyped ==
    ASSUME ReaderTypeOK, [ReaderNext]_readerVars
    PROVE  ReaderTypeOK'
<1>1. CASE Parse
  BY <1>1, ParseTyped
<1>2. CASE Resize
  <2>1. /\ src' = src /\ pass' = 2 /\ cur_ndex_' = 1 /\ cur_value_' = 1
        /\ UNCHANGED <<str_error_, capacity_, failed>>
    BY <1>2 DEF Resize
  <2>2. ctl' \in Control /\ ctl'.stack = <<>>
    BY <1>2, StartTyped DEF Resize, ReaderTypeOK
  <2>3. ctl.stack = <<>> /\ parents' = parents /\ parents \in Seq(Nat) /\ Len(parents) = 0
    BY <1>2 DEF Resize, Halted, ReaderTypeOK
  <2>4. Blank \in Node
    BY DEF Blank, Node, Type, NULL
  <2>5. values_' = [i \in 1 .. capacity_ |-> Blank] /\ capacity_ \in Nat \ {0}
    BY <1>2 DEF Resize, ReaderTypeOK
  <2>6. values_' \in Seq(Node) /\ Len(values_') = capacity_
    BY <2>4, <2>5
  <2>7. src \in Seq(Token) /\ str_error_ \in BOOLEAN /\ failed \subseteq {"key_size", "value_size"}
    BY DEF ReaderTypeOK
  <2> QED
    BY <2>1, <2>2, <2>3, <2>5, <2>6, <2>7 DEF ReaderTypeOK
<1>3. CASE ParseReturns
  BY <1>3 DEF ParseReturns, data, ReaderTypeOK
<1>4. CASE UNCHANGED readerVars
  BY <1>4 DEF readerVars, data, ReaderTypeOK
<1> QED
  BY <1>1, <1>2, <1>3, <1>4 DEF ReaderNext

\* Every reachable state is well typed, whatever the texts: in the second pass
\* the cursor and all saved cursors are nodes the allocator has handed out, so
\* that no step of the descent follows NULL.
THEOREM TypeCorrect == ReaderSpec => []ReaderTypeOK
<1>1. ReaderTypeOK /\ [ReaderNext]_readerVars => ReaderTypeOK'
  BY StepTyped
<1> QED
  BY InitTyped, <1>1, PTL DEF ReaderSpec

-----------------------------------------------------------------------------
(***************************************************************************)
(* The second pass repeats the first.                                      *)
(***************************************************************************)
\* A step of the descent counts a node in the first pass, or takes one in the
\* second, exactly where getChildItem is called.
LEMMA ParseCounts ==
    ASSUME ReaderTypeOK, Parse
    PROVE  /\ pass = 1 => capacity_' = IF Allocates(ctl) THEN capacity_ + 1 ELSE capacity_
           /\ pass = 2 => /\ cur_ndex_' = IF Allocates(ctl) THEN cur_ndex_ + 1 ELSE cur_ndex_
                          /\ capacity_' = capacity_
<1>1. CASE ArrayElement \/ ObjectMember \/ (MemberBreaksOff /\ Allocates(ctl))
  <2>1. Allocates(ctl)
    BY <1>1 DEF ArrayElement, ObjectMember, Element, Member, Allocates
  <2>2. PICK key : getChildItem(key)
    BY <1>1 DEF ArrayElement, ObjectMember, MemberBreaksOff
  <2> QED
    BY <2>1, <2>2, CursorOK DEF getChildItem, Child
<1>2. CASE \/ Scalar \/ EmptyContainer \/ ArrayOpens \/ ArrayContinues \/ ArrayReturns
           \/ ObjectOpens \/ ObjectContinues \/ ObjectReturns
           \/ (MemberBreaksOff /\ ~Allocates(ctl))
  <2>1. ~Allocates(ctl)
    BY <1>2 DEF Scalar, EmptyContainer, ArrayOpens, ArrayContinues, ArrayReturns, ObjectOpens,
         ObjectContinues, ObjectReturns, Allocates, ParseScalar, ParseEmpty, BeginArray,
         BeginObject, ArrayNext, ArrayReturn, ObjectNext, ObjectReturn
  <2>2. UNCHANGED <<capacity_, cur_ndex_>>
    BY <1>2 DEF Scalar, EmptyContainer, ArrayOpens, ArrayContinues, ArrayReturns, ObjectOpens,
         ObjectContinues, ObjectReturns, MemberBreaksOff, data
  <2> QED
    BY <2>1, <2>2
<1> QED
  BY <1>1, <1>2 DEF Parse

LEMMA InitInv == ReaderInit => IInv
<1> SUFFICES ASSUME ReaderInit PROVE IInv
  OBVIOUS
<1>1. ReaderTypeOK /\ pass = 1
  BY InitTyped DEF ReaderInit
<1> DEFINE e == [ctl |-> StartOfText, n |-> 1, err |-> FALSE]
<1>2. trace = <<e>> /\ ctl = StartOfText /\ capacity_ = 1 /\ str_error_ = FALSE
  BY Zenon DEF ReaderInit
<1>3. e \in Entry
  BY <1>1, StartTyped DEF Entry, ReaderTypeOK
<1>4. e.ctl = StartOfText /\ e.n = 1 /\ e.err = FALSE
  OBVIOUS
<1> HIDE DEF e
<1>5. trace \in Seq(Entry) /\ Len(trace) = 1 /\ trace[1] = e
  BY <1>2, <1>3
<1>6. TraceOK
  BY <1>4, <1>5 DEF TraceOK, Last, e
<1>7. AtTheEnd
  BY <1>2, <1>4, <1>5 DEF AtTheEnd, Last
<1> QED
  BY <1>1, <1>6, <1>7 DEF IInv, Retraces, Returned

LEMMA CountingStep ==
    ASSUME IInv, Parse, pass = 1
    PROVE  IInv'
<1> DEFINE e == [ctl |-> ctl', n |-> capacity_', err |-> str_error_']
           n == Len(trace)
<1>1. ReaderTypeOK /\ ReaderTypeOK' /\ TraceOK /\ AtTheEnd
  BY ParseTyped DEF IInv
<1>2. pass' = 1 /\ src' = src /\ trace' = Append(trace, e)
        /\ str_error_' = (str_error_ \/ Fails(ctl))
  BY DEF Parse
<1>3. e \in Entry
  BY <1>1 DEF Entry, ReaderTypeOK
<1>4. e.ctl = ctl' /\ e.n = capacity_' /\ e.err = str_error_'
  OBVIOUS
<1> HIDE DEF e
<1>5. trace \in Seq(Entry) /\ n \in Nat /\ n > 0 /\ trace[n] \in Entry
  <2>1. trace \in Seq(Entry) /\ n > 0
    BY <1>1 DEF TraceOK
  <2> QED
    BY <2>1
<1>6. /\ trace' \in Seq(Entry) /\ Len(trace') = n + 1
      /\ \A i \in 1 .. n : trace'[i] = trace[i]
      /\ trace'[n + 1] = e
  BY <1>2, <1>3, <1>5
<1>7. ctl = trace[n].ctl /\ capacity_ = trace[n].n /\ str_error_ = trace[n].err
  BY <1>1 DEF AtTheEnd, Last
<1>8. Follows(trace[n], e)
  BY <1>1, <1>2, <1>4, <1>7, ParseCursor, ParseCounts DEF Follows
<1>9. \A i \in 1 .. n : trace[i].n <= e.n /\ (trace[i].err => e.err)
  <2>1. \A i \in 1 .. n : trace[i].n \in Nat
    <3>1. \A i \in 1 .. n : trace[i] \in Entry
      BY <1>5
    <3> QED
      BY <3>1 DEF Entry
  <2>2. e.n \in Nat /\ trace[n].n \in Nat /\ e.n >= trace[n].n /\ (trace[n].err => e.err)
    BY <1>3, <1>5, <1>8 DEF Entry, Follows
  <2> QED
    BY <1>1, <2>1, <2>2 DEF TraceOK, Last
<1>10. TraceOK'
  <2>1. \A i \in 1 .. n : Follows(trace'[i], trace'[i + 1])
    <3> SUFFICES ASSUME NEW i \in 1 .. n PROVE Follows(trace'[i], trace'[i + 1])
      OBVIOUS
    <3>1. CASE i = n
      BY <1>5, <1>6, <1>8, <3>1
    <3>2. CASE i < n
      <4>1. i \in 1 .. n - 1 /\ i + 1 \in 1 .. n
        BY <1>5, <3>2
      <4> QED
        BY <1>1, <1>6, <4>1 DEF TraceOK
    <3> QED
      BY <1>5, <3>1, <3>2
  <2>2. \A i \in 1 .. n : Follows(trace[i], trace[i + 1])' 
    BY <1>2, <2>1, SameText
  <2>3. StartOfText' = StartOfText
    BY <1>2 DEF StartOfText
  <2>4. trace'[1] = [ctl |-> StartOfText', n |-> 1, err |-> FALSE]
    BY <1>1, <1>5, <1>6, <2>3 DEF TraceOK
  <2>5. \A i \in 1 .. n + 1 : trace'[i].n <= Last'.n /\ (trace'[i].err => Last'.err)
    <3>1. Last' = e /\ e.n \in Nat
      BY <1>3, <1>6 DEF Last, Entry
    <3>2. \A i \in 1 .. n + 1 : i \in 1 .. n \/ i = n + 1
      BY <1>5
    <3> QED
      BY <1>6, <1>9, <3>1, <3>2
  <2>6. Len(trace') - 1 = n /\ Len(trace') > 0
    BY <1>5, <1>6
  <2> QED
    BY <1>6, <2>2, <2>4, <2>5, <2>6 DEF TraceOK
<1>11. AtTheEnd'
  BY <1>4, <1>5, <1>6 DEF AtTheEnd, Last
<1> QED
  BY <1>1, <1>2, <1>10, <1>11 DEF IInv, Retraces, Returned

\* The second pass is not at the end of the trace when it makes a step; the step
\* leads to the next entry.
LEMMA OnTheWay ==
    ASSUME IInv, pass = 2, ~Halted(ctl)
    PROVE  /\ step \in 1 .. Len(trace) - 1
           /\ trace[step] \in Entry /\ trace[step + 1] \in Entry /\ Last \in Entry
           /\ Follows(trace[step], trace[step + 1])
           /\ trace[step + 1].n <= Last.n
           /\ trace[step + 1].err => Last.err
<1>1. TraceOK /\ Retraces
  BY DEF IInv
<1>2. step \in 1 .. Len(trace) /\ step # Len(trace) /\ Len(trace) \in Nat
  BY <1>1 DEF TraceOK, Retraces, Last
<1>3. step \in 1 .. Len(trace) - 1 /\ step + 1 \in 1 .. Len(trace) /\ Len(trace) \in 1 .. Len(trace)
  BY <1>2
<1>4. trace \in Seq(Entry)
  BY <1>1 DEF TraceOK
<1>5. trace[step] \in Entry /\ trace[step + 1] \in Entry /\ Last \in Entry
  BY <1>2, <1>3, <1>4 DEF Last
<1> QED
  BY <1>1, <1>3, <1>5 DEF TraceOK

LEMMA FillingStep ==
    ASSUME IInv, Parse, pass = 2
    PROVE  IInv'
<1>1. ReaderTypeOK /\ ReaderTypeOK' /\ TraceOK /\ Retraces
  BY ParseTyped DEF IInv
<1>2. pass' = 2 /\ src' = src /\ trace' = trace /\ step' = step + 1
        /\ str_error_' = (str_error_ \/ Fails(ctl))
  BY DEF Parse
<1>3. CtlNext(ctl, ctl') /\ ~Halted(ctl)
  BY <1>1, ParseCursor, HaltedIsFinal
<1>4. /\ step \in 1 .. Len(trace) - 1
      /\ trace[step] \in Entry /\ trace[step + 1] \in Entry
      /\ Follows(trace[step], trace[step + 1])
      /\ trace[step + 1].err => Last.err
  BY <1>3, OnTheWay
<1>5. ctl = trace[step].ctl /\ cur_ndex_ = trace[step].n /\ str_error_ = Last.err
        /\ capacity_ = Last.n /\ Halted(Last.ctl)
  BY <1>1 DEF Retraces
<1>6. ctl' = trace[step + 1].ctl
  BY <1>3, <1>4, <1>5, Deterministic DEF Follows
<1>7. cur_ndex_' = trace[step + 1].n /\ capacity_' = capacity_
  BY <1>1, <1>4, <1>5, ParseCounts DEF Follows
<1>8. str_error_' = Last.err
  BY <1>1, <1>2, <1>4, <1>5 DEF Follows, Entry, ReaderTypeOK
<1>9. Last' = Last /\ step + 1 \in 1 .. Len(trace)
  <2>1. Len(trace) \in Nat
    BY <1>1 DEF TraceOK
  <2> QED
    BY <1>2, <1>4, <2>1 DEF Last
<1>10. TraceOK'
  <2>1. StartOfText' = StartOfText
    BY <1>2 DEF StartOfText
  <2>2. \A i \in 1 .. Len(trace) - 1 : Follows(trace[i], trace[i + 1])'
    BY <1>1, <1>2, SameText DEF TraceOK
  <2> QED
    BY <1>1, <1>2, <1>9, <2>1, <2>2 DEF TraceOK
<1>11. Retraces'
  BY <1>2, <1>5, <1>6, <1>7, <1>8, <1>9 DEF Retraces, Halted
<1> QED
  BY <1>1, <1>2, <1>10, <1>11 DEF IInv, AtTheEnd, Returned

\* What leaves text and trace alone keeps the trace.
LEMMA TraceKept ==
    ASSUME TraceOK, UNCHANGED <<src, trace>>
    PROVE  TraceOK' /\ Last' = Last
<1>1. StartOfText' = StartOfText /\ Last' = Last
  BY DEF StartOfText, Last
<1>2. \A i \in 1 .. Len(trace) - 1 : Follows(trace[i], trace[i + 1])'
  BY SameText DEF TraceOK
<1> QED
  BY <1>1, <1>2 DEF TraceOK

LEMMA StepInv ==
    ASSUME IInv, [ReaderNext]_readerVars
    PROVE  IInv'
<1>1. ReaderTypeOK /\ ReaderTypeOK' /\ TraceOK
  BY StepTyped DEF IInv
<1>2. CASE Parse
  BY <1>2, CountingStep, FillingStep DEF Parse
<1>3. CASE Resize
  <2>1. /\ pass = 1 /\ pass' = 2 /\ Halted(ctl) /\ ctl' = StartOfText /\ step' = 1
        /\ cur_ndex_' = 1 /\ UNCHANGED <<src, trace, str_error_, capacity_>>
    BY <1>3 DEF Resize
  <2>2. TraceOK' /\ Last' = Last
    BY <1>1, <2>1, TraceKept
  <2>3. Halted(Last.ctl) /\ capacity_ = Last.n /\ str_error_ = Last.err
    BY <2>1 DEF IInv, AtTheEnd
  <2>4. trace[1].ctl = StartOfText /\ trace[1].n = 1 /\ 1 \in 1 .. Len(trace)
    BY <1>1 DEF TraceOK
  <2>5. Retraces'
    BY <2>1, <2>2, <2>3, <2>4 DEF Retraces, Halted
  <2> QED
    BY <1>1, <2>1, <2>2, <2>5 DEF IInv, AtTheEnd, Returned
<1>4. CASE ParseReturns
  <2>1. pass = 2 /\ pass' = 3 /\ Halted(ctl)
          /\ UNCHANGED <<src, ctl, str_error_, capacity_, cur_ndex_, trace, step>>
    BY <1>4 DEF ParseReturns, data
  <2>2. TraceOK' /\ Last' = Last
    BY <1>1, <2>1, TraceKept
  <2> QED
    BY <1>1, <2>1, <2>2 DEF IInv, AtTheEnd, Retraces, Returned, Halted
<1>5. CASE UNCHANGED readerVars
  <2>1. UNCHANGED <<src, pass, ctl, str_error_, capacity_, cur_ndex_, trace, step>>
    BY <1>5 DEF readerVars, data
  <2>2. TraceOK' /\ Last' = Last
    BY <1>1, <2>1, TraceKept
  <2> QED
    BY <1>1, <2>1, <2>2 DEF IInv, AtTheEnd, Retraces, Returned, Halted
<1> QED
  BY <1>2, <1>3, <1>4, <1>5 DEF ReaderNext

-----------------------------------------------------------------------------
\* assert(cur_ndex_ < array_.size()) holds for every text: the second pass calls
\* getChildItem no more often than the first.
THEOREM AllocationFits == ReaderSpec => []AllocInBounds
<1>1. IInv => AllocInBounds
  <2> SUFFICES ASSUME IInv, pass = 2, Allocates(ctl) PROVE cur_ndex_ < Len(values_)
    BY DEF AllocInBounds
  <2>1. ReaderTypeOK /\ Retraces /\ ~Halted(ctl)
    BY DEF IInv, Halted, Allocates
  <2>2. trace[step + 1].n <= Last.n /\ Follows(trace[step], trace[step + 1])
          /\ trace[step] \in Entry
    BY <2>1, OnTheWay
  <2>3. trace[step + 1].n = cur_ndex_ + 1 /\ Len(values_) = Last.n
    BY <2>1, <2>2 DEF Follows, Retraces, ReaderTypeOK
  <2>4. cur_ndex_ \in Nat /\ Len(values_) \in Nat
    BY <2>1 DEF ReaderTypeOK
  <2> QED
    BY <2>2, <2>3, <2>4
<1> QED
  BY InitInv, StepInv, <1>1, PTL DEF ReaderSpec

\* The passes agree for every text: all nodes counted are used, and the answer
\* of parse (NULL or the root) is settled by the first pass.
THEOREM SecondPassAgrees == ReaderSpec => []PassesAgree
<1>1. IInv => PassesAgree
  <2> SUFFICES ASSUME IInv PROVE PassesAgree
    OBVIOUS
  <2>1. pass # 1 => str_error_ = trace[Len(trace)].err
    BY DEF IInv, Retraces, Last
  <2>2. ASSUME pass = 3 PROVE cur_ndex_ = capacity_
    <3>1. Halted(ctl) /\ Retraces /\ TraceOK /\ ReaderTypeOK
      BY <2>2 DEF IInv, Returned
    <3>2. ctl = trace[step].ctl /\ step \in 1 .. Len(trace) /\ Len(trace) \in Nat
      BY <2>2, <3>1 DEF Retraces, TraceOK
    <3>3. CASE step = Len(trace)
      BY <2>2, <3>1, <3>3 DEF Retraces, Last
    <3>4. CASE step # Len(trace)
      <4>1. step \in 1 .. Len(trace) - 1
        BY <3>2, <3>4
      <4> QED
        BY <3>1, <3>2, <4>1, HaltedIsFinal DEF TraceOK, Follows
    <3> QED
      BY <3>3, <3>4
  <2> QED
    BY <2>1, <2>2 DEF PassesAgree
<1> QED
  BY InitInv, StepInv, <1>1, PTL DEF ReaderSpec

-----------------------------------------------------------------------------
(***************************************************************************)
(* The nodes that json::Reader links are one tree.                         *)
(*                                                                         *)
(* LinkTo writes `child' or `next' of the cursor, whatever is in it.  The  *)
(* invariant says that nothing is: the cursor of a value has no child, no  *)
(* cursor, saved or not, has a next, and the cursors saved by the          *)
(* parseValues in progress are the containers of the one before the other, *)
(* so that the item behind which a sibling is linked is none of them.      *)
(***************************************************************************)
\* The loops of parseArray and parseObject before their first item: the cursor
\* is still at the container.
AtFirst == ctl.pc \in {"element", "member"} /\ Innermost(ctl).index = 0

Unlinked == \A j \in cur_ndex_ + 1 .. Len(values_) :
                values_[j].child = NULL /\ values_[j].next = NULL

Chain ==
    /\ \A i, k \in 1 .. Len(parents) : i < k => parents[i] < parents[k]
    /\ Len(parents) > 0 => IF AtFirst THEN cur_value_ = parents[Len(parents)]
                           ELSE parents[Len(parents)] < cur_value_

NextFree == /\ values_[cur_value_].next = NULL
            /\ \A i \in 1 .. Len(parents) : values_[parents[i]].next = NULL

ChildFree == ctl.pc = "value" \/ AtFirst => values_[cur_value_].child = NULL

FreeSlots == pass # 1 => Unlinked /\ Chain /\ NextFree /\ ChildFree

LInv == ReaderTypeOK /\ LinksInverse /\ FreeSlots

-----------------------------------------------------------------------------
(***************************************************************************)
(* What a step does to the links.                                          *)
(***************************************************************************)
SameLinks ==
    /\ Len(values_') = Len(values_) /\ cur_ndex_' = cur_ndex_
    /\ \A i \in 1 .. Len(values_) : /\ values_'[i].child = values_[i].child
                                    /\ values_'[i].next = values_[i].next
                                    /\ values_'[i].prev = values_[i].prev

New == cur_ndex_ + 1

LinksNew ==
    /\ Len(values_') = Len(values_) /\ cur_ndex_' = New /\ New <= Len(values_)
    /\ \A i \in (1 .. Len(values_)) \ {cur_value_, New} : values_'[i] = values_[i]
    /\ values_'[New].prev = cur_value_
    /\ values_'[New].child = values_[New].child
    /\ values_'[New].next = values_[New].next
    /\ values_'[cur_value_].prev = values_[cur_value_].prev
    /\ values_'[cur_value_].child = IF Innermost(ctl).index = 0 THEN New
                                    ELSE values_[cur_value_].child
    /\ values_'[cur_value_].next = IF Innermost(ctl).index = 0 THEN values_[cur_value_].next
                                   ELSE New

\* Whether a field of one node, none of its links, is set or nothing is written.
LEMMA SettingKeepsLinks ==
    ASSUME ReaderTypeOK, pass = 2, UNCHANGED cur_ndex_,
           \/ UNCHANGED values_
           \/ \E type : setItemType(type)
           \/ \E t : setItemValue(t)
    PROVE  SameLinks
<1>1. cur_value_ # NULL /\ values_ \in Seq(Node) /\ cur_value_ \in 1 .. Len(values_)
        /\ values_[cur_value_] \in Node
  BY CursorOK DEF ReaderTypeOK
<1>3. CASE UNCHANGED values_
  BY <1>3 DEF SameLinks
<1>4. ASSUME NEW type, setItemType(type)
      PROVE  SameLinks
  <2> DEFINE node == [values_[cur_value_] EXCEPT !.type = type]
  <2>1. values_' = [values_ EXCEPT ![cur_value_] = node]
    BY <1>1, <1>4 DEF setItemType
  <2>2. /\ node.child = values_[cur_value_].child /\ node.next = values_[cur_value_].next
        /\ node.prev = values_[cur_value_].prev
    BY <1>1 DEF Node
  <2> HIDE DEF node
  <2> QED
    BY <1>1, <2>1, <2>2 DEF SameLinks
<1>5. ASSUME NEW t, setItemValue(t)
      PROVE  SameLinks
  <2> DEFINE node == [values_[cur_value_] EXCEPT !.type = ValueType(t), !.value = ctl.pos,
                                                 !.value_size = ValueSize(t)]
  <2>1. values_' = [values_ EXCEPT ![cur_value_] = node]
    BY <1>1, <1>5 DEF setItemValue
  <2>2. /\ node.child = values_[cur_value_].child /\ node.next = values_[cur_value_].next
        /\ node.prev = values_[cur_value_].prev
    BY <1>1 DEF Node
  <2> HIDE DEF node
  <2> QED
    BY <1>1, <2>1, <2>2 DEF SameLinks
<1> QED
  BY <1>3, <1>4, <1>5

\* getChildItem links the next node behind the cursor.
LEMMA ChildIsLinked ==
    ASSUME ReaderTypeOK, pass = 2, NEW key \in Nat, getChildItem(key)
    PROVE  LinksNew /\ Child = New
<1>1. /\ cur_value_ # NULL /\ values_ \in Seq(Node) /\ cur_value_ \in 1 .. Len(values_)
      /\ cur_value_ \in 1 .. cur_ndex_ /\ cur_ndex_ \in Nat /\ Len(values_) \in Nat
  BY CursorOK DEF ReaderTypeOK
<1>2. Child = New /\ cur_ndex_ < Len(values_) /\ cur_ndex_' = New
  BY <1>1 DEF Child, getChildItem, New
<1>3. New \in 1 .. Len(values_) /\ New # cur_value_ /\ New <= Len(values_)
  BY <1>1, <1>2 DEF New
<1>4. values_[cur_value_] \in Node /\ values_[New] \in Node
  BY <1>1, <1>3
<1> DEFINE c == LinkTo(values_[cur_value_])
           n == [values_[New] EXCEPT !.prev = cur_value_, !.key = key]
<1>5. /\ c.prev = values_[cur_value_].prev
      /\ c.child = IF Innermost(ctl).index = 0 THEN New ELSE values_[cur_value_].child
      /\ c.next = IF Innermost(ctl).index = 0 THEN values_[cur_value_].next ELSE New
  BY <1>2, <1>4 DEF LinkTo, Node
<1>6. /\ n.prev = cur_value_ /\ n.child = values_[New].child /\ n.next = values_[New].next
  BY <1>4 DEF Node
<1>7. Linked = [values_ EXCEPT ![cur_value_] = c]
  BY DEF Linked
<1> HIDE DEF c
<1>8. Linked[New] = values_[New] /\ Len(Linked) = Len(values_) /\ Linked[cur_value_] = c
        /\ \A i \in (1 .. Len(values_)) \ {cur_value_} : Linked[i] = values_[i]
        /\ DOMAIN Linked = 1 .. Len(values_)
  BY <1>1, <1>3, <1>7
<1>9. values_' = [Linked EXCEPT ![New] = n]
  BY <1>1, <1>2, <1>8 DEF getChildItem
<1>10. DOMAIN values_' = 1 .. Len(values_)
         /\ \A i \in 1 .. Len(values_) : values_'[i] = IF i = New THEN n ELSE Linked[i]
  BY <1>8, <1>9
<1>11. Len(values_') = Len(values_)
  <2>1. values_' \in Seq(Node)
    BY ChildOK DEF DataOK
  <2> QED
    BY <1>10, <2>1
<1> QED
  BY <1>1, <1>2, <1>3, <1>5, <1>6, <1>8, <1>10, <1>11 DEF LinksNew

-----------------------------------------------------------------------------
(***************************************************************************)
(* One tree.                                                               *)
(***************************************************************************)
LEMMA SameTree ==
    ASSUME ReaderTypeOK, LinksInverse, pass # 1, SameLinks
    PROVE  LinksInverse'
<1> DEFINE V == values_
           W == values_'
           n == Len(values_)
<1>1. n \in Nat /\ cur_ndex_ \in Nat /\ cur_ndex_ <= n
  BY DEF ReaderTypeOK
<1>2. /\ Len(W) = n /\ cur_ndex_' = cur_ndex_
      /\ \A i \in 1 .. n : W[i].child = V[i].child /\ W[i].next = V[i].next
                           /\ W[i].prev = V[i].prev
  BY DEF SameLinks
<1>3. /\ \A i \in 1 .. n : \A j \in {V[i].child, V[i].next} \ {NULL} :
             j \in i + 1 .. cur_ndex_ /\ V[j].prev = i
      /\ \A j \in 2 .. cur_ndex_ : /\ V[j].prev \in 1 .. j - 1
             /\ (V[V[j].prev].child = j) # (V[V[j].prev].next = j)
  BY DEF LinksInverse
<1> HIDE DEF V, W, n
<1>4. ASSUME NEW i \in 1 .. n, NEW j \in {W[i].child, W[i].next} \ {NULL}
      PROVE  j \in i + 1 .. cur_ndex_ /\ W[j].prev = i
  <2>1. j \in i + 1 .. cur_ndex_ /\ V[j].prev = i
    BY <1>2, <1>3, <1>4
  <2>2. j \in 1 .. n
    BY <1>1, <2>1
  <2> QED
    BY <1>2, <2>1, <2>2
<1>5. ASSUME NEW j \in 2 .. cur_ndex_
      PROVE  W[j].prev \in 1 .. j - 1
               /\ (W[W[j].prev].child = j) # (W[W[j].prev].next = j)
  <2>1. V[j].prev \in 1 .. j - 1 /\ (V[V[j].prev].child = j) # (V[V[j].prev].next = j)
    BY <1>3
  <2>2. j \in 1 .. n /\ V[j].prev \in 1 .. n
    BY <1>1, <2>1
  <2>3. W[j].prev = V[j].prev
    BY <1>2, <2>2
  <2> QED
    BY <1>2, <2>1, <2>2, <2>3
<1> QED
  BY <1>2, <1>4, <1>5 DEF LinksInverse, W, n

\* A new node is linked behind the cursor in a place where nothing was.
LEMMA NewInTree ==
    ASSUME ReaderTypeOK, LinksInverse, FreeSlots, pass # 1, Allocates(ctl), LinksNew
    PROVE  LinksInverse'
<1> DEFINE c == cur_value_
           V == values_
           W == values_'
           n == Len(values_)
           first == Innermost(ctl).index = 0
<1>1. /\ n \in Nat /\ cur_ndex_ \in Nat /\ c \in 1 .. cur_ndex_ /\ New = cur_ndex_ + 1
      /\ New \in 1 .. n /\ c \in 1 .. n /\ c < New
  BY CursorOK DEF ReaderTypeOK, LinksNew, New
<1>2. /\ Len(W) = n /\ cur_ndex_' = New
      /\ \A i \in (1 .. n) \ {c, New} : W[i] = V[i]
      /\ W[New].prev = c /\ W[New].child = V[New].child /\ W[New].next = V[New].next
      /\ W[c].prev = V[c].prev
      /\ W[c].child = IF first THEN New ELSE V[c].child
      /\ W[c].next = IF first THEN V[c].next ELSE New
  BY DEF LinksNew
<1>3. V[New].child = NULL /\ V[New].next = NULL
  BY <1>1 DEF FreeSlots, Unlinked
<1>4. V[c].next = NULL /\ (first => V[c].child = NULL)
  BY DEF FreeSlots, NextFree, ChildFree, AtFirst, Allocates
<1>5. /\ \A i \in 1 .. n : \A j \in {V[i].child, V[i].next} \ {NULL} :
             j \in i + 1 .. cur_ndex_ /\ V[j].prev = i
      /\ \A j \in 2 .. cur_ndex_ : /\ V[j].prev \in 1 .. j - 1
             /\ (V[V[j].prev].child = j) # (V[V[j].prev].next = j)
  BY DEF LinksInverse
<1> HIDE DEF c, V, W, n, first
<1>6. \A j \in 1 .. cur_ndex_ : j \in 1 .. n /\ j # New /\ W[j].prev = V[j].prev
  BY <1>1, <1>2
<1>7. ASSUME NEW i \in 1 .. n, NEW j \in {W[i].child, W[i].next} \ {NULL}
      PROVE  j \in i + 1 .. New /\ W[j].prev = i
  <2>1. CASE j \in {V[i].child, V[i].next}
    <3>1. j \in i + 1 .. cur_ndex_ /\ V[j].prev = i
      BY <1>5, <1>7, <2>1
    <3>2. j \in 1 .. cur_ndex_ /\ i + 1 .. cur_ndex_ \subseteq i + 1 .. New
      BY <1>1, <3>1
    <3> QED
      BY <1>6, <3>1, <3>2
  <2>2. CASE j \notin {V[i].child, V[i].next}
    <3>1. i = c /\ j = New
      BY <1>2, <1>3, <1>7, <2>2
    <3> QED
      BY <1>1, <1>2, <3>1
  <2> QED
    BY <2>1, <2>2
<1>8. ASSUME NEW j \in 2 .. New
      PROVE  W[j].prev \in 1 .. j - 1
               /\ (W[W[j].prev].child = j) # (W[W[j].prev].next = j)
  <2>1. CASE j = New
    <3>1. V[c].child # New /\ V[c].next # New
      <4>1. New # NULL /\ New \notin c + 1 .. cur_ndex_
        BY <1>1 DEF NULL
      <4> QED
        BY <1>1, <1>5, <4>1
    <3> QED
      BY <1>1, <1>2, <2>1, <3>1
  <2>2. CASE j # New
    <3> DEFINE p == V[j].prev
    <3>1. j \in 2 .. cur_ndex_ /\ j \in 1 .. cur_ndex_
      BY <1>1, <2>2
    <3>2. p \in 1 .. j - 1 /\ (V[p].child = j) # (V[p].next = j) /\ W[j].prev = p
      BY <1>5, <1>6, <3>1
    <3>3. p \in 1 .. n /\ p # New /\ j # NULL
      BY <1>1, <3>1, <3>2 DEF NULL
    <3> HIDE DEF p
    <3>4. CASE p # c
      BY <1>2, <3>2, <3>3, <3>4
    <3>5. CASE p = c
      <4>1. (W[c].child = j) <=> (V[c].child = j)
        BY <1>2, <1>4, <2>2, <3>3
      <4>2. (W[c].next = j) <=> (V[c].next = j)
        BY <1>2, <1>4, <2>2, <3>3
      <4> QED
        BY <3>2, <3>5, <4>1, <4>2
    <3> QED
      BY <3>4, <3>5
  <2> QED
    BY <2>1, <2>2
<1> QED
  BY <1>2, <1>7, <1>8 DEF LinksInverse, W, n

-----------------------------------------------------------------------------
(***************************************************************************)
(* Where the next node is linked, nothing is.                              *)
(***************************************************************************)
\* Where the steps start and where they lead.
LEMMA Moves ==
    ASSUME ReaderTypeOK
    PROVE  /\ Scalar \/ EmptyContainer => ctl.pc = "value" /\ ctl'.pc = "after"
           /\ ArrayOpens \/ ObjectOpens => ctl.pc = "value" /\ AtFirst'
           /\ ArrayContinues \/ ObjectContinues => ctl.pc = "after" /\ ctl'.pc # "value" /\ ~AtFirst'
           /\ ArrayElement \/ ObjectMember => ctl'.pc = "value" /\ Allocates(ctl)
           /\ ArrayReturns \/ ObjectReturns \/ MemberBreaksOff => ctl'.pc = "after"
<1>1. Scalar \/ EmptyContainer => ctl.pc = "value" /\ ctl'.pc = "after"
  BY DEF Scalar, EmptyContainer, ParseScalar, ParseEmpty, At
<1>2. ArrayElement \/ ObjectMember => ctl'.pc = "value" /\ Allocates(ctl)
  BY DEF ArrayElement, ObjectMember, Element, Member, At, Allocates
<1>3. ArrayReturns \/ ObjectReturns \/ MemberBreaksOff => ctl'.pc = "after"
  BY DEF ArrayReturns, ObjectReturns, MemberBreaksOff, ArrayReturn, ObjectReturn, MemberReturn,
         Return, At
<1>4. ctl.stack \in Seq(Call)
  BY DEF ReaderTypeOK, Control
<1>5. ASSUME ArrayOpens \/ ObjectOpens
      PROVE  ctl.pc = "value" /\ AtFirst'
  <2>1. ctl.pc = "value"
    BY <1>5 DEF ArrayOpens, ObjectOpens, BeginArray, BeginObject
  <2>2. PICK k \in {"array", "object"}, pc \in {"element", "member"} :
            ctl' = At(pc, ctl.pos + 1, Append(ctl.stack, [kind |-> k, index |-> 0]))
    BY <1>5 DEF ArrayOpens, ObjectOpens, BeginArray, BeginObject
  <2>3. ctl'.pc = pc /\ ctl'.stack = Append(ctl.stack, [kind |-> k, index |-> 0])
    BY <2>2 DEF At
  <2>4. ctl'.stack[Len(ctl'.stack)] = [kind |-> k, index |-> 0]
    BY <1>4, <2>3
  <2> QED
    BY <2>1, <2>3, <2>4 DEF AtFirst, Innermost
<1>6. ASSUME ArrayContinues \/ ObjectContinues
      PROVE  ctl.pc = "after" /\ ctl'.pc # "value" /\ ~AtFirst'
  <2>1. ctl.pc = "after" /\ ctl'.pc # "value" /\ ctl'.stack = NextIndex(ctl) /\ ctl.stack # <<>>
    BY <1>6 DEF ArrayContinues, ObjectContinues, ArrayNext, ObjectNext, At, InsideArray, InsideObject
  <2> DEFINE n == Len(ctl.stack)
  <2>2. n \in 1 .. n /\ ctl.stack[n] \in Call
    BY <1>4, <2>1
  <2>3. /\ Len(ctl'.stack) = n
        /\ ctl'.stack[n] = [ctl.stack[n] EXCEPT !.index = @ + 1]
    BY <1>4, <2>1, <2>2 DEF NextIndex
  <2>4. ctl'.stack[n].index = ctl.stack[n].index + 1 /\ ctl.stack[n].index \in Nat
    BY <2>2, <2>3 DEF Call
  <2> QED
    BY <2>1, <2>3, <2>4 DEF AtFirst, Innermost
<1> QED
  BY <1>1, <1>2, <1>3, <1>5, <1>6

\* The cursors that are left when the last one is taken back.
LEMMA Restored ==
    ASSUME ReaderTypeOK, RestoreCursor, Len(ctl'.stack) = Len(ctl.stack) - 1, ctl' \in Control
    PROVE  /\ Len(parents) > 0 /\ Len(parents') = Len(parents) - 1
           /\ Len(parents) \in 1 .. Len(parents)
           /\ \A i \in 1 .. Len(parents') : parents'[i] = parents[i] /\ i \in 1 .. Len(parents)
           /\ cur_value_' = parents[Len(parents)]
<1>1. parents \in Seq(Nat) /\ Len(parents) = Len(ctl.stack) /\ cur_value_ \in Nat
  BY DEF ReaderTypeOK
<1>2. Len(parents) > 0
  <2>1. ctl'.stack \in Seq(Call)
    BY DEF Control
  <2> QED
    BY <1>1, <2>1
<1>3. /\ parents' \in Seq(Nat) /\ Len(parents') = Len(parents) - 1
      /\ \A i \in 1 .. Len(parents') : parents'[i] = parents[i]
  BY <1>1, <1>2, ParentsOK DEF RestoreCursor
<1> QED
  BY <1>1, <1>2, <1>3 DEF RestoreCursor

\* Facts about the links, the cursors and where they are, for the steps below.
LEMMA Cursors ==
    ASSUME ReaderTypeOK, FreeSlots, pass # 1
    PROVE  /\ Len(values_) \in Nat /\ cur_ndex_ \in Nat /\ cur_ndex_ <= Len(values_)
           /\ cur_value_ \in 1 .. cur_ndex_ /\ cur_value_ \in 1 .. Len(values_)
           /\ Len(parents) \in Nat
           /\ \A i \in 1 .. Len(parents) : /\ parents[i] \in 1 .. cur_ndex_
                                           /\ parents[i] \in 1 .. Len(values_)
                                           /\ parents[i] <= cur_value_
                                           /\ ~AtFirst => parents[i] < cur_value_
           /\ Unlinked /\ Chain /\ NextFree /\ ChildFree
<1>1. /\ Len(values_) \in Nat /\ cur_ndex_ \in Nat /\ cur_ndex_ <= Len(values_)
      /\ cur_value_ \in 1 .. cur_ndex_ /\ Len(parents) \in Nat
      /\ \A i \in 1 .. Len(parents) : parents[i] \in 1 .. cur_ndex_
  BY DEF ReaderTypeOK
<1>2. Unlinked /\ Chain /\ NextFree /\ ChildFree
  BY DEF FreeSlots
<1>3. ASSUME NEW i \in 1 .. Len(parents)
      PROVE  parents[i] <= cur_value_ /\ (~AtFirst => parents[i] < cur_value_)
  <2> DEFINE l == Len(parents)
  <2>1. l \in 1 .. l /\ l > 0 /\ parents[i] \in Nat /\ parents[l] \in Nat /\ cur_value_ \in Nat
    BY <1>1
  <2>2. i # l => parents[i] < parents[l]
    BY <1>1, <1>2, <2>1 DEF Chain
  <2>3. IF AtFirst THEN cur_value_ = parents[l] ELSE parents[l] < cur_value_
    BY <1>2, <2>1 DEF Chain
  <2> HIDE DEF l
  <2> QED
    BY <2>1, <2>2, <2>3
<1> QED
  BY <1>1, <1>2, <1>3

LEMMA SameLinksSlots ==
    ASSUME ReaderTypeOK, FreeSlots, pass = 2, Parse, SameLinks,
           \/ Scalar \/ EmptyContainer
           \/ ArrayOpens \/ ObjectOpens \/ ArrayContinues \/ ObjectContinues
           \/ ArrayReturns \/ ObjectReturns \/ MemberBreaksOff
    PROVE  FreeSlots'
<1> DEFINE n == Len(parents)
<1>1. /\ Len(values_) \in Nat /\ cur_ndex_ \in Nat /\ cur_ndex_ <= Len(values_) /\ n \in Nat
      /\ cur_value_ \in 1 .. Len(values_)
      /\ \A i \in 1 .. n : /\ parents[i] \in 1 .. Len(values_)
                           /\ ~AtFirst => parents[i] < cur_value_
      /\ Unlinked /\ Chain /\ NextFree /\ ChildFree
  BY Cursors
<1>2. /\ Len(values_') = Len(values_) /\ cur_ndex_' = cur_ndex_
      /\ \A i \in 1 .. Len(values_) : /\ values_'[i].child = values_[i].child
                                      /\ values_'[i].next = values_[i].next
  BY DEF SameLinks
<1>3. Unlinked'
  <2>1. \A j \in cur_ndex_ + 1 .. Len(values_) : j \in 1 .. Len(values_)
    BY <1>1
  <2>2. \A j \in cur_ndex_ + 1 .. Len(values_) : values_'[j].child = NULL /\ values_'[j].next = NULL
    BY <1>1, <1>2, <2>1 DEF Unlinked
  <2> QED BY <1>2, <2>2 DEF Unlinked, NULL
<1>4. CASE Scalar \/ EmptyContainer \/ ArrayContinues \/ ObjectContinues
  <2>1. cur_value_' = cur_value_ /\ parents' = parents
    BY <1>4 DEF Scalar, EmptyContainer, ArrayContinues, ObjectContinues, data
  <2>2. ~AtFirst /\ ~AtFirst' /\ ctl'.pc # "value"
    BY <1>4, Moves DEF AtFirst
  <2>3. Chain' /\ ChildFree'
    BY <1>1, <2>1, <2>2 DEF Chain, ChildFree
  <2>4. NextFree'
    BY <1>1, <1>2, <2>1 DEF NextFree
  <2> QED
    BY <1>3, <2>3, <2>4 DEF FreeSlots
<1>5. CASE ArrayOpens \/ ObjectOpens
  <2>1. /\ cur_value_' = cur_value_ /\ parents' = Append(parents, cur_value_)
        /\ parents \in Seq(Nat)
    BY <1>5 DEF ArrayOpens, ObjectOpens, SaveCursor, ReaderTypeOK
  <2>2. ~AtFirst /\ AtFirst' /\ ctl.pc = "value"
    BY <1>5, Moves DEF AtFirst
  <2>3. /\ Len(parents') = n + 1 /\ parents'[n + 1] = cur_value_
        /\ \A i \in 1 .. n : parents'[i] = parents[i]
    BY <2>1
  <2>4. Chain'
    <3>1. ASSUME NEW i \in 1 .. n + 1, NEW k \in 1 .. n + 1, i < k
          PROVE  parents'[i] < parents'[k]
      <4>1. i \in 1 .. n
        BY <1>1, <3>1
      <4>2. CASE k = n + 1
        BY <1>1, <2>2, <2>3, <4>1, <4>2
      <4>3. CASE k # n + 1
        <5>1. k \in 1 .. n
          BY <1>1, <4>3
        <5> QED
          BY <1>1, <2>3, <3>1, <4>1, <5>1 DEF Chain
      <4> QED
        BY <4>2, <4>3
    <3> QED
      BY <2>1, <2>2, <2>3, <3>1 DEF Chain
  <2>5. ChildFree'
    BY <1>1, <1>2, <2>1, <2>2 DEF ChildFree
  <2>6. NextFree'
    <3>1. \A i \in 1 .. n + 1 : i \in 1 .. n \/ i = n + 1
      BY <1>1
    <3>2. values_'[cur_value_].next = NULL /\ \A i \in 1 .. n : values_'[parents[i]].next = NULL
      BY <1>1, <1>2 DEF NextFree
    <3>3. \A i \in 1 .. n + 1 : values_'[parents'[i]].next = NULL
      BY <2>3, <3>1, <3>2
    <3> QED
      BY <2>1, <2>3, <3>2, <3>3 DEF NextFree
  <2> QED
    BY <1>3, <2>4, <2>5, <2>6 DEF FreeSlots
<1>6. CASE ArrayReturns \/ ObjectReturns \/ MemberBreaksOff
  <2>1. RestoreCursor /\ ctl'.pc = "after"
    BY <1>6, Moves DEF ArrayReturns, ObjectReturns, MemberBreaksOff
  <2>2. Len(ctl'.stack) = Len(ctl.stack) - 1 /\ ctl' \in Control
    <3>1. CtlNext(ctl, ctl') /\ (ArrayReturn(ctl, ctl') \/ MemberReturn(ctl, ctl')
                                   \/ ObjectReturn(ctl, ctl'))
      BY <1>6 DEF ArrayReturns, ObjectReturns, MemberBreaksOff, CtlNext
    <3>2. ~BeginArray(ctl, ctl') /\ ~BeginObject(ctl, ctl')
      BY <3>1 DEF BeginArray, BeginObject, ArrayReturn, MemberReturn, ObjectReturn
    <3> QED
      BY <3>1, <3>2, CtlTyped DEF ReaderTypeOK
  <2>3. /\ n > 0 /\ Len(parents') = n - 1 /\ n \in 1 .. n
        /\ \A i \in 1 .. Len(parents') : parents'[i] = parents[i] /\ i \in 1 .. n
        /\ cur_value_' = parents[n]
    BY <2>1, <2>2, Restored
  <2>4. ~AtFirst' /\ ctl'.pc # "value"
    BY <2>1 DEF AtFirst
  <2>5. Chain'
    <3>1. Len(parents') > 0 => parents'[Len(parents')] < cur_value_'
      BY <1>1, <2>3 DEF Chain
    <3> QED
      BY <1>1, <2>3, <2>4, <3>1 DEF Chain
  <2>6. NextFree'
    <3>1. cur_value_' \in 1 .. Len(values_) /\ values_[cur_value_'].next = NULL
      BY <1>1, <2>3 DEF NextFree
    <3>2. \A i \in 1 .. Len(parents') :
             parents'[i] \in 1 .. Len(values_) /\ values_[parents'[i]].next = NULL
      BY <1>1, <2>3 DEF NextFree
    <3>3. values_'[cur_value_'].next = NULL
      BY <1>2, <3>1
    <3>4. \A i \in 1 .. Len(parents') : values_'[parents'[i]].next = NULL
      BY <1>2, <3>2
    <3> QED BY <3>3, <3>4 DEF NextFree, NULL
  <2>7. ChildFree'
    BY <2>4 DEF ChildFree
  <2> QED
    BY <1>3, <2>5, <2>6, <2>7 DEF FreeSlots
<1> QED
  BY <1>4, <1>5, <1>6

LEMMA NewLinkSlots ==
    ASSUME ReaderTypeOK, FreeSlots, pass = 2, Parse, LinksNew, Child = New,
           ArrayElement \/ ObjectMember \/ (MemberBreaksOff /\ Allocates(ctl))
    PROVE  FreeSlots'
<1> DEFINE n == Len(parents)
           c == cur_value_
<1>1. /\ Len(values_) \in Nat /\ cur_ndex_ \in Nat /\ cur_ndex_ <= Len(values_) /\ n \in Nat
      /\ c \in 1 .. cur_ndex_ /\ c \in 1 .. Len(values_)
      /\ \A i \in 1 .. n : /\ parents[i] \in 1 .. cur_ndex_
                           /\ parents[i] \in 1 .. Len(values_)
                           /\ ~AtFirst => parents[i] < c
      /\ Unlinked /\ Chain /\ NextFree /\ ChildFree
  BY Cursors
<1>2. /\ Len(values_') = Len(values_) /\ cur_ndex_' = New /\ New \in 1 .. Len(values_)
      /\ New = cur_ndex_ + 1 /\ New # c
      /\ \A i \in (1 .. Len(values_)) \ {c, New} : values_'[i] = values_[i]
      /\ values_'[New].child = values_[New].child /\ values_'[New].next = values_[New].next
      /\ Innermost(ctl).index = 0 => values_'[c].next = values_[c].next
  BY <1>1 DEF LinksNew, New
<1>3. Allocates(ctl) /\ (AtFirst <=> Innermost(ctl).index = 0)
  BY Moves DEF Allocates, AtFirst
<1>4. Unlinked'
  <2>1. \A j \in New + 1 .. Len(values_) : /\ j \in (1 .. Len(values_)) \ {c, New}
                                           /\ j \in cur_ndex_ + 1 .. Len(values_)
    BY <1>1, <1>2
  <2> QED
    BY <1>1, <1>2, <2>1 DEF Unlinked
<1>5. values_[New].child = NULL /\ values_[New].next = NULL
  BY <1>1, <1>2 DEF Unlinked
\* A saved cursor gets no next: it is the cursor only where child is written.
<1>6. \A i \in 1 .. n : values_'[parents[i]].next = NULL
  <2> TAKE i \in 1 .. n
  <2>1. parents[i] # New /\ values_[parents[i]].next = NULL /\ parents[i] \in 1 .. Len(values_)
    BY <1>1, <1>2 DEF NextFree
  <2>2. CASE parents[i] = c
    <3>1. AtFirst
      BY <1>1, <2>2
    <3> QED
      BY <1>2, <1>3, <2>1, <2>2, <3>1
  <2>3. CASE parents[i] # c
    BY <1>2, <2>1, <2>3
  <2> QED
    BY <2>2, <2>3
<1>7. CASE ArrayElement \/ ObjectMember
  <2>1. cur_value_' = New /\ parents' = parents /\ ctl'.pc = "value"
    BY <1>7, Moves DEF ArrayElement, ObjectMember
  <2>2. ~AtFirst'
    BY <2>1 DEF AtFirst
  <2>3. n > 0 => parents[n] < New
    <3>1. n > 0 => n \in 1 .. n
      BY <1>1
    <3> QED
      BY <1>1, <1>2, <3>1
  <2>4. Chain'
    BY <1>1, <2>1, <2>2, <2>3 DEF Chain
  <2>5. NextFree' /\ ChildFree'
    BY <1>2, <1>5, <1>6, <2>1 DEF NextFree, ChildFree
  <2> QED
    BY <1>4, <2>4, <2>5 DEF FreeSlots
<1>8. CASE MemberBreaksOff
  <2>1. RestoreCursor /\ ctl'.pc = "after"
    BY <1>8, Moves DEF MemberBreaksOff
  <2>2. Len(ctl'.stack) = Len(ctl.stack) - 1 /\ ctl' \in Control
    <3>1. CtlNext(ctl, ctl') /\ MemberReturn(ctl, ctl')
      BY <1>8 DEF MemberBreaksOff, CtlNext
    <3>2. ~BeginArray(ctl, ctl') /\ ~BeginObject(ctl, ctl')
      BY <3>1 DEF BeginArray, BeginObject, MemberReturn
    <3> QED
      BY <3>1, <3>2, CtlTyped DEF ReaderTypeOK
  <2>3. /\ n > 0 /\ Len(parents') = n - 1 /\ n \in 1 .. n
        /\ \A i \in 1 .. Len(parents') : parents'[i] = parents[i] /\ i \in 1 .. n
        /\ cur_value_' = parents[n]
    BY <2>1, <2>2, Restored
  <2>4. ~AtFirst' /\ ctl'.pc # "value"
    BY <2>1 DEF AtFirst
  <2>5. Chain'
    <3>1. Len(parents') > 0 => parents'[Len(parents')] < cur_value_'
      BY <1>1, <2>3 DEF Chain
    <3> QED
      BY <1>1, <2>3, <2>4, <3>1 DEF Chain
  <2>6. NextFree'
    BY <1>6, <2>3 DEF NextFree
  <2>7. ChildFree'
    BY <2>4 DEF ChildFree
  <2> QED
    BY <1>4, <2>5, <2>6, <2>7 DEF FreeSlots
<1> QED
  BY <1>7, <1>8

-----------------------------------------------------------------------------
LEMMA LinkStep ==
    ASSUME LInv, [ReaderNext]_readerVars
    PROVE  LInv'
<1>1. ReaderTypeOK /\ ReaderTypeOK' /\ LinksInverse /\ FreeSlots
  BY StepTyped DEF LInv
<1>2. CASE Parse
  <2>1. CASE pass = 1
    BY <1>1, <1>2, <2>1 DEF Parse, LInv, LinksInverse, FreeSlots
  <2>2. CASE pass = 2
    <3>1. CASE ArrayElement \/ ObjectMember \/ (MemberBreaksOff /\ Allocates(ctl))
      <4>1. PICK key \in Nat : getChildItem(key)
        BY <1>1, <3>1 DEF ArrayElement, ObjectMember, MemberBreaksOff, KeyAt, ReaderTypeOK, Control
      <4>2. LinksNew /\ Child = New
        BY <1>1, <2>2, <4>1, ChildIsLinked
      <4>3. Allocates(ctl)
        BY <1>1, <3>1, Moves
      <4> QED
        BY <1>1, <1>2, <2>2, <3>1, <4>2, <4>3, NewInTree, NewLinkSlots DEF LInv
    <3>2. CASE \/ Scalar \/ EmptyContainer
               \/ ArrayOpens \/ ObjectOpens \/ ArrayContinues \/ ObjectContinues
               \/ ArrayReturns \/ ObjectReturns \/ (MemberBreaksOff /\ ~Allocates(ctl))
      <4>1. /\ UNCHANGED cur_ndex_
            /\ UNCHANGED values_ \/ (\E type : setItemType(type)) \/ (\E t : setItemValue(t))
        BY <3>2 DEF Scalar, EmptyContainer, ArrayOpens, ObjectOpens, ArrayContinues,
                    ObjectContinues, ArrayReturns, ObjectReturns, MemberBreaksOff, data
      <4>2. SameLinks
        BY <1>1, <2>2, <4>1, SettingKeepsLinks
      <4> QED
        BY <1>1, <1>2, <2>2, <3>2, <4>2, SameTree, SameLinksSlots DEF LInv
    <3> QED
      BY <1>2, <3>1, <3>2 DEF Parse
  <2> QED
    BY <1>2, <2>1, <2>2 DEF Parse
\* Resize makes an array of blank nodes; the root is the only one in use.
<1>3. CASE Resize
  <2>1. /\ capacity_ \in Nat \ {0} /\ values_' = [i \in 1 .. capacity_ |-> Blank]
        /\ cur_ndex_' = 1 /\ cur_value_' = 1 /\ parents' = parents /\ Len(parents) = 0
        /\ ctl' = StartOfText
    BY <1>1, <1>3 DEF Resize, ReaderTypeOK, Halted
  <2>2. /\ Len(values_') = capacity_
        /\ \A i \in 1 .. capacity_ : values_'[i].child = NULL /\ values_'[i].next = NULL
    BY <2>1 DEF Blank
  <2>3. LinksInverse'
    BY <2>1, <2>2 DEF LinksInverse
  <2>4. FreeSlots'
    <3>1. 1 \in 1 .. capacity_ /\ \A j \in 2 .. capacity_ : j \in 1 .. capacity_
      BY <2>1
    <3>2. Unlinked' /\ NextFree' /\ ChildFree'
      BY <2>1, <2>2, <3>1 DEF Unlinked, NextFree, ChildFree
    <3>3. Chain'
      BY <2>1 DEF Chain
    <3> QED
      BY <3>2, <3>3 DEF FreeSlots
  <2> QED
    BY <1>1, <2>3, <2>4 DEF LInv
<1>4. CASE ParseReturns
  <2>1. pass # 1 /\ UNCHANGED <<ctl, cur_ndex_, values_, cur_value_, parents>>
    BY <1>4 DEF ParseReturns, data
  <2> QED
    BY <1>1, <2>1 DEF LInv, LinksInverse, FreeSlots, Unlinked, Chain, NextFree, ChildFree, AtFirst,
                      Innermost
<1>5. CASE UNCHANGED readerVars
  <2>1. UNCHANGED <<pass, ctl, cur_ndex_, values_, cur_value_, parents>>
    BY <1>5 DEF readerVars, data
  <2> QED
    BY <1>1, <2>1 DEF LInv, LinksInverse, FreeSlots, Unlinked, Chain, NextFree, ChildFree, AtFirst,
                      Innermost
<1> QED
  BY <1>2, <1>3, <1>4, <1>5 DEF ReaderNext

\* For every text the nodes handed out are one tree: child, next and prev agree,
\* no link is written over and no node is left without one.
THEOREM OneTree == ReaderSpec => []LinksInverse
<1>1. ReaderInit => LInv
  <2>1. ReaderInit => pass = 1
    BY DEF ReaderInit
  <2> QED
    BY <2>1, InitTyped DEF LInv, LinksInverse, FreeSlots
<1>2. LInv /\ [ReaderNext]_readerVars => LInv'
  BY LinkStep
<1>3. LInv => LinksInverse
  BY DEF LInv
<1> QED
  BY <1>1, <1>2, <1>3, PTL DEF ReaderSpec

=============================================================================
