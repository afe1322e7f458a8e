-------------------------- MODULE XMLReaderProofs --------------------------
(***************************************************************************)
(* For every text: if xml::Reader counts it without an error, it fills the *)
(* tree within the nodes it counted, and a tree it returns has them all    *)
(* and is linked both ways.                                                *)
(*                                                                         *)
(* The argument: CtlNext is deterministic and does not read what the       *)
(* second pass writes.  `trace' is the chain of the first pass; the second *)
(* walks along it, at index `step', until it meets a closing tag of        *)
(* another name.  From there it only leaves the contents it is in: the     *)
(* first pass found a > there, and a node begins with <.                   *)
(***************************************************************************)
EXTENDS XMLReader, SequenceTheorems, WellFoundedInduction, TLAPS

Entry == [ctl : Control, n : Nat]

\* Entry u of the trace follows entry t.
Follows(t, u) == /\ CtlNext(t.ctl, u.ctl)
                 /\ u.n = (IF BeginsNode(t.ctl) THEN t.n + 1 ELSE t.n)

Last == trace[Len(trace)]
InText(c) == c.pos \in 1 .. Len(src) + 1

TraceOK ==
    /\ trace \in Seq(Entry)
    /\ Len(trace) > 0
    /\ trace[1] = [ctl |-> StartOfText, n |-> 1]
    /\ \A i \in 1 .. Len(trace) - 1 : Follows(trace[i], trace[i + 1])
    /\ \A i \in 1 .. Len(trace) : trace[i].n <= Last.n /\ (trace[i].ctl.err => Last.ctl.err)

AtTheEnd == pass = 1 => ctl = Last.ctl /\ capacity_ = Last.n

Counted == pass # 1 => /\ Halted(Last.ctl)
                       /\ capacity_ = Last.n
                       /\ (error1 <=> Last.ctl.err \/ Here(Last.ctl) # "nul")
                       /\ (error1 => ctl.err)

InSync == /\ step \in 1 .. Len(trace)
          /\ ctl = trace[step].ctl
          /\ cur_ndex_ = trace[step].n

Unwinds == ctl.err /\ ~ctl.outside /\ Here(ctl) = "gt"

Retraces == pass = 2 /\ ~error1 => InSync \/ Unwinds
Returned == pass = 3 /\ ~ctl.err => cur_ndex_ = capacity_

-----------------------------------------------------------------------------
(***************************************************************************)
(* Reading.                                                                *)
(***************************************************************************)
\* A set of natural numbers that is not empty has a least one.
LEMMA Least ==
    ASSUME NEW S \in SUBSET Nat, S # {}
    PROVE  \E m \in S : \A k \in S : m <= k
<1> DEFINE R == OpToRel(<, Nat)
<1>1. IsWellFoundedOn(R, Nat)
  BY NatLessThanWellFounded
<1>2. \A x, y \in Nat : x < y => <<x, y>> \in R
  BY DEF OpToRel
<1> HIDE DEF R
<1>3. PICK m \in S : \A k \in S : <<k, m>> \notin R
  BY <1>1, WFMin
<1>4. \A k \in S : ~(k < m)
  BY <1>2, <1>3
<1> QED
  BY <1>4

LEMMA CharAtOK ==
    ASSUME src \in Seq(Char)
    PROVE  /\ "nul" \notin Char /\ Len(src) \in Nat
           /\ CharAt(Len(src) + 1) = "nul"
           /\ \A p \in 1 .. Len(src) + 1 : CharAt(p) # "nul" => p \in 1 .. Len(src)
BY DEF CharAt, Char

\* skip<f> stops in the text or at its end.
LEMMA SkipOK ==
    ASSUME src \in Seq(Char), NEW p \in 1 .. Len(src) + 1, NEW chars \in SUBSET Char
    PROVE  /\ Skip(p, chars) \in p .. Len(src) + 1 /\ Skip(p, chars) \in 1 .. Len(src) + 1
           /\ CharAt(Skip(p, chars)) \notin chars
<1> DEFINE S == {q \in p .. Len(src) + 1 : CharAt(q) \notin chars}
<1>1. S \in SUBSET Nat /\ Len(src) + 1 \in S
  BY CharAtOK
<1>2. PICK m \in S : \A k \in S : m <= k
  BY <1>1, Least
<1>3. \A i \in p .. m - 1 : CharAt(i) \in chars
  BY <1>1, <1>2, CharAtOK
<1>4. \E q \in p .. Len(src) + 1 : CharAt(q) \notin chars /\ \A i \in p .. q - 1 : CharAt(i) \in chars
  BY <1>2, <1>3
<1>5. /\ Skip(p, chars) \in p .. Len(src) + 1
      /\ CharAt(Skip(p, chars)) \notin chars
  BY <1>4 DEF Skip
<1> QED
  BY <1>5, CharAtOK

\* What closes a node is in the text, and so is the place behind it.
LEMMA MarkupEndOK ==
    ASSUME src \in Seq(Char), NEW p \in 1 .. Len(src) + 1, IsClosed(p)
    PROVE  MarkupEnd(p) \in p + 1 .. Len(src) + 1
<1> DEFINE S == {q \in p .. Len(src) : Closes(p, q)}
           closer == Closer(KindAt(p))
<1>1. S \in SUBSET Nat /\ S # {}
  BY CharAtOK DEF IsClosed
<1>2. PICK m \in S : \A k \in S : m <= k
  BY <1>1, Least
<1>3. \A i \in p .. m - 1 : ~Closes(p, i)
  BY <1>1, <1>2, CharAtOK
<1>4. CloserAt(p) \in p .. Len(src) /\ Closes(p, CloserAt(p))
  BY <1>2, <1>3 DEF CloserAt
<1>5. closer \in {<<"quest", "gt">>, <<"dash", "dash", "gt">>, <<"rbr", "rbr", "gt">>, <<"gt">>}
  BY DEF Closer
<1>6. \A i \in 1 .. Len(closer) : CharAt(CloserAt(p) + i - 1) = closer[i]
  BY <1>4 DEF Closes, Begins
<1>7. MarkupEnd(p) = CloserAt(p) + Len(closer)
  BY DEF MarkupEnd
<1> HIDE DEF closer
<1>8. PICK n \in {1, 2, 3} : n = Len(closer) /\ closer[n] = "gt"
  BY <1>5
<1>9. CharAt(CloserAt(p) + n - 1) = "gt"
  BY <1>6, <1>8
<1>10. CloserAt(p) + n - 1 <= Len(src)
  BY <1>4, <1>8, <1>9, CharAtOK DEF CharAt
<1> QED
  BY <1>4, <1>7, <1>8, <1>10, CharAtOK

LEMMA FirstBadRefOK ==
    ASSUME src \in Seq(Char), NEW p \in 1 .. Len(src) + 1, HasBadRef(p)
    PROVE  FirstBadRef(p) \in 1 .. Len(src)
<1> DEFINE S == {q \in p .. Len(src) : BadRef(p, q)}
<1>1. S \in SUBSET Nat /\ S # {}
  BY CharAtOK DEF HasBadRef
<1>2. PICK m \in S : \A k \in S : m <= k
  BY <1>1, Least
<1>3. \A i \in p .. m - 1 : ~BadRef(p, i)
  BY <1>1, <1>2, CharAtOK
<1>4. FirstBadRef(p) \in p .. Len(src)
  BY <1>2, <1>3 DEF FirstBadRef
<1> QED
  BY <1>4, CharAtOK

-----------------------------------------------------------------------------
(***************************************************************************)
(* Control.                                                                *)
(***************************************************************************)
\* The guards of the steps: where a node begins, where an element closes, at
\* text, at the end of the text in contents, and, with an error, anywhere in
\* contents.
LEMMA StepsApart ==
    ASSUME NEW c, NEW d, CtlNext(c, d)
    PROVE  /\ ~c.outside
           /\ BeginsNode(c) <=> \/ OpenElement(c, d) \/ EmptyElement(c, d) \/ BadElement(c, d)
                                \/ Markup(c, d) \/ CutMarkup(c, d)
           /\ ClosesElement(c) <=> Close(c, d)
           /\ IsText(c) <=> ReadText(c, d) \/ BadText(c, d)
           /\ c.depth > 0 /\ c.err <=> Abandon(c, d)
           /\ InContents(c) /\ Here(c) = "nul" <=> EndInContents(c, d)
BY DEF CtlNext, OpenElement, EmptyElement, BadElement, Markup, CutMarkup, Close, ReadText, BadText,
       Abandon, EndInContents, BeginsElement, BeginsNode, ClosesElement, IsText, InContents, Reads

\* A control state has one successor.
LEMMA Deterministic ==
    ASSUME NEW c, NEW d, NEW e, CtlNext(c, d), CtlNext(c, e)
    PROVE  d = e
<1>1. CASE BeginsNode(c) /\ KindAt(Start(c)) = NODE_ELEMENT
  <2>1. /\ OpenElement(c, d) \/ EmptyElement(c, d) \/ BadElement(c, d)
        /\ OpenElement(c, e) \/ EmptyElement(c, e) \/ BadElement(c, e)
    BY <1>1, StepsApart DEF Markup, CutMarkup
  <2> QED
    BY <2>1 DEF OpenElement, EmptyElement, BadElement, IsBad
<1>2. CASE BeginsNode(c) /\ KindAt(Start(c)) # NODE_ELEMENT
  <2>1. /\ Markup(c, d) \/ CutMarkup(c, d)
        /\ Markup(c, e) \/ CutMarkup(c, e)
    BY <1>2, StepsApart DEF OpenElement, EmptyElement, BadElement, BeginsElement
  <2> QED
    BY <2>1 DEF Markup, CutMarkup
<1>3. CASE ClosesElement(c)
  BY <1>3, StepsApart DEF Close
<1>4. CASE IsText(c)
  BY <1>4, StepsApart DEF ReadText, BadText
<1>5. CASE c.depth > 0 /\ c.err
  BY <1>5, StepsApart DEF Abandon
<1>6. CASE InContents(c) /\ Here(c) = "nul"
  BY <1>6, StepsApart DEF EndInContents
<1> QED
  BY <1>1, <1>2, <1>3, <1>4, <1>5, <1>6, StepsApart DEF CtlNext

\* The loop of parse that has ended makes no step.
LEMMA HaltedIsFinal ==
    ASSUME NEW c \in Control, NEW d, Halted(c)
    PROVE  ~CtlNext(c, d) /\ ~BeginsNode(c)
<1>1. c.depth = 0 /\ ~(c.depth > 0) /\ Here(c) # "lt"
  BY DEF Halted
<1> QED
  BY <1>1, StepsApart DEF CtlNext, BeginsNode, ClosesElement, IsText, InContents

\* Where the text is the same, so is all that is read of it.
LEMMA SameReading ==
    ASSUME src' = src
    PROVE  /\ \A p : CharAt(p)' = CharAt(p) /\ KindAt(p)' = KindAt(p) /\ IsClosed(p)' = IsClosed(p)
           /\ \A p : MarkupEnd(p)' = MarkupEnd(p) /\ NameEnd(p)' = NameEnd(p)
           /\ \A p : TagTail(p)' = TagTail(p) /\ TextEnd(p)' = TextEnd(p)
           /\ \A p : HasBadRef(p)' = HasBadRef(p) /\ FirstBadRef(p)' = FirstBadRef(p)
           /\ \A p, chars : Skip(p, chars)' = Skip(p, chars)
<1>1. \A p, chars : CharAt(p)' = CharAt(p) /\ Skip(p, chars)' = Skip(p, chars)
  BY DEF CharAt, Skip
<1>2. \A p : KindAt(p)' = KindAt(p)
  BY DEF KindAt, Begins, CharAt
<1>3. \A p : IsClosed(p)' = IsClosed(p)
  BY DEF IsClosed, Closes, Begins, Brackets, KindAt, CharAt
<1>4. \A p : MarkupEnd(p)' = MarkupEnd(p)
  BY DEF MarkupEnd, CloserAt, Closes, Begins, Brackets, KindAt, CharAt
<1>5. \A p : NameEnd(p)' = NameEnd(p) /\ TagTail(p)' = TagTail(p) /\ TextEnd(p)' = TextEnd(p)
  BY DEF NameEnd, TagTail, TextEnd, Skip, CharAt
<1>6. \A p : HasBadRef(p)' = HasBadRef(p) /\ FirstBadRef(p)' = FirstBadRef(p)
  BY DEF HasBadRef, FirstBadRef, BadRef, TextEnd, Skip, CharAt
<1> QED
  BY <1>1, <1>2, <1>3, <1>4, <1>5, <1>6

LEMMA SameText ==
    ASSUME src' = src
    PROVE  /\ \A c : Here(c)' = Here(c) /\ (Halted(c)' <=> Halted(c))
           /\ \A c : (InText(c)' <=> InText(c)) /\ (BeginsNode(c)' <=> BeginsNode(c))
           /\ \A t, u : Follows(t, u)' <=> Follows(t, u)
           /\ StartOfText' = StartOfText
<1>1. \A c : Ahead(c)' = Ahead(c) /\ Here(c)' = Here(c)
  BY SameReading DEF Ahead, Here
<1>2. \A c : (ClosesElement(c)' <=> ClosesElement(c)) /\ (InText(c)' <=> InText(c))
  BY <1>1, SameReading DEF ClosesElement, InContents, Reads, InText
<1>3. \A c : (BeginsNode(c)' <=> BeginsNode(c)) /\ (Halted(c)' <=> Halted(c))
  BY <1>1, <1>2 DEF BeginsNode, Reads, Halted
<1>4. \A c : /\ Start(c)' = Start(c) /\ (BeginsElement(c)' <=> BeginsElement(c))
             /\ (HasName(c)' <=> HasName(c)) /\ \A k : TailAt(c, k)' = TailAt(c, k)
  BY <1>1, <1>3, SameReading DEF Start, BeginsElement, HasName, TailAt
<1>5. \A c, d : /\ OpenElement(c, d)' <=> OpenElement(c, d)
                /\ EmptyElement(c, d)' <=> EmptyElement(c, d)
                /\ BadElement(c, d)' <=> BadElement(c, d)
  <2>1. \A c, d : OpenElement(c, d)' <=> OpenElement(c, d)
    BY <1>4, SameReading DEF OpenElement, To
  <2>2. \A c, d : EmptyElement(c, d)' <=> EmptyElement(c, d)
    BY <1>4, SameReading DEF EmptyElement, To
  <2>3. \A c, d : BadElement(c, d)' <=> BadElement(c, d)
    BY <1>4, SameReading DEF BadElement, IsBad, ToError
  <2> QED BY <2>1, <2>2, <2>3
<1>6. \A c, d : (Markup(c, d)' <=> Markup(c, d)) /\ (CutMarkup(c, d)' <=> CutMarkup(c, d))
  BY <1>3, <1>4, SameReading DEF Markup, CutMarkup, To, ToError
<1>7. \A c, d : /\ Abandon(c, d)' <=> Abandon(c, d)
                /\ EndInContents(c, d)' <=> EndInContents(c, d)
  BY <1>1 DEF Abandon, EndInContents, InContents, Reads, Leave, LeaveWithError
<1>8. \A c, d : Close(c, d)' <=> Close(c, d)
  <2>1. \A c : AfterName(c)' = AfterName(c)
    BY <1>1, SameReading DEF AfterName, ClosingName
  <2>2. \A c : CharAt(AfterName(c))' = CharAt(AfterName(c))
    BY <2>1, SameReading
  <2> QED
    BY <1>2, <2>1, <2>2 DEF Close, Leave, LeaveWithError
<1>9. \A c, d : (ReadText(c, d)' <=> ReadText(c, d)) /\ (BadText(c, d)' <=> BadText(c, d))
  BY <1>1, SameReading DEF ReadText, BadText, IsText, InContents, Reads, To, ToError
<1>10. \A t, u : Follows(t, u)' <=> Follows(t, u)
  BY <1>3, <1>5, <1>6, <1>7, <1>8, <1>9 DEF Follows, CtlNext
<1>11. StartOfText' = StartOfText
  BY DEF StartOfText, Skip, CharAt
<1> QED
  BY <1>1, <1>2, <1>3, <1>10, <1>11

\* Where the step of the descent leaves the text and the depth.
Deeper(c, d) == IF OpenElement(c, d) THEN c.depth + 1
                ELSE IF BeginsNode(c) \/ IsText(c) THEN c.depth ELSE c.depth - 1

\* A step leads from a place of the text to one, and keeps an error.
LEMMA CtlTyped ==
    ASSUME src \in Seq(Char), NEW c \in Control, NEW d, InText(c),
           CtlNext(c, d) \/ CloseOther(c, d)
    PROVE  /\ d \in Control /\ InText(d) /\ d.depth = Deeper(c, d)
           /\ c.err => d.err
           /\ ~BeginsNode(c) /\ ~IsText(c) => c.depth > 0
<1> DEFINE Place == 1 .. Len(src) + 1
<1>1. Len(src) \in Nat /\ c.pos \in Place /\ c.depth \in Nat
  BY CharAtOK DEF InText, Control
<1>2. /\ \A p \in Place : p \in Nat \ {0}
      /\ \A p \in Place : CharAt(p) # "nul" => p + 1 \in Place
      /\ \A p \in Place, chars \in SUBSET Char : Skip(p, chars) \in Place
  BY <1>1, CharAtOK, SkipOK
<1>3. /\ Spaces \in SUBSET Char /\ NameChar \in SUBSET Char /\ AttributeChar \in SUBSET Char
      /\ Char \ {"lt"} \in SUBSET Char
  BY DEF Spaces, NameChar, AttributeChar, Char
<1>4. Ahead(c) \in Place
  BY <1>1, <1>2, <1>3 DEF Ahead
<1>5. \A p \in Place : NameEnd(p) \in Place /\ TagTail(p) \in Place /\ TextEnd(p) \in Place
  BY <1>2, <1>3 DEF NameEnd, TagTail, TextEnd
<1> HIDE DEF Place
<1>6. ASSUME NEW p \in Place
      PROVE  /\ To(c, p) \in Control /\ To(c, p).pos = p /\ To(c, p).depth = c.depth
             /\ To(c, p).err = c.err
             /\ ToError(c, p) \in Control /\ ToError(c, p).pos = p
             /\ ToError(c, p).depth = c.depth /\ ToError(c, p).err
  BY <1>2 DEF To, ToError, Control
<1>7. ASSUME NEW p \in Place, c.depth > 0
      PROVE  /\ Leave(c, p) \in Control /\ Leave(c, p).pos = p
             /\ Leave(c, p).depth = c.depth - 1 /\ Leave(c, p).err = c.err
             /\ LeaveWithError(c, p) \in Control /\ LeaveWithError(c, p).pos = p
             /\ LeaveWithError(c, p).depth = c.depth - 1 /\ LeaveWithError(c, p).err
  <2>1. p \in Nat \ {0} /\ c.depth - 1 \in Nat
    BY <1>1, <1>2, <1>7
  <2>2. Leave(c, p) \in Control
    BY <2>1 DEF Leave, Control
  <2>3. LeaveWithError(c, p) \in Control
    BY <2>1 DEF LeaveWithError, Control
  <2>4. Leave(c, p).pos = p /\ Leave(c, p).depth = c.depth - 1 /\ Leave(c, p).err = c.err
    BY DEF Leave, Control
  <2>5. /\ LeaveWithError(c, p).pos = p /\ LeaveWithError(c, p).depth = c.depth - 1
        /\ LeaveWithError(c, p).err
    BY DEF LeaveWithError, Control
  <2> QED
    BY <2>2, <2>3, <2>4, <2>5
<1>8. CASE BeginsNode(c) /\ CtlNext(c, d)
  <2>1. Start(c) \in Place
    BY <1>2, <1>4, <1>8 DEF BeginsNode, Here, Start
  <2>2. TagTail(Start(c)) \in Place
    BY <1>5, <2>1
  <2>3. CASE OpenElement(c, d)
    <3>1. TagTail(Start(c)) + 1 \in Place
      BY <1>2, <2>2, <2>3 DEF OpenElement, TailAt
    <3>2. d = [pos |-> TagTail(Start(c)) + 1, depth |-> c.depth + 1, err |-> c.err, outside |-> c.outside]
      BY <2>3 DEF OpenElement, Control
    <3>3. c.err \in BOOLEAN /\ c.outside \in BOOLEAN /\ c.depth + 1 \in Nat
      BY <1>1 DEF Control
    <3>4. d \in Control
      BY <1>2, <3>1, <3>2, <3>3 DEF Control
    <3>5. d.pos = TagTail(Start(c)) + 1 /\ d.depth = c.depth + 1 /\ d.err = c.err
      BY <3>2
    <3> QED
      BY <1>8, <2>3, <3>1, <3>4, <3>5 DEF InText, Place, Deeper
  <2>4. CASE ~OpenElement(c, d)
    <3>1. PICK p \in Place : d \in {To(c, p), ToError(c, p), [ToError(c, p) EXCEPT !.outside = TRUE],
                                    [ToError(c, p) EXCEPT !.outside = FALSE]}
      <4>1. CASE EmptyElement(c, d)
        <5>1. TagTail(Start(c)) + 1 \in Place
          BY <1>2, <2>2, <4>1 DEF EmptyElement, TailAt
        <5>2. TagTail(Start(c)) + 1 + 1 \in Place
          BY <1>2, <4>1, <5>1 DEF EmptyElement, TailAt
        <5> QED
          BY <1>1, <2>2, <4>1, <5>2 DEF EmptyElement, Place
      <4>2. CASE BadElement(c, d)
        <5>1. TailAt(c, 0) = "slash" => TagTail(Start(c)) + 1 \in Place
          BY <1>2, <2>2 DEF TailAt
        <5> QED
          BY <2>1, <2>2, <4>2, <5>1 DEF BadElement
      <4>3. CASE Markup(c, d)
        <5>1. MarkupEnd(Start(c)) \in Place
          BY <1>1, <2>1, <4>3, MarkupEndOK DEF Markup, Place
        <5> QED
          BY <4>3, <5>1 DEF Markup
      <4>4. CASE CutMarkup(c, d)
        <5>1. Len(src) + 1 \in Place
          BY <1>1 DEF Place
        <5>2. CASE KindAt(Start(c)) = UNRECOGNIZED
          <6>1. d = [ToError(c, Len(src) + 1) EXCEPT !.outside = TRUE]
            BY <4>4, <5>2 DEF CutMarkup
          <6> QED
            BY <5>1, <6>1
        <5>3. CASE KindAt(Start(c)) # UNRECOGNIZED
          <6>1. d = [ToError(c, Len(src) + 1) EXCEPT !.outside = FALSE]
            BY <4>4, <5>3 DEF CutMarkup
          <6> QED
            BY <5>1, <6>1
        <5> QED
          BY <5>2, <5>3
      <4> QED
        BY <1>8, <2>4, <4>1, <4>2, <4>3, <4>4, StepsApart
    <3>2. [ToError(c, p) EXCEPT !.outside = TRUE] \in Control
          /\ [ToError(c, p) EXCEPT !.outside = FALSE] \in Control
      BY <1>6 DEF Control
    <3>3. d \in Control /\ d.pos = p /\ d.depth = c.depth /\ (c.err => d.err)
      BY <1>6, <3>1, <3>2 DEF Control
    <3> QED
      BY <1>8, <2>4, <3>3 DEF Deeper, InText, Place
  <2> QED
    BY <2>3, <2>4
<1>9. CASE IsText(c) /\ CtlNext(c, d)
  <2>1. ~BeginsNode(c) /\ ~OpenElement(c, d)
    BY <1>9 DEF IsText, BeginsNode, OpenElement, BeginsElement
  <2>2. HasBadRef(Ahead(c)) => FirstBadRef(Ahead(c)) \in 1 .. Len(src)
    BY <1>4, FirstBadRefOK DEF Place
  <2>3. HasBadRef(Ahead(c)) => FirstBadRef(Ahead(c)) + 1 \in Place
    BY <1>1, <2>2 DEF Place
  <2>4. PICK p \in Place : d \in {To(c, p), ToError(c, p)}
    BY <1>4, <1>5, <1>9, <2>3, StepsApart DEF ReadText, BadText
  <2> QED
    BY <1>6, <1>9, <2>1, <2>4 DEF Deeper, InText, Place
<1>10. CASE (~BeginsNode(c) /\ ~IsText(c)) \/ CloseOther(c, d)
  <2>1. \/ Abandon(c, d) \/ EndInContents(c, d) \/ Close(c, d) \/ CloseOther(c, d)
    BY <1>10, StepsApart DEF CtlNext
  <2>2. ~BeginsNode(c) /\ ~IsText(c) /\ ~OpenElement(c, d) /\ c.depth > 0
    BY <1>10, <2>1 DEF OpenElement, BeginsElement, CloseOther, ClosesElement, InContents, Abandon,
                       BeginsNode, IsText, EndInContents, Close
  <2>3. ClosesElement(c) => ClosingName(c) \in Place
    <3>1. ClosesElement(c) => Ahead(c) + 1 \in Place
      BY <1>2, <1>4 DEF ClosesElement, Here
    <3>2. ClosesElement(c) => Ahead(c) + 1 + 1 \in Place
      BY <1>2, <3>1 DEF ClosesElement
    <3> QED
      BY <1>4, <3>2 DEF ClosingName, Place
  <2>4. ClosesElement(c) => NameEnd(ClosingName(c)) \in Place /\ AfterName(c) \in Place
    BY <1>2, <1>3, <1>5, <2>3 DEF AfterName
  <2>5. ClosesElement(c) /\ CharAt(AfterName(c)) = "gt" => AfterName(c) + 1 \in Place
    BY <1>2, <2>4
  <2>6. PICK p \in Place : d \in {Leave(c, p), LeaveWithError(c, p)}
    BY <1>1, <1>4, <2>1, <2>4, <2>5 DEF Abandon, EndInContents, Close, CloseOther
  <2> QED
    BY <1>7, <2>2, <2>6 DEF Deeper, InText, Place
<1> QED
  BY <1>8, <1>9, <1>10

-----------------------------------------------------------------------------
(***************************************************************************)
(* The node array.                                                         *)
(***************************************************************************)
\* The links of the first n nodes of v, those that are handed out.
Forward(v, n) == \A i \in 1 .. Len(v) : \A j \in {v[i].child, v[i].next} \ {NULL} :
                    j \in i + 1 .. n /\ v[j].prev = i
Backward(v, n) == \A j \in 2 .. n : LET p == v[j].prev IN
                     p \in 1 .. j - 1 /\ (v[p].child = j) # (v[p].next = j)

LEMMA LinksAre == LinksInverse <=> (pass # 1 => Forward(values_, cur_ndex_) /\ Backward(values_, cur_ndex_))
BY Zenon DEF LinksInverse, Forward, Backward

\* Siblings stand behind each other, so that the way to the last one ends.
LEMMA LastFromExists ==
    ASSUME values_ \in Seq(Node), NEW n \in Nat, n <= Len(values_), Forward(values_, n)
    PROVE  LastFrom = [i \in 1 .. Len(values_) |->
                          IF values_[i].next = NULL THEN i ELSE LastFrom[values_[i].next]]
<1> DEFINE N == Len(values_)
           Next_(i) == values_[i].next
           IsLastFrom(f, m) == f = [i \in N - m + 1 .. N |-> IF Next_(i) = NULL THEN i ELSE f[Next_(i)]]
           S == {m \in 0 .. N : ~\E f : IsLastFrom(f, m)}
<1>1. N \in Nat /\ \A i \in 1 .. N : Next_(i) # NULL => Next_(i) \in i + 1 .. N
  <2>1. \A i \in 1 .. N : Next_(i) # NULL => Next_(i) \in i + 1 .. n
    BY DEF Forward
  <2>2. N \in Nat /\ \A i \in 1 .. N : i + 1 .. n \subseteq i + 1 .. N
    OBVIOUS
  <2> QED
    BY <2>1, <2>2
<1>2. N \notin S
  <2>1. SUFFICES ASSUME N \in S PROVE FALSE
    OBVIOUS
  <2>2. S \in SUBSET Nat
    OBVIOUS
  <2>3. PICK m \in S : \A k \in S : m <= k
    BY <2>1, <2>2, Least
  <2>4. m # 0
    <3>1. SUFFICES ASSUME m = 0 PROVE FALSE
      OBVIOUS
    <3>2. N - m + 1 .. N = {}
      BY <1>1, <3>1
    <3>3. IsLastFrom([i \in {} |-> 0], m)
      BY <3>2
    <3> QED
      BY <2>3, <3>3
  <2>5. m - 1 \in 0 .. N /\ m - 1 \notin S
    <3>1. m \in 0 .. N
      OBVIOUS
    <3> HIDE DEF S, N
    <3>2. m - 1 \in 0 .. N /\ ~(m <= m - 1)
      BY <1>1, <2>4, <3>1
    <3> QED
      BY <2>3, <3>2
  <2>6. PICK g : IsLastFrom(g, m - 1)
    BY <2>5
  <2> DEFINE k == N - m + 1
             f == [i \in k .. N |-> IF i # k THEN g[i] ELSE IF Next_(k) = NULL THEN k ELSE g[Next_(k)]]
  <2>7. k \in 1 .. N /\ N - (m - 1) + 1 = k + 1
    BY <1>1, <2>3, <2>4
  <2> HIDE DEF k, Next_
  <2>8. \A i \in k + 1 .. N : g[i] = IF Next_(i) = NULL THEN i ELSE g[Next_(i)]
    BY <2>6, <2>7
  <2>9. \A i \in k .. N : Next_(i) # NULL => Next_(i) \in k + 1 .. N /\ Next_(i) \in k .. N
    BY <1>1, <2>7
  <2>10. \A i \in k + 1 .. N : f[i] = g[i] /\ i \in k .. N
    BY <1>1, <2>7
  <2>11. \A i \in k .. N : f[i] = IF Next_(i) = NULL THEN i ELSE f[Next_(i)]
    <3> TAKE i \in k .. N
    <3>1. Next_(i) # NULL => f[Next_(i)] = g[Next_(i)]
      BY <2>9, <2>10
    <3>2. CASE i = k
      BY <3>1, <3>2
    <3>3. CASE i # k
      <4>1. i \in k + 1 .. N
        BY <1>1, <2>7, <3>3
      <4> QED
        BY <2>8, <2>10, <3>1, <4>1
    <3> QED
      BY <3>2, <3>3
  <2>12. f = [i \in k .. N |-> IF Next_(i) = NULL THEN i ELSE f[Next_(i)]]
    BY <2>11
  <2>13. IsLastFrom(f, m)
    BY <2>12 DEF k
  <2> QED
    BY <2>3, <2>13
<1>3. PICK f : f = [i \in 1 .. N |-> IF Next_(i) = NULL THEN i ELSE f[Next_(i)]]
  BY <1>1, <1>2
<1> QED
  BY <1>3 DEF LastFrom

\* The last of the siblings from node i on has no next.
LEMMA LastFromOK ==
    ASSUME values_ \in Seq(Node), NEW n \in Nat, n <= Len(values_), Forward(values_, n),
           NEW i \in 1 .. n
    PROVE  LastFrom[i] \in 1 .. n /\ values_[LastFrom[i]].next = NULL
<1> DEFINE IsOne(k) == LastFrom[k] \in 1 .. n /\ values_[LastFrom[k]].next = NULL
           S == {m \in 0 .. n - 1 : ~IsOne(n - m)}
<1>1. \A k \in 1 .. n : LastFrom[k] = IF values_[k].next = NULL THEN k ELSE LastFrom[values_[k].next]
  <2>1. \A k \in 1 .. n : k \in 1 .. Len(values_)
    OBVIOUS
  <2> QED
    BY <2>1, LastFromExists
<1>2. \A k \in 1 .. n : values_[k].next # NULL => values_[k].next \in k + 1 .. n
  BY DEF Forward
<1>3. S = {}
  <2>1. SUFFICES ASSUME S # {} PROVE FALSE
    OBVIOUS
  <2>2. S \in SUBSET Nat
    OBVIOUS
  <2>3. PICK m \in S : \A k \in S : m <= k
    BY <2>1, <2>2, Least
  <2> DEFINE k == n - m
             l == values_[k].next
  <2>4. m \in 0 .. n - 1 /\ k \in 1 .. n /\ ~IsOne(k) /\ m = n - k
    OBVIOUS
  <2> HIDE DEF k, IsOne
  <2>5. CASE l = NULL
    BY <1>1, <2>4, <2>5 DEF IsOne
  <2>6. CASE l # NULL
    <3>1. l \in k + 1 .. n /\ LastFrom[k] = LastFrom[l]
      BY <1>1, <1>2, <2>4, <2>6
    <3> HIDE DEF l
    <3>2. n - l \in 0 .. n - 1 /\ n - (n - l) = l /\ ~(m <= n - l)
      BY <2>4, <3>1
    <3>3. n - l \notin S
      BY <2>3, <3>2
    <3>4. IsOne(l)
      BY <3>2, <3>3
    <3> QED
      BY <2>4, <3>1, <3>4 DEF IsOne
  <2> QED
    BY <2>5, <2>6
<1>4. n - i \in 0 .. n - 1 /\ n - (n - i) = i
  OBVIOUS
<1> HIDE DEF IsOne
<1>5. IsOne(i)
  BY <1>3, <1>4
<1> QED
  BY <1>5 DEF IsOne

\* Replacing a node by a node leaves a sequence of nodes.
LEMMA NodeUpdate ==
    ASSUME NEW v \in Seq(Node), NEW i \in 1 .. Len(v), NEW n \in Node
    PROVE  /\ [v EXCEPT ![i] = n] \in Seq(Node) /\ Len([v EXCEPT ![i] = n]) = Len(v)
           /\ \A j \in 1 .. Len(v) : [v EXCEPT ![i] = n][j] = IF j = i THEN n ELSE v[j]
OBVIOUS

\* Both ends of a link are set together: the array stays linked both ways when
\* New is hung behind the node PrevOfNew, which had no such link.
LEMMA HandOK ==
    ASSUME ReaderTypeOK, LinksInverse, pass = 2, NEW node \in Node,
           node.child = NULL, node.next = NULL, Hand(node)
    PROVE  /\ values_' \in Seq(Node) /\ Len(values_') = Len(values_)
           /\ cur_ndex_' = cur_ndex_ + 1 /\ cur_ndex_' <= capacity_ /\ New = cur_ndex_'
           /\ Forward(values_', cur_ndex_') /\ Backward(values_', cur_ndex_')
<1> DEFINE n == cur_ndex_
           x == PrevOfNew
           v == values_
           tail == [v[x] EXCEPT !.next = n + 1]
           parent == [v[x] EXCEPT !.child = n + 1]
           linkedto == IF FirstChild = NULL THEN parent ELSE tail
           new == [node EXCEPT !.prev = x]
           w == values_'
<1>1. /\ v \in Seq(Node) /\ n \in Nat /\ n < Len(v) /\ Len(v) = capacity_
      /\ cur_value_ \in 1 .. n /\ New = n + 1 /\ n + 1 \in 1 .. Len(v)
      /\ \A i \in 1 .. Len(v) : v[i] \in Node
      /\ cur_value_ \in 1 .. Len(v)
  BY DEF ReaderTypeOK, Hand, New, NULL
<1>2. Forward(v, n) /\ Backward(v, n)
  BY LinksAre
<1>3. /\ x \in 1 .. n
      /\ IF FirstChild = NULL THEN v[x].child = NULL ELSE v[x].next = NULL
  <2>1. CASE FirstChild = NULL
    BY <1>1, <2>1 DEF PrevOfNew, FirstChild
  <2>2. CASE FirstChild # NULL
    <3>1. FirstChild \in cur_value_ + 1 .. n
      BY <1>1, <1>2, <2>2 DEF FirstChild, Forward
    <3>2. FirstChild \in 1 .. n
      BY <1>1, <3>1
    <3> QED
      BY <1>1, <1>2, <2>2, <3>2, LastFromOK DEF PrevOfNew
  <2> QED
    BY <2>1, <2>2
<1> HIDE DEF x
<1>4. x \in 1 .. Len(v) /\ x \in Nat /\ x # n + 1 /\ v[x] \in Node /\ n + 1 \in Nat
  BY <1>1, <1>3
<1>5. parent \in Node /\ tail \in Node /\ new \in Node
  BY <1>4 DEF Node
<1>6. /\ parent.child = n + 1 /\ parent.next = v[x].next /\ parent.prev = v[x].prev
      /\ tail.child = v[x].child /\ tail.next = n + 1 /\ tail.prev = v[x].prev
      /\ new.child = NULL /\ new.next = NULL /\ new.prev = x
  BY <1>4 DEF Node
<1>7. linkedto \in Node
  BY <1>5
<1>8. w = [[v EXCEPT ![x] = linkedto] EXCEPT ![n + 1] = new]
  <2>1. Linked = [v EXCEPT ![x] = linkedto]
    BY <1>1 DEF Linked, x
  <2> QED
    BY <1>1, <2>1 DEF Hand, x
<1> HIDE DEF parent, tail, new
<1>9. /\ w \in Seq(Node) /\ Len(w) = Len(v)
      /\ \A j \in 1 .. Len(v) : w[j] = IF j = n + 1 THEN new ELSE IF j = x THEN linkedto ELSE v[j]
  <2> DEFINE u == [v EXCEPT ![x] = linkedto]
  <2>1. /\ u \in Seq(Node) /\ Len(u) = Len(v)
        /\ \A j \in 1 .. Len(v) : u[j] = IF j = x THEN linkedto ELSE v[j]
    BY <1>1, <1>4, <1>7, NodeUpdate
  <2> HIDE DEF u, linkedto
  <2>2. w = [u EXCEPT ![n + 1] = new]
    BY <1>8 DEF u
  <2> QED
    BY <1>1, <1>5, <2>1, <2>2, NodeUpdate
<1> HIDE DEF v, w
<1>10. Forward(w, n + 1)
  <2>1. ASSUME NEW i \in 1 .. Len(v), NEW j \in {v[i].child, v[i].next} \ {NULL}
        PROVE  j \in i + 1 .. n + 1 /\ w[j].prev = i
    <3>1. j \in i + 1 .. n /\ v[j].prev = i
      BY <1>2, <2>1 DEF Forward
    <3>2. j \in 1 .. Len(v) /\ j # n + 1 /\ j \in i + 1 .. n + 1
      BY <1>1, <3>1
    <3> QED
      BY <1>6, <1>9, <3>1, <3>2
  <2>2. w[n + 1].prev = x /\ n + 1 \in x + 1 .. n + 1
    BY <1>1, <1>3, <1>6, <1>9
  <2>3. ASSUME NEW i \in 1 .. Len(v), NEW j \in {w[i].child, w[i].next} \ {NULL}
        PROVE  j \in i + 1 .. n + 1 /\ w[j].prev = i
    <3>1. CASE i = n + 1
      BY <1>6, <1>9, <3>1
    <3>2. CASE i = x /\ i # n + 1
      <4>1. j = n + 1 \/ j \in {v[i].child, v[i].next} \ {NULL}
        BY <1>6, <1>9, <3>2
      <4> QED
        BY <2>1, <2>2, <3>2, <4>1
    <3>3. CASE i # x /\ i # n + 1
      BY <1>9, <2>1, <3>3
    <3> QED
      BY <3>1, <3>2, <3>3
  <2> QED
    BY <1>9, <2>3 DEF Forward
<1>11. Backward(w, n + 1)
  <2>1. ASSUME NEW j \in 2 .. n
        PROVE  w[j].prev \in 1 .. j - 1 /\ (w[w[j].prev].child = j) # (w[w[j].prev].next = j)
    <3> DEFINE p == v[j].prev
    <3>1. p \in 1 .. j - 1 /\ (v[p].child = j) # (v[p].next = j)
      BY <1>2 DEF Backward
    <3>2. j \in 1 .. Len(v) /\ j # n + 1 /\ j # NULL
      BY <1>1 DEF NULL
    <3>3. w[j].prev = p
      BY <1>6, <1>9, <3>2
    <3>4. p \in 1 .. Len(v) /\ p # n + 1
      BY <1>1, <3>1
    <3>5. (w[p].child = j <=> v[p].child = j) /\ (w[p].next = j <=> v[p].next = j)
      BY <1>3, <1>6, <1>9, <3>2, <3>4, SMTT(20)
    <3> QED
      BY <3>1, <3>3, <3>5
  <2>2. w[n + 1].prev = x /\ x \in 1 .. n + 1 - 1
    BY <1>1, <1>3, <1>6, <1>9
  <2>3. (w[x].child = n + 1) # (w[x].next = n + 1)
    <3>1. v[x].child # n + 1 /\ v[x].next # n + 1
      BY <1>1, <1>2, <1>4 DEF Forward, NULL
    <3> QED
      BY <1>4, <1>6, <1>9, <3>1
  <2>4. ASSUME NEW j \in 2 .. n + 1
        PROVE  w[j].prev \in 1 .. j - 1 /\ (w[w[j].prev].child = j) # (w[w[j].prev].next = j)
    <3>1. CASE j = n + 1
      <4>1. w[j].prev = x
        BY <2>2, <3>1
      <4>2. x \in 1 .. j - 1
        BY <1>1, <1>3, <3>1
      <4>3. (w[x].child = j) # (w[x].next = j)
        BY <2>3, <3>1, Zenon
      <4> QED
        BY <4>1, <4>2, <4>3, Zenon
    <3>2. CASE j # n + 1
      <4>1. j \in 2 .. n
        BY <1>1, <3>2
      <4> QED
        BY <2>1, <4>1, Zenon
    <3> QED
      BY <3>1, <3>2
  <2> QED
    BY <2>4, Zenon DEF Backward
<1> QED
  BY <1>1, <1>9, <1>10, <1>11 DEF Hand, v, w

-----------------------------------------------------------------------------
(***************************************************************************)
(* A step of the descent.                                                  *)
(***************************************************************************)
\* What a step does to the allocator and the array; `hands' says whether it
\* begins a node.
Allocates(hands) ==
    /\ values_' \in Seq(Node) /\ Len(values_') = Len(values_)
    /\ capacity_' = IF pass = 1 /\ hands THEN capacity_ + 1 ELSE capacity_
    /\ cur_ndex_' = IF pass = 2 /\ hands THEN cur_ndex_ + 1 ELSE cur_ndex_
    /\ pass = 2 => /\ cur_ndex_' <= capacity_
                   /\ Forward(values_', cur_ndex_') /\ Backward(values_', cur_ndex_')

\* The cursor and what is saved of it, d being the control after the step.
CursorsAt(d) ==
    /\ cur_value_' \in Nat /\ temps' \in Seq(Nat) /\ Len(temps') = d.depth
    /\ pass = 1 => cur_value_' = NULL /\ \A i \in 1 .. Len(temps') : temps'[i] = NULL
    /\ pass = 2 => /\ cur_value_' \in 1 .. cur_ndex_'
                   /\ \A i \in 1 .. Len(temps') : temps'[i] \in 1 .. cur_ndex_'

LEMMA CursorOK ==
    ASSUME ReaderTypeOK
    PROVE  /\ pass = 1 <=> cur_value_ = NULL
           /\ pass # 1 => cur_value_ \in 1 .. Len(values_) /\ values_[cur_value_] \in Node
<1>1. pass # 1 => cur_value_ # NULL /\ cur_value_ \in 1 .. Len(values_)
  BY DEF ReaderTypeOK, NULL
<1> QED
  BY <1>1 DEF ReaderTypeOK

LEMMA AllocNodeOK ==
    ASSUME ReaderTypeOK, LinksInverse, pass \in {1, 2}, NEW node \in Node,
           node.child = NULL, node.next = NULL, allocNode(node)
    PROVE  Allocates(TRUE) /\ New = IF pass = 1 THEN NULL ELSE cur_ndex_'
<1>1. CASE pass = 1
  BY <1>1, CursorOK DEF allocNode, Allocates, ReaderTypeOK, New
<1>2. CASE pass = 2
  <2>1. Hand(node) /\ capacity_' = capacity_
    BY <1>2, CursorOK DEF allocNode, Hand
  <2> QED
    BY <1>2, <2>1, HandOK DEF Allocates
<1> QED
  BY <1>1, <1>2

LEMMA NothingAllocated ==
    ASSUME ReaderTypeOK, LinksInverse, UNCHANGED <<capacity_, cur_ndex_, values_>>
    PROVE  Allocates(FALSE)
<1>1. pass = 2 => Forward(values_', cur_ndex_') /\ Backward(values_', cur_ndex_')
  BY LinksAre
<1> QED
  BY <1>1 DEF Allocates, ReaderTypeOK

\* The value of a node is none of its links.
LEMMA SetValueOK ==
    ASSUME ReaderTypeOK, LinksInverse, pass \in {1, 2}, NEW value \in Nat, NEW value_size \in Nat,
           setNodeValue(value, value_size), UNCHANGED <<capacity_, cur_ndex_>>
    PROVE  Allocates(FALSE)
<1>1. CASE pass = 1
  <2>1. values_' = values_
    BY <1>1, CursorOK DEF setNodeValue
  <2> QED
    BY <2>1, NothingAllocated
<1>2. CASE pass = 2
  <2> DEFINE old == values_[cur_value_]
             node == [old EXCEPT !.value = value, !.value_size = value_size]
             w == values_'
  <2>1. w = [values_ EXCEPT ![cur_value_] = node] /\ values_ \in Seq(Node)
    BY <1>2, CursorOK DEF setNodeValue, ReaderTypeOK
  <2>2. node \in Node /\ node.child = old.child /\ node.next = old.next /\ node.prev = old.prev
    <3>1. old \in Node
      BY <1>2, CursorOK
    <3> HIDE DEF old
    <3> QED
      BY <3>1 DEF Node
  <2> HIDE DEF node
  <2>3. /\ w \in Seq(Node) /\ Len(w) = Len(values_)
        /\ \A j \in 1 .. Len(values_) : w[j] = IF j = cur_value_ THEN node ELSE values_[j]
    BY <1>2, <2>1, <2>2, CursorOK, NodeUpdate
  <2> HIDE DEF w
  <2>4. \A j \in 1 .. Len(values_) : /\ w[j].child = values_[j].child /\ w[j].next = values_[j].next
                                     /\ w[j].prev = values_[j].prev
    BY <2>2, <2>3
  <2>5. Forward(values_, cur_ndex_) /\ Backward(values_, cur_ndex_)
    BY <1>2, LinksAre
  <2>6. cur_ndex_ <= Len(values_) /\ cur_ndex_ \in Nat
    BY <1>2 DEF ReaderTypeOK
  <2>7. Forward(w, cur_ndex_)
    <3>1. ASSUME NEW i \in 1 .. Len(values_), NEW j \in {w[i].child, w[i].next} \ {NULL}
          PROVE  j \in i + 1 .. cur_ndex_ /\ w[j].prev = i
      <4>1. j \in {values_[i].child, values_[i].next} \ {NULL}
        BY <2>4, <3>1
      <4>2. j \in i + 1 .. cur_ndex_ /\ values_[j].prev = i
        BY <2>5, <4>1 DEF Forward
      <4>3. j \in 1 .. Len(values_)
        BY <2>6, <4>2
      <4> QED
        BY <2>4, <4>2, <4>3
    <3> QED
      BY <2>3, <3>1 DEF Forward
  <2>8. Backward(w, cur_ndex_)
    <3>1. ASSUME NEW j \in 2 .. cur_ndex_
          PROVE  w[j].prev \in 1 .. j - 1 /\ (w[w[j].prev].child = j) # (w[w[j].prev].next = j)
      <4> DEFINE p == values_[j].prev
      <4>1. p \in 1 .. j - 1 /\ (values_[p].child = j) # (values_[p].next = j)
        BY <2>5 DEF Backward
      <4>2. j \in 1 .. Len(values_) /\ p \in 1 .. Len(values_)
        BY <2>6, <4>1
      <4>3. w[j].prev = p /\ w[p].child = values_[p].child /\ w[p].next = values_[p].next
        BY <2>4, <4>2
      <4> HIDE DEF p
      <4> QED
        BY <4>1, <4>3, Zenon
    <3> QED
      BY <3>1, Zenon DEF Backward
  <2> QED
    BY <1>2, <2>3, <2>6, <2>7, <2>8 DEF Allocates, w, ReaderTypeOK
<1> QED
  BY <1>1, <1>2

\* A saved cursor is added at the end of temps, and taken from there.
LEMMA TempsOK ==
    ASSUME NEW ts \in Seq(Nat), NEW x \in Nat
    PROVE  /\ Append(ts, x) \in Seq(Nat) /\ Len(Append(ts, x)) = Len(ts) + 1
           /\ \A i \in 1 .. Len(ts) + 1 : Append(ts, x)[i] \in {ts[j] : j \in 1 .. Len(ts)} \cup {x}
           /\ Len(ts) > 0 =>
                /\ SubSeq(ts, 1, Len(ts) - 1) \in Seq(Nat)
                /\ Len(SubSeq(ts, 1, Len(ts) - 1)) = Len(ts) - 1
                /\ \A i \in 1 .. Len(ts) - 1 : SubSeq(ts, 1, Len(ts) - 1)[i] = ts[i]
                /\ ts[Len(ts)] \in Nat
<1>1. /\ Append(ts, x) \in Seq(Nat) /\ Len(Append(ts, x)) = Len(ts) + 1
      /\ \A i \in 1 .. Len(ts) : Append(ts, x)[i] = ts[i]
      /\ Append(ts, x)[Len(ts) + 1] = x
  OBVIOUS
<1>2. ASSUME Len(ts) > 0
      PROVE  /\ SubSeq(ts, 1, Len(ts) - 1) \in Seq(Nat)
             /\ Len(SubSeq(ts, 1, Len(ts) - 1)) = Len(ts) - 1
             /\ \A i \in 1 .. Len(ts) - 1 : SubSeq(ts, 1, Len(ts) - 1)[i] = ts[i]
             /\ ts[Len(ts)] \in Nat
  <2>1. Len(ts) \in 1 .. Len(ts) /\ \A i \in 1 .. Len(ts) - 1 : ts[i] \in Nat
    BY <1>2
  <2>2. ts[Len(ts)] \in Nat
    BY <2>1
  <2> DEFINE m == Len(ts) - 1
  <2>3. m \in Nat /\ m \in Int /\ 1 \in Int /\ \A i \in 1 .. m : ts[i] \in Nat
    BY <1>2, <2>1
  <2> HIDE DEF m
  <2>4. /\ SubSeq(ts, 1, m) \in Seq(Nat)
        /\ Len(SubSeq(ts, 1, m)) = IF 1 <= m THEN m - 1 + 1 ELSE 0
        /\ \A i \in 1 .. m - 1 + 1 : SubSeq(ts, 1, m)[i] = ts[1 + i - 1]
    BY <2>3, SubSeqProperties
  <2>5. /\ SubSeq(ts, 1, m) \in Seq(Nat) /\ Len(SubSeq(ts, 1, m)) = m
        /\ \A i \in 1 .. m : SubSeq(ts, 1, m)[i] = ts[i]
    BY <2>3, <2>4
  <2> QED
    BY <2>2, <2>5 DEF m
<1>3. Len(ts) \in Nat
  OBVIOUS
<1> QED
  BY <1>1, <1>2, <1>3

\* The nodes that are handed out are well formed and hang together with none.
LEMMA NewNodesOK ==
    ASSUME src \in Seq(Char), ctl \in Control, InText(ctl), BeginsNode(ctl)
    PROVE  /\ NewElement \in Node /\ NewElement.child = NULL /\ NewElement.next = NULL
           /\ NewMarkup \in Node /\ NewMarkup.child = NULL /\ NewMarkup.next = NULL
<1> DEFINE from == Start(ctl)
<1>1. from \in 1 .. Len(src) + 1
  <2>1. Ahead(ctl) \in 1 .. Len(src) + 1
    BY SkipOK DEF Ahead, InText, Spaces, Char
  <2>2. Ahead(ctl) \in 1 .. Len(src)
    BY <2>1, CharAtOK DEF BeginsNode, Here
  <2> QED
    BY <2>2, CharAtOK DEF Start
<1>2. Blank \in Node /\ Blank.child = NULL /\ Blank.next = NULL
  BY DEF Blank, Node, NULL
<1>3. from \in Nat /\ NameEnd(from) - from \in Nat
  <2>1. NameEnd(from) \in from .. Len(src) + 1
    BY <1>1, SkipOK DEF NameEnd, NameChar, Char
  <2> QED
    BY <1>1, <2>1, CharAtOK
<1>4. IsClosed(from) => MarkupEnd(from) - 1 - from \in Nat
  BY <1>1, MarkupEndOK, CharAtOK
<1>5. KindAt(from) \in -1 .. 8 /\ NODE_ELEMENT \in -1 .. 8
  BY DEF KindAt, NODE_DOCUMENT, NODE_ELEMENT, NODE_CDATA, NODE_COMMENT, NODE_DECLARATION,
         NODE_DOCTYPE, NODE_PI, UNRECOGNIZED
<1> HIDE DEF from
<1>6. NewElement \in Node /\ NewElement.child = NULL /\ NewElement.next = NULL
  <2> DEFINE named == [Blank EXCEPT !.type = NODE_ELEMENT, !.key = from,
                                    !.key_size = NameEnd(from) - from]
             bare == [Blank EXCEPT !.type = NODE_ELEMENT]
  <2>1. named \in Node /\ bare \in Node
    BY <1>2, <1>3, <1>5 DEF Node
  <2>2. named.child = NULL /\ named.next = NULL /\ bare.child = NULL /\ bare.next = NULL
    BY <1>2 DEF Node
  <2>3. NewElement \in {named, bare}
    BY DEF NewElement, from
  <2> QED
    BY <2>1, <2>2, <2>3
<1>7. NewMarkup \in Node /\ NewMarkup.child = NULL /\ NewMarkup.next = NULL
  <2> DEFINE cdata == [Blank EXCEPT !.type = KindAt(from), !.value = from,
                                    !.value_size = MarkupEnd(from) - 1 - from]
             bare == [Blank EXCEPT !.type = KindAt(from)]
  <2>1. bare \in Node /\ (IsClosed(from) => cdata \in Node)
    BY <1>2, <1>3, <1>4, <1>5 DEF Node
  <2>2. cdata.child = NULL /\ cdata.next = NULL /\ bare.child = NULL /\ bare.next = NULL
    BY <1>2 DEF Node
  <2>3. NewMarkup \in {Blank, bare} \/ (IsClosed(from) /\ NewMarkup = cdata)
    BY DEF NewMarkup, from
  <2> QED
    BY <1>2, <2>1, <2>2, <2>3
<1> QED
  BY <1>6, <1>7

\* What a step of the descent does, by cases of its action.
LEMMA ParseOK ==
    ASSUME ReaderTypeOK, InText(ctl), LinksInverse, Parse
    PROVE  /\ CtlNext(ctl, ctl') \/ (CloseOther(ctl, ctl') /\ pass = 2)
           /\ Allocates(BeginsNode(ctl)) /\ CursorsAt(ctl')
<1>1. /\ src \in Seq(Char) /\ ctl \in Control /\ pass \in {1, 2}
      /\ temps \in Seq(Nat) /\ Len(temps) = ctl.depth /\ ctl.depth \in Nat
      /\ cur_value_ \in Nat /\ cur_ndex_ \in Nat
  BY DEF ReaderTypeOK, Parse, Control
<1>2. /\ pass = 1 => cur_value_ = NULL /\ \A i \in 1 .. Len(temps) : temps[i] = NULL
      /\ pass = 2 => /\ cur_value_ \in 1 .. cur_ndex_
                     /\ \A i \in 1 .. Len(temps) : temps[i] \in 1 .. cur_ndex_
  BY DEF ReaderTypeOK
<1>3. CASE Element
  <2>1. BeginsNode(ctl)
    BY <1>3 DEF Element, OpenElement, EmptyElement, BadElement, BeginsElement
  <2>2. allocNode(NewElement)
    BY <1>3 DEF Element
  <2>3. Allocates(TRUE) /\ New = IF pass = 1 THEN NULL ELSE cur_ndex_'
    BY <1>1, <2>1, <2>2, AllocNodeOK, NewNodesOK
  <2>4. pass = 2 => cur_ndex_' = cur_ndex_ + 1
    BY <2>3 DEF Allocates
  <2>5. CASE OpenElement(ctl, ctl') /\ SaveTemp
    <3>1. CtlNext(ctl, ctl')
      BY <2>5 DEF CtlNext
    <3>2. ctl'.depth = ctl.depth + 1
      BY <1>1, <2>5, <3>1, CtlTyped DEF Deeper
    <3>3. /\ cur_value_' = New /\ temps' = Append(temps, cur_value_)
          /\ temps' \in Seq(Nat) /\ Len(temps') = Len(temps) + 1
          /\ \A i \in 1 .. Len(temps) + 1 :
                temps'[i] \in {temps[j] : j \in 1 .. Len(temps)} \cup {cur_value_}
      BY <1>1, <2>5, TempsOK DEF SaveTemp
    <3>4. CursorsAt(ctl')
      <4>1. CASE pass = 1
        BY <1>1, <1>2, <2>3, <3>2, <3>3, <4>1 DEF CursorsAt, NULL
      <4>2. CASE pass = 2
        <5>1. cur_value_' \in 1 .. cur_ndex_' /\ cur_value_' \in Nat
          BY <1>1, <2>3, <2>4, <3>3, <4>2
        <5>2. \A i \in 1 .. Len(temps') : temps'[i] \in 1 .. cur_ndex_'
          BY <1>1, <1>2, <2>4, <3>3, <4>2
        <5> QED
          BY <1>1, <3>2, <3>3, <4>2, <5>1, <5>2 DEF CursorsAt
      <4> QED
        BY <1>1, <4>1, <4>2
    <3> QED
      BY <2>1, <2>3, <3>1, <3>4, Zenon
  <2>6. CASE (EmptyElement(ctl, ctl') \/ BadElement(ctl, ctl')) /\ UNCHANGED <<cur_value_, temps>>
    <3>1. CtlNext(ctl, ctl') /\ ~OpenElement(ctl, ctl')
      BY <2>6 DEF CtlNext, OpenElement, EmptyElement, BadElement, IsBad
    <3>2. ctl'.depth = ctl.depth
      BY <1>1, <2>1, <3>1, CtlTyped DEF Deeper
    <3>3. CursorsAt(ctl')
      BY <1>1, <1>2, <2>3, <2>4, <2>6, <3>2 DEF CursorsAt
    <3> QED
      BY <2>1, <2>3, <3>1, <3>3, Zenon
  <2> QED
    BY <1>3, <2>5, <2>6 DEF Element
<1>4. CASE OtherNode
  <2>1. BeginsNode(ctl) /\ CtlNext(ctl, ctl') /\ ~OpenElement(ctl, ctl')
    BY <1>4 DEF OtherNode, Markup, CutMarkup, CtlNext, OpenElement, BeginsElement
  <2>2. allocNode(NewMarkup) /\ UNCHANGED <<cur_value_, temps>>
    BY <1>4 DEF OtherNode
  <2>3. Allocates(TRUE)
    BY <1>1, <2>1, <2>2, AllocNodeOK, NewNodesOK
  <2>4. pass = 2 => cur_ndex_' = cur_ndex_ + 1
    BY <2>3 DEF Allocates
  <2>5. ctl'.depth = ctl.depth
    BY <1>1, <2>1, CtlTyped DEF Deeper
  <2>6. CursorsAt(ctl')
    BY <1>1, <1>2, <2>2, <2>3, <2>4, <2>5 DEF CursorsAt
  <2> QED
    BY <2>1, <2>3, <2>6, Zenon
<1>5. CASE ContentsReturn
  <2>1. CtlNext(ctl, ctl') \/ (CloseOther(ctl, ctl') /\ pass = 2)
    BY <1>1, <1>2, <1>5 DEF ContentsReturn, CtlNext, NameFits
  <2>2. ~BeginsNode(ctl) /\ ~IsText(ctl) /\ ~OpenElement(ctl, ctl')
    BY <1>5 DEF ContentsReturn, Abandon, EndInContents, Close, CloseOther, BeginsNode, IsText,
                OpenElement, BeginsElement, ClosesElement, InContents, Reads
  <2>3. ctl.depth > 0 /\ ctl'.depth = ctl.depth - 1
    BY <1>1, <2>1, <2>2, CtlTyped DEF Deeper
  <2>4. UNCHANGED <<capacity_, cur_ndex_, values_>>
    BY <1>5 DEF ContentsReturn
  <2>5. Allocates(FALSE)
    BY <2>4, NothingAllocated
  <2>6. /\ cur_value_' = temps[Len(temps)] /\ temps' \in Seq(Nat) /\ Len(temps') = Len(temps) - 1
        /\ \A i \in 1 .. Len(temps) - 1 : temps'[i] = temps[i]
        /\ cur_value_' \in Nat /\ Len(temps) \in 1 .. Len(temps)
    BY <1>1, <1>5, <2>3, TempsOK DEF ContentsReturn, RestoreTemp
  <2>7. \A i \in 1 .. Len(temps') : i \in 1 .. Len(temps) /\ temps'[i] = temps[i]
    BY <1>1, <2>6
  <2>8. CursorsAt(ctl')
    <3>1. CASE pass = 1
      <4>1. cur_value_' = NULL /\ \A i \in 1 .. Len(temps') : temps'[i] = NULL
        BY <1>1, <1>2, <2>3, <2>6, <2>7, <3>1
      <4>2. Len(temps') = ctl'.depth
        BY <1>1, <2>3, <2>6
      <4> QED
        BY <2>6, <3>1, <4>1, <4>2 DEF CursorsAt
    <3>2. CASE pass = 2
      BY <1>1, <1>2, <2>3, <2>4, <2>6, <2>7, <3>2 DEF CursorsAt
    <3> QED
      BY <1>1, <3>1, <3>2
  <2>9. Allocates(BeginsNode(ctl))
    BY <2>2, <2>5 DEF Allocates
  <2> QED
    BY <2>1, <2>8, <2>9, Zenon
<1>6. CASE TextOrBad
  <2>1. IsText(ctl) /\ CtlNext(ctl, ctl') /\ ~BeginsNode(ctl) /\ ~OpenElement(ctl, ctl')
    BY <1>6 DEF TextOrBad, ReadText, BadText, CtlNext, IsText, BeginsNode, OpenElement, BeginsElement
  <2>2. UNCHANGED <<capacity_, cur_ndex_, cur_value_, temps>>
    BY <1>6 DEF TextOrBad
  <2>3. ctl'.depth = ctl.depth
    BY <1>1, <2>1, CtlTyped DEF Deeper
  <2>4. Ahead(ctl) \in Nat /\ TextEnd(Ahead(ctl)) - Ahead(ctl) \in Nat
    <3>1. Ahead(ctl) \in 1 .. Len(src) + 1
      BY <1>1, SkipOK DEF Ahead, InText, Spaces, Char
    <3>2. TextEnd(Ahead(ctl)) \in Ahead(ctl) .. Len(src) + 1
      BY <1>1, <3>1, SkipOK DEF TextEnd
    <3> QED
      BY <1>1, <3>1, <3>2, CharAtOK
  <2>5. Allocates(FALSE)
    BY <1>1, <1>6, <2>2, <2>4, SetValueOK, NothingAllocated DEF TextOrBad
  <2>6. CursorsAt(ctl')
    BY <1>1, <1>2, <2>2, <2>3 DEF CursorsAt
  <2>7. Allocates(BeginsNode(ctl))
    BY <2>1, <2>5 DEF Allocates
  <2> QED
    BY <2>1, <2>6, <2>7, Zenon
<1> QED
  BY <1>3, <1>4, <1>5, <1>6 DEF Parse

-----------------------------------------------------------------------------
(***************************************************************************)
(* Types and links.                                                        *)
(***************************************************************************)
Typed == ReaderTypeOK /\ InText(ctl) /\ LinksInverse

LEMMA StartTyped ==
    ASSUME src \in Seq(Char)
    PROVE  StartOfText \in Control /\ InText(StartOfText) /\ StartOfText.depth = 0
           /\ ~StartOfText.err
<1> DEFINE p == IF CharAt(1) = "bom" THEN 2 ELSE 1
           q == Skip(p, Spaces)
<1>1. p \in 1 .. Len(src) + 1
  <2>1. 1 \in 1 .. Len(src) + 1 /\ (CharAt(1) = "bom" => 1 \in 1 .. Len(src))
    BY CharAtOK
  <2> QED
    BY <2>1, CharAtOK
<1>2. q \in 1 .. Len(src) + 1 /\ q \in Nat \ {0}
  <2>1. Spaces \in SUBSET Char
    BY DEF Spaces, Char
  <2> HIDE DEF p
  <2>2. q \in 1 .. Len(src) + 1
    BY <1>1, <2>1, SkipOK
  <2> QED
    BY <2>2
<1> HIDE DEF q
<1>3. StartOfText = [pos |-> q, depth |-> 0, err |-> FALSE, outside |-> FALSE]
  BY DEF StartOfText, q
<1> QED
  BY <1>2, <1>3 DEF Control, InText

LEMMA InitTyped == ReaderInit => Typed
<1> SUFFICES ASSUME ReaderInit PROVE Typed
  OBVIOUS
<1>1. src \in Seq(Char) /\ ctl = StartOfText /\ pass = 1
  BY InputsAssumption DEF ReaderInit
<1>2. ctl \in Control /\ InText(ctl) /\ ctl.depth = 0
  BY <1>1, StartTyped
<1>3. values_ \in Seq(Node) /\ temps \in Seq(Nat) /\ Len(temps) = 0
  BY DEF ReaderInit
<1>4. capacity_ = 1 /\ cur_ndex_ = 0 /\ cur_value_ = NULL /\ NULL \in Nat
  BY DEF ReaderInit, NULL
<1>5. error1 \in BOOLEAN
  BY DEF ReaderInit
<1>6. ReaderTypeOK
  BY <1>1, <1>2, <1>3, <1>4, <1>5 DEF ReaderTypeOK
<1> QED
  BY <1>1, <1>2, <1>6 DEF Typed, LinksInverse

LEMMA ParseTyped == Typed /\ Parse => Typed'
<1> SUFFICES ASSUME Typed, Parse PROVE Typed'
  OBVIOUS
<1>1. ReaderTypeOK /\ InText(ctl) /\ LinksInverse
  BY DEF Typed
<1>2. /\ CtlNext(ctl, ctl') \/ CloseOther(ctl, ctl')
      /\ Allocates(BeginsNode(ctl)) /\ CursorsAt(ctl')
  BY <1>1, ParseOK
<1>3. /\ src' = src /\ src \in Seq(Char) /\ pass' = pass /\ pass \in {1, 2}
      /\ error1' = error1 /\ error1 \in BOOLEAN /\ ctl \in Control
      /\ cur_ndex_ \in Nat /\ capacity_ \in Nat \ {0}
  BY <1>1 DEF Parse, ReaderTypeOK
<1>4. ctl' \in Control /\ InText(ctl')
  BY <1>1, <1>2, <1>3, CtlTyped
<1>5. InText(ctl)'
  BY <1>3, <1>4 DEF InText
<1>6. /\ values_' \in Seq(Node) /\ Len(values_') = Len(values_)
      /\ capacity_' \in Nat \ {0} /\ cur_ndex_' \in Nat
      /\ pass = 1 => cur_ndex_' = cur_ndex_
      /\ pass = 2 => capacity_' = capacity_ /\ cur_ndex_' <= capacity_'
  BY <1>2, <1>3 DEF Allocates
<1>7. ReaderTypeOK'
  <2>1. CASE pass = 1
    BY <1>1, <1>2, <1>3, <1>4, <1>6, <2>1 DEF ReaderTypeOK, CursorsAt
  <2>2. CASE pass = 2
    BY <1>1, <1>2, <1>3, <1>4, <1>6, <2>2 DEF ReaderTypeOK, CursorsAt
  <2> QED
    BY <1>3, <2>1, <2>2
<1>8. LinksInverse'
  <2>1. pass' # 1 => Forward(values_', cur_ndex_') /\ Backward(values_', cur_ndex_')
    BY <1>2, <1>3 DEF Allocates
  <2> QED
    BY <2>1, Zenon DEF LinksInverse, Forward, Backward
<1> QED
  BY <1>5, <1>7, <1>8 DEF Typed

LEMMA ResizeTyped == Typed /\ Resize => Typed'
<1> SUFFICES ASSUME Typed, Resize PROVE Typed'
  OBVIOUS
<1>1. /\ ReaderTypeOK /\ src' = src /\ src \in Seq(Char) /\ pass' = 2 /\ pass = 1
      /\ ctl.depth = 0 /\ error1' = StopsWithError
      /\ temps' = temps /\ Len(temps) = 0 /\ temps \in Seq(Nat)
      /\ cur_ndex_' = 1 /\ cur_value_' = 1 /\ capacity_' = capacity_ /\ capacity_ \in Nat \ {0}
  BY DEF Typed, ReaderTypeOK, Resize, Halted
<1>2. StopsWithError \in BOOLEAN
  BY <1>1, Zenon DEF StopsWithError, ReaderTypeOK, Control
<1>3. ctl' = [StartOfText EXCEPT !.err = StopsWithError]
  BY DEF Resize
<1>4. ctl' \in Control /\ ctl'.pos = StartOfText.pos /\ ctl'.depth = 0
  BY <1>1, <1>2, <1>3, StartTyped DEF Control
<1>5. InText(ctl)'
  BY <1>1, <1>4, StartTyped DEF InText
<1> DEFINE blank == [i \in 1 .. capacity_ |-> Blank]
           document == [Blank EXCEPT !.type = NODE_DOCUMENT]
<1>6. /\ Blank \in Node /\ document \in Node
      /\ Blank.child = NULL /\ Blank.next = NULL /\ document.child = NULL /\ document.next = NULL
  BY DEF Blank, Node, NULL, NODE_DOCUMENT
<1>7. blank \in Seq(Node) /\ Len(blank) = capacity_ /\ 1 \in 1 .. Len(blank)
      /\ \A i \in 1 .. capacity_ : blank[i] = Blank
  BY <1>1, <1>6
<1>8. values_' = [blank EXCEPT ![1] = document]
  <2>1. blank[1] = Blank
    BY <1>7
  <2> HIDE DEF blank
  <2>2. values_' = [blank EXCEPT ![1] = [blank[1] EXCEPT !.type = NODE_DOCUMENT]]
    BY DEF Resize, blank
  <2> QED
    BY <2>1, <2>2
<1> HIDE DEF blank, document
<1>9. /\ values_' \in Seq(Node) /\ Len(values_') = capacity_
      /\ \A i \in 1 .. capacity_ : values_'[i].child = NULL /\ values_'[i].next = NULL
  BY <1>6, <1>7, <1>8, NodeUpdate
<1>10. ReaderTypeOK'
  BY <1>1, <1>2, <1>4, <1>9 DEF ReaderTypeOK
<1>11. LinksInverse'
  <2>1. Forward(values_', 1) /\ Backward(values_', 1)
    BY <1>9 DEF Forward, Backward
  <2>2. Forward(values_', cur_ndex_') /\ Backward(values_', cur_ndex_')
    BY <1>1, <2>1
  <2> QED
    BY <2>2, Zenon DEF LinksInverse, Forward, Backward
<1> QED
  BY <1>5, <1>10, <1>11 DEF Typed

LEMMA ReturnTyped == Typed /\ ParseReturns => Typed'
<1> SUFFICES ASSUME Typed, ParseReturns PROVE Typed'
  OBVIOUS
<1>1. /\ ReaderTypeOK /\ pass = 2 /\ pass' = 3 /\ ctl' = [ctl EXCEPT !.err = StopsWithError]
      /\ UNCHANGED <<src, capacity_, data, error1, trace, step>>
  BY DEF Typed, ParseReturns
<1>2. StopsWithError \in BOOLEAN
  BY <1>1, Zenon DEF StopsWithError, ReaderTypeOK, Control
<1>3. ctl' \in Control /\ ctl'.pos = ctl.pos /\ ctl'.depth = ctl.depth
  BY <1>1, <1>2 DEF ReaderTypeOK, Control
<1>4. InText(ctl)'
  BY <1>1, <1>3 DEF Typed, InText
<1>5. ReaderTypeOK'
  BY <1>1, <1>3 DEF ReaderTypeOK, data
<1>6. LinksInverse'
  <2>1. Forward(values_, cur_ndex_) /\ Backward(values_, cur_ndex_)
    BY <1>1, LinksAre DEF Typed
  <2>2. Forward(values_', cur_ndex_') /\ Backward(values_', cur_ndex_')
    BY <1>1, <2>1 DEF data
  <2> QED
    BY <2>2, Zenon DEF LinksInverse, Forward, Backward
<1> QED
  BY <1>4, <1>5, <1>6 DEF Typed

LEMMA StutterTyped == Typed /\ UNCHANGED readerVars => Typed'
<1> SUFFICES ASSUME Typed, UNCHANGED readerVars PROVE Typed'
  OBVIOUS
<1>1. ReaderTypeOK' /\ InText(ctl)'
  BY DEF Typed, ReaderTypeOK, InText, readerVars, data
<1>2. (Forward(values_, cur_ndex_) /\ Backward(values_, cur_ndex_)) \/ pass = 1
  BY LinksAre DEF Typed
<1>3. (Forward(values_', cur_ndex_') /\ Backward(values_', cur_ndex_')) \/ pass' = 1
  BY <1>2 DEF readerVars, data
<1>4. LinksInverse'
  BY <1>3, Zenon DEF LinksInverse, Forward, Backward
<1> QED
  BY <1>1, <1>4 DEF Typed

LEMMA StepTyped == Typed /\ [ReaderNext]_readerVars => Typed'
BY ParseTyped, ResizeTyped, ReturnTyped, StutterTyped DEF ReaderNext

\* In every run every variable keeps its type, the first pass touches no node,
\* and the cursor is at a node that was handed out (reader.cpp:93-141).
THEOREM TypeCorrect == ReaderSpec => []ReaderTypeOK
<1>1. Typed => ReaderTypeOK
  BY DEF Typed
<1> QED
  BY <1>1, InitTyped, StepTyped, PTL DEF ReaderSpec

\* In every run of the second pass the nodes handed out are one tree, linked
\* both ways, whatever errors the text has (allocNode, reader.cpp:451-467).
THEOREM OneTree == ReaderSpec => []LinksInverse
<1>1. Typed => LinksInverse
  BY DEF Typed
<1> QED
  BY <1>1, InitTyped, StepTyped, PTL DEF ReaderSpec

-----------------------------------------------------------------------------
(***************************************************************************)
(* The passes.                                                             *)
(***************************************************************************)
IPass == TraceOK /\ AtTheEnd /\ Counted /\ Retraces /\ Returned

LEMMA TraceTyped ==
    ASSUME TraceOK
    PROVE  /\ Last \in Entry /\ Len(trace) \in Nat \ {0} /\ Len(trace) \in 1 .. Len(trace)
           /\ \A i \in 1 .. Len(trace) : trace[i] \in Entry
BY DEF TraceOK, Last

LEMMA InitPass == ReaderInit => IPass
<1> SUFFICES ASSUME ReaderInit PROVE IPass
  OBVIOUS
<1> DEFINE e == [ctl |-> StartOfText, n |-> 1]
<1>1. src \in Seq(Char) /\ pass = 1 /\ ctl = StartOfText /\ capacity_ = 1 /\ trace = <<e>>
  BY InputsAssumption DEF ReaderInit
<1>2. e \in Entry /\ e.n = 1 /\ e.n <= e.n /\ e.ctl = StartOfText
  BY <1>1, StartTyped DEF Entry
<1> HIDE DEF e
<1>3. trace \in Seq(Entry) /\ Len(trace) = 1 /\ trace[1] = e
  BY <1>1, <1>2
<1>4. Last = e
  BY <1>3 DEF Last
<1>5. TraceOK
  BY <1>2, <1>3, <1>4 DEF TraceOK, e
<1> QED
  BY <1>1, <1>2, <1>4, <1>5 DEF IPass, AtTheEnd, Counted, Retraces, Returned

\* Counting adds the step it makes to the trace.
LEMMA CountingStep ==
    ASSUME Typed, IPass, Parse, pass = 1
    PROVE  IPass'
<1>1. /\ ReaderTypeOK /\ InText(ctl) /\ src' = src /\ src \in Seq(Char) /\ pass' = 1 /\ ctl \in Control
      /\ trace' = Append(trace, [ctl |-> ctl', n |-> capacity_'])
      /\ capacity_ \in Nat
  BY DEF Typed, Parse, ReaderTypeOK
<1>2. CtlNext(ctl, ctl') /\ Allocates(BeginsNode(ctl))
  BY ParseOK DEF Typed
<1>3. ctl' \in Control /\ (ctl.err => ctl'.err)
  BY <1>1, <1>2, CtlTyped
<1>4. TraceOK /\ ctl = Last.ctl /\ capacity_ = Last.n
  BY DEF IPass, AtTheEnd
<1> DEFINE e == [ctl |-> ctl', n |-> capacity_']
           t == trace'
           m == Len(trace)
<1>5. capacity_' = IF BeginsNode(ctl) THEN capacity_ + 1 ELSE capacity_
  BY <1>2 DEF Allocates
<1>6. e \in Entry /\ e.n >= capacity_ /\ e.ctl = ctl' /\ e.n = capacity_'
  BY <1>1, <1>3, <1>5 DEF Entry
<1>7. Follows(Last, e)
  BY <1>2, <1>4, <1>5 DEF Follows
<1> HIDE DEF e
<1>8. /\ t \in Seq(Entry) /\ Len(t) = m + 1 /\ t[m + 1] = e /\ m \in Nat \ {0}
      /\ \A i \in 1 .. m : t[i] = trace[i]
  BY <1>1, <1>4, <1>6 DEF TraceOK, e
<1> HIDE DEF t
<1>9. \A i \in 1 .. m : Follows(t[i], t[i + 1])
  <2> TAKE i \in 1 .. m
  <2>1. CASE i = m
    BY <1>7, <1>8, <2>1 DEF Last
  <2>2. CASE i # m
    <3>1. i \in 1 .. m - 1 /\ i + 1 \in 1 .. m
      BY <1>8, <2>2
    <3> QED
      BY <1>4, <1>8, <3>1 DEF TraceOK
  <2> QED
    BY <2>1, <2>2
<1>10. \A i \in 1 .. m + 1 : t[i].n <= e.n /\ (t[i].ctl.err => e.ctl.err)
  <2> TAKE i \in 1 .. m + 1
  <2>1. CASE i = m + 1
    BY <1>1, <1>6, <1>8, <2>1 DEF Entry
  <2>2. CASE i # m + 1
    <3>1. i \in 1 .. m /\ t[i] = trace[i] /\ trace[i] \in Entry
      BY <1>4, <1>8, <2>2, TraceTyped
    <3>2. trace[i].n <= capacity_ /\ (trace[i].ctl.err => ctl.err)
      BY <1>4, <3>1 DEF TraceOK
    <3>3. trace[i].n \in Nat /\ e.n \in Nat
      BY <1>6, <3>1 DEF Entry
    <3>4. t[i].n <= e.n
      BY <1>1, <1>6, <3>1, <3>2, <3>3
    <3> QED
      BY <1>3, <1>6, <3>1, <3>2, <3>4
  <2> QED
    BY <2>1, <2>2
<1>11. t[1] = [ctl |-> StartOfText, n |-> 1]
  BY <1>4, <1>8 DEF TraceOK
<1>12. Last' = e
  BY <1>8 DEF Last, t
<1>13. TraceOK'
  <2>1. (\A i \in 1 .. Len(trace) - 1 : Follows(trace[i], trace[i + 1]))'
    <3>1. \A i \in 1 .. Len(t) - 1 : Follows(t[i], t[i + 1])
      BY <1>8, <1>9
    <3> QED
      BY <1>1, <3>1, SameText DEF t
  <2>2. StartOfText' = StartOfText
    BY <1>1, SameText
  <2> QED
    BY <1>8, <1>10, <1>11, <1>12, <2>1, <2>2 DEF TraceOK, t
<1>14. AtTheEnd' /\ Counted' /\ Retraces' /\ Returned'
  BY <1>1, <1>6, <1>12 DEF AtTheEnd, Counted, Retraces, Returned
<1> QED
  BY <1>13, <1>14 DEF IPass

\* The trace is kept from the first pass on.
LEMMA TraceKept ==
    ASSUME TraceOK, src' = src, trace' = trace
    PROVE  TraceOK' /\ Last' = Last
<1>1. Last' = Last
  BY DEF Last
<1>2. (\A i \in 1 .. Len(trace) - 1 : Follows(trace[i], trace[i + 1]))'
  BY SameText DEF TraceOK
<1>3. StartOfText' = StartOfText
  BY SameText
<1> QED
  BY <1>1, <1>2, <1>3 DEF TraceOK

\* Where the descent is in sync with a trace that stops, it is at its end or
\* one step before an entry.
LEMMA OnTheWay ==
    ASSUME TraceOK, Counted, pass = 2, InSync
    PROVE  /\ ctl \in Control
           /\ step = Len(trace) => ctl = Last.ctl /\ Halted(ctl) /\ cur_ndex_ = capacity_
           /\ step # Len(trace) => /\ step + 1 \in 1 .. Len(trace)
                                  /\ Follows(trace[step], trace[step + 1])
                                  /\ trace[step + 1] \in Entry /\ trace[step + 1].n <= capacity_
                                  /\ (trace[step + 1].ctl.err => Last.ctl.err)
<1>1. step \in 1 .. Len(trace) /\ Len(trace) \in Nat /\ trace[step] \in Entry
  BY TraceTyped DEF InSync
<1>2. ctl \in Control
  BY <1>1 DEF InSync, Entry
<1>3. step = Len(trace) => ctl = Last.ctl /\ Halted(ctl) /\ cur_ndex_ = capacity_
  BY DEF InSync, Counted, Last
<1>4. ASSUME step # Len(trace)
      PROVE  /\ step + 1 \in 1 .. Len(trace) /\ Follows(trace[step], trace[step + 1])
             /\ trace[step + 1] \in Entry /\ trace[step + 1].n <= capacity_
             /\ (trace[step + 1].ctl.err => Last.ctl.err)
  <2>1. step \in 1 .. Len(trace) - 1 /\ step + 1 \in 1 .. Len(trace)
    BY <1>1, <1>4
  <2> QED
    BY <2>1, TraceTyped DEF TraceOK, Counted
<1> QED
  BY <1>2, <1>3, <1>4

\* Filling goes one entry along the trace, or, at a closing tag of another
\* name, leaves it for good.
LEMMA FillingStep ==
    ASSUME Typed, IPass, Parse, pass = 2
    PROVE  IPass'
<1>1. /\ ReaderTypeOK /\ InText(ctl) /\ src' = src /\ src \in Seq(Char) /\ pass' = 2 /\ ctl \in Control
      /\ trace' = trace /\ step' = step + 1 /\ error1' = error1 /\ cur_ndex_ \in Nat
  BY DEF Typed, Parse, ReaderTypeOK
<1>2. /\ CtlNext(ctl, ctl') \/ CloseOther(ctl, ctl')
      /\ Allocates(BeginsNode(ctl))
  BY ParseOK DEF Typed
<1>3. ctl.err => ctl'.err
  BY <1>1, <1>2, CtlTyped
<1>4. /\ capacity_' = capacity_
      /\ cur_ndex_' = IF BeginsNode(ctl) THEN cur_ndex_ + 1 ELSE cur_ndex_
  BY <1>2 DEF Allocates
<1>5. TraceOK /\ Counted /\ (~error1 => InSync \/ Unwinds)
  BY DEF IPass, Retraces
<1>6. TraceOK' /\ Last' = Last
  BY <1>1, <1>5, TraceKept
<1>7. Here(Last.ctl)' = Here(Last.ctl) /\ (Halted(Last.ctl)' <=> Halted(Last.ctl))
  BY <1>1, <1>6, SameText
<1>8. Counted'
  BY <1>1, <1>3, <1>4, <1>5, <1>6, <1>7 DEF Counted
<1>9. ASSUME ~error1, InSync
      PROVE  InSync' \/ Unwinds'
  <2>1. ~Halted(ctl)
    <3>1. SUFFICES ASSUME Halted(ctl) PROVE FALSE
      OBVIOUS
    <3>2. ~CtlNext(ctl, ctl') /\ ctl.depth = 0 /\ ~(ctl.depth > 0)
      BY <1>1, <3>1, HaltedIsFinal DEF Halted
    <3> QED
      BY <1>2, <3>2 DEF CloseOther, ClosesElement, InContents
  <2>2. step # Len(trace)
    BY <1>1, <1>5, <1>9, <2>1, OnTheWay
  <2> DEFINE u == trace[step + 1]
  <2>3. /\ step + 1 \in 1 .. Len(trace) /\ Follows(trace[step], u)
        /\ u.ctl.err => Last.ctl.err
    BY <1>5, <1>9, <2>2, OnTheWay
  <2>4. CtlNext(ctl, u.ctl) /\ u.n = IF BeginsNode(ctl) THEN cur_ndex_ + 1 ELSE cur_ndex_
    BY <1>9, <2>3 DEF InSync, Follows
  <2>5. ~u.ctl.err
    <3>1. ~Last.ctl.err
      BY <1>5, <1>9 DEF Counted
    <3> QED
      BY <2>3, <3>1, Zenon
  <2> HIDE DEF u
  <2>6. CASE CtlNext(ctl, ctl')
    <3>1. ctl' = u.ctl
      BY <2>4, <2>6, Deterministic
    <3>2. InSync'
      BY <1>1, <1>4, <2>3, <2>4, <3>1 DEF InSync, u
    <3> QED
      BY <3>2
  <2>7. CASE CloseOther(ctl, ctl')
    <3>1. ClosesElement(ctl) /\ ~ctl.outside
      BY <2>7 DEF CloseOther, ClosesElement, InContents, Reads
    <3>2. Close(ctl, u.ctl)
      BY <2>4, <3>1, StepsApart
    <3>3. CharAt(AfterName(ctl)) = "gt"
      <4>1. SUFFICES ASSUME CharAt(AfterName(ctl)) # "gt" PROVE FALSE
        OBVIOUS
      <4>2. u.ctl = LeaveWithError(ctl, AfterName(ctl))
        BY <3>2, <4>1 DEF Close
      <4>3. u.ctl.err
        BY <1>1, <4>2 DEF LeaveWithError, Control
      <4> QED
        BY <2>5, <4>3
    <3>4. PICK d : d = ctl'
      OBVIOUS
    <3>5. d = LeaveWithError(ctl, NameEnd(ClosingName(ctl)))
      BY <2>7, <3>4 DEF CloseOther
    <3>6. d.pos = NameEnd(ClosingName(ctl)) /\ d.err /\ ~d.outside
      BY <1>1, <3>1, <3>5 DEF LeaveWithError, Control
    <3>7. Here(d) = "gt"
      BY <3>3, <3>6 DEF Here, Ahead, AfterName
    <3>8. Here(ctl)' = "gt"
      BY <1>1, <3>4, <3>7, SameReading DEF Here, Ahead
    <3> QED
      BY <3>4, <3>6, <3>8 DEF Unwinds
  <2> QED
    BY <1>2, <2>6, <2>7
<1>10. ASSUME Unwinds
       PROVE  Unwinds'
  <2>1. ~InContents(ctl) /\ ~BeginsNode(ctl)
    BY <1>10 DEF Unwinds, InContents, Reads, BeginsNode
  <2>2. Abandon(ctl, ctl')
    BY <1>2, <2>1, StepsApart DEF CloseOther, ClosesElement, CtlNext, IsText, Close, ReadText, BadText,
                                  EndInContents
  <2>3. PICK d : d = ctl'
    OBVIOUS
  <2>4. d.pos = ctl.pos /\ d.err = ctl.err /\ d.outside = ctl.outside
    BY <1>1, <2>2, <2>3 DEF Abandon, Leave, Control
  <2>5. Here(d) = "gt"
    BY <1>10, <2>4 DEF Unwinds, Here, Ahead
  <2>6. Here(ctl)' = "gt"
    BY <1>1, <2>3, <2>5, SameReading DEF Here, Ahead
  <2> QED
    BY <1>10, <2>3, <2>4, <2>6 DEF Unwinds
<1>11. Retraces'
  BY <1>1, <1>5, <1>9, <1>10 DEF Retraces
<1>12. AtTheEnd' /\ Returned'
  BY <1>1 DEF AtTheEnd, Returned
<1> QED
  BY <1>6, <1>8, <1>11, <1>12 DEF IPass

LEMMA ResizeStep ==
    ASSUME Typed, IPass, Resize
    PROVE  IPass'
<1>1. /\ src' = src /\ trace' = trace /\ pass = 1 /\ pass' = 2 /\ capacity_' = capacity_
      /\ step' = 1 /\ cur_ndex_' = 1 /\ error1' = StopsWithError /\ Halted(ctl)
      /\ ctl' = [StartOfText EXCEPT !.err = StopsWithError]
      /\ src \in Seq(Char) /\ ctl.err \in BOOLEAN
  BY DEF Typed, ReaderTypeOK, Control, Resize
<1>2. TraceOK /\ ctl = Last.ctl /\ capacity_ = Last.n
  BY <1>1 DEF IPass, AtTheEnd
<1>3. TraceOK' /\ Last' = Last
  BY <1>1, <1>2, TraceKept
<1>4. /\ Here(Last.ctl)' = Here(Last.ctl) /\ (Halted(Last.ctl)' <=> Halted(Last.ctl))
      /\ StartOfText' = StartOfText
  BY <1>1, <1>3, SameText
<1>5. StopsWithError \in BOOLEAN /\ (StopsWithError <=> Last.ctl.err \/ Here(Last.ctl) # "nul")
  BY <1>1, <1>2, Zenon DEF StopsWithError
<1>6. (ctl').err = StopsWithError
  BY <1>1, StartTyped DEF Control
<1>7. Counted'
  BY <1>1, <1>2, <1>3, <1>4, <1>5, <1>6 DEF Counted
<1>8. ASSUME ~error1' PROVE InSync'
  <2>1. StopsWithError = FALSE
    BY <1>1, <1>5, <1>8
  <2>2. ctl' = StartOfText
    BY <1>1, <2>1, StartTyped DEF StartOfText
  <2>3. trace[1] = [ctl |-> StartOfText, n |-> 1] /\ 1 \in 1 .. Len(trace)
    BY <1>2, TraceTyped DEF TraceOK
  <2>4. trace[1].ctl = ctl' /\ trace[1].n = 1
    BY <2>2, <2>3
  <2> QED
    BY <1>1, <2>3, <2>4 DEF InSync
<1>9. Retraces' /\ AtTheEnd' /\ Returned'
  BY <1>1, <1>8 DEF Retraces, AtTheEnd, Returned
<1> QED
  BY <1>3, <1>7, <1>9 DEF IPass

\* parse returns a tree only from the end of the trace.
LEMMA ReturnStep ==
    ASSUME Typed, IPass, ParseReturns
    PROVE  IPass'
<1>1. /\ src' = src /\ trace' = trace /\ pass = 2 /\ pass' = 3 /\ capacity_' = capacity_
      /\ cur_ndex_' = cur_ndex_ /\ error1' = error1 /\ Halted(ctl) /\ ctl \in Control
      /\ ctl' = [ctl EXCEPT !.err = StopsWithError]
      /\ src \in Seq(Char)
  BY DEF Typed, ReaderTypeOK, ParseReturns, data
<1>2. TraceOK /\ Counted /\ Retraces
  BY DEF IPass
<1>3. TraceOK' /\ Last' = Last
  BY <1>1, <1>2, TraceKept
<1>4. Here(Last.ctl)' = Here(Last.ctl) /\ (Halted(Last.ctl)' <=> Halted(Last.ctl))
  BY <1>1, <1>3, SameText
<1>5. (ctl').err = StopsWithError
  BY <1>1 DEF Control
<1>6. Counted'
  BY <1>1, <1>2, <1>3, <1>4, <1>5 DEF Counted, StopsWithError
<1>7. ASSUME ~(ctl').err PROVE cur_ndex_ = capacity_
  <2>1. ~ctl.err /\ Here(ctl) = "nul"
    BY <1>5, <1>7, Zenon DEF StopsWithError
  <2>2. ~error1
    BY <1>1, <1>2, <2>1 DEF Counted
  <2>3. InSync
    BY <1>1, <1>2, <2>1, <2>2 DEF Retraces, Unwinds
  <2>4. step = Len(trace)
    <3>1. SUFFICES ASSUME step # Len(trace) PROVE FALSE
      OBVIOUS
    <3>2. Follows(trace[step], trace[step + 1])
      BY <1>1, <1>2, <2>3, <3>1, OnTheWay
    <3>3. CtlNext(ctl, trace[step + 1].ctl)
      BY <2>3, <3>2 DEF InSync, Follows
    <3> QED
      BY <1>1, <3>3, HaltedIsFinal
  <2> QED
    BY <1>1, <1>2, <2>3, <2>4, OnTheWay
<1>8. Returned'
  BY <1>1, <1>7 DEF Returned
<1>9. Retraces' /\ AtTheEnd'
  BY <1>1 DEF Retraces, AtTheEnd
<1> QED
  BY <1>3, <1>6, <1>8, <1>9 DEF IPass

LEMMA StutterStep ==
    ASSUME IPass, UNCHANGED readerVars
    PROVE  IPass'
<1>1. /\ src' = src /\ trace' = trace /\ pass' = pass /\ capacity_' = capacity_ /\ ctl' = ctl
      /\ cur_ndex_' = cur_ndex_ /\ error1' = error1 /\ step' = step
  BY DEF readerVars, data
<1>2. TraceOK' /\ Last' = Last
  BY <1>1, TraceKept DEF IPass
<1>3. /\ Here(Last.ctl)' = Here(Last.ctl) /\ (Halted(Last.ctl)' <=> Halted(Last.ctl))
      /\ Here(ctl)' = Here(ctl)
  BY <1>1, <1>2, SameText
<1>4. AtTheEnd' /\ Counted' /\ Retraces' /\ Returned'
  BY <1>1, <1>2, <1>3 DEF IPass, AtTheEnd, Counted, Retraces, Returned, InSync, Unwinds
<1> QED
  BY <1>2, <1>4 DEF IPass

LEMMA StepPass == Typed /\ IPass /\ [ReaderNext]_readerVars => IPass'
<1> SUFFICES ASSUME Typed, IPass, [ReaderNext]_readerVars PROVE IPass'
  OBVIOUS
<1>1. CASE Parse
  BY <1>1, CountingStep, FillingStep DEF Parse
<1>2. CASE Resize
  BY <1>2, ResizeStep
<1>3. CASE ParseReturns
  BY <1>3, ReturnStep
<1>4. CASE UNCHANGED readerVars
  BY <1>4, StutterStep
<1> QED
  BY <1>1, <1>2, <1>3, <1>4 DEF ReaderNext

LEMMA Invariance == ReaderSpec => [](Typed /\ IPass)
<1>1. ReaderInit => Typed /\ IPass
  BY InitTyped, InitPass
<1>2. Typed /\ IPass /\ [ReaderNext]_readerVars => Typed' /\ IPass'
  BY StepTyped, StepPass
<1> QED
  BY <1>1, <1>2, PTL DEF ReaderSpec

\* Filling a text that was counted without an error asks for no node that was
\* not counted: the assert of allocValue (node.h:50) holds for it, also after a
\* closing tag of another name (reader.cpp:301-306).
THEOREM AllocationFits == ReaderSpec => []AllocInBounds
<1>1. Typed /\ IPass => AllocInBounds
  <2> SUFFICES ASSUME Typed, IPass, pass = 2, ~error1, BeginsNode(ctl)
               PROVE  cur_ndex_ < Len(values_)
    BY DEF AllocInBounds
  <2>1. TraceOK /\ Counted /\ (InSync \/ Unwinds)
    BY DEF IPass, Retraces
  <2>2. ~Unwinds
    BY DEF Unwinds, BeginsNode
  <2>3. InSync /\ ctl \in Control
    BY <2>1, <2>2 DEF Typed, ReaderTypeOK
  <2>4. ~Halted(ctl)
    BY <2>3, HaltedIsFinal
  <2>5. step # Len(trace)
    BY <2>1, <2>3, <2>4, OnTheWay
  <2>6. Follows(trace[step], trace[step + 1]) /\ trace[step + 1].n <= capacity_
    BY <2>1, <2>3, <2>5, OnTheWay
  <2>7. trace[step + 1].n = cur_ndex_ + 1
    BY <2>3, <2>6 DEF InSync, Follows
  <2>8. cur_ndex_ \in Nat /\ Len(values_) = capacity_ /\ capacity_ \in Nat
    BY DEF Typed, ReaderTypeOK
  <2> QED
    BY <2>6, <2>7, <2>8
<1> QED
  BY <1>1, Invariance, PTL

\* A tree that is returned has every node that was counted (reader.cpp:93-141).
THEOREM AllNodesUsed == ReaderSpec => []PassesAgree
<1>1. Typed /\ IPass => PassesAgree
  BY DEF PassesAgree, Accepted, IPass, Returned
<1> QED
  BY <1>1, Invariance, PTL

=============================================================================
