----------------------------- MODULE XMLReader -----------------------------
(***************************************************************************)
(* xml::Reader: parses a text twice, once to count the nodes of its tree   *)
(* and once, in an array of exactly that many nodes, to link and fill      *)
(* them.  Unlike the JSON reader it looks at the error it has recorded,    *)
(* also at that of the first pass, and compares the names of tags only     *)
(* where it has a node, that is, in the second pass.                       *)
(*                                                                         *)
(* `ctl' is where the recursive descent is: `pos' in the text, `depth' the *)
(* number of parseNodeContents that have not returned (0: the loop of      *)
(* parse), `err' whether str_error_ is set.                                *)
(***************************************************************************)
EXTENDS Integers, Sequences

CONSTANT Inputs     \* the texts given to Reader::parse

(***************************************************************************)
(* The characters control tells apart.  A word stands for its letters, ws  *)
(* for any white space, x and y for two other characters that are no hex   *)
(* digits; ref for &# and the digits of a code, toobig if that is from     *)
(* 0x110000 on.                                                            *)
(***************************************************************************)
Char == {"lt", "gt", "slash", "bang", "quest", "dash", "lbr", "rbr", "eq", "semi", "ws",
         "ref", "toobig", "bom", "xml", "CDATA", "DOCTYPE", "serialflex", "x", "y"}

ASSUME InputsAssumption == Inputs \subseteq Seq(Char)

NULL == 0           \* no node; nodes are positions of values_

NODE_DOCUMENT == 1
NODE_ELEMENT == 2
NODE_CDATA == 4
NODE_COMMENT == 5
NODE_DECLARATION == 6
NODE_DOCTYPE == 7
NODE_PI == 8
UNRECOGNIZED == -1  \* <! and something else: the node keeps its first type

VARIABLES
    src,            \* the text
    pass,           \* 1: counting, 2: filling, 3: parse has returned
    ctl,            \* where the descent is
    capacity_,      \* allocator: nodes counted by operator++
    cur_ndex_,      \* allocator: nodes handed out by allocValue
    values_,        \* the node array, empty until reSize
    cur_value_,     \* the node being filled, NULL in the first pass
    temps,          \* the local `temp' of every open element's caller
    error1,         \* history: has the first pass recorded an error?
    trace,          \* history: ctl and capacity_ of the first pass
    step            \* history: the steps the second pass has taken

data == <<cur_ndex_, values_, cur_value_, temps>>
readerVars == <<src, pass, ctl, capacity_, data, error1, trace, step>>

Control == [pos : Nat \ {0}, depth : Nat, err : BOOLEAN, outside : BOOLEAN]
Node == [type : -1 .. 8, key : Nat, key_size : Nat, value : Nat, value_size : Nat,
         prev : Nat, next : Nat, child : Nat]
Blank == [type |-> -1, key |-> 0, key_size |-> 0, value |-> 0, value_size |-> 0,
          prev |-> NULL, next |-> NULL, child |-> NULL]

-----------------------------------------------------------------------------
(***************************************************************************)
(* Reading at a position of the text.                                      *)
(***************************************************************************)
CharAt(p) == IF p <= Len(src) THEN src[p] ELSE "nul"
Begins(p, word) == \A i \in 1 .. Len(word) : CharAt(p + i - 1) = word[i]

\* skip<f>: to the first character that is not one of chars.
Skip(p, chars) ==
    CHOOSE q \in p .. Len(src) + 1 : CharAt(q) \notin chars /\ \A i \in p .. q - 1 : CharAt(i) \in chars

Spaces == {"ws"}
NameChar == Char \ {"ws", "slash", "gt", "quest"}
AttributeChar == NameChar \ {"bang", "lt", "eq"}

\* What begins at p, after a <.
KindAt(p) ==
    IF CharAt(p) = "quest"
    THEN IF Begins(p + 1, <<"xml", "ws">>) THEN NODE_DECLARATION ELSE NODE_PI
    ELSE IF CharAt(p) # "bang" THEN NODE_ELEMENT
    ELSE IF Begins(p, <<"bang", "dash", "dash">>) THEN NODE_COMMENT
    ELSE IF Begins(p, <<"bang", "lbr", "CDATA", "lbr">>) THEN NODE_CDATA
    ELSE IF Begins(p, <<"bang", "DOCTYPE", "ws">>) THEN NODE_DOCTYPE
    ELSE UNRECOGNIZED

\* How many characters open it, and those that close it.
OpenerSize(kind) == CASE kind \in {NODE_DECLARATION, NODE_COMMENT, NODE_DOCTYPE} -> 3
                      [] kind = NODE_CDATA -> 4
                      [] OTHER -> 1
Closer(kind) == CASE kind \in {NODE_DECLARATION, NODE_PI} -> <<"quest", "gt">>
                  [] kind = NODE_COMMENT -> <<"dash", "dash", "gt">>
                  [] kind = NODE_CDATA -> <<"rbr", "rbr", "gt">>
                  [] OTHER -> <<"gt">>

\* skipDoctype counts the brackets that are open.
Brackets(p, q) ==
    LET open[i \in p .. q] ==
            IF i = p THEN 0
            ELSE IF CharAt(i - 1) = "lbr" THEN open[i - 1] + 1
            ELSE IF CharAt(i - 1) = "rbr" /\ open[i - 1] > 0 THEN open[i - 1] - 1
            ELSE open[i - 1]
    IN  open[q]

\* Where its closer stands, if it has one.
Closes(p, q) == /\ q \in p + OpenerSize(KindAt(p)) .. Len(src)
                /\ Begins(q, Closer(KindAt(p)))
                /\ KindAt(p) = NODE_DOCTYPE => Brackets(p + OpenerSize(NODE_DOCTYPE), q) = 0
IsClosed(p) == \E q \in p .. Len(src) : Closes(p, q)
CloserAt(p) == CHOOSE q \in p .. Len(src) : Closes(p, q) /\ \A i \in p .. q - 1 : ~Closes(p, i)
MarkupEnd(p) == CloserAt(p) + Len(Closer(KindAt(p)))

\* An element's name ends, and so does all that is skipped of its attributes.
NameEnd(p) == Skip(p, NameChar)
TagTail(p) == Skip(Skip(NameEnd(p), Spaces), AttributeChar)

\* Text ends before < or the end; a reference to a character must be sound.
TextEnd(p) == Skip(p, Char \ {"lt"})
BadRef(p, q) == /\ q \in p .. TextEnd(p) - 1
                /\ \/ CharAt(q) = "toobig"
                   \/ CharAt(q) = "ref" /\ CharAt(q + 1) # "semi"
HasBadRef(p) == \E q \in p .. Len(src) : BadRef(p, q)
FirstBadRef(p) == CHOOSE q \in p .. Len(src) : BadRef(p, q) /\ \A i \in p .. q - 1 : ~BadRef(p, i)

-----------------------------------------------------------------------------
(***************************************************************************)
(* Control.  A(c, d) is the step A of the descent from c to d, and the     *)
(* same in both passes.                                                    *)
(***************************************************************************)
To(c, p) == [c EXCEPT !.pos = p]
ToError(c, p) == [c EXCEPT !.pos = p, !.err = TRUE]
Leave(c, p) == [c EXCEPT !.pos = p, !.depth = @ - 1]
LeaveWithError(c, p) == [c EXCEPT !.pos = p, !.depth = @ - 1, !.err = TRUE]

Ahead(c) == Skip(c.pos, Spaces)     \* both loops skip white space first
Here(c) == CharAt(Ahead(c))

\* parseNodeContents looks for an error first, the loop of parse does not.
Reads(c) == ~c.outside /\ (c.depth > 0 => ~c.err)
InContents(c) == Reads(c) /\ c.depth > 0

ClosesElement(c) == InContents(c) /\ Here(c) = "lt" /\ CharAt(Ahead(c) + 1) = "slash"
BeginsNode(c) == Reads(c) /\ Here(c) = "lt" /\ ~ClosesElement(c)
Start(c) == Ahead(c) + 1            \* `src' in parseNode
BeginsElement(c) == BeginsNode(c) /\ KindAt(Start(c)) = NODE_ELEMENT

HasName(c) == NameEnd(Start(c)) > Start(c)
TailAt(c, k) == CharAt(TagTail(Start(c)) + k)

\* parseNode and parseElement: the element has contents, is empty, or wrong.
OpenElement(c, d) ==
    /\ BeginsElement(c) /\ HasName(c) /\ TailAt(c, 0) = "gt"
    /\ d = [c EXCEPT !.pos = TagTail(Start(c)) + 1, !.depth = @ + 1]

EmptyElement(c, d) ==
    /\ BeginsElement(c) /\ HasName(c) /\ TailAt(c, 0) = "slash" /\ TailAt(c, 1) = "gt"
    /\ d = To(c, TagTail(Start(c)) + 2)

IsBad(c) == \/ ~HasName(c)
            \/ TailAt(c, 0) \notin {"gt", "slash"}
            \/ TailAt(c, 0) = "slash" /\ TailAt(c, 1) # "gt"

BadElement(c, d) ==
    /\ BeginsElement(c) /\ IsBad(c)
    /\ d = ToError(c, IF ~HasName(c) THEN Start(c)
                      ELSE IF TailAt(c, 0) = "slash" THEN TagTail(Start(c)) + 1 ELSE TagTail(Start(c)))

\* parseNode with skipXmlDeclaration, skipPi, skipComment, parseCdata, skipDoctype.
Markup(c, d) ==
    /\ BeginsNode(c) /\ KindAt(Start(c)) # NODE_ELEMENT /\ IsClosed(Start(c))
    /\ d = To(c, MarkupEnd(Start(c)))

\* A mutant: the other kinds do as the unrecognized.
CutAnyMarkup(c, d) ==
    /\ BeginsNode(c) /\ KindAt(Start(c)) # NODE_ELEMENT /\ ~IsClosed(Start(c))
    /\ d = [ToError(c, Len(src) + 1) EXCEPT !.outside = TRUE]
\* No closer.  What is not recognized has its > skipped all the same, beyond
\* the end of the text, where nothing is known of what is read.
CutMarkup(c, d) ==
    /\ BeginsNode(c) /\ KindAt(Start(c)) # NODE_ELEMENT /\ ~IsClosed(Start(c))
    /\ d = [ToError(c, Len(src) + 1) EXCEPT !.outside = (KindAt(Start(c)) = UNRECOGNIZED)]

\* parseNodeContents
Abandon(c, d) == ~c.outside /\ c.depth > 0 /\ c.err /\ d = Leave(c, c.pos)
EndInContents(c, d) == InContents(c) /\ Here(c) = "nul" /\ d = LeaveWithError(c, Ahead(c))

ClosingName(c) == Ahead(c) + 2
AfterName(c) == Skip(NameEnd(ClosingName(c)), Spaces)

\* A mutant: no white space is skipped after the name.
CloseTightly(c, d) ==
    /\ ClosesElement(c)
    /\ IF CharAt(NameEnd(ClosingName(c))) = "gt"
       THEN d = Leave(c, NameEnd(ClosingName(c)) + 1)
       ELSE d = LeaveWithError(c, NameEnd(ClosingName(c)))
Close(c, d) ==
    /\ ClosesElement(c)
    /\ IF CharAt(AfterName(c)) = "gt" THEN d = Leave(c, AfterName(c) + 1)
                                      ELSE d = LeaveWithError(c, AfterName(c))

\* Only where there is a node to compare the name with.
CloseOther(c, d) == ClosesElement(c) /\ d = LeaveWithError(c, NameEnd(ClosingName(c)))

\* parseAndAppendData
IsText(c) == InContents(c) /\ Here(c) \notin {"nul", "lt"}
ReadText(c, d) == IsText(c) /\ ~HasBadRef(Ahead(c)) /\ d = To(c, TextEnd(Ahead(c)))
BadText(c, d) == IsText(c) /\ HasBadRef(Ahead(c)) /\ d = ToError(c, FirstBadRef(Ahead(c)) + 1)

CtlNext(c, d) ==
    \/ OpenElement(c, d) \/ EmptyElement(c, d) \/ BadElement(c, d)
    \/ Markup(c, d)      \/ CutMarkup(c, d)
    \/ Abandon(c, d)     \/ EndInContents(c, d)
    \/ Close(c, d)       \/ ReadText(c, d)     \/ BadText(c, d)

\* The loop of parse ends, with an error unless the text does.
Halted(c) == ~c.outside /\ c.depth = 0 /\ Here(c) # "lt"

\* A byte order mark and white space are skipped before both passes.
StartOfText == [pos |-> Skip(IF CharAt(1) = "bom" THEN 2 ELSE 1, Spaces),
                depth |-> 0, err |-> FALSE, outside |-> FALSE]

-----------------------------------------------------------------------------
(***************************************************************************)
(* Data: what a step does besides moving.                                  *)
(***************************************************************************)
New == IF cur_value_ = NULL THEN NULL ELSE cur_ndex_ + 1

\* The last of the siblings from node i on.
LastFrom[i \in 1 .. Len(values_)] ==
    IF values_[i].next = NULL THEN i ELSE LastFrom[values_[i].next]
FirstChild == values_[cur_value_].child

\* A mutant: a later child names the parent, too, not the child before it.
PrevIsParent == cur_value_
PrevOfNew == IF FirstChild = NULL THEN cur_value_ ELSE LastFrom[FirstChild]

Linked == [values_ EXCEPT ![PrevOfNew] =
              IF FirstChild = NULL THEN [@ EXCEPT !.child = New] ELSE [@ EXCEPT !.next = New]]

\* The assert of allocValue guards the step.
Hand(node) ==
    /\ cur_ndex_ < Len(values_)
    /\ cur_ndex_' = New
    /\ values_' = [Linked EXCEPT ![New] = [node EXCEPT !.prev = PrevOfNew]]
    /\ UNCHANGED capacity_

\* Mutants: only elements are counted; an element is counted at both its ends.
CountElements(node) ==
    \/ /\ cur_value_ = NULL
       /\ capacity_' = IF node.type = NODE_ELEMENT THEN capacity_ + 1 ELSE capacity_
       /\ UNCHANGED <<cur_ndex_, values_>>
    \/ cur_value_ # NULL /\ Hand(node)
CountTwice(node) ==
    \/ /\ cur_value_ = NULL
       /\ capacity_' = IF node.type = NODE_ELEMENT THEN capacity_ + 2 ELSE capacity_ + 1
       /\ UNCHANGED <<cur_ndex_, values_>>
    \/ cur_value_ # NULL /\ Hand(node)

\* allocNode, and then setNodeType, setNodeKey and setNodeValue on the new node.
allocNode(node) ==
    \/ cur_value_ = NULL /\ capacity_' = capacity_ + 1 /\ UNCHANGED <<cur_ndex_, values_>>
    \/ cur_value_ # NULL /\ Hand(node)

NewElement ==
    LET name == Start(ctl) IN
    IF HasName(ctl) THEN [Blank EXCEPT !.type = NODE_ELEMENT, !.key = name,
                                       !.key_size = NameEnd(name) - name]
                    ELSE [Blank EXCEPT !.type = NODE_ELEMENT]

\* A CDATA node's value is all between < and >.  What is cut off gets no type.
NewMarkup ==
    LET from == Start(ctl)
        kind == KindAt(from)
    IN  IF ~IsClosed(from) THEN Blank
        ELSE IF kind = NODE_CDATA
             THEN [Blank EXCEPT !.type = kind, !.value = from, !.value_size = MarkupEnd(from) - 1 - from]
             ELSE [Blank EXCEPT !.type = kind]

setNodeValue(value, value_size) ==
    values_' = IF cur_value_ = NULL THEN values_
               ELSE [values_ EXCEPT ![cur_value_] = [@ EXCEPT !.value = value, !.value_size = value_size]]

\* Mutants: the caller's node is not saved; it is not set again.
ForgetTemp == cur_value_' = New /\ UNCHANGED temps
KeepCursor == UNCHANGED cur_value_ /\ temps' = SubSeq(temps, 1, Len(temps) - 1)

\* Around parseNode: `temp = cur_value_' before and `cur_value_ = temp' after.
SaveTemp == cur_value_' = New /\ temps' = Append(temps, cur_value_)
RestoreTemp ==
    /\ cur_value_' = temps[Len(temps)]
    /\ temps' = SubSeq(temps, 1, Len(temps) - 1)

NameOf(node) == SubSeq(src, node.key, node.key + node.key_size - 1)
ClosingNameIs(name) == SubSeq(src, ClosingName(ctl), NameEnd(ClosingName(ctl)) - 1) = name

\* A mutant: the names of tags are not compared.
AnyName == TRUE
NameFits == cur_value_ # NULL => ClosingNameIs(NameOf(values_[cur_value_]))

-----------------------------------------------------------------------------
Element ==
    \/ OpenElement(ctl, ctl') /\ allocNode(NewElement) /\ SaveTemp
    \/ /\ EmptyElement(ctl, ctl') \/ BadElement(ctl, ctl')
       /\ allocNode(NewElement)
       /\ UNCHANGED <<cur_value_, temps>>

OtherNode ==
    /\ Markup(ctl, ctl') \/ CutMarkup(ctl, ctl')
    /\ allocNode(NewMarkup)
    /\ UNCHANGED <<cur_value_, temps>>

\* parseNodeContents returns, and so do parseElement and parseNode.
ContentsReturn ==
    /\ \/ Abandon(ctl, ctl') \/ EndInContents(ctl, ctl')
       \/ Close(ctl, ctl') /\ NameFits
       \/ CloseOther(ctl, ctl') /\ ~NameFits
    /\ RestoreTemp
    /\ UNCHANGED <<capacity_, cur_ndex_, values_>>

TextOrBad ==
    /\ \/ /\ ReadText(ctl, ctl')
          /\ setNodeValue(Ahead(ctl), TextEnd(Ahead(ctl)) - Ahead(ctl))
       \/ BadText(ctl, ctl') /\ UNCHANGED values_
    /\ UNCHANGED <<capacity_, cur_ndex_, cur_value_, temps>>

\* One step of the descent in either pass.
Parse ==
    /\ pass \in {1, 2}
    /\ Element \/ OtherNode \/ ContentsReturn \/ TextOrBad
    /\ IF pass = 1
       THEN trace' = Append(trace, [ctl |-> ctl', n |-> capacity_']) /\ UNCHANGED step
       ELSE step' = step + 1 /\ UNCHANGED trace
    /\ UNCHANGED <<src, pass, error1>>

StopsWithError == ctl.err \/ Here(ctl) # "nul"

\* Between the passes: reSize, and the first node is the document.
Resize ==
    /\ pass = 1 /\ Halted(ctl)
    /\ pass' = 2
    /\ values_' = [[i \in 1 .. capacity_ |-> Blank] EXCEPT ![1].type = NODE_DOCUMENT]
    /\ cur_ndex_' = 1 /\ cur_value_' = 1
    /\ error1' = StopsWithError
    /\ ctl' = [StartOfText EXCEPT !.err = StopsWithError] /\ step' = 1
    /\ UNCHANGED <<src, capacity_, temps, trace>>

ParseReturns ==
    /\ pass = 2 /\ Halted(ctl)
    /\ pass' = 3
    /\ ctl' = [ctl EXCEPT !.err = StopsWithError]
    /\ UNCHANGED <<src, capacity_, data, error1, trace, step>>

ReaderInit ==
    /\ src \in Inputs
    /\ pass = 1 /\ ctl = StartOfText
    /\ capacity_ = 1 /\ cur_ndex_ = 0 /\ values_ = <<>>
    /\ cur_value_ = NULL /\ temps = <<>> /\ error1 = FALSE
    /\ trace = <<[ctl |-> StartOfText, n |-> 1]>> /\ step = 0

ReaderNext == Parse \/ Resize \/ ParseReturns

\* parse is a sequential function: it goes on as long as it has a step.
ReaderSpec == ReaderInit /\ [][ReaderNext]_readerVars /\ WF_readerVars(ReaderNext)

-----------------------------------------------------------------------------
\* Every variable has its type; the first pass has no node, and the cursor and
\* all that is saved of it in the second are nodes that were handed out.
ReaderTypeOK ==
    /\ src \in Seq(Char)
    /\ pass \in {1, 2, 3}
    /\ ctl \in Control
    /\ capacity_ \in Nat \ {0} /\ cur_ndex_ \in Nat
    /\ values_ \in Seq(Node)
    /\ cur_value_ \in Nat /\ temps \in Seq(Nat) /\ Len(temps) = ctl.depth
    /\ error1 \in BOOLEAN
    /\ pass = 1 => /\ cur_value_ = NULL /\ cur_ndex_ = 0
                   /\ \A i \in 1 .. Len(temps) : temps[i] = NULL
    /\ pass # 1 => /\ Len(values_) = capacity_ /\ cur_ndex_ <= capacity_
                   /\ cur_value_ \in 1 .. cur_ndex_
                   /\ \A i \in 1 .. Len(temps) : temps[i] \in 1 .. cur_ndex_

\* For a text that is counted without an error, filling never asks for a node
\* that was not counted, not even after a closing tag of another name, which
\* only filling notices.
AllocInBounds == pass = 2 /\ ~error1 /\ BeginsNode(ctl) => cur_ndex_ < Len(values_)

\* assert(cur_ndex_ < array_.size()) of allocValue, for every text.
AllocNeverFails == pass = 2 /\ BeginsNode(ctl) => cur_ndex_ < Len(values_)

\* parse has returned its tree.
Accepted == pass = 3 /\ ~ctl.err

\* A tree that is returned has all the nodes counted.
PassesAgree == Accepted => cur_ndex_ = capacity_

\* The nodes handed out are one tree: every node but the document is the child
\* or the next of exactly the node its prev names, an earlier one.
LinksInverse ==
    pass # 1 =>
        /\ \A i \in 1 .. Len(values_) :
             \A j \in {values_[i].child, values_[i].next} \ {NULL} :
                j \in i + 1 .. cur_ndex_ /\ values_[j].prev = i
        /\ \A j \in 2 .. cur_ndex_ : LET p == values_[j].prev IN
             /\ p \in 1 .. j - 1
             /\ (values_[p].child = j) # (values_[p].next = j)

=============================================================================
