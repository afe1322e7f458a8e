----------------------------- MODULE JSONReader -----------------------------
(***************************************************************************)
(* json::Reader: parses a JSON text twice, once to count the nodes of its  *)
(* tree and once, in an array of exactly that many nodes, to link and fill *)
(* them.  Both passes run the same functions; `cur_value_' is NULL in the  *)
(* first, so that getChildItem counts and the set* functions do nothing.   *)
(*                                                                         *)
(* The text is a sequence of tokens.  White space only separates them, and *)
(* what a string or a number spells is abstracted to the kinds that        *)
(* control distinguishes.  The C++ call stack of the recursive descent is  *)
(* `ctl': where the innermost function is, the position in the text and a  *)
(* frame for every parseArray or parseObject that has not returned.        *)
(***************************************************************************)
EXTENDS Integers, Sequences, FiniteSets

CONSTANT Inputs     \* the texts given to Reader::parse

(***************************************************************************)
(*   string   a string with at least one character                         *)
(*   empty    ""                                                           *)
(*   open     a string whose closing quote is missing: runs to the end     *)
(*   number   a non-empty run of digits, '-' and '.'                       *)
(*   bool     true or false                                                *)
(*   badword  a beginning of null, true or false only                      *)
(*   junk     a character no value begins with                             *)
(***************************************************************************)
Quoted == {"string", "empty", "open"}
Token == {"lbrace", "rbrace", "lbracket", "rbracket", "colon", "comma",
          "number", "null", "bool", "badword", "junk"} \cup Quoted

ASSUME InputsAssumption == Inputs \subseteq Seq(Token)

NULL == 0           \* no node; nodes are positions of values_

VARIABLES
    src,            \* the text
    pass,           \* 1: counting, 2: filling, 3: parse has returned
    ctl,            \* the functions that are running, see Control
    str_error_,     \* has setError been called?
    capacity_,      \* allocator: nodes counted by operator++
    cur_ndex_,      \* allocator: nodes handed out by allocValue
    values_,        \* the node array, empty until reSize
    cur_value_,     \* the node being filled, NULL in the first pass
    parents,        \* the local `parent' of every parseValue in progress
    failed,         \* the asserts of set* that did not hold
    trace,          \* history: ctl, capacity_ and str_error_ of the first pass
    step            \* history: the steps the second pass has taken

data == <<cur_ndex_, values_, cur_value_, parents, failed>>
readerVars == <<src, pass, ctl, str_error_, capacity_, data, trace, step>>

Call == [kind : {"array", "object"}, index : Nat]
Control == {c \in [pc : {"value", "element", "member", "after"},
                   pos : Nat \ {0}, stack : Seq(Call)] :
                c.pc \in {"element", "member"} => c.stack # <<>>}
Type == {"none", "null", "bool", "number", "string", "array", "object"}

-----------------------------------------------------------------------------
(***************************************************************************)
(* Control.  An operator A(c, d) is the step A of the descent from control *)
(* state c to control state d: the part of the code that is the same in    *)
(* both passes.                                                            *)
(***************************************************************************)
\* StringStream::Peek, "end" is '\0'.
Peek(c) == IF c.pos <= Len(src) THEN src[c.pos] ELSE "end"
PeekNext(c) == Peek([c EXCEPT !.pos = @ + 1])

Innermost(c) == c.stack[Len(c.stack)]
InsideArray(c) == c.stack # <<>> /\ Innermost(c).kind = "array"
InsideObject(c) == c.stack # <<>> /\ Innermost(c).kind = "object"

At(pc, pos, stack) == [pc |-> pc, pos |-> pos, stack |-> stack]
Return(c, pos) == At("after", pos, SubSeq(c.stack, 1, Len(c.stack) - 1))
NextIndex(c) == [c.stack EXCEPT ![Len(c.stack)].index = @ + 1]

StartOfText == At(IF src = <<>> THEN "after" ELSE "value", 1, <<>>)
Halted(c) == c.pc = "after" /\ c.stack = <<>>

\* Where the scan of the value that begins here stops.  A character that
\* begins no value is a number of no digits: nothing is read.
ScalarEnd(c) ==
    CASE Peek(c) = "open" -> Len(src) + 1
      [] Peek(c) \in {"string", "empty", "number", "null", "bool", "badword"} -> c.pos + 1
      [] OTHER -> c.pos

\* parseNull, parseTrue, parseFalse, parseString, parseNumber
ParseScalar(c, d) ==
    /\ c.pc = "value"
    /\ Peek(c) \notin {"lbracket", "lbrace"}
    /\ d = At("after", ScalarEnd(c), c.stack)

ClosesAtOnce(c) == \/ Peek(c) = "lbracket" /\ PeekNext(c) = "rbracket"
                   \/ Peek(c) = "lbrace" /\ PeekNext(c) = "rbrace"

\* parseArray and parseObject up to their loops
ParseEmpty(c, d) ==
    /\ c.pc = "value"
    /\ ClosesAtOnce(c)
    /\ d = At("after", c.pos + 2, c.stack)

BeginArray(c, d) ==
    /\ c.pc = "value" /\ Peek(c) = "lbracket" /\ ~ClosesAtOnce(c)
    /\ d = At("element", c.pos + 1, Append(c.stack, [kind |-> "array", index |-> 0]))

BeginObject(c, d) ==
    /\ c.pc = "value" /\ Peek(c) = "lbrace" /\ ~ClosesAtOnce(c)
    /\ d = At("member", c.pos + 1, Append(c.stack, [kind |-> "object", index |-> 0]))

\* The head of the loop of parseArray: getChildItem, then parseValue.
Element(c, d) ==
    /\ c.pc = "element"
    /\ d = At("value", c.pos, c.stack)

\* parseArray after parseValue.  Anything but , and ] is an error and returns.
ArrayNext(c, d) ==
    /\ c.pc = "after" /\ InsideArray(c) /\ Peek(c) = "comma"
    /\ d = At("element", c.pos + 1, NextIndex(c))

ArrayReturn(c, d) ==
    /\ c.pc = "after" /\ InsideArray(c) /\ Peek(c) # "comma"
    /\ d = Return(c, IF Peek(c) = "rbracket" THEN c.pos + 1 ELSE c.pos)

\* The head of the loop of parseObject: the key and its colon.
Member(c, d) ==
    /\ c.pc = "member"
    /\ Peek(c) \in Quoted \ {"open"} /\ PeekNext(c) = "colon"
    /\ d = At("value", c.pos + 2, c.stack)

MemberReturn(c, d) ==
    /\ c.pc = "member"
    /\ ~(Peek(c) \in Quoted \ {"open"} /\ PeekNext(c) = "colon")
    /\ d = Return(c, IF Peek(c) \in Quoted THEN ScalarEnd(c) ELSE c.pos)

\* parseObject after parseValue.  Anything but , and } is an error, but the
\* `break' after it only leaves the switch: the loop goes on.
ObjectNext(c, d) ==
    /\ c.pc = "after" /\ InsideObject(c) /\ Peek(c) # "rbrace"
    /\ d = At("member", IF Peek(c) = "comma" THEN c.pos + 1 ELSE c.pos, NextIndex(c))

ObjectReturn(c, d) ==
    /\ c.pc = "after" /\ InsideObject(c) /\ Peek(c) = "rbrace"
    /\ d = Return(c, c.pos + 1)

CtlNext(c, d) ==
    \/ ParseScalar(c, d) \/ ParseEmpty(c, d)
    \/ BeginArray(c, d)   \/ BeginObject(c, d)
    \/ Element(c, d)     \/ ArrayNext(c, d)    \/ ArrayReturn(c, d)
    \/ Member(c, d)      \/ MemberReturn(c, d)
    \/ ObjectNext(c, d)  \/ ObjectReturn(c, d)

\* The steps that call getChildItem, and those that call setError.  A number
\* that runs into the end of the text is an error; the end of the text at the
\* head of the loop of parseObject is none.
Allocates(c) == \/ c.pc = "element"
                \/ c.pc = "member" /\ Peek(c) \in Quoted

NoValue(c) == \/ Peek(c) \in {"open", "badword", "end"}
              \/ Peek(c) = "number" /\ PeekNext(c) = "end"

\* A mutant: an element followed by neither , nor ] just ends the array.
FailsMissingElse(c) ==
    \/ c.pc = "value" /\ NoValue(c)
    \/ c.pc = "member" /\ Peek(c) # "end"
         /\ ~(Peek(c) \in Quoted \ {"open"} /\ PeekNext(c) = "colon")
    \/ c.pc = "after" /\ InsideObject(c) /\ Peek(c) \notin {"comma", "rbrace"}

\* A mutant: a missing colon is noticed only where a node can be marked.
FailsInSecondPass(c) ==
    \/ c.pc = "value" /\ NoValue(c)
    \/ c.pc = "member" /\ Peek(c) # "end" /\ cur_value_ # NULL
         /\ ~(Peek(c) \in Quoted \ {"open"} /\ PeekNext(c) = "colon")
    \/ c.pc = "after" /\ InsideArray(c) /\ Peek(c) \notin {"comma", "rbracket"}
    \/ c.pc = "after" /\ InsideObject(c) /\ Peek(c) \notin {"comma", "rbrace"}

Fails(c) ==
    \/ c.pc = "value" /\ NoValue(c)
    \/ c.pc = "member" /\ Peek(c) # "end"
         /\ ~(Peek(c) \in Quoted \ {"open"} /\ PeekNext(c) = "colon")
    \/ c.pc = "after" /\ InsideArray(c) /\ Peek(c) \notin {"comma", "rbracket"}
    \/ c.pc = "after" /\ InsideObject(c) /\ Peek(c) \notin {"comma", "rbrace"}

-----------------------------------------------------------------------------
(***************************************************************************)
(* Data: what a step does besides moving.  Every function tests            *)
(* cur_value_ # NULL, that is, whether this is the second pass.            *)
(***************************************************************************)
Blank == [type |-> "none", key |-> 0, value |-> 0, value_size |-> 0,
          prev |-> NULL, next |-> NULL, child |-> NULL]

\* keys and values are positions of the text, 0 is a null pointer;
\* of a size only "is it zero" is kept
Node == [type : Type, key : Nat, value : Nat, value_size : {0, 1},
         prev : Nat, next : Nat, child : Nat]

\* What parseValue passes to setItemValue for the token it has read.
ValueType(t) == CASE t \in {"string", "empty"} -> "string"
                  [] t = "null" -> "null"
                  [] t = "bool" -> "bool"
                  [] OTHER -> "number"
ValueSize(t) == IF t \in {"string", "number", "null", "bool"} THEN 1 ELSE 0

setItemType(type) ==
    values_' = IF cur_value_ = NULL THEN values_
               ELSE [values_ EXCEPT ![cur_value_].type = type]

\* assert(type == VALUE_STRING || value_size)
setItemValue(t) ==
    IF cur_value_ = NULL THEN UNCHANGED <<values_, failed>>
    ELSE /\ values_' = [values_ EXCEPT ![cur_value_] =
                [@ EXCEPT !.type = ValueType(t), !.value = ctl.pos,
                          !.value_size = ValueSize(t)]]
         /\ failed' = IF ValueType(t) # "string" /\ ValueSize(t) = 0
                      THEN failed \cup {"value_size"} ELSE failed

Child == IF cur_value_ = NULL THEN NULL ELSE cur_ndex_ + 1

\* A mutant: every child hangs off the `child' of the cursor.
LinkToChild(node) == [node EXCEPT !.child = Child]

\* The first child of a container hangs off `child', the others off the
\* `next' of the child before them.
LinkTo(node) == IF Innermost(ctl).index = 0 THEN [node EXCEPT !.child = Child]
                                      ELSE [node EXCEPT !.next = Child]

Linked == [values_ EXCEPT ![cur_value_] = LinkTo(@)]

\* A mutant: only the first child of a container is counted.
CountFirstChild(key) ==
    IF cur_value_ = NULL
    THEN /\ capacity_' = IF Innermost(ctl).index = 0 THEN capacity_ + 1 ELSE capacity_
         /\ UNCHANGED <<cur_ndex_, values_, failed>>
    ELSE /\ cur_ndex_ < Len(values_)
         /\ cur_ndex_' = Child
         /\ values_' = [Linked EXCEPT ![Child] = [@ EXCEPT !.prev = cur_value_, !.key = key]]
         /\ UNCHANGED <<capacity_, failed>>

\* getChildItem, and for a member setItemKey (key = 0: no key is set).  The
\* assert of allocValue guards the step: without it array_.at throws.
getChildItem(key) ==
    IF cur_value_ = NULL
    THEN capacity_' = capacity_ + 1 /\ UNCHANGED <<cur_ndex_, values_, failed>>
    ELSE /\ cur_ndex_ < Len(values_)
         /\ cur_ndex_' = Child
         /\ values_' = [Linked EXCEPT ![Child] = [@ EXCEPT !.prev = cur_value_, !.key = key]]
         /\ failed' = IF key # 0 /\ src[key] = "empty"
                      THEN failed \cup {"key_size"} ELSE failed
         /\ UNCHANGED capacity_

\* Mutants: the cursor is not saved; it stays on the last child.
ForgetCursor == UNCHANGED <<parents, cur_value_>>
KeepCursor ==
    /\ UNCHANGED cur_value_
    /\ parents' = SubSeq(parents, 1, Len(parents) - 1)

\* parseValue around parseArray and parseObject: `parent = cur_value_' before
\* and `cur_value_ = parent' after.
SaveCursor == parents' = Append(parents, cur_value_) /\ UNCHANGED cur_value_
RestoreCursor ==
    /\ cur_value_' = parents[Len(parents)]
    /\ parents' = SubSeq(parents, 1, Len(parents) - 1)

KeyAt(c) == IF Peek(c) = "open" THEN 0 ELSE c.pos

-----------------------------------------------------------------------------
Scalar ==
    /\ ParseScalar(ctl, ctl')
    /\ IF NoValue(ctl) THEN UNCHANGED <<values_, failed>> ELSE setItemValue(Peek(ctl))
    /\ UNCHANGED <<capacity_, cur_ndex_, cur_value_, parents>>

EmptyContainer ==
    /\ ParseEmpty(ctl, ctl')
    /\ setItemType(IF Peek(ctl) = "lbracket" THEN "array" ELSE "object")
    /\ UNCHANGED <<capacity_, cur_ndex_, cur_value_, parents, failed>>

ArrayOpens ==
    /\ BeginArray(ctl, ctl')
    /\ setItemType("array") /\ SaveCursor
    /\ UNCHANGED <<capacity_, cur_ndex_, failed>>

ObjectOpens ==
    /\ BeginObject(ctl, ctl')
    /\ setItemType("object") /\ SaveCursor
    /\ UNCHANGED <<capacity_, cur_ndex_, failed>>

ArrayElement ==
    /\ Element(ctl, ctl')
    /\ getChildItem(0) /\ cur_value_' = Child
    /\ UNCHANGED parents

ArrayContinues ==
    /\ ArrayNext(ctl, ctl')
    /\ UNCHANGED <<capacity_, data>>

ArrayReturns ==
    /\ ArrayReturn(ctl, ctl')
    /\ RestoreCursor
    /\ UNCHANGED <<capacity_, cur_ndex_, values_, failed>>

ObjectMember ==
    /\ Member(ctl, ctl')
    /\ getChildItem(KeyAt(ctl)) /\ cur_value_' = Child
    /\ UNCHANGED parents

MemberBreaksOff ==
    /\ MemberReturn(ctl, ctl')
    /\ RestoreCursor
    /\ IF Allocates(ctl) THEN getChildItem(KeyAt(ctl))
                         ELSE UNCHANGED <<capacity_, cur_ndex_, values_, failed>>

ObjectContinues ==
    /\ ObjectNext(ctl, ctl')
    /\ UNCHANGED <<capacity_, data>>

ObjectReturns ==
    /\ ObjectReturn(ctl, ctl')
    /\ RestoreCursor
    /\ UNCHANGED <<capacity_, cur_ndex_, values_, failed>>

\* One step of the descent in either pass.
Parse ==
    /\ pass \in {1, 2}
    /\ \/ Scalar       \/ EmptyContainer
       \/ ArrayOpens   \/ ArrayElement  \/ ArrayContinues  \/ ArrayReturns
       \/ ObjectOpens  \/ ObjectMember  \/ MemberBreaksOff
       \/ ObjectContinues \/ ObjectReturns
    /\ str_error_' = (str_error_ \/ Fails(ctl))
    /\ IF pass = 1
       THEN /\ trace' = Append(trace, [ctl |-> ctl', n |-> capacity_', err |-> str_error_'])
            /\ UNCHANGED step
       ELSE step' = step + 1 /\ UNCHANGED trace
    /\ UNCHANGED <<src, pass>>

\* Between the passes: alloc_.reSize(), and the root is the first node.  The
\* error of the first pass is kept, and nothing looks at it.
Resize ==
    /\ pass = 1 /\ Halted(ctl)
    /\ pass' = 2
    /\ values_' = [i \in 1 .. capacity_ |-> Blank]
    /\ cur_ndex_' = 1 /\ cur_value_' = 1
    /\ ctl' = StartOfText /\ step' = 1
    /\ UNCHANGED <<src, str_error_, capacity_, parents, failed, trace>>

ParseReturns ==
    /\ pass = 2 /\ Halted(ctl)
    /\ pass' = 3
    /\ UNCHANGED <<src, ctl, str_error_, capacity_, data, trace, step>>

ReaderInit ==
    /\ src \in Inputs
    /\ pass = 1 /\ ctl = StartOfText /\ str_error_ = FALSE
    /\ capacity_ = 1 /\ cur_ndex_ = 0 /\ values_ = <<>>
    /\ cur_value_ = NULL /\ parents = <<>> /\ failed = {}
    /\ trace = <<[ctl |-> StartOfText, n |-> 1, err |-> FALSE]>>
    /\ step = 0

ReaderNext == Parse \/ Resize \/ ParseReturns

\* parse is a sequential function: it goes on as long as it has a step.
ReaderSpec == ReaderInit /\ [][ReaderNext]_readerVars /\ WF_readerVars(ReaderNext)

-----------------------------------------------------------------------------
\* Reader::parse has returned the root and not NULL, no assert having fired.
Accepted == pass = 3 /\ ~str_error_ /\ failed = {}

\* Every variable has its type; the first pass touches no node, and the cursor
\* and every saved cursor of the second are nodes that were handed out.
ReaderTypeOK ==
    /\ src \in Seq(Token)
    /\ pass \in {1, 2, 3}
    /\ ctl \in Control
    /\ str_error_ \in BOOLEAN
    /\ capacity_ \in Nat \ {0}
    /\ cur_ndex_ \in Nat
    /\ values_ \in Seq(Node)
    /\ cur_value_ \in Nat
    /\ parents \in Seq(Nat)
    /\ Len(parents) = Len(ctl.stack)
    /\ failed \subseteq {"key_size", "value_size"}
    /\ pass = 1 => cur_value_ = NULL /\ \A i \in 1 .. Len(parents) : parents[i] = NULL
    /\ pass # 1 => /\ Len(values_) = capacity_ /\ cur_ndex_ <= capacity_
                   /\ cur_value_ \in 1 .. cur_ndex_
                   /\ \A i \in 1 .. Len(parents) : parents[i] \in 1 .. cur_ndex_

\* Filling never asks the allocator for a node that counting did not count:
\* assert(cur_ndex_ < array_.size()) holds whatever the text.
AllocInBounds == pass = 2 /\ Allocates(ctl) => cur_ndex_ < Len(values_)

\* The two passes agree: every node counted is handed out, and the second pass
\* fails exactly if the first did, although neither looks at the other's error.
PassesAgree ==
    /\ pass # 1 => str_error_ = trace[Len(trace)].err
    /\ pass = 3 => cur_ndex_ = capacity_

\* The nodes handed out are one tree: every node but the root is the child or
\* the next of exactly the node its prev names, an earlier one.
LinksInverse ==
    pass # 1 =>
        /\ \A i \in 1 .. Len(values_) :
             \A j \in {values_[i].child, values_[i].next} \ {NULL} :
                j \in i + 1 .. cur_ndex_ /\ values_[j].prev = i
        /\ \A j \in 2 .. cur_ndex_ : LET p == values_[j].prev IN
             /\ p \in 1 .. j - 1
             /\ (values_[p].child = j) # (values_[p].next = j)

=============================================================================
