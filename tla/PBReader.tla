------------------------------ MODULE PBReader ------------------------------
(***************************************************************************)
(* protobuf::Reader: reads a message twice.  The first pass counts the     *)
(* fields, and the entries of numbers_: one for every run of adjacent      *)
(* fields of one number.  The second fills nodes_ and numbers_, which have *)
(* been given exactly that size, and links each run through `next'.        *)
(*                                                                         *)
(* Both passes count by looks of their own: the first compares a number    *)
(* with last_field_number_, the second with the number of last_node_.      *)
(*                                                                         *)
(* One step reads one field.  A node keeps where its bytes are; what they  *)
(* spell (u32, u64) is a function of them and left out.                    *)
(*                                                                         *)
(* How many values a uint32_t and a uint64_t have are parameters: 2^32 and *)
(* 2^64 in the program.                                                    *)
(***************************************************************************)
EXTENDS Integers, Sequences, WireTypes

CONSTANTS
    Inputs,     \* the messages given to Reader::parse
    Range32,    \* lengths, and what remains of the message, are counted modulo this
    Range64     \* a varint is read modulo this

Octet == 0 .. 255

\* The size of a message is given to parse as a uint32_t.
ASSUME RangeAssumption == Range32 \in Nat \ {0} /\ Range64 \in Nat /\ Range32 <= Range64
ASSUME InputsAssumption == Inputs \subseteq Seq(Octet) /\ \A s \in Inputs : Len(s) < Range32

NULL == 0           \* no node; nodes are positions of nodes_

VARIABLES
    src,                    \* the message
    pass,                   \* 1: counting, 2: filling, 3: parse has returned
    loop,                   \* "run"; "spin": in a loop of readVarInt that reads one
                            \* byte over and over; "outside": beyond the message,
                            \* where nothing is known of what is read
    pos,                    \* `current'; remaining is what is left of src from here
    str_error_,             \* has setError been called?
    ok,                     \* what the second parseFromBytes has returned
    capacity_,              \* alloc_: nodes counted
    numbers_capacity_,      \* alloc_numbers_: entries counted
    last_field_number_,     \* FieldWrapper of the first pass
    nodes_, cur_ndex_,      \* the nodes, and how many are handed out
    numbers_, numbers_ndex_,\* the first nodes of the runs, NULL until filled
    last_node_,             \* FieldWrapper of the second pass
    trace,                  \* history: the states of the first pass
    step                    \* history: the steps the second pass has taken

counted == <<capacity_, numbers_capacity_, last_field_number_>>
filled == <<nodes_, cur_ndex_, numbers_, numbers_ndex_, last_node_>>
readerVars == <<src, pass, loop, pos, str_error_, ok, counted, filled, trace, step>>

Node == [number : Nat, type : -1 .. 7, value : Nat, value_size : Nat, next : Nat]
Blank == [number |-> 0, type |-> -1, value |-> 0, value_size |-> 0, next |-> NULL]

-----------------------------------------------------------------------------
(***************************************************************************)
(* What begins at position p of the message.                               *)
(***************************************************************************)
\* readVarInt ends with a byte below 128.
EndsVarInt(p, e) == e \in p .. Len(src) /\ src[e] < 128 /\ \A i \in p .. e - 1 : src[i] >= 128
VarIntEnds(p) == \E e \in p .. Len(src) : EndsVarInt(p, e)
LastByte(p) == CHOOSE e \in p .. Len(src) : EndsVarInt(p, e)

\* Where nothing remains, readFromBytes gives the byte before over and over: that
\* never ends the varint if it was begun, and is the whole of it if not.
Spins(p) == p <= Len(src) /\ ~VarIntEnds(p)
After(p) == IF p <= Len(src) THEN LastByte(p) + 1 ELSE p

\* What a septet is multiplied with by a shift of 7 * k bits.  C++ does not define a
\* shift by the width or more; the processors' take the count modulo the width.
shifted[k \in 0 .. Len(src)] ==
    IF k = 0 THEN 1
    ELSE IF 128 * shifted[k - 1] < Range64 THEN 128 * shifted[k - 1]
    ELSE (128 * shifted[k - 1]) \div Range64

\* What it returns: the septets are added up from the first to the last.
readVarInt(p) ==
    LET result[i \in p .. LastByte(p)] ==
            ((IF i = p THEN 0 ELSE result[i - 1]) + (src[i] % 128) * shifted[i - p]) % Range64
    IN  IF p <= Len(src) THEN result[LastByte(p)] ELSE src[p - 1]

\* readWireTypeAndFieldNumber.  A mutant: the mask has one hex digit less.
WireTypeAt(p) == readVarInt(p) % 8
NarrowNumberAt(p) == (readVarInt(p) % 4096) \div 8
FieldNumberAt(p) == (readVarInt(p) % 65536) \div 8

-----------------------------------------------------------------------------
(***************************************************************************)
(* FieldWrapper.                                                           *)
(***************************************************************************)
\* The next node hangs off the last one.
Linked == [nodes_ EXCEPT ![last_node_] = [@ EXCEPT !.next = cur_ndex_ + 1]]

\* Mutants: the last node is remembered only if it opens a run; nodes are
\* counted by run.
StaleLastNode(field) ==
    /\ cur_ndex_ < Len(nodes_)
    /\ cur_ndex_' = cur_ndex_ + 1
    /\ IF last_node_ # NULL /\ nodes_[last_node_].number = field.number
       THEN /\ nodes_' = [Linked EXCEPT ![cur_ndex_ + 1] = field]
            /\ UNCHANGED <<numbers_, numbers_ndex_, last_node_>>
       ELSE /\ numbers_ndex_ < Len(numbers_)
            /\ last_node_' = cur_ndex_ + 1
            /\ nodes_' = [nodes_ EXCEPT ![cur_ndex_ + 1] = field]
            /\ numbers_' = [numbers_ EXCEPT ![numbers_ndex_ + 1] = cur_ndex_ + 1]
            /\ numbers_ndex_' = numbers_ndex_ + 1
CountRuns(number) ==
    /\ capacity_' = IF last_field_number_ = number THEN capacity_ ELSE capacity_ + 1
    /\ numbers_capacity_' = IF last_field_number_ = number THEN numbers_capacity_
                            ELSE numbers_capacity_ + 1
    /\ last_field_number_' = number
\* Mutants: the test for a run is lost, one way and the other.
NeverSameRun(number) == FALSE
AnyRun(number) == last_field_number_ # 0

\* createField and updateLastField.  The asserts of allocValue, for a node and
\* for the entry of numbers_, guard the step.
Fill(field) ==
    /\ cur_ndex_ < Len(nodes_)
    /\ cur_ndex_' = cur_ndex_ + 1 /\ last_node_' = cur_ndex_'
    /\ IF last_node_ # NULL /\ nodes_[last_node_].number = field.number
       THEN /\ nodes_' = [Linked EXCEPT ![cur_ndex_ + 1] = field]
            /\ UNCHANGED <<numbers_, numbers_ndex_>>
       ELSE /\ numbers_ndex_ < Len(numbers_)
            /\ nodes_' = [nodes_ EXCEPT ![cur_ndex_ + 1] = field]
            /\ numbers_' = [numbers_ EXCEPT ![numbers_ndex_ + 1] = cur_ndex_ + 1]
            /\ numbers_ndex_' = numbers_ndex_ + 1

SameRun(number) == last_field_number_ # 0 /\ last_field_number_ = number

\* createField and updateLastFieldNumber
Count(number) ==
    /\ capacity_' = capacity_ + 1
    /\ numbers_capacity_' = IF SameRun(number) THEN numbers_capacity_ ELSE numbers_capacity_ + 1
    /\ last_field_number_' = number

addField(value, size) ==
    IF pass = 1 THEN Count(FieldNumberAt(pos)) /\ UNCHANGED filled
    ELSE /\ Fill([number |-> FieldNumberAt(pos), type |-> WireTypeAt(pos),
                  value |-> value, value_size |-> size, next |-> NULL])
         /\ UNCHANGED counted

-----------------------------------------------------------------------------
(***************************************************************************)
(* parseFromBytes: one turn of its loop.                                   *)
(***************************************************************************)
Data == LastByte(pos) + 1      \* `current' after the tag
Left == Len(src) + 1 - Data     \* `remaining' then

\* The tag is there, and its wire type is one of types.
Reads(types) == pass \in {1, 2} /\ loop = "run" /\ VarIntEnds(pos) /\ WireTypeAt(pos) \in types

VarInt ==
    /\ Reads({WIRETYPE_VARINT}) /\ ~Spins(Data)
    /\ addField(Data, After(Data) - Data)
    /\ pos' = After(Data)
    /\ str_error_' = (str_error_ \/ Left = 0)
    /\ UNCHANGED loop

\* readFromBytes moves on only if the bytes are there, but adds a field anyway.
Fixed(type, size) ==
    /\ Reads({type})
    /\ addField(Data, IF size <= Left THEN size ELSE 0)
    /\ pos' = IF size <= Left THEN Data + size ELSE Data
    /\ str_error_' = (str_error_ \/ size > Left)
    /\ UNCHANGED loop

\* `remaining -= data_size' wraps if the bytes are not there: to nothing, if what is
\* missing is a multiple of Range32, so that the loop ends.
LengthDelimited ==
    /\ Reads({WIRETYPE_LENGTH_DELIMITED}) /\ ~Spins(Data)
    /\ LET data_size == readVarInt(Data)
           data == After(Data)
           missing == data + data_size - (Len(src) + 1)
       IN  /\ addField(data, data_size % Range32)
           /\ \/ missing <= 0 /\ pos' = data + data_size /\ UNCHANGED loop
              \/ missing > 0 /\ missing % Range32 = 0 /\ pos' = Len(src) + 1 /\ UNCHANGED loop
              \/ missing > 0 /\ missing % Range32 # 0 /\ pos' = data /\ loop' = "outside"
    /\ str_error_' = (str_error_ \/ Left = 0)

Group ==
    /\ Reads({WIRETYPE_START_GROUP, WIRETYPE_END_GROUP})
    /\ pos' = Data
    /\ UNCHANGED <<loop, str_error_, counted, filled>>

\* The message ends in the middle of a varint, of a tag, a value or a length:
\* setError, and the loop of readVarInt goes on.
CutVarInt ==
    /\ pass \in {1, 2} /\ loop = "run" /\ pos <= Len(src)
    /\ \/ ~VarIntEnds(pos)
       \/ Reads({WIRETYPE_VARINT, WIRETYPE_LENGTH_DELIMITED}) /\ Spins(Data)
    /\ loop' = "spin"
    /\ str_error_' = TRUE
    /\ UNCHANGED <<pos, counted, filled>>

ReadField ==
    /\ \/ VarInt
       \/ Fixed(WIRETYPE_FIXED64, 8)
       \/ Fixed(WIRETYPE_FIXED32, 4)
       \/ LengthDelimited
       \/ Group
       \/ CutVarInt
    /\ IF pass = 1
       THEN /\ trace' = Append(trace, [pos |-> pos', loop |-> loop', n |-> capacity_',
                                       m |-> numbers_capacity_', last |-> last_field_number_'])
            /\ UNCHANGED step
       ELSE step' = step + 1 /\ UNCHANGED trace
    /\ UNCHANGED <<src, pass, ok>>

Unknown == Reads({6, 7})

\* parseFromBytes has returned, with false for an unknown wire type.
Halted == loop = "run" /\ (pos > Len(src) \/ Unknown)

\* A mutant: only the wire types decide.
OverrunForgotten ==
    /\ pass = 2 /\ Halted
    /\ pass' = 3
    /\ ok' = (pos > Len(src))
    /\ UNCHANGED <<src, loop, pos, str_error_, counted, filled, trace, step>>

\* Between the passes.  What the first returned is not looked at.
Resize ==
    /\ pass = 1 /\ Halted
    /\ pass' = 2
    /\ nodes_' = [i \in 1 .. capacity_ |-> Blank]
    /\ numbers_' = [i \in 1 .. numbers_capacity_ |-> NULL]
    /\ pos' = 1 /\ step' = 1
    /\ str_error_' = (str_error_ \/ pos <= Len(src))
    /\ UNCHANGED <<src, loop, ok, counted, cur_ndex_, numbers_ndex_, last_node_, trace>>

ParseReturns ==
    /\ pass = 2 /\ Halted
    /\ pass' = 3
    /\ ok' = (pos > Len(src) /\ ~str_error_)
    /\ UNCHANGED <<src, loop, pos, str_error_, counted, filled, trace, step>>

ReaderInit ==
    /\ src \in Inputs
    /\ pass = 1 /\ loop = "run" /\ pos = 1 /\ str_error_ = FALSE /\ ok = FALSE
    /\ capacity_ = 1 /\ numbers_capacity_ = 0 /\ last_field_number_ = 0
    /\ nodes_ = <<>> /\ cur_ndex_ = 0 /\ numbers_ = <<>> /\ numbers_ndex_ = 0
    /\ last_node_ = NULL
    /\ trace = <<[pos |-> 1, loop |-> "run", n |-> 1, m |-> 0, last |-> 0]>>
    /\ step = 0

ReaderNext == ReadField \/ Resize \/ ParseReturns

\* parse is a sequential function: it goes on as long as it has a step.
ReaderSpec == ReaderInit /\ [][ReaderNext]_readerVars /\ WF_readerVars(ReaderNext)

-----------------------------------------------------------------------------
(***************************************************************************)
(* getNodeByNumber: the first run of that number.  Each entry of numbers_  *)
(* on the way is dereferenced, also one that is NULL.                      *)
(***************************************************************************)
CRASH == -1

Stops(number) == {k \in 1 .. Len(numbers_) : numbers_[k] # NULL => nodes_[numbers_[k]].number = number}
getNodeByNumber(number) ==
    IF Stops(number) = {} THEN NULL
    ELSE LET first == CHOOSE k \in Stops(number) : \A j \in Stops(number) : k <= j
         IN  IF numbers_[first] = NULL THEN CRASH ELSE numbers_[first]

-----------------------------------------------------------------------------
\* Every variable has its type; the arrays have the size that was counted, and
\* last_node_ is the node handed out last.
ReaderTypeOK ==
    /\ src \in Seq(Octet) /\ pass \in {1, 2, 3}
    /\ loop \in {"run", "spin", "outside"} /\ pos \in 1 .. Len(src) + 1
    /\ str_error_ \in BOOLEAN /\ ok \in BOOLEAN
    /\ capacity_ \in Nat \ {0} /\ numbers_capacity_ \in Nat /\ last_field_number_ \in Nat
    /\ nodes_ \in Seq(Node) /\ numbers_ \in Seq(Nat)
    /\ cur_ndex_ \in 0 .. Len(nodes_) /\ numbers_ndex_ \in 0 .. Len(numbers_)
    /\ last_node_ = cur_ndex_
    /\ pass = 1 => nodes_ = <<>> /\ numbers_ = <<>>
    /\ pass # 1 => Len(nodes_) = capacity_ /\ Len(numbers_) = numbers_capacity_

\* Filling never asks either allocator for more than was counted, whatever the
\* message: the asserts of allocValue and of updateLastField hold.
Adds == \/ Reads({WIRETYPE_FIXED64, WIRETYPE_FIXED32})
        \/ Reads({WIRETYPE_VARINT, WIRETYPE_LENGTH_DELIMITED}) /\ ~Spins(Data)
OpensRun == last_node_ # NULL => nodes_[last_node_].number # FieldNumberAt(pos)
AllocInBounds ==
    pass = 2 /\ Adds => /\ cur_ndex_ < Len(nodes_)
                       /\ (OpensRun => numbers_ndex_ < Len(numbers_))

\* getNodeByNumber dereferences every entry of numbers_ it passes: none is left
\* NULL, unless two fields next to each other are kept under the number 0: then
\* the first pass, which takes 0 for no number, counts an entry that is not filled.
ZeroTwice == \E i \in 1 .. cur_ndex_ - 1 : nodes_[i].number = 0 /\ nodes_[i + 1].number = 0
NumbersFilled == pass = 3 /\ ~ZeroTwice => \A k \in 1 .. Len(numbers_) : numbers_[k] # NULL

\* numbers_ has the first node of every run of adjacent fields of one number,
\* in order, and a run is linked from its first to its last node.
SameNumber(i) == i < cur_ndex_ /\ nodes_[i].number = nodes_[i + 1].number
RunsLinked ==
    /\ \A i \in 1 .. cur_ndex_ : nodes_[i].next = IF SameNumber(i) THEN i + 1 ELSE NULL
    /\ {numbers_[k] : k \in 1 .. numbers_ndex_} = {i \in 1 .. cur_ndex_ : i > 1 => ~SameNumber(i - 1)}
    /\ \A k \in 1 .. numbers_ndex_ - 1 : numbers_[k] < numbers_[k + 1]

=============================================================================
