# Verification of serialflex

serialflex converts C++ objects to and from JSON, XML and protobuf. A class lists its fields once, in a
`serialize` function; an encoder walks an object through that function and calls a writer, a decoder
walks it and asks the tree that a reader has built from a text. Nothing runs concurrently and nothing is
stored: what is hard in this code are the **two passes** that its readers and its protobuf encoder make
over the same data (one to count, one to fill exactly what was counted, in functions that must behave
alike both times), the **cursors** that are saved and restored around nested values, **decisions taken
from very little state** (when a comma is due, whether a document is whole, whether two fields are
neighbours), and the **edges** of lengths, numbers and cut-off inputs.

This directory has TLA+ modules of the readers, the encoders, the decoders and the order in which the two
generators print classes, TLC configurations that check them on small inputs and in round trips, and
proofs, checked by TLAPS, that the most important properties hold for all inputs.

Contents: [1 Inventory](#1-inventory) · [2 Modules](#2-modules) · [3 Runs](#3-runs) ·
[4 Fairness and deadlock](#4-fairness-and-deadlock) · [5 Proofs](#5-proofs) ·
[6 What the code does otherwise than it says](#6-what-the-code-does-otherwise-than-it-says) ·
[7 Not modelled](#7-not-modelled) · [8 Plan](#8-plan)

Paths are relative to the repository's root; `reader.cpp:123` in a section about one format means that
format's file under `src/`.

## 1 Inventory

The component list with its status is in `PROJECT.json` under `components`, the hazards, each at its
line, under `hazards`.

| Component | State | Operations | How it interacts | What is hard | What makes it correct |
|---|---|---|---|---|---|
| json::Reader (`src/json/reader.*`, `src/node.h`) | text, position, `str_error_`, allocator (counted, handed out, array), cursor `cur_value_` | `parse`: `parseValue`, `parseArray`, `parseObject`, `getChildItem`, `setItem*` | gives JSONDecoder a tree of nodes linked by child/next/prev | the same functions run twice, told apart by `cur_value_ == NULL`; an error does not stop `parseObject`; the cursor is saved on the C++ stack | passes agree on nodes and error; the allocator's assert holds; the tree spells the text; parse returns |
| json::Writer, JSONEncoder (`src/json/writer.*`, `encoder.*`) | `stack_` of two numbers per open container, text | `key`, `value`, `separation`, `start/end` of object and array; `operator<<`, `encodeValue` | the encoder's recursion drives the writer | the writer does not know what it is in; commas come from three places | always a prefix of a JSON text; true exactly when it is whole |
| JSONDecoder (`src/json/decoder.*`, header) | cursor `current_` into the tree, the object being filled, `convert_by_type_`, `case_insensitive_` | `operator>>`, `decodeValue` of every type | reads the tree of json::Reader | one cursor for all calls, moved and set back; what was in the object before; `has`; conversions | what is written is read back, or what of it is; the cursor is back |
| protobuf::Reader (`src/protobuf/reader.*`) | bytes, `current`/`remaining`, error, two allocators (nodes; `numbers_`, one entry per run of equal numbers), last number, last node | `parse`, `parseFromBytes`, `readVarInt`, `consumeBytes`, `FieldWrapper`, `getNodeByNumber` | gives ProtobufDecoder nodes by field number, and is run again on nested messages | the passes recognise a run in two different ways; lengths come from the input; errors are recorded, not obeyed | both allocators are exact; every run is linked; all fields of a number are found; whole messages are accepted, cut ones rejected |
| ProtobufEncoder, MessageByteSize (`src/protobuf/encoder.*`, `writer.*`, headers) | text, byte count | sizes and writes of every field type and shape | the size of a nested message, computed by one class, is written as its length in front of the bytes the other writes | two copies of every rule: delimited types, packed fields, map entries, varint steps | count = bytes written, at every depth; what is written reads back |
| ProtobufDecoder (`src/protobuf/decoder.*`, header) | the records, the object | `operator>>`, `decodeValue`, `readField`, `readValue` | asks protobuf::Reader for the run of each number; runs a decoder of its own on every nested message | duplicates of singular fields; packed fields; reuse of objects; zigzag and sign | reads what the encoder writes |
| xml::Reader (`src/xml/reader.*`) | as json::Reader, and types of nodes | `parse`, `parseNode*`, `skip*`, `allocNode` | gives XMLDecoder a tree; `getResult` finds `serialflex` | names of closing tags are compared in the second pass only; the error of the first pass is still set in the second | allocator's assert; tree linked both ways; accepts the balanced texts; counting ends |
| xml::Writer, XMLEncoder (`src/xml/writer.*`, `encoder.*`) | `layer_`, a counter; text | `startKey/value/endKey`, `start/endObject`; `operator<<`, `encodeValue` | recursion drives the writer | the writer keeps no names; escapes; strings that look like CDATA | well-formed at every call; true exactly when whole; reads back |
| XMLDecoder (`src/xml/decoder.*`, header) | cursor `current_`, the object being filled, `case_insensitive_` | `operator>>`, `decodeValue`, character references | reads the tree of xml::Reader | cursor moves in top-level vectors and maps; names found ignoring case; references | reads what the encoder writes; the cursor is back |
| Field, traits, SERIALIZE macros | number, type, `has` of a field | compile-time selection | shared by all encoders and decoders | `has` is lost for packed fields | – |
| json2cpp (`tool/json2cpp`) | a copy of json::Reader; `vec_`, the classes found | `getDescription`, `getDescriptionChild`, `toText` | – | two functions that call each other collect the classes; order of classes | a class is printed before those that have members of it |
| protoc class plugin (`tool/protoc/.../compiler/class`) | list of messages | `prepareMsgs`, `sortMsgs`, `getInsertIdx`, `printClass` | runs inside protoc | one insertion per message, by a single look at each other | a class is printed once, before those that use it |
| vendored protoc, example | – | – | – | – | – |

## 2 Modules

Every state machine is a module of its own; `...ReaderMC`, `...WriterMC` and `ClassOrderMC` hold its inputs and
what only TLC can evaluate (recursive operators), `...RoundTrip` modules compose an encoder with its decoder, `...Proofs` hold
theorems; `JSONText` and `XMLText` are abstract specifications. **JSONMC**, **PBMC**, **XMLMC** and **GeneratorsMC**
put the machines of one format side by side for a single run: `half` says which one is looked at, and the
others stay where they begin. In a module, names are the source's names
(`cur_value_`, `getChildItem`, `str_error_`) where they model a thing that has one. The line-by-line
correspondence is `map` in `PROJECT.json`. A definition whose comment says *a mutant* is a plausible bug,
stated next to what it would break; it takes no part in the specification.

### The three readers: JSONReader, XMLReader, PBReader

All have the same skeleton, since the code has it. `pass` is 1 while counting, 2 while filling, 3 when
`parse` has returned. `Resize` is what happens in between: the array gets exactly the size that was
counted, the cursor goes to the root, the text is begun again. Every other step is one function, or the
part of a function up to its next recursive call, in *both* passes.

The C++ call stack is explicit. In JSONReader `ctl` is where the innermost function is, the position and
one frame per `parseArray` or `parseObject` in progress; `parents` holds the local that `parseValue`
saves the cursor in (`reader.cpp:140`). In XMLReader `ctl` is position, depth and error; `temps` holds
what `parseNodeContents` saves. In PBReader there is no recursion: one step is one turn of
`parseFromBytes`.

What the code does to `ctl` is written apart from what it does to nodes: an operator `A(c, d)` says that
the descent goes from `c` to `d`, and the action of that name says what that step counts or fills. The
first is, in the code too, independent of the pass (but for one comparison in the XML reader), and that
is what the proofs are about.

Three variables are history: `trace` (what the first pass went through), `step` (how far the second has
got) and, for XML, `error1`. They occur in no guard. XMLMC has one more, `known`: what is known of the text
that is read (the document in it, how it is put together from pieces), worked out once, when it is chosen.

* **JSONReader** reads tokens: a string is one token (with characters, empty, or without its closing
  quote), and so is a number. Errors are recorded and `parse` goes on as the code does: `setError` in
  `parseObject` does not leave its loop. `failed` collects asserts of the `setItem*` functions that did
  not hold.
* **XMLReader** reads characters, of the twenty kinds that control tells apart (a letter stands for a name,
  `ref` for `&#` and digits, and so on). All kinds of markup, DOCTYPE brackets, CDATA, comments,
  declarations and character references are skipped as the code does it; `UNRECOGNIZED` is `<!` followed
  by anything else, and `outside` that reading has left the text behind such a `<!` (see section 6).
* **PBReader** reads bytes. A varint is added up septet by septet as `readVarInt` does it, in 64 bits and with
  the shift that the processor makes of one by 64 or more; lengths are taken from `remaining` in 32 bits. The
  two widths are the constants `Range64` and `Range32`. `loop` is "spin" where a varint is cut off and
  `readVarInt` reads its last byte over and over, and "outside" where `remaining` has wrapped and nothing is known
  any more of what is read. `getNodeByNumber` is an operator on the final state; it meets the entries of
  `numbers_` in order and gives `CRASH` where it would dereference one that is NULL. **PBMessage** is what the
  reader promises: the fields of a message by the wire format alone (`FieldsFrom`, which reads varints by a
  definition of its own, from the last septet, without a width), that the whole messages are accepted
  (*AcceptsWhole*) and that their fields are found (*AdjacentFieldsFound*). Both are about messages whose tags and
  lengths are numbers of 32 bits (`InWidth`). **WireTypes** has the constants of the wire format.

### The three writers: JSONWriter, XMLWriter, PBWriter

* **JSONWriter** is JSONEncoder over json::Writer. `frames` are the calls of `encodeValue` in progress,
  `stack_` is the writer's, with the two numbers it has per level. Each action is one step of the encoder
  with all writer calls it makes. The value is chosen while it is walked. `text` is history: what has been
  written, as **JSONText** sees it, that is, what the grammar wants next and in which containers. JSONText
  says what an encoder promises: it writes tokens where JSON has them and reports success together with
  the last one. `WritesJSON` is `JSONText!Spec` under the mapping of `complete` to `result`.
* **XMLWriter** is XMLEncoder over xml::Writer. The value is given at the start and its members, elements
  and pairs are walked in `frames`; `layer_` is all that the writer has. Text is written in pieces
  (a tag, data, a CDATA section, white space of formatted output). Strings are sequences of the characters
  that `value(const std::string&)` looks at. **XMLText** is the promise: tags that match, no markup in
  text, no `]]>` inside a section, success with the last tag. `WritesXML` is the refinement. The literal
  `true`/`false` and the digits of numbers are strings without special characters.
* **PBWriter** is `operator<<` with its two passes, one step per field: `SizeField` adds what
  `MessageByteSize` counts, `WriteField` appends what `ProtobufEncoder` writes, byte by byte, for every
  type, and for singular, repeated, packed and map fields. Messages are numbered, and one that is inside of
  another has the smaller number; so `Size` and `Bytes`, recursive in the code, are functions of the number.
  What is counted otherwise than it is written (`Counts`) is a packed field, whose tag and payload `PackedSize`
  gets wrong, and an int64 with a high half. The widths are constants: `Base` (2^7 in the code), `MaxVarInt`
  (10) and `Fixed32` (4). **PBReadBack** says what the bytes mean: `Records` of **PBWire** are what the wire
  format has in a string, `Expected` is what is to be found of a field, and `Texts[m]` are the strings that
  are read as message m, a function that recurs, as `Size` does, over the messages inside of a message.

### The three decoders: JSONDecoder, XMLDecoder, PBDecoder

The types of a C++ program are not those of TLA+, so an object carries its type: a struct its members
with their names, numbers and `has`, a vector or map the default element that `T()` or `V()` would give.

* **JSONDecoder** and **XMLDecoder** have the same skeleton. `frames` are the calls of `decodeValue` in
  progress; each has the value it fills, the member or element that is next, and the cursor it has to set
  back. All of them share `current_`. An action is the step of one call up to the next nested call, or its
  return, with the cursor it sets back; there are separate actions for `operator>>` of a vector and of a
  map, which in the code are not their `decodeValue` and move the cursor in another way. A value that
  needs no nested call (a scalar, or a JSON vector of bools) is decoded at once. `convert_by_type_` and
  `case_insensitive_` are variables that nothing changes.
* **PBDecoder** looks for one field of the object per step, `looked` counts them. A nested message is
  decoded by a decoder of its own within the step. The records and the runs of equal numbers are those
  of protobuf::Reader, which PBReader models; **PBWire** has the wire format for both the check of the
  writer and the decoder (there, a number keeps the 13 bits that the reader keeps of it: `Numbered`), **PBFields** a
  field and the classes of its types.

**JSONRoundTrip**, **XMLRoundTrip** and **PBRoundTrip** encode an object, read the text and decode it
into another object of the same type (for JSON also of another type), just made or used before. In XML
and protobuf the writers are the machines XMLWriter and PBWriter, and decoding starts when they are done. In
JSON the text is an operator, on characters and not on tokens, because it is in the escapes and the quotes that
the round trip can fail; JSONReader's control, with tokens, is proved about elsewhere. A key without a character
aborts there as well (`aborts`), by the assert of `reader.cpp:337`. **JSONChars** says what characters are: which are
alike but for case, what a string says without its escapes, which number it is.

### The generators: ClassOrder, Json2Cpp

* **ClassOrder** is the class plugin from the list of messages to the classes printed. An action is one
  turn of the loop of `getInsertIdx` (`Look`), one insertion of `sortMsgs`, or one turn of the loop of
  `printClass`. A message is its name, the types of its fields as `getInsertIdx` compares them (the short
  name, which the code uses, next to the class the field is really of), whether it has fields, and whether
  it is the entry of a map. What a class needs (`Needs`) is each class it has a member of, and, for a map, the class
  of its values, which is a field of the entry. **ClassOrderMC** has the files, with nested messages flattened as
  `FlattenMessagesInFile` of the compiler (`cpp_helpers.cc`) does it.
* **Json2Cpp** is `CppDescription`: `getDescription` and `getDescriptionChild` with the loop each is in,
  and `vec_`. `BuildStruct` is its Init: the nodes are those of any document (`IsDocument`), as
  custom::Reader links them, and `NextCall` is its Next. **GeneratorsMC** runs either one; it makes the nodes
  of each of its documents from the tree, and all of these satisfy `IsDocument`.

## 3 Runs

Every run of a fixed input set is exhaustive. The machines are deterministic once the input is chosen,
so the interesting parameter is always the set of inputs.

| Run | Inputs and bounds | What it shows |
|---|---|---|
| `json` | *reading*: every text of up to 3 tokens of all 14; of up to 4 of the 8 structural ones; documents of depth 2 with up to 2 members; these cut off anywhere; small ones with any of the first three tokens replaced. *Writing*: structs, maps, vectors of scalars as roots; 3 containers deep, 2 items in each. *Decoding*: objects nested 3 deep; strings of up to 2 of the 8 characters that matter, and lists of 3; keys alike but for case; nulls; into objects of their own or six other types, new or used; both flags in both positions | reader: types, allocator, agreement of passes, links both ways, documents are read as themselves (with an empty key, but for the assert it meets), what else is accepted, termination. Writer: types, result, refinement of JSONText. Decoder: each member, element and entry is afterwards what was encoded, and the cursor comes back |
| `json_top_vector` (violation) | the writer, with vectors of containers as roots | no commas between the elements |
| `json_backslash` (violation) | the decoder, the same objects | a string that ends in a backslash is not decoded |
| `protobuf` | *reading*: fields of every wire type and several payloads with the numbers 1, 8191, 8192 and 8193, up to 2, or 3 of the two commonest; varints and lengths of up to six bytes, some of 2^18 and more; cut off at every byte; wire types 6 and 7. *Writing*: a field of every type, with values on both sides of each varint step and the extremes, set and not, in every shape; some of these in messages, and these in others; strings that are not empty before; objects new and used | reader: both allocators, runs linked, where an entry is NULL, every field found with its bytes under the 13 bits kept of its number, accepts exactly whole messages, returns from these. Writer: count = written, at every depth; all read back by the wire format. Decoder: every field but the packed ones is what was encoded |
| `pb_cut_off` (violation) | the reader, cut-off messages | a recorded overrun does not end parsing |
| `pb_int64` (violation) | int64 fields that are negative or need more than 32 bits | the high half is lost |
| `pb_packed` (violation) | the messages of `protobuf` | a packed field is decoded as one element, 0 |
| `pb_later_field` (violation) | the messages of `protobuf`, behind a field of the same number | an assert of the decoder fails |
| `xml` | *reading*: texts of up to 4 characters of the 7 commonest; of up to 4 pieces (tags, leaves, text); of up to 3 with odd pieces; documents with every kind of markup, whole and cut off. *Writing and decoding*: strings of up to 3 characters of all special ones, strings that begin like CDATA with up to 4 characters more; structs, vectors and maps in each other 3 deep; formatted or not; objects new and used; case ignored or not | reader: types, allocator, links both ways, documents are read as themselves, accepts exactly balanced texts, counting ends, nodes of balanced texts. Writer: result, reads back, refinement of XMLText. Decoder: structs come back |
| `xml_alloc_assert` (violation) | the reader, shorter texts | an error of the first pass misleads the second into asking for a node too many |
| `xml_top_level` (violation) | vectors and maps by themselves | what `operator<<` has written for them is not read |
| `class_order` | files of four messages that use each other in all ways, of two with a nested message or a map inside; JSON documents five deep | each class printed once, and behind the classes of its members, as far as one look at each message can put it there |

Why the bounds are enough. The readers' decisions depend on the next one or two tokens (JSON), on the next
pieces of markup (XML) or on one field and the number before it (protobuf), and on what the innermost open
container is. Three or four of them in all orders, and a depth of two or three, put every decision behind
every other one. The writers look at one level of their stack, so three levels show what a return to the
level above finds. A decoder's call sets the cursor back for the call around it: two levels below the root,
with two items in each, have every kind of value come behind and inside of every other. A message is placed
by a look at each message that is there, so four show every way in which a third and a fourth can come
between two. For the readers, the writers, what XMLDecoder and JSONDecoder return, and the generators the proofs of
section 5 remove the bounds for the main properties. TLC counts in 32 bits, so the widths of protobuf are scaled
down: in PBReader `Range32 = 2^18` and `Range64 = 2^22`, so that a varint of
three bytes can be to either side of the first and one of four to either side of the second, as one of five and one
of ten bytes can in the program. In PBWriter, `Base = 32`, `MaxVarInt = 5`, `Fixed32 = 2` make the
numbers small enough for TLC and keep the relations that matter: tags 1 and 2 take one byte, every step of a
varint is met by values on both sides, 64-bit values need more bytes than 32-bit ones, lengths need one or
two bytes.

The properties that say most:

* *PassesAgree*, *AllocInBounds*, *NumbersFilled*: the second pass finds what the first has counted, in
  functions that each decide anew.
* *LinksInverse*: every node but the root is the child or the next of exactly the node its `prev` names.
* *DocumentsRead*, *AcceptedText*, *BalancedRead*: what the tree means, by spelling it and comparing with
  the text. *AcceptedText* describes also what json::Reader accepts beyond JSON: what follows a value is
  not read, and a text may end inside its outermost object. *BalancedRead* spells the nodes under the
  root; `parse` itself returns the element `serialflex` only, and for these texts, which have none, NULL. Left out is
  the text of an element that has it in two places (`mixed`).
* *AdjacentFieldsFound*: what `getNodeByNumber` and the `next` links give is what a reading by the wire
  format gives, number by number, if the elements of a repeated field are neighbours and no two fields in a
  row are kept under 0, as 8192 is.
* *SizeExact*, *BytesReadBack*, *TextReadsBack*: the two passes of the encoder agree to the byte, and an
  independent reading of the bytes (or of the XML pieces) finds each field that is set, and no other.
* *WritesJSON*, *WritesXML*: the refinements.
* *DocumentComesBack* (JSON), *MessageComesBack* (protobuf), *ElementsComeBack* (XML): `operator>>` returns true
  and the object is exactly what is spelled out in the module, which for a new object of the same type is what was
  encoded. Where an object was used before, the expectation says what stays (an old value where the document has an
  empty string, the elements a vector had). It is a function of the two objects and knows nothing of nodes, cursors or
  frames. What is encoded and does not come back at all is excluded by a premise and has a run of its own, or a
  place in section 6.
* *StringsComeBack*, *PackedComesBack*, *AssertsHold*, *TopLevelComesBack*: the same of what these premises leave
  out. Each is violated.
* *DefinedBefore*, *MembersBefore*: which classes stand behind those they use. In a file
  without circles all could; the premise of *DefinedBefore* says for which pairs one insertion is enough.

Each property of a passing run has a mutant in `PROJECT.json`: a small change to one definition, such as a
cursor not restored or a counter compared too late, under which TLC finds that property violated.

## 4 Fairness and deadlock

`parse` is a sequential function on the caller's thread: as long as it has a next step it takes it. This
is `WF_readerVars(ReaderNext)`, assumed in the three readers, and only for the properties *Terminates*, *CountingEnds*,
*BalancedRead*, *WholeReturns* and *OverrunReturns*; in the runs of a whole format it is on the reader's steps only
(`WF_readerVars(Read)`). It says nothing about whether a loop in a step ends: in PBReader a varint without end
goes to the state "spin", which nothing leaves, and that is what `pb_cut_off` finds. The writers, decoders and generators walk data that is there from the start, step by step to its end: they have no
liveness property and no fairness.

Deadlock is not checked, since `parse` and `operator<<` return: the last state has no successor.

## 5 Proofs

Eight modules hold theorems. Those listed under `theorems` in `PROJECT.json`:

| Module | Theorems |
|---|---|
| JSONReaderProofs | TypeCorrect, AllocationFits, SecondPassAgrees, OneTree |
| PBReaderProofs | TypeCorrect, AllocationFits, NoNullEntry, RunsAreLinked, WholeAccepted, AdjacentFound |
| XMLReaderProofs | TypeCorrect, OneTree, AllocationFits, AllNodesUsed |
| JSONWriterProofs | TypeCorrect, GrammarSafe, ResultCorrect, Implements |
| XMLWriterProofs | TypeCorrect, ResultCorrect, Implements |
| PBWriterProofs | TypeCorrect, SizeCorrect, ReadsBackCorrect |
| DecoderProofs | AlwaysTrue, TrueIfRead |
| GeneratorsProofs | PrintsEachOnce, UsedBefore, MembersFirst |

**Assumptions.** The readers assume that a text is a sequence of the tokens, characters or bytes of the
model (`InputsAssumption`), nothing of its length, but that the size of a protobuf message is a number of 32 bits, as
it is given to `parse`; there, a varint has no fewer bits than a length (`RangeAssumption`). JSONWriter assumes
that tokens are tokens, XMLWriter that the three names the encoder uses are names and that values are built from
values, ClassOrder that files are sequences of messages. PBWriter assumes that the values of a field are of its type and that a message is not
inside of itself (`MessagesAssumption`), that the string holds bytes before (`BeforeAssumption`), that the
longest varint has room for 64 bits and that the tags 1 and 2 have one byte (`WidthAssumption`, true of the
code's widths), and that no message has more bytes than its 32-bit count can say (`FitsAssumption`). The theorems of JSONWriterProofs have `NoTopContainers` as their hypothesis: a vector
of containers as the root is what the run `json_top_vector` refutes. Json2Cpp has no constants; that its nodes
are a document is its initial condition, which is what OneTree says of json::Reader, of which custom::Reader
is a textual copy, together with which nodes have keys (`setItemKey` asserts that a key is not empty).

**The readers.** That the second pass stays within the count is no inductive property of the second
pass's own state. The strengthening says where it is in the first: `trace` is the chain of control states
of the first pass with the nodes counted at each, and the second pass is at index `step` of it, with as
many nodes handed out as were counted there (`Retraces`). This is kept because control is a function of
control: `CtlNext(c, d)` has at most one `d` for each `c` (a lemma), and reads nothing that filling
writes. When the second pass is still at a step that allocates, the trace is longer than `step`, and the
next entry has one node more; `trace[i].n` never exceeds the last.

* *JSON*: the above is all. An error of the first pass that is still set in the second changes nothing,
  because nothing looks at it. OneTree needs no trace, but needs to know that where `LinkTo` writes,
  nothing is yet: the cursor of a value has no child, no cursor has a next, saved or not, and the saved
  cursors increase from call to call, each smaller than the item behind which the next sibling is
  linked (`FreeSlots`). It is this order that keeps the `next` of an item from being written into a container
  around it.
* *Protobuf*: the two passes test for a run differently (last number, with 0 for none, against last node).
  The invariant says that the runs opened are at most those counted, and equally many unless two numbers in a row
  are 0.
  Since a varint's end is a CHOOSE, a lemma shows by the well-foundedness of < on naturals that a least
  end exists whenever one does. RunsAreLinked needs no trace. What `readVarInt` returns is shown to be the
  number that the wire format has there, by following its sum from the first septet to the last, if that number is
  below the width (`ReadVarIntIs`); hence the premise `InWidth` of the two theorems that follow.
  For what a message means, `FieldsFrom` is shown first to be what its recursive definition says, from the
  end of the message back, since a field ends behind where it begins. A turn of the loop that meets nothing cut
  goes from a position to `NextAt` of it. So the message is whole exactly if nothing from the current position
  on is cut and no error is recorded (`WholeSoFar`), and its fields are those of the nodes handed out, then
  those from the position on (`FoundSoFar`). At the end all of them are nodes; if the fields of a number are
  neighbours, that run of nodes is an interval, RunsAreLinked has it linked from its first node to its
  last, and that first node is what `getNodeByNumber` finds: no entry is NULL
  then (NoNullEntry).
* *XML*: control is not the same in both passes. A closing tag of another name is an error in the second
  only. So for texts counted without an error the second pass is either in step with the trace or
  *unwinds*: there is an error, and the next character is the `>` which the first pass found there; an
  unwinding pass returns from level to level and begins no node, as a node begins with `<`. LinksInverse
  is proved together with types, for every text, by following `allocNode` to the last sibling: the
  recursive function that does so is well defined because links go to later nodes.

**The writers.** For JSONWriter the two numbers of a level, with what the encoder knows of it, determine
what the grammar wants next (`Wants`); of the levels below the innermost it is enough to know that
they are in the middle of a value (`Below`), from which the right `Wants` follows when they come up again.
For XMLWriter, `text` is inside of the elements `frames` names, in that order (`NestOK`), although the
writer has only a counter; the tag that a frame writes at its end is therefore the innermost one's. That
text has no markup in it is a fact about `Escape`, and that no `]]>` is inside a section one about
`IsCdata`. From the invariants, every step of the encoder is a step of the abstract specification or
leaves it alone: *Implements*.

**The protobuf encoder.** `Size`, `Bytes` and `Counts` take of other messages only those with smaller numbers:
that functions exist which do what these definitions say is proved by course-of-values recursion
(`CourseOfValues`). `varintSize` is the length of what `writeVarint` writes, whatever `Base` is; so the count
of a value is the number of its bytes, and, by sums over elements and over fields, that of a field and of a
message. Here the length in front of a nested message matters: it fits in a word as the message around it
does. Then `size_` is the sum over the fields the first pass has seen, and what `str_` has gained is the same
sum over those the second has written.

That the bytes read back as the message (*ReadsBackCorrect*) is proved from the inside out as well, about bytes
anywhere in a string (`Reads`): reading them gives certain records and goes on right behind them. So a varint is
read as the number it was written for, by course of values; a fixed integer is the sum of its bytes by weight,
and two's complement and zigzag are undone; a tag and its value are one record (`RecordRead`), an entry of a map
is two; and what is written one after another is read as one after another (`ReadsBoth`, `ReadsFlatten`), so that
a message is read as the records of its fields. These give what was set, element by element (`FieldIsRead`),
if it is so of the smaller messages inside, which `BytesAreRead` closes; that `Texts` exists at all is course of
values again. The invariant (`WrittenInv`) adds to the one above that `str_` is what it was, and behind it what the
fields seen are written as.

Two hypotheses stand in the theorem. `NumbersFit`: a number, shifted by three bits, fits in 32, as
a field number of protobuf does. `Readable(message)`: each field is counted as it is written, or is packed with
elements that take one byte each. What is left out is what the code gets wrong: an int64 with a high half (the run
`pb_int64`), packed elements of more bytes, and either inside of a nested message, whose length is then wrong.
All states of the run `protobuf` satisfy both.

**The decoders.** DecoderProofs extends XMLDecoder and has JSONDecoder as an instance. What `operator>>` of
either returns is whether its cursor is where it was. AlwaysTrue says that XMLDecoder's is, for every tree of
nodes and every object, so that the answer tells nothing of whether a document fits. TrueIfRead says of
JSONDecoder that the answer is whether json::Reader made a node at all, and again nothing of the object
(`SaysWhetherRead`). The calls that decode are the same in both, and so is the argument, stated once as lemmas
about the frames (`Goes`, `Enters`, `Returns`, `Starts`). Each frame has saved the cursor, and only the first
matters: while it waits for the second, that one has saved the same cursor, unless the first is the loop over
a vector, which sets its own back at the end (`FirstCall`). JSONDecoder needs one thing more: a call that waits
fills a struct, a vector or a map (`Waiting`), since what a return does depends on that. That there is a node
at all is an assert of XMLDecoder's constructor.

**The class plugin.** While messages are inserted, the result has each of those inserted once (`Whole`), and
of two of them the order is settled when the later one comes in (`Ordered`): inserting a third changes no
order, and the new one goes before the first that uses it and so before all that do, or behind the last.
From this *UsedBefore*: if a class has a member of a later one, the later one stands before it; if it has a
member of an earlier one, and none of the messages before it in the file has a member of it, it stands behind
that one. What a message has a member of is, here, what `getInsertIdx` finds by the short name.

**json2cpp.** `getDescription` and `getDescriptionChild` call each other, one level of the document each, and
collect at different points: a member of `getDescription` behind the call that goes through it, one of
`getDescriptionChild` in the call itself, at its end. The invariant is therefore about all the calls in
progress. Each is about a member of the object of the call around it (`StackOK`), and no two are about the
same (`RootsOnce`); what a loop has ahead is neither collected nor begun (`AheadOK`); what it has behind is
collected, but for the class of the call inside (`BehindOK`); the class that is collected next has those of
all its members in place (`OpenOK`). That all this holds also of a call that is just entered needs one thing
more: nothing is begun before the object that it is a member of (`Held`), so that a class that is not begun
has nothing in it that is. Then a class goes to the end of `vec_` once, behind those of its members (`VecOK`).
That no object is a member of two others, and that the class in the type of a member is the one collected for
it unless the member is a vector of vectors, are facts about documents, by recursion over the nodes from the
last one back.

**Only model-checked**: the liveness properties, which need fairness; what a tree of a JSON or XML text
*means* (DocumentsRead, AcceptedText, AcceptsBalanced, BalancedRead), TextReadsBack, DocumentComesBack,
MessageComesBack and ElementsComeBack, whose definitions recur over texts and values as TLC evaluates them
(RECURSIVE operators, or induction over data).

## 6 What the code does otherwise than it says

With a run (`findings` in `PROJECT.json`):

1. `json/encoder.h:52` writes a top-level vector of structs without commas.
2. `json/reader.cpp:216` lets a string end at a quote that has no backslash before it, so that one whose last
   character is a backslash, written as two, runs on to a later quote and is not decoded. In a list the text may
   still be accepted, with other elements.
3. `protobuf/reader.cpp:185` records an overrun that nothing obeys.
4. `protobuf/encoder.cpp:30` writes an int64 through 32 bits.
5. `protobuf/decoder.h:62` accepts a packed field, and decodes it as a single 0.
6. `protobuf/decoder.h:49` asserts that a singular field is in a message once. Protobuf has the last one
   count; without asserts the first does, and so of two messages written into one string.
7. `xml/reader.cpp:275` looks at the error of the first pass, so that the second pass of `<a></a` and its
   like asks for a node that was not counted.
8. `xml/decoder.h:77` looks for the name `value` inside of each element of a vector that is the root, and
   `xml/decoder.h:103` reads each entry of a map from the first: neither reads what XMLEncoder writes.

Met while modelling, in the models where they are modelled, without a run of their own:

* `json/reader.cpp:337` asserts that a key has a character; `{"":1}` is JSON, and JSONEncoder writes it.
  DocumentsRead says exactly which documents meet it, DocumentComesBack leaves such maps out.
* `json/decoder.cpp:226`: a vector of bools is never decoded while types are asked for, as they are by default, since
  the type compared is the array's. DocumentComesBack leaves objects with one out, unless types are not asked for.
* `json/decoder.h:153`: the keys of a map stay escaped, and a key ends at its first quote (`json/reader.cpp:166`),
  escaped or not. DocumentComesBack leaves such maps out.
* `protobuf/reader.cpp:210` keeps 13 bits of a field number. AdjacentFieldsFound is about the numbers kept.
* `protobuf/reader.cpp:82` takes the number 0 for none, so that two fields 8192 in a row are counted as two runs
  and filled as one. The NULL left in `numbers_` is dereferenced by `getNodeByNumber` (`:124`) when it looks for a
  number that is not there. NumbersFilled and AdjacentFieldsFound say that this happens nowhere else.
* `protobuf/reader.cpp:157`: a length that is too large by a multiple of 2^32 makes `remaining` 0, and the message is
  accepted. AcceptsWhole is about lengths of 32 bits (`InWidth`); the run has such messages, for the model's width.
* `json/reader.cpp:232`: a missing value is taken for a number of no digits, so `[,]` is read as two
  elements (or meets the assert of line 347). DocumentsRead says that no document does so.
* `json/reader.cpp`: a text that is one number is rejected, since the number runs to the end of the text.
* `protobuf/reader.cpp:124`: of a repeated field whose elements are not neighbours only the first run is
  found. Protobuf allows such messages; hence the premise of AdjacentFieldsFound.
* `protobuf/encoder.h:59`: the length of a packed field adds up sizes of sizes, right while every element
  takes one byte, and `writer.h:76` does not count its tag. SizeExact excludes packed fields,
  and with `encoder.cpp:30` (above) the int64s that do not fit in 32 bits (`Counts`).
* `field.h:130`: `makeField` for a packed field drops `has`.
* `protobuf/writer.cpp:65` asserts FIELDTYPE_FIXED32 for a float, but `class_serialize.cc:135` emits
  FIELDTYPE_FLOAT (the same for double).
* `xml/reader.cpp:340`: of a text around a child, the last piece is the value, while `reader.h:17` says the
  first. BalancedRead asks of texts of this kind only that they are accepted.
* `xml/reader.cpp:532`: the value of a CDATA node has `![CDATA[` and `]]` in it; `writer.cpp:70` writes such
  strings as sections again, so that this makes a round trip. White space before a text is skipped: a string
  that begins with it comes back without.
* `xml/reader.cpp:600`: elements with attributes are rejected.
* `xml/reader.cpp:230`: after `<!` at the end, the zero that ends the text is skipped. The model stops
  there (`outside`); CountingEnds leaves such texts out.
* JSONDecoder: an empty string leaves the old value and `has` (`decoder.cpp:212`); a vector keeps its
  elements if the array is empty (`decoder.h:69`), and the old elements are decoded into otherwise;
  a vector of bools is appended to; a map that is the root finds the value of every entry by its key, ignoring case if
  asked to, so that the first of two alike counts for both.
* XMLDecoder: a vector of bools is appended to.
* ProtobufDecoder: a string or bytes field is appended to what it had.
* The class plugin: in a file with the messages A, C, B in which A uses B and B uses C, the order becomes B,
  A, C: B goes before A, which is before C. A nested message that uses the one around it may end behind it.
  A field is compared by its short name, so that a nested message of a later one is not found; and so is not the
  class of a map's values, as the map's field names its entry. A message
  without fields is not printed (`printClass`), even if others use it.
* json2cpp: an array of arrays has no class, the classes of two objects under the same key have the same
  name, and a document that is an array gives nothing.
* `xml/writer.cpp:61` prints a double with `%lf`, six digits behind the point.

## 7 Not modelled

* Of the 455,769 lines that count as implementation nearly all are the copy of Google's protobuf under
  `tool/protoc/src/google`, generated `.pb.cc` files and their tests among them. It is a third party's code,
  vendored to build the class plugin into it. serialflex itself (`src/src`, `src/include`,
  `src/tool/json2cpp` and the `class` directory of the compiler) has about 6,300 lines, which is what the
  models are of.
* Strings and numbers in JSONReader and JSONWriter are one token each. What is inside of a string is in
  JSONRoundTrip, except surrogate pairs; the digits of numbers, `convertInt`, `convertUint`, `convertDouble` and
  how numbers are printed are data.
* Numeric character references in XMLDecoder (`decoder.cpp:245`): XMLEncoder writes none. float and double
  in protobuf: they are the fixed32 and fixed64 with their bits (`writer.cpp:65` has the wrong assert).
  Both are among the hazards, with the reason why no property covers them.
* The text of the classes that the generators print, tabs, file names, the example.
* The traits and macros that choose overloads at compile time: they keep no state.
* Memory: `new`/`delete`, moves, and the lifetime of texts that nodes point into.

## 8 Plan

Done, in this order: JSONReader, JSONWriter with JSONText, PBReader, XMLReader, PBWriter, XMLWriter with
XMLText and the proofs about these; XMLDecoder, PBDecoder, JSONDecoder, each in a round trip with its encoder;
ClassOrder with its proofs, Json2Cpp; the proofs that the JSON reader's nodes are one tree, and of what XMLDecoder
and JSONDecoder return; SizeExact for every sequence of messages; that the protobuf reader accepts the whole
messages, and finds their fields; that json2cpp has the classes of the members first; that the bytes of the
protobuf encoder read back as the message.

What would come next:

1. For XMLDecoder and JSONDecoder, that `current_` never leaves the children of a node that a frame has saved.
2. From ReadsBackCorrect and the decoder's own steps, MessageComesBack; TextReadsBack of XMLWriter, once its
   reading is a function and no RECURSIVE operator.
3. Surrogate pairs of `parse_string`, and numeric references of XMLDecoder, on characters.

Where a new run answers a question that an older one asks as well, the older one goes.
