------------------------------ MODULE Json2Cpp ------------------------------
(***************************************************************************)
(* json2cpp: the classes that are printed for a JSON document.             *)
(* CppDescription walks the nodes of the document and collects one         *)
(* StructDetails for each class; toText prints them in that order.  A      *)
(* class that has a member of another class has to stand behind it.        *)
(*                                                                         *)
(* The names of the state machine are its own (BuildStruct for Init, and   *)
(* so on), since GeneratorsMC puts it next to that of ClassOrder.          *)
(***************************************************************************)
EXTENDS Integers, Sequences

VARIABLES
    nodes,          \* custom::Reader: the nodes; node 1 is the root
    calls,          \* the calls of getDescription and getDescriptionChild in progress
    vec_,           \* CppDescription: the classes collected, each its name and node
    text            \* has buildStruct called toText?

jsonVars == <<nodes, calls, vec_, text>>

NULL == 0
NoKey == "none"

(***************************************************************************)
(* The nodes that custom::Reader returns for a text whose value is an      *)
(* object: each but the root is the child, or the next, of the node that   *)
(* its prev names, which was allocated before it; the members of an object *)
(* have keys, which setItemKey asserts not to be empty, and the elements   *)
(* of an array have none.                                                  *)
(***************************************************************************)
HasKey(n) == nodes[n].key # NoKey
IsDocument ==
    /\ Len(nodes) \in Nat \ {0} /\ DOMAIN nodes = 1 .. Len(nodes)
    /\ nodes[1].type = "object" /\ ~HasKey(1) /\ nodes[1].prev = NULL /\ nodes[1].next = NULL
    /\ \A n \in DOMAIN nodes \ {1} :
          /\ nodes[n].prev \in 1 .. n - 1
          /\ (nodes[nodes[n].prev].child = n) # (nodes[nodes[n].prev].next = n)
    /\ \A n \in DOMAIN nodes :
          LET child == nodes[n].child
              next == nodes[n].next
          IN  /\ child # NULL => /\ child \in DOMAIN nodes /\ nodes[child].prev = n
                                 /\ nodes[n].type \in {"object", "array"}
                                 /\ HasKey(child) <=> nodes[n].type = "object"
              /\ next # NULL => /\ next \in DOMAIN nodes /\ nodes[next].prev = n
                                /\ HasKey(next) <=> HasKey(n)

(***************************************************************************)
(* A call has its function, root, the item its loop is at, and whether the *)
(* loop is behind its call of getDescriptionChild.                         *)
(***************************************************************************)
Call(function, root) ==
    [function |-> function, root |-> root, item |-> nodes[root].child, back |-> FALSE]

Running == calls[Len(calls)]
Item == Running.item
Top(call) == [calls EXCEPT ![Len(calls)] = call]
GoOn == [Running EXCEPT !.item = nodes[Item].next, !.back = FALSE]

\* The object an item is, or is an array of, going by the first element.
ObjectOf(n) ==
    IF nodes[n].type = "object" THEN n
    ELSE IF /\ nodes[n].type = "array" /\ nodes[n].child # NULL
            /\ nodes[nodes[n].child].type = "object" THEN nodes[n].child
    ELSE NULL

AtItem(function) == calls # <<>> /\ Running.function = function /\ Item # NULL
AtEnd == calls # <<>> /\ Item = NULL

\* The class of node n, called by the key of k.
Details(k, n) == [name |-> nodes[k].key, node |-> n]

-----------------------------------------------------------------------------
\* buildStruct: getDescription of the root.
BuildStruct == IsDocument /\ calls = <<Call("getDescription", 1)>> /\ vec_ = <<>> /\ text = FALSE

Skip ==
    /\ calls # <<>> /\ Item # NULL
    /\ ObjectOf(Item) = NULL
    /\ calls' = Top(GoOn)
    /\ UNCHANGED <<nodes, vec_, text>>

\* getDescription: first what is inside of the object's members,
DescribeChild ==
    /\ AtItem("getDescription") /\ ObjectOf(Item) # NULL /\ ~Running.back
    /\ calls' = Append(Top([Running EXCEPT !.back = TRUE]), Call("getDescriptionChild", ObjectOf(Item)))
    /\ UNCHANGED <<nodes, vec_, text>>

\* then the object.
PushItem ==
    /\ AtItem("getDescription") /\ Running.back
    /\ vec_' = Append(vec_, Details(Item, ObjectOf(Item)))
    /\ calls' = Top(GoOn)
    /\ UNCHANGED <<nodes, text>>

\* getDescriptionChild
Describe ==
    /\ AtItem("getDescriptionChild") /\ ObjectOf(Item) # NULL
    /\ calls' = Append(Top(GoOn), Call("getDescription", ObjectOf(Item)))
    /\ UNCHANGED <<nodes, vec_, text>>

\* A mutant: an element of an array is left out, for it has no key.
NamedByKey(n) == IF HasKey(n) THEN <<Details(n, n)>> ELSE <<>>
\* The object of the call itself: under its key or that of the array it is in,
\* unless it is the root.
Own(n) ==
    IF HasKey(n) THEN <<Details(n, n)>>
    ELSE IF nodes[n].prev # NULL THEN <<Details(nodes[n].prev, n)>>
    ELSE <<>>

Return ==
    /\ AtEnd
    /\ vec_' = IF Running.function = "getDescription" THEN vec_ \o Own(Running.root) ELSE vec_
    /\ calls' = SubSeq(calls, 1, Len(calls) - 1)
    /\ UNCHANGED <<nodes, text>>

\* buildStruct: the last class is that of the root; toText.
ToText ==
    /\ calls = <<>> /\ ~text
    /\ vec_' = Append(vec_, [name |-> "Result", node |-> 1])
    /\ text' = TRUE
    /\ UNCHANGED <<nodes, calls>>

NextCall == Skip \/ DescribeChild \/ PushItem \/ Describe \/ Return \/ ToText

Json2CppSpec == BuildStruct /\ [][NextCall]_jsonVars

-----------------------------------------------------------------------------
\* toTypeByItem: the class whose name is in the type of the member n, however many
\* vectors are around it.
TypeFrom[n \in 0 .. Len(nodes)] ==
    IF n = NULL THEN NULL
    ELSE IF nodes[n].type = "object" THEN n
    ELSE IF nodes[n].type = "array" THEN TypeFrom[nodes[n].child]
    ELSE NULL
\* getFieldName
TypeName(n) == IF HasKey(n) THEN nodes[n].key ELSE nodes[nodes[n].prev].key

ItemsFrom[n \in 0 .. Len(nodes)] == IF n = NULL THEN {} ELSE {n} \cup ItemsFrom[nodes[n].next]

\* Is the class of a member that is a vector of vectors printed under no name?
InVectors(n) == nodes[n].type = "array" /\ nodes[n].child # NULL /\ nodes[nodes[n].child].type = "array"

\* Of a document whose root is an object each object whose class is asked for is
\* printed once, behind the classes of its members, and under the name that its
\* members' types have; but no class is printed for a vector of vectors.
MembersBefore ==
    /\ \A p, q \in DOMAIN vec_ : vec_[p].node = vec_[q].node => p = q
    /\ \A p \in DOMAIN vec_ : \A n \in ItemsFrom[nodes[vec_[p].node].child] :
            TypeFrom[n] # NULL /\ ~InVectors(n) =>
                \E q \in 1 .. p - 1 : vec_[q] = [name |-> TypeName(TypeFrom[n]), node |-> TypeFrom[n]]
    /\ \A p \in DOMAIN vec_ : \A n \in ItemsFrom[nodes[vec_[p].node].child] :
            InVectors(n) => \A q \in DOMAIN vec_ : vec_[q].node # TypeFrom[n]

=============================================================================
