---------------------------- MODULE GeneratorsMC ----------------------------
(***************************************************************************)
(* The two tools that print C++ classes, each by itself: the class plugin  *)
(* of protoc on the files of ClassOrderMC, and json2cpp on documents of    *)
(* objects and arrays nested in each other up to five deep.                *)
(***************************************************************************)
EXTENDS ClassOrderMC, Json2Cpp

-----------------------------------------------------------------------------
(***************************************************************************)
(* Documents, as trees, and the nodes custom::Reader makes of them.        *)
(***************************************************************************)
Leaf == [type |-> "number", items |-> <<>>]
Array(trees) == [type |-> "array", items |-> [k \in DOMAIN trees |-> [key |-> NoKey, tree |-> trees[k]]]]
Keys == <<"a", "b", "c">>
Object(trees) == [type |-> "object", items |-> [k \in DOMAIN trees |-> [key |-> Keys[k], tree |-> trees[k]]]]

Few(ts) == {<<>>} \cup {<<t>> : t \in ts} \cup {<<t, u>> : t, u \in ts}
Around(ts) == {Object(l) : l \in Few(ts)} \cup {Array(l) : l \in Few(ts)}
Once == Around({Leaf})
Twice == Around({Leaf, Object(<<Leaf>>), Array(<<>>), Array(<<Object(<<>>), Leaf>>)})
Deep(ts) == {Object(<<t>>) : t \in ts} \cup {Array(<<t>>) : t \in ts} \cup {Object(<<Leaf, t>>) : t \in ts}
Documents == {Object(l) : l \in Few(Once \cup {Object(<<t>>) : t \in Twice})} \cup Deep(Deep(Twice))

RECURSIVE Size(_)
Size(tree) == 1 + FoldLeft(LAMBDA n, e : n + Size(e.tree), 0, tree.items)

\* A child's prev is its parent if it is the first, the child before it if not.
RECURSIVE NodesOf(_, _, _, _, _), NodesOfAll(_, _, _)
NodesOf(tree, key, n, prev, next) ==
    <<[type |-> tree.type, key |-> key, prev |-> prev, next |-> next,
       child |-> IF tree.items = <<>> THEN NULL ELSE n + 1]>>
      \o NodesOfAll(tree.items, n + 1, n)
NodesOfAll(items, n, prev) ==
    IF items = <<>> THEN <<>>
    ELSE LET size == Size(Head(items).tree)
         IN  NodesOf(Head(items).tree, Head(items).key, n, prev, IF Tail(items) = <<>> THEN NULL ELSE n + size)
               \o NodesOfAll(Tail(items), n + size, n)

-----------------------------------------------------------------------------
NoFile == msgs = <<>> /\ idx = 1 /\ at = 1 /\ result = <<>> /\ line = 1 /\ printed = <<>>
NoDocument == nodes = <<>> /\ calls = <<>> /\ vec_ = <<>> /\ text = TRUE

\* getDescription finds nothing in an array.
Parsed ==
    /\ \E d \in {e \in Documents : e.type = "object"} : nodes = NodesOf(d, NoKey, 1, NULL, NULL)
    /\ BuildStruct

InitEither == (Init /\ NoDocument) \/ (NoFile /\ Parsed)

NextEither == \/ Next /\ UNCHANGED jsonVars
              \/ NextCall /\ UNCHANGED vars

Generators == InitEither /\ [][NextEither]_<<vars, jsonVars>>

=============================================================================
