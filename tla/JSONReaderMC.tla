---------------------------- MODULE JSONReaderMC ----------------------------
(***************************************************************************)
(* JSONReader on every text of at most three tokens, on every longer text  *)
(* over the tokens that structure it, and on documents, cut off or with    *)
(* one token changed; and what the tree means: the text it spells.         *)
(***************************************************************************)
EXTENDS JSONReader, FiniteSetsExt, SequencesExt

CONSTANT MaxLen     \* length of the texts enumerated over Structural

Structural == {"lbrace", "rbrace", "lbracket", "rbracket", "colon", "comma", "string", "number"}

\* Grammatical values of a nesting depth of at most d.
RECURSIVE Values(_)
Values(d) ==
    LET Leaves == {<<"string">>, <<"number">>, <<"empty">>, <<"null">>, <<"bool">>}
        Few     == IF d = 2 THEN Values(1) ELSE {<<"string">>, <<"number">>}
        Pairs   == {<<"string", "colon">> \o v : v \in Few}
        NoKey   == {<<"empty", "colon">> \o v : v \in Few}
        Lists(S) == {<<>>} \cup S \cup {a \o <<"comma">> \o b : a, b \in S}
    IN  IF d = 0 THEN Leaves
        ELSE Leaves \cup {<<"lbracket">> \o l \o <<"rbracket">> : l \in Lists(Few)}
                     \cup {<<"lbrace">> \o l \o <<"rbrace">> : l \in Lists(Pairs) \cup NoKey}

\* A text that is one number ends inside the number: parseNumber rejects it.
Documents == Values(2) \ {<<"number">>}
SmallDocuments == Values(1)

Changed == {[t EXCEPT ![k] = u] : t \in {x \in SmallDocuments : Len(x) > 2},
                                  k \in 1 .. 3, u \in Token}

MCInputs == SeqOf(Token, 3) \cup SeqOf(Structural, MaxLen)
              \cup Documents \cup Changed
              \cup UNION {{SubSeq(t, 1, k) : k \in 1 .. Len(t)} : t \in Documents}

-----------------------------------------------------------------------------
\* The text a tree spells: a node, then the siblings after it.
RECURSIVE Spell(_), SpellList(_)
Spell(i) ==
    LET node == values_[i] IN
    CASE node.type = "none" -> <<>>
      [] node.type = "array" -> <<"lbracket">> \o SpellList(node.child) \o <<"rbracket">>
      [] node.type = "object" -> <<"lbrace">> \o SpellList(node.child) \o <<"rbrace">>
      [] OTHER -> <<src[node.value]>>
SpellList(i) ==
    IF i = NULL THEN <<>>
    ELSE LET key == IF values_[i].key = 0 THEN <<>> ELSE <<src[values_[i].key], "colon">>
             more == values_[i].next
         IN  key \o Spell(i) \o (IF more = NULL THEN <<>> ELSE <<"comma">>) \o SpellList(more)

\* Every document is accepted and its tree is the document: keys with their
\* values, elements in their order, nesting restored after each container.  On
\* the way parseNumber never takes a missing value for a number, and no assert
\* fails but that of setItemKey, for the empty keys, which JSON allows.
EmptyKey == \E k \in 1 .. Len(src) - 1 : src[k] = "empty" /\ src[k + 1] = "colon"
DocumentsRead ==
    pass = 3 /\ src \in Documents =>
        /\ ~str_error_
        /\ failed = (IF EmptyKey THEN {"key_size"} ELSE {})
        /\ Spell(1) = src

\* What is accepted although it need not be a document: the tree spells the
\* beginning of the text (what follows the value is not read), or the text ends
\* inside the outermost object, after its { or one of its commas.
AcceptedText ==
    Accepted =>
        LET tree == Spell(1) IN
        \/ IsPrefix(tree, src)
        \/ /\ values_[1].type = "object"
           /\ src[Len(src)] \in {"lbrace", "comma"}
           /\ IsPrefix(SubSeq(tree, 1, Len(tree) - 1), src)
           /\ Len(src) \in {Len(tree) - 1, Len(tree)}

=============================================================================
