---------------------------- MODULE XMLReaderMC ----------------------------
(***************************************************************************)
(* XMLReader on short texts of any characters, on texts put together from  *)
(* tags and other pieces, and on documents; and what the tree means: the   *)
(* text it spells.                                                         *)
(***************************************************************************)
EXTENDS XMLReader, FiniteSetsExt, SequencesExt

CONSTANTS
    MaxLength,      \* length of the texts of any characters
    MaxPieces       \* how many pieces a text has

Letters == {"lt", "gt", "slash", "bang", "quest", "ws", "x"}
Shortest == SeqOf(Letters, MaxLength)

-----------------------------------------------------------------------------
(***************************************************************************)
(* Texts put together from pieces, and of these the balanced ones: every   *)
(* element is closed by its own name, and nothing but nodes and white      *)
(* space is outside.  A balanced text comes with the nodes it has, spelled *)
(* as below, with the characters between them (each node is one lt), and   *)
(* with whether an element in it has text in more than one place.          *)
(***************************************************************************)
Opening(n) == <<"lt", n, "gt">>
Closing(n) == <<"lt", "slash", n, "gt">>
ClosingWide(n) == <<"lt", "slash", n, "ws", "gt">>
TagNames == {"x", "y"}

Form(text, spelled, between, mixed) ==
    [text |-> text, spelled |-> spelled, between |-> between, mixed |-> mixed]
Piece(chars) == Form(chars, <<>>, chars, FALSE)
Then(f, g) == Form(f.text \o g.text, f.spelled \o g.spelled, f.between \o g.between, f.mixed \/ g.mixed)

LeafForms == {Form(<<"lt", "x", "ws", "y", "slash", "gt">>, Opening("x") \o Closing("x"), <<"lt">>, FALSE),
              Form(<<"lt", "bang", "x", "gt">>, <<"lt", "bang", "gt">>, <<"lt">>, FALSE),
              Piece(<<"ws">>)}
CharForms == {Piece(<<"x">>), Piece(<<"ref", "semi">>)}

\* Where text begins between the nodes, after white space; and the first text.
TextsBegin(chars) ==
    {p \in DOMAIN chars : /\ chars[p] \notin {"ws", "lt"}
                          /\ \A q \in 1 .. p - 1 : \/ chars[q] = "ws"
                                                    \/ "lt" \in Range(SubSeq(chars, q, p - 1))}
TextOf(chars) ==
    IF TextsBegin(chars) = {} THEN <<>>
    ELSE LET p == Min(TextsBegin(chars))
         IN  SubSeq(chars, p, Min({q \in p .. Len(chars) : chars[q] = "lt"} \cup {Len(chars) + 1}) - 1)

InElement(n, f, closing) ==
    Form(Opening(n) \o f.text \o closing, Opening(n) \o TextOf(f.between) \o f.spelled \o Closing(n),
         <<"lt">>, f.mixed \/ Cardinality(TextsBegin(f.between)) > 1)

\* Those of k pieces, inside of an element or not.
Balanced[k \in 0 .. MaxPieces, inside \in BOOLEAN] ==
    IF k = 0 THEN {Piece(<<>>)}
    ELSE {Then(leaf, rest) : leaf \in LeafForms \cup (IF inside THEN CharForms ELSE {}),
                             rest \in Balanced[k - 1, inside]}
         \cup UNION {{Then(InElement(n, inner, close), rest) :
                          inner \in Balanced[i, TRUE],
                          close \in {Closing(n), ClosingWide(n)},
                          rest \in Balanced[k - 2 - i, inside]} :
                      n \in TagNames, i \in 0 .. k - 2}
BalancedForms == UNION {Balanced[k, FALSE] : k \in 0 .. MaxPieces}
BalancedTexts == {f.text : f \in BalancedForms}

Leaves == {f.text : f \in LeafForms}
Chars == {f.text : f \in CharForms}
OddPieces == {<<"lt", "x">>, <<"ref">>, <<"toobig", "semi">>, <<"lt", "bang">>, <<"lt", "slash">>,
              <<"lt", "x", "slash">>, <<"lt", "x", "eq", "gt">>, <<"lt", "quest", "x", "quest", "gt">>}

Pieces == {Opening(n) : n \in TagNames} \cup {Closing(n) : n \in TagNames} \cup Leaves \cup Chars
PieceTexts == {FlattenSeq(ps) : ps \in SeqOf(Pieces, MaxPieces)}
OddTexts == {FlattenSeq(ps) : ps \in SeqOf(Pieces \cup OddPieces, 3)}

-----------------------------------------------------------------------------
\* Documents without anything that leaves no trace in the tree: an element has
\* its text first.  The outermost is called serialflex.
DeclarationText == <<"lt", "quest", "xml", "ws", "eq", "quest", "gt">>
Comment == <<"lt", "bang", "dash", "dash", "gt", "dash", "dash", "gt">>
Cdata == <<"lt", "bang", "lbr", "CDATA", "lbr", "lt", "rbr", "x", "rbr", "rbr", "gt">>
Doctype == <<"lt", "bang", "DOCTYPE", "ws", "lbr", "gt", "rbr", "gt">>

ElementOf(n, text, inner) == Opening(n) \o text \o inner \o Closing(n)
Lists(S) == {<<>>} \cup S \cup {a \o b : a, b \in S}
Simple == {ElementOf(n, text, <<>>) : n \in TagNames, text \in {<<>>, <<"y">>}} \cup {Cdata}
Nested == Simple \cup {ElementOf("x", text, l) : text \in {<<>>, <<"x", "semi">>}, l \in Lists(Simple)}
Outermost == {ElementOf("serialflex", <<>>, l) : l \in {a \o b : a \in Nested, b \in Simple \cup {<<>>}}}
Prologs == {<<>>, <<"bom">>, DeclarationText \o <<"ws">>, Doctype, Comment, ElementOf("x", <<>>, <<>>)}

Documents == Outermost \cup {p \o d : p \in Prologs, d \in {e \in Outermost : Len(e) < 19}}
OutermostOf(d) == CHOOSE e \in Outermost : IsSuffix(e, d)

\* An element with text, a leaf and text again.
Mixed == {ElementOf("x", <<"x">>, leaf \o <<"x">>) : leaf \in Leaves}

MCInputs == Shortest \cup Mixed \cup PieceTexts \cup BalancedTexts \cup OddTexts \cup Documents
              \cup UNION {{SubSeq(d, 1, k) : k \in 1 .. Len(d)} : d \in {e \in Documents : Len(e) < 22}}

-----------------------------------------------------------------------------
\* Reader::getResult: the first element called serialflex outside all others.
RECURSIVE Siblings(_)
Siblings(i) == IF i = NULL THEN <<>> ELSE <<i>> \o Siblings(values_[i].next)
IsResult(i) == values_[i].type = NODE_ELEMENT /\ NameOf(values_[i]) = <<"serialflex">>
Results == SelectSeq(Siblings(values_[1].child), IsResult)

\* The text a node spells: an element, a CDATA node, or one not recognized.
RECURSIVE Spell(_), SpellAll(_)
Spell(i) ==
    LET node == values_[i]
        value == SubSeq(src, node.value, node.value + node.value_size - 1)
    IN  IF node.type = NODE_CDATA THEN <<"lt">> \o value \o <<"gt">>
        ELSE IF node.type = UNRECOGNIZED THEN <<"lt", "bang", "gt">>
        ELSE <<"lt">> \o NameOf(node) \o <<"gt">> \o value
               \o SpellAll(Siblings(node.child)) \o <<"lt", "slash">> \o NameOf(node) \o <<"gt">>
SpellAll(nodes) == IF nodes = <<>> THEN <<>> ELSE Spell(Head(nodes)) \o SpellAll(Tail(nodes))

\* What is known of a text beforehand: of a document its outermost element; of a
\* balanced text its form; whether it is put together from pieces.
Known(documents, forms, pieceTexts) ==
    [outermost |-> IF src \in documents THEN OutermostOf(src) ELSE <<>>,
     forms |-> {f \in forms : f.text = src},
     pieces |-> src \in pieceTexts]

\* The nodes made are those of the text, with the text that an element has in one
\* place.
NodesAre(f) == f.mixed \/ SpellAll(Siblings(values_[1].child)) = f.spelled

=============================================================================
