--------------------------- MODULE JSONRoundTrip ----------------------------
(***************************************************************************)
(* An object is encoded, the text is read and decoded into another object: *)
(* of its type, just made or used before, or of another type.  Here the    *)
(* text is one of characters, for what is inside the strings; digits and   *)
(* the words true, false and null are taken whole.                         *)
(***************************************************************************)
EXTENDS JSONDecoder, JSONChars

VARIABLES
    object,     \* history: what was encoded
    start       \* history: the object before it is decoded into

Scalar(kind, chars) == [kind |-> kind, chars |-> chars]
Number(chars) == Scalar("number", chars)
Bool(b) == Scalar("bool", <<b>>)
String(chars) == Scalar("string", chars)
Null == Scalar("null", <<"null">>)          \* written by others
Field(name, has, v) == [name |-> <<name>>, has |-> has, value |-> v]
Struct(members) == [kind |-> "struct", members |-> members]
Entry(key, v) == [key |-> key, value |-> v]
List(kind, of, elements) == [kind |-> kind, of |-> of, elements |-> elements]
Vector(elements) == List("vector", Number(<<"0">>), elements)
Map(entries) == List("map", Number(<<"0">>), entries)

-----------------------------------------------------------------------------
(***************************************************************************)
(* Characters.                                                             *)
(***************************************************************************)
Digits == {"0", "1"}

\* json::Writer: appendString.  The digits of \u0001 are one.
Escape(c) == CASE c \in {"bs", "quote"} -> <<"bs", c>>
               [] c = "nl" -> <<"bs", "n">>
               [] c = "ctl" -> <<"bs", "u", "hex">>
               [] OTHER -> <<c>>
Escaped(chars) == FlattenSeq([k \in DOMAIN chars |-> Escape(chars[k])])
Quoted(chars) == <<"quote">> \o Escaped(chars) \o <<"quote">>

-----------------------------------------------------------------------------
(***************************************************************************)
(* JSONEncoder: the text that is written for a value.                      *)
(***************************************************************************)
Written(v) == SelectSeq(v.members, LAMBDA m : m.has)
Listed(texts) ==
    FlattenSeq([k \in DOMAIN texts |-> IF k = 1 THEN texts[k] ELSE <<"comma">> \o texts[k]])

RECURSIVE Text(_)
Text(v) ==
    LET Keyed(key, w) == Quoted(key) \o <<"colon">> \o Text(w)
    IN  CASE v.kind = "struct" ->
                <<"lbrace">> \o Listed([k \in DOMAIN Written(v) |-> Keyed(Written(v)[k].name, Written(v)[k].value)])
                  \o <<"rbrace">>
          [] v.kind = "map" ->
                <<"lbrace">> \o Listed([k \in DOMAIN v.elements |-> Keyed(v.elements[k].key, v.elements[k].value)])
                  \o <<"rbrace">>
          [] v.kind = "vector" ->
                <<"lbracket">> \o Listed([k \in DOMAIN v.elements |-> Text(v.elements[k])]) \o <<"rbracket">>
          [] v.kind = "string" -> Quoted(v.chars)
          [] OTHER -> v.chars

-----------------------------------------------------------------------------
(***************************************************************************)
(* json::Reader: what is read of a text from a position on.  A tree is a   *)
(* node with the trees below it.  An error, setError, does not stop the    *)
(* loops over elements and members; an assert of setItemKey and            *)
(* setItemValue, in the second pass, does stop the program.                *)
(***************************************************************************)
Tree(type, v, kids) == [type |-> type, keyed |-> FALSE, key |-> <<>>, value |-> v, kids |-> kids]
Read(error, aborts, end, tree) == [error |-> error, aborts |-> aborts, end |-> end, tree |-> tree]
Found(end, tree) == Read(FALSE, FALSE, end, tree)
Fail(so, end) == [so EXCEPT !.error = TRUE, !.end = end]
Nothing == Found(0, Tree("null", <<>>, <<>>))

At(t, p) == IF p <= Len(t) THEN t[p] ELSE "end"
FirstOf(places) == IF places = {} THEN 0 ELSE Min(places)

\* A quote behind a backslash does not end a string.
ParseString(t, p) ==
    LET end == FirstOf({q \in p + 1 .. Len(t) : t[q] = "quote" /\ t[q - 1] # "bs"})
    IN  IF end = 0 THEN Fail(Nothing, Len(t) + 1)
        ELSE Found(end + 1, Tree("string", SubSeq(t, p + 1, end - 1), <<>>))

\* What is nothing else is a number, unless the text ends: it has to have a digit.
ParseNumber(t, p) ==
    LET end == FirstOf({q \in p .. Len(t) : t[q] \notin Digits})
    IN  IF end = 0 THEN Fail(Nothing, Len(t) + 1)
        ELSE Read(FALSE, end = p, end, Tree("number", SubSeq(t, p, end - 1), <<>>))

\* so is what has been read of a container, item what comes next in it.
WithItem(so, item) ==
    Read(so.error \/ item.error, so.aborts \/ item.aborts, item.end,
         [so.tree EXCEPT !.kids = Append(@, item.tree)])
Skip(so) == [so EXCEPT !.end = @ + 1]

RECURSIVE ParseValue(_, _), ParseElements(_, _), ParseMembers(_, _)
ParseValue(t, p) ==
    CASE At(t, p) = "quote" -> ParseString(t, p)
      [] At(t, p) \in {"true", "false"} -> Found(p + 1, Tree("bool", <<t[p]>>, <<>>))
      [] At(t, p) = "null" -> Found(p + 1, Tree("null", <<"null">>, <<>>))
      [] At(t, p) = "n" -> Fail(Nothing, IF At(t, p + 1) = "u" THEN p + 2 ELSE p + 1)
      [] At(t, p) = "lbracket" ->
            IF At(t, p + 1) = "rbracket" THEN Found(p + 2, Tree("array", <<>>, <<>>))
            ELSE ParseElements(t, Found(p + 1, Tree("array", <<>>, <<>>)))
      [] At(t, p) = "lbrace" ->
            IF At(t, p + 1) = "rbrace" THEN Found(p + 2, Tree("object", <<>>, <<>>))
            ELSE ParseMembers(t, Found(p + 1, Tree("object", <<>>, <<>>)))
      [] OTHER -> ParseNumber(t, p)

ParseElements(t, so) ==
    LET more == WithItem(so, ParseValue(t, so.end))
    IN  CASE At(t, more.end) = "comma" -> ParseElements(t, Skip(more))
          [] At(t, more.end) = "rbracket" -> Skip(more)
          [] OTHER -> Fail(more, more.end)

\* A key ends at the first quote, and has to have a character; where the text ends,
\* so do the members.
ParseMembers(t, so) ==
    LET p == so.end
        end == FirstOf({q \in p + 1 .. Len(t) : t[q] = "quote"})
        key == SubSeq(t, p + 1, end - 1)
        keyed == [so EXCEPT !.aborts = @ \/ key = <<>>]
        member == ParseValue(t, end + 2)
        more == WithItem(keyed, [member EXCEPT !.tree.keyed = TRUE, !.tree.key = key])
    IN  IF p > Len(t) THEN so
        ELSE IF t[p] # "quote" THEN Fail(so, p)
        ELSE IF end = 0 THEN Fail(so, Len(t) + 1)
        ELSE IF At(t, end + 1) # "colon" THEN Fail(keyed, end + 1)
        ELSE CASE At(t, more.end) = "comma" -> ParseMembers(t, Skip(more))
               [] At(t, more.end) = "rbrace" -> Skip(more)
               [] OTHER -> ParseMembers(t, Fail(more, more.end))

\* The nodes of a tree in the order they are allocated in, from number n on.
RECURSIVE NodesOf(_, _, _), NodesOfAll(_, _)
NodesOf(tree, n, next) ==
    <<[type |-> tree.type, keyed |-> tree.keyed, key |-> tree.key, value |-> tree.value,
       child |-> IF tree.kids = <<>> THEN NULL ELSE n + 1, next |-> next]>>
      \o NodesOfAll(tree.kids, n + 1)
NodesOfAll(trees, n) ==
    IF trees = <<>> THEN <<>>
    ELSE LET size == Len(NodesOf(Head(trees), n, NULL))
         IN  NodesOf(Head(trees), n, IF Tail(trees) = <<>> THEN NULL ELSE n + size)
               \o NodesOfAll(Tail(trees), n + size)

\* What is behind the value is not read.  No node where there is an error.
Parse(t) == ParseValue(t, 1)
Root(read) == IF read.error \/ read.aborts THEN <<>> ELSE NodesOf(read.tree, 1, NULL)

-----------------------------------------------------------------------------
(***************************************************************************)
(* What is encoded: strings of the characters that matter, keys, values    *)
(* nested in each other.                                                   *)
(***************************************************************************)
In(v) == Struct(<<Field("a", TRUE, v)>>)
Strings == SeqOf({"x", "n", "u", "1", "quote", "bs", "nl", "ctl"}, 2)
OfString == {In(String(chars)) : chars \in Strings}
               \cup {Struct(<<Field("a", TRUE, String(b)), Field("b", TRUE, String(c))>>) :
                        b, c \in {<<"bs">>, <<"x", "bs">>, <<"bs", "x">>, <<"comma">>, <<>>}}

\* A string that is read too far can end in the next but one.
Few == {<<"bs">>, <<"comma">>, <<"rbracket">>, <<"x">>}
Lists == {Vector(<<String(b), String(c), String(d)>>) : b, c, d \in Few}

KeySets == {<<"a">>, <<"A">>, <<"colon", "1", "comma">>, <<"rbrace">>, <<"bs">>, <<"quote">>, <<>>}
Maps == {Map(<<Entry(k, Number(<<"1">>))>>) : k \in KeySets}
          \cup {Map(<<Entry(p[1], Number(<<"1">>)), Entry(p[2], Number(<<"0">>))>>) :
                   p \in {q \in KeySets \X KeySets : q[1] # q[2]}}

Flat == {Number(<<"1">>), Number(<<"0">>), Bool("true"), Bool("false"), Null, String(<<"1">>), String(<<>>),
         Vector(<<>>), Vector(<<Bool("true"), Bool("false")>>), Vector(<<Number(<<"1">>)>>), Map(<<>>),
         Map(<<Entry(<<"a">>, String(<<"x">>))>>),
         Struct(<<Field("a", TRUE, Number(<<"1">>)), Field("b", FALSE, Bool("true"))>>)}
Nested(vs) ==
    {Struct(<<Field("a", h, v), Field("A", TRUE, Number(<<"1">>))>>) : h \in BOOLEAN, v \in vs}
      \cup {In(Vector(<<v, v>>)) : v \in vs}
      \cup {Map(<<Entry(<<"A">>, v), Entry(<<"a">>, v)>>) : v \in vs}
Once == Nested(Flat) \cup {Vector(<<String(<<"x">>), Number(<<"1">>)>>)}
Twice == {In(v) : v \in Once \cup Maps}

\* operator<< does not write an empty map or vector, and commas are missing
\* between the structs, maps and vectors in a vector.
Documents == OfString \cup Lists \cup Maps \cup Once \cup Twice

Old == <<"x", "x">>
RECURSIVE Made(_, _, _)

\* An object of the type of v, just made or used before.  An empty vector or map
\* has elements like `of', and so has a null.
Made(v, used, of) ==
    LET Element(e) == IF v.kind = "map" THEN e.value ELSE e
        first == Made(IF v.elements = <<>> THEN of ELSE Element(v.elements[1]), FALSE, of)
        Old1 == Made(IF v.elements = <<>> THEN of ELSE Element(v.elements[1]), TRUE, of)
    IN  CASE v.kind = "bool" -> Bool(IF used THEN "true" ELSE "false")
          [] v.kind = "number" -> Number(IF used THEN <<"1">> ELSE <<"0">>)
          [] v.kind = "string" -> String(IF used THEN Old ELSE <<>>)
          [] v.kind = "null" -> Made(of, used, of)
          [] v.kind = "struct" ->
                Struct([k \in DOMAIN v.members |->
                            [v.members[k] EXCEPT !.has = used, !.value = Made(@, used, of)]])
          [] v.kind = "map" -> List("map", first, IF used THEN <<Entry(Old, Old1)>> ELSE <<>>)
          [] v.kind = "vector" -> List("vector", first, IF used THEN <<Old1>> ELSE <<>>)

Types(of) == {[v |-> v, of |-> of] : v \in {In(String(<<>>)), In(Vector(<<In(Bool("true"))>>)), In(Map(<<>>)),
                                           Vector(<<String(<<>>)>>), Map(<<Entry(Old, In(of))>>), In(of)}}
Starts(v) ==
    LET own == {Made(v, used, of) : used \in BOOLEAN, of \in {Number(<<"0">>), Bool("true")}}
        others == {Made(t.v, used, t.of) : used \in BOOLEAN,
                      t \in UNION {Types(of) : of \in {Number(<<"0">>), Bool("true")}}}
    IN  {w \in IF v \in Once THEN own \cup others ELSE own : ~IsBools(w)}

Init ==
    /\ object \in Documents
    /\ LET read == Parse(Text(object)) IN
       nodes = Root(read) /\ pc = IF read.aborts THEN "aborted" ELSE "idle"
    /\ current_ = IF nodes = <<>> THEN NULL ELSE 1
    /\ start \in Starts(object) /\ value = start
    /\ convert_by_type_ \in BOOLEAN /\ case_insensitive_ \in BOOLEAN
    /\ frames = <<>> /\ result = FALSE

RoundTrip == Init /\ [][Next /\ UNCHANGED <<object, start>>]_<<vars, object, start>>

-----------------------------------------------------------------------------
(***************************************************************************)
(* What is to be found in the object afterwards.                           *)
(***************************************************************************)
Item(keyed, key, v) == [keyed |-> keyed, key |-> key, value |-> v]
Items(v) ==
    CASE v.kind = "struct" -> [k \in DOMAIN Written(v) |-> Item(TRUE, Written(v)[k].name, Written(v)[k].value)]
      [] v.kind = "map" -> [k \in DOMAIN v.elements |-> Item(TRUE, v.elements[k].key, v.elements[k].value)]
      [] v.kind = "vector" -> [k \in DOMAIN v.elements |-> Item(FALSE, <<>>, v.elements[k])]
      [] OTHER -> <<>>

\* The items of v with a key like this one.
Under(v, key) == SelectSeq(Items(v), LAMBDA e : e.keyed /\ MCAlike(case_insensitive_, key, e.key))

\* A scalar is read from one of its type, and from any if it may be converted.
Converts(s, v) == IF convert_by_type_ THEN v.kind = s.kind ELSE v.kind # "null"

\* Does v change s?  An empty string and an empty list of bools do not.
Says(s, v) ==
    CASE s.kind = "string" -> Converts(s, v) /\ IsScalar(v) /\ v.chars # <<>>
      [] s.kind \in {"number", "bool"} -> Converts(s, v)
      [] IsBools(s) -> Items(v) # <<>>
      [] OTHER -> TRUE

AsBool(v) ==
    Bool(IF \/ v = Bool("true")
            \/ ~convert_by_type_ /\ v.kind \in {"number", "string"} /\ MCIsTrue(v.chars)
         THEN "true" ELSE "false")

RECURSIVE FilledWith(_, _), FilledMap(_, _, _)

\* The object s when v has been decoded into it: bools are appended, the elements
\* of another list decoded into the old ones, unless it is empty; the entries of a
\* map are new.
FilledWith(s, v) ==
    CASE ~Says(s, v) -> s
      [] s.kind = "number" -> Number(IF v.kind = "string" THEN MCToNumber(Escaped(v.chars))
                                     ELSE IF v.kind \in {"number", "bool"} THEN v.chars ELSE <<"0">>)
      [] s.kind = "bool" -> AsBool(v)
      [] s.kind = "string" -> String(v.chars)
      [] IsBools(s) -> [s EXCEPT !.elements = @ \o [k \in DOMAIN Items(v) |-> AsBool(Items(v)[k].value)]]
      [] s.kind = "vector" ->
            IF Items(v) = <<>> THEN s
            ELSE [s EXCEPT !.elements = [k \in DOMAIN Items(v) |->
                     FilledWith(IF k <= Len(s.elements) THEN s.elements[k] ELSE s.of, Items(v)[k].value)]]
      [] s.kind = "map" -> FilledMap(s, v, FALSE)
      [] s.kind = "struct" ->
            Struct([k \in DOMAIN s.members |->
                LET m == s.members[k]
                    same == Under(v, m.name)
                IN  IF same = <<>> THEN m
                    ELSE [m EXCEPT !.has = @ \/ Says(m.value, same[1].value),
                                   !.value = FilledWith(@, same[1].value)]])

\* The value of an entry of the root is the first under a key like it.
FilledMap(s, v, root) ==
    LET ValueOf(e) == IF ~root THEN FilledWith(s.of, e.value)
                      ELSE IF Under(v, e.key) = <<>> THEN s.of
                      ELSE FilledWith(s.of, Under(v, e.key)[1].value)
        With(m, e) == IF \E k \in DOMAIN m.elements : m.elements[k].key = e.key THEN m
                      ELSE [m EXCEPT !.elements = Append(@, Entry(e.key, ValueOf(e)))]
    IN  FoldLeft(With, [s EXCEPT !.elements = <<>>], Items(v))

Expected == IF start.kind = "map" THEN FilledMap(start, object, TRUE) ELSE FilledWith(start, object)

\* Is every string one that the reader finds the end of, and every key of a map one
\* that needs no escapes, and has a character?
Plain(chars) == chars # <<>> /\ Escaped(chars) = chars
RECURSIVE Readable(_)
Readable(v) ==
    CASE v.kind = "string" -> v.chars = <<>> \/ v.chars[Len(v.chars)] # "bs"
      [] v.kind = "map" -> \A k \in DOMAIN v.elements : Plain(v.elements[k].key) /\ Readable(v.elements[k].value)
      [] OTHER -> \A k \in DOMAIN Items(v) : Readable(Items(v)[k].value)

\* Is there a vector of bools in v?  It is not decoded while types are asked for.
RECURSIVE HasBools(_)
HasBools(v) ==
    CASE v.kind = "struct" -> \E k \in DOMAIN v.members : HasBools(v.members[k].value)
      [] v.kind \in {"vector", "map"} -> IsBools(v) \/ HasBools(v.of)
      [] OTHER -> FALSE

\* What was encoded is decoded, into any object, in every member, element and
\* entry as said above, and current_ is back where it was; no assert of the reader
\* fails.
DocumentComesBack ==
    Readable(object) /\ ~(convert_by_type_ /\ HasBools(start)) =>
        /\ pc # "aborted"
        /\ pc = "done" => result /\ value = Expected

\* A string that is encoded is decoded as it was.
StringsComeBack ==
    pc = "done" /\ object \in OfString /\ start = Made(object, FALSE, Number(<<"0">>)) =>
        \A k \in DOMAIN object.members : value.members[k].value = object.members[k].value

=============================================================================
