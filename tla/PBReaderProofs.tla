--------------------------- MODULE PBReaderProofs ---------------------------
(***************************************************************************)
(* For every message: filling never runs out of the nodes, or of the       *)
(* entries of numbers_, that counting counted; and unless two fields next  *)
(* to each other are kept under 0, filling uses all of them.  For every    *)
(* message whose tags and lengths are numbers of 32 bits: parse accepts it *)
(* exactly if it is whole; and asked for a number it finds the fields of   *)
(* that number, unless these are scattered or two are kept under 0.        *)
(*                                                                         *)
(* The argument for the sizes: where the loop of parseFromBytes goes from  *)
(* a position depends on the message alone, so the second pass visits the  *)
(* positions of `trace', the history of the first, at index `step'.  There *)
(* the nodes handed out are those counted but one, and the runs opened at  *)
(* most those counted: the numbers compared are the same, but the first    *)
(* pass takes a last number 0 for none.                                    *)
(*                                                                         *)
(* The argument for the fields: FieldsFrom is defined by recursion, so it  *)
(* is first shown to be what it says, from the end of the message back.    *)
(* Then a turn of the loop that meets nothing cut goes from a position to  *)
(* NextAt of it, and the fields of the message are those of the nodes that *)
(* are handed out and those from the position on.                          *)
(***************************************************************************)
EXTENDS PBMessage, SequenceTheorems, WellFoundedInduction, TLAPS

DataAt(p) == LastByte(p) + 1
CutAt(p) == \/ ~VarIntEnds(p)
            \/ WireTypeAt(p) \in {0, 2} /\ Spins(DataAt(p))
AddsAt(p) == ~CutAt(p) /\ WireTypeAt(p) \in {0, 1, 2, 5}
UnknownAt(p) == VarIntEnds(p) /\ WireTypeAt(p) \in {6, 7}

FixedEnd(p, size) == IF size <= Len(src) + 1 - p THEN p + size ELSE p
BytesMissing(p) == After(p) + readVarInt(p) - (Len(src) + 1)
Wraps(p) == BytesMissing(p) > 0 /\ BytesMissing(p) % Range32 = 0
BytesEnd(p) == IF BytesMissing(p) <= 0 THEN After(p) + readVarInt(p)
               ELSE IF Wraps(p) THEN Len(src) + 1 ELSE After(p)

\* Where a turn of the loop goes from position p.
PosAfter(p) ==
    IF CutAt(p) THEN p
    ELSE IF WireTypeAt(p) = 0 THEN After(DataAt(p))
    ELSE IF WireTypeAt(p) = 1 THEN FixedEnd(DataAt(p), 8)
    ELSE IF WireTypeAt(p) = 5 THEN FixedEnd(DataAt(p), 4)
    ELSE IF WireTypeAt(p) = 2 THEN BytesEnd(DataAt(p))
    ELSE DataAt(p)
LoopAfter(p) ==
    IF CutAt(p) THEN "spin"
    ELSE IF WireTypeAt(p) = 2 /\ BytesMissing(DataAt(p)) > 0 /\ ~Wraps(DataAt(p)) THEN "outside"
    ELSE "run"

Entry == [pos : Nat, loop : {"run", "spin", "outside"}, n : Nat, m : Nat, last : Nat]

HaltedAt(t) == t.loop = "run" /\ (t.pos > Len(src) \/ UnknownAt(t.pos))

\* Entry u of the trace follows entry t.
Follows(t, u) ==
    /\ ~HaltedAt(t)
    /\ u.pos = PosAfter(t.pos) /\ u.loop = LoopAfter(t.pos)
    /\ IF AddsAt(t.pos)
       THEN /\ u.n = t.n + 1
            /\ u.m = IF t.last # 0 /\ t.last = FieldNumberAt(t.pos) THEN t.m ELSE t.m + 1
            /\ u.last = FieldNumberAt(t.pos)
       ELSE u.n = t.n /\ u.m = t.m /\ u.last = t.last

Last == trace[Len(trace)]

TraceOK ==
    /\ trace \in Seq(Entry) /\ Len(trace) > 0
    /\ trace[1] = [pos |-> 1, loop |-> "run", n |-> 1, m |-> 0, last |-> 0]
    /\ \A i \in 1 .. Len(trace) - 1 : Follows(trace[i], trace[i + 1])
    /\ \A i \in 1 .. Len(trace) : /\ trace[i].n <= Last.n /\ trace[i].m <= Last.m
                                  /\ trace[i].n >= 1
                                  /\ trace[i].n = 1 => trace[i].m = 0 /\ trace[i].last = 0

AtTheEnd ==
    pass = 1 => /\ pos = Last.pos /\ loop = Last.loop
                /\ capacity_ = Last.n /\ numbers_capacity_ = Last.m
                /\ last_field_number_ = Last.last
                /\ cur_ndex_ = 0 /\ numbers_ndex_ = 0

Retraces ==
    pass # 1 => /\ HaltedAt(Last)
                /\ capacity_ = Last.n /\ numbers_capacity_ = Last.m
                /\ step \in 1 .. Len(trace)
                /\ pos = trace[step].pos /\ loop = trace[step].loop
                /\ cur_ndex_ + 1 = trace[step].n
                /\ (cur_ndex_ > 0 => nodes_[cur_ndex_].number = trace[step].last)
                /\ numbers_ndex_ <= trace[step].m
                /\ (~ZeroTwice => numbers_ndex_ = trace[step].m)
                /\ \A k \in 1 .. numbers_ndex_ : numbers_[k] # NULL

Returned == pass = 3 => HaltedAt([pos |-> pos, loop |-> loop])

IInv == ReaderTypeOK /\ TraceOK /\ AtTheEnd /\ Retraces /\ Returned

-----------------------------------------------------------------------------
(***************************************************************************)
(* What is defined by recursion over the message is defined.               *)
(***************************************************************************)
\* A set of natural numbers that is not empty has a least one.
LEMMA Least ==
    ASSUME NEW S \in SUBSET Nat, S # {}
    PROVE  \E m \in S : \A k \in S : m <= k
<1> DEFINE R == OpToRel(<, Nat)
<1>1. IsWellFoundedOn(R, Nat)
  BY NatLessThanWellFounded
<1>2. \A x, y \in Nat : x < y => <<x, y>> \in R
  BY DEF OpToRel
<1> HIDE DEF R
<1>3. PICK m \in S : \A k \in S : <<k, m>> \notin R
  BY <1>1, WFMin
<1>4. \A k \in S : ~(k < m)
  BY <1>2, <1>3
<1> QED BY <1>4

LEMMA Induction ==
    ASSUME NEW S, 0 \in S, \A n \in Nat : n \in S => n + 1 \in S
    PROVE  Nat \subseteq S
<1> DEFINE T == Nat \ S
<1>1. SUFFICES ASSUME T # {} PROVE FALSE
  OBVIOUS
<1>2. T \in SUBSET Nat
  OBVIOUS
<1>3. PICK n \in T : \A k \in T : n <= k
  <2> HIDE DEF T
  <2> QED BY <1>1, <1>2, Least
<1>4. n # 0 /\ n - 1 \in Nat /\ n - 1 \notin T
  BY <1>3
<1>5. n - 1 \in S /\ (n - 1) + 1 = n
  BY <1>4
<1> QED BY <1>3, <1>4, <1>5

\* A function whose value at a position is made from the one at a later position, or
\* from v where there is none.
Unrolls(f, q, n, v, E, B) == \A p \in q .. n : f[p] = E[p][IF B[p] = 0 THEN v ELSE f[B[p]]]
GoesOn(n, B) == \A p \in 1 .. n : B[p] = 0 \/ B[p] \in p + 1 .. n

LEMMA Unroll ==
    ASSUME NEW V, NEW v \in V, NEW n \in Nat, NEW E \in [1 .. n -> [V -> V]],
           NEW B \in [1 .. n -> Nat], GoesOn(n, B)
    PROVE  \E f \in [1 .. n -> V] : Unrolls(f, 1, n, v, E, B)
<1> DEFINE Is(f, q) == f \in [q .. n -> V] /\ Unrolls(f, q, n, v, E, B)
           S == {k \in Nat : k <= n => \E f : Is(f, n + 1 - k)}
<1>1. 0 \in S
  <2>1. n + 1 .. n = {}
    OBVIOUS
  <2>2. Is([p \in {} |-> v], n + 1)
    BY <2>1 DEF Unrolls
  <2> HIDE DEF Is
  <2> QED BY <2>2
<1>2. ASSUME NEW k \in Nat, k \in S PROVE k + 1 \in S
  <2>1. CASE k + 1 <= n
    <3>1. PICK q \in 1 .. n : q = n - k
      BY <2>1
    <3>2. PICK f : Is(f, q + 1)
      <4>1. k <= n /\ n + 1 - k = q + 1
        BY <2>1, <3>1
      <4> HIDE DEF Is
      <4> QED BY <1>2, <4>1
    <3> DEFINE y == IF B[q] = 0 THEN v ELSE f[B[q]]
               x == E[q][y]
               g == [p \in q .. n |-> IF p = q THEN x ELSE f[p]]
    <3>3. x \in V
      <4>1. y \in V
        BY <3>2 DEF GoesOn
      <4> HIDE DEF y
      <4> QED BY <4>1
    <3>4. g \in [q .. n -> V]
      <4> HIDE DEF x
      <4> QED BY <3>2, <3>3
    <3>5. ASSUME NEW p \in q .. n
          PROVE  g[p] = E[p][IF B[p] = 0 THEN v ELSE g[B[p]]]
      <4>1. B[p] # 0 => B[p] \in q + 1 .. n /\ B[p] # q
        BY DEF GoesOn
      <4>2. B[p] # 0 => g[B[p]] = f[B[p]]
        <5> HIDE DEF x
        <5> QED BY <4>1
      <4>3. CASE p = q
        BY <4>2, <4>3
      <4>4. CASE p # q
        <5>1. p \in q + 1 .. n
          BY <4>4
        <5>2. g[p] = f[p] /\ f[p] = E[p][IF B[p] = 0 THEN v ELSE f[B[p]]]
          BY <3>2, <4>4, <5>1 DEF Unrolls
        <5> HIDE DEF g
        <5> QED BY <4>2, <5>2
      <4> QED BY <4>3, <4>4
    <3>6. Is(g, q)
      <4> HIDE DEF g
      <4> QED BY <3>4, <3>5 DEF Unrolls
    <3>7. n + 1 - (k + 1) = q
      BY <3>1
    <3> HIDE DEF Is, g
    <3>8. \E h : Is(h, n + 1 - (k + 1))
      BY <3>6, <3>7
    <3> QED BY <3>8
  <2> QED BY <2>1
<1>3. n \in S
  <2> HIDE DEF S
  <2> QED BY <1>1, <1>2, Induction
<1>4. n + 1 - n = 1
  OBVIOUS
<1>5. \E f : Is(f, 1)
  <2> HIDE DEF Is
  <2> QED BY <1>3, <1>4
<1> QED BY <1>5

\* One whose value is made from the one before, or from v at the beginning.
Iterates(f, n, v, E) == \A k \in 0 .. n : f[k] = E[k][IF k = 0 THEN v ELSE f[k - 1]]

LEMMA Iterate ==
    ASSUME NEW V, NEW v \in V, NEW n \in Nat, NEW E \in [0 .. n -> [V -> V]]
    PROVE  \E f \in [0 .. n -> V] : Iterates(f, n, v, E)
<1>1. PICK m \in Nat : m = n + 1
  OBVIOUS
<1> DEFINE A == [p \in 1 .. m |-> E[m - p]]
           B == [p \in 1 .. m |-> IF p = m THEN 0 ELSE p + 1]
<1>2. A \in [1 .. m -> [V -> V]]
  <2>1. \A p \in 1 .. m : m - p \in 0 .. n
    BY <1>1
  <2> QED BY <2>1
<1>3. B \in [1 .. m -> Nat] /\ GoesOn(m, B)
  BY DEF GoesOn
<1>4. PICK g \in [1 .. m -> V] : Unrolls(g, 1, m, v, A, B)
  <2> HIDE DEF A, B
  <2> QED BY <1>2, <1>3, Unroll
<1> DEFINE f == [k \in 0 .. n |-> g[m - k]]
<1>5. f \in [0 .. n -> V]
  <2>1. \A k \in 0 .. n : m - k \in 1 .. m
    BY <1>1
  <2> QED BY <2>1
<1>6. ASSUME NEW k \in 0 .. n PROVE f[k] = E[k][IF k = 0 THEN v ELSE f[k - 1]]
  <2>1. PICK p \in 1 .. m : p = m - k /\ m - p = k /\ (p = m <=> k = 0)
    <3>1. m - k \in 1 .. m /\ m - (m - k) = k /\ (m - k = m <=> k = 0)
      BY <1>1
    <3> QED BY <3>1
  <2>2. g[p] = A[p][IF B[p] = 0 THEN v ELSE g[B[p]]]
    <3> HIDE DEF A, B
    <3> QED BY <1>4 DEF Unrolls
  <2>3. A[p] = E[k] /\ (k = 0 => B[p] = 0) /\ (k # 0 => B[p] = p + 1 /\ B[p] # 0)
    BY <2>1
  <2>4. k # 0 => f[k - 1] = g[p + 1]
    <3>1. k # 0 => k - 1 \in 0 .. n /\ m - (k - 1) = p + 1
      BY <1>1, <2>1
    <3> QED BY <3>1
  <2>5. f[k] = g[p]
    BY <2>1
  <2> HIDE DEF A, B, f
  <2> QED BY <2>2, <2>3, <2>4, <2>5
<1> HIDE DEF f
<1> QED BY <1>5, <1>6 DEF Iterates

-----------------------------------------------------------------------------
(***************************************************************************)
(* The message.                                                            *)
(***************************************************************************)
LEMMA LastByteOK ==
    ASSUME NEW p \in Nat, VarIntEnds(p)
    PROVE  LastByte(p) \in p .. Len(src)
BY DEF VarIntEnds, LastByte

LEMMA AfterOK ==
    ASSUME src \in Seq(Octet), NEW p \in 1 .. Len(src) + 1, ~Spins(p)
    PROVE  After(p) \in p .. Len(src) + 1
<1>1. Len(src) \in Nat
  OBVIOUS
<1>2. CASE p <= Len(src)
  <2>1. LastByte(p) \in p .. Len(src)
    BY <1>1, <1>2, LastByteOK DEF Spins
  <2> QED BY <1>1, <1>2, <2>1 DEF After
<1>3. CASE ~(p <= Len(src))
  BY <1>1, <1>3 DEF After
<1> QED BY <1>2, <1>3

LEMMA ByteOK ==
    ASSUME src \in Seq(Octet), NEW j \in 1 .. Len(src)
    PROVE  src[j] \in Nat
<1>1. src[j] \in Octet
  OBVIOUS
<1>2. \A b \in Octet : b \in Nat
  BY DEF Octet
<1> QED BY <1>1, <1>2

LEMMA ModOK ==
    ASSUME NEW x \in Nat PROVE x % 128 \in Nat
OBVIOUS

LEMMA ModuloOK ==
    ASSUME NEW x \in Nat PROVE x % Range64 \in Nat /\ x % Range32 \in Nat /\ x \div Range64 \in Nat
<1>1. Range64 \in Nat \ {0} /\ Range32 \in Nat \ {0}
  BY RangeAssumption
<1> QED BY <1>1

\* What is shifted, from one septet to the next.
ShiftedAfter(x) == IF 128 * x < Range64 THEN 128 * x ELSE (128 * x) \div Range64

LEMMA ShiftedOK ==
    ASSUME src \in Seq(Octet)
    PROVE  /\ \A k \in 0 .. Len(src) : shifted[k] \in Nat
           /\ shifted[0] = 1
           /\ \A k \in 1 .. Len(src) : shifted[k] = ShiftedAfter(shifted[k - 1])
<1>1. PICK n \in Nat : n = Len(src)
  BY LenProperties
<1> DEFINE F(f) == [k \in 0 .. n |-> IF k = 0 THEN 1 ELSE ShiftedAfter(f[k - 1])]
           E == [k \in 0 .. n |-> [x \in Nat |-> IF k = 0 THEN 1 ELSE ShiftedAfter(x)]]
<1>2. \A x \in Nat : ShiftedAfter(x) \in Nat
  <2> TAKE x \in Nat
  <2>1. 128 * x \in Nat
    OBVIOUS
  <2> QED BY <2>1, ModuloOK DEF ShiftedAfter
<1>3. E \in [0 .. n -> [Nat -> Nat]]
  <2>1. \A k \in 0 .. n : \A x \in Nat : (IF k = 0 THEN 1 ELSE ShiftedAfter(x)) \in Nat
    BY <1>2
  <2> QED BY <2>1
<1>4. PICK f \in [0 .. n -> Nat] : Iterates(f, n, 1, E)
  <2> HIDE DEF E
  <2>1. 1 \in Nat
    OBVIOUS
  <2> QED BY <1>3, <2>1, Iterate
<1>5. \A k \in 0 .. n : f[k] = IF k = 0 THEN 1 ELSE ShiftedAfter(f[k - 1])
  <2> TAKE k \in 0 .. n
  <2>1. f[k] = E[k][IF k = 0 THEN 1 ELSE f[k - 1]]
    <3> HIDE DEF E
    <3> QED BY <1>4 DEF Iterates
  <2>2. \A x \in Nat : E[k][x] = IF k = 0 THEN 1 ELSE ShiftedAfter(x)
    OBVIOUS
  <2>3. (IF k = 0 THEN 1 ELSE f[k - 1]) \in Nat
    <3>1. k # 0 => k - 1 \in 0 .. n
      OBVIOUS
    <3> QED BY <3>1
  <2> HIDE DEF E
  <2> QED BY <2>1, <2>2, <2>3
<1>6. f = F(f)
  <2>1. f = [k \in 0 .. n |-> f[k]]
    OBVIOUS
  <2> HIDE DEF E
  <2> QED BY <1>5, <2>1
<1>7. shifted = CHOOSE g : g = F(g)
  BY <1>1 DEF shifted, ShiftedAfter
<1>8. shifted = F(shifted)
  <2> HIDE DEF F
  <2> QED BY <1>6, <1>7
<1>9. \A k \in 0 .. n : shifted[k] = IF k = 0 THEN 1 ELSE ShiftedAfter(shifted[k - 1])
  BY <1>8
<1>10. \A k \in 1 .. n : k \in 0 .. n /\ k # 0
  OBVIOUS
<1>11. ASSUME NEW k \in Nat PROVE k \in 0 .. n => shifted[k] \in Nat
  <2> DEFINE S == {i \in Nat : i \in 0 .. n => shifted[i] \in Nat}
  <2>1. 0 \in S
    BY <1>9
  <2>2. ASSUME NEW i \in Nat, i \in S PROVE i + 1 \in S
    <3>1. CASE i + 1 \in 0 .. n
      <4>1. i \in 0 .. n /\ (i + 1) - 1 = i /\ i + 1 # 0
        BY <3>1
      <4>2. shifted[i + 1] = ShiftedAfter(shifted[i])
        BY <1>9, <3>1, <4>1
      <4>3. shifted[i] \in Nat
        BY <2>2, <4>1
      <4>4. shifted[i + 1] \in Nat
        BY <1>2, <4>2, <4>3
      <4> QED BY <4>4
    <3> QED BY <3>1
  <2>3. Nat \subseteq S
    <3> HIDE DEF S
    <3> QED BY <2>1, <2>2, Induction
  <2> QED BY <2>3
<1> QED BY <1>1, <1>9, <1>10, <1>11

\* readVarInt, one septet after another.
Reading(g, p, e) ==
    \A i \in p .. e : g[i] = ((IF i = p THEN 0 ELSE g[i - 1]) + (src[i] % 128) * shifted[i - p]) % Range64

LEMMA ReadingOK ==
    ASSUME src \in Seq(Octet), NEW p \in Nat \ {0}, VarIntEnds(p)
    PROVE  \E g \in [p .. LastByte(p) -> Nat] : Reading(g, p, LastByte(p)) /\ readVarInt(p) = g[LastByte(p)]
<1>1. PICK e \in p .. Len(src) : e = LastByte(p)
  BY LastByteOK
<1>2. Len(src) \in Nat /\ e \in Nat
  BY LenProperties
<1>3. PICK n \in Nat : n = e - p
  BY <1>2
<1>4. ASSUME NEW i \in p .. e
      PROVE  src[i] % 128 \in Nat /\ i - p \in 0 .. n /\ shifted[i - p] \in Nat
  <2>1. i \in 1 .. Len(src) /\ i - p \in 0 .. n /\ i - p \in 0 .. Len(src)
    BY <1>2, <1>3
  <2>2. src[i] \in Nat
    BY <2>1, ByteOK
  <2> QED BY <2>1, <2>2, ModOK, ShiftedOK
<1> DEFINE T(i) == (src[i] % 128) * shifted[i - p]
           F(g) == [i \in p .. e |-> ((IF i = p THEN 0 ELSE g[i - 1]) + T(i)) % Range64]
           E == [k \in 0 .. n |-> [x \in Nat |-> (x + T(p + k)) % Range64]]
<1>5. ASSUME NEW i \in p .. e PROVE T(i) \in Nat
  <2>1. PICK a \in Nat, b \in Nat : a = src[i] % 128 /\ b = shifted[i - p]
    BY <1>4
  <2>2. a * b \in Nat
    OBVIOUS
  <2> QED BY <2>1, <2>2
<1> HIDE DEF T
<1>6. E \in [0 .. n -> [Nat -> Nat]]
  <2>1. ASSUME NEW k \in 0 .. n, NEW x \in Nat PROVE (x + T(p + k)) % Range64 \in Nat
    <3>1. p + k \in p .. e
      BY <1>2, <1>3
    <3>2. x + T(p + k) \in Nat
      BY <1>5, <3>1
    <3> QED BY <3>2, ModuloOK
  <2> QED BY <2>1
<1>7. PICK f \in [0 .. n -> Nat] : Iterates(f, n, 0, E)
  <2> HIDE DEF E
  <2>1. 0 \in Nat
    OBVIOUS
  <2> QED BY <1>6, <2>1, Iterate
<1> DEFINE g == [i \in p .. e |-> f[i - p]]
<1>8. g \in [p .. e -> Nat]
  BY <1>4
<1>9. ASSUME NEW i \in p .. e PROVE g[i] = ((IF i = p THEN 0 ELSE g[i - 1]) + T(i)) % Range64
  <2>1. PICK k \in 0 .. n : k = i - p /\ p + k = i /\ (k = 0 <=> i = p)
    <3>1. i - p \in 0 .. n /\ p + (i - p) = i /\ (i - p = 0 <=> i = p)
      BY <1>2, <1>3
    <3> QED BY <3>1
  <2>2. f[k] = E[k][IF k = 0 THEN 0 ELSE f[k - 1]]
    <3> HIDE DEF E
    <3> QED BY <1>7 DEF Iterates
  <2>3. (IF k = 0 THEN 0 ELSE f[k - 1]) \in Nat
    <3>1. k # 0 => k - 1 \in 0 .. n
      OBVIOUS
    <3> QED BY <3>1
  <2>4. f[k] = ((IF k = 0 THEN 0 ELSE f[k - 1]) + T(i)) % Range64
    <3>1. \A x \in Nat : E[k][x] = (x + T(i)) % Range64
      BY <2>1
    <3> HIDE DEF E
    <3> QED BY <2>2, <2>3, <3>1
  <2>5. g[i] = f[k] /\ (i # p => g[i - 1] = f[k - 1])
    <3>1. i # p => i - 1 \in p .. e /\ (i - 1) - p = k - 1
      BY <1>2, <2>1
    <3> QED BY <2>1, <3>1
  <2> HIDE DEF g, E
  <2> QED BY <2>1, <2>4, <2>5
<1> HIDE DEF g, E
<1>10. g = F(g)
  <2>1. g = [i \in p .. e |-> g[i]]
    BY <1>8
  <2> QED BY <1>9, <2>1
<1> DEFINE r == CHOOSE h : h = F(h)
<1>11. r = F(r)
  <2> HIDE DEF F
  <2> QED BY <1>10
<1>12. readVarInt(p) = r[e]
  <2>1. p <= Len(src)
    BY <1>1, <1>2
  <2> QED BY <1>1, <2>1 DEF readVarInt, T
<1> HIDE DEF r
<1>13. \A i \in p .. e : r[i] = ((IF i = p THEN 0 ELSE r[i - 1]) + T(i)) % Range64
  BY <1>11
<1>14. r \in [p .. e -> Nat]
  <2> DEFINE S == {k \in Nat : k <= n => r[p + k] \in Nat}
  <2>1. 0 \in S
    <3>1. p + 0 = p /\ p \in p .. e
      BY <1>2
    <3>2. r[p] = (0 + T(p)) % Range64
      BY <1>13, <3>1
    <3>3. 0 + T(p) \in Nat
      BY <1>5, <3>1
    <3>4. r[p + 0] \in Nat
      BY <3>1, <3>2, <3>3, ModuloOK
    <3> QED BY <3>4
  <2>2. ASSUME NEW k \in Nat, k \in S PROVE k + 1 \in S
    <3>1. CASE k + 1 <= n
      <4>1. PICK i \in p .. e : i = p + (k + 1) /\ i # p /\ i - 1 = p + k
        <5>1. p + (k + 1) \in p .. e /\ p + (k + 1) # p /\ (p + (k + 1)) - 1 = p + k
          BY <1>2, <1>3, <3>1
        <5> QED BY <5>1
      <4>2. r[i - 1] \in Nat
        BY <2>2, <3>1, <4>1
      <4>3. r[i - 1] + T(i) \in Nat
        BY <1>5, <4>2
      <4>4. r[i] = (r[i - 1] + T(i)) % Range64
        BY <1>13, <4>1
      <4>5. r[p + (k + 1)] \in Nat
        BY <4>1, <4>3, <4>4, ModuloOK
      <4> QED BY <4>5
    <3> QED BY <3>1
  <2>3. Nat \subseteq S
    <3> HIDE DEF S
    <3> QED BY <2>1, <2>2, Induction
  <2>4. ASSUME NEW i \in p .. e PROVE r[i] \in Nat
    <3>1. i - p \in Nat /\ i - p <= n /\ p + (i - p) = i
      BY <1>2, <1>3
    <3> QED BY <2>3, <3>1
  <2>5. r = [i \in p .. e |-> r[i]]
    BY <1>11
  <2> QED BY <2>4, <2>5
<1>15. Reading(r, p, e)
  BY <1>13 DEF Reading, T
<1> QED BY <1>1, <1>12, <1>14, <1>15

LEMMA ReadVarIntOK ==
    ASSUME src \in Seq(Octet), NEW p \in 1 .. Len(src) + 1, ~Spins(p), p <= Len(src) \/ p > 1
    PROVE  readVarInt(p) \in Nat
<1>1. CASE p <= Len(src)
  <2>1. p \in Nat \ {0} /\ VarIntEnds(p)
    BY <1>1 DEF Spins
  <2>2. LastByte(p) \in p .. LastByte(p)
    BY <2>1, LastByteOK
  <2> QED BY <2>1, <2>2, ReadingOK
<1>2. CASE ~(p <= Len(src))
  <2>1. p - 1 \in 1 .. Len(src)
    BY <1>2
  <2>2. src[p - 1] \in Nat
    BY <2>1, ByteOK
  <2> QED BY <1>2, <2>2 DEF readVarInt
<1> QED BY <1>1, <1>2

LEMMA TagOK ==
    ASSUME src \in Seq(Octet), NEW p \in Nat \ {0}, VarIntEnds(p)
    PROVE  WireTypeAt(p) \in 0 .. 7 /\ FieldNumberAt(p) \in Nat
<1>1. readVarInt(p) \in Nat
  <2>1. LastByte(p) \in p .. Len(src) /\ Len(src) \in Nat
    BY LastByteOK
  <2>2. p \in 1 .. Len(src) + 1 /\ p <= Len(src)
    BY <2>1
  <2> QED BY <2>2, ReadVarIntOK DEF Spins
<1>2. readVarInt(p) % 8 \in 0 .. 7 /\ readVarInt(p) % 65536 \in Nat
  BY <1>1
<1>3. (readVarInt(p) % 65536) \div 8 \in Nat
  BY <1>2
<1> QED BY <1>2, <1>3 DEF WireTypeAt, FieldNumberAt

-----------------------------------------------------------------------------
(***************************************************************************)
(* One turn of the loop: where it goes, and whether it adds a field, is a  *)
(* function of the message and the position.                               *)
(***************************************************************************)
Turn == /\ pass \in {1, 2} /\ loop = "run" /\ pos <= Len(src) /\ ~UnknownAt(pos)
        /\ pos' = PosAfter(pos) /\ loop' = LoopAfter(pos)
        /\ pos' \in 1 .. Len(src) + 1
        /\ str_error_' \in BOOLEAN
        /\ AddsAt(pos) => /\ FieldNumberAt(pos) \in Nat /\ WireTypeAt(pos) \in 0 .. 7
                         /\ \E v, s \in Nat : addField(v, s)
        /\ ~AddsAt(pos) => UNCHANGED <<counted, filled>>

LEMMA VarIntTurn ==
    ASSUME ReaderTypeOK, VarInt PROVE Turn
<1> USE DEF WIRETYPE_VARINT
<1>1. pos \in Nat \ {0} /\ src \in Seq(Octet) /\ pass \in {1, 2} /\ loop = "run"
  BY DEF ReaderTypeOK, VarInt, Reads
<1>2. VarIntEnds(pos) /\ WireTypeAt(pos) = 0 /\ ~Spins(DataAt(pos)) /\ Data = DataAt(pos)
  BY DEF VarInt, Reads, Data, DataAt
<1>3. DataAt(pos) \in 2 .. Len(src) + 1 /\ pos <= Len(src)
  BY <1>1, <1>2, LastByteOK, LenProperties DEF DataAt
<1>4. After(DataAt(pos)) \in DataAt(pos) .. Len(src) + 1
  BY <1>1, <1>2, <1>3, AfterOK
<1>5. ~CutAt(pos) /\ AddsAt(pos) /\ ~UnknownAt(pos) /\ FieldNumberAt(pos) \in Nat /\ WireTypeAt(pos) \in 0 .. 7
  BY <1>1, <1>2, TagOK DEF CutAt, AddsAt, UnknownAt
<1>6. pos' = After(DataAt(pos)) /\ pos' = PosAfter(pos) /\ loop' = LoopAfter(pos)
  BY <1>1, <1>2, <1>5 DEF VarInt, PosAfter, LoopAfter
<1>7. pos' \in 1 .. Len(src) + 1
  BY <1>3, <1>4, <1>6
<1>8. \E v, s \in Nat : addField(v, s)
  <2>1. addField(Data, After(Data) - Data)
    BY DEF VarInt
  <2>2. Data \in Nat /\ After(Data) - Data \in Nat
    BY <1>2, <1>3, <1>4
  <2> QED BY <2>1, <2>2
<1>9. str_error_' \in BOOLEAN
  BY DEF VarInt, ReaderTypeOK
<1> QED BY <1>1, <1>3, <1>5, <1>6, <1>7, <1>8, <1>9 DEF Turn

LEMMA FixedTurn ==
    ASSUME ReaderTypeOK, NEW type \in {1, 5}, NEW size \in {4, 8}, type = 1 <=> size = 8, Fixed(type, size)
    PROVE  Turn
<1>1. pos \in Nat \ {0} /\ src \in Seq(Octet) /\ pass \in {1, 2} /\ loop = "run"
  BY DEF ReaderTypeOK, Fixed, Reads
<1>2. VarIntEnds(pos) /\ WireTypeAt(pos) = type /\ Data = DataAt(pos)
  BY DEF Fixed, Reads, Data, DataAt
<1>3. DataAt(pos) \in Nat \ {0} /\ pos <= Len(src) /\ DataAt(pos) <= Len(src) + 1
  BY <1>1, <1>2, LastByteOK DEF DataAt
<1>5. ~CutAt(pos) /\ AddsAt(pos) /\ ~UnknownAt(pos) /\ FieldNumberAt(pos) \in Nat /\ WireTypeAt(pos) \in 0 .. 7
  BY <1>1, <1>2, TagOK DEF CutAt, AddsAt, UnknownAt
<1>6. pos' = FixedEnd(DataAt(pos), size)
  BY <1>2 DEF Fixed, FixedEnd, Left
<1>7. pos' = PosAfter(pos) /\ loop' = LoopAfter(pos)
  BY <1>1, <1>2, <1>5, <1>6 DEF Fixed, PosAfter, LoopAfter
<1>8. pos' \in 1 .. Len(src) + 1
  BY <1>3, <1>6, LenProperties, <1>1 DEF FixedEnd
<1>9. \E v, s \in Nat : addField(v, s)
  <2>1. addField(Data, IF size <= Left THEN size ELSE 0)
    BY DEF Fixed
  <2>2. Data \in Nat /\ (IF size <= Left THEN size ELSE 0) \in Nat
    BY <1>2, <1>3
  <2> QED BY <2>1, <2>2
<1>10. str_error_' \in BOOLEAN
  BY DEF Fixed, ReaderTypeOK
<1> QED BY <1>1, <1>3, <1>5, <1>7, <1>8, <1>9, <1>10 DEF Turn

LEMMA DelimitedTurn ==
    ASSUME ReaderTypeOK, LengthDelimited PROVE Turn
<1> USE DEF WIRETYPE_LENGTH_DELIMITED
<1>1. pos \in Nat \ {0} /\ src \in Seq(Octet) /\ pass \in {1, 2} /\ loop = "run"
  BY DEF ReaderTypeOK, LengthDelimited, Reads
<1>2. VarIntEnds(pos) /\ WireTypeAt(pos) = 2 /\ ~Spins(DataAt(pos)) /\ Data = DataAt(pos)
  BY DEF LengthDelimited, Reads, Data, DataAt
<1>3. DataAt(pos) \in 2 .. Len(src) + 1 /\ pos <= Len(src)
  BY <1>1, <1>2, LastByteOK, LenProperties DEF DataAt
<1>4. After(DataAt(pos)) \in DataAt(pos) .. Len(src) + 1
  BY <1>1, <1>2, <1>3, AfterOK
<1>5. ~CutAt(pos) /\ AddsAt(pos) /\ ~UnknownAt(pos) /\ FieldNumberAt(pos) \in Nat /\ WireTypeAt(pos) \in 0 .. 7
  BY <1>1, <1>2, TagOK DEF CutAt, AddsAt, UnknownAt
<1>6. readVarInt(DataAt(pos)) \in Nat
  BY <1>1, <1>2, <1>3, ReadVarIntOK
<1> DEFINE start == After(DataAt(pos))
           n == readVarInt(DataAt(pos))
<1>7. /\ addField(start, n % Range32)
      /\ \/ BytesMissing(DataAt(pos)) <= 0 /\ pos' = start + n /\ UNCHANGED loop
         \/ Wraps(DataAt(pos)) /\ pos' = Len(src) + 1 /\ UNCHANGED loop
         \/ BytesMissing(DataAt(pos)) > 0 /\ ~Wraps(DataAt(pos)) /\ pos' = start /\ loop' = "outside"
  BY <1>2 DEF LengthDelimited, BytesMissing, Wraps
<1>8. PICK m \in Int : m = BytesMissing(DataAt(pos)) /\ m = start + n - (Len(src) + 1)
  <2>1. start + n - (Len(src) + 1) \in Int
    BY <1>1, <1>3, <1>4, <1>6
  <2> QED BY <2>1 DEF BytesMissing
<1>9. pos' = BytesEnd(DataAt(pos)) /\ loop' = (IF m > 0 /\ ~Wraps(DataAt(pos)) THEN "outside" ELSE loop)
  BY <1>7, <1>8 DEF BytesEnd, Wraps
<1>10. pos' = PosAfter(pos) /\ loop' = LoopAfter(pos)
  BY <1>1, <1>2, <1>5, <1>8, <1>9 DEF PosAfter, LoopAfter
<1>11. pos' \in 1 .. Len(src) + 1
  BY <1>1, <1>3, <1>4, <1>6, <1>7, <1>8, LenProperties, SMTT(30)
<1>12. \E v, s \in Nat : addField(v, s)
  <2>1. start \in Nat /\ n % Range32 \in Nat
    BY <1>3, <1>4, <1>6, ModuloOK, SMTT(30)
  <2> QED BY <2>1, <1>7
<1>13. str_error_' \in BOOLEAN
  BY DEF LengthDelimited, ReaderTypeOK
<1> QED BY <1>1, <1>3, <1>5, <1>10, <1>11, <1>12, <1>13 DEF Turn

LEMMA GroupTurn ==
    ASSUME ReaderTypeOK, Group PROVE Turn
<1> USE DEF WIRETYPE_START_GROUP, WIRETYPE_END_GROUP
<1>1. pos \in Nat \ {0} /\ src \in Seq(Octet) /\ pass \in {1, 2} /\ loop = "run"
  BY DEF ReaderTypeOK, Group, Reads
<1>2. VarIntEnds(pos) /\ WireTypeAt(pos) \in {3, 4} /\ Data = DataAt(pos)
  BY DEF Group, Reads, Data, DataAt
<1>3. DataAt(pos) \in 1 .. Len(src) + 1 /\ pos <= Len(src)
  BY <1>1, <1>2, LastByteOK DEF DataAt
<1>5. ~CutAt(pos) /\ ~AddsAt(pos) /\ ~UnknownAt(pos)
  BY <1>1, <1>2, TagOK DEF CutAt, AddsAt, UnknownAt
<1>6. pos' = DataAt(pos) /\ loop' = loop /\ UNCHANGED <<counted, filled>> /\ str_error_' = str_error_
  BY <1>2 DEF Group
<1>7. pos' = PosAfter(pos) /\ loop' = LoopAfter(pos)
  BY <1>1, <1>2, <1>5, <1>6 DEF PosAfter, LoopAfter
<1> QED BY <1>1, <1>3, <1>5, <1>6, <1>7 DEF Turn, ReaderTypeOK

LEMMA CutTurn ==
    ASSUME ReaderTypeOK, CutVarInt PROVE Turn
<1> USE DEF WIRETYPE_VARINT, WIRETYPE_LENGTH_DELIMITED
<1>1. pos \in 1 .. Len(src) /\ pass \in {1, 2} /\ loop = "run" /\ Len(src) \in Nat
  BY DEF ReaderTypeOK, CutVarInt
<1>2. CutAt(pos) /\ ~UnknownAt(pos)
  BY DEF CutVarInt, CutAt, UnknownAt, Reads, Data, DataAt
<1>3. pos' = pos /\ loop' = "spin" /\ str_error_' = TRUE /\ UNCHANGED <<counted, filled>>
  BY DEF CutVarInt
<1> QED BY <1>1, <1>2, <1>3 DEF Turn, AddsAt, PosAfter, LoopAfter

LEMMA FieldTurn ==
    ASSUME ReaderTypeOK, ReadField PROVE Turn
<1>1. CASE VarInt
  BY <1>1, VarIntTurn
<1>2. CASE Fixed(WIRETYPE_FIXED64, 8)
  BY <1>2, FixedTurn DEF WIRETYPE_FIXED64
<1>3. CASE Fixed(WIRETYPE_FIXED32, 4)
  BY <1>3, FixedTurn DEF WIRETYPE_FIXED32
<1>4. CASE LengthDelimited
  BY <1>4, DelimitedTurn
<1>5. CASE Group
  BY <1>5, GroupTurn
<1>6. CASE CutVarInt
  BY <1>6, CutTurn
<1> QED BY <1>1, <1>2, <1>3, <1>4, <1>5, <1>6 DEF ReadField

-----------------------------------------------------------------------------
(***************************************************************************)
(* The two passes of addField.                                             *)
(***************************************************************************)
Opens(number) == ~(last_node_ # NULL /\ nodes_[last_node_].number = number)

\* What filling one node does to nodes_ and numbers_.
Filled(f) ==
    /\ nodes_' \in Seq(Node) /\ Len(nodes_') = Len(nodes_)
    /\ numbers_' \in Seq(Nat) /\ Len(numbers_') = Len(numbers_)
    /\ cur_ndex_' = cur_ndex_ + 1 /\ cur_ndex_' \in 0 .. Len(nodes_)
    /\ last_node_' = cur_ndex_'
    /\ nodes_'[cur_ndex_'].number = f.number
    /\ \A i \in 1 .. cur_ndex_ : nodes_'[i].number = nodes_[i].number
    /\ numbers_ndex_' = (IF Opens(f.number) THEN numbers_ndex_ + 1 ELSE numbers_ndex_)
    /\ numbers_ndex_' \in 0 .. Len(numbers_)
    /\ (\A k \in 1 .. numbers_ndex_ : numbers_[k] # NULL)
            => \A k \in 1 .. numbers_ndex_' : numbers_'[k] # NULL

LEMMA LinkedOK ==
    ASSUME ReaderTypeOK, last_node_ # NULL, cur_ndex_ < Len(nodes_)
    PROVE  /\ Linked \in Seq(Node) /\ Len(Linked) = Len(nodes_)
           /\ \A i \in 1 .. Len(nodes_) : Linked[i].number = nodes_[i].number
<1>1. last_node_ \in 1 .. Len(nodes_) /\ nodes_ \in Seq(Node) /\ cur_ndex_ + 1 \in Nat
  BY DEF ReaderTypeOK, NULL
<1>2. nodes_[last_node_] \in Node
  BY <1>1
<1>3. [nodes_[last_node_] EXCEPT !.next = cur_ndex_ + 1] \in Node
  BY <1>1, <1>2 DEF Node
<1>4. Linked = [nodes_ EXCEPT ![last_node_] = [nodes_[last_node_] EXCEPT !.next = cur_ndex_ + 1]]
  BY DEF Linked
<1>5. Linked \in Seq(Node) /\ Len(Linked) = Len(nodes_)
  BY <1>1, <1>3, <1>4
<1>6. [nodes_[last_node_] EXCEPT !.next = cur_ndex_ + 1].number = nodes_[last_node_].number
  BY <1>2 DEF Node
<1>7. \A i \in 1 .. Len(nodes_) : Linked[i].number = nodes_[i].number
  BY <1>1, <1>4, <1>6
<1> QED BY <1>5, <1>7

LEMMA FillOK ==
    ASSUME ReaderTypeOK, NEW f \in Node, Fill(f)
    PROVE  Filled(f)
<1>1. /\ cur_ndex_ \in Nat /\ nodes_ \in Seq(Node) /\ numbers_ \in Seq(Nat)
      /\ cur_ndex_ + 1 \in 1 .. Len(nodes_) /\ Len(nodes_) \in Nat /\ Len(numbers_) \in Nat
      /\ numbers_ndex_ \in 0 .. Len(numbers_)
  BY DEF ReaderTypeOK, Fill
<1>2. cur_ndex_' = cur_ndex_ + 1 /\ cur_ndex_' \in 0 .. Len(nodes_) /\ last_node_' = cur_ndex_'
  BY <1>1 DEF Fill
<1>3. CASE Opens(f.number)
  <2>1. /\ numbers_ndex_ < Len(numbers_)
        /\ nodes_' = [nodes_ EXCEPT ![cur_ndex_ + 1] = f]
        /\ numbers_' = [numbers_ EXCEPT ![numbers_ndex_ + 1] = cur_ndex_ + 1]
        /\ numbers_ndex_' = numbers_ndex_ + 1
    BY <1>3 DEF Fill, Opens
  <2>2. nodes_' \in Seq(Node) /\ Len(nodes_') = Len(nodes_) /\ nodes_'[cur_ndex_'] = f
    BY <1>1, <1>2, <2>1
  <2>3. \A i \in 1 .. cur_ndex_ : nodes_'[i] = nodes_[i]
    BY <1>1, <2>1
  <2>4. numbers_' \in Seq(Nat) /\ Len(numbers_') = Len(numbers_) /\ numbers_ndex_' \in 0 .. Len(numbers_)
    BY <1>1, <2>1
  <2>5. numbers_'[numbers_ndex_ + 1] # NULL /\ \A k \in 1 .. numbers_ndex_ : numbers_'[k] = numbers_[k]
    BY <1>1, <2>1 DEF NULL
  <2>6. \A k \in 1 .. numbers_ndex_' : k \in 1 .. numbers_ndex_ \/ k = numbers_ndex_ + 1
    BY <1>1, <2>1
  <2> QED BY <1>2, <1>3, <2>1, <2>2, <2>3, <2>4, <2>5, <2>6 DEF Filled
<1>4. CASE ~Opens(f.number)
  <2>1. /\ last_node_ # NULL
        /\ nodes_' = [Linked EXCEPT ![cur_ndex_ + 1] = f]
        /\ numbers_' = numbers_ /\ numbers_ndex_' = numbers_ndex_
    BY <1>4 DEF Fill, Opens
  <2>2. /\ Linked \in Seq(Node) /\ Len(Linked) = Len(nodes_)
        /\ \A i \in 1 .. Len(nodes_) : Linked[i].number = nodes_[i].number
    BY <1>1, <2>1, LinkedOK
  <2>3. nodes_' \in Seq(Node) /\ Len(nodes_') = Len(nodes_) /\ nodes_'[cur_ndex_'] = f
    BY <1>1, <1>2, <2>1, <2>2
  <2>4. \A i \in 1 .. cur_ndex_ : nodes_'[i].number = nodes_[i].number
    <3> TAKE i \in 1 .. cur_ndex_
    <3>1. nodes_'[i] = Linked[i]
      BY <1>1, <2>1, <2>2
    <3> QED BY <1>1, <2>2, <3>1
  <2> QED BY <1>1, <1>2, <1>4, <2>1, <2>3, <2>4 DEF Filled
<1> QED BY <1>3, <1>4

LEMMA AddFills ==
    ASSUME ReaderTypeOK, pass # 1, FieldNumberAt(pos) \in Nat, WireTypeAt(pos) \in 0 .. 7,
           NEW v \in Nat, NEW s \in Nat, addField(v, s)
    PROVE  /\ UNCHANGED counted
           /\ \E f \in Node : f.number = FieldNumberAt(pos) /\ Filled(f)
<1> DEFINE f == [number |-> FieldNumberAt(pos), type |-> WireTypeAt(pos),
                 value |-> v, value_size |-> s, next |-> NULL]
<1>1. f \in Node
  BY DEF Node, NULL
<1>2. Fill(f) /\ UNCHANGED counted
  BY DEF addField
<1>3. Filled(f)
  BY <1>1, <1>2, FillOK
<1> QED BY <1>1, <1>2, <1>3

LEMMA AddCounts ==
    ASSUME ReaderTypeOK, pass = 1, FieldNumberAt(pos) \in Nat, NEW v, NEW s, addField(v, s)
    PROVE  /\ UNCHANGED filled
           /\ capacity_' = capacity_ + 1
           /\ numbers_capacity_' = (IF last_field_number_ # 0 /\ last_field_number_ = FieldNumberAt(pos)
                                    THEN numbers_capacity_ ELSE numbers_capacity_ + 1)
           /\ last_field_number_' = FieldNumberAt(pos)
BY DEF addField, Count, SameRun

-----------------------------------------------------------------------------
LEMMA InitTyped == ReaderInit => ReaderTypeOK
<1> SUFFICES ASSUME ReaderInit PROVE ReaderTypeOK
  OBVIOUS
<1>1. src \in Seq(Octet)
  BY InputsAssumption DEF ReaderInit
<1>2. Len(src) \in Nat
  BY <1>1
<1>3. nodes_ = <<>> /\ numbers_ = <<>> /\ cur_ndex_ = 0 /\ numbers_ndex_ = 0 /\ last_node_ = 0
  BY DEF ReaderInit, NULL
<1>4. nodes_ \in Seq(Node) /\ numbers_ \in Seq(Nat) /\ cur_ndex_ \in 0 .. Len(nodes_)
      /\ numbers_ndex_ \in 0 .. Len(numbers_)
  BY <1>3
<1>5. str_error_ \in BOOLEAN /\ ok \in BOOLEAN
  BY Zenon DEF ReaderInit
<1>6. pass = 1 /\ loop \in {"run", "spin", "outside"} /\ pos \in 1 .. Len(src) + 1
  BY <1>2 DEF ReaderInit
<1>7. capacity_ \in Nat \ {0} /\ numbers_capacity_ \in Nat /\ last_field_number_ \in Nat
  BY DEF ReaderInit
<1> QED BY <1>1, <1>3, <1>4, <1>5, <1>6, <1>7 DEF ReaderTypeOK

LEMMA FieldTyped == ASSUME ReaderTypeOK, ReadField PROVE ReaderTypeOK'
<1>1. Turn /\ UNCHANGED <<src, pass, ok>>
  BY FieldTurn DEF ReadField
<1>2. loop' \in {"run", "spin", "outside"} /\ pos' \in 1 .. Len(src') + 1 /\ str_error_' \in BOOLEAN
  BY <1>1 DEF Turn, LoopAfter
<1>3. CASE ~AddsAt(pos)
  BY <1>1, <1>2, <1>3 DEF Turn, ReaderTypeOK, counted, filled
<1>4. CASE AddsAt(pos) /\ pass = 1
  <2>1. PICK v, s \in Nat : addField(v, s)
    BY <1>1, <1>4 DEF Turn
  <2>2. FieldNumberAt(pos) \in Nat
    BY <1>1, <1>4 DEF Turn
  <2>3. /\ UNCHANGED filled
        /\ capacity_' = capacity_ + 1
        /\ numbers_capacity_' \in {numbers_capacity_, numbers_capacity_ + 1}
        /\ last_field_number_' \in Nat
    BY <1>4, <2>1, <2>2, AddCounts
  <2>4. capacity_' \in Nat \ {0} /\ numbers_capacity_' \in Nat
    BY <2>3 DEF ReaderTypeOK
  <2> QED BY <1>1, <1>2, <1>4, <2>3, <2>4 DEF ReaderTypeOK, filled
<1>5. CASE AddsAt(pos) /\ pass = 2
  <2>1. PICK v, s \in Nat : addField(v, s)
    BY <1>1, <1>5 DEF Turn
  <2>2. PICK f \in Node : Filled(f)
    BY <1>1, <1>5, <2>1, AddFills DEF Turn
  <2>3. UNCHANGED counted
    BY <1>1, <1>5, <2>1, AddFills DEF Turn
  <2> QED BY <1>1, <1>2, <1>5, <2>2, <2>3 DEF ReaderTypeOK, Filled, counted
<1> QED BY <1>1, <1>3, <1>4, <1>5 DEF Turn

LEMMA StepTyped == ASSUME ReaderTypeOK, [ReaderNext]_readerVars PROVE ReaderTypeOK'
<1>1. CASE ReadField
  BY <1>1, FieldTyped
<1>2. CASE Resize
  <2>1. /\ nodes_' = [i \in 1 .. capacity_ |-> Blank] /\ numbers_' = [i \in 1 .. numbers_capacity_ |-> NULL]
        /\ pos' = 1 /\ pass' = 2 /\ pass = 1 /\ str_error_' = (str_error_ \/ pos <= Len(src))
        /\ UNCHANGED <<src, loop, ok, capacity_, numbers_capacity_, last_field_number_,
                       cur_ndex_, numbers_ndex_, last_node_>>
    BY <1>2 DEF Resize, counted
  <2>2. /\ capacity_ \in Nat \ {0} /\ numbers_capacity_ \in Nat /\ cur_ndex_ = 0 /\ numbers_ndex_ = 0
        /\ src \in Seq(Octet) /\ Len(src) \in Nat
    BY <2>1 DEF ReaderTypeOK
  <2>3. Blank \in Node /\ NULL \in Nat
    BY DEF Blank, Node, NULL
  <2>4. nodes_' \in Seq(Node) /\ Len(nodes_') = capacity_
    BY <2>1, <2>2, <2>3
  <2>5. numbers_' \in Seq(Nat) /\ Len(numbers_') = numbers_capacity_
    BY <2>1, <2>2, <2>3
  <2>6. str_error_' \in BOOLEAN /\ ok' \in BOOLEAN /\ loop' \in {"run", "spin", "outside"}
    BY <2>1 DEF ReaderTypeOK
  <2> QED BY <2>1, <2>2, <2>4, <2>5, <2>6 DEF ReaderTypeOK
<1>3. CASE ParseReturns
  BY <1>3 DEF ParseReturns, ReaderTypeOK, counted, filled
<1>4. CASE UNCHANGED readerVars
  BY <1>4 DEF readerVars, ReaderTypeOK, counted, filled
<1> QED BY <1>1, <1>2, <1>3, <1>4 DEF ReaderNext

\* Every variable has its type in every reachable state, for every message.
THEOREM TypeCorrect == ReaderSpec => []ReaderTypeOK
<1>1. ReaderInit => ReaderTypeOK
  BY InitTyped
<1>2. ReaderTypeOK /\ [ReaderNext]_readerVars => ReaderTypeOK'
  BY StepTyped
<1> QED BY <1>1, <1>2, PTL DEF ReaderSpec

-----------------------------------------------------------------------------
(***************************************************************************)
(* The message does not change.                                            *)
(***************************************************************************)
LEMMA SameText ==
    ASSUME src' = src, NEW p
    PROVE  /\ VarIntEnds(p)' = VarIntEnds(p) /\ LastByte(p)' = LastByte(p)
           /\ Spins(p)' = Spins(p) /\ After(p)' = After(p)
           /\ readVarInt(p)' = readVarInt(p)
<1>1. VarIntEnds(p)' = VarIntEnds(p) /\ LastByte(p)' = LastByte(p)
  BY DEF VarIntEnds, LastByte, EndsVarInt
<1>2. shifted' = shifted
  BY DEF shifted
<1>3. readVarInt(p)' = readVarInt(p)
  BY <1>1, <1>2 DEF readVarInt
<1> QED BY <1>1, <1>3 DEF Spins, After

LEMMA SameTurns ==
    ASSUME src' = src
    PROVE  \A t, u : (Follows(t, u)' <=> Follows(t, u)) /\ (HaltedAt(t)' <=> HaltedAt(t))
<1>1. \A p : /\ VarIntEnds(p)' = VarIntEnds(p) /\ LastByte(p)' = LastByte(p)
             /\ Spins(p)' = Spins(p) /\ After(p)' = After(p)
             /\ readVarInt(p)' = readVarInt(p)
  BY SameText
<1>2. \A p : /\ DataAt(p)' = DataAt(p) /\ WireTypeAt(p)' = WireTypeAt(p)
             /\ FieldNumberAt(p)' = FieldNumberAt(p)
  BY <1>1 DEF DataAt, WireTypeAt, FieldNumberAt
<1>3. \A p : CutAt(p)' = CutAt(p) /\ UnknownAt(p)' = UnknownAt(p)
             /\ BytesMissing(p)' = BytesMissing(p) /\ Wraps(p)' = Wraps(p)
  BY <1>1, <1>2 DEF CutAt, UnknownAt, BytesMissing, Wraps
<1>4. \A p : BytesEnd(p)' = BytesEnd(p) /\ \A size : FixedEnd(p, size)' = FixedEnd(p, size)
  BY <1>1, <1>3 DEF FixedEnd, BytesEnd
<1>5. \A p : AddsAt(p)' = AddsAt(p) /\ PosAfter(p)' = PosAfter(p) /\ LoopAfter(p)' = LoopAfter(p)
  BY <1>1, <1>2, <1>3, <1>4 DEF AddsAt, PosAfter, LoopAfter
<1> QED BY <1>2, <1>3, <1>5 DEF Follows, HaltedAt

LEMMA InitInv == ReaderInit => IInv
<1> SUFFICES ASSUME ReaderInit PROVE IInv
  OBVIOUS
<1>1. ReaderTypeOK
  BY InitTyped
<1> DEFINE first == [pos |-> 1, loop |-> "run", n |-> 1, m |-> 0, last |-> 0]
<1>2. trace = <<first>>
  BY DEF ReaderInit
<1>3. first \in Entry
  BY DEF Entry
<1>4. trace \in Seq(Entry) /\ Len(trace) = 1 /\ trace[1] = first /\ Last = first
  BY <1>2, <1>3 DEF Last
<1>5. TraceOK
  BY <1>4 DEF TraceOK
<1> QED BY <1>1, <1>4, <1>5 DEF ReaderInit, IInv, AtTheEnd, Retraces, Returned

-----------------------------------------------------------------------------
(***************************************************************************)
(* The first pass extends the trace.                                       *)
(***************************************************************************)
LEMMA CountingStep ==
    ASSUME IInv, ReadField, pass = 1 PROVE TraceOK' /\ AtTheEnd'
<1> DEFINE e == [pos |-> pos', loop |-> loop', n |-> capacity_', m |-> numbers_capacity_',
                 last |-> last_field_number_']
<1>1. /\ trace' = Append(trace, e) /\ src' = src /\ pass' = pass /\ ReaderTypeOK /\ ReaderTypeOK'
      /\ trace \in Seq(Entry) /\ Len(trace) \in Nat \ {0}
  BY FieldTyped DEF ReadField, IInv, TraceOK
<1>2. e \in Entry
  BY <1>1 DEF ReaderTypeOK, Entry
<1>3. /\ trace' \in Seq(Entry) /\ Len(trace') = Len(trace) + 1 /\ Last' = e
      /\ trace'[Len(trace')] = e
      /\ \A i \in 1 .. Len(trace) : trace'[i] = trace[i]
  BY <1>1, <1>2 DEF Last
<1>4. pos = Last.pos /\ capacity_ = Last.n /\ numbers_capacity_ = Last.m /\ last_field_number_ = Last.last
      /\ cur_ndex_ = 0 /\ numbers_ndex_ = 0
  BY DEF IInv, AtTheEnd
<1>5. Turn
  BY <1>1, FieldTurn
<1>6. Follows(Last, e) /\ UNCHANGED filled
  <2>0. ~HaltedAt(Last)
    BY <1>1, <1>4, <1>5 DEF HaltedAt, Turn, ReaderTypeOK
  <2>1. CASE ~AddsAt(pos)
    BY <1>4, <1>5, <2>0, <2>1 DEF Turn, Follows, counted
  <2>2. CASE AddsAt(pos)
    <3>1. PICK v, s \in Nat : addField(v, s)
      BY <1>5, <2>2 DEF Turn
    <3>2. FieldNumberAt(pos) \in Nat
      BY <1>5, <2>2 DEF Turn
    <3>3. /\ UNCHANGED filled
          /\ capacity_' = capacity_ + 1
          /\ numbers_capacity_' = (IF last_field_number_ # 0 /\ last_field_number_ = FieldNumberAt(pos)
                                    THEN numbers_capacity_ ELSE numbers_capacity_ + 1)
          /\ last_field_number_' = FieldNumberAt(pos)
      BY <1>1, <3>1, <3>2, AddCounts
    <3> QED BY <1>4, <1>5, <2>0, <2>2, <3>3 DEF Turn, Follows
  <2> QED BY <2>1, <2>2
<1>7. /\ Last.n \in Nat /\ Last.m \in Nat /\ Last \in Entry /\ Last.n <= e.n /\ Last.m <= e.m
      /\ e.n >= 1 /\ (e.n = 1 => e.m = 0 /\ e.last = 0)
  <2>1. Last \in Entry
    BY <1>1 DEF Last
  <2>2. Last.n \in Nat /\ Last.m \in Nat /\ Last.n >= 1 /\ (Last.n = 1 => Last.m = 0 /\ Last.last = 0)
    BY <1>1, <2>1 DEF IInv, TraceOK, Entry, Last
  <2> HIDE DEF Last, e
  <2> QED BY <1>6, <2>1, <2>2 DEF Follows
<1> HIDE DEF e
<1>8. \A i \in 1 .. Len(trace') - 1 : Follows(trace'[i], trace'[i + 1])
  <2> TAKE i \in 1 .. Len(trace') - 1
  <2>1. CASE i = Len(trace)
    <3>1. trace'[i] = Last /\ trace'[i + 1] = e
      BY <1>1, <1>3, <2>1 DEF Last
    <3> QED BY <1>6, <3>1
  <2>2. CASE i # Len(trace)
    <3>1. i \in 1 .. Len(trace) - 1 /\ i \in 1 .. Len(trace) /\ i + 1 \in 1 .. Len(trace)
      BY <1>1, <1>3, <2>2
    <3>2. Follows(trace[i], trace[i + 1])
      BY <3>1 DEF IInv, TraceOK
    <3> QED BY <1>3, <3>1, <3>2
  <2> QED BY <2>1, <2>2
<1>9. \A i \in 1 .. Len(trace') - 1 : Follows(trace[i], trace[i + 1])'
  BY <1>1, <1>8, SameTurns
<1>10. \A i \in 1 .. Len(trace') : /\ trace'[i].n <= e.n /\ trace'[i].m <= e.m /\ trace'[i].n >= 1
                                   /\ trace'[i].n = 1 => trace'[i].m = 0 /\ trace'[i].last = 0
  <2> TAKE i \in 1 .. Len(trace')
  <2>1. CASE i = Len(trace')
    <3>1. trace'[i] = e /\ e.n \in Nat /\ e.m \in Nat
      BY <1>2, <1>3, <2>1 DEF Entry
    <3> QED BY <1>7, <3>1
  <2>2. CASE i # Len(trace')
    <3>1. i \in 1 .. Len(trace) /\ trace'[i] = trace[i]
      BY <1>1, <1>3, <2>2
    <3>2. /\ trace[i].n <= Last.n /\ trace[i].m <= Last.m /\ trace[i].n >= 1
          /\ trace[i].n = 1 => trace[i].m = 0 /\ trace[i].last = 0
      BY <3>1 DEF IInv, TraceOK
    <3>3. trace[i].n \in Nat /\ trace[i].m \in Nat
      <4>1. trace[i] \in Entry
        BY <1>1, <3>1
      <4> QED BY <4>1 DEF Entry
    <3>4. Last.n \in Nat /\ Last.m \in Nat /\ e.n \in Nat /\ e.m \in Nat
      BY <1>2, <1>7 DEF Entry
    <3>5. trace[i].n <= e.n /\ trace[i].m <= e.m
      BY <1>7, <3>2, <3>3, <3>4
    <3> QED BY <3>1, <3>2, <3>5
  <2> QED BY <2>1, <2>2
<1>11. trace'[1] = [pos |-> 1, loop |-> "run", n |-> 1, m |-> 0, last |-> 0]
  BY <1>1, <1>3 DEF IInv, TraceOK
<1>12. TraceOK'
  <2>1. Len(trace') > 0
    BY <1>1, <1>3
  <2>2. \A i \in 1 .. Len(trace') : /\ trace'[i].n <= Last'.n /\ trace'[i].m <= Last'.m
                                    /\ trace'[i].n >= 1
                                    /\ trace'[i].n = 1 => trace'[i].m = 0 /\ trace'[i].last = 0
    BY <1>3, <1>10
  <2> QED BY <1>3, <1>9, <1>11, <2>1, <2>2 DEF TraceOK
<1>13. AtTheEnd'
  BY <1>1, <1>3, <1>4, <1>6 DEF AtTheEnd, filled, e
<1> QED BY <1>12, <1>13

-----------------------------------------------------------------------------
(***************************************************************************)
(* The second pass follows the trace.                                      *)
(***************************************************************************)
LEMMA TraceKept ==
    ASSUME TraceOK, UNCHANGED <<src, trace>>
    PROVE  TraceOK' /\ Last' = Last /\ (HaltedAt(Last) => HaltedAt(Last)')
<1>1. Last' = Last
  BY DEF Last
<1>2. \A i \in 1 .. Len(trace) - 1 : Follows(trace[i], trace[i + 1])'
  BY SameTurns DEF TraceOK
<1>3. HaltedAt(Last) => HaltedAt(Last)'
  BY <1>1, SameTurns
<1> QED BY <1>1, <1>2, <1>3 DEF TraceOK

LEMMA OnTheWay ==
    ASSUME IInv, Turn, pass = 2
    PROVE  /\ step \in 1 .. Len(trace) - 1 /\ step + 1 \in 1 .. Len(trace)
           /\ trace[step] \in Entry /\ trace[step + 1] \in Entry
           /\ Follows(trace[step], trace[step + 1])
           /\ trace[step + 1].n <= Last.n /\ trace[step + 1].m <= Last.m
           /\ (trace[step].n = 1 => trace[step].m = 0 /\ trace[step].last = 0)
<1>1. TraceOK /\ Retraces /\ pos \in Nat /\ Len(src) \in Nat
  BY DEF IInv, ReaderTypeOK
<1>2. step \in 1 .. Len(trace) /\ Len(trace) \in Nat
  BY <1>1 DEF Retraces, TraceOK
<1>3. step # Len(trace)
  <2> SUFFICES ASSUME step = Len(trace) PROVE FALSE
    OBVIOUS
  <2>1. HaltedAt(Last) /\ pos = Last.pos /\ loop = Last.loop
    BY <1>1 DEF Retraces, Last
  <2>2. pos > Len(src) \/ UnknownAt(pos)
    BY <2>1 DEF HaltedAt
  <2> QED BY <1>1, <2>2 DEF Turn
<1>4. step \in 1 .. Len(trace) - 1 /\ step + 1 \in 1 .. Len(trace)
  BY <1>2, <1>3
<1>5. trace[step] \in Entry /\ trace[step + 1] \in Entry
  BY <1>1, <1>2, <1>4 DEF TraceOK
<1> QED BY <1>1, <1>2, <1>4, <1>5 DEF TraceOK

\* Whether a field opens a run: what the passes compare.
LEMMA RunsCompared ==
    ASSUME IInv, Turn, pass = 2
    PROVE  /\ Opens(FieldNumberAt(pos)) =>
                ~(trace[step].last # 0 /\ trace[step].last = FieldNumberAt(pos))
           /\ ~Opens(FieldNumberAt(pos)) => trace[step].last = FieldNumberAt(pos)
<1>1. Retraces /\ cur_ndex_ \in Nat /\ last_node_ = cur_ndex_
  BY DEF IInv, ReaderTypeOK
<1>2. cur_ndex_ + 1 = trace[step].n /\ (cur_ndex_ > 0 => nodes_[cur_ndex_].number = trace[step].last)
  BY <1>1 DEF Retraces
<1>3. cur_ndex_ = 0 => trace[step].last = 0
  BY <1>2, OnTheWay
<1> QED BY <1>1, <1>2, <1>3 DEF Opens, NULL

LEMMA FillingStep ==
    ASSUME IInv, ReadField, pass = 2 PROVE Retraces'
<1>1. ReaderTypeOK /\ ReaderTypeOK' /\ TraceOK /\ Retraces
  BY FieldTyped DEF IInv
<1>2. src' = src /\ pass' = 2 /\ step' = step + 1 /\ trace' = trace
  BY DEF ReadField
<1>3. Turn
  BY <1>1, FieldTurn
<1>4. /\ step \in 1 .. Len(trace) - 1 /\ step + 1 \in 1 .. Len(trace)
      /\ trace[step] \in Entry /\ trace[step + 1] \in Entry
      /\ Follows(trace[step], trace[step + 1])
  BY <1>3, OnTheWay
<1>5. /\ pos = trace[step].pos /\ cur_ndex_ + 1 = trace[step].n
      /\ numbers_ndex_ <= trace[step].m /\ (~ZeroTwice => numbers_ndex_ = trace[step].m)
      /\ (cur_ndex_ > 0 => nodes_[cur_ndex_].number = trace[step].last)
      /\ \A k \in 1 .. numbers_ndex_ : numbers_[k] # NULL
      /\ capacity_ = Last.n /\ numbers_capacity_ = Last.m /\ HaltedAt(Last)
  BY <1>1 DEF Retraces
<1>6. pos' = trace[step + 1].pos /\ loop' = trace[step + 1].loop
  BY <1>3, <1>4, <1>5 DEF Turn, Follows
<1>7. Last' = Last /\ HaltedAt(Last)' /\ trace'[step'] = trace[step + 1] /\ step' \in 1 .. Len(trace')
  BY <1>1, <1>2, <1>4, <1>5, TraceKept
<1>8. cur_ndex_ \in Nat /\ numbers_ndex_ \in Nat /\ trace[step].m \in Nat
  <2>1. trace[step].m \in Nat
    BY <1>4 DEF Entry
  <2> QED BY <1>1, <2>1 DEF ReaderTypeOK
<1>9. CASE ~AddsAt(pos)
  <2>1. UNCHANGED <<counted, filled>> /\ trace[step + 1].n = trace[step].n
        /\ trace[step + 1].m = trace[step].m /\ trace[step + 1].last = trace[step].last
    BY <1>3, <1>4, <1>5, <1>9 DEF Turn, Follows
  <2>2. ZeroTwice' = ZeroTwice
    BY <2>1 DEF ZeroTwice, filled
  <2> QED BY <1>2, <1>5, <1>6, <1>7, <2>1, <2>2 DEF Retraces, counted, filled
<1>10. CASE AddsAt(pos)
  <2>1. PICK v, s \in Nat : addField(v, s)
    BY <1>3, <1>10 DEF Turn
  <2>2. FieldNumberAt(pos) \in Nat /\ WireTypeAt(pos) \in 0 .. 7
    BY <1>3, <1>10 DEF Turn
  <2>3. UNCHANGED counted
    BY <1>1, <2>1, <2>2, AddFills
  <2>4. PICK f \in Node : f.number = FieldNumberAt(pos) /\ Filled(f)
    BY <1>1, <2>1, <2>2, AddFills
  <2>5. /\ cur_ndex_' = cur_ndex_ + 1
        /\ nodes_'[cur_ndex_'].number = FieldNumberAt(pos)
        /\ \A i \in 1 .. cur_ndex_ : nodes_'[i].number = nodes_[i].number
        /\ numbers_ndex_' = (IF Opens(FieldNumberAt(pos)) THEN numbers_ndex_ + 1 ELSE numbers_ndex_)
        /\ \A k \in 1 .. numbers_ndex_' : numbers_'[k] # NULL
    BY <1>5, <2>4 DEF Filled
  <2>6. /\ trace[step + 1].n = trace[step].n + 1
        /\ trace[step + 1].m = (IF trace[step].last # 0 /\ trace[step].last = FieldNumberAt(pos)
                                THEN trace[step].m ELSE trace[step].m + 1)
        /\ trace[step + 1].last = FieldNumberAt(pos)
    BY <1>4, <1>5, <1>10 DEF Follows
  <2>7. /\ Opens(FieldNumberAt(pos)) =>
                ~(trace[step].last # 0 /\ trace[step].last = FieldNumberAt(pos))
        /\ ~Opens(FieldNumberAt(pos)) => trace[step].last = FieldNumberAt(pos)
    BY <1>3, RunsCompared
  <2>8. numbers_ndex_' <= trace[step + 1].m
    BY <1>5, <1>8, <2>5, <2>6, <2>7
  <2>9. ~ZeroTwice' => ~ZeroTwice
    <3>1. SUFFICES ASSUME ZeroTwice PROVE ZeroTwice'
      OBVIOUS
    <3>2. PICK i \in 1 .. cur_ndex_ - 1 : nodes_[i].number = 0 /\ nodes_[i + 1].number = 0
      BY <3>1 DEF ZeroTwice
    <3>3. i \in 1 .. cur_ndex_ /\ i + 1 \in 1 .. cur_ndex_ /\ i \in 1 .. cur_ndex_' - 1
      BY <1>8, <2>5
    <3>4. nodes_'[i].number = 0 /\ nodes_'[i + 1].number = 0
      BY <2>5, <3>2, <3>3
    <3> QED BY <3>3, <3>4 DEF ZeroTwice
  <2>10. ~ZeroTwice' /\ ~Opens(FieldNumberAt(pos)) => trace[step].last # 0
    <3>1. SUFFICES ASSUME ~Opens(FieldNumberAt(pos)), trace[step].last = 0 PROVE ZeroTwice'
      OBVIOUS
    <3>2. cur_ndex_ # 0 /\ FieldNumberAt(pos) = 0
      BY <1>1, <2>7, <3>1 DEF Opens, NULL, ReaderTypeOK
    <3>3. cur_ndex_ \in 1 .. cur_ndex_ /\ cur_ndex_ \in 1 .. cur_ndex_' - 1 /\ cur_ndex_ > 0
      BY <1>8, <2>5, <3>2
    <3>4. nodes_'[cur_ndex_].number = 0 /\ nodes_'[cur_ndex_ + 1].number = 0
      BY <1>5, <2>5, <3>1, <3>2, <3>3
    <3> QED BY <3>3, <3>4 DEF ZeroTwice
  <2>11. ~ZeroTwice' => numbers_ndex_' = trace[step + 1].m
    BY <1>5, <1>8, <2>5, <2>6, <2>7, <2>9, <2>10
  <2>12. cur_ndex_' + 1 = trace[step + 1].n
    BY <1>5, <1>8, <2>5, <2>6
  <2> QED BY <1>2, <1>5, <1>6, <1>7, <2>3, <2>5, <2>6, <2>8, <2>11, <2>12 DEF Retraces, counted
<1> QED BY <1>9, <1>10

LEMMA ResizeStep ==
    ASSUME IInv, Resize PROVE Retraces'
<1>1. ReaderTypeOK /\ TraceOK /\ AtTheEnd /\ pass = 1
  BY DEF IInv, Resize
<1>2. /\ src' = src /\ trace' = trace /\ pass' = 2 /\ pos' = 1 /\ step' = 1 /\ loop' = loop /\ loop = "run"
      /\ UNCHANGED <<capacity_, numbers_capacity_, cur_ndex_, numbers_ndex_>>
      /\ (pos > Len(src) \/ Unknown)
  BY DEF Resize, Halted, counted
<1>3. /\ cur_ndex_ = 0 /\ numbers_ndex_ = 0 /\ capacity_ = Last.n /\ numbers_capacity_ = Last.m
      /\ pos = Last.pos /\ loop = Last.loop
  BY <1>1 DEF AtTheEnd
<1>4. HaltedAt(Last)
  BY <1>2, <1>3 DEF HaltedAt, UnknownAt, Unknown, Reads
<1>5. Last' = Last /\ HaltedAt(Last)'
  BY <1>1, <1>2, <1>4, TraceKept
<1>6. /\ trace'[1] = [pos |-> 1, loop |-> "run", n |-> 1, m |-> 0, last |-> 0]
      /\ 1 \in 1 .. Len(trace')
  BY <1>1, <1>2 DEF TraceOK
<1>7. cur_ndex_' = 0 /\ numbers_ndex_' = 0 /\ capacity_' = Last' .n /\ numbers_capacity_' = Last' .m
  BY <1>2, <1>3, <1>5
<1> QED BY <1>2, <1>5, <1>6, <1>7 DEF Retraces

LEMMA StepInv == ASSUME IInv, [ReaderNext]_readerVars PROVE IInv'
<1>1. ReaderTypeOK' /\ ReaderTypeOK /\ TraceOK
  BY StepTyped DEF IInv
<1>2. CASE ReadField
  <2>1. pass \in {1, 2} /\ pass' = pass
    BY <1>1, <1>2, FieldTurn DEF ReadField, Turn
  <2>2. CASE pass = 1
    BY <1>1, <1>2, <2>1, <2>2, CountingStep DEF IInv, Retraces, Returned
  <2>3. CASE pass = 2
    <3>1. UNCHANGED <<src, trace>>
      BY <1>2, <2>3 DEF ReadField
    <3> QED BY <1>1, <1>2, <2>1, <2>3, <3>1, FillingStep, TraceKept DEF IInv, AtTheEnd, Returned
  <2> QED BY <2>1, <2>2, <2>3
<1>3. CASE Resize
  <2>1. UNCHANGED <<src, trace>> /\ pass' = 2
    BY <1>3 DEF Resize
  <2> QED BY <1>1, <1>3, <2>1, ResizeStep, TraceKept DEF IInv, AtTheEnd, Returned
<1>4. CASE ParseReturns
  <2>1. /\ pass = 2 /\ pass' = 3
        /\ UNCHANGED <<src, loop, pos, str_error_, counted, filled, trace, step>>
        /\ loop = "run" /\ (pos > Len(src) \/ Unknown)
    BY <1>4 DEF ParseReturns, Halted
  <2>2. TraceOK' /\ Last' = Last /\ (HaltedAt(Last) => HaltedAt(Last)')
    BY <1>1, <2>1, TraceKept
  <2>3. HaltedAt([pos |-> pos, loop |-> loop])
    BY <2>1 DEF HaltedAt, UnknownAt, Unknown, Reads
  <2>4. HaltedAt([pos |-> pos, loop |-> loop])'
    BY <2>1, <2>3, SameTurns
  <2>5. Retraces'
    BY <2>1, <2>2 DEF IInv, Retraces, ZeroTwice, counted, filled
  <2> QED BY <1>1, <2>1, <2>2, <2>4, <2>5 DEF IInv, AtTheEnd, Returned
<1>5. CASE UNCHANGED readerVars
  <2>1. UNCHANGED <<src, pass, loop, pos, str_error_, ok, counted, filled, trace, step>>
    BY <1>5 DEF readerVars
  <2>2. TraceOK' /\ Last' = Last /\ (HaltedAt(Last) => HaltedAt(Last)')
    BY <1>1, <2>1, TraceKept
  <2>3. AtTheEnd'
    BY <2>1, <2>2 DEF IInv, AtTheEnd, counted, filled
  <2>4. Retraces'
    BY <2>1, <2>2 DEF IInv, Retraces, ZeroTwice, counted, filled
  <2>5. Returned'
    BY <2>1, SameTurns DEF IInv, Returned
  <2> QED BY <1>1, <2>2, <2>3, <2>4, <2>5 DEF IInv
<1> QED BY <1>2, <1>3, <1>4, <1>5 DEF ReaderNext

LEMMA Invariant == ReaderSpec => []IInv
<1>1. ReaderInit => IInv
  BY InitInv
<1>2. IInv /\ [ReaderNext]_readerVars => IInv'
  BY StepInv
<1> QED BY <1>1, <1>2, PTL DEF ReaderSpec

-----------------------------------------------------------------------------
\* The asserts of allocValue and updateLastField hold, whatever the message.
THEOREM AllocationFits == ReaderSpec => []AllocInBounds
<1>1. IInv => AllocInBounds
  <2> SUFFICES ASSUME IInv, pass = 2, Adds
               PROVE  cur_ndex_ < Len(nodes_) /\ (OpensRun => numbers_ndex_ < Len(numbers_))
    BY DEF AllocInBounds
  <2> DEFINE t == trace[step]  u == trace[step + 1]
  <2>1. ReaderTypeOK /\ TraceOK /\ Retraces
    BY DEF IInv
  <2>2. loop = "run" /\ VarIntEnds(pos) /\ AddsAt(pos) /\ pos \in Nat \ {0} /\ pos <= Len(src)
    <3>1. pos \in Nat \ {0} /\ loop = "run" /\ VarIntEnds(pos) /\ Len(src) \in Nat
      BY <2>1 DEF Adds, Reads, ReaderTypeOK
    <3>2. LastByte(pos) \in pos .. Len(src)
      BY <3>1, LastByteOK
    <3>3. AddsAt(pos)
      BY DEF Adds, AddsAt, CutAt, Reads, Data, DataAt, WIRETYPE_VARINT, WIRETYPE_FIXED64,
             WIRETYPE_FIXED32, WIRETYPE_LENGTH_DELIMITED
    <3> QED BY <3>1, <3>2, <3>3
  <2>3. step # Len(trace)
    <3> SUFFICES ASSUME step = Len(trace) PROVE FALSE
      OBVIOUS
    <3>1. HaltedAt(Last) /\ pos = Last.pos
      BY <2>1 DEF Retraces, Last
    <3>2. pos > Len(src) \/ WireTypeAt(pos) \in {6, 7}
      BY <3>1 DEF HaltedAt, UnknownAt
    <3> QED BY <2>1, <2>2, <3>2 DEF AddsAt, ReaderTypeOK
  <2>4. step \in 1 .. Len(trace) /\ Len(trace) \in Nat
    BY <2>1 DEF Retraces, TraceOK
  <2>5. step \in 1 .. Len(trace) - 1 /\ step + 1 \in 1 .. Len(trace)
    BY <2>3, <2>4
  <2>6. t \in Entry /\ u \in Entry /\ Follows(t, u) /\ u.n <= Last.n /\ u.m <= Last.m
        /\ (t.n = 1 => t.m = 0 /\ t.last = 0)
    BY <2>1, <2>4, <2>5 DEF TraceOK
  <2>7. /\ pos = t.pos /\ cur_ndex_ + 1 = t.n /\ numbers_ndex_ <= t.m
        /\ (cur_ndex_ > 0 => nodes_[cur_ndex_].number = t.last)
        /\ capacity_ = Last.n /\ numbers_capacity_ = Last.m
    BY <2>1 DEF Retraces
  <2>8. /\ cur_ndex_ \in Nat /\ numbers_ndex_ \in Nat /\ last_node_ = cur_ndex_
        /\ Len(nodes_) = capacity_ /\ Len(numbers_) = numbers_capacity_
        /\ capacity_ \in Nat /\ numbers_capacity_ \in Nat
    BY <2>1 DEF ReaderTypeOK
  <2>9. t.n \in Nat /\ t.m \in Nat /\ u.n \in Nat /\ u.m \in Nat
    BY <2>6 DEF Entry
  <2> HIDE DEF t, u
  <2>10. /\ u.n = t.n + 1
         /\ u.m = (IF t.last # 0 /\ t.last = FieldNumberAt(pos) THEN t.m ELSE t.m + 1)
    BY <2>2, <2>6, <2>7 DEF Follows
  <2>11. cur_ndex_ < Len(nodes_)
    BY <2>6, <2>7, <2>8, <2>9, <2>10
  <2>12. OpensRun => ~(t.last # 0 /\ t.last = FieldNumberAt(pos))
    BY <2>6, <2>7, <2>8 DEF OpensRun, NULL
  <2>13. OpensRun => numbers_ndex_ < Len(numbers_)
    BY <2>6, <2>7, <2>8, <2>9, <2>10, <2>12
  <2> QED BY <2>11, <2>13
<1> QED BY <1>1, Invariant, PTL

\* getNodeByNumber meets no NULL unless two fields next to each other are kept
\* under the number 0.
THEOREM NoNullEntry == ReaderSpec => []NumbersFilled
<1>1. IInv => NumbersFilled
  <2> SUFFICES ASSUME IInv, pass = 3, ~ZeroTwice
               PROVE  \A k \in 1 .. Len(numbers_) : numbers_[k] # NULL
    BY DEF NumbersFilled
  <2>1. ReaderTypeOK /\ TraceOK /\ Retraces /\ HaltedAt([pos |-> pos, loop |-> loop])
    BY DEF IInv, Returned
  <2>2. numbers_ndex_ = trace[step].m /\ Len(numbers_) = Last.m /\ step \in 1 .. Len(trace)
        /\ pos = trace[step].pos /\ loop = trace[step].loop /\ Len(trace) \in Nat
    BY <2>1, SMTT(30) DEF Retraces, ReaderTypeOK, TraceOK
  <2>3. CASE step = Len(trace)
    BY <2>1, <2>2, <2>3 DEF Retraces, Last
  <2>4. CASE step # Len(trace)
    <3>1. step \in 1 .. Len(trace) - 1
      BY <2>2, <2>4
    <3>2. ~HaltedAt(trace[step])
      BY <2>1, <3>1 DEF TraceOK, Follows
    <3> QED BY <2>1, <2>2, <3>2 DEF HaltedAt
  <2> QED BY <2>3, <2>4
<1> QED BY <1>1, Invariant, PTL

-----------------------------------------------------------------------------
(***************************************************************************)
(* The runs.  Filling a node adds one link or one entry of numbers_.       *)
(***************************************************************************)
LEMMA OpensLinks ==
    ASSUME ReaderTypeOK, RunsLinked, NEW f \in Node, f.next = NULL, Fill(f), Opens(f.number)
    PROVE  RunsLinked'
<1>0. PICK c, m : c = cur_ndex_ /\ m = numbers_ndex_
  OBVIOUS
<1>1. /\ c \in Nat /\ nodes_ \in Seq(Node) /\ numbers_ \in Seq(Nat) /\ m \in Nat /\ last_node_ = c
      /\ c + 1 \in 1 .. Len(nodes_) /\ m + 1 \in 1 .. Len(numbers_)
      /\ Len(nodes_) \in Nat /\ Len(numbers_) \in Nat
  BY <1>0 DEF ReaderTypeOK, Fill, Opens
<1>2. /\ cur_ndex_' = c + 1 /\ numbers_ndex_' = m + 1
      /\ nodes_' = [nodes_ EXCEPT ![c + 1] = f]
      /\ numbers_' = [numbers_ EXCEPT ![m + 1] = c + 1]
  BY <1>0 DEF Fill, Opens
<1>3. /\ nodes_'[c + 1] = f /\ \A i \in 1 .. c : nodes_'[i] = nodes_[i]
      /\ numbers_'[m + 1] = c + 1 /\ \A k \in 1 .. m : numbers_'[k] = numbers_[k]
  BY <1>1, <1>2
<1>4. \A i \in 1 .. c : SameNumber(i)' <=> SameNumber(i)
  <2> TAKE i \in 1 .. c
  <2>1. CASE i = c
    <3>1. c # 0 => nodes_[c].number # f.number
      BY <1>0, <1>1 DEF Opens, NULL
    <3>2. ~SameNumber(i)
      BY <1>0, <1>1, <2>1 DEF SameNumber
    <3>3. ~SameNumber(i)'
      BY <1>1, <1>3, <2>1, <3>1 DEF SameNumber
    <3> QED BY <3>2, <3>3
  <2>2. CASE i # c
    <3>1. i \in 1 .. c /\ i + 1 \in 1 .. c /\ i < c /\ i < cur_ndex_'
      BY <1>1, <1>2, <2>2
    <3> QED BY <1>0, <1>3, <3>1 DEF SameNumber
  <2> QED BY <2>1, <2>2
<1>5. ~SameNumber(c + 1)'
  BY <1>1, <1>2 DEF SameNumber
<1>6. \A i \in 1 .. cur_ndex_' : nodes_'[i].next = (IF SameNumber(i)' THEN i + 1 ELSE NULL)
  <2> TAKE i \in 1 .. cur_ndex_'
  <2>1. CASE i = c + 1
    BY <1>3, <1>5, <2>1
  <2>2. CASE i \in 1 .. c
    BY <1>0, <1>3, <1>4, <2>2 DEF RunsLinked
  <2> QED BY <1>1, <1>2, <2>1, <2>2
<1>7. {numbers_[k] : k \in 1 .. m} = {i \in 1 .. c : i > 1 => ~SameNumber(i - 1)}
  BY <1>0 DEF RunsLinked
<1>8. {numbers_'[k] : k \in 1 .. numbers_ndex_'} = {numbers_[k] : k \in 1 .. m} \cup {c + 1}
  <2>1. 1 .. numbers_ndex_' = (1 .. m) \cup {m + 1}
    BY <1>1, <1>2
  <2>2. {numbers_'[k] : k \in (1 .. m) \cup {m + 1}} = {numbers_[k] : k \in 1 .. m} \cup {c + 1}
    BY <1>3
  <2> QED BY <2>1, <2>2
<1>9. {i \in 1 .. cur_ndex_' : i > 1 => ~SameNumber(i - 1)'}
        = {i \in 1 .. c : i > 1 => ~SameNumber(i - 1)} \cup {c + 1}
  <2>1. ~(c + 1 > 1) \/ ~SameNumber((c + 1) - 1)'
    <3>1. CASE c = 0
      BY <3>1
    <3>2. CASE c # 0
      <4>1. c \in 1 .. c /\ (c + 1) - 1 = c
        BY <1>1, <3>2
      <4>2. ~SameNumber(c)
        BY <1>0, <1>1 DEF SameNumber
      <4> QED BY <1>4, <4>1, <4>2
    <3> QED BY <3>1, <3>2
  <2>2. \A i \in 1 .. c : (i > 1 => ~SameNumber(i - 1)') <=> (i > 1 => ~SameNumber(i - 1))
    <3> TAKE i \in 1 .. c
    <3>1. CASE i > 1
      <4>1. i - 1 \in 1 .. c
        BY <1>1, <3>1
      <4> QED BY <1>4, <4>1
    <3> QED BY <3>1
  <2>3. 1 .. cur_ndex_' = (1 .. c) \cup {c + 1}
    BY <1>1, <1>2
  <2> QED BY <2>1, <2>2, <2>3
<1>10. \A k \in 1 .. numbers_ndex_' - 1 : numbers_'[k] < numbers_'[k + 1]
  <2> TAKE k \in 1 .. numbers_ndex_' - 1
  <2>1. k \in 1 .. m
    BY <1>1, <1>2
  <2>2. CASE k = m
    <3>1. numbers_[k] \in {i \in 1 .. c : i > 1 => ~SameNumber(i - 1)}
      BY <1>7, <2>1
    <3>2. numbers_[k] \in 1 .. c
      BY <3>1
    <3> QED BY <1>1, <1>3, <2>1, <2>2, <3>2
  <2>3. CASE k # m
    <3>1. k \in 1 .. m - 1 /\ k + 1 \in 1 .. m
      BY <1>1, <2>1, <2>3
    <3> QED BY <1>0, <1>3, <2>1, <3>1 DEF RunsLinked
  <2> QED BY <2>2, <2>3
<1> QED BY <1>0, <1>6, <1>7, <1>8, <1>9, <1>10 DEF RunsLinked

LEMMA LinksRun ==
    ASSUME ReaderTypeOK, RunsLinked, NEW f \in Node, f.next = NULL, Fill(f), ~Opens(f.number)
    PROVE  RunsLinked'
<1>0. PICK c, m : c = cur_ndex_ /\ m = numbers_ndex_
  OBVIOUS
<1>1. /\ c \in Nat \ {0} /\ nodes_ \in Seq(Node) /\ last_node_ = c /\ c \in 1 .. c
      /\ c \in 1 .. Len(nodes_) /\ c + 1 \in 1 .. Len(nodes_) /\ Len(nodes_) \in Nat
      /\ nodes_[c].number = f.number
  BY <1>0 DEF ReaderTypeOK, Fill, Opens, NULL
<1>2. /\ cur_ndex_' = c + 1 /\ nodes_' = [Linked EXCEPT ![c + 1] = f]
      /\ numbers_' = numbers_ /\ numbers_ndex_' = m
  BY <1>0 DEF Fill, Opens
<1>3. Linked = [nodes_ EXCEPT ![c] = [nodes_[c] EXCEPT !.next = c + 1]] /\ nodes_[c] \in Node
  BY <1>0, <1>1 DEF Linked
<1>4. /\ nodes_'[c + 1] = f /\ nodes_'[c] = [nodes_[c] EXCEPT !.next = c + 1]
      /\ \A i \in 1 .. c - 1 : nodes_'[i] = nodes_[i]
  <2> DEFINE linked == [nodes_[c] EXCEPT !.next = c + 1]
  <2>1. Linked \in Seq(Node) /\ Len(Linked) = Len(nodes_)
    BY <1>0, <1>1, LinkedOK DEF Fill, NULL
  <2>2. Linked = [nodes_ EXCEPT ![c] = linked]
    BY <1>3
  <2> HIDE DEF linked
  <2>3. Linked[c] = linked /\ \A i \in 1 .. c - 1 : Linked[i] = nodes_[i]
    BY <1>1, <2>2
  <2>4. nodes_'[c + 1] = f /\ \A i \in 1 .. c : nodes_'[i] = Linked[i]
    BY <1>1, <1>2, <2>1
  <2>5. \A i \in 1 .. c - 1 : i \in 1 .. c
    BY <1>1
  <2>6. nodes_'[c] = linked /\ \A i \in 1 .. c - 1 : nodes_'[i] = nodes_[i]
    BY <1>1, <2>3, <2>4, <2>5
  <2> QED BY <2>4, <2>6 DEF linked
<1>5. nodes_'[c].next = c + 1 /\ nodes_'[c].number = nodes_[c].number
  BY <1>3, <1>4 DEF Node
<1>6. \A i \in 1 .. c - 1 : SameNumber(i)' <=> SameNumber(i)
  <2> TAKE i \in 1 .. c - 1
  <2>1. i < c /\ i < cur_ndex_' /\ i + 1 \in 1 .. c /\ (i + 1 = c \/ i + 1 \in 1 .. c - 1)
    BY <1>1, <1>2
  <2>2. nodes_'[i].number = nodes_[i].number /\ nodes_'[i + 1].number = nodes_[i + 1].number
    BY <1>4, <1>5, <2>1
  <2> QED BY <1>0, <2>1, <2>2 DEF SameNumber
<1>7. SameNumber(c)' /\ ~SameNumber(c + 1)'
  BY <1>1, <1>2, <1>4, <1>5 DEF SameNumber
<1>8. \A i \in 1 .. cur_ndex_' : nodes_'[i].next = (IF SameNumber(i)' THEN i + 1 ELSE NULL)
  <2> TAKE i \in 1 .. cur_ndex_'
  <2>1. CASE i = c + 1
    BY <1>4, <1>7, <2>1
  <2>2. CASE i = c
    BY <1>5, <1>7, <2>2
  <2>3. CASE i \in 1 .. c - 1
    <3>1. i \in 1 .. c
      BY <1>1, <2>3
    <3> QED BY <1>0, <1>4, <1>6, <2>3, <3>1 DEF RunsLinked
  <2> QED BY <1>1, <1>2, <2>1, <2>2, <2>3
<1>9. {i \in 1 .. cur_ndex_' : i > 1 => ~SameNumber(i - 1)'}
        = {i \in 1 .. c : i > 1 => ~SameNumber(i - 1)}
  <2>1. c + 1 > 1 /\ SameNumber((c + 1) - 1)'
    <3>1. (c + 1) - 1 = c /\ c + 1 > 1
      BY <1>1
    <3> QED BY <1>7, <3>1
  <2>2. \A i \in 1 .. c : (i > 1 => ~SameNumber(i - 1)') <=> (i > 1 => ~SameNumber(i - 1))
    <3> TAKE i \in 1 .. c
    <3>1. CASE i > 1
      <4>1. i - 1 \in 1 .. c - 1
        BY <1>1, <3>1
      <4> QED BY <1>6, <4>1
    <3> QED BY <3>1
  <2>3. 1 .. cur_ndex_' = (1 .. c) \cup {c + 1}
    BY <1>1, <1>2
  <2> QED BY <2>1, <2>2, <2>3
<1> QED BY <1>0, <1>2, <1>8, <1>9 DEF RunsLinked

\* A run of fields of one number can be walked from its entry in numbers_, for
\* every message and in every state.
THEOREM RunsAreLinked == ReaderSpec => []RunsLinked
<1>1. ReaderInit => ReaderTypeOK /\ RunsLinked
  BY InitTyped DEF ReaderInit, RunsLinked
<1>2. ASSUME ReaderTypeOK, RunsLinked, [ReaderNext]_readerVars PROVE RunsLinked'
  <2>1. CASE ReadField
    <3>1. Turn
      BY <1>2, <2>1, FieldTurn
    <3>2. CASE UNCHANGED filled
      BY <1>2, <3>2 DEF RunsLinked, SameNumber, filled
    <3>3. CASE AddsAt(pos) /\ pass = 1
      <4>1. PICK v, s \in Nat : addField(v, s)
        BY <3>1, <3>3 DEF Turn
      <4> QED BY <3>2, <3>3, <4>1 DEF addField
    <3>4. CASE AddsAt(pos) /\ pass = 2
      <4>1. FieldNumberAt(pos) \in Nat /\ WireTypeAt(pos) \in 0 .. 7
        BY <3>1, <3>4 DEF Turn
      <4>2. PICK v, s \in Nat : addField(v, s)
        BY <3>1, <3>4 DEF Turn
      <4> DEFINE f == [number |-> FieldNumberAt(pos), type |-> WireTypeAt(pos),
                       value |-> v, value_size |-> s, next |-> NULL]
      <4>3. f \in Node /\ f.next = NULL
        BY <4>1 DEF Node, NULL
      <4>4. Fill(f)
        BY <3>4, <4>2 DEF addField
      <4> HIDE DEF f
      <4>5. CASE Opens(f.number)
        BY <1>2, <4>3, <4>4, <4>5, OpensLinks
      <4>6. CASE ~Opens(f.number)
        BY <1>2, <4>3, <4>4, <4>6, LinksRun
      <4> QED BY <4>5, <4>6
    <3> QED BY <3>1, <3>2, <3>3, <3>4 DEF Turn
  <2>2. CASE Resize
    <3>1. cur_ndex_ = 0 /\ numbers_ndex_ = 0 /\ UNCHANGED <<cur_ndex_, numbers_ndex_>>
      BY <1>2, <2>2 DEF Resize, ReaderTypeOK
    <3> QED BY <3>1 DEF RunsLinked
  <2>3. CASE ParseReturns \/ UNCHANGED readerVars
    <3>1. UNCHANGED filled
      BY <2>3 DEF ParseReturns, readerVars
    <3> QED BY <1>2, <3>1 DEF RunsLinked, SameNumber, filled
  <2> QED BY <1>2, <2>1, <2>2, <2>3 DEF ReaderNext
<1>3. ReaderTypeOK /\ RunsLinked /\ [ReaderNext]_readerVars => ReaderTypeOK' /\ RunsLinked'
  BY <1>2, StepTyped
<1> QED BY <1>1, <1>3, PTL DEF ReaderSpec

-----------------------------------------------------------------------------
(***************************************************************************)
(* The fields of the message.                                              *)
(***************************************************************************)
LEMMA VarIntFromOK ==
    ASSUME src \in Seq(Octet), NEW p \in 1 .. Len(src)
    PROVE  /\ VarIntFrom[p] \in Nat
           /\ src[p] < 128 \/ p = Len(src) => VarIntFrom[p] = src[p] % 128
           /\ ~(src[p] < 128 \/ p = Len(src)) =>
                  p + 1 \in 1 .. Len(src) /\ VarIntFrom[p] = (src[p] % 128) + 128 * VarIntFrom[p + 1]
<1>1. PICK n \in Nat : n = Len(src)
  BY LenProperties
<1> DEFINE Final(i) == src[i] < 128 \/ i = n
           F(f) == [i \in 1 .. n |-> (src[i] % 128) + (IF Final(i) THEN 0 ELSE 128 * f[i + 1])]
           E == [i \in 1 .. n |-> [x \in Nat |-> (src[i] % 128) + 128 * x]]
           B == [i \in 1 .. n |-> IF Final(i) THEN 0 ELSE i + 1]
<1>2. \A i \in 1 .. n : src[i] % 128 \in Nat
  BY <1>1, ByteOK, ModOK
<1>3. E \in [1 .. n -> [Nat -> Nat]]
  <2>1. \A i \in 1 .. n : \A x \in Nat : (src[i] % 128) + 128 * x \in Nat
    BY <1>2
  <2> QED BY <2>1
<1>4. B \in [1 .. n -> Nat] /\ GoesOn(n, B)
  BY DEF GoesOn
<1>5. PICK f \in [1 .. n -> Nat] : Unrolls(f, 1, n, 0, E, B)
  <2> HIDE DEF E, B
  <2>1. 0 \in Nat
    OBVIOUS
  <2> QED BY <1>3, <1>4, <2>1, Unroll
<1>6. ASSUME NEW i \in 1 .. n PROVE f[i] = (src[i] % 128) + (IF Final(i) THEN 0 ELSE 128 * f[i + 1])
  <2>1. f[i] = E[i][IF B[i] = 0 THEN 0 ELSE f[B[i]]]
    <3> HIDE DEF E, B
    <3> QED BY <1>5 DEF Unrolls
  <2>2. \A x \in Nat : E[i][x] = (src[i] % 128) + 128 * x
    OBVIOUS
  <2>3. (Final(i) => B[i] = 0) /\ (~Final(i) => B[i] = i + 1 /\ i + 1 # 0 /\ i + 1 \in 1 .. n)
    OBVIOUS
  <2>4. CASE Final(i)
    <3>1. f[i] = (src[i] % 128) + 128 * 0
      <4> HIDE DEF E, B, Final
      <4> QED BY <2>1, <2>2, <2>3, <2>4
    <3> QED BY <2>4, <3>1
  <2>5. CASE ~Final(i)
    <3>1. f[i + 1] \in Nat
      BY <2>3, <2>5
    <3>2. f[i] = (src[i] % 128) + 128 * f[i + 1]
      <4> HIDE DEF E, B, Final
      <4> QED BY <2>1, <2>2, <2>3, <2>5, <3>1
    <3> QED BY <2>5, <3>2
  <2> QED BY <2>4, <2>5
<1>7. f = F(f)
  <2>1. f = [i \in 1 .. n |-> f[i]]
    BY <1>5
  <2> HIDE DEF E, B
  <2> QED BY <1>6, <2>1
<1>8. VarIntFrom = CHOOSE g : g = F(g)
  BY <1>1 DEF VarIntFrom
<1>9. VarIntFrom = F(VarIntFrom)
  <2> HIDE DEF F
  <2> QED BY <1>7, <1>8
<1>10. \A i \in 1 .. n : VarIntFrom[i] = (src[i] % 128) + (IF Final(i) THEN 0 ELSE 128 * VarIntFrom[i + 1])
  BY <1>9
<1> DEFINE S == {k \in Nat : k < n => VarIntFrom[n - k] \in Nat}
<1>11. 0 \in S
  <2>1. 0 < n => n \in 1 .. n /\ n - 0 = n /\ Final(n)
    OBVIOUS
  <2>2. 0 < n => VarIntFrom[n] = (src[n] % 128) + 0
    BY <1>10, <2>1
  <2> QED BY <1>2, <2>1, <2>2
<1>12. ASSUME NEW k \in Nat, k \in S PROVE k + 1 \in S
  <2>1. CASE k + 1 < n
    <3>1. PICK i \in 1 .. n : i = n - (k + 1) /\ i + 1 = n - k
      <4>1. n - (k + 1) \in 1 .. n /\ (n - (k + 1)) + 1 = n - k
        BY <2>1
      <4> QED BY <4>1
    <3>2. VarIntFrom[i + 1] \in Nat /\ src[i] % 128 \in Nat
      BY <1>2, <1>12, <2>1, <3>1
    <3>3. PICK a \in Nat, b \in Nat : a = src[i] % 128 /\ b = VarIntFrom[i + 1]
      BY <3>2
    <3>4. VarIntFrom[i] = a + (IF Final(i) THEN 0 ELSE 128 * b)
      BY <1>10, <3>3
    <3>5. a + (IF Final(i) THEN 0 ELSE 128 * b) \in Nat
      <4> HIDE DEF Final
      <4> QED OBVIOUS
    <3> QED BY <3>1, <3>4, <3>5
  <2> QED BY <2>1
<1>13. Nat \subseteq S
  <2> HIDE DEF S
  <2> QED BY <1>11, <1>12, Induction
<1>14. VarIntFrom[p] \in Nat
  <2>1. n - p \in Nat /\ n - p < n /\ n - (n - p) = p
    BY <1>1
  <2> QED BY <1>13, <2>1
<1>15. src[p] % 128 \in Nat
  BY <1>1, <1>2
<1>16. ~Final(p) => p + 1 \in 1 .. n
  BY <1>1
<1>17. VarIntFrom[p] = (src[p] % 128) + (IF Final(p) THEN 0 ELSE 128 * VarIntFrom[p + 1])
  BY <1>1, <1>10
<1>18. Final(p) => VarIntFrom[p] = src[p] % 128
  BY <1>15, <1>17
<1> QED BY <1>1, <1>14, <1>16, <1>17, <1>18

\* The septet s is added where g was read and w is shifted, and x is to come.
Added(g, s, w) == (g + s * w) % Range64
AddsUp(g, w, x, v) == g + w * x = v

LEMMA SeptetAdded ==
    ASSUME NEW g \in Nat, NEW w \in Nat, NEW s \in Nat, NEW x \in Nat, NEW v \in Nat,
           AddsUp(g, w, s + 128 * x, v), v < Range64
    PROVE  Added(g, s, w) \in Nat /\ AddsUp(Added(g, s, w), 128 * w, x, v)
<1>1. PICK a \in Nat, b \in Nat : a = s * w /\ b = w * x
  <2>1. s * w \in Nat /\ w * x \in Nat
    OBVIOUS
  <2> QED BY <2>1
<1>2. w * (s + 128 * x) = a + 128 * b
  <2>1. w * (s + 128 * x) = s * w + 128 * (w * x)
    OBVIOUS
  <2> QED BY <1>1, <2>1
<1>3. Range64 \in Nat \ {0}
  BY RangeAssumption
<1>4. g + a + 128 * b = v /\ g + a < Range64 /\ g + a \in Nat
  <2>1. g + w * (s + 128 * x) = v
    BY DEF AddsUp
  <2>2. g + (a + 128 * b) = v
    BY <1>2, <2>1
  <2> QED BY <1>3, <2>2
<1>5. (g + a) % Range64 = g + a
  BY <1>3, <1>4
<1>6. (128 * w) * x = 128 * b
  <2>1. (128 * w) * x = 128 * (w * x)
    OBVIOUS
  <2> QED BY <1>1, <2>1
<1>7. Added(g, s, w) = g + a
  BY <1>1, <1>5 DEF Added
<1>8. AddsUp(g + a, 128 * w, x, v)
  BY <1>4, <1>6 DEF AddsUp
<1> QED BY <1>4, <1>7, <1>8

\* readVarInt returns the number that a varint is, if it has no more bits.
LEMMA ReadVarIntIs ==
    ASSUME src \in Seq(Octet), NEW p \in 1 .. Len(src), VarIntEnds(p), VarIntFrom[p] < Range64
    PROVE  readVarInt(p) = VarIntFrom[p]
<1>1. PICK e \in p .. Len(src) : e = LastByte(p)
  BY LastByteOK
<1>2. Len(src) \in Nat /\ e \in Nat /\ p \in Nat /\ p >= 1
  BY LenProperties
<1>3. EndsVarInt(p, e)
  BY <1>1 DEF VarIntEnds, LastByte
<1>4. PICK g \in [p .. e -> Nat] : Reading(g, p, e) /\ readVarInt(p) = g[e]
  BY <1>1, ReadingOK
<1>5. PICK v \in Nat : v = VarIntFrom[p] /\ v < Range64
  BY VarIntFromOK
<1> DEFINE x(i) == IF i = e THEN 0 ELSE VarIntFrom[i + 1]
<1>6. ASSUME NEW i \in p .. e
      PROVE  /\ src[i] % 128 \in Nat /\ x(i) \in Nat /\ shifted[i - p] \in Nat
             /\ VarIntFrom[i] = (src[i] % 128) + 128 * x(i)
  <2>1. i \in 1 .. Len(src) /\ i - p \in 0 .. Len(src)
    BY <1>2
  <2>2. src[i] \in Nat
    BY <2>1, ByteOK
  <2>3. src[i] % 128 \in Nat
    BY <2>2, ModOK
  <2>4. shifted[i - p] \in Nat
    BY <2>1, ShiftedOK
  <2>5. CASE i = e
    <3>1. src[i] < 128
      BY <1>3, <2>5 DEF EndsVarInt
    <3>2. VarIntFrom[i] = src[i] % 128
      BY <2>1, <3>1, VarIntFromOK
    <3> QED BY <2>3, <2>4, <2>5, <3>2
  <2>6. CASE i # e
    <3>1. i \in p .. e - 1 /\ i # Len(src) /\ i + 1 \in 1 .. Len(src)
      BY <1>2, <2>6
    <3>2. ~(src[i] < 128)
      BY <1>3, <2>2, <3>1 DEF EndsVarInt
    <3>3. VarIntFrom[i] = (src[i] % 128) + 128 * VarIntFrom[i + 1]
      BY <2>1, <3>1, <3>2, VarIntFromOK
    <3>4. VarIntFrom[i + 1] \in Nat
      BY <3>1, VarIntFromOK
    <3> QED BY <2>3, <2>4, <2>6, <3>3, <3>4
  <2> QED BY <2>5, <2>6
<1> DEFINE Yet(i) == IF x(i) = 0 THEN g[i] = v ELSE g[i] + (128 * shifted[i - p]) * x(i) = v
<1>7. Yet(p)
  <2>1. p \in p .. e /\ p - p = 0
    BY <1>2
  <2>2. PICK s \in Nat, y \in Nat : s = src[p] % 128 /\ y = x(p)
    <3>1. src[p] % 128 \in Nat /\ x(p) \in Nat
      BY <1>6, <2>1
    <3> HIDE DEF x
    <3> QED BY <3>1
  <2>3. v = s + 128 * y
    BY <1>5, <1>6, <2>1, <2>2
  <2>4. shifted[0] = 1
    BY ShiftedOK
  <2>5. g[p] = (0 + s * 1) % Range64
    BY <1>4, <2>1, <2>2, <2>4 DEF Reading
  <2>6. AddsUp(0, 1, s + 128 * y, v)
    BY <2>3 DEF AddsUp
  <2>7. ((0 + s * 1) % Range64) + (128 * 1) * y = v /\ (0 + s * 1) % Range64 \in Nat
    <3>1. 0 \in Nat /\ 1 \in Nat
      OBVIOUS
    <3>2. Added(0, s, 1) \in Nat /\ AddsUp(Added(0, s, 1), 128 * 1, y, v)
      BY <1>5, <2>6, <3>1, SeptetAdded
    <3> QED BY <3>2 DEF Added, AddsUp
  <2>8. g[p] + (128 * shifted[0]) * x(p) = v /\ g[p] \in Nat
    BY <2>2, <2>4, <2>5, <2>7
  <2>9. x(p) = 0 => g[p] = v
    <3> HIDE DEF x
    <3>1. PICK r \in Nat : r = g[p]
      BY <2>8
    <3>2. y = 0 => r + (128 * 1) * y = r
      OBVIOUS
    <3> QED BY <2>2, <2>4, <2>8, <3>1, <3>2
  <2> HIDE DEF x
  <2> QED BY <2>1, <2>8, <2>9
<1>8. ASSUME NEW i \in p .. e, i + 1 \in p .. e, Yet(i) PROVE Yet(i + 1)
  <2>1. i # e /\ (i + 1) - p = (i - p) + 1 /\ (i + 1) - p \in 1 .. Len(src) /\ i + 1 # p /\ (i + 1) - 1 = i
        /\ ((i + 1) - p) - 1 = i - p
    BY <1>2, <1>8
  <2>2. PICK s \in Nat, y \in Nat, u \in Nat :
            s = src[i + 1] % 128 /\ y = x(i + 1) /\ u = shifted[(i + 1) - p]
    <3>1. src[i + 1] % 128 \in Nat /\ x(i + 1) \in Nat /\ shifted[(i + 1) - p] \in Nat
      BY <1>6, <1>8
    <3> HIDE DEF x
    <3> QED BY <3>1
  <2>3. x(i) = s + 128 * y
    <3>1. x(i) = VarIntFrom[i + 1]
      BY <2>1
    <3>2. VarIntFrom[i + 1] = (src[i + 1] % 128) + 128 * x(i + 1)
      BY <1>6, <1>8
    <3> HIDE DEF x
    <3> QED BY <2>2, <3>1, <3>2
  <2>4. PICK w \in Nat, r \in Nat : w = shifted[i - p] /\ r = g[i]
    <3> HIDE DEF x, Yet
    <3>1. shifted[i - p] \in Nat
      BY <1>6
    <3>2. g[i] \in Nat
      BY <1>4, <1>8
    <3> QED BY <3>1, <3>2
  <2>5. g[i + 1] = (r + s * u) % Range64
    BY <1>4, <1>8, <2>1, <2>2, <2>4 DEF Reading
  <2>6. u = ShiftedAfter(w)
    BY <2>1, <2>2, <2>4, ShiftedOK
  <2>7. CASE x(i) = 0
    <3>1. r = v
      BY <1>8, <2>4, <2>7
    <3>2. s = 0 /\ y = 0
      BY <2>3, <2>7
    <3>3. s * u = 0 /\ r + 0 = r
      BY <3>2
    <3>4. v % Range64 = v
      BY <1>5, RangeAssumption, SMTT(30)
    <3>5. g[i + 1] = v
      BY <2>5, <3>1, <3>3, <3>4
    <3> HIDE DEF x
    <3> QED BY <2>2, <3>2, <3>5
  <2>8. CASE x(i) # 0
    <3>1. r + (128 * w) * (s + 128 * y) = v
      <4>1. r + (128 * w) * x(i) = v
        BY <1>8, <2>4, <2>8
      <4> HIDE DEF x
      <4> QED BY <2>3, <4>1
    <3>2. PICK z \in Nat : z = 128 * w
      OBVIOUS
    <3>3. r + z * (s + 128 * y) = v
      BY <3>1, <3>2
    <3>4. /\ (r + s * z) % Range64 \in Nat
          /\ ((r + s * z) % Range64) + (128 * z) * y = v
      <4>1. AddsUp(r, z, s + 128 * y, v)
        BY <3>3 DEF AddsUp
      <4>2. Added(r, s, z) \in Nat /\ AddsUp(Added(r, s, z), 128 * z, y, v)
        BY <1>5, <4>1, SeptetAdded
      <4> QED BY <4>2 DEF Added, AddsUp
    <3>5. z < Range64
      <4>1. PICK t \in Nat : t = s + 128 * y /\ t # 0
        <5>1. s + 128 * y \in Nat
          OBVIOUS
        <5> HIDE DEF x
        <5> QED BY <2>3, <2>8, <5>1
      <4>2. PICK h \in Nat : t = h + 1
        <5>1. t - 1 \in Nat /\ t = (t - 1) + 1
          BY <4>1
        <5> QED BY <5>1
      <4>3. z * (h + 1) = z * h + z /\ z * h \in Nat
        OBVIOUS
      <4>4. r + (z * h + z) = v
        BY <3>3, <4>1, <4>2, <4>3
      <4> QED BY <1>5, <4>3, <4>4, RangeAssumption, SMTT(30)
    <3>6. u = z
      BY <2>6, <3>2, <3>5 DEF ShiftedAfter
    <3>7. g[i + 1] + (128 * u) * y = v /\ g[i + 1] \in Nat
      BY <2>5, <3>4, <3>6
    <3>8. y = 0 => g[i + 1] = v
      <4>1. PICK k \in Nat : k = g[i + 1]
        BY <3>7
      <4>2. y = 0 => k + (128 * u) * y = k
        OBVIOUS
      <4> QED BY <3>7, <4>1, <4>2
    <3> HIDE DEF x
    <3> QED BY <2>2, <3>7, <3>8
  <2> QED BY <2>7, <2>8
<1> HIDE DEF Yet
<1>9. Yet(e)
  <2> DEFINE S == {k \in Nat : p + k <= e => Yet(p + k)}
  <2>1. 0 \in S
    <3>1. p + 0 = p
      BY <1>2
    <3> QED BY <1>7, <3>1
  <2>2. ASSUME NEW k \in Nat, k \in S PROVE k + 1 \in S
    <3>1. CASE p + (k + 1) <= e
      <4>1. PICK i \in p .. e : i = p + k /\ i + 1 = p + (k + 1) /\ i + 1 \in p .. e /\ p + k <= e
        <5>1. p + k \in p .. e /\ (p + k) + 1 = p + (k + 1) /\ (p + k) + 1 \in p .. e /\ p + k <= e
          BY <1>2, <3>1
        <5> QED BY <5>1
      <4>2. Yet(i + 1)
        BY <1>8, <2>2, <4>1
      <4> QED BY <4>1, <4>2
    <3> QED BY <3>1
  <2>3. Nat \subseteq S
    <3> HIDE DEF S
    <3> QED BY <2>1, <2>2, Induction
  <2>4. e - p \in Nat /\ p + (e - p) = e /\ e <= e
    BY <1>2
  <2> QED BY <2>3, <2>4
<1> QED BY <1>4, <1>5, <1>9 DEF Yet

\* So the reader and the message have the same tags and lengths of 32 bits.
LEMMA SmallVarInt ==
    ASSUME src \in Seq(Octet), NEW p \in 1 .. Len(src), VarIntEnds(p), ~TooLarge(p)
    PROVE  readVarInt(p) = VarIntFrom[p] /\ VarIntFrom[p] \in Nat /\ VarIntFrom[p] < Range32
<1>1. VarIntFrom[p] \in Nat
  BY VarIntFromOK
<1>2. VarIntFrom[p] < Range32 /\ VarIntFrom[p] < Range64
  BY <1>1, RangeAssumption DEF TooLarge
<1> QED BY <1>1, <1>2, ReadVarIntIs

LEMMA TagIs ==
    ASSUME src \in Seq(Octet), NEW p \in 1 .. Len(src), VarIntEnds(p), ~TooLarge(p)
    PROVE  WireTypeAt(p) = TypeAt(p) /\ FieldNumberAt(p) = (VarIntFrom[p] % 65536) \div 8
BY SmallVarInt DEF WireTypeAt, TypeAt, FieldNumberAt

LEMMA TypeOfTag ==
    ASSUME src \in Seq(Octet), NEW p \in 1 .. Len(src)
    PROVE  TypeAt(p) \in 0 .. 7
<1>1. PICK tag \in Nat : tag = VarIntFrom[p]
  BY VarIntFromOK
<1>2. tag % 8 \in 0 .. 7
  OBVIOUS
<1> QED BY <1>1, <1>2 DEF TypeAt

LEMMA NextOK ==
    ASSUME src \in Seq(Octet), NEW p \in 1 .. Len(src), ~IsCut(p)
    PROVE  NextAt(p) \in p + 1 .. Len(src) + 1
<1>1. VarIntEnds(p) /\ ~(NextAt(p) > Len(src) + 1) /\ TypeAt(p) \notin {6, 7}
  BY DEF IsCut
<1>2. PICK q \in p + 1 .. Len(src) + 1 : q = BodyAt(p)
  BY <1>1, LastByteOK DEF BodyAt
<1>3. PICK t \in 0 .. 5 : t = TypeAt(p)
  <2>1. TypeAt(p) \in 0 .. 7
    BY TypeOfTag
  <2> QED BY <1>1, <2>1
<1>4. t \in {0, 2} => VarIntEnds(q)
  BY <1>2, <1>3 DEF IsCut, WIRETYPE_VARINT, WIRETYPE_LENGTH_DELIMITED
<1>5. Len(src) \in Nat
  BY LenProperties
<1> USE DEF WIRETYPE_VARINT, WIRETYPE_FIXED64, WIRETYPE_FIXED32, WIRETYPE_LENGTH_DELIMITED,
            WIRETYPE_START_GROUP, WIRETYPE_END_GROUP
<1>6. CASE t = 0
  <2>1. LastByte(q) \in q .. Len(src)
    BY <1>2, <1>4, <1>5, <1>6, LastByteOK
  <2>2. NextAt(p) = LastByte(q) + 1
    BY <1>2, <1>3, <1>6 DEF NextAt
  <2> QED BY <1>1, <1>2, <1>5, <2>1, <2>2
<1>7. CASE t = 2
  <2>1. LastByte(q) \in q .. Len(src)
    BY <1>2, <1>4, <1>5, <1>7, LastByteOK
  <2>2. VarIntFrom[q] \in Nat
    BY <1>2, <1>5, <2>1, VarIntFromOK
  <2>3. NextAt(p) = LastByte(q) + 1 + VarIntFrom[q]
    BY <1>2, <1>3, <1>7 DEF NextAt
  <2> QED BY <1>1, <1>2, <1>5, <2>1, <2>2, <2>3
<1>8. CASE t \in {1, 3, 4, 5}
  <2>1. NextAt(p) \in {q, q + 4, q + 8}
    BY <1>2, <1>3, <1>8 DEF NextAt
  <2> QED BY <1>1, <1>2, <1>5, <2>1
<1> QED BY <1>3, <1>6, <1>7, <1>8

Ends(p) == p > Len(src) \/ IsBeyond(p) \/ IsCut(p)
OwnFields(p) == IF p > Len(src) THEN <<>> ELSE IF IsBeyond(p) THEN <<Beyond>>
                ELSE IF IsCut(p) THEN <<Missing>> ELSE FieldAt(p)
Marks == {Missing, Beyond}
Own == Marks \cup {FieldAt(p)[1] : p \in 1 .. Len(src)}

LEMMA OwnFieldsOK ==
    ASSUME src \in Seq(Octet), NEW p \in 1 .. Len(src) + 1
    PROVE  OwnFields(p) \in Seq(Own)
<1>1. CASE p > Len(src)
  BY <1>1 DEF OwnFields
<1>2. CASE p <= Len(src) /\ (IsBeyond(p) \/ IsCut(p))
  <2>1. PICK mark \in Marks : OwnFields(p) = <<mark>>
    BY <1>2, LenProperties DEF OwnFields, Marks
  <2>2. mark \in Own
    BY DEF Own
  <2> QED BY <2>1, <2>2
<1>3. CASE p <= Len(src) /\ ~IsBeyond(p) /\ ~IsCut(p)
  <2>1. p \in 1 .. Len(src)
    BY <1>3, LenProperties
  <2>2. PICK x \in Own : x = FieldAt(p)[1]
    BY <2>1 DEF Own
  <2>3. FieldAt(p) = <<>> \/ FieldAt(p) = <<x>>
    BY <2>2 DEF FieldAt
  <2>4. OwnFields(p) = <<>> \/ OwnFields(p) = <<x>>
    BY <1>3, <2>3 DEF OwnFields
  <2>5. <<x>> \in Seq(Own) /\ <<>> \in Seq(Own)
    OBVIOUS
  <2> QED BY <2>4, <2>5
<1> QED BY <1>1, <1>2, <1>3, LenProperties

Unfold(g) == [p \in 1 .. Len(src) + 1 |->
                 IF p > Len(src) THEN <<>>
                 ELSE IF IsBeyond(p) THEN <<Beyond>>
                 ELSE IF IsCut(p) THEN <<Missing>>
                 ELSE FieldAt(p) \o g[NextAt(p)]]

LEMMA UnfoldOnce ==
    ASSUME src \in Seq(Octet), NEW p \in 1 .. Len(src) + 1, NEW g
    PROVE  /\ Ends(p) => Unfold(g)[p] = OwnFields(p)
           /\ ~Ends(p) => Unfold(g)[p] = OwnFields(p) \o g[NextAt(p)]
BY DEF Ends, OwnFields, Unfold

LEMMA FieldsUnfold ==
    ASSUME src \in Seq(Octet)
    PROVE  FieldsFrom = Unfold(FieldsFrom)
<1>1. PICK n \in Nat : n = Len(src) + 1
  BY LenProperties
<1> DEFINE E == [r \in 1 .. n |-> [x \in Seq(Own) |-> OwnFields(r) \o x]]
           B == [r \in 1 .. n |-> IF Ends(r) THEN 0 ELSE NextAt(r)]
<1>2. ASSUME NEW r \in 1 .. n PROVE OwnFields(r) \in Seq(Own)
  BY <1>1, OwnFieldsOK
<1>3. ASSUME NEW r \in 1 .. n PROVE B[r] \in Nat /\ (B[r] = 0 \/ B[r] \in r + 1 .. n)
  <2>1. CASE Ends(r)
    BY <2>1
  <2>2. CASE ~Ends(r)
    <3>1. r \in 1 .. Len(src) /\ ~IsCut(r)
      BY <1>1, <2>2 DEF Ends
    <3>2. NextAt(r) \in r + 1 .. n
      BY <1>1, <3>1, NextOK
    <3> QED BY <2>2, <3>2
  <2> QED BY <2>1, <2>2
<1>4. E \in [1 .. n -> [Seq(Own) -> Seq(Own)]]
  <2>1. ASSUME NEW r \in 1 .. n, NEW x \in Seq(Own) PROVE OwnFields(r) \o x \in Seq(Own)
    <3>1. PICK y \in Seq(Own) : y = OwnFields(r)
      BY <1>2
    <3> QED BY <3>1
  <2> QED BY <2>1
<1>5. B \in [1 .. n -> Nat]
  <2>1. \A r \in 1 .. n : (IF Ends(r) THEN 0 ELSE NextAt(r)) \in Nat
    BY <1>3
  <2> QED BY <2>1
<1>6. GoesOn(n, B)
  <2> HIDE DEF B
  <2> QED BY <1>3 DEF GoesOn
<1>7. PICK f \in [1 .. n -> Seq(Own)] : Unrolls(f, 1, n, <<>>, E, B)
  <2>1. <<>> \in Seq(Own)
    OBVIOUS
  <2> HIDE DEF E, B
  <2> QED BY <1>4, <1>5, <1>6, <2>1, Unroll
<1>8. ASSUME NEW r \in 1 .. n
      PROVE  f[r] = OwnFields(r) \o (IF Ends(r) THEN <<>> ELSE f[NextAt(r)])
  <2>1. f[r] = E[r][IF B[r] = 0 THEN <<>> ELSE f[B[r]]]
    <3> HIDE DEF E, B
    <3> QED BY <1>7 DEF Unrolls
  <2>2. \A x \in Seq(Own) : E[r][x] = OwnFields(r) \o x
    OBVIOUS
  <2>3. (Ends(r) => B[r] = 0) /\ (~Ends(r) => B[r] = NextAt(r) /\ B[r] # 0)
    <3>1. B[r] = IF Ends(r) THEN 0 ELSE NextAt(r)
      OBVIOUS
    <3>2. ~Ends(r) => NextAt(r) # 0
      <4>1. ~Ends(r) => r \in 1 .. Len(src) /\ ~IsCut(r)
        BY <1>1 DEF Ends
      <4>2. ~Ends(r) => NextAt(r) \in r + 1 .. n
        BY <1>1, <4>1, NextOK
      <4> QED BY <4>2
    <3> QED BY <3>1, <3>2
  <2>4. (IF B[r] = 0 THEN <<>> ELSE f[B[r]]) \in Seq(Own)
    <3>1. <<>> \in Seq(Own)
      OBVIOUS
    <3>2. B[r] # 0 => B[r] \in 1 .. n
      <4> HIDE DEF B
      <4> QED BY <1>3
    <3> HIDE DEF B
    <3> QED BY <3>1, <3>2
  <2> HIDE DEF E, B
  <2> QED BY <2>1, <2>2, <2>3, <2>4
<1>9. f = Unfold(f)
  <2>1. \A r \in 1 .. n : f[r] = Unfold(f)[r]
    <3>1. TAKE r \in 1 .. n
    <3>2. OwnFields(r) \o <<>> = OwnFields(r)
      BY <1>2
    <3> QED BY <1>1, <1>8, <3>2, UnfoldOnce
  <2>2. Unfold(f) = [r \in 1 .. n |-> Unfold(f)[r]]
    BY <1>1 DEF Unfold
  <2>3. f = [r \in 1 .. n |-> f[r]]
    BY <1>7
  <2> QED BY <2>1, <2>2, <2>3
<1>10. FieldsFrom = CHOOSE g : g = Unfold(g)
  BY DEF FieldsFrom, Unfold
<1> QED BY <1>9, <1>10

\* What a position's fields are.
LEMMA FieldsOK ==
    ASSUME src \in Seq(Octet), NEW p \in 1 .. Len(src) + 1
    PROVE  /\ FieldsFrom[p] \in Seq(Own)
           /\ Ends(p) => FieldsFrom[p] = OwnFields(p)
           /\ ~Ends(p) => /\ NextAt(p) \in p + 1 .. Len(src) + 1
                          /\ FieldsFrom[p] = OwnFields(p) \o FieldsFrom[NextAt(p)]
<1>1. PICK n \in Nat : n = Len(src) + 1
  BY LenProperties
<1>2. ASSUME NEW r \in 1 .. n
      PROVE  /\ Ends(r) => FieldsFrom[r] = OwnFields(r)
             /\ ~Ends(r) => FieldsFrom[r] = OwnFields(r) \o FieldsFrom[NextAt(r)]
  BY <1>1, FieldsUnfold, UnfoldOnce
<1>3. ASSUME NEW r \in 1 .. n, ~Ends(r) PROVE NextAt(r) \in r + 1 .. n
  <2>1. r \in 1 .. Len(src) /\ ~IsCut(r)
    BY <1>1, <1>3 DEF Ends
  <2> QED BY <1>1, <2>1, NextOK
<1> DEFINE S == {k \in 0 .. n - 1 : FieldsFrom[n - k] \notin Seq(Own)}
<1>4. S = {}
  <2>1. SUFFICES ASSUME S # {} PROVE FALSE
    OBVIOUS
  <2>2. S \in SUBSET Nat
    OBVIOUS
  <2>3. PICK m \in S : \A k \in S : m <= k
    <3> HIDE DEF S
    <3> QED BY <2>1, <2>2, Least
  <2>4. PICK r \in 1 .. n : r = n - m
    OBVIOUS
  <2>5. FieldsFrom[r] \notin Seq(Own)
    BY <2>4
  <2>6. OwnFields(r) \in Seq(Own)
    BY <1>1, OwnFieldsOK
  <2>7. ~Ends(r)
    BY <1>2, <2>5, <2>6
  <2>8. PICK s \in r + 1 .. n : s = NextAt(r)
    BY <1>3, <2>7
  <2>9. n - s \in 0 .. n - 1 /\ n - s < m /\ n - (n - s) = s
    BY <2>4
  <2>10. FieldsFrom[s] \in Seq(Own)
    <3>1. PICK k \in 0 .. n - 1 : k = n - s /\ k < m
      BY <2>9
    <3>2. k \notin S
      <4> HIDE DEF S
      <4> QED BY <2>2, <2>3, <3>1
    <3> QED BY <2>9, <3>1, <3>2
  <2>11. FieldsFrom[r] = OwnFields(r) \o FieldsFrom[s]
    BY <1>2, <2>7, <2>8
  <2> HIDE DEF S
  <2> QED BY <2>5, <2>6, <2>10, <2>11
<1>5. PICK k \in 0 .. n - 1 : p = n - k
  <2>1. n - p \in 0 .. n - 1 /\ p = n - (n - p)
    BY <1>1
  <2> QED BY <2>1
<1>6. FieldsFrom[p] \in Seq(Own)
  BY <1>4, <1>5
<1> QED BY <1>1, <1>2, <1>3, <1>6

\* A field that is read is none that is cut.
LEMMA FieldAtOK ==
    ASSUME src \in Seq(Octet), NEW p \in 1 .. Len(src), VarIntEnds(p)
    PROVE  /\ VarIntFrom[p] \in Nat
           /\ TypeAt(p) \in {3, 4} => FieldAt(p) = <<>>
           /\ TypeAt(p) \notin {3, 4} =>
                  /\ FieldAt(p) = <<[number |-> VarIntFrom[p] \div 8, type |-> TypeAt(p),
                                     value |-> ValueAt(p), value_size |-> NextAt(p) - ValueAt(p)]>>
                  /\ FieldAt(p)[1] \notin Marks
<1>1. VarIntFrom[p] \in Nat
  BY VarIntFromOK
<1>2. TypeAt(p) \in {3, 4} => FieldAt(p) = <<>>
  BY DEF FieldAt, TypeAt, WIRETYPE_START_GROUP, WIRETYPE_END_GROUP
<1> DEFINE x == [number |-> VarIntFrom[p] \div 8, type |-> TypeAt(p),
                 value |-> ValueAt(p), value_size |-> NextAt(p) - ValueAt(p)]
<1>3. TypeAt(p) \notin {3, 4} => FieldAt(p) = <<x>>
  BY DEF FieldAt, TypeAt, WIRETYPE_START_GROUP, WIRETYPE_END_GROUP
<1>4. x.number = VarIntFrom[p] \div 8 /\ Missing.number = -1 /\ Beyond.number = -2
  BY DEF Missing, Beyond
<1>5. VarIntFrom[p] \div 8 \in Nat
  BY <1>1
<1> HIDE DEF x
<1>6. x \notin Marks
  BY <1>4, <1>5 DEF Marks
<1>7. <<x>>[1] = x
  OBVIOUS
<1>8. TypeAt(p) \notin {3, 4} => FieldAt(p) = <<x>> /\ FieldAt(p)[1] \notin Marks
  BY <1>3, <1>6, <1>7
<1> QED BY <1>1, <1>2, <1>8 DEF x

\* The fields from a position on: its own, and those from the next.
LEMMA RestStep ==
    ASSUME src \in Seq(Octet), NEW p \in 1 .. Len(src), ~IsCut(p), ~IsBeyond(p)
    PROVE  /\ FieldsFrom[NextAt(p)] \in Seq(Own) /\ FieldsFrom[p] \in Seq(Own)
           /\ TypeAt(p) \in {3, 4} => FieldsFrom[p] = FieldsFrom[NextAt(p)]
           /\ TypeAt(p) \notin {3, 4} =>
                  /\ Len(FieldsFrom[p]) = Len(FieldsFrom[NextAt(p)]) + 1
                  /\ FieldsFrom[p][1] = FieldAt(p)[1]
                  /\ \A j \in 1 .. Len(FieldsFrom[NextAt(p)]) :
                         FieldsFrom[p][j + 1] = FieldsFrom[NextAt(p)][j]
<1>1. ~Ends(p) /\ p \in 1 .. Len(src) + 1 /\ VarIntEnds(p) /\ ~(p > Len(src))
  BY LenProperties DEF Ends, IsCut
<1>2. NextAt(p) \in 1 .. Len(src) + 1
  BY <1>1, FieldsOK
<1>3. PICK g \in Seq(Own) : g = FieldsFrom[NextAt(p)]
  BY <1>2, FieldsOK
<1>4. FieldsFrom[p] = FieldAt(p) \o g /\ FieldsFrom[p] \in Seq(Own)
  BY <1>1, <1>3, FieldsOK DEF OwnFields
<1>5. ASSUME TypeAt(p) \in {3, 4} PROVE FieldsFrom[p] = g
  <2>1. FieldAt(p) = <<>> /\ <<>> \o g = g
    BY <1>1, <1>5, FieldAtOK
  <2> QED BY <1>4, <2>1
<1>6. ASSUME TypeAt(p) \notin {3, 4}
      PROVE  /\ Len(FieldsFrom[p]) = Len(g) + 1 /\ FieldsFrom[p][1] = FieldAt(p)[1]
             /\ \A j \in 1 .. Len(g) : FieldsFrom[p][j + 1] = g[j]
  <2>1. PICK x \in Own : x = FieldAt(p)[1]
    BY DEF Own
  <2>2. FieldAt(p) = <<x>>
    BY <1>1, <1>6, <2>1, FieldAtOK
  <2> DEFINE h == <<x>> \o g
  <2>3. Len(h) = Len(g) + 1 /\ h[1] = x /\ \A j \in 1 .. Len(g) : h[j + 1] = g[j]
    OBVIOUS
  <2> HIDE DEF h
  <2>4. FieldsFrom[p] = h
    BY <1>4, <2>2 DEF h
  <2> QED BY <2>1, <2>3, <2>4
<1> QED BY <1>3, <1>4, <1>5, <1>6

NoMark(p, mark) == \A i \in DOMAIN FieldsFrom[p] : FieldsFrom[p][i] # mark

LEMMA NoMarkOK ==
    ASSUME src \in Seq(Octet), NEW p \in 1 .. Len(src) + 1, NEW mark \in Marks
    PROVE  /\ p > Len(src) => NoMark(p, mark)
           /\ p <= Len(src) /\ IsBeyond(p) => ~NoMark(p, Beyond)
           /\ p <= Len(src) /\ ~IsBeyond(p) /\ IsCut(p) => ~NoMark(p, Missing)
           /\ ~Ends(p) => (NoMark(p, mark) <=> NoMark(NextAt(p), mark))
<1>1. ASSUME p > Len(src) PROVE NoMark(p, mark)
  <2>1. FieldsFrom[p] = <<>>
    BY <1>1, FieldsOK DEF Ends, OwnFields
  <2>2. DOMAIN <<>> = {}
    OBVIOUS
  <2> QED BY <2>1, <2>2 DEF NoMark
<1>2. ASSUME NEW x, FieldsFrom[p] = <<x>> PROVE ~NoMark(p, x)
  <2>1. 1 \in DOMAIN <<x>> /\ <<x>>[1] = x
    OBVIOUS
  <2> QED BY <1>2, <2>1 DEF NoMark
<1>3. ASSUME p <= Len(src), IsBeyond(p) PROVE ~NoMark(p, Beyond)
  <2>1. Ends(p) /\ ~(p > Len(src))
    BY <1>3, LenProperties DEF Ends
  <2>2. FieldsFrom[p] = <<Beyond>>
    BY <1>3, <2>1, FieldsOK DEF OwnFields
  <2> QED BY <1>2, <2>2
<1>4. ASSUME p <= Len(src), ~IsBeyond(p), IsCut(p) PROVE ~NoMark(p, Missing)
  <2>1. Ends(p) /\ ~(p > Len(src))
    BY <1>4, LenProperties DEF Ends
  <2>2. FieldsFrom[p] = <<Missing>>
    BY <1>4, <2>1, FieldsOK DEF OwnFields
  <2> QED BY <1>2, <2>2
<1>5. ASSUME ~Ends(p) PROVE NoMark(p, mark) <=> NoMark(NextAt(p), mark)
  <2>1. p \in 1 .. Len(src) /\ ~IsCut(p) /\ ~IsBeyond(p) /\ VarIntEnds(p)
    BY <1>5, LenProperties DEF Ends, IsCut
  <2>2. PICK g \in Seq(Own), h \in Seq(Own) : g = FieldsFrom[NextAt(p)] /\ h = FieldsFrom[p]
    BY <2>1, RestStep
  <2>3. CASE TypeAt(p) \in {3, 4}
    BY <2>1, <2>3, RestStep DEF NoMark
  <2>4. CASE TypeAt(p) \notin {3, 4}
    <3>1. h[1] # mark
      BY <2>1, <2>2, <2>4, RestStep, FieldAtOK
    <3>2. Len(h) = Len(g) + 1 /\ \A j \in 1 .. Len(g) : h[j + 1] = g[j]
      BY <2>1, <2>2, <2>4, RestStep
    <3>3. DOMAIN h = 1 .. Len(g) + 1 /\ DOMAIN g = 1 .. Len(g) /\ Len(g) \in Nat
      BY <3>2
    <3>4. ASSUME NEW i \in DOMAIN h, \A j \in DOMAIN g : g[j] # mark PROVE h[i] # mark
      <4>1. CASE i = 1
        BY <3>1, <4>1
      <4>2. CASE i # 1
        <5>1. i - 1 \in 1 .. Len(g) /\ i = (i - 1) + 1
          BY <3>3, <4>2
        <5> QED BY <3>2, <3>3, <3>4, <5>1
      <4> QED BY <4>1, <4>2
    <3>5. ASSUME NEW j \in DOMAIN g, \A i \in DOMAIN h : h[i] # mark PROVE g[j] # mark
      <4>1. j + 1 \in DOMAIN h /\ h[j + 1] = g[j]
        BY <3>2, <3>3
      <4> QED BY <3>5, <4>1
    <3>6. NoMark(p, mark) <=> \A i \in DOMAIN h : h[i] # mark
      BY <2>2 DEF NoMark
    <3>7. NoMark(NextAt(p), mark) <=> \A i \in DOMAIN g : g[i] # mark
      BY <2>2 DEF NoMark
    <3> QED BY <3>4, <3>5, <3>6, <3>7
  <2> QED BY <2>3, <2>4
<1> QED BY <1>1, <1>3, <1>4, <1>5

LEMMA SameFields ==
    ASSUME src' = src PROVE FieldsFrom' = FieldsFrom
<1>1. VarIntFrom' = VarIntFrom
  BY DEF VarIntFrom
<1> QED BY <1>1 DEF FieldsFrom, IsCut, IsBeyond, TooLarge, NextAt, FieldAt, ValueAt, BodyAt, TypeAt,
                   Missing, Beyond, VarIntEnds, LastByte, EndsVarInt

-----------------------------------------------------------------------------
(***************************************************************************)
(* A turn of the loop reads what begins at its position, if its tag and    *)
(* its length are numbers of 32 bits.                                      *)
(***************************************************************************)
ReadsField ==
    /\ pos \in 1 .. Len(src)
    /\ IsCut(pos) => loop' # "run" \/ str_error_'
    /\ ~IsCut(pos) =>
           /\ loop' = loop /\ str_error_' = str_error_ /\ pos' = NextAt(pos)
           /\ TypeAt(pos) \in {3, 4} => UNCHANGED <<counted, filled>>
           /\ TypeAt(pos) \notin {3, 4} => addField(ValueAt(pos), NextAt(pos) - ValueAt(pos))

LEMMA TagIsRead ==
    ASSUME ReaderTypeOK, ~IsBeyond(pos), NEW types, Reads(types)
    PROVE  /\ pos \in 1 .. Len(src) /\ Data = BodyAt(pos) /\ TypeAt(pos) \in types
           /\ BodyAt(pos) \in 2 .. Len(src) + 1 /\ VarIntEnds(pos) /\ Left = Len(src) + 1 - BodyAt(pos)
<1>1. pos \in Nat \ {0} /\ src \in Seq(Octet) /\ Len(src) \in Nat
  BY DEF ReaderTypeOK
<1>2. VarIntEnds(pos)
  BY DEF Reads
<1>3. LastByte(pos) \in pos .. Len(src)
  BY <1>1, <1>2, LastByteOK
<1>4. BodyAt(pos) = Data /\ Left = Len(src) + 1 - BodyAt(pos)
  BY DEF BodyAt, Data, Left
<1>5. BodyAt(pos) \in 2 .. Len(src) + 1 /\ pos \in 1 .. Len(src)
  BY <1>1, <1>3 DEF BodyAt
<1>6. TypeAt(pos) \in types
  <2>1. ~TooLarge(pos)
    BY DEF IsBeyond
  <2>2. WireTypeAt(pos) = TypeAt(pos)
    BY <1>1, <1>2, <1>5, <2>1, TagIs
  <2> QED BY <2>2 DEF Reads
<1> QED BY <1>2, <1>4, <1>5, <1>6

LEMMA VarIntReads == ASSUME ReaderTypeOK, ~IsBeyond(pos), VarInt PROVE ReadsField
<1> USE DEF WIRETYPE_VARINT, WIRETYPE_FIXED64, WIRETYPE_FIXED32, WIRETYPE_LENGTH_DELIMITED,
            WIRETYPE_START_GROUP, WIRETYPE_END_GROUP
<1>1. Reads({0}) /\ src \in Seq(Octet) /\ Len(src) \in Nat
  BY DEF VarInt, ReaderTypeOK
<1>2. PICK q \in 2 .. Len(src) + 1 :
          q = BodyAt(pos) /\ Data = q /\ Left = Len(src) + 1 - q /\ TypeAt(pos) = 0 /\ VarIntEnds(pos)
          /\ pos \in 1 .. Len(src)
  BY <1>1, TagIsRead
<1>3. ValueAt(pos) = q /\ NextAt(pos) = LastByte(q) + 1
  BY <1>2 DEF ValueAt, NextAt
<1>4. ~Spins(q) /\ addField(q, After(q) - q) /\ pos' = After(q) /\ loop' = loop
      /\ str_error_' = (str_error_ \/ Len(src) + 1 - q = 0)
  BY <1>2 DEF VarInt
<1>5. ASSUME IsCut(pos) PROVE str_error_'
  <2>1. q <= Len(src) => VarIntEnds(q)
    BY <1>4 DEF Spins
  <2>2. q <= Len(src) => LastByte(q) \in q .. Len(src)
    BY <1>1, <2>1, LastByteOK
  <2>3. ~(q <= Len(src))
    <3>1. SUFFICES ASSUME q <= Len(src) PROVE ~IsCut(pos)
      BY <1>5
    <3> QED BY <1>1, <1>2, <1>3, <2>1, <2>2, <3>1 DEF IsCut
  <2>4. Len(src) + 1 - q = 0
    BY <1>1, <2>3
  <2> QED BY <1>4, <2>4
<1>6. ASSUME ~IsCut(pos)
      PROVE  str_error_' = str_error_ /\ pos' = NextAt(pos)
             /\ addField(ValueAt(pos), NextAt(pos) - ValueAt(pos))
  <2>1. VarIntEnds(q)
    BY <1>2, <1>6 DEF IsCut
  <2>2. LastByte(q) \in q .. Len(src)
    BY <1>1, <2>1, LastByteOK
  <2>3. After(q) = NextAt(pos)
    BY <1>1, <1>3, <2>2 DEF After
  <2>4. str_error_' = str_error_
    BY <1>1, <1>4, <2>2 DEF ReaderTypeOK
  <2> QED BY <1>3, <1>4, <2>3, <2>4
<1> QED BY <1>2, <1>4, <1>5, <1>6 DEF ReadsField

LEMMA FixedReads ==
    ASSUME ReaderTypeOK, ~IsBeyond(pos), NEW type \in {1, 5}, NEW size \in {4, 8}, type = 1 <=> size = 8,
           Fixed(type, size)
    PROVE  ReadsField
<1> USE DEF WIRETYPE_VARINT, WIRETYPE_FIXED64, WIRETYPE_FIXED32, WIRETYPE_LENGTH_DELIMITED,
            WIRETYPE_START_GROUP, WIRETYPE_END_GROUP
<1>1. Reads({type}) /\ src \in Seq(Octet) /\ Len(src) \in Nat
  BY DEF Fixed, ReaderTypeOK
<1>2. PICK q \in 2 .. Len(src) + 1 :
          q = BodyAt(pos) /\ Data = q /\ Left = Len(src) + 1 - q /\ TypeAt(pos) = type /\ VarIntEnds(pos)
          /\ pos \in 1 .. Len(src)
  BY <1>1, TagIsRead
<1>3. ValueAt(pos) = q /\ NextAt(pos) = q + size
  <2>1. ValueAt(pos) = q
    BY <1>2 DEF ValueAt
  <2>2. type = 1 => NextAt(pos) = q + 8
    BY <1>2 DEF NextAt
  <2>3. type = 5 => NextAt(pos) = q + 4
    BY <1>2 DEF NextAt
  <2> QED BY <2>1, <2>2, <2>3
<1>4. /\ addField(q, IF size <= Len(src) + 1 - q THEN size ELSE 0)
      /\ pos' = (IF size <= Len(src) + 1 - q THEN q + size ELSE q)
      /\ str_error_' = (str_error_ \/ size > Len(src) + 1 - q)
      /\ loop' = loop
  BY <1>2 DEF Fixed
<1>5. IsCut(pos) <=> q + size > Len(src) + 1
  BY <1>2, <1>3, SMTT(30) DEF IsCut
<1>6. ASSUME IsCut(pos) PROVE str_error_'
  <2>1. size > Len(src) + 1 - q
    BY <1>1, <1>5, <1>6
  <2> QED BY <1>4, <2>1
<1>7. ASSUME ~IsCut(pos)
      PROVE  str_error_' = str_error_ /\ pos' = NextAt(pos)
             /\ addField(ValueAt(pos), NextAt(pos) - ValueAt(pos))
  <2>1. size <= Len(src) + 1 - q /\ ~(size > Len(src) + 1 - q) /\ q + size - q = size
    BY <1>1, <1>5, <1>7
  <2>2. str_error_' = str_error_
    BY <1>4, <2>1 DEF ReaderTypeOK
  <2> QED BY <1>3, <1>4, <2>1, <2>2
<1> QED BY <1>2, <1>4, <1>6, <1>7 DEF ReadsField

LEMMA DelimitedReads == ASSUME ReaderTypeOK, ~IsBeyond(pos), LengthDelimited PROVE ReadsField
<1> USE DEF WIRETYPE_VARINT, WIRETYPE_FIXED64, WIRETYPE_FIXED32, WIRETYPE_LENGTH_DELIMITED,
            WIRETYPE_START_GROUP, WIRETYPE_END_GROUP
<1>1. Reads({2}) /\ src \in Seq(Octet) /\ Len(src) \in Nat
  BY DEF LengthDelimited, ReaderTypeOK
<1>2. PICK q \in 2 .. Len(src) + 1 :
          q = BodyAt(pos) /\ Data = q /\ Left = Len(src) + 1 - q /\ TypeAt(pos) = 2 /\ VarIntEnds(pos)
          /\ pos \in 1 .. Len(src)
  BY <1>1, TagIsRead
<1>3. ValueAt(pos) = LastByte(q) + 1 /\ NextAt(pos) = LastByte(q) + 1 + VarIntFrom[q]
  BY <1>2 DEF ValueAt, NextAt
<1>4. ~Spins(q)
  BY <1>2 DEF LengthDelimited
<1>5. PICK n \in Nat : n = readVarInt(q)
  BY <1>1, <1>4, ReadVarIntOK
<1>6. PICK d \in q .. Len(src) + 1 : d = After(q)
  BY <1>1, <1>4, AfterOK
<1>7. /\ addField(d, n % Range32)
      /\ \/ d + n - (Len(src) + 1) <= 0 /\ pos' = d + n /\ UNCHANGED loop
         \/ /\ d + n - (Len(src) + 1) > 0 /\ (d + n - (Len(src) + 1)) % Range32 = 0
            /\ pos' = Len(src) + 1 /\ UNCHANGED loop
         \/ d + n - (Len(src) + 1) > 0 /\ pos' = d /\ loop' = "outside"
      /\ str_error_' = (str_error_ \/ Len(src) + 1 - q = 0)
  BY <1>2, <1>5, <1>6 DEF LengthDelimited
<1>8. q <= Len(src) => VarIntEnds(q) /\ LastByte(q) \in q .. Len(src) /\ d = LastByte(q) + 1
                       /\ n = VarIntFrom[q] /\ n < Range32
  <2>1. SUFFICES ASSUME q <= Len(src)
                 PROVE  VarIntEnds(q) /\ LastByte(q) \in q .. Len(src) /\ d = LastByte(q) + 1
                        /\ n = VarIntFrom[q] /\ n < Range32
    OBVIOUS
  <2>2. VarIntEnds(q) /\ LastByte(q) \in q .. Len(src) /\ d = LastByte(q) + 1
    BY <1>1, <1>4, <1>6, <2>1, LastByteOK DEF Spins, After
  <2>3. ~TooLarge(q)
    BY <1>2 DEF IsBeyond
  <2>4. q \in 1 .. Len(src)
    BY <1>1, <2>1
  <2> QED BY <1>1, <1>5, <2>2, <2>3, <2>4, SmallVarInt
<1>9. q <= Len(src) => d + n - (Len(src) + 1) < Range32
  BY <1>1, <1>8, RangeAssumption
<1>10. q <= Len(src) => ~(d + n - (Len(src) + 1) > 0 /\ (d + n - (Len(src) + 1)) % Range32 = 0)
  <2>0. d + n - (Len(src) + 1) \in Int
    BY <1>1, <1>4, <1>5, <1>6, AfterOK
  <2>1. PICK m \in Int : m = d + n - (Len(src) + 1)
    BY <2>0
  <2>2. m > 0 /\ m < Range32 => m % Range32 = m
    BY RangeAssumption
  <2> QED BY <1>9, <2>1, <2>2
<1>11. ASSUME IsCut(pos) PROVE loop' # "run" \/ str_error_'
  <2>1. CASE q <= Len(src)
    <3>0. NextAt(pos) > Len(src) + 1
      BY <1>2, <1>3, <1>8, <1>11, <2>1 DEF IsCut
    <3>1. d + n > Len(src) + 1
      BY <1>3, <1>8, <2>1, <3>0
    <3>2. ~(d + n - (Len(src) + 1) <= 0)
      BY <1>1, <3>1
    <3> QED BY <1>7, <1>10, <2>1, <3>2
  <2>2. CASE ~(q <= Len(src))
    <3>1. Len(src) + 1 - q = 0
      BY <1>1, <2>2
    <3> QED BY <1>7, <3>1
  <2> QED BY <2>1, <2>2
<1>12. ASSUME ~IsCut(pos)
      PROVE  loop' = loop /\ str_error_' = str_error_ /\ pos' = NextAt(pos)
             /\ addField(ValueAt(pos), NextAt(pos) - ValueAt(pos))
  <2>1. VarIntEnds(q) /\ ~(NextAt(pos) > Len(src) + 1)
    BY <1>2, <1>12 DEF IsCut
  <2>2. q <= Len(src)
    BY <1>1, <2>1, LastByteOK
  <2>3. ValueAt(pos) = d /\ NextAt(pos) = d + n /\ d + n <= Len(src) + 1 /\ (d + n) - d = n
    BY <1>1, <1>3, <1>5, <1>8, <2>1, <2>2, SMTT(30)
  <2>4. str_error_' = str_error_
    BY <1>1, <1>7, <2>2 DEF ReaderTypeOK
  <2>5. ~(d + n - (Len(src) + 1) > 0)
    BY <1>1, <2>3
  <2>6. n % Range32 = n
    BY <1>8, <2>2, RangeAssumption
  <2> QED BY <1>7, <2>3, <2>4, <2>5, <2>6
<1> QED BY <1>2, <1>11, <1>12 DEF ReadsField

LEMMA GroupReads == ASSUME ReaderTypeOK, ~IsBeyond(pos), Group PROVE ReadsField
<1> USE DEF WIRETYPE_VARINT, WIRETYPE_FIXED64, WIRETYPE_FIXED32, WIRETYPE_LENGTH_DELIMITED,
            WIRETYPE_START_GROUP, WIRETYPE_END_GROUP
<1>1. Reads({3, 4}) /\ src \in Seq(Octet) /\ Len(src) \in Nat
  BY DEF Group, ReaderTypeOK
<1>2. PICK q \in 2 .. Len(src) + 1 :
          q = BodyAt(pos) /\ Data = q /\ TypeAt(pos) \in {3, 4} /\ VarIntEnds(pos)
          /\ pos \in 1 .. Len(src)
  BY <1>1, TagIsRead
<1>3. NextAt(pos) = q
  BY <1>2 DEF NextAt
<1>4. ~IsCut(pos)
  BY <1>1, <1>2, <1>3 DEF IsCut
<1>5. pos' = q /\ loop' = loop /\ str_error_' = str_error_ /\ UNCHANGED <<counted, filled>>
  BY <1>2 DEF Group
<1> QED BY <1>2, <1>3, <1>4, <1>5 DEF ReadsField

LEMMA CutReads == ASSUME ReaderTypeOK, ~IsBeyond(pos), CutVarInt PROVE ReadsField
<1>1. pos \in 1 .. Len(src) /\ loop' = "spin" /\ src \in Seq(Octet)
  BY DEF ReaderTypeOK, CutVarInt
<1>2. IsCut(pos)
  <2>1. CASE ~VarIntEnds(pos)
    BY <2>1 DEF IsCut
  <2>2. CASE VarIntEnds(pos)
    <3>1. WireTypeAt(pos) = TypeAt(pos)
      BY <1>1, <2>2, TagIs DEF IsBeyond
    <3> QED BY <2>2, <3>1 DEF CutVarInt, Reads, IsCut, Spins, Data, BodyAt
  <2> QED BY <2>1, <2>2
<1> QED BY <1>1, <1>2 DEF ReadsField

LEMMA FieldReads == ASSUME ReaderTypeOK, ~IsBeyond(pos), ReadField PROVE ReadsField
<1>1. CASE VarInt
  BY <1>1, VarIntReads
<1>2. CASE Fixed(WIRETYPE_FIXED64, 8)
  BY <1>2, FixedReads DEF WIRETYPE_FIXED64
<1>3. CASE Fixed(WIRETYPE_FIXED32, 4)
  BY <1>3, FixedReads DEF WIRETYPE_FIXED32
<1>4. CASE LengthDelimited
  BY <1>4, DelimitedReads
<1>5. CASE Group
  BY <1>5, GroupReads
<1>6. CASE CutVarInt
  BY <1>6, CutReads
<1> QED BY <1>1, <1>2, <1>3, <1>4, <1>5, <1>6 DEF ReadField

-----------------------------------------------------------------------------
\* Where no tag and no length is too large: what str_error_ and the position say of
\* the message on the way.  Nothing is cut, or nothing from here on; or an error is
\* remembered.
NoCut(p) == NoMark(p, Missing)
NoBeyond(p) == NoMark(p, Beyond)

WholeSoFar ==
    /\ pass # 3 /\ loop = "run" /\ ~str_error_ /\ NoBeyond(1) => NoBeyond(pos) /\ (NoCut(1) <=> NoCut(pos))
    /\ loop = "run" /\ str_error_ /\ NoBeyond(1) => ~NoCut(1)
    /\ pass = 3 => loop = "run"
    /\ pass = 3 /\ NoBeyond(1) => (ok <=> NoCut(1))

LEMMA UnknownIsCut ==
    ASSUME src \in Seq(Octet), pos \in 1 .. Len(src), ~IsBeyond(pos), Unknown PROVE IsCut(pos)
<1>1. VarIntEnds(pos) /\ ~TooLarge(pos) /\ WireTypeAt(pos) \in {6, 7}
  BY DEF Unknown, Reads, IsBeyond
<1> QED BY <1>1, TagIs DEF IsCut

LEMMA StepWhole ==
    ASSUME ReaderTypeOK, ReaderTypeOK', WholeSoFar, [ReaderNext]_readerVars PROVE WholeSoFar'
<1>1. /\ src \in Seq(Octet) /\ pos \in 1 .. Len(src) + 1 /\ str_error_ \in BOOLEAN /\ Len(src) \in Nat
      /\ Missing \in Marks /\ Beyond \in Marks
  BY DEF ReaderTypeOK, Marks
<1>2. FieldsFrom' = FieldsFrom
  <2>1. src' = src
    BY DEF ReaderNext, ReadField, Resize, ParseReturns, readerVars
  <2> QED BY <2>1, SameFields
<1>3. /\ NoCut(1)' = NoCut(1) /\ NoBeyond(1)' = NoBeyond(1)
      /\ (NoCut(pos)' <=> \A i \in DOMAIN FieldsFrom[pos'] : FieldsFrom[pos'][i] # Missing)
      /\ (NoBeyond(pos)' <=> \A i \in DOMAIN FieldsFrom[pos'] : FieldsFrom[pos'][i] # Beyond)
  BY <1>2 DEF NoCut, NoBeyond, NoMark, Missing, Beyond
<1>4. SUFFICES ASSUME NoBeyond(1) \/ ReadField \/ pass' = 3 PROVE WholeSoFar'
  BY <1>3 DEF WholeSoFar, ReaderNext, Resize, ParseReturns, readerVars
<1>5. CASE ReadField
  <2>0. str_error_ => str_error_'
    BY <1>5 DEF ReadField, VarInt, Fixed, LengthDelimited, Group, CutVarInt
  <2>1. UNCHANGED <<pass, ok>> /\ pass \in {1, 2} /\ loop = "run" /\ (str_error_ => str_error_')
    BY <1>5, <2>0 DEF ReadField, VarInt, Fixed, LengthDelimited, Group, CutVarInt, Reads
  <2>2. CASE ~NoBeyond(1)
    BY <1>3, <2>1, <2>2 DEF WholeSoFar
  <2>3. CASE NoBeyond(1) /\ str_error_
    <3>1. ~NoCut(1)
      BY <2>1, <2>3 DEF WholeSoFar
    <3> QED BY <1>3, <2>1, <2>3, <3>1 DEF WholeSoFar
  <2>4. CASE NoBeyond(1) /\ ~str_error_
    <3>1. NoBeyond(pos) /\ (NoCut(1) <=> NoCut(pos))
      BY <2>1, <2>4 DEF WholeSoFar
    <3>2. ~IsBeyond(pos)
      <4>1. pos <= Len(src)
        BY <1>1, <1>5, <2>1, FieldTurn DEF Turn
      <4> QED BY <1>1, <3>1, <4>1, NoMarkOK DEF NoBeyond
    <3>3. ReadsField
      BY <1>5, <3>2, FieldReads
    <3>4. CASE IsCut(pos)
      <4>1. ~NoCut(pos)
        BY <1>1, <3>2, <3>3, <3>4, NoMarkOK DEF ReadsField, NoCut
      <4>2. loop' # "run" \/ str_error_'
        BY <3>3, <3>4 DEF ReadsField
      <4> QED BY <1>3, <2>1, <3>1, <4>1, <4>2 DEF WholeSoFar
    <3>5. CASE ~IsCut(pos)
      <4>1. loop' = loop /\ str_error_' = str_error_ /\ pos' = NextAt(pos) /\ ~Ends(pos)
        BY <1>1, <3>2, <3>3, <3>5 DEF ReadsField, Ends
      <4>2. (NoCut(pos) <=> NoCut(NextAt(pos))) /\ (NoBeyond(pos) <=> NoBeyond(NextAt(pos)))
        BY <1>1, <4>1, NoMarkOK DEF NoCut, NoBeyond
      <4>3. (NoCut(NextAt(pos)) <=> NoCut(pos)') /\ (NoBeyond(NextAt(pos)) <=> NoBeyond(pos)')
        BY <1>3, <4>1 DEF NoCut, NoBeyond, NoMark
      <4> QED BY <1>3, <2>1, <2>4, <3>1, <4>1, <4>2, <4>3 DEF WholeSoFar
    <3> QED BY <3>4, <3>5
  <2> QED BY <2>2, <2>3, <2>4
<1>6. ASSUME Halted, pass # 3, NoBeyond(1) PROVE (pos > Len(src) /\ ~str_error_) <=> NoCut(1)
  <2>1. loop = "run"
    BY <1>6 DEF Halted
  <2>2. CASE str_error_
    BY <1>6, <2>1, <2>2 DEF WholeSoFar
  <2>3. CASE ~str_error_ /\ pos > Len(src)
    BY <1>1, <1>6, <2>1, <2>3, NoMarkOK DEF WholeSoFar, NoCut
  <2>4. CASE ~str_error_ /\ ~(pos > Len(src))
    <3>1. NoBeyond(pos) /\ (NoCut(1) <=> NoCut(pos))
      BY <1>6, <2>1, <2>4 DEF WholeSoFar
    <3>2. ~IsBeyond(pos)
      BY <1>1, <2>4, <3>1, NoMarkOK DEF NoBeyond
    <3>3. IsCut(pos)
      <4>1. pos \in 1 .. Len(src) /\ Unknown
        BY <1>1, <1>6, <2>4 DEF Halted
      <4> QED BY <1>1, <3>2, <4>1, UnknownIsCut
    <3>4. ~NoCut(pos)
      BY <1>1, <2>4, <3>2, <3>3, NoMarkOK DEF NoCut
    <3> QED BY <2>4, <3>1, <3>4
  <2> QED BY <2>2, <2>3, <2>4
<1>7. CASE Resize
  <2>1. Halted /\ pass = 1 /\ pass' = 2 /\ pos' = 1 /\ loop' = loop /\ loop = "run"
        /\ str_error_' = (str_error_ \/ pos <= Len(src))
    BY <1>7 DEF Resize, Halted
  <2>2. (NoCut(pos)' <=> NoCut(1)) /\ (NoBeyond(pos)' <=> NoBeyond(1))
    BY <1>3, <2>1 DEF NoCut, NoBeyond, NoMark
  <2>3. NoBeyond(1) /\ str_error_' => ~NoCut(1)
    BY <1>1, <1>6, <2>1
  <2> QED BY <1>3, <2>1, <2>2, <2>3 DEF WholeSoFar
<1>8. CASE ParseReturns
  <2>1. Halted /\ pass = 2 /\ pass' = 3 /\ loop' = loop /\ loop = "run"
        /\ str_error_' = str_error_
    BY <1>8 DEF ParseReturns, Halted
  <2>2. NoBeyond(1) => (ok' <=> NoCut(1))
    <3>1. ok' <=> pos > Len(src) /\ ~str_error_
      BY <1>8 DEF ParseReturns
    <3> QED BY <1>6, <2>1, <3>1
  <2>3. str_error_' /\ NoBeyond(1) => ~NoCut(1)
    BY <2>1 DEF WholeSoFar
  <2> QED BY <1>3, <2>1, <2>2, <2>3 DEF WholeSoFar
<1>9. CASE UNCHANGED readerVars
  <2>1. UNCHANGED <<pass, loop, str_error_, ok, pos>>
    BY <1>9 DEF readerVars
  <2>2. (NoCut(pos)' <=> NoCut(pos)) /\ (NoBeyond(pos)' <=> NoBeyond(pos))
    BY <1>3, <2>1 DEF NoCut, NoBeyond, NoMark
  <2> QED BY <1>3, <2>1, <2>2 DEF WholeSoFar
<1> QED BY <1>5, <1>7, <1>8, <1>9 DEF ReaderNext

\* parse answers true for the messages in which nothing is cut, and for these only,
\* among all whose tags and lengths are numbers of 32 bits.
THEOREM WholeAccepted == ReaderSpec => []AcceptsWhole
<1>1. ReaderInit => WholeSoFar
  BY DEF ReaderInit, WholeSoFar, NoCut, NoBeyond
<1>2. ReaderTypeOK /\ WholeSoFar => AcceptsWhole
  BY DEF WholeSoFar, AcceptsWhole, NoCut, NoBeyond, NoMark, IsWhole, InWidth, Has, MessageFields
<1>3. ReaderSpec => []ReaderTypeOK
  BY TypeCorrect
<1>4. ReaderTypeOK /\ ReaderTypeOK' /\ WholeSoFar /\ [ReaderNext]_readerVars => WholeSoFar'
  BY StepWhole
<1> QED BY <1>1, <1>2, <1>3, <1>4, PTL DEF ReaderSpec

-----------------------------------------------------------------------------
(***************************************************************************)
(* What filling keeps.                                                     *)
(***************************************************************************)
\* The mask of readWireTypeAndFieldNumber takes the number modulo 8192.
LEMMA KeptOK ==
    ASSUME NEW tag \in Nat
    PROVE  (tag % 65536) \div 8 = (tag \div 8) % 8192
<1>1. PICK q \in Nat, r \in Nat : tag = 65536 * q + r /\ r < 65536
  <2>1. tag = 65536 * (tag \div 65536) + (tag % 65536)
    OBVIOUS
  <2>2. tag \div 65536 \in Nat /\ tag % 65536 \in Nat /\ tag % 65536 < 65536
    OBVIOUS
  <2> QED BY <2>1, <2>2
<1>2. PICK s \in Nat, u \in Nat : r = 8 * s + u /\ s < 8192 /\ u < 8
  <2>1. r = 8 * (r \div 8) + (r % 8)
    OBVIOUS
  <2>2. r \div 8 \in Nat /\ r % 8 \in Nat /\ r % 8 < 8
    OBVIOUS
  <2>3. r \div 8 < 8192
    BY <1>1
  <2> QED BY <2>1, <2>2, <2>3
<1>3. tag % 65536 = r
  BY <1>1
<1>4. r \div 8 = s
  BY <1>2
<1>5. tag \div 8 = 8192 * q + s
  BY <1>1, <1>2
<1>6. (8192 * q + s) % 8192 = s
  BY <1>2
<1> QED BY <1>3, <1>4, <1>5, <1>6

\* Filling a node leaves what the others say of their fields, and the entries of
\* numbers_ that are not reached.
Same(m, n) == /\ m.number = n.number /\ m.type = n.type
              /\ m.value = n.value /\ m.value_size = n.value_size

LEMMA FillKeeps ==
    ASSUME ReaderTypeOK, NEW f, Fill(f)
    PROVE  /\ cur_ndex_' = cur_ndex_ + 1 /\ nodes_'[cur_ndex_ + 1] = f
           /\ \A i \in 1 .. cur_ndex_ : Same(nodes_'[i], nodes_[i])
           /\ \A k \in 1 .. Len(numbers_) : k > numbers_ndex_' => k > numbers_ndex_ /\ numbers_'[k] = numbers_[k]
<1>0. PICK c \in Nat : c = cur_ndex_
  BY DEF ReaderTypeOK
<1>1. /\ nodes_ \in Seq(Node) /\ numbers_ \in Seq(Nat) /\ last_node_ = c
      /\ c + 1 \in 1 .. Len(nodes_) /\ Len(nodes_) \in Nat
      /\ numbers_ndex_ \in 0 .. Len(numbers_) /\ Len(numbers_) \in Nat /\ cur_ndex_' = c + 1
  BY <1>0 DEF ReaderTypeOK, Fill
<1>2. CASE Opens(f.number)
  <2>1. /\ nodes_' = [nodes_ EXCEPT ![c + 1] = f]
        /\ numbers_' = [numbers_ EXCEPT ![numbers_ndex_ + 1] = c + 1]
        /\ numbers_ndex_' = numbers_ndex_ + 1
    BY <1>0, <1>2 DEF Fill, Opens
  <2>2. nodes_'[c + 1] = f /\ \A i \in 1 .. c : nodes_'[i] = nodes_[i]
    BY <1>1, <2>1
  <2>3. \A k \in 1 .. Len(numbers_) : k > numbers_ndex_' => k > numbers_ndex_ /\ numbers_'[k] = numbers_[k]
    BY <1>1, <2>1
  <2> QED BY <1>0, <1>1, <2>2, <2>3 DEF Same
<1>3. CASE ~Opens(f.number)
  <2>1. /\ c # 0 /\ nodes_' = [Linked EXCEPT ![c + 1] = f]
        /\ numbers_' = numbers_ /\ numbers_ndex_' = numbers_ndex_
    BY <1>0, <1>1, <1>3 DEF Fill, Opens, NULL
  <2>2. PICK linked : linked = [nodes_[c] EXCEPT !.next = c + 1]
    OBVIOUS
  <2>3. Same(linked, nodes_[c])
    <3>1. nodes_[c] \in Node
      BY <1>1, <2>1
    <3> QED BY <2>2, <3>1 DEF Node, Same
  <2>4. Linked = [nodes_ EXCEPT ![c] = linked]
    BY <1>0, <1>1, <2>2 DEF Linked
  <2>5. nodes_'[c + 1] = f /\ nodes_'[c] = linked /\ \A i \in 1 .. c - 1 : nodes_'[i] = nodes_[i]
    BY <1>1, <2>1, <2>4
  <2>6. \A i \in 1 .. c : Same(nodes_'[i], nodes_[i])
    <3> TAKE i \in 1 .. c
    <3>1. CASE i = c
      BY <2>3, <2>5, <3>1
    <3>2. CASE i # c
      <4>1. i \in 1 .. c - 1
        BY <1>0, <3>2
      <4> QED BY <2>5, <4>1 DEF Same
    <3> QED BY <3>1, <3>2
  <2> QED BY <1>0, <1>1, <2>1, <2>5, <2>6
<1> QED BY <1>2, <1>3

-----------------------------------------------------------------------------
(***************************************************************************)
(* In the second pass the nodes handed out are the first fields of the     *)
(* message, and the rest begins at the position.                           *)
(***************************************************************************)
Splits == /\ Len(MessageFields) = cur_ndex_ + Len(FieldsFrom[pos])
          /\ \A j \in 1 .. Len(FieldsFrom[pos]) : MessageFields[cur_ndex_ + j] = FieldsFrom[pos][j]
Spelled == \A i \in 1 .. cur_ndex_ : Spells(nodes_[i], MessageFields[i])
Unfilled == \A k \in 1 .. Len(numbers_) : k > numbers_ndex_ => numbers_[k] = NULL

FoundSoFar ==
    /\ pass # 1 /\ loop = "run" /\ ~str_error_ /\ NoBeyond(1) => Splits /\ Spelled
    /\ pass = 3 /\ ok => loop = "run" /\ ~str_error_ /\ pos > Len(src)
    /\ Unfilled

LEMMA NodeFound ==
    ASSUME ReaderTypeOK, Splits, Spelled, Unfilled, pass = 2, pos \in 1 .. Len(src), ~IsCut(pos), ~IsBeyond(pos),
           TypeAt(pos) \notin {3, 4}, addField(ValueAt(pos), NextAt(pos) - ValueAt(pos)),
           pos' = NextAt(pos), FieldsFrom' = FieldsFrom
    PROVE  Splits' /\ Spelled'
<1>1. PICK c \in Nat : c = cur_ndex_
  BY DEF ReaderTypeOK
<1>2. src \in Seq(Octet) /\ VarIntEnds(pos)
  BY DEF ReaderTypeOK, IsCut
<1>3. PICK g \in Seq(Own) : g = FieldsFrom[NextAt(pos)]
  BY <1>2, RestStep
<1>4. PICK h \in Seq(Own) : h = FieldsFrom[pos]
  BY <1>2, RestStep
<1>5. Len(h) = Len(g) + 1 /\ h[1] = FieldAt(pos)[1] /\ \A j \in 1 .. Len(g) : h[j + 1] = g[j]
  BY <1>2, <1>3, <1>4, RestStep
<1>6. PICK fs : fs = MessageFields
  OBVIOUS
<1>7. Len(fs) = c + Len(h) /\ \A j \in 1 .. Len(h) : fs[c + j] = h[j]
  BY <1>1, <1>4, <1>6 DEF Splits
<1> DEFINE f == [number |-> FieldNumberAt(pos), type |-> WireTypeAt(pos), value |-> ValueAt(pos),
                 value_size |-> NextAt(pos) - ValueAt(pos), next |-> NULL]
<1>8. Fill(f)
  BY DEF addField
<1>9. cur_ndex_' = c + 1 /\ nodes_'[c + 1] = f /\ \A i \in 1 .. c : Same(nodes_'[i], nodes_[i])
  <2> HIDE DEF f
  <2> QED BY <1>1, <1>8, FillKeeps
<1>10. MessageFields' = fs /\ (FieldsFrom[pos])' = g
  BY <1>3, <1>6 DEF MessageFields
<1>11. Len(g) \in Nat /\ Len(h) \in Nat
  OBVIOUS
<1>12. Len(fs) = (c + 1) + Len(g)
  BY <1>5, <1>7, <1>11
<1>13. \A j \in 1 .. Len(g) : fs[(c + 1) + j] = g[j]
  <2> TAKE j \in 1 .. Len(g)
  <2>1. j + 1 \in 1 .. Len(h) /\ c + (j + 1) = (c + 1) + j
    BY <1>5, <1>11
  <2>2. fs[c + (j + 1)] = h[j + 1]
    BY <1>7, <2>1
  <2> QED BY <1>5, <2>1, <2>2
<1>14. Splits'
  BY <1>9, <1>10, <1>12, <1>13 DEF Splits
<1>15. fs[c + 1] = FieldAt(pos)[1]
  <2>1. 1 \in 1 .. Len(h)
    BY <1>5, <1>11
  <2> QED BY <1>5, <1>7, <2>1
<1>16. Spells(f, fs[c + 1])
  <2>1. PICK tag \in Nat : tag = VarIntFrom[pos]
    BY <1>2, FieldAtOK
  <2>2. fs[c + 1] = [number |-> tag \div 8, type |-> TypeAt(pos),
                     value |-> ValueAt(pos), value_size |-> NextAt(pos) - ValueAt(pos)]
    BY <1>2, <1>15, <2>1, FieldAtOK
  <2>3. FieldNumberAt(pos) = (tag % 65536) \div 8 /\ WireTypeAt(pos) = TypeAt(pos)
    BY <1>2, <2>1, TagIs DEF IsBeyond
  <2>4. (tag % 65536) \div 8 = (tag \div 8) % 8192
    BY KeptOK
  <2> QED BY <2>2, <2>3, <2>4 DEF Spells, Kept
<1>17. \A i \in 1 .. c : Spells(nodes_'[i], fs[i])
  BY <1>1, <1>6, <1>9 DEF Spelled, Spells, Same
<1>18. \A i \in 1 .. c + 1 : Spells(nodes_'[i], fs[i])
  <2> TAKE i \in 1 .. c + 1
  <2>1. CASE i = c + 1
    <3> HIDE DEF f
    <3> QED BY <1>9, <1>16, <2>1
  <2>2. CASE i # c + 1
    <3>1. i \in 1 .. c
      BY <2>2
    <3> QED BY <1>17, <3>1
  <2> QED BY <2>1, <2>2
<1>19. Spelled' <=> \A i \in 1 .. cur_ndex_' : Spells(nodes_'[i], MessageFields'[i])
  BY DEF Spelled, Spells, Kept
<1>20. Spelled'
  BY <1>9, <1>10, <1>18, <1>19
<1> QED BY <1>14, <1>20

LEMMA StepFound ==
    ASSUME ReaderTypeOK, ReaderTypeOK', WholeSoFar, FoundSoFar, [ReaderNext]_readerVars PROVE FoundSoFar'
<1>1. src \in Seq(Octet) /\ Len(src) \in Nat /\ str_error_ \in BOOLEAN
  BY DEF ReaderTypeOK
<1>2. FieldsFrom' = FieldsFrom /\ src' = src
  <2>1. src' = src
    BY DEF ReaderNext, ReadField, Resize, ParseReturns, readerVars
  <2> QED BY <2>1, SameFields
<1>0. NoBeyond(1)' = NoBeyond(1)
  BY <1>2 DEF NoBeyond, NoMark, Beyond
<1>3. ASSUME UNCHANGED <<nodes_, cur_ndex_, pos>>, Splits, Spelled PROVE Splits' /\ Spelled'
  <2>1. MessageFields' = MessageFields /\ (FieldsFrom[pos])' = FieldsFrom[pos]
    BY <1>2, <1>3 DEF MessageFields
  <2>2. Spelled' <=> \A i \in 1 .. cur_ndex_' : Spells(nodes_'[i], MessageFields'[i])
    BY DEF Spelled, Spells, Kept
  <2> QED BY <1>3, <2>1, <2>2 DEF Splits, Spelled
<1>4. CASE ReadField
  <2>1. ASSUME NoBeyond(1), ~str_error_ PROVE ReadsField /\ ~IsBeyond(pos)
    <3>1. pass # 3 /\ loop = "run" /\ pos \in 1 .. Len(src) + 1 /\ pos <= Len(src) /\ Beyond \in Marks
      BY <1>4, FieldTurn DEF Turn, ReaderTypeOK, Marks
    <3>2. NoBeyond(pos)
      BY <2>1, <3>1 DEF WholeSoFar
    <3>3. ~IsBeyond(pos)
      BY <1>1, <3>1, <3>2, NoMarkOK DEF NoBeyond
    <3> QED BY <1>4, <3>3, FieldReads
  <2>2. UNCHANGED <<pass, ok>> /\ pass \in {1, 2} /\ loop = "run"
    BY <1>4 DEF ReadField, VarInt, Fixed, LengthDelimited, Group, CutVarInt, Reads
  <2>3. str_error_ => str_error_'
    BY <1>4 DEF ReadField, VarInt, Fixed, LengthDelimited, Group, CutVarInt
  <2>4. Turn
    BY <1>4, FieldTurn
  <2>5. Unfilled'
    <3>1. CASE UNCHANGED filled
      BY <3>1 DEF FoundSoFar, Unfilled, filled, NULL
    <3>2. CASE AddsAt(pos) /\ pass = 1
      <4>1. PICK v, s \in Nat : addField(v, s)
        BY <2>4, <3>2 DEF Turn
      <4> QED BY <3>1, <3>2, <4>1 DEF addField
    <3>3. CASE AddsAt(pos) /\ pass = 2
      <4>1. PICK v, s \in Nat : addField(v, s)
        BY <2>4, <3>3 DEF Turn
      <4>2. PICK f : Fill(f)
        BY <3>3, <4>1 DEF addField
      <4>3. \A k \in 1 .. Len(numbers_) : k > numbers_ndex_' => k > numbers_ndex_ /\ numbers_'[k] = numbers_[k]
        BY <4>2, FillKeeps
      <4>4. Len(numbers_') = Len(numbers_)
        BY <2>2, <3>3, <4>1 DEF ReaderTypeOK, addField, counted
      <4> QED BY <4>3, <4>4 DEF FoundSoFar, Unfilled, NULL
    <3> QED BY <2>2, <2>4, <3>1, <3>2, <3>3 DEF Turn
  <2>6. ASSUME pass = 2, loop' = "run", ~str_error_', NoBeyond(1) PROVE Splits' /\ Spelled'
    <3>0. ReadsField /\ ~IsBeyond(pos)
      BY <2>1, <2>3, <2>6
    <3>1. Splits /\ Spelled /\ Unfilled
      BY <2>2, <2>3, <2>6 DEF FoundSoFar
    <3>2. pos \in 1 .. Len(src) /\ ~IsCut(pos) /\ pos' = NextAt(pos)
      BY <2>6, <3>0 DEF ReadsField
    <3>3. CASE TypeAt(pos) \in {3, 4}
      <4>1. UNCHANGED <<nodes_, cur_ndex_>>
        BY <3>0, <3>2, <3>3 DEF ReadsField, filled
      <4>2. FieldsFrom[pos] = FieldsFrom[NextAt(pos)]
        BY <1>1, <3>0, <3>2, <3>3, RestStep
      <4>3. MessageFields' = MessageFields /\ (FieldsFrom[pos])' = FieldsFrom[pos]
        BY <1>2, <3>2, <4>2 DEF MessageFields
      <4>4. Spelled' <=> \A i \in 1 .. cur_ndex_' : Spells(nodes_'[i], MessageFields'[i])
        BY DEF Spelled, Spells, Kept
      <4> QED BY <3>1, <4>1, <4>3, <4>4 DEF Splits, Spelled
    <3>4. CASE TypeAt(pos) \notin {3, 4}
      <4>1. addField(ValueAt(pos), NextAt(pos) - ValueAt(pos))
        BY <3>0, <3>2, <3>4 DEF ReadsField
      <4> QED BY <1>2, <2>6, <3>0, <3>1, <3>2, <3>4, <4>1, NodeFound
    <3> QED BY <3>3, <3>4
  <2> QED BY <1>0, <2>2, <2>5, <2>6 DEF FoundSoFar
<1>5. CASE Resize
  <2>1. pass = 1 /\ pass' = 2 /\ pos' = 1 /\ cur_ndex_ = 0 /\ numbers_ndex_ = 0
        /\ UNCHANGED <<cur_ndex_, numbers_ndex_>> /\ numbers_' = [i \in 1 .. numbers_capacity_ |-> NULL]
    BY <1>5 DEF Resize, ReaderTypeOK
  <2>2. MessageFields' = FieldsFrom[1] /\ (FieldsFrom[pos])' = FieldsFrom[1] /\ cur_ndex_' = 0
    BY <1>2, <2>1 DEF MessageFields
  <2>3. FieldsFrom[1] \in Seq(Own)
    BY <1>1, FieldsOK
  <2>4. Len(FieldsFrom[1]) = 0 + Len(FieldsFrom[1])
        /\ \A j \in 1 .. Len(FieldsFrom[1]) : FieldsFrom[1][0 + j] = FieldsFrom[1][j]
    BY <2>3
  <2>5. Splits'
    BY <2>2, <2>4 DEF Splits
  <2>6. Spelled'
    BY <2>2 DEF Spelled
  <2>7. Unfilled'
    <3>1. Len(numbers_') = numbers_capacity_ /\ numbers_capacity_ \in Nat
      BY <2>1 DEF ReaderTypeOK
    <3> QED BY <2>1, <3>1 DEF Unfilled, NULL
  <2> QED BY <2>1, <2>5, <2>6, <2>7 DEF FoundSoFar
<1>6. CASE ParseReturns
  <2>1. pass = 2 /\ pass' = 3 /\ Halted /\ UNCHANGED <<loop, pos, str_error_, filled>>
    BY <1>6 DEF ParseReturns
  <2>2. ok' => pos > Len(src) /\ ~str_error_
    BY <1>6 DEF ParseReturns
  <2>3. UNCHANGED <<nodes_, cur_ndex_, pos, numbers_, numbers_ndex_>> /\ loop = "run"
    BY <2>1 DEF filled, Halted
  <2>4. ok' => loop' = "run" /\ ~str_error_' /\ pos' > Len(src')
    BY <1>2, <2>1, <2>2, <2>3
  <2>5. Unfilled'
    BY <2>3 DEF FoundSoFar, Unfilled, NULL
  <2> QED BY <1>0, <1>3, <2>1, <2>3, <2>4, <2>5 DEF FoundSoFar
<1>7. CASE UNCHANGED readerVars
  <2>1. UNCHANGED <<src, pass, loop, pos, str_error_, ok, nodes_, cur_ndex_, numbers_, numbers_ndex_>>
    BY <1>7 DEF readerVars, filled
  <2>2. Unfilled'
    BY <2>1, SMTT(30) DEF FoundSoFar, Unfilled, NULL
  <2> QED BY <1>0, <1>3, <2>1, <2>2 DEF FoundSoFar
<1> QED BY <1>4, <1>5, <1>6, <1>7 DEF ReaderNext

-----------------------------------------------------------------------------
(***************************************************************************)
(* Asking for the fields of a number.                                      *)
(***************************************************************************)
\* The links lead from a node to the next or nowhere.
Walks == /\ cur_ndex_ \in Nat
         /\ \A i \in 1 .. cur_ndex_ : nodes_[i].next # NULL =>
                                          nodes_[i].next = i + 1 /\ i + 1 \in 1 .. cur_ndex_

LEMMA ChainUnfold ==
    ASSUME Walks, NEW i \in 1 .. cur_ndex_
    PROVE  Chain[i] = <<i>> \o (IF nodes_[i].next = NULL THEN <<>> ELSE Chain[nodes_[i].next])
<1>1. PICK n \in Nat : n = cur_ndex_
  BY DEF Walks
<1> DEFINE E == [j \in 1 .. n |-> [x \in Seq(Nat) |-> <<j>> \o x]]
           B == [j \in 1 .. n |-> nodes_[j].next]
           C(g) == [j \in 1 .. n |-> <<j>> \o (IF nodes_[j].next = NULL THEN <<>> ELSE g[nodes_[j].next])]
<1>2. E \in [1 .. n -> [Seq(Nat) -> Seq(Nat)]]
  <2>1. \A j \in 1 .. n : \A x \in Seq(Nat) : <<j>> \o x \in Seq(Nat)
    OBVIOUS
  <2> QED BY <2>1
<1>3. \A j \in 1 .. n : nodes_[j].next \in Nat /\ (nodes_[j].next = 0 \/ nodes_[j].next \in j + 1 .. n)
  BY <1>1 DEF Walks, NULL
<1>4. B \in [1 .. n -> Nat] /\ GoesOn(n, B)
  BY <1>3 DEF GoesOn
<1>5. PICK f \in [1 .. n -> Seq(Nat)] : Unrolls(f, 1, n, <<>>, E, B)
  <2>1. <<>> \in Seq(Nat)
    OBVIOUS
  <2> HIDE DEF E, B
  <2> QED BY <1>2, <1>4, <2>1, Unroll
<1>6. ASSUME NEW j \in 1 .. n
      PROVE  f[j] = <<j>> \o (IF nodes_[j].next = NULL THEN <<>> ELSE f[nodes_[j].next])
  <2>1. f[j] = E[j][IF B[j] = 0 THEN <<>> ELSE f[B[j]]]
    <3> HIDE DEF E, B
    <3> QED BY <1>5 DEF Unrolls
  <2>2. B[j] = nodes_[j].next /\ \A x \in Seq(Nat) : E[j][x] = <<j>> \o x
    OBVIOUS
  <2>3. (IF B[j] = 0 THEN <<>> ELSE f[B[j]]) \in Seq(Nat)
    <3>1. <<>> \in Seq(Nat) /\ (B[j] = 0 \/ B[j] \in 1 .. n)
      BY <1>3
    <3> HIDE DEF B
    <3> QED BY <3>1
  <2> HIDE DEF E, B
  <2> QED BY <2>1, <2>2, <2>3 DEF NULL
<1>7. f = C(f)
  <2>1. f = [j \in 1 .. n |-> f[j]]
    BY <1>5
  <2> QED BY <1>6, <2>1
<1>8. Chain = CHOOSE g : g = C(g)
  BY <1>1 DEF Chain
<1>9. Chain = C(Chain)
  <2> HIDE DEF C
  <2> QED BY <1>7, <1>8
<1> QED BY <1>1, <1>9

\* Where node i to node b - 1 have a next one and b has none, the chain of i is i .. b.
Counts(c, i, b) == /\ c \in Seq(Nat) /\ Len(c) = b - i + 1
                   /\ \A j \in 1 .. b - i + 1 : c[j] = i + j - 1

LEMMA ChainCounts ==
    ASSUME Walks, NEW a \in 1 .. cur_ndex_, NEW b \in a .. cur_ndex_,
           \A i \in a .. b - 1 : nodes_[i].next # NULL, nodes_[b].next = NULL
    PROVE  Counts(Chain[a], a, b)
<1>1. a \in Nat /\ b \in Nat /\ a >= 1 /\ a <= b /\ cur_ndex_ \in Nat /\ b <= cur_ndex_
  BY DEF Walks
<1> DEFINE S == {k \in 0 .. b - a : ~Counts(Chain[b - k], b - k, b)}
<1>2. S = {}
  <2>1. SUFFICES ASSUME S # {} PROVE FALSE
    OBVIOUS
  <2>2. S \in SUBSET Nat
    BY <1>1
  <2>3. PICK m \in S : \A k \in S : m <= k
    <3> HIDE DEF S
    <3> QED BY <2>1, <2>2, Least
  <2>4. PICK i \in a .. b : i = b - m /\ ~Counts(Chain[i], i, b)
    BY <1>1
  <2>5. i \in 1 .. cur_ndex_ /\ i \in Nat
    BY <1>1
  <2>6. CASE i = b
    <3>1. Chain[i] = <<i>> \o <<>>
      BY <2>5, <2>6, ChainUnfold
    <3>2. <<i>> \o <<>> = <<i>>
      BY <2>5
    <3>3. Counts(<<i>>, i, b)
      <4>1. b - i + 1 = 1 /\ <<i>> \in Seq(Nat) /\ Len(<<i>>) = 1
        BY <1>1, <2>5, <2>6
      <4>2. \A j \in 1 .. 1 : <<i>>[j] = i + j - 1
        BY <2>5
      <4> QED BY <4>1, <4>2 DEF Counts
    <3> QED BY <2>4, <3>1, <3>2, <3>3
  <2>7. CASE i # b
    <3>1. i \in a .. b - 1 /\ m - 1 \in 0 .. b - a /\ m - 1 < m /\ b - (m - 1) = i + 1
      BY <1>1, <2>4, <2>7
    <3>2. PICK l \in 0 .. b - a : l = m - 1 /\ l < m /\ b - l = i + 1
      BY <3>1
    <3>3. l \notin S
      <4> HIDE DEF S
      <4> QED BY <1>1, <2>2, <2>3, <3>2
    <3>4. Counts(Chain[i + 1], i + 1, b)
      BY <3>2, <3>3
    <3>5. nodes_[i].next # NULL /\ nodes_[i].next = i + 1
      BY <2>5, <3>1 DEF Walks
    <3>6. PICK c \in Seq(Nat) : c = Chain[i + 1] /\ Len(c) = b - i /\ \A j \in 1 .. b - i : c[j] = i + j
      <4>1. b - (i + 1) + 1 = b - i /\ \A j \in 1 .. b - i : (i + 1) + j - 1 = i + j
        BY <1>1, <2>5
      <4> QED BY <3>4, <4>1 DEF Counts
    <3>7. Chain[i] = <<i>> \o c
      BY <2>5, <3>5, <3>6, ChainUnfold
    <3> DEFINE h == <<i>> \o c
    <3>8. h \in Seq(Nat) /\ Len(h) = Len(c) + 1 /\ h[1] = i /\ \A j \in 1 .. Len(c) : h[j + 1] = c[j]
      BY <2>5
    <3> HIDE DEF h
    <3>9. Len(h) = b - i + 1
      BY <1>1, <2>5, <3>6, <3>8
    <3>10. \A j \in 1 .. b - i + 1 : h[j] = i + j - 1
      <4> TAKE j \in 1 .. b - i + 1
      <4>1. CASE j = 1
        BY <2>5, <3>8, <4>1
      <4>2. CASE j # 1
        <5>1. PICK k \in 1 .. b - i : j = k + 1
          <6>1. j - 1 \in 1 .. b - i /\ j = (j - 1) + 1
            BY <1>1, <2>5, <4>2
          <6> QED BY <6>1
        <5>2. h[j] = c[k] /\ c[k] = i + k
          BY <3>6, <3>8, <5>1
        <5> QED BY <2>5, <5>1, <5>2
      <4> QED BY <4>1, <4>2
    <3>11. Counts(h, i, b)
      BY <3>8, <3>9, <3>10 DEF Counts
    <3> QED BY <2>4, <3>7, <3>11 DEF h
  <2> QED BY <2>6, <2>7
<1>3. b - a \in 0 .. b - a /\ b - (b - a) = a
  BY <1>1
<1>4. \A k \in 0 .. b - a : Counts(Chain[b - k], b - k, b)
  BY <1>2
<1> QED BY <1>3, <1>4

\* A set of numbers that has a bound has a greatest one.
LEMMA Greatest ==
    ASSUME NEW n \in Nat, NEW S \in SUBSET (1 .. n), S # {}
    PROVE  \E m \in S : \A k \in S : k <= m
<1> DEFINE T == {n - k : k \in S}
<1>1. T \in SUBSET Nat /\ T # {}
  <2>1. \A k \in S : k \in 1 .. n /\ n - k \in Nat
    OBVIOUS
  <2>2. PICK k : k \in S
    OBVIOUS
  <2>3. n - k \in T
    BY <2>2
  <2> QED BY <2>1, <2>3
<1>2. PICK l \in T : \A k \in T : l <= k
  <2> HIDE DEF T
  <2> QED BY <1>1, Least
<1>3. PICK m \in S : l = n - m
  OBVIOUS
<1>4. ASSUME NEW k \in S PROVE k <= m
  <2>1. n - k \in T
    OBVIOUS
  <2>2. l <= n - k
    <3> HIDE DEF T
    <3> QED BY <1>2, <2>1
  <2> QED BY <1>3, <2>2
<1> QED BY <1>4

\* The nodes of a number that no other number interrupts are one run.
AllFilled == \A k \in 1 .. Len(numbers_) : numbers_[k] # NULL
OfNumber(number) == {i \in 1 .. cur_ndex_ : nodes_[i].number = number}

LEMMA RunOfNumber ==
    ASSUME ReaderTypeOK, RunsLinked, Unfilled, AllFilled, NEW number, OfNumber(number) # {},
           \A i, k \in OfNumber(number) : \A j \in i .. k : j \in OfNumber(number)
    PROVE  \E a \in 1 .. cur_ndex_ : \E b \in a .. cur_ndex_ :
               /\ OfNumber(number) = a .. b /\ getNodeByNumber(number) = a
               /\ Counts(Chain[a], a, b)
<1>1. PICK n \in Nat, m \in Nat : n = cur_ndex_ /\ m = numbers_ndex_ /\ m <= Len(numbers_)
  BY DEF ReaderTypeOK
<1>2. PICK F \in SUBSET (1 .. n) : F = OfNumber(number)
  BY <1>1 DEF OfNumber
<1>3. PICK a \in F : \A k \in F : a <= k
  <2>1. F \in SUBSET Nat
    OBVIOUS
  <2> QED BY <1>2, <2>1, Least
<1>4. PICK b \in F : \A k \in F : k <= b
  BY <1>2, Greatest
<1>5. a \in 1 .. n /\ b \in a .. n
  BY <1>3
<1>6. F = a .. b
  <2>1. \A j \in a .. b : j \in F
    BY <1>2
  <2>2. \A j \in F : j \in a .. b
    BY <1>3, <1>4
  <2> QED BY <2>1, <2>2
<1>7. \A i \in 1 .. n : i \in F <=> nodes_[i].number = number
  BY <1>1, <1>2 DEF OfNumber
<1>8. \A i \in a .. b - 1 : SameNumber(i)
  <2> TAKE i \in a .. b - 1
  <2>1. i \in a .. b /\ i + 1 \in a .. b /\ i < n /\ i \in 1 .. n /\ i + 1 \in 1 .. n
    BY <1>5
  <2> QED BY <1>1, <1>6, <1>7, <2>1 DEF SameNumber
<1>9. ~SameNumber(b)
  <2>1. SUFFICES ASSUME SameNumber(b) PROVE FALSE
    OBVIOUS
  <2>2. b < n /\ nodes_[b + 1].number = number
    BY <1>1, <1>5, <1>7, <2>1 DEF SameNumber
  <2>3. b + 1 \in F
    BY <1>5, <1>7, <2>2
  <2> QED BY <1>4, <1>5, <2>3
<1>10. a > 1 => ~SameNumber(a - 1)
  <2>1. SUFFICES ASSUME a > 1, SameNumber(a - 1) PROVE FALSE
    OBVIOUS
  <2>2. PICK p \in 1 .. n : p = a - 1 /\ p + 1 = a /\ p < a
    BY <1>5, <2>1
  <2>3. nodes_[p].number = number
    BY <1>7, <2>1, <2>2 DEF SameNumber
  <2>4. p \in F
    BY <1>7, <2>3
  <2> QED BY <1>3, <1>5, <2>2, <2>4
<1>11. \A i \in 1 .. n : nodes_[i].next = (IF SameNumber(i) THEN i + 1 ELSE NULL)
  BY <1>1 DEF RunsLinked
<1>12. {numbers_[k] : k \in 1 .. m} = {i \in 1 .. n : i > 1 => ~SameNumber(i - 1)}
  BY <1>1 DEF RunsLinked
<1>13. \A k \in Stops(number) : numbers_[k] = a
  <2> TAKE k \in Stops(number)
  <2>1. k \in 1 .. Len(numbers_) /\ numbers_[k] # NULL /\ nodes_[numbers_[k]].number = number
    BY DEF Stops, AllFilled
  <2>2. k \in 1 .. m
    BY <1>1, <2>1 DEF Unfilled
  <2>3. PICK i \in 1 .. n : i = numbers_[k] /\ (i > 1 => ~SameNumber(i - 1))
    BY <1>12, <2>2
  <2>4. i \in F
    BY <1>7, <2>1, <2>3
  <2>5. i \in a .. b
    BY <1>6, <2>4
  <2>6. CASE i # a
    <3>1. i > 1 /\ i - 1 \in a .. b - 1
      BY <1>5, <2>5, <2>6
    <3> QED BY <1>8, <2>3, <3>1
  <2> QED BY <2>3, <2>6
<1>14. Stops(number) # {}
  <2>1. a \in {i \in 1 .. n : i > 1 => ~SameNumber(i - 1)}
    BY <1>5, <1>10
  <2>2. PICK k \in 1 .. m : numbers_[k] = a
    BY <1>12, <2>1
  <2>3. k \in 1 .. Len(numbers_) /\ numbers_[k] # NULL /\ nodes_[numbers_[k]].number = number
    BY <1>1, <1>5, <1>7, <2>2 DEF ReaderTypeOK, NULL
  <2> QED BY <2>3 DEF Stops
<1>15. getNodeByNumber(number) = a
  <2>1. Stops(number) \in SUBSET Nat
    BY DEF Stops
  <2>2. \E k \in Stops(number) : \A j \in Stops(number) : k <= j
    BY <1>14, <2>1, Least
  <2>3. (CHOOSE k \in Stops(number) : \A j \in Stops(number) : k <= j) \in Stops(number)
    BY <2>2
  <2>4. a # NULL
    BY DEF NULL
  <2> QED BY <1>13, <1>14, <2>3, <2>4 DEF getNodeByNumber
<1>16. Walks
  <2>1. ASSUME NEW i \in 1 .. n, nodes_[i].next # NULL PROVE nodes_[i].next = i + 1 /\ i + 1 \in 1 .. n
    <3>1. SameNumber(i) /\ nodes_[i].next = i + 1
      BY <1>11, <2>1
    <3> QED BY <1>1, <3>1 DEF SameNumber
  <2> QED BY <1>1, <2>1 DEF Walks
<1>17. \A i \in a .. b - 1 : nodes_[i].next # NULL
  <2> TAKE i \in a .. b - 1
  <2>1. i \in 1 .. n /\ i + 1 # 0
    BY <1>5
  <2> QED BY <1>8, <1>11, <2>1 DEF NULL
<1>18. nodes_[b].next = NULL
  BY <1>5, <1>9, <1>11
<1>19. Counts(Chain[a], a, b)
  BY <1>1, <1>5, <1>16, <1>17, <1>18, ChainCounts
<1> QED BY <1>1, <1>2, <1>5, <1>6, <1>15, <1>19

LEMMA FieldsAreFound ==
    ASSUME ReaderTypeOK, RunsLinked, Unfilled, AllFilled, NEW fields, DOMAIN fields = 1 .. cur_ndex_,
           \A i \in 1 .. cur_ndex_ : Spells(nodes_[i], fields[i]), Adjacent(fields), NEW number
    PROVE  FieldsFound(fields, number)
<1>1. cur_ndex_ \in Nat
  BY DEF ReaderTypeOK
<1>2. \A i \in 1 .. cur_ndex_ : nodes_[i].number = Kept(fields[i])
  BY DEF Spells
<1>3. OfNumber(number) = {i \in DOMAIN fields : Kept(fields[i]) = number}
  BY <1>2 DEF OfNumber
<1>4. ASSUME NEW chain, chain = ChainFrom(getNodeByNumber(number)), getNodeByNumber(number) \in Nat,
             {chain[k] : k \in DOMAIN chain} = OfNumber(number),
             \A j, k \in DOMAIN chain : j < k => chain[j] < chain[k]
      PROVE  FieldsFound(fields, number)
  <2>1. \A i \in OfNumber(number) : Spells(nodes_[i], fields[i])
    BY DEF OfNumber
  <2>2. getNodeByNumber(number) # CRASH
    BY <1>4 DEF CRASH
  <2> QED BY <1>3, <1>4, <2>1, <2>2 DEF FieldsFound
<1>5. CASE OfNumber(number) = {}
  <2>1. Stops(number) = {}
    <3>1. SUFFICES ASSUME NEW k \in Stops(number) PROVE FALSE
      OBVIOUS
    <3>2. k \in 1 .. Len(numbers_) /\ numbers_[k] # NULL /\ nodes_[numbers_[k]].number = number
      BY DEF Stops, AllFilled
    <3>3. k \in 1 .. numbers_ndex_
      BY <3>2 DEF Unfilled, ReaderTypeOK
    <3>4. numbers_[k] \in 1 .. cur_ndex_
      BY <3>3 DEF RunsLinked
    <3> QED BY <1>5, <3>2, <3>4 DEF OfNumber
  <2>2. ChainFrom(getNodeByNumber(number)) = <<>> /\ getNodeByNumber(number) \in Nat
    BY <2>1 DEF ChainFrom, getNodeByNumber, NULL
  <2>3. DOMAIN <<>> = {}
    OBVIOUS
  <2>4. {<<>>[k] : k \in DOMAIN <<>>} = {}
    BY <2>3
  <2> QED BY <1>4, <1>5, <2>2, <2>3, <2>4
<1>6. CASE OfNumber(number) # {}
  <2>1. ASSUME NEW i \in OfNumber(number), NEW k \in OfNumber(number), NEW j \in i .. k
        PROVE  j \in OfNumber(number)
    <3>1. i \in 1 .. cur_ndex_ /\ k \in 1 .. cur_ndex_ /\ Kept(fields[i]) = number /\ Kept(fields[k]) = number
      BY <1>3 DEF OfNumber
    <3>2. j \in 1 .. cur_ndex_
      BY <1>1, <3>1
    <3>3. Kept(fields[j]) = Kept(fields[i])
      BY <3>1 DEF Adjacent
    <3> QED BY <1>3, <3>1, <3>2, <3>3
  <2>2. PICK a \in 1 .. cur_ndex_ : \E b \in a .. cur_ndex_ :
            OfNumber(number) = a .. b /\ getNodeByNumber(number) = a /\ Counts(Chain[a], a, b)
    BY <1>6, <2>1, RunOfNumber
  <2>3. PICK b \in a .. cur_ndex_ :
            OfNumber(number) = a .. b /\ getNodeByNumber(number) = a /\ Counts(Chain[a], a, b)
    BY <2>2
  <2>4. PICK c \in Seq(Nat) : c = Chain[a] /\ Len(c) = b - a + 1 /\ \A j \in 1 .. b - a + 1 : c[j] = a + j - 1
    BY <2>3 DEF Counts
  <2>5. ChainFrom(getNodeByNumber(number)) = c /\ getNodeByNumber(number) \in Nat
    <3>1. a # NULL /\ a \in Nat
      BY <1>1 DEF NULL
    <3> QED BY <2>3, <2>4, <3>1 DEF ChainFrom
  <2>6. DOMAIN c = 1 .. b - a + 1 /\ a \in Nat /\ b \in Nat
    BY <1>1, <2>4
  <2>7. {c[k] : k \in DOMAIN c} = a .. b
    <3>1. \A k \in DOMAIN c : c[k] \in a .. b
      BY <2>4, <2>6, SMTT(30)
    <3>2. ASSUME NEW i \in a .. b PROVE \E k \in DOMAIN c : c[k] = i
      <4>1. PICK k \in 1 .. b - a + 1 : i = a + k - 1
        <5>1. i - a + 1 \in 1 .. b - a + 1 /\ i = a + (i - a + 1) - 1
          BY <2>6
        <5> QED BY <5>1
      <4> QED BY <2>4, <2>6, <4>1
    <3> QED BY <3>1, <3>2
  <2>8. ASSUME NEW j \in DOMAIN c, NEW k \in DOMAIN c, j < k PROVE c[j] < c[k]
    <3>1. j \in 1 .. b - a + 1 /\ k \in 1 .. b - a + 1
      BY <2>6
    <3>2. c[j] = a + j - 1 /\ c[k] = a + k - 1
      BY <2>4, <3>1
    <3> QED BY <2>6, <2>8, <3>1, <3>2
  <2> QED BY <1>4, <2>3, <2>5, <2>7, <2>8
<1> QED BY <1>5, <1>6

\* Whoever asks an accepted message, whose tags and lengths are numbers of 32 bits,
\* for a number gets all fields of that number in their order, unless the fields of
\* one number are scattered, or two next to each other are kept under the number 0.
THEOREM AdjacentFound == ReaderSpec => []AdjacentFieldsFound
<1>1. ReaderInit => WholeSoFar /\ FoundSoFar
  BY DEF ReaderInit, WholeSoFar, NoCut, NoBeyond, FoundSoFar, Unfilled
<1>2. ReaderTypeOK /\ ReaderTypeOK' /\ WholeSoFar /\ FoundSoFar /\ [ReaderNext]_readerVars
          => WholeSoFar' /\ FoundSoFar'
  BY StepWhole, StepFound
<1>3. ASSUME ReaderTypeOK, RunsLinked, NumbersFilled, FoundSoFar PROVE AdjacentFieldsFound
  <2>1. SUFFICES ASSUME pass = 3, ok, InWidth, Adjacent(MessageFields), ~KeepsZeroTwice(MessageFields),
                        NEW number \in Numbers
                 PROVE  FieldsFound(MessageFields, number)
    BY DEF AdjacentFieldsFound
  <2>2. Splits /\ Spelled /\ Unfilled /\ pos > Len(src)
    <3>1. NoBeyond(1)
      BY <2>1 DEF InWidth, Has, MessageFields, NoBeyond, NoMark
    <3> QED BY <1>3, <2>1, <3>1 DEF FoundSoFar
  <2>3. src \in Seq(Octet) /\ pos \in 1 .. Len(src) + 1 /\ cur_ndex_ \in Nat /\ 1 \in 1 .. Len(src) + 1
    BY <1>3, LenProperties DEF ReaderTypeOK
  <2>4. FieldsFrom[pos] = <<>>
    BY <2>2, <2>3, FieldsOK DEF Ends, OwnFields
  <2>5. MessageFields \in Seq(Own)
    BY <2>3, FieldsOK DEF MessageFields
  <2>6. Len(MessageFields) = cur_ndex_
    <3>1. Len(MessageFields) = cur_ndex_ + Len(<<>>)
      BY <2>2, <2>4 DEF Splits
    <3> QED BY <2>3, <3>1
  <2>7. DOMAIN MessageFields = 1 .. cur_ndex_
    BY <2>5, <2>6
  <2>8. ~ZeroTwice
    <3>1. SUFFICES ASSUME ZeroTwice PROVE FALSE
      OBVIOUS
    <3>2. PICK i \in 1 .. cur_ndex_ - 1 : nodes_[i].number = 0 /\ nodes_[i + 1].number = 0
      BY <3>1 DEF ZeroTwice
    <3>3. PICK k \in 1 .. cur_ndex_ : k = i + 1 /\ k > 1 /\ k - 1 = i /\ i \in 1 .. cur_ndex_
      <4>1. i + 1 \in 1 .. cur_ndex_ /\ i + 1 > 1 /\ (i + 1) - 1 = i /\ i \in 1 .. cur_ndex_
        BY <2>3
      <4> QED BY <4>1
    <3>4. Kept(MessageFields[i]) = 0 /\ Kept(MessageFields[k]) = 0
      BY <2>2, <3>2, <3>3 DEF Spelled, Spells
    <3> QED BY <2>1, <2>7, <3>3, <3>4 DEF KeepsZeroTwice
  <2>9. AllFilled
    BY <1>3, <2>1, <2>8 DEF NumbersFilled, AllFilled
  <2> QED BY <1>3, <2>1, <2>2, <2>7, <2>9, FieldsAreFound DEF Spelled
<1>4. ReaderSpec => []ReaderTypeOK
  BY TypeCorrect
<1>5. ReaderSpec => []RunsLinked
  BY RunsAreLinked
<1>6. ReaderSpec => []NumbersFilled
  BY NoNullEntry
<1> QED BY <1>1, <1>2, <1>3, <1>4, <1>5, <1>6, PTL DEF ReaderSpec

=============================================================================
