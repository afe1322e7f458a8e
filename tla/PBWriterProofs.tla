-------------------------- MODULE PBWriterProofs --------------------------
(***************************************************************************)
(* For every sequence of messages: the first pass counts, to the byte,     *)
(* what the second writes, but for packed fields and wide int64s; and what *)
(* it writes is read back as the message.                                  *)
(*                                                                         *)
(* The argument has three parts.  First, what is defined by recursion is   *)
(* defined: a value of Size, Bytes or Counts uses only those of messages   *)
(* with smaller numbers, and a function exists that is given so            *)
(* (CourseOfValues).  Second, sizes and bytes agree from the inside out:   *)
(* varintSize is the number of bytes of the varint, so a value counts for  *)
(* the bytes it is written as (ValueExact), and so, adding up, does an     *)
(* element, a field and a message; that the length of the whole fits in 32 *)
(* bits gives the same of each part, whose length is written in front of   *)
(* it.  Third, the invariant: size_ and what str_ has gained are the sums  *)
(* over the fields that each pass has seen.                                *)
(*                                                                         *)
(* And what has been written is read back, by the wire format, as the      *)
(* message it was written for.  A varint, a fixed integer and a zigzag     *)
(* number are read as the number (VarIntRead, LittleEndianRead,            *)
(* ZigZagRead); a tag and what follows it, wherever they are in a string,  *)
(* are one record, behind which reading goes on (RecordRead), so that what *)
(* is written one after another is read as one record after another        *)
(* (ReadsBoth, ReadsFlatten); the records of a message are those its       *)
(* fields ask for (FieldIsRead), given that it is so of the messages       *)
(* inside of it (BytesAreRead).  The invariant WrittenInv says in addition *)
(* that str_ ends with what the fields seen so far are written as.         *)
(***************************************************************************)
EXTENDS PBReadBack, SequenceTheorems, WellFoundedInduction, FiniteSetTheorems, TLAPS

\* A set of natural numbers that is not empty has a least one.
LEMMA Least ==
    ASSUME NEW S \in SUBSET Nat, S # {}
    PROVE  \E m \in S : \A k \in S : m <= k
<1> DEFINE R == OpToRel(<, Nat)
<1>1. IsWellFoundedOn(R, Nat)
  BY NatLessThanWellFounded
<1>2. \A x, y \in Nat : x < y => <<x, y>> \in R
  BY DEF OpToRel
<1> HIDE DEF R
<1>3. PICK m \in S : \A k \in S : <<k, m>> \notin R
  BY <1>1, WFMin
<1>4. \A k \in S : ~(k < m)
  BY <1>2, <1>3
<1> QED
  BY <1>4

\* A function on the naturals may be defined by what each of its values is, given
\* the sequence of the values before.
LEMMA CourseOfValues ==
    ASSUME NEW V, NEW D \in [Seq(V) -> V]
    PROVE  \E g \in [Nat -> V] : \A n \in Nat : \A h \in Seq(V) :
               Len(h) = n /\ (\A i \in 1 .. n : h[i] = g[i - 1]) => g[n] = D[h]
<1> DEFINE Is(h, n) == /\ h \in [1 .. n -> V]
                       /\ \A k \in 1 .. n : h[k] = D[[i \in 1 .. k - 1 |-> h[i]]]
<1>1. ASSUME NEW n \in Nat, NEW m \in Nat, n <= m, NEW h, Is(h, n), NEW j, Is(j, m)
      PROVE  \A i \in 1 .. n : h[i] = j[i]
  <2> DEFINE S == {i \in 1 .. n : h[i] # j[i]}
  <2>1. SUFFICES ASSUME S # {} PROVE FALSE
    OBVIOUS
  <2>0. S \in SUBSET Nat
    OBVIOUS
  <2>2. PICK k \in S : \A i \in S : k <= i
    <3> HIDE DEF S
    <3> QED
      BY <2>0, <2>1, Least
  <2>3. [i \in 1 .. k - 1 |-> h[i]] = [i \in 1 .. k - 1 |-> j[i]]
    BY <2>2
  <2>4. k \in 1 .. n /\ k \in 1 .. m
    BY <1>1
  <2> QED
    BY <1>1, <2>2, <2>3, <2>4
<1>2. \A n \in Nat : \E h : Is(h, n)
  <2> DEFINE S == {n \in Nat : ~\E h : Is(h, n)}
  <2>1. SUFFICES ASSUME S # {} PROVE FALSE
    OBVIOUS
  <2>2. PICK n \in S : \A k \in S : n <= k
    BY <2>1, Least
  <2>3. n # 0
    <3>1. Is([i \in 1 .. 0 |-> CHOOSE v \in V : TRUE], 0)
      OBVIOUS
    <3> QED
      BY <3>1, <2>2
  <2>4. PICK h : Is(h, n - 1)
    <3>1. n - 1 \in Nat /\ n - 1 \notin S
      <4> HIDE DEF Is
      <4> QED
        BY <2>2, <2>3
    <3> HIDE DEF Is
    <3> QED
      BY <3>1
  <2> DEFINE j == [k \in 1 .. n |-> IF k = n THEN D[h] ELSE h[k]]
  <2>5. h \in Seq(V)
    BY <2>3, <2>4
  <2>6. j \in [1 .. n -> V]
    BY <2>4, <2>5
  <2>7. ASSUME NEW k \in 1 .. n PROVE j[k] = D[[i \in 1 .. k - 1 |-> j[i]]]
    <3>1. CASE k = n
      <4>1. [i \in 1 .. k - 1 |-> j[i]] = h
        BY <2>4, <3>1
      <4> QED
        BY <4>1, <3>1
    <3>2. CASE k # n
      <4>1. k \in 1 .. n - 1
        BY <3>2
      <4>2. [i \in 1 .. k - 1 |-> j[i]] = [i \in 1 .. k - 1 |-> h[i]]
        BY <4>1
      <4> QED
        BY <4>1, <4>2, <2>4
    <3> QED
      BY <3>1, <3>2
  <2> QED
    BY <2>2, <2>6, <2>7, ZenonT(40)
<1> DEFINE H(n) == CHOOSE h : Is(h, n)
           g == [n \in Nat |-> H(n + 1)[n + 1]]
<1>3. \A n \in Nat : Is(H(n), n)
  BY <1>2
<1> HIDE DEF H
<1>4. \A n, m \in Nat : n <= m => \A i \in 1 .. n : H(n)[i] = H(m)[i]
  <2> HIDE DEF Is
  <2> QED
    BY <1>1, <1>3
<1>5. g \in [Nat -> V]
  BY <1>3
<1>6. ASSUME NEW n \in Nat PROVE g[n] = D[[i \in 1 .. n |-> g[i - 1]]]
  <2>1. H(n + 1)[n + 1] = D[[i \in 1 .. n |-> H(n + 1)[i]]]
    <3>1. PICK k \in Nat : k = n + 1
      OBVIOUS
    <3>2. Is(H(k), k)
      <4> HIDE DEF Is
      <4> QED
        BY <1>3
    <3>3. H(k)[k] = D[[i \in 1 .. k - 1 |-> H(k)[i]]]
      BY <3>1, <3>2
    <3>4. k - 1 = n
      BY <3>1
    <3> QED
      BY <3>1, <3>3, <3>4
  <2>2. \A i \in 1 .. n : g[i - 1] = H(n + 1)[i]
    BY <1>4
  <2>3. [i \in 1 .. n |-> g[i - 1]] = [i \in 1 .. n |-> H(n + 1)[i]]
    BY <2>2
  <2> QED
    BY <2>1, <2>3
<1>7. ASSUME NEW n \in Nat, NEW h \in Seq(V), Len(h) = n, \A i \in 1 .. n : h[i] = g[i - 1]
      PROVE  g[n] = D[h]
  <2>1. h = [i \in 1 .. n |-> g[i - 1]]
    BY <1>7
  <2> HIDE DEF g
  <2> QED
    BY <1>6, <2>1
<1> HIDE DEF g
<1> QED
  BY <1>5, <1>7

\* The same where a value depends on the one before it alone.
Steps(V) == [Nat -> [V -> V]]
Iterates(g, v, E) == g[0] = v /\ \A n \in Nat : g[n + 1] = E[n][g[n]]

LEMMA Recursion ==
    ASSUME NEW V, NEW v \in V, NEW E \in Steps(V)
    PROVE  \E g \in [Nat -> V] : Iterates(g, v, E)
<1> DEFINE D == [h \in Seq(V) |-> IF Len(h) = 0 THEN v ELSE E[Len(h) - 1][h[Len(h)]]]
<1>1. D \in [Seq(V) -> V]
  BY DEF Steps
<1>2. PICK g \in [Nat -> V] : \A n \in Nat : \A h \in Seq(V) :
          Len(h) = n /\ (\A i \in 1 .. n : h[i] = g[i - 1]) => g[n] = D[h]
  <2> HIDE DEF D
  <2> QED
    BY <1>1, CourseOfValues
<1>3. ASSUME NEW n \in Nat
      PROVE  \E h \in Seq(V) : Len(h) = n /\ g[n] = D[h] /\ \A i \in 1 .. n : h[i] = g[i - 1]
  <2> DEFINE h == [i \in 1 .. n |-> g[i - 1]]
  <2>1. h \in Seq(V) /\ Len(h) = n
    OBVIOUS
  <2>2. \A i \in 1 .. n : h[i] = g[i - 1]
    OBVIOUS
  <2> HIDE DEF h, D
  <2> QED
    BY <1>2, <2>1, <2>2
<1>4. g[0] = v
  <2>1. PICK h \in Seq(V) : Len(h) = 0 /\ g[0] = D[h]
    BY <1>3
  <2> QED
    BY <2>1
<1>5. ASSUME NEW n \in Nat PROVE g[n + 1] = E[n][g[n]]
  <2>1. PICK k \in Nat : k = n + 1
    OBVIOUS
  <2>2. PICK h \in Seq(V) : Len(h) = k /\ g[k] = D[h] /\ \A i \in 1 .. k : h[i] = g[i - 1]
    <3> HIDE DEF D
    <3> QED
      BY <1>3
  <2>3. k \in 1 .. k /\ k - 1 = n /\ k # 0
    BY <2>1
  <2>4. h[k] = g[n]
    BY <2>2, <2>3
  <2>5. D[h] = E[k - 1][h[k]]
    BY <2>2, <2>3
  <2> QED
    BY <2>1, <2>2, <2>3, <2>4, <2>5
<1> QED
  BY <1>4, <1>5 DEF Iterates

\* Induction: a set that has 0, and n + 1 whenever it has n, has every number.
LEMMA Induction ==
    ASSUME NEW S, 0 \in S, \A n \in Nat : n \in S => n + 1 \in S
    PROVE  Nat \subseteq S
<1> DEFINE T == Nat \ S
<1>1. SUFFICES ASSUME T # {} PROVE FALSE
  OBVIOUS
<1>2. T \in SUBSET Nat
  OBVIOUS
<1>3. PICK n \in T : \A k \in T : n <= k
  <2> HIDE DEF T
  <2> QED
    BY <1>1, <1>2, Least
<1>4. n # 0 /\ n - 1 \in Nat /\ n - 1 \notin T
  BY <1>3
<1>5. n - 1 \in S /\ (n - 1) + 1 = n
  BY <1>4
<1> QED
  BY <1>3, <1>4, <1>5

\* The same from all the numbers below.
LEMMA StrongInduction ==
    ASSUME NEW S, \A n \in Nat : (\A k \in 0 .. n - 1 : k \in S) => n \in S
    PROVE  Nat \subseteq S
<1> DEFINE T == Nat \ S
<1>1. SUFFICES ASSUME T # {} PROVE FALSE
  OBVIOUS
<1>2. T \in SUBSET Nat
  OBVIOUS
<1>3. PICK n \in T : \A k \in T : n <= k
  <2> HIDE DEF T
  <2> QED
    BY <1>1, <1>2, Least
<1>4. \A k \in 0 .. n - 1 : k \in S
  BY <1>3
<1> QED
  BY <1>3, <1>4

-----------------------------------------------------------------------------
(***************************************************************************)
(* The helpers that are defined by recursion.                              *)
(***************************************************************************)
LEMMA PowerOK ==
    ASSUME NEW b \in Nat
    PROVE  /\ Power(b, 0) = 1
           /\ \A n \in Nat : Power(b, n) \in Nat /\ Power(b, n + 1) = b * Power(b, n)
<1> DEFINE F(f) == [n \in Nat |-> IF n = 0 THEN 1 ELSE b * f[n - 1]]
           p == CHOOSE f : f = F(f)
<1>1. \E f : f = F(f)
  <2> DEFINE E == [n \in Nat |-> [x \in Nat |-> b * x]]
  <2>1. E \in Steps(Nat)
    BY DEF Steps
  <2>2. PICK g \in [Nat -> Nat] : Iterates(g, 1, E)
    <3>1. 0 \in Nat /\ 1 \in Nat
      OBVIOUS
    <3> HIDE DEF E
    <3> QED
      BY <2>1, <3>1, Recursion
  <2>3. g[0] = 1 /\ \A n \in Nat : g[n + 1] = b * g[n]
    BY <2>2 DEF Iterates
  <2>4. ASSUME NEW n \in Nat PROVE g[n] = IF n = 0 THEN 1 ELSE b * g[n - 1]
    <3>1. CASE n # 0
      <4>1. n - 1 \in Nat /\ (n - 1) + 1 = n
        BY <3>1
      <4> QED
        BY <2>3, <3>1, <4>1
    <3> QED
      BY <2>3, <3>1
  <2>5. g = F(g)
    BY <2>4
  <2> QED
    BY <2>5
<1>2. p = F(p)
  BY <1>1
<1>3. \A n \in Nat : Power(b, n) = p[n]
  BY DEF Power
<1> HIDE DEF p
<1>4. p[0] = 1 /\ \A n \in Nat : p[n + 1] = b * p[n]
  BY <1>2
<1>5. Nat \subseteq {n \in Nat : p[n] \in Nat}
  <2> DEFINE S == {n \in Nat : p[n] \in Nat}
  <2>1. 0 \in S /\ \A n \in Nat : n \in S => n + 1 \in S
    BY <1>4
  <2> HIDE DEF S
  <2>2. Nat \subseteq S
    BY <2>1, Induction
  <2> QED
    BY <2>2 DEF S
<1> QED
  BY <1>3, <1>4, <1>5

\* The sum of a sequence, one number after another.
LEMMA SumOK ==
    ASSUME NEW n \in Nat, NEW s \in [1 .. n -> Nat]
    PROVE  \E g \in [0 .. n -> Nat] :
               /\ g[0] = 0 /\ Sum(s) = g[n]
               /\ \A k \in 1 .. n : g[k] = g[k - 1] + s[k]
<1> DEFINE F(f) == [k \in 0 .. n |-> IF k = 0 THEN 0 ELSE f[k - 1] + s[k]]
           sum == CHOOSE f : f = F(f)
<1>1. \E f : f = F(f)
  <2> DEFINE E == [k \in Nat |-> [x \in Nat |-> IF k < n THEN x + s[k + 1] ELSE 0]]
  <2>1. E \in Steps(Nat)
    BY DEF Steps
  <2>2. PICK g \in [Nat -> Nat] : Iterates(g, 0, E)
    <3>1. 0 \in Nat /\ 1 \in Nat
      OBVIOUS
    <3> HIDE DEF E
    <3> QED
      BY <2>1, <3>1, Recursion
  <2>3. g[0] = 0 /\ \A k \in Nat : k < n => g[k + 1] = g[k] + s[k + 1]
    BY <2>2 DEF Iterates
  <2> DEFINE f == [k \in 0 .. n |-> g[k]]
  <2>4. ASSUME NEW k \in 0 .. n PROVE f[k] = IF k = 0 THEN 0 ELSE f[k - 1] + s[k]
    <3>1. CASE k # 0
      <4>1. k - 1 \in Nat /\ k - 1 \in 0 .. n /\ (k - 1) + 1 = k /\ k - 1 < n
        BY <3>1
      <4>2. g[(k - 1) + 1] = g[k - 1] + s[(k - 1) + 1]
        BY <2>3, <4>1
      <4> QED
        BY <3>1, <4>1, <4>2
    <3> QED
      BY <2>3, <3>1
  <2>5. f = F(f)
    BY <2>4
  <2> QED
    BY <2>5
<1>2. sum = F(sum)
  BY <1>1
<1>3. Sum(s) = sum[n]
  <2>1. Len(s) = n
    OBVIOUS
  <2> QED
    BY <2>1 DEF Sum
<1> HIDE DEF sum
<1>4. sum[0] = 0 /\ \A k \in 1 .. n : sum[k] = sum[k - 1] + s[k]
  BY <1>2
<1>5. \A k \in 0 .. n : sum[k] \in Nat
  <2> DEFINE S == {k \in Nat : k <= n => sum[k] \in Nat}
  <2>1. 0 \in S
    BY <1>4
  <2>2. ASSUME NEW k \in Nat, k \in S PROVE k + 1 \in S
    <3>1. CASE k + 1 <= n
      <4>1. k + 1 \in 1 .. n /\ (k + 1) - 1 = k
        BY <3>1
      <4>2. sum[k + 1] = sum[(k + 1) - 1] + s[k + 1] /\ s[k + 1] \in Nat
        BY <1>4, <4>1
      <4> QED
        BY <2>2, <4>1, <4>2
    <3> QED
      BY <3>1
  <2> HIDE DEF S
  <2>3. Nat \subseteq S
    BY <2>1, <2>2, Induction
  <2> QED
    BY <2>3 DEF S
<1>6. sum \in [0 .. n -> Nat]
  BY <1>2, <1>5
<1> QED
  BY <1>3, <1>4, <1>6

LEMMA SumEmpty == ASSUME NEW s \in [1 .. 0 -> Nat] PROVE Sum(s) = 0
BY SumOK

LEMMA SumNat == ASSUME NEW n \in Nat, NEW s \in [1 .. n -> Nat] PROVE Sum(s) \in Nat
BY SumOK

\* With one more number.
LEMMA SumNext ==
    ASSUME NEW n \in Nat, NEW s \in [1 .. n -> Nat], NEW t \in [1 .. n + 1 -> Nat],
           \A i \in 1 .. n : t[i] = s[i]
    PROVE  Sum(t) = Sum(s) + t[n + 1]
<1>1. PICK m \in Nat : m = n + 1
  OBVIOUS
<1>2. PICK g \in [0 .. n -> Nat] :
          g[0] = 0 /\ Sum(s) = g[n] /\ \A k \in 1 .. n : g[k] = g[k - 1] + s[k]
  BY SumOK
<1>3. PICK h \in [0 .. m -> Nat] :
          h[0] = 0 /\ Sum(t) = h[m] /\ \A k \in 1 .. m : h[k] = h[k - 1] + t[k]
  BY <1>1, SumOK
<1> DEFINE S == {k \in Nat : k <= n => g[k] = h[k]}
<1>4. 0 \in S
  BY <1>2, <1>3
<1>5. ASSUME NEW k \in Nat, k \in S PROVE k + 1 \in S
  <2>1. CASE k + 1 <= n
    <3>1. k + 1 \in 1 .. n /\ k + 1 \in 1 .. m /\ (k + 1) - 1 = k
      BY <1>1, <2>1
    <3>2. g[k + 1] = g[k] + s[k + 1] /\ h[k + 1] = h[k] + t[k + 1]
      BY <1>2, <1>3, <3>1
    <3> QED
      BY <1>5, <2>1, <3>1, <3>2
  <2> QED
    BY <2>1
<1>6. Nat \subseteq S
  <2> HIDE DEF S
  <2> QED
    BY <1>4, <1>5, Induction
<1>7. g[n] = h[n]
  BY <1>6
<1>8. m \in 1 .. m /\ m - 1 = n
  BY <1>1
<1>9. h[m] = h[n] + t[m]
  BY <1>3, <1>8
<1> QED
  BY <1>1, <1>2, <1>3, <1>7, <1>9

\* No number of a sequence is greater than the sum.
LEMMA SumBounds ==
    ASSUME NEW n \in Nat, NEW s \in [1 .. n -> Nat], NEW j \in 1 .. n
    PROVE  s[j] <= Sum(s)
<1>1. PICK g \in [0 .. n -> Nat] :
          g[0] = 0 /\ Sum(s) = g[n] /\ \A k \in 1 .. n : g[k] = g[k - 1] + s[k]
  BY SumOK
<1> DEFINE S == {k \in Nat : j + k <= n => s[j] <= g[j + k]}
<1>2. 0 \in S
  <2>1. g[j] = g[j - 1] + s[j] /\ g[j - 1] \in Nat /\ s[j] \in Nat
    BY <1>1
  <2> QED
    BY <2>1
<1>3. ASSUME NEW k \in Nat, k \in S PROVE k + 1 \in S
  <2>1. CASE j + (k + 1) <= n
    <3>1. j + (k + 1) \in 1 .. n /\ j + (k + 1) - 1 = j + k /\ j + k <= n /\ j + k \in 0 .. n
      BY <2>1
    <3>2. g[j + (k + 1)] = g[j + (k + 1) - 1] + s[j + (k + 1)]
      BY <1>1, <3>1
    <3>3. g[j + k] \in Nat /\ s[j + (k + 1)] \in Nat /\ s[j] \in Nat
      BY <3>1
    <3> QED
      BY <1>3, <3>1, <3>2, <3>3
  <2> QED
    BY <2>1
<1>4. Nat \subseteq S
  <2> HIDE DEF S
  <2> QED
    BY <1>2, <1>3, Induction
<1>5. n - j \in Nat /\ j + (n - j) = n
  OBVIOUS
<1>6. s[j] <= g[j + (n - j)]
  <2>1. n - j \in S
    <3> HIDE DEF S
    <3> QED
      BY <1>4, <1>5
  <2> QED
    BY <1>5, <2>1
<1> QED
  BY <1>1, <1>5, <1>6

\* One sequence after another.
LEMMA FlattenOK ==
    ASSUME NEW V, NEW n \in Nat, NEW s \in [1 .. n -> Seq(V)]
    PROVE  /\ FlattenSeq(s) \in Seq(V)
           /\ Len(FlattenSeq(s)) = Sum([k \in 1 .. n |-> Len(s[k])])
<1>1. CASE n = 0
  <2>1. s = <<>> /\ Len(s) = 0
    BY <1>1
  <2>2. FlattenSeq(s) = s
    BY <2>1 DEF FlattenSeq
  <2> DEFINE lens == [k \in 1 .. n |-> Len(s[k])]
  <2>3. lens \in [1 .. 0 -> Nat]
    BY <1>1
  <2>4. Sum(lens) = 0
    <3> HIDE DEF lens
    <3> QED
      BY <2>3, SumEmpty
  <2>5. s \in Seq(V)
    BY <2>1
  <2> QED
    BY <2>1, <2>2, <2>4, <2>5
<1>2. CASE n # 0
  <2> DEFINE F(f) == [i \in 1 .. n |-> IF i = 1 THEN s[i] ELSE f[i - 1] \o s[i]]
             flatten == CHOOSE f : f = F(f)
  <2>1. Len(s) = n
    OBVIOUS
  <2>2. FlattenSeq(s) = flatten[n]
    BY <1>2, <2>1 DEF FlattenSeq
  <2>3. \E f : f = F(f)
    <3> DEFINE E == [k \in Nat |-> [x \in Seq(V) |-> IF k < n THEN x \o s[k + 1] ELSE x]]
    <3>1. E \in Steps(Seq(V)) /\ <<>> \in Seq(V)
      BY DEF Steps
    <3>2. PICK g \in [Nat -> Seq(V)] : Iterates(g, <<>>, E)
      <4> HIDE DEF E
      <4> QED
        BY <3>1, Recursion
    <3>3. g[0] = <<>> /\ \A k \in Nat : k < n => g[k + 1] = g[k] \o s[k + 1]
      BY <3>2 DEF Iterates
    <3> DEFINE f == [k \in 1 .. n |-> g[k]]
    <3>4. ASSUME NEW k \in 1 .. n PROVE f[k] = IF k = 1 THEN s[k] ELSE f[k - 1] \o s[k]
      <4>1. k - 1 \in Nat /\ (k - 1) + 1 = k /\ k - 1 < n
        OBVIOUS
      <4>2. g[k] = g[k - 1] \o s[k]
        BY <3>3, <4>1
      <4>3. CASE k = 1
        <5>1. g[k - 1] = <<>>
          BY <3>3, <4>3
        <5> QED
          BY <4>2, <4>3, <5>1
      <4>4. CASE k # 1
        <5>1. k - 1 \in 1 .. n
          BY <4>4
        <5> QED
          BY <4>2, <4>4, <5>1
      <4> QED
        BY <4>3, <4>4
    <3>5. f = F(f)
      BY <3>4
    <3> QED
      BY <3>5
  <2>4. flatten = F(flatten)
    BY <2>3
  <2> HIDE DEF flatten
  <2>5. flatten[1] = s[1] /\ \A k \in 2 .. n : flatten[k] = flatten[k - 1] \o s[k]
    <3>1. \A k \in 1 .. n : flatten[k] = IF k = 1 THEN s[k] ELSE flatten[k - 1] \o s[k]
      BY <2>4
    <3>2. 1 \in 1 .. n
      BY <1>2
    <3>3. flatten[1] = s[1]
      BY <3>1, <3>2
    <3>4. ASSUME NEW k \in 2 .. n PROVE flatten[k] = flatten[k - 1] \o s[k]
      <4>1. k \in 1 .. n /\ k # 1
        OBVIOUS
      <4> QED
        BY <3>1, <4>1
    <3> QED
      BY <3>3, <3>4
  <2> DEFINE lens == [k \in 1 .. n |-> Len(s[k])]
  <2>6. lens \in [1 .. n -> Nat]
    OBVIOUS
  <2>7. PICK g \in [0 .. n -> Nat] :
          g[0] = 0 /\ Sum(lens) = g[n] /\ \A k \in 1 .. n : g[k] = g[k - 1] + lens[k]
    <3> HIDE DEF lens
    <3> QED
      BY <2>6, SumOK
  <2> DEFINE S == {k \in Nat : 0 < k /\ k <= n => flatten[k] \in Seq(V) /\ Len(flatten[k]) = g[k]}
  <2>8. 0 \in S
    OBVIOUS
  <2>9. ASSUME NEW k \in Nat, k \in S PROVE k + 1 \in S
    <3>1. CASE k + 1 <= n /\ k # 0
      <4>1. k + 1 \in 2 .. n /\ k + 1 \in 1 .. n /\ (k + 1) - 1 = k /\ 0 < k
        BY <3>1
      <4>2. flatten[k + 1] = flatten[k] \o s[k + 1] /\ s[k + 1] \in Seq(V)
        BY <2>5, <4>1
      <4>3. g[k + 1] = g[k] + Len(s[k + 1])
        BY <2>7, <4>1
      <4>4. flatten[k] \in Seq(V) /\ Len(flatten[k]) = g[k]
        BY <2>9, <3>1, <4>1
      <4>5. flatten[k + 1] \in Seq(V) /\ Len(flatten[k + 1]) = g[k + 1]
        <5>1. PICK a \in Seq(V) : a = flatten[k]
          BY <4>4
        <5>2. PICK b \in Seq(V) : b = s[k + 1]
          BY <4>2
        <5>3. a \o b \in Seq(V) /\ Len(a \o b) = Len(a) + Len(b)
          OBVIOUS
        <5> QED
          BY <4>2, <4>3, <4>4, <5>1, <5>2, <5>3
      <4> QED
        BY <4>5
    <3>2. CASE k + 1 <= n /\ k = 0
      <4>1. 1 \in 1 .. n /\ s[1] \in Seq(V)
        BY <3>2
      <4>2. g[1] = g[0] + Len(s[1])
        BY <2>7, <4>1
      <4>3. flatten[1] = s[1] /\ Len(flatten[1]) = g[1]
        BY <2>5, <2>7, <4>1, <4>2
      <4> QED
        BY <3>2, <4>1, <4>3
    <3> QED
      BY <3>1, <3>2
  <2>10. Nat \subseteq S
    <3> HIDE DEF S
    <3> QED
      BY <2>8, <2>9, Induction
  <2>11. flatten[n] \in Seq(V) /\ Len(flatten[n]) = g[n]
    BY <1>2, <2>10
  <2> QED
    BY <2>2, <2>7, <2>11
<1> QED
  BY <1>1, <1>2

-----------------------------------------------------------------------------
(***************************************************************************)
(* A varint has as many bytes as varintSize says.                          *)
(***************************************************************************)
LEMMA Widths ==
    /\ Base \in Nat /\ Base > 23 /\ Byte \in Nat /\ Byte = 2 * Base
    /\ MaxVarInt \in Nat \ {0} /\ Fixed32 \in Nat \ {0}
BY WidthAssumption DEF Byte

LEMMA Shifted ==
    ASSUME NEW v \in Nat
    PROVE  /\ v \div Base \in Nat /\ v % Base \in 0 .. Base - 1
           /\ v >= Base => v \div Base < v
           /\ \A p \in Nat : v < Base * p <=> v \div Base < p
<1>1. v \div Base \in Nat /\ v % Base \in 0 .. Base - 1
  BY Widths
<1>2. v = Base * (v \div Base) + (v % Base)
  BY Widths
<1>3. v >= Base => v \div Base < v
  BY <1>1, <1>2, Widths
<1>4. \A p \in Nat : v < Base * p <=> v \div Base < p
  BY <1>1, <1>2, Widths
<1> QED
  BY <1>1, <1>3, <1>4

LEMMA VarintUnfolds ==
    \A v \in Nat : writeVarint[v] = IF v < Base THEN <<v>>
                                    ELSE <<Base + (v % Base)>> \o writeVarint[v \div Base]
<1> DEFINE V == Seq(0 .. Byte - 1)
           F(f) == [v \in Nat |-> IF v < Base THEN <<v>>
                                  ELSE <<Base + (v % Base)>> \o f[v \div Base]]
           D == [h \in Seq(V) |-> IF Len(h) < Base THEN <<Len(h)>>
                                  ELSE <<Base + (Len(h) % Base)>> \o h[Len(h) \div Base + 1]]
<1>1. D \in [Seq(V) -> V]
  <2>1. ASSUME NEW h \in Seq(V), Len(h) < Base PROVE <<Len(h)>> \in V
    BY <2>1, Widths
  <2>2. ASSUME NEW h \in Seq(V), ~(Len(h) < Base)
        PROVE  <<Base + (Len(h) % Base)>> \o h[Len(h) \div Base + 1] \in V
    <3>1. PICK n \in Nat : n = Len(h)
      OBVIOUS
    <3>2. n \div Base + 1 \in 1 .. n /\ Base + (n % Base) \in 0 .. Byte - 1
      <4>1. n >= Base
        BY <2>2, <3>1, Widths
      <4>2. n \div Base \in Nat /\ n \div Base < n /\ n % Base \in 0 .. Base - 1
        BY <4>1, Shifted
      <4> HIDE DEF V, D
      <4> QED
        BY <4>2, Widths
    <3>3. h[n \div Base + 1] \in V
      BY <3>1, <3>2
    <3> QED
      BY <3>1, <3>2, <3>3
  <2> HIDE DEF V
  <2> QED
    BY <2>1, <2>2
<1>2. PICK g \in [Nat -> V] : \A n \in Nat : \A h \in Seq(V) :
          Len(h) = n /\ (\A i \in 1 .. n : h[i] = g[i - 1]) => g[n] = D[h]
  <2> HIDE DEF D, V
  <2> QED
    BY <1>1, CourseOfValues
<1>3. ASSUME NEW v \in Nat
      PROVE  g[v] = IF v < Base THEN <<v>> ELSE <<Base + (v % Base)>> \o g[v \div Base]
  <2> DEFINE h == [i \in 1 .. v |-> g[i - 1]]
  <2>1. h \in Seq(V) /\ Len(h) = v
    <3> HIDE DEF V
    <3> QED
      OBVIOUS
  <2>2. \A i \in 1 .. v : h[i] = g[i - 1]
    OBVIOUS
  <2> HIDE DEF h
  <2>3. g[v] = D[h]
    <3> HIDE DEF D, V
    <3> QED
      BY <1>2, <2>1, <2>2
  <2>4. D[h] = IF v < Base THEN <<v>> ELSE <<Base + (v % Base)>> \o h[v \div Base + 1]
    <3> HIDE DEF V
    <3> QED
      BY <2>1
  <2>5. CASE v < Base
    BY <2>3, <2>4, <2>5
  <2>6. CASE ~(v < Base)
    <3>1. v \div Base \in Nat /\ v \div Base + 1 \in 1 .. v /\ (v \div Base + 1) - 1 = v \div Base
      BY <2>6, Shifted, Widths
    <3>2. h[v \div Base + 1] = g[v \div Base]
      BY <2>2, <3>1
    <3> QED
      BY <2>3, <2>4, <2>6, <3>2
  <2> QED
    BY <2>5, <2>6
<1>4. g = F(g)
  BY <1>3, SMTT(30)
<1>5. writeVarint = F(writeVarint)
  BY <1>4 DEF writeVarint
<1> QED
  BY <1>5

LEMMA VarintBytes ==
    ASSUME NEW v \in Nat
    PROVE  writeVarint[v] \in Seq(0 .. Byte - 1) /\ Len(writeVarint[v]) \in Nat
<1> DEFINE V == Seq(0 .. Byte - 1)
           S == {n \in Nat : writeVarint[n] \in V}
<1>1. ASSUME NEW n \in Nat, \A k \in 0 .. n - 1 : k \in S PROVE n \in S
  <2>1. CASE n < Base
    <3>1. <<n>> \in V
      BY <2>1, Widths
    <3> QED
      BY <2>1, <3>1, VarintUnfolds
  <2>2. CASE ~(n < Base)
    <3>1. n >= Base
      BY <2>2, Widths
    <3>2. n \div Base \in 0 .. n - 1 /\ n % Base \in 0 .. Base - 1
      BY <3>1, Shifted
    <3>3. Base + (n % Base) \in 0 .. Byte - 1
      BY <3>2, Widths
    <3>4. writeVarint[n \div Base] \in V
      BY <1>1, <3>2
    <3>5. writeVarint[n] = <<Base + (n % Base)>> \o writeVarint[n \div Base]
      BY <2>2, VarintUnfolds
    <3>6. writeVarint[n] \in V
      BY <3>3, <3>4, <3>5
    <3> QED
      BY <3>6
  <2> QED
    BY <2>1, <2>2
<1>2. Nat \subseteq S
  <2> HIDE DEF S
  <2> QED
    BY <1>1, StrongInduction
<1> QED
  BY <1>2

LEMMA BasePower ==
    ASSUME NEW n \in Nat
    PROVE  Power(Base, n) \in Nat /\ Power(Base, n + 1) = Base * Power(Base, n) /\ Power(Base, 0) = 1
BY PowerOK, Widths

\* A varint of n bytes has at least the (n - 1)th power of Base, and not the nth.
LEMMA VarintLen ==
    ASSUME NEW n \in Nat
    PROVE  \A v \in Nat : v < Power(Base, n + 1) /\ (n > 0 => v >= Power(Base, n))
                          => Len(writeVarint[v]) = n + 1
<1> DEFINE S == {k \in Nat : \A v \in Nat :
                    v < Power(Base, k + 1) /\ (k > 0 => v >= Power(Base, k)) => Len(writeVarint[v]) = k + 1}
<1>1. 0 \in S
  <2>1. Power(Base, 0 + 1) = Base
    BY BasePower, Widths
  <2>2. \A v \in Nat : v < Base => writeVarint[v] = <<v>>
    BY VarintUnfolds
  <2> QED
    BY <2>1, <2>2
<1>2. ASSUME NEW k \in Nat, k \in S PROVE k + 1 \in S
  <2>1. ASSUME NEW v \in Nat, v < Power(Base, (k + 1) + 1), v >= Power(Base, k + 1)
        PROVE  Len(writeVarint[v]) = (k + 1) + 1
    <3>1. PICK p \in Nat : p = Power(Base, k)
      BY BasePower
    <3>2. PICK q \in Nat : q = Power(Base, k + 1) /\ q = Base * p
      BY <3>1, BasePower
    <3>3. Power(Base, (k + 1) + 1) = Base * q
      BY <3>2, BasePower
    <3>4. v < Base * q /\ ~(v < Base * p)
      BY <2>1, <3>2, <3>3, Widths
    <3>5. v \div Base \in Nat /\ v \div Base < q /\ ~(v \div Base < p)
      BY <3>4, Shifted
    <3>6. v \div Base < Power(Base, k + 1) /\ v \div Base >= Power(Base, k)
      BY <3>1, <3>2, <3>5
    <3>7. Len(writeVarint[v \div Base]) = k + 1
      BY <1>2, <3>5, <3>6
    <3>8. p >= 1
      <4>1. CASE p = 0
        BY <3>2, <3>4, <4>1, Widths
      <4> QED
        BY <4>1
    <3>9. ~(v < Base)
      <4>1. Base * p >= Base
        BY <3>8, Widths
      <4> QED
        BY <2>1, <3>2, <4>1, Widths
    <3>10. writeVarint[v] = <<Base + (v % Base)>> \o writeVarint[v \div Base]
      BY <3>9, VarintUnfolds
    <3>11. PICK s \in Seq(0 .. Byte - 1) : s = writeVarint[v \div Base]
      BY <3>5, VarintBytes
    <3>12. Base + (v % Base) \in 0 .. Byte - 1
      <4>1. PICK r \in 0 .. Base - 1 : r = v % Base
        BY Shifted
      <4>2. Base + r \in 0 .. Byte - 1
        BY Widths
      <4> QED
        BY <4>1, <4>2
    <3>13. Len(<<Base + (v % Base)>> \o s) = 1 + Len(s)
      BY <3>12
    <3> QED
      BY <3>7, <3>10, <3>11, <3>13
  <2> QED
    BY <2>1
<1>3. Nat \subseteq S
  <2> HIDE DEF S
  <2> QED
    BY <1>1, <1>2, Induction
<1> QED
  BY <1>3

LEMMA VarintSizeOK ==
    ASSUME NEW v \in Nat
    PROVE  /\ varintSize(v) \in 1 .. MaxVarInt
           /\ v < Power(Base, MaxVarInt) => Len(writeVarint[v]) = varintSize(v)
<1> DEFINE Fits(n) == /\ n = MaxVarInt \/ v < Power(Base, n)
                      /\ \A k \in 1 .. n - 1 : v >= Power(Base, k)
           S == {n \in 1 .. MaxVarInt : n = MaxVarInt \/ v < Power(Base, n)}
<1>1. S \in SUBSET Nat /\ MaxVarInt \in S
  BY Widths
<1>2. PICK m \in S : \A k \in S : m <= k
  <2> HIDE DEF S
  <2> QED
    BY <1>1, Least
<1>3. m \in 1 .. MaxVarInt /\ Fits(m)
  <2>1. ASSUME NEW k \in 1 .. m - 1 PROVE v >= Power(Base, k)
    <3>1. k \notin S /\ k \in 1 .. MaxVarInt /\ Power(Base, k) \in Nat
      BY <1>2, BasePower, Widths
    <3> QED
      BY <3>1
  <2> QED
    BY <1>2, <2>1
<1>4. varintSize(v) \in 1 .. MaxVarInt /\ Fits(varintSize(v))
  BY <1>3 DEF varintSize
<1>5. ASSUME v < Power(Base, MaxVarInt) PROVE Len(writeVarint[v]) = varintSize(v)
  <2>1. PICK n \in Nat : n + 1 = varintSize(v) /\ n + 1 \in 1 .. MaxVarInt
    <3>1. PICK k \in 1 .. MaxVarInt : k = varintSize(v)
      BY <1>4
    <3>2. k - 1 \in Nat /\ (k - 1) + 1 = k
      BY Widths
    <3> QED
      BY <3>1, <3>2
  <2>2. v < Power(Base, n + 1)
    BY <1>4, <1>5, <2>1
  <2>3. n > 0 => v >= Power(Base, n)
    BY <1>4, <2>1
  <2> QED
    BY <2>1, <2>2, <2>3, VarintLen
<1> QED
  BY <1>4, <1>5

-----------------------------------------------------------------------------
(***************************************************************************)
(* Values.                                                                 *)
(***************************************************************************)
Str == Seq(0 .. Byte - 1)

LEMMA BytePower ==
    ASSUME NEW n \in Nat
    PROVE  Power(Byte, n) \in Nat /\ Power(Byte, n) >= 1 /\ Power(Byte, n + 1) >= Byte
<1> DEFINE S == {k \in Nat : Power(Byte, k) \in Nat /\ Power(Byte, k) >= 1}
<1>1. /\ Power(Byte, 0) = 1
      /\ \A k \in Nat : Power(Byte, k) \in Nat /\ Power(Byte, k + 1) = Byte * Power(Byte, k)
  BY PowerOK, Widths
<1>2. ASSUME NEW k \in Nat, Power(Byte, k) \in Nat, Power(Byte, k) >= 1 PROVE Power(Byte, k + 1) >= Byte
  <2>1. PICK p \in Nat : p = Power(Byte, k) /\ p >= 1
    BY <1>2
  <2>2. Byte * p >= Byte
    BY <2>1, Widths
  <2> QED
    BY <1>1, <2>1, <2>2
<1>3. ASSUME NEW k \in Nat, k \in S PROVE k + 1 \in S
  <2>1. Power(Byte, k + 1) \in Nat
    BY <1>1
  <2> QED
    BY <1>2, <1>3, <2>1, Widths
<1>4. Nat \subseteq S
  <2>1. 0 \in S
    BY <1>1
  <2> HIDE DEF S
  <2> QED
    BY <1>3, <2>1, Induction
<1> QED
  BY <1>2, <1>4

LEMMA Words ==
    /\ Word32 \in Nat /\ Word32 > 46 /\ Word64 \in Nat /\ Word32 <= Word64
    /\ Power(Base, MaxVarInt) \in Nat /\ Word64 <= Power(Base, MaxVarInt)
<1>1. PICK n \in Nat : n + 1 = Fixed32
  <2>1. Fixed32 - 1 \in Nat /\ (Fixed32 - 1) + 1 = Fixed32
    BY Widths
  <2> QED
    BY <2>1
<1>2. Word32 \in Nat /\ Word32 >= Byte
  <2>1. Power(Byte, Fixed32) \in Nat
    BY BytePower, Widths
  <2>2. Power(Byte, n + 1) >= Byte
    BY BytePower
  <2> QED
    BY <1>1, <2>1, <2>2 DEF Word32
<1>3. PICK w \in Nat : w = Word32 /\ w > 46
  BY <1>2, Widths
<1>4. w * w >= w /\ w * w \in Nat
  BY <1>3
<1>5. Power(Base, MaxVarInt) \in Nat
  BY BasePower, Widths
<1> QED
  BY <1>2, <1>3, <1>4, <1>5, WidthAssumption DEF Word64

LEMMA ModNat ==
    ASSUME NEW v \in Int, NEW w \in Nat, w > 0
    PROVE  v % w \in 0 .. w - 1
OBVIOUS

LEMMA FixedBytesOK ==
    ASSUME NEW v \in Nat, NEW n \in Nat
    PROVE  FixedBytes(v, n) \in Str /\ Len(FixedBytes(v, n)) = n
<1>1. ASSUME NEW k \in 1 .. n PROVE (v \div Power(Byte, k - 1)) % Byte \in 0 .. Byte - 1
  <2>1. PICK p \in Nat : p = Power(Byte, k - 1) /\ p >= 1
    BY BytePower
  <2>2. v \div p \in Int
    BY <2>1
  <2> QED
    BY <2>1, <2>2, ModNat, Widths
<1>2. FixedBytes(v, n) \in [1 .. n -> 0 .. Byte - 1]
  BY <1>1 DEF FixedBytes
<1> DEFINE T == 0 .. Byte - 1
<1>3. FixedBytes(v, n) \in Seq(T) /\ Len(FixedBytes(v, n)) = n
  <2>1. FixedBytes(v, n) \in [1 .. n -> T]
    BY <1>2
  <2> HIDE DEF T
  <2> QED
    BY <2>1
<1> QED
  BY <1>3 DEF Str

LEMMA ZigZagOK ==
    ASSUME NEW w \in Nat, NEW v \in Ints(w)
    PROVE  v \in Int /\ zigZagEncode(v) \in 0 .. w - 1
BY DEF Ints, zigZagEncode

LEMMA SizedOK ==
    ASSUME NEW m \in Nat, NEW type \in Varint32 \cup Varint64, NEW v \in ValuesOf(type, m)
    PROVE  /\ Sized(type, v) \in Nat /\ Sized(type, v) < Power(Base, MaxVarInt)
           /\ Written(type, v) \in Nat
           /\ (type = "INT64" => v \in 0 .. Word32 - 1) => Written(type, v) = Sized(type, v)
<1>1. CASE type \in {"SINT32", "SINT64"}
  <2>1. zigZagEncode(v) \in Nat /\ zigZagEncode(v) < Word64
    <3>1. CASE type = "SINT32"
      <4>1. v \in Ints(Word32)
        BY <3>1 DEF ValuesOf
      <4> QED
        BY <4>1, ZigZagOK, Words
    <3>2. CASE type = "SINT64"
      <4>1. v \in Ints(Word64)
        BY <3>2 DEF ValuesOf
      <4> QED
        BY <4>1, ZigZagOK, Words
    <3> QED
      BY <1>1, <3>1, <3>2
  <2>2. Sized(type, v) = zigZagEncode(v)
    BY <1>1 DEF Sized, Varint32, Varint64
  <2>3. Written(type, v) = Sized(type, v)
    BY <1>1 DEF Written
  <2> QED
    BY <2>1, <2>2, <2>3, Words
<1>2. CASE type \notin {"SINT32", "SINT64"}
  <2>1. v \in Int
    BY <1>2, Words DEF ValuesOf, Ints, Varint32, Varint64
  <2>2. v % Word32 \in 0 .. Word32 - 1 /\ v % Word64 \in 0 .. Word64 - 1
    BY <2>1, ModNat, Words
  <2>3. CASE type \in Varint32
    <3>1. Sized(type, v) = v % Word32
      BY <1>2, <2>3 DEF Sized, Varint32, Varint64
    <3>2. Written(type, v) = Sized(type, v)
      BY <2>3 DEF Written, Varint32
    <3> QED
      BY <2>2, <3>1, <3>2, Words
  <2>4. CASE type \in {"INT64", "UINT64"}
    <3>1. Sized(type, v) = v % Word64
      BY <2>4 DEF Sized, Varint32, Varint64
    <3>2. Written(type, v) = IF type = "INT64" THEN v % Word32 ELSE v % Word64
      BY <3>1 DEF Written
    <3>3. v \in 0 .. Word32 - 1 => v % Word32 = v /\ v % Word64 = v
      BY Words
    <3> QED
      BY <2>2, <3>1, <3>2, <3>3, Words
  <2> QED
    BY <1>2, <2>3, <2>4 DEF Varint64
<1> QED
  BY <1>1, <1>2

\* The tags of fields, and those inside of a map's entry.
LEMMA TagOK ==
    ASSUME NEW n \in Nat, NEW type \in FieldTypes
    PROVE  /\ TagSize(n, type) \in Nat /\ writeTag(n, type) \in Str
           /\ Len(writeTag(n, type)) = TagSize(n, type)
           /\ n \in {1, 2} => TagSize(n, type) = 1
<1>1. PICK w \in {0, 1, 2, 5} : w = fieldType2WireType(type)
  BY DEF FieldTypes, fieldType2WireType, Varint32, Varint64, FixedTypes32, FixedTypes64, Delimited,
         WIRETYPE_LENGTH_DELIMITED
<1>2. PICK t \in Nat : t = Tag(n, w) /\ t < Word32
  BY ModNat, Words DEF Tag
<1>3. t < Power(Base, MaxVarInt)
  BY <1>2, Words
<1>4. TagSize(n, type) = varintSize(t) /\ writeTag(n, type) = writeVarint[t]
  BY <1>1, <1>2 DEF TagSize, writeTag
<1>5. n \in {1, 2} => varintSize(t) = 1
  <2>1. SUFFICES ASSUME n \in {1, 2} PROVE varintSize(t) = 1
    OBVIOUS
  <2>2. 8 * n + w < 23 /\ 8 * n + w \in Nat
    BY <2>1
  <2>3. t = 8 * n + w
    BY <1>2, <2>2, Words DEF Tag
  <2>4. t < Base
    BY <2>2, <2>3, Widths
  <2>5. writeVarint[t] = <<t>>
    BY <2>4, VarintUnfolds
  <2> QED
    BY <1>3, <2>5, VarintSizeOK
<1> QED
  BY <1>2, <1>3, <1>4, <1>5, VarintSizeOK, VarintBytes, Widths DEF Str

\* The sizes, or the bytes, of the messages inside of message m.
NatBelow(size, m) == \A v \in 1 .. m - 1 : size[v] \in Nat
StrBelow(bytes, m) == \A v \in 1 .. m - 1 : bytes[v] \in Str
Agree(g, h, m) == \A v \in 1 .. m - 1 : g[v] = h[v]

LEMMA ValueSizeOK ==
    ASSUME NEW m \in Nat, NEW type \in FieldTypes, NEW v \in ValuesOf(type, m), NEW g, NatBelow(g, m)
    PROVE  valueSize(type, v, g) \in Nat
<1>1. CASE type \in Varint32 \cup Varint64
  <2>1. valueSize(type, v, g) = varintSize(Sized(type, v))
    BY <1>1 DEF valueSize, Varint32, Varint64, FixedTypes32, FixedTypes64
  <2>2. varintSize(Sized(type, v)) \in Nat
    <3>1. PICK n \in Nat : n = Sized(type, v)
      BY <1>1, SizedOK
    <3>2. varintSize(n) \in 1 .. MaxVarInt
      BY VarintSizeOK
    <3> QED BY <3>1, <3>2, Widths
  <2> QED
    BY <2>1, <2>2
<1>2. CASE type \in FixedTypes32
  BY <1>2, Widths DEF valueSize, Varint32, Varint64, FixedTypes32, FixedTypes64
<1>3. CASE type \in FixedTypes64
  BY <1>3, Widths DEF valueSize, Varint32, Varint64, FixedTypes32, FixedTypes64
<1>4. CASE type \in {"STRING", "BYTES"}
  <2>1. v \in Str
    BY <1>4 DEF ValuesOf, Str
  <2>2. valueSize(type, v, g) = Len(v)
    BY <1>4 DEF valueSize, Varint32, Varint64, FixedTypes32, FixedTypes64
  <2> QED
    BY <2>1, <2>2 DEF Str
<1>5. CASE type = "MESSAGE"
  <2>1. v \in 1 .. m - 1
    BY <1>5 DEF ValuesOf
  <2>2. valueSize(type, v, g) = g[v]
    BY <1>5 DEF valueSize, Varint32, Varint64, FixedTypes32, FixedTypes64
  <2> QED
    BY <2>1, <2>2 DEF NatBelow
<1> QED
  BY <1>1, <1>2, <1>3, <1>4, <1>5 DEF FieldTypes, Delimited

LEMMA ValueSizeSame ==
    ASSUME NEW m \in Nat, NEW type \in FieldTypes, NEW v \in ValuesOf(type, m),
           NEW g, NEW h, Agree(g, h, m)
    PROVE  valueSize(type, v, g) = valueSize(type, v, h)
<1>1. CASE type = "MESSAGE"
  <2>1. v \in 1 .. m - 1
    BY <1>1 DEF ValuesOf
  <2>2. valueSize(type, v, g) = g[v] /\ valueSize(type, v, h) = h[v]
    BY <1>1 DEF valueSize, Varint32, Varint64, FixedTypes32, FixedTypes64
  <2> QED
    BY <2>1, <2>2 DEF Agree
<1>2. CASE type # "MESSAGE"
  BY <1>2 DEF valueSize
<1> QED
  BY <1>1, <1>2

LEMMA WithLengthOK ==
    ASSUME NEW type, NEW n \in Nat
    PROVE  WithLength(type, n) \in Nat /\ n <= WithLength(type, n)
BY VarintSizeOK, Widths DEF WithLength

-----------------------------------------------------------------------------
(***************************************************************************)
(* Fields.                                                                 *)
(***************************************************************************)
IsElement(f, e, m) ==
    IF f.shape = "map" THEN e \in ValuesOf(f.type, m) \X ValuesOf(f.type2, m)
    ELSE e \in ValuesOf(f.type, m)

LEMMA FieldParts ==
    ASSUME NEW m \in Nat, NEW f, IsField(f, m)
    PROVE  /\ f.number \in Nat /\ f.type \in FieldTypes
           /\ f.shape = "map" => f.type2 \in FieldTypes
           /\ Len(f.values) \in Nat /\ DOMAIN f.values = 1 .. Len(f.values)
           /\ \A k \in 1 .. Len(f.values) : IsElement(f, f.values[k], m)
<1>1. CASE f.shape = "map"
  <2> DEFINE S == ValuesOf(f.type, m) \X ValuesOf(f.type2, m)
  <2>1. f.values \in Seq(S) /\ f.type2 \in FieldTypes
    BY <1>1 DEF IsField
  <2> HIDE DEF S
  <2>2. Len(f.values) \in Nat /\ DOMAIN f.values = 1 .. Len(f.values)
    BY <2>1
  <2>3. \A k \in 1 .. Len(f.values) : f.values[k] \in S
    BY <2>1
  <2> QED
    BY <1>1, <2>1, <2>2, <2>3 DEF IsField, IsElement, S
<1>2. CASE f.shape # "map"
  <2> DEFINE S == ValuesOf(f.type, m)
  <2>1. f.values \in Seq(S)
    BY <1>2 DEF IsField
  <2> HIDE DEF S
  <2>2. Len(f.values) \in Nat /\ DOMAIN f.values = 1 .. Len(f.values)
    BY <2>1
  <2>3. \A k \in 1 .. Len(f.values) : f.values[k] \in S
    BY <2>1
  <2> QED
    BY <1>2, <2>2, <2>3 DEF IsField, IsElement, S
<1> QED
  BY <1>1, <1>2

LEMMA EntrySizeOK ==
    ASSUME NEW m \in Nat, NEW f, IsField(f, m), f.shape = "map", NEW e, IsElement(f, e, m),
           NEW g, NatBelow(g, m)
    PROVE  EntrySize(f, e, g) \in Nat
<1>1. e[1] \in ValuesOf(f.type, m) /\ e[2] \in ValuesOf(f.type2, m)
  BY DEF IsElement
<1>2. f.type \in FieldTypes /\ f.type2 \in FieldTypes
  BY FieldParts
<1>3. PICK a \in Nat : a = valueSize(f.type, e[1], g)
  BY <1>1, <1>2, ValueSizeOK
<1>4. PICK b \in Nat : b = valueSize(f.type2, e[2], g)
  BY <1>1, <1>2, ValueSizeOK
<1>5. WithLength(f.type, a) \in Nat /\ WithLength(f.type2, b) \in Nat
  BY WithLengthOK
<1> QED
  BY <1>3, <1>4, <1>5 DEF EntrySize

LEMMA ElementSizeOK ==
    ASSUME NEW m \in Nat, NEW f, IsField(f, m), NEW e, IsElement(f, e, m), NEW g, NatBelow(g, m)
    PROVE  ElementSize(f, e, g) \in Nat
<1>1. CASE f.shape = "map"
  <2>1. EntrySize(f, e, g) \in Nat
    BY <1>1, EntrySizeOK
  <2>2. WithLength("MESSAGE", EntrySize(f, e, g)) \in Nat
    BY <2>1, WithLengthOK
  <2>3. "MESSAGE" \in FieldTypes
    BY DEF FieldTypes, Delimited
  <2>4. TagSize(f.number, "MESSAGE") \in Nat
    BY <2>3, TagOK, FieldParts
  <2> QED
    BY <1>1, <2>2, <2>4 DEF ElementSize
<1>2. CASE f.shape # "map"
  <2>1. valueSize(f.type, e, g) \in Nat
    BY <1>2, ValueSizeOK, FieldParts DEF IsElement
  <2>2. WithLength(f.type, valueSize(f.type, e, g)) \in Nat
    BY <2>1, WithLengthOK
  <2>3. TagSize(f.number, f.type) \in Nat
    BY TagOK, FieldParts
  <2> QED
    BY <1>2, <2>2, <2>3 DEF ElementSize
<1> QED
  BY <1>1, <1>2

LEMMA ElementSizeSame ==
    ASSUME NEW m \in Nat, NEW f, IsField(f, m), NEW e, IsElement(f, e, m),
           NEW g, NEW h, Agree(g, h, m)
    PROVE  ElementSize(f, e, g) = ElementSize(f, e, h)
<1>1. CASE f.shape = "map"
  <2>1. e[1] \in ValuesOf(f.type, m) /\ e[2] \in ValuesOf(f.type2, m)
    BY <1>1 DEF IsElement
  <2>2. f.type \in FieldTypes /\ f.type2 \in FieldTypes
    BY <1>1, FieldParts
  <2>3. /\ valueSize(f.type, e[1], g) = valueSize(f.type, e[1], h)
        /\ valueSize(f.type2, e[2], g) = valueSize(f.type2, e[2], h)
    BY <2>1, <2>2, ValueSizeSame
  <2> QED
    BY <1>1, <2>3 DEF ElementSize, EntrySize
<1>2. CASE f.shape # "map"
  <2>1. valueSize(f.type, e, g) = valueSize(f.type, e, h)
    BY <1>2, ValueSizeSame, FieldParts DEF IsElement
  <2> QED
    BY <1>2, <2>1 DEF ElementSize
<1> QED
  BY <1>1, <1>2

\* What the elements of a field count for, each.
ElementSizes(f, g) == [k \in DOMAIN f.values |-> ElementSize(f, f.values[k], g)]
PackedSizes(f, g) == [k \in DOMAIN f.values |-> varintSize(valueSize(f.type, f.values[k], g))]

LEMMA SizesOK ==
    ASSUME NEW m \in Nat, NEW f, IsField(f, m), NEW g, NatBelow(g, m)
    PROVE  /\ ElementSizes(f, g) \in [1 .. Len(f.values) -> Nat]
           /\ f.shape = "packed" => PackedSizes(f, g) \in [1 .. Len(f.values) -> Nat]
<1>1. \A k \in 1 .. Len(f.values) : ElementSize(f, f.values[k], g) \in Nat
  BY FieldParts, ElementSizeOK
<1>2. ASSUME f.shape = "packed", NEW k \in 1 .. Len(f.values)
      PROVE  varintSize(valueSize(f.type, f.values[k], g)) \in Nat
  <2>1. f.values[k] \in ValuesOf(f.type, m)
    BY <1>2, FieldParts DEF IsElement
  <2>2. valueSize(f.type, f.values[k], g) \in Nat
    BY <2>1, FieldParts, ValueSizeOK
  <2> QED
    BY <2>2, VarintSizeOK, Widths
<1>3. DOMAIN f.values = 1 .. Len(f.values)
  BY FieldParts
<1> QED
  BY <1>1, <1>2, <1>3 DEF ElementSizes, PackedSizes

LEMMA SizesSame ==
    ASSUME NEW m \in Nat, NEW f, IsField(f, m), NEW g, NEW h, Agree(g, h, m)
    PROVE  /\ ElementSizes(f, g) = ElementSizes(f, h)
           /\ f.shape = "packed" => PackedSizes(f, g) = PackedSizes(f, h)
<1>1. \A k \in 1 .. Len(f.values) : ElementSize(f, f.values[k], g) = ElementSize(f, f.values[k], h)
  BY FieldParts, ElementSizeSame
<1>2. ASSUME f.shape = "packed", NEW k \in 1 .. Len(f.values)
      PROVE  valueSize(f.type, f.values[k], g) = valueSize(f.type, f.values[k], h)
  <2>1. f.values[k] \in ValuesOf(f.type, m)
    BY <1>2, FieldParts DEF IsElement
  <2> QED
    BY <2>1, FieldParts, ValueSizeSame
<1>3. DOMAIN f.values = 1 .. Len(f.values)
  BY FieldParts
<1> QED
  BY <1>1, <1>2, <1>3 DEF ElementSizes, PackedSizes

LEMMA FieldSizeOK ==
    ASSUME NEW m \in Nat, NEW f, IsField(f, m), NEW g, NatBelow(g, m)
    PROVE  fieldSize(f, g) \in Nat
<1>1. Sum(ElementSizes(f, g)) \in Nat
  BY SizesOK, SumNat, FieldParts
<1>2. ASSUME f.shape = "packed" PROVE WithLength("BYTES", PackedSize(f, g)) \in Nat
  <2>1. Sum(PackedSizes(f, g)) \in Nat
    BY <1>2, SizesOK, SumNat, FieldParts
  <2> QED
    BY <2>1, WithLengthOK DEF PackedSize, PackedSizes
<1> QED
  BY <1>1, <1>2 DEF fieldSize, ElementSizes

LEMMA FieldSizeSame ==
    ASSUME NEW m \in Nat, NEW f, IsField(f, m), NEW g, NEW h, Agree(g, h, m)
    PROVE  fieldSize(f, g) = fieldSize(f, h)
<1>1. Sum(ElementSizes(f, g)) = Sum(ElementSizes(f, h))
  BY SizesSame
<1>2. f.shape = "packed" => PackedSize(f, g) = PackedSize(f, h)
  BY SizesSame DEF PackedSize, PackedSizes
<1> QED
  BY <1>1, <1>2 DEF fieldSize, ElementSizes

-----------------------------------------------------------------------------
(***************************************************************************)
(* What is defined from message to message is defined: each uses only what *)
(* is inside of it.                                                        *)
(***************************************************************************)
LEMMA MessageParts ==
    ASSUME NEW m \in DOMAIN Messages
    PROVE  /\ m \in Nat \ {0} /\ 1 .. m - 1 \subseteq DOMAIN Messages
           /\ Len(Messages[m]) \in Nat /\ DOMAIN Messages[m] = 1 .. Len(Messages[m])
           /\ \A k \in 1 .. Len(Messages[m]) : IsField(Messages[m][k], m)
BY MessagesAssumption

SizesIn(m, g) == [k \in DOMAIN Messages[m] |-> fieldSize(Messages[m][k], g)]

LEMMA SizesInOK ==
    ASSUME NEW m \in DOMAIN Messages, NEW g, NatBelow(g, m)
    PROVE  /\ SizesIn(m, g) \in [1 .. Len(Messages[m]) -> Nat]
           /\ Sum(SizesIn(m, g)) \in Nat
<1>1. \A k \in 1 .. Len(Messages[m]) : fieldSize(Messages[m][k], g) \in Nat
  BY MessageParts, FieldSizeOK
<1>2. SizesIn(m, g) \in [1 .. Len(Messages[m]) -> Nat]
  BY <1>1, MessageParts DEF SizesIn
<1> QED
  BY <1>2, MessageParts, SumNat

LEMMA SizesInSame ==
    ASSUME NEW m \in DOMAIN Messages, NEW g, NEW h, Agree(g, h, m)
    PROVE  SizesIn(m, g) = SizesIn(m, h)
<1>1. \A k \in 1 .. Len(Messages[m]) : fieldSize(Messages[m][k], g) = fieldSize(Messages[m][k], h)
  BY MessageParts, FieldSizeSame
<1> QED
  BY <1>1, MessageParts DEF SizesIn

LEMMA SizeUnfolds == Size = [m \in DOMAIN Messages |-> Sum(SizesIn(m, Size))]
<1> DEFINE F(g) == [m \in DOMAIN Messages |-> Sum(SizesIn(m, g))]
           D == [h \in Seq(Nat) |-> IF Len(h) + 1 \in DOMAIN Messages
                                    THEN Sum(SizesIn(Len(h) + 1, h)) ELSE 0]
<1>1. D \in [Seq(Nat) -> Nat]
  <2>1. ASSUME NEW h \in Seq(Nat), Len(h) + 1 \in DOMAIN Messages
        PROVE  Sum(SizesIn(Len(h) + 1, h)) \in Nat
    <3>1. PICK m \in DOMAIN Messages : m = Len(h) + 1
      BY <2>1
    <3>2. NatBelow(h, m)
      BY <3>1 DEF NatBelow
    <3> QED
      BY <3>1, <3>2, SizesInOK
  <2> QED
    BY <2>1
<1>2. PICK g \in [Nat -> Nat] : \A n \in Nat : \A h \in Seq(Nat) :
          Len(h) = n /\ (\A i \in 1 .. n : h[i] = g[i - 1]) => g[n] = D[h]
  <2> HIDE DEF D
  <2> QED
    BY <1>1, CourseOfValues
<1> DEFINE G == [m \in DOMAIN Messages |-> g[m - 1]]
<1>3. ASSUME NEW m \in DOMAIN Messages PROVE G[m] = Sum(SizesIn(m, G))
  <2>1. PICK n \in Nat : n + 1 = m
    <3>1. m - 1 \in Nat /\ (m - 1) + 1 = m
      BY MessageParts, SMTT(30)
    <3> QED
      BY <3>1
  <2> DEFINE h == [i \in 1 .. n |-> g[i - 1]]
  <2>2. h \in Seq(Nat) /\ Len(h) = n
    OBVIOUS
  <2>3. \A i \in 1 .. n : h[i] = g[i - 1]
    OBVIOUS
  <2> HIDE DEF h
  <2>4. g[n] = D[h]
    <3> HIDE DEF D
    <3> QED
      BY <1>2, <2>2, <2>3
  <2>5. D[h] = Sum(SizesIn(m, h))
    BY <2>1, <2>2
  <2>6. Agree(h, G, m)
    <3>1. ASSUME NEW i \in 1 .. m - 1 PROVE h[i] = G[i]
      <4>1. i \in 1 .. n /\ i \in DOMAIN Messages
        <5>1. i \in DOMAIN Messages
          BY MessageParts
        <5>2. m - 1 = n
          BY <2>1
        <5> QED
          BY <5>1, <5>2
      <4> QED
        BY <2>3, <4>1
    <3> QED
      BY <3>1 DEF Agree
  <2>7. SizesIn(m, h) = SizesIn(m, G)
    <3> HIDE DEF G
    <3> QED
      BY <2>6, SizesInSame
  <2>8. G[m] = g[n]
    BY <2>1
  <2> QED
    BY <2>4, <2>5, <2>7, <2>8
<1>4. G = F(G)
  BY <1>3
<1> HIDE DEF G
<1>5. \E f : f = F(f)
  BY <1>4
<1>6. Size = CHOOSE f : f = F(f)
  BY DEF Size, SizesIn
<1> QED
  BY <1>5, <1>6

LEMMA SizeOK ==
    ASSUME NEW m \in DOMAIN Messages
    PROVE  Size[m] \in Nat /\ NatBelow(Size, m) /\ Size[m] = Sum(SizesIn(m, Size))
<1> DEFINE S == {n \in Nat : n \in DOMAIN Messages => Size[n] \in Nat}
<1>1. ASSUME NEW n \in Nat, \A k \in 0 .. n - 1 : k \in S PROVE n \in S
  <2>1. CASE n \in DOMAIN Messages
    <3>1. NatBelow(Size, n)
      <4>1. ASSUME NEW v \in 1 .. n - 1 PROVE Size[v] \in Nat
        <5>1. v \in 0 .. n - 1 /\ v \in DOMAIN Messages
          BY <2>1, MessageParts
        <5> QED
          BY <1>1, <5>1
      <4> QED
        BY <4>1 DEF NatBelow
    <3>2. Size[n] = Sum(SizesIn(n, Size))
      BY <2>1, SizeUnfolds
    <3> QED
      BY <2>1, <3>1, <3>2, SizesInOK
  <2> QED
    BY <2>1
<1>2. Nat \subseteq S
  <2> HIDE DEF S
  <2> QED
    BY <1>1, StrongInduction
<1>3. \A n \in DOMAIN Messages : Size[n] \in Nat
  BY <1>2, MessageParts
<1>4. NatBelow(Size, m)
  BY <1>3, MessageParts DEF NatBelow
<1>5. Size[m] = Sum(SizesIn(m, Size))
  BY SizeUnfolds
<1> QED
  BY <1>3, <1>4, <1>5

-----------------------------------------------------------------------------
(***************************************************************************)
(* What is written.                                                        *)
(***************************************************************************)
LEMMA Concat ==
    ASSUME NEW a \in Str, NEW b \in Str
    PROVE  a \o b \in Str /\ Len(a \o b) = Len(a) + Len(b) /\ Len(a) \in Nat /\ Len(b) \in Nat
<1> DEFINE T == 0 .. Byte - 1
<1>1. a \in Seq(T) /\ b \in Seq(T)
  BY DEF Str
<1> HIDE DEF T
<1>2. a \o b \in Seq(T) /\ Len(a \o b) = Len(a) + Len(b) /\ Len(a) \in Nat /\ Len(b) \in Nat
  BY <1>1
<1> QED
  BY <1>2 DEF Str, T

LEMMA VarintStr == ASSUME NEW v \in Nat PROVE writeVarint[v] \in Str
BY VarintBytes DEF Str

LEMMA WriteValueOK ==
    ASSUME NEW m \in DOMAIN Messages, NEW type \in FieldTypes, NEW v \in ValuesOf(type, m),
           NEW b, StrBelow(b, m)
    PROVE  writeValue(type, v, b) \in Str
<1>1. CASE type \in Varint32 \cup Varint64
  <2>1. writeValue(type, v, b) = writeVarint[Written(type, v)]
    BY <1>1 DEF writeValue, Varint32, Varint64, FixedTypes32, FixedTypes64
  <2> QED
    BY <1>1, <2>1, SizedOK, VarintStr, MessageParts
<1>2. CASE type \in FixedTypes32 \cup FixedTypes64
  <2>1. v \in Int
    BY <1>2, Words DEF ValuesOf, Ints, FixedTypes32, FixedTypes64
  <2>2. v % Word32 \in Nat /\ v % Word64 \in Nat
    BY <2>1, ModNat, Words
  <2>3. FixedBytes(v % Word32, Fixed32) \in Str /\ FixedBytes(v % Word64, 2 * Fixed32) \in Str
    BY <2>2, FixedBytesOK, Widths
  <2> QED
    BY <1>2, <2>3 DEF writeValue, Varint32, Varint64, FixedTypes32, FixedTypes64
<1>3. CASE type \in {"STRING", "BYTES"}
  <2>1. v \in Str /\ Len(v) \in Nat
    BY <1>3 DEF ValuesOf, Str
  <2>2. writeValue(type, v, b) = writeVarint[Len(v)] \o v
    BY <1>3 DEF writeValue, Varint32, Varint64, FixedTypes32, FixedTypes64
  <2> QED
    BY <2>1, <2>2, VarintStr, Concat
<1>4. CASE type = "MESSAGE"
  <2>1. v \in 1 .. m - 1
    BY <1>4 DEF ValuesOf
  <2>2. Size[v] \in Nat /\ b[v] \in Str
    BY <2>1, SizeOK DEF NatBelow, StrBelow
  <2>3. writeValue(type, v, b) = writeVarint[Size[v]] \o b[v]
    BY <1>4 DEF writeValue, Varint32, Varint64, FixedTypes32, FixedTypes64
  <2> QED
    BY <2>2, <2>3, VarintStr, Concat
<1> QED
  BY <1>1, <1>2, <1>3, <1>4 DEF FieldTypes, Delimited

LEMMA WriteValueSame ==
    ASSUME NEW m \in Nat, NEW type \in FieldTypes, NEW v \in ValuesOf(type, m),
           NEW b, NEW c, Agree(b, c, m)
    PROVE  writeValue(type, v, b) = writeValue(type, v, c)
<1>1. CASE type = "MESSAGE"
  <2>1. v \in 1 .. m - 1
    BY <1>1 DEF ValuesOf
  <2>2. b[v] = c[v]
    BY <2>1 DEF Agree
  <2>3. /\ writeValue(type, v, b) = writeVarint[Size[v]] \o b[v]
        /\ writeValue(type, v, c) = writeVarint[Size[v]] \o c[v]
    BY <1>1 DEF writeValue, Varint32, Varint64, FixedTypes32, FixedTypes64
  <2> QED
    BY <2>2, <2>3
<1>2. CASE type # "MESSAGE"
  BY <1>2 DEF writeValue
<1> QED
  BY <1>1, <1>2

LEMMA MessageType == "MESSAGE" \in FieldTypes /\ "BYTES" \in FieldTypes
BY DEF FieldTypes, Delimited

\* The parts of an entry of a map.
LEMMA EntryOK ==
    ASSUME NEW m \in DOMAIN Messages, NEW f, IsField(f, m), f.shape = "map",
           NEW e, IsElement(f, e, m), NEW b, StrBelow(b, m)
    PROVE  /\ EntrySize(f, e, Size) \in Nat
           /\ writeTag(f.number, "MESSAGE") \in Str /\ writeVarint[EntrySize(f, e, Size)] \in Str
           /\ writeTag(1, f.type) \in Str /\ writeTag(2, f.type2) \in Str
           /\ writeValue(f.type, e[1], b) \in Str /\ writeValue(f.type2, e[2], b) \in Str
<1>1. f.type \in FieldTypes /\ f.type2 \in FieldTypes /\ f.number \in Nat /\ m \in Nat
  BY FieldParts, MessageParts
<1>2. e[1] \in ValuesOf(f.type, m) /\ e[2] \in ValuesOf(f.type2, m)
  BY DEF IsElement
<1>3. EntrySize(f, e, Size) \in Nat
  BY <1>1, EntrySizeOK, SizeOK
<1> QED
  BY <1>1, <1>2, <1>3, TagOK, MessageType, VarintStr, WriteValueOK

LEMMA WriteElementOK ==
    ASSUME NEW m \in DOMAIN Messages, NEW f, IsField(f, m), NEW e, IsElement(f, e, m),
           NEW b, StrBelow(b, m)
    PROVE  WriteElement(f, e, b) \in Str
<1>1. CASE f.shape = "map"
  <2>1. WriteElement(f, e, b) =
            ((((writeTag(f.number, "MESSAGE") \o writeVarint[EntrySize(f, e, Size)])
               \o writeTag(1, f.type)) \o writeValue(f.type, e[1], b))
             \o writeTag(2, f.type2)) \o writeValue(f.type2, e[2], b)
    BY <1>1 DEF WriteElement
  <2> QED
    BY <1>1, <2>1, EntryOK, Concat
<1>2. CASE f.shape # "map"
  <2>1. writeTag(f.number, f.type) \in Str
    BY TagOK, FieldParts, MessageParts
  <2>2. writeValue(f.type, e, b) \in Str
    BY <1>2, WriteValueOK, FieldParts, MessageParts DEF IsElement
  <2> QED
    BY <1>2, <2>1, <2>2, Concat DEF WriteElement
<1> QED
  BY <1>1, <1>2

LEMMA WriteElementSame ==
    ASSUME NEW m \in Nat, NEW f, IsField(f, m), NEW e, IsElement(f, e, m),
           NEW b, NEW c, Agree(b, c, m)
    PROVE  WriteElement(f, e, b) = WriteElement(f, e, c)
<1>1. CASE f.shape = "map"
  <2>1. e[1] \in ValuesOf(f.type, m) /\ e[2] \in ValuesOf(f.type2, m)
    BY <1>1 DEF IsElement
  <2>2. f.type \in FieldTypes /\ f.type2 \in FieldTypes
    BY <1>1, FieldParts
  <2>3. /\ writeValue(f.type, e[1], b) = writeValue(f.type, e[1], c)
        /\ writeValue(f.type2, e[2], b) = writeValue(f.type2, e[2], c)
    BY <2>1, <2>2, WriteValueSame
  <2> QED
    BY <1>1, <2>3 DEF WriteElement
<1>2. CASE f.shape # "map"
  <2>1. writeValue(f.type, e, b) = writeValue(f.type, e, c)
    BY <1>2, WriteValueSame, FieldParts DEF IsElement
  <2> QED
    BY <1>2, <2>1 DEF WriteElement
<1> QED
  BY <1>1, <1>2

\* What the elements of a field are written as, each.
ElementBytes(f, b) == [k \in DOMAIN f.values |-> WriteElement(f, f.values[k], b)]
PackedBytes(f, b) == [k \in DOMAIN f.values |-> writeValue(f.type, f.values[k], b)]

LEMMA FlattenStr ==
    ASSUME NEW n \in Nat, NEW s \in [1 .. n -> Str]
    PROVE  FlattenSeq(s) \in Str /\ Len(FlattenSeq(s)) = Sum([k \in 1 .. n |-> Len(s[k])])
BY FlattenOK DEF Str

LEMMA BytesOK ==
    ASSUME NEW m \in DOMAIN Messages, NEW f, IsField(f, m), NEW b, StrBelow(b, m)
    PROVE  /\ ElementBytes(f, b) \in [1 .. Len(f.values) -> Str]
           /\ f.shape = "packed" => PackedBytes(f, b) \in [1 .. Len(f.values) -> Str]
<1>1. \A k \in 1 .. Len(f.values) : WriteElement(f, f.values[k], b) \in Str
  BY FieldParts, MessageParts, WriteElementOK
<1>2. ASSUME f.shape = "packed", NEW k \in 1 .. Len(f.values)
      PROVE  writeValue(f.type, f.values[k], b) \in Str
  <2>1. f.values[k] \in ValuesOf(f.type, m)
    BY <1>2, FieldParts, MessageParts DEF IsElement
  <2> QED
    BY <2>1, FieldParts, MessageParts, WriteValueOK
<1>3. DOMAIN f.values = 1 .. Len(f.values)
  BY FieldParts, MessageParts
<1> QED
  BY <1>1, <1>2, <1>3 DEF ElementBytes, PackedBytes

LEMMA BytesSame ==
    ASSUME NEW m \in Nat, NEW f, IsField(f, m), NEW b, NEW c, Agree(b, c, m)
    PROVE  /\ ElementBytes(f, b) = ElementBytes(f, c)
           /\ f.shape = "packed" => PackedBytes(f, b) = PackedBytes(f, c)
<1>1. \A k \in 1 .. Len(f.values) : WriteElement(f, f.values[k], b) = WriteElement(f, f.values[k], c)
  BY FieldParts, WriteElementSame
<1>2. ASSUME f.shape = "packed", NEW k \in 1 .. Len(f.values)
      PROVE  writeValue(f.type, f.values[k], b) = writeValue(f.type, f.values[k], c)
  <2>1. f.values[k] \in ValuesOf(f.type, m)
    BY <1>2, FieldParts DEF IsElement
  <2>2. f.type \in FieldTypes
    BY FieldParts
  <2> QED
    BY <2>1, <2>2, WriteValueSame
<1>3. DOMAIN f.values = 1 .. Len(f.values)
  BY FieldParts
<1> QED
  BY <1>1, <1>2, <1>3 DEF ElementBytes, PackedBytes

LEMMA WriteFieldOK ==
    ASSUME NEW m \in DOMAIN Messages, NEW f, IsField(f, m), NEW b, StrBelow(b, m)
    PROVE  writeField(f, b) \in Str
<1>1. <<>> \in Str
  BY DEF Str
<1>2. FlattenSeq(ElementBytes(f, b)) \in Str
  BY BytesOK, FlattenStr, FieldParts, MessageParts
<1>3. ASSUME f.shape = "packed" PROVE WritePacked(f, b) \in Str
  <2>1. FlattenSeq(PackedBytes(f, b)) \in Str
    BY <1>3, BytesOK, FlattenStr, FieldParts, MessageParts
  <2>2. PackedSize(f, Size) \in Nat
    <3>1. Sum(PackedSizes(f, Size)) \in Nat
      BY <1>3, SizesOK, SizeOK, SumNat, FieldParts, MessageParts
    <3> QED
      BY <3>1 DEF PackedSize, PackedSizes
  <2>3. writeTag(f.number, "BYTES") \in Str
    BY TagOK, MessageType, FieldParts, MessageParts
  <2>4. WritePacked(f, b) = (writeTag(f.number, "BYTES") \o writeVarint[PackedSize(f, Size)])
                            \o FlattenSeq(PackedBytes(f, b))
    BY DEF WritePacked, PackedBytes
  <2> QED
    BY <2>1, <2>2, <2>3, <2>4, VarintStr, Concat
<1> QED
  BY <1>1, <1>2, <1>3 DEF writeField, ElementBytes

LEMMA WriteFieldSame ==
    ASSUME NEW m \in Nat, NEW f, IsField(f, m), NEW b, NEW c, Agree(b, c, m)
    PROVE  writeField(f, b) = writeField(f, c)
<1>1. FlattenSeq(ElementBytes(f, b)) = FlattenSeq(ElementBytes(f, c))
  BY BytesSame
<1>2. f.shape = "packed" => WritePacked(f, b) = WritePacked(f, c)
  <2>1. \A g : WritePacked(f, g) = (writeTag(f.number, "BYTES") \o writeVarint[PackedSize(f, Size)])
                                   \o FlattenSeq(PackedBytes(f, g))
    BY DEF WritePacked, PackedBytes
  <2>2. f.shape = "packed" => PackedBytes(f, b) = PackedBytes(f, c)
    BY BytesSame
  <2> QED
    BY <2>1, <2>2
<1> QED
  BY <1>1, <1>2 DEF writeField, ElementBytes

BytesIn(m, b) == [k \in DOMAIN Messages[m] |-> writeField(Messages[m][k], b)]

LEMMA BytesInOK ==
    ASSUME NEW m \in DOMAIN Messages, NEW b, StrBelow(b, m)
    PROVE  /\ BytesIn(m, b) \in [1 .. Len(Messages[m]) -> Str]
           /\ FlattenSeq(BytesIn(m, b)) \in Str
<1>1. \A k \in 1 .. Len(Messages[m]) : writeField(Messages[m][k], b) \in Str
  BY MessageParts, WriteFieldOK
<1>2. BytesIn(m, b) \in [1 .. Len(Messages[m]) -> Str]
  BY <1>1, MessageParts DEF BytesIn
<1> QED
  BY <1>2, MessageParts, FlattenStr

LEMMA BytesInSame ==
    ASSUME NEW m \in DOMAIN Messages, NEW b, NEW c, Agree(b, c, m)
    PROVE  BytesIn(m, b) = BytesIn(m, c)
<1>1. \A k \in 1 .. Len(Messages[m]) : writeField(Messages[m][k], b) = writeField(Messages[m][k], c)
  BY MessageParts, WriteFieldSame
<1> QED
  BY <1>1, MessageParts DEF BytesIn

LEMMA BytesUnfolds == Bytes = [m \in DOMAIN Messages |-> FlattenSeq(BytesIn(m, Bytes))]
<1> DEFINE F(g) == [m \in DOMAIN Messages |-> FlattenSeq(BytesIn(m, g))]
           D == [h \in Seq(Str) |-> IF Len(h) + 1 \in DOMAIN Messages
                                    THEN FlattenSeq(BytesIn(Len(h) + 1, h)) ELSE <<>>]
<1>1. D \in [Seq(Str) -> Str]
  <2>1. ASSUME NEW h \in Seq(Str), Len(h) + 1 \in DOMAIN Messages
        PROVE  FlattenSeq(BytesIn(Len(h) + 1, h)) \in Str
    <3>1. PICK m \in DOMAIN Messages : m = Len(h) + 1
      BY <2>1
    <3>2. StrBelow(h, m)
      BY <3>1 DEF StrBelow
    <3> QED
      BY <3>1, <3>2, BytesInOK
  <2>2. <<>> \in Str
    BY DEF Str
  <2> QED
    BY <2>1, <2>2
<1>2. PICK g \in [Nat -> Str] : \A n \in Nat : \A h \in Seq(Str) :
          Len(h) = n /\ (\A i \in 1 .. n : h[i] = g[i - 1]) => g[n] = D[h]
  <2> HIDE DEF D
  <2> QED
    BY <1>1, CourseOfValues
<1> DEFINE G == [m \in DOMAIN Messages |-> g[m - 1]]
<1>3. ASSUME NEW m \in DOMAIN Messages PROVE G[m] = FlattenSeq(BytesIn(m, G))
  <2>1. PICK n \in Nat : n + 1 = m
    <3>1. m - 1 \in Nat /\ (m - 1) + 1 = m
      BY MessageParts
    <3> QED
      BY <3>1
  <2> DEFINE h == [i \in 1 .. n |-> g[i - 1]]
  <2>2. h \in Seq(Str) /\ Len(h) = n
    OBVIOUS
  <2>3. \A i \in 1 .. n : h[i] = g[i - 1]
    OBVIOUS
  <2> HIDE DEF h
  <2>4. g[n] = D[h]
    <3> HIDE DEF D
    <3> QED
      BY <1>2, <2>2, <2>3
  <2>5. D[h] = FlattenSeq(BytesIn(m, h))
    BY <2>1, <2>2
  <2>6. Agree(h, G, m)
    <3>1. ASSUME NEW i \in 1 .. m - 1 PROVE h[i] = G[i]
      <4>1. i \in 1 .. n /\ i \in DOMAIN Messages
        <5>1. i \in DOMAIN Messages
          BY MessageParts
        <5>2. m - 1 = n
          BY <2>1
        <5> QED
          BY <5>1, <5>2
      <4> QED
        BY <2>3, <4>1
    <3> QED
      BY <3>1 DEF Agree
  <2>7. BytesIn(m, h) = BytesIn(m, G)
    <3> HIDE DEF G
    <3> QED
      BY <2>6, BytesInSame
  <2>8. G[m] = g[n]
    BY <2>1
  <2> QED
    BY <2>4, <2>5, <2>7, <2>8
<1>4. G = F(G)
  BY <1>3
<1> HIDE DEF G
<1>5. \E f : f = F(f)
  BY <1>4
<1>6. Bytes = CHOOSE f : f = F(f)
  BY DEF Bytes, BytesIn
<1> QED
  BY <1>5, <1>6

LEMMA BytesAreStr ==
    ASSUME NEW m \in DOMAIN Messages
    PROVE  /\ Bytes[m] \in Str /\ StrBelow(Bytes, m)
           /\ Bytes[m] = FlattenSeq(BytesIn(m, Bytes))
<1> DEFINE S == {n \in Nat : n \in DOMAIN Messages => Bytes[n] \in Str}
<1>1. ASSUME NEW n \in Nat, \A k \in 0 .. n - 1 : k \in S PROVE n \in S
  <2>1. CASE n \in DOMAIN Messages
    <3>1. StrBelow(Bytes, n)
      <4>1. ASSUME NEW v \in 1 .. n - 1 PROVE Bytes[v] \in Str
        <5>1. v \in 0 .. n - 1 /\ v \in DOMAIN Messages
          BY <2>1, MessageParts
        <5> QED
          BY <1>1, <5>1
      <4> QED
        BY <4>1 DEF StrBelow
    <3>2. Bytes[n] = FlattenSeq(BytesIn(n, Bytes))
      BY <2>1, BytesUnfolds
    <3> QED
      BY <2>1, <3>1, <3>2, BytesInOK
  <2> QED
    BY <2>1
<1>2. Nat \subseteq S
  <2> HIDE DEF S
  <2> QED
    BY <1>1, StrongInduction
<1>3. \A n \in DOMAIN Messages : Bytes[n] \in Str
  BY <1>2, MessageParts
<1>4. StrBelow(Bytes, m)
  BY <1>3, MessageParts DEF StrBelow
<1>5. Bytes[m] = FlattenSeq(BytesIn(m, Bytes))
  BY BytesUnfolds
<1> QED
  BY <1>3, <1>4, <1>5

-----------------------------------------------------------------------------
(***************************************************************************)
(* What is counted is what is written.                                     *)
(***************************************************************************)
CountsIn(m, c) == \A k \in DOMAIN Messages[m] : CountsField(Messages[m][k], c)

LEMMA CountsValueSame ==
    ASSUME NEW m \in Nat, NEW type \in FieldTypes, NEW v \in ValuesOf(type, m),
           NEW c, NEW d, Agree(c, d, m)
    PROVE  CountsValue(type, v, c) <=> CountsValue(type, v, d)
<1>1. ASSUME type = "MESSAGE" PROVE c[v] = d[v]
  <2>1. v \in 1 .. m - 1
    BY <1>1 DEF ValuesOf
  <2> QED
    BY <2>1 DEF Agree
<1> QED
  BY <1>1 DEF CountsValue

LEMMA CountsFieldSame ==
    ASSUME NEW m \in Nat, NEW f, IsField(f, m), NEW c, NEW d, Agree(c, d, m)
    PROVE  CountsField(f, c) <=> CountsField(f, d)
<1>1. DOMAIN f.values = 1 .. Len(f.values) /\ f.type \in FieldTypes
  BY FieldParts
<1>2. ASSUME f.shape = "map", NEW k \in 1 .. Len(f.values)
      PROVE  /\ CountsValue(f.type, f.values[k][1], c) <=> CountsValue(f.type, f.values[k][1], d)
             /\ CountsValue(f.type2, f.values[k][2], c) <=> CountsValue(f.type2, f.values[k][2], d)
  <2>1. f.type2 \in FieldTypes
    BY <1>2, FieldParts
  <2>2. f.values[k][1] \in ValuesOf(f.type, m) /\ f.values[k][2] \in ValuesOf(f.type2, m)
    BY <1>2, FieldParts DEF IsElement
  <2> QED
    BY <1>1, <2>1, <2>2, CountsValueSame
<1>3. ASSUME f.shape # "map", NEW k \in 1 .. Len(f.values)
      PROVE  CountsValue(f.type, f.values[k], c) <=> CountsValue(f.type, f.values[k], d)
  <2>1. f.values[k] \in ValuesOf(f.type, m)
    BY <1>3, FieldParts DEF IsElement
  <2> QED
    BY <1>1, <2>1, CountsValueSame
<1> QED
  BY <1>1, <1>2, <1>3 DEF CountsField

LEMMA CountsInSame ==
    ASSUME NEW m \in DOMAIN Messages, NEW c, NEW d, Agree(c, d, m)
    PROVE  CountsIn(m, c) = CountsIn(m, d)
<1>1. \A k \in 1 .. Len(Messages[m]) : CountsField(Messages[m][k], c) <=> CountsField(Messages[m][k], d)
  BY MessageParts, CountsFieldSame
<1>2. CountsIn(m, c) <=> CountsIn(m, d)
  BY <1>1, MessageParts DEF CountsIn
<1> QED
  BY <1>2 DEF CountsIn

LEMMA CountsUnfolds == Counts = [m \in DOMAIN Messages |-> CountsIn(m, Counts)]
<1> DEFINE F(g) == [m \in DOMAIN Messages |-> CountsIn(m, g)]
           D == [h \in Seq(BOOLEAN) |-> IF Len(h) + 1 \in DOMAIN Messages
                                        THEN CountsIn(Len(h) + 1, h) ELSE TRUE]
<1>1. D \in [Seq(BOOLEAN) -> BOOLEAN]
  BY DEF CountsIn
<1>2. PICK g \in [Nat -> BOOLEAN] : \A n \in Nat : \A h \in Seq(BOOLEAN) :
          Len(h) = n /\ (\A i \in 1 .. n : h[i] = g[i - 1]) => g[n] = D[h]
  <2> HIDE DEF D
  <2> QED
    BY <1>1, CourseOfValues
<1> DEFINE G == [m \in DOMAIN Messages |-> g[m - 1]]
<1>3. ASSUME NEW m \in DOMAIN Messages PROVE G[m] = CountsIn(m, G)
  <2>1. PICK n \in Nat : n + 1 = m
    <3>1. m - 1 \in Nat /\ (m - 1) + 1 = m
      BY MessageParts
    <3> QED
      BY <3>1
  <2> DEFINE h == [i \in 1 .. n |-> g[i - 1]]
  <2>2. h \in Seq(BOOLEAN) /\ Len(h) = n
    OBVIOUS
  <2>3. \A i \in 1 .. n : h[i] = g[i - 1]
    OBVIOUS
  <2> HIDE DEF h
  <2>4. g[n] = D[h]
    <3> HIDE DEF D
    <3> QED
      BY <1>2, <2>2, <2>3
  <2>5. D[h] = CountsIn(m, h)
    BY <2>1, <2>2
  <2>6. Agree(h, G, m)
    <3>1. ASSUME NEW i \in 1 .. m - 1 PROVE h[i] = G[i]
      <4>1. i \in 1 .. n /\ i \in DOMAIN Messages
        <5>1. i \in DOMAIN Messages
          BY MessageParts
        <5>2. m - 1 = n
          BY <2>1
        <5> QED
          BY <5>1, <5>2
      <4> QED
        BY <2>3, <4>1
    <3> QED
      BY <3>1 DEF Agree
  <2>7. CountsIn(m, h) = CountsIn(m, G)
    <3> HIDE DEF G
    <3> QED
      BY <2>6, CountsInSame
  <2>8. G[m] = g[n]
    BY <2>1
  <2> QED
    BY <2>4, <2>5, <2>7, <2>8
<1>4. G = F(G)
  BY <1>3
<1> HIDE DEF G
<1>5. \E f : f = F(f)
  BY <1>4
<1>6. Counts = CHOOSE f : f = F(f)
  BY DEF Counts, CountsIn
<1> QED
  BY <1>5, <1>6

\* The messages inside of message m are counted as they are written.
Exact(m) == \A v \in 1 .. m - 1 : Counts[v] => Len(Bytes[v]) = Size[v]

\* A length that is written takes as many bytes as are counted for it.
LEMMA LengthExact ==
    ASSUME NEW n \in Nat, n < Word32
    PROVE  /\ writeVarint[n] \in Str /\ Len(writeVarint[n]) = varintSize(n)
           /\ varintSize(n) \in Nat
<1>1. n < Power(Base, MaxVarInt)
  BY Words
<1> QED
  BY <1>1, VarintSizeOK, VarintStr, Widths, SMTT(30)

LEMMA ValueExact ==
    ASSUME NEW m \in DOMAIN Messages, NEW type \in FieldTypes, NEW v \in ValuesOf(type, m),
           Exact(m), CountsValue(type, v, Counts),
           WithLength(type, valueSize(type, v, Size)) < Word32
    PROVE  Len(writeValue(type, v, Bytes)) = WithLength(type, valueSize(type, v, Size))
<1>1. CASE type \in Varint32 \cup Varint64
  <2>1. writeValue(type, v, Bytes) = writeVarint[Written(type, v)]
    BY <1>1 DEF writeValue, Varint32, Varint64, FixedTypes32, FixedTypes64
  <2>2. valueSize(type, v, Size) = varintSize(Sized(type, v))
    BY <1>1 DEF valueSize, Varint32, Varint64, FixedTypes32, FixedTypes64
  <2>3. /\ Sized(type, v) \in Nat /\ Sized(type, v) < Power(Base, MaxVarInt)
        /\ Written(type, v) = Sized(type, v)
    BY <1>1, SizedOK, MessageParts DEF CountsValue
  <2>4. Len(writeVarint[Sized(type, v)]) = varintSize(Sized(type, v))
    BY <2>3, VarintSizeOK
  <2>5. type \notin Delimited
    BY <1>1 DEF Delimited, Varint32, Varint64
  <2>6. varintSize(Sized(type, v)) \in Nat
    BY <2>3, VarintSizeOK, Widths
  <2> QED
    BY <2>1, <2>2, <2>3, <2>4, <2>5, <2>6 DEF WithLength
<1>2. CASE type \in FixedTypes32 \cup FixedTypes64
  <2>1. v \in Int
    BY <1>2, Words DEF ValuesOf, Ints, FixedTypes32, FixedTypes64
  <2>2. v % Word32 \in Nat /\ v % Word64 \in Nat
    BY <2>1, ModNat, Words
  <2>3. /\ Len(FixedBytes(v % Word32, Fixed32)) = Fixed32
        /\ Len(FixedBytes(v % Word64, 2 * Fixed32)) = 2 * Fixed32
    BY <2>2, FixedBytesOK, Widths
  <2>4. type \notin Delimited
    BY <1>2 DEF Delimited, FixedTypes32, FixedTypes64
  <2>5. CASE type \in FixedTypes32
    <3>1. /\ writeValue(type, v, Bytes) = FixedBytes(v % Word32, Fixed32)
          /\ valueSize(type, v, Size) = Fixed32
      BY <2>5 DEF writeValue, valueSize, Varint32, Varint64, FixedTypes32, FixedTypes64
    <3> QED
      BY <2>3, <2>4, <3>1, Widths DEF WithLength
  <2>6. CASE type \in FixedTypes64
    <3>1. /\ writeValue(type, v, Bytes) = FixedBytes(v % Word64, 2 * Fixed32)
          /\ valueSize(type, v, Size) = 2 * Fixed32
      BY <2>6 DEF writeValue, valueSize, Varint32, Varint64, FixedTypes32, FixedTypes64
    <3> QED
      BY <2>3, <2>4, <3>1, Widths DEF WithLength
  <2> QED
    BY <1>2, <2>5, <2>6
<1>3. CASE type \in {"STRING", "BYTES"}
  <2>1. v \in Str /\ Len(v) \in Nat
    BY <1>3 DEF ValuesOf, Str
  <2>2. writeValue(type, v, Bytes) = writeVarint[Len(v)] \o v /\ valueSize(type, v, Size) = Len(v)
    BY <1>3 DEF writeValue, valueSize, Varint32, Varint64, FixedTypes32, FixedTypes64
  <2>3. WithLength(type, Len(v)) = Len(v) + varintSize(Len(v)) /\ Len(v) < Word32
    <3>1. WithLength(type, Len(v)) = Len(v) + varintSize(Len(v))
      BY <1>3 DEF WithLength, Delimited
    <3>2. Len(v) <= WithLength(type, Len(v)) /\ WithLength(type, Len(v)) \in Nat
      BY <2>1, WithLengthOK
    <3> QED
      BY <2>1, <2>2, <3>1, <3>2, Words
  <2>4. Len(writeVarint[Len(v)] \o v) = Len(writeVarint[Len(v)]) + Len(v)
    BY <2>1, VarintStr, Concat
  <2>5. Len(writeVarint[Len(v)]) = varintSize(Len(v)) /\ varintSize(Len(v)) \in Nat
    BY <2>1, <2>3, LengthExact
  <2> QED
    BY <2>1, <2>2, <2>3, <2>4, <2>5
<1>4. CASE type = "MESSAGE"
  <2>1. v \in 1 .. m - 1 /\ Counts[v]
    BY <1>4 DEF ValuesOf, CountsValue
  <2>2. Size[v] \in Nat /\ Bytes[v] \in Str /\ Len(Bytes[v]) = Size[v]
    BY <2>1, SizeOK, BytesAreStr DEF NatBelow, StrBelow, Exact
  <2>3. /\ writeValue(type, v, Bytes) = writeVarint[Size[v]] \o Bytes[v]
        /\ valueSize(type, v, Size) = Size[v]
    BY <1>4 DEF writeValue, valueSize, Varint32, Varint64, FixedTypes32, FixedTypes64
  <2>4. WithLength(type, Size[v]) = Size[v] + varintSize(Size[v]) /\ Size[v] < Word32
    <3>1. WithLength(type, Size[v]) = Size[v] + varintSize(Size[v])
      BY <1>4 DEF WithLength, Delimited
    <3>2. Size[v] <= WithLength(type, Size[v]) /\ WithLength(type, Size[v]) \in Nat
      BY <2>2, WithLengthOK
    <3> QED
      BY <2>2, <2>3, <3>1, <3>2, Words
  <2>5. Len(writeVarint[Size[v]] \o Bytes[v]) = Len(writeVarint[Size[v]]) + Len(Bytes[v])
    BY <2>2, VarintStr, Concat
  <2>6. Len(writeVarint[Size[v]]) = varintSize(Size[v]) /\ varintSize(Size[v]) \in Nat
    BY <2>2, <2>4, LengthExact
  <2> QED
    BY <2>2, <2>3, <2>4, <2>5, <2>6
<1> QED
  BY <1>1, <1>2, <1>3, <1>4 DEF FieldTypes, Delimited

\* The element of a field that is counted as it is written.
CountsElement(f, e) ==
    IF f.shape = "map" THEN CountsValue(f.type, e[1], Counts) /\ CountsValue(f.type2, e[2], Counts)
    ELSE CountsValue(f.type, e, Counts)

LEMMA EntryExact ==
    ASSUME NEW m \in DOMAIN Messages, NEW f, IsField(f, m), f.shape = "map",
           NEW e, IsElement(f, e, m), Exact(m), CountsElement(f, e),
           EntrySize(f, e, Size) < Word32
    PROVE  Len(writeTag(1, f.type)) + Len(writeValue(f.type, e[1], Bytes))
           + Len(writeTag(2, f.type2)) + Len(writeValue(f.type2, e[2], Bytes))
           = EntrySize(f, e, Size)
<1>1. f.type \in FieldTypes /\ f.type2 \in FieldTypes /\ m \in Nat
  BY FieldParts, MessageParts
<1>2. e[1] \in ValuesOf(f.type, m) /\ e[2] \in ValuesOf(f.type2, m)
  BY DEF IsElement
<1>3. Len(writeTag(1, f.type)) = 1 /\ Len(writeTag(2, f.type2)) = 1
  BY <1>1, TagOK
<1>4. NatBelow(Size, m)
  BY SizeOK
<1>5. PICK a \in Nat : a = valueSize(f.type, e[1], Size)
  BY <1>1, <1>2, <1>4, ValueSizeOK
<1>6. PICK b \in Nat : b = valueSize(f.type2, e[2], Size)
  BY <1>1, <1>2, <1>4, ValueSizeOK
<1>7. PICK x \in Nat : x = WithLength(f.type, a)
  BY WithLengthOK
<1>8. PICK y \in Nat : y = WithLength(f.type2, b)
  BY WithLengthOK
<1>9. EntrySize(f, e, Size) = 1 + x + 1 + y
  BY <1>5, <1>6, <1>7, <1>8 DEF EntrySize
<1>10. x < Word32 /\ y < Word32
  BY <1>9, Words
<1>11. CountsValue(f.type, e[1], Counts) /\ CountsValue(f.type2, e[2], Counts)
  BY DEF CountsElement
<1>12. Len(writeValue(f.type, e[1], Bytes)) = x
  BY <1>1, <1>2, <1>5, <1>7, <1>10, <1>11, ValueExact
<1>13. Len(writeValue(f.type2, e[2], Bytes)) = y
  BY <1>1, <1>2, <1>6, <1>8, <1>10, <1>11, ValueExact
<1> QED
  BY <1>3, <1>9, <1>12, <1>13

LEMMA ElementExact ==
    ASSUME NEW m \in DOMAIN Messages, NEW f, IsField(f, m), NEW e, IsElement(f, e, m),
           Exact(m), CountsElement(f, e), ElementSize(f, e, Size) < Word32
    PROVE  Len(WriteElement(f, e, Bytes)) = ElementSize(f, e, Size)
<1>1. f.type \in FieldTypes /\ f.number \in Nat /\ m \in Nat /\ NatBelow(Size, m)
      /\ StrBelow(Bytes, m)
  BY FieldParts, MessageParts, SizeOK, BytesAreStr
<1>2. CASE f.shape = "map"
  <2> DEFINE a == writeTag(f.number, "MESSAGE")
             b == writeVarint[EntrySize(f, e, Size)]
             c == writeTag(1, f.type)
             d == writeValue(f.type, e[1], Bytes)
             x == writeTag(2, f.type2)
             y == writeValue(f.type2, e[2], Bytes)
  <2>1. EntrySize(f, e, Size) \in Nat /\ a \in Str /\ b \in Str /\ c \in Str /\ d \in Str
        /\ x \in Str /\ y \in Str
    BY <1>1, <1>2, EntryOK
  <2>2. WriteElement(f, e, Bytes) = ((((a \o b) \o c) \o d) \o x) \o y
    BY <1>2 DEF WriteElement
  <2>3. PICK t \in Nat : t = TagSize(f.number, "MESSAGE") /\ Len(a) = t
    BY <1>1, MessageType, TagOK
  <2>4. PICK n \in Nat : n = EntrySize(f, e, Size)
    BY <2>1
  <2>5. PICK l \in Nat : l = varintSize(n)
    BY VarintSizeOK, Widths
  <2>6. ElementSize(f, e, Size) = t + (n + l)
    BY <1>2, <2>3, <2>4, <2>5 DEF ElementSize, WithLength, Delimited
  <2>7. n < Word32
    BY <2>6, Words
  <2>8. Len(b) = l
    BY <2>4, <2>5, <2>7, LengthExact
  <2>9. Len(c) + Len(d) + Len(x) + Len(y) = n
    BY <1>2, <2>4, <2>7, EntryExact
  <2> HIDE DEF a, b, c, d, x, y
  <2>10. Len(((((a \o b) \o c) \o d) \o x) \o y) = Len(a) + Len(b) + Len(c) + Len(d) + Len(x) + Len(y)
    BY <2>1, Concat
  <2>11. Len(c) \in Nat /\ Len(d) \in Nat /\ Len(x) \in Nat /\ Len(y) \in Nat
    BY <2>1, Concat
  <2>12. Len(a) + Len(b) + Len(c) + Len(d) + Len(x) + Len(y) = t + (n + l)
    <3>1. PICK i, j, k, q \in Nat : i = Len(c) /\ j = Len(d) /\ k = Len(x) /\ q = Len(y)
      BY <2>11
    <3>2. i + j + k + q = n
      BY <2>9, <3>1
    <3>3. Len(a) = t /\ Len(b) = l
      BY <2>3, <2>8
    <3>4. t + l + i + j + k + q = t + (n + l)
      BY <3>2
    <3> QED
      BY <3>1, <3>3, <3>4
  <2> QED
    BY <2>2, <2>6, <2>10, <2>12
<1>3. CASE f.shape # "map"
  <2>1. e \in ValuesOf(f.type, m) /\ CountsValue(f.type, e, Counts)
    BY <1>3 DEF IsElement, CountsElement
  <2>2. PICK t \in Nat : t = TagSize(f.number, f.type) /\ Len(writeTag(f.number, f.type)) = t
    BY <1>1, TagOK
  <2>3. PICK n \in Nat : n = WithLength(f.type, valueSize(f.type, e, Size))
    BY <1>1, <2>1, ValueSizeOK, WithLengthOK
  <2>4. ElementSize(f, e, Size) = t + n
    BY <1>3, <2>2, <2>3 DEF ElementSize
  <2>5. n < Word32
    BY <2>4, Words
  <2>6. Len(writeValue(f.type, e, Bytes)) = n
    BY <1>1, <2>1, <2>3, <2>5, ValueExact
  <2>7. writeTag(f.number, f.type) \in Str /\ writeValue(f.type, e, Bytes) \in Str
    BY <1>1, <2>1, TagOK, WriteValueOK
  <2>8. Len(WriteElement(f, e, Bytes)) = t + n
    BY <1>3, <2>2, <2>6, <2>7, Concat DEF WriteElement
  <2> QED
    BY <2>4, <2>8
<1> QED
  BY <1>2, <1>3

LEMMA FieldExact ==
    ASSUME NEW m \in DOMAIN Messages, NEW f, IsField(f, m), Exact(m), CountsField(f, Counts),
           fieldSize(f, Size) < Word32
    PROVE  Len(writeField(f, Bytes)) = fieldSize(f, Size)
<1>1. CASE ~IsWritten(f)
  BY <1>1 DEF writeField, fieldSize
<1>2. CASE IsWritten(f)
  <2>1. f.shape # "packed"
    BY <1>2 DEF CountsField
  <2>2. /\ fieldSize(f, Size) = Sum(ElementSizes(f, Size))
        /\ writeField(f, Bytes) = FlattenSeq(ElementBytes(f, Bytes))
    BY <1>2, <2>1 DEF fieldSize, writeField, ElementSizes, ElementBytes
  <2>3. PICK n \in Nat : n = Len(f.values)
    BY FieldParts, MessageParts
  <2>4. DOMAIN f.values = 1 .. n
    BY <2>3, FieldParts, MessageParts
  <2>5. ElementSizes(f, Size) \in [1 .. n -> Nat] /\ ElementBytes(f, Bytes) \in [1 .. n -> Str]
    BY <2>3, SizesOK, BytesOK, SizeOK, BytesAreStr, MessageParts
  <2>6. ASSUME NEW k \in 1 .. n
        PROVE  Len(ElementBytes(f, Bytes)[k]) = ElementSizes(f, Size)[k]
    <3>1. IsElement(f, f.values[k], m)
      BY <2>3, FieldParts, MessageParts
    <3>2. CountsElement(f, f.values[k])
      BY <1>2, <2>1, <2>4 DEF CountsField, CountsElement
    <3>3. ElementSizes(f, Size)[k] = ElementSize(f, f.values[k], Size)
      BY <2>4 DEF ElementSizes
    <3>4. ElementSize(f, f.values[k], Size) < Word32
      <4>1. ElementSizes(f, Size)[k] <= Sum(ElementSizes(f, Size))
        BY <2>5, SumBounds
      <4>2. ElementSizes(f, Size)[k] \in Nat /\ Sum(ElementSizes(f, Size)) \in Nat
        BY <2>5, SumNat
      <4> QED
        BY <2>2, <3>3, <4>1, <4>2, Words
    <3>5. ElementBytes(f, Bytes)[k] = WriteElement(f, f.values[k], Bytes)
      BY <2>4 DEF ElementBytes
    <3> QED
      BY <3>1, <3>2, <3>3, <3>4, <3>5, ElementExact
  <2>7. Len(FlattenSeq(ElementBytes(f, Bytes)))
        = Sum([k \in 1 .. n |-> Len(ElementBytes(f, Bytes)[k])])
    BY <2>5, FlattenStr
  <2>8. [k \in 1 .. n |-> Len(ElementBytes(f, Bytes)[k])] = ElementSizes(f, Size)
    BY <2>5, <2>6
  <2> QED
    BY <2>2, <2>7, <2>8
<1> QED
  BY <1>1, <1>2

\* The fields of a message, and the message.
LEMMA FieldsExact ==
    ASSUME NEW m \in DOMAIN Messages, Exact(m), Counts[m], NEW k \in 1 .. Len(Messages[m])
    PROVE  Len(writeField(Messages[m][k], Bytes)) = fieldSize(Messages[m][k], Size)
<1>1. IsField(Messages[m][k], m) /\ k \in DOMAIN Messages[m]
  BY MessageParts
<1>2. CountsField(Messages[m][k], Counts)
  BY <1>1, CountsUnfolds DEF CountsIn
<1>3. fieldSize(Messages[m][k], Size) < Word32
  <2>1. SizesIn(m, Size) \in [1 .. Len(Messages[m]) -> Nat] /\ Sum(SizesIn(m, Size)) = Size[m]
        /\ Size[m] \in Nat
    BY SizeOK, SizesInOK
  <2>2. SizesIn(m, Size)[k] <= Size[m]
    BY <2>1, SumBounds, MessageParts
  <2>3. SizesIn(m, Size)[k] = fieldSize(Messages[m][k], Size)
    BY <1>1 DEF SizesIn
  <2>4. SizesIn(m, Size)[k] \in Nat
    BY <2>1
  <2> QED
    BY <2>1, <2>2, <2>3, <2>4, FitsAssumption, Words
<1> QED
  BY <1>1, <1>2, <1>3, FieldExact

LEMMA MessageExact ==
    ASSUME NEW m \in DOMAIN Messages
    PROVE  Exact(m)
<1> DEFINE S == {n \in Nat : n \in DOMAIN Messages /\ Counts[n] => Len(Bytes[n]) = Size[n]}
<1>1. ASSUME NEW n \in Nat, \A k \in 0 .. n - 1 : k \in S PROVE n \in S
  <2>1. CASE n \in DOMAIN Messages /\ Counts[n]
    <3>1. Exact(n)
      <4>1. ASSUME NEW v \in 1 .. n - 1, Counts[v] PROVE Len(Bytes[v]) = Size[v]
        <5>1. v \in 0 .. n - 1 /\ v \in DOMAIN Messages
          BY <2>1, MessageParts
        <5> QED
          BY <1>1, <4>1, <5>1
      <4> QED
        BY <4>1 DEF Exact
    <3>2. PICK l \in Nat : l = Len(Messages[n])
      BY <2>1, MessageParts
    <3>3. DOMAIN Messages[n] = 1 .. l
      BY <2>1, <3>2, MessageParts
    <3>4. BytesIn(n, Bytes) \in [1 .. l -> Str] /\ SizesIn(n, Size) \in [1 .. l -> Nat]
      BY <2>1, <3>2, BytesInOK, SizesInOK, BytesAreStr, SizeOK
    <3>5. \A k \in 1 .. l : Len(BytesIn(n, Bytes)[k]) = SizesIn(n, Size)[k]
      BY <2>1, <3>1, <3>2, <3>3, FieldsExact DEF BytesIn, SizesIn
    <3>6. [k \in 1 .. l |-> Len(BytesIn(n, Bytes)[k])] = SizesIn(n, Size)
      BY <3>4, <3>5
    <3>7. Len(FlattenSeq(BytesIn(n, Bytes))) = Sum(SizesIn(n, Size))
      BY <3>4, <3>6, FlattenStr
    <3>8. Bytes[n] = FlattenSeq(BytesIn(n, Bytes)) /\ Size[n] = Sum(SizesIn(n, Size))
      BY <2>1, BytesAreStr, SizeOK
    <3> QED
      BY <3>7, <3>8
  <2> QED
    BY <2>1
<1>2. Nat \subseteq S
  <2> HIDE DEF S
  <2> QED
    BY <1>1, StrongInduction
<1>3. ASSUME NEW v \in 1 .. m - 1, Counts[v] PROVE Len(Bytes[v]) = Size[v]
  <2>1. v \in Nat /\ v \in DOMAIN Messages
    BY MessageParts
  <2> QED
    BY <1>2, <1>3, <2>1
<1> QED
  BY <1>3 DEF Exact

-----------------------------------------------------------------------------
(***************************************************************************)
(* operator<<.                                                             *)
(***************************************************************************)
\* What the first k fields of message m count for.
PartSizes(m, k) == [j \in 1 .. k |-> fieldSize(Messages[m][j], Size)]
PartSize(m, k) == Sum(PartSizes(m, k))

LEMMA PartSizeOK ==
    ASSUME NEW m \in DOMAIN Messages, NEW k \in 0 .. Len(Messages[m])
    PROVE  PartSizes(m, k) \in [1 .. k -> Nat] /\ PartSize(m, k) \in Nat
<1>1. ASSUME NEW j \in 1 .. k PROVE fieldSize(Messages[m][j], Size) \in Nat
  <2>1. j \in 1 .. Len(Messages[m])
    BY MessageParts
  <2> QED
    BY <2>1, MessageParts, SizeOK, FieldSizeOK
<1>2. PartSizes(m, k) \in [1 .. k -> Nat]
  BY <1>1 DEF PartSizes
<1> QED
  BY <1>2, SumNat, MessageParts, SMTT(30) DEF PartSize

LEMMA PartSizeNone == ASSUME NEW m \in DOMAIN Messages PROVE PartSize(m, 0) = 0
<1>1. PartSizes(m, 0) \in [1 .. 0 -> Nat]
  BY PartSizeOK, MessageParts
<1> QED
  BY <1>1, SumEmpty DEF PartSize

LEMMA PartSizeNext ==
    ASSUME NEW m \in DOMAIN Messages, NEW k \in Nat, k < Len(Messages[m])
    PROVE  PartSize(m, k + 1) = PartSize(m, k) + fieldSize(Messages[m][k + 1], Size)
<1>1. PICK n \in Nat : n = k + 1
  OBVIOUS
<1>2. k \in 0 .. Len(Messages[m]) /\ n \in 0 .. Len(Messages[m])
  BY <1>1, MessageParts
<1>3. PartSizes(m, k) \in [1 .. k -> Nat] /\ PartSizes(m, n) \in [1 .. n -> Nat]
  BY <1>2, PartSizeOK
<1>4. \A j \in 1 .. k : PartSizes(m, n)[j] = PartSizes(m, k)[j]
  BY <1>1 DEF PartSizes
<1>5. PartSizes(m, n)[n] = fieldSize(Messages[m][n], Size)
  BY <1>1 DEF PartSizes
<1>6. Sum(PartSizes(m, n)) = Sum(PartSizes(m, k)) + PartSizes(m, n)[n]
  BY <1>1, <1>3, <1>4, SumNext
<1> QED
  BY <1>1, <1>5, <1>6 DEF PartSize

\* How far the passes are: what size_ has counted and, where it counts as it writes,
\* what str_ has gained.
Inv ==
    /\ TypeOK
    /\ size_ = PartSize(message, IF pc = "size" THEN seen ELSE Len(Fields))
    /\ pc = "size" => str_ = start
    /\ pc = "done" => seen = Len(Fields)
    /\ pc # "size" /\ Counts[message] => Len(str_) = Len(start) + PartSize(message, seen)

LEMMA InitInv == Init => Inv
<1> SUFFICES ASSUME Init PROVE Inv
  OBVIOUS
<1>1. message \in DOMAIN Messages /\ str_ \in Before /\ start = str_ /\ pc = "size" /\ seen = 0
      /\ size_ = 0 /\ result = FALSE
  BY DEF Init
<1>2. TypeOK
  <2>1. str_ \in Str
    BY <1>1, BeforeAssumption DEF Str
  <2>2. seen \in 0 .. Len(Fields)
    BY <1>1, MessageParts DEF Fields
  <2> QED
    BY <1>1, <2>1, <2>2 DEF TypeOK, Str
<1> QED
  BY <1>1, <1>2, PartSizeNone DEF Inv

LEMMA NextInv == Inv /\ [Next]_vars => Inv'
<1> SUFFICES ASSUME Inv, [Next]_vars PROVE Inv'
  OBVIOUS
<1>1. PICK n \in Nat : n = Len(Fields)
  BY MessageParts DEF Inv, TypeOK, Fields
<1>2. /\ message \in DOMAIN Messages /\ pc \in {"size", "write", "done"} /\ seen \in 0 .. n
      /\ size_ \in Nat /\ str_ \in Str /\ start \in Before /\ result \in BOOLEAN
  BY <1>1 DEF Inv, TypeOK, Str
<1>3. start \in Str /\ Len(start) \in Nat /\ Len(str_) \in Nat
  BY <1>2, BeforeAssumption DEF Str
<1>4. CASE SizeField
  <2>1. /\ pc = "size" /\ seen < n /\ size_' = size_ + fieldSize(Fields[seen + 1], Size)
        /\ seen' = seen + 1
        /\ UNCHANGED <<message, pc, str_, result, start>>
    BY <1>1, <1>4 DEF SizeField
  <2>2. Fields' = Fields
    BY <2>1 DEF Fields
  <2>3. size_ = PartSize(message, seen)
    BY <2>1 DEF Inv
  <2>4. PartSize(message, seen + 1) = PartSize(message, seen) + fieldSize(Fields[seen + 1], Size)
    BY <1>1, <1>2, <2>1, PartSizeNext DEF Fields
  <2>5. PartSize(message, seen + 1) \in Nat
    <3>1. seen + 1 \in 0 .. Len(Messages[message])
      BY <1>1, <1>2, <2>1 DEF Fields
    <3> QED
      BY <1>2, <3>1, PartSizeOK
  <2>6. size_' = PartSize(message', seen')
    BY <2>1, <2>3, <2>4
  <2>7. TypeOK'
    BY <1>1, <1>2, <2>1, <2>2, <2>5, <2>6 DEF TypeOK, Str
  <2> QED
    BY <2>1, <2>2, <2>6, <2>7 DEF Inv
<1>5. CASE Reserve
  <2>1. /\ pc = "size" /\ seen = n /\ pc' = "write" /\ seen' = 0
        /\ UNCHANGED <<message, size_, str_, result, start>>
    BY <1>1, <1>5 DEF Reserve
  <2>2. Fields' = Fields
    BY <2>1 DEF Fields
  <2>3. size_' = PartSize(message', Len(Fields'))
    BY <1>1, <2>1, <2>2 DEF Inv
  <2>4. str_' = start' /\ PartSize(message', seen') = 0
    BY <1>2, <2>1, PartSizeNone DEF Inv
  <2>5. TypeOK'
    BY <1>1, <1>2, <2>1, <2>2 DEF TypeOK, Str
  <2>6. Len(str_') = Len(start') + PartSize(message', seen')
    BY <1>3, <2>1, <2>4
  <2> QED
    BY <2>1, <2>3, <2>5, <2>6 DEF Inv
<1>6. CASE WriteField
  <2>1. /\ pc = "write" /\ seen < n /\ str_' = str_ \o writeField(Fields[seen + 1], Bytes)
        /\ seen' = seen + 1
        /\ UNCHANGED <<message, pc, size_, result, start>>
    BY <1>1, <1>6 DEF WriteField
  <2>2. Fields' = Fields
    BY <2>1 DEF Fields
  <2>3. PICK k \in 1 .. n : k = seen + 1
    BY <1>2, <2>1
  <2>4. writeField(Fields[k], Bytes) \in Str
    BY <1>1, <1>2, <2>3, MessageParts, BytesAreStr, WriteFieldOK DEF Fields
  <2>5. /\ str_' \in Str
        /\ Len(str_') = Len(str_) + Len(writeField(Fields[k], Bytes))
    BY <1>2, <2>1, <2>3, <2>4, Concat
  <2>6. ASSUME Counts[message]
        PROVE  Len(str_') = Len(start') + PartSize(message', seen')
    <3>1. Len(str_) = Len(start) + PartSize(message, seen)
      BY <2>1, <2>6 DEF Inv
    <3>2. Len(writeField(Fields[k], Bytes)) = fieldSize(Fields[k], Size)
      BY <1>1, <1>2, <2>3, <2>6, FieldsExact, MessageExact DEF Fields
    <3>3. PartSize(message, seen + 1) = PartSize(message, seen) + fieldSize(Fields[k], Size)
      BY <1>1, <1>2, <2>1, <2>3, PartSizeNext DEF Fields
    <3>4. PartSize(message, seen) \in Nat /\ PartSize(message, seen + 1) \in Nat
      BY <1>1, <1>2, <2>1, PartSizeOK DEF Fields
    <3>5. PICK a, b, c \in Nat : a = PartSize(message, seen) /\ b = PartSize(message, seen + 1)
                                 /\ c = Len(start)
      BY <1>3, <3>4
    <3>6. Len(str_') = c + a + fieldSize(Fields[k], Size)
      BY <2>5, <3>1, <3>2, <3>5
    <3>7. fieldSize(Fields[k], Size) \in Int
      BY <1>1, <1>2, <2>3, MessageParts, SizeOK, FieldSizeOK DEF Fields
    <3>8. Len(str_') = c + b
      BY <3>3, <3>5, <3>6, <3>7
    <3> QED
      BY <2>1, <3>5, <3>8
  <2>7. TypeOK'
    BY <1>1, <1>2, <2>1, <2>2, <2>5 DEF TypeOK, Str
  <2>8. size_' = PartSize(message', Len(Fields'))
    BY <2>1, <2>2 DEF Inv
  <2> QED
    BY <2>1, <2>6, <2>7, <2>8 DEF Inv
<1>7. CASE Return
  <2>1. /\ pc = "write" /\ seen = n /\ pc' = "done" /\ result' \in BOOLEAN
        /\ UNCHANGED <<message, seen, size_, str_, start>>
    BY <1>1, <1>7 DEF Return
  <2>2. Fields' = Fields
    BY <2>1 DEF Fields
  <2>3. TypeOK'
    BY <1>1, <1>2, <2>1, <2>2 DEF TypeOK, Str
  <2> QED
    BY <1>1, <2>1, <2>2, <2>3 DEF Inv
<1>8. CASE UNCHANGED vars
  BY <1>8 DEF vars, Inv, TypeOK, Fields
<1> QED
  BY <1>4, <1>5, <1>6, <1>7, <1>8 DEF Next

LEMMA Invariant == Spec => []Inv
<1> QED
  BY InitInv, NextInv, PTL DEF Spec

\* Every variable has its type: whatever the fields hold, the passes stay inside of
\* the message and what is appended are bytes.
THEOREM TypeCorrect == Spec => []TypeOK
<1>1. Inv => TypeOK
  BY DEF Inv
<1> QED
  BY <1>1, Invariant, PTL

\* MessageByteSize counts exactly the bytes that ProtobufEncoder appends, for every
\* message that has no packed field and no int64 wider than 32 bits: what it gives to
\* str_.reserve, and the length written in front of a nested message, are right.
THEOREM SizeCorrect == Spec => []SizeExact
<1>1. Inv => SizeExact
  BY DEF Inv, SizeExact
<1> QED
  BY <1>1, Invariant, PTL

(***************************************************************************)
(* What is put together of many sequences; sums; division.                 *)
(***************************************************************************)

\* The elements of one sequence behind another.
LEMMA Behind ==
    ASSUME NEW V, NEW x \in Seq(V), NEW y \in Seq(V)
    PROVE  /\ x \o y \in Seq(V) /\ Len(x) \in Nat /\ Len(y) \in Nat /\ Len(x \o y) = Len(x) + Len(y)
           /\ \A i \in 1 .. Len(x) : (x \o y)[i] = x[i]
           /\ \A i \in 1 .. Len(y) : (x \o y)[Len(x) + i] = y[i]
<1>1. x \o y \in Seq(V) /\ Len(x) \in Nat /\ Len(y) \in Nat /\ Len(x \o y) = Len(x) + Len(y)
  OBVIOUS
<1>2. \A i \in 1 .. Len(x) : (x \o y)[i] = x[i]
  OBVIOUS
<1>3. ASSUME NEW i \in 1 .. Len(y) PROVE (x \o y)[Len(x) + i] = y[i]
  OBVIOUS
<1> QED
  BY <1>1, <1>2, <1>3

\* One sequence after another: what has been put together so far.
Gathers(g, s, n) == g[0] = <<>> /\ FlattenSeq(s) = g[n] /\ \A k \in 1 .. n : g[k] = g[k - 1] \o s[k]

\* FlattenSeq puts one sequence behind another.
LEMMA FlattenParts ==
    ASSUME NEW V, NEW n \in Nat, NEW s \in [1 .. n -> Seq(V)]
    PROVE  \E g \in [0 .. n -> Seq(V)] : Gathers(g, s, n)
<1> DEFINE E == [k \in Nat |-> [x \in Seq(V) |-> IF k < n THEN x \o s[k + 1] ELSE x]]
<1>1. E \in Steps(Seq(V)) /\ <<>> \in Seq(V)
  BY DEF Steps
<1>2. PICK g \in [Nat -> Seq(V)] : Iterates(g, <<>>, E)
  <2> HIDE DEF E
  <2> QED
    BY <1>1, Recursion
<1>3. g[0] = <<>> /\ \A k \in Nat : k < n => g[k + 1] = g[k] \o s[k + 1]
  BY <1>2 DEF Iterates
<1>4. ASSUME NEW k \in 1 .. n PROVE g[k] = g[k - 1] \o s[k]
  <2>1. k - 1 \in Nat /\ (k - 1) + 1 = k /\ k - 1 < n
    OBVIOUS
  <2>2. g[(k - 1) + 1] = g[k - 1] \o s[(k - 1) + 1]
    BY <1>3, <2>1
  <2> QED
    BY <2>1, <2>2
<1>5. Len(s) = n
  OBVIOUS
<1>6. CASE n = 0
  <2>1. s = <<>> /\ Len(s) = 0
    BY <1>6
  <2>2. FlattenSeq(s) = <<>>
    BY <2>1 DEF FlattenSeq
  <2> DEFINE f == [k \in 0 .. n |-> g[k]]
  <2>3. f \in [0 .. n -> Seq(V)] /\ f[0] = <<>> /\ FlattenSeq(s) = f[n]
    BY <1>3, <1>6, <2>2
  <2>4. \A k \in 1 .. n : f[k] = f[k - 1] \o s[k]
    BY <1>6
  <2> QED
    BY <2>3, <2>4 DEF Gathers
<1>7. CASE n # 0
  <2> DEFINE F(f) == [i \in 1 .. n |-> IF i = 1 THEN s[i] ELSE f[i - 1] \o s[i]]
             flatten == CHOOSE f : f = F(f)
             f0 == [k \in 1 .. n |-> g[k]]
  <2>1. FlattenSeq(s) = flatten[n]
    BY <1>5, <1>7 DEF FlattenSeq
  <2>2. ASSUME NEW k \in 1 .. n PROVE f0[k] = IF k = 1 THEN s[k] ELSE f0[k - 1] \o s[k]
    <3>1. CASE k = 1
      <4>0. 1 \in 1 .. n /\ 1 - 1 = 0
        BY <3>1
      <4>1. g[1] = g[0] \o s[1]
        BY <1>4, <4>0
      <4>2. s[1] \in Seq(V)
        BY <3>1
      <4>3. g[1] = s[1]
        BY <1>3, <4>1, <4>2
      <4> QED
        BY <3>1, <4>3
    <3>2. CASE k # 1
      <4>1. k - 1 \in 1 .. n
        BY <3>2
      <4> QED
        BY <1>4, <3>2, <4>1
    <3> QED
      BY <3>1, <3>2
  <2>3. f0 = F(f0)
    BY <2>2
  <2>4. flatten = F(flatten)
    <3> HIDE DEF f0
    <3> QED
      BY <2>3
  <2> HIDE DEF flatten
  <2>5. \A k \in 1 .. n : flatten[k] = IF k = 1 THEN s[k] ELSE flatten[k - 1] \o s[k]
    BY <2>4
  <2> DEFINE S == {k \in Nat : k + 1 <= n => flatten[k + 1] = g[k + 1]}
  <2>6. 0 \in S
    <3>1. 1 \in 1 .. n
      BY <1>7
    <3>2. flatten[1] = s[1] /\ f0[1] = s[1] /\ f0[1] = g[1]
      BY <2>2, <2>5, <3>1
    <3> QED
      BY <3>2
  <2>7. ASSUME NEW k \in Nat, k \in S PROVE k + 1 \in S
    <3>1. ASSUME (k + 1) + 1 <= n PROVE flatten[(k + 1) + 1] = g[(k + 1) + 1]
      <4>1. PICK j \in 1 .. n : j = (k + 1) + 1
        BY <3>1
      <4>2. j # 1 /\ j - 1 = k + 1 /\ k + 1 <= n
        BY <3>1, <4>1
      <4>3. flatten[j] = flatten[j - 1] \o s[j] /\ g[j] = g[j - 1] \o s[j]
        BY <1>4, <2>5, <4>2
      <4>4. flatten[k + 1] = g[k + 1]
        BY <2>7, <4>2
      <4> QED
        BY <4>1, <4>2, <4>3, <4>4
    <3> QED
      BY <3>1
  <2>8. Nat \subseteq S
    <3> HIDE DEF S
    <3> QED
      BY <2>6, <2>7, Induction
  <2>9. flatten[n] = g[n]
    <3>1. n - 1 \in S /\ (n - 1) + 1 = n
      <4> HIDE DEF S
      <4> QED
        BY <1>7, <2>8
    <3> QED
      BY <3>1
  <2> DEFINE f == [k \in 0 .. n |-> g[k]]
  <2>10. f \in [0 .. n -> Seq(V)] /\ f[0] = <<>> /\ FlattenSeq(s) = f[n]
    BY <1>3, <2>1, <2>9
  <2>11. ASSUME NEW k \in 1 .. n PROVE f[k] = f[k - 1] \o s[k]
    <3>1. k \in 0 .. n /\ k - 1 \in 0 .. n
      OBVIOUS
    <3> QED
      BY <1>4, <3>1
  <2> HIDE DEF f
  <2> QED
    BY <2>10, <2>11 DEF Gathers
<1> QED
  BY <1>6, <1>7

LEMMA FlattenNone == ASSUME NEW V, NEW s \in [1 .. 0 -> Seq(V)] PROVE FlattenSeq(s) = <<>>
<1>1. PICK g \in [0 .. 0 -> Seq(V)] : Gathers(g, s, 0)
  <2>1. 0 \in Nat
    OBVIOUS
  <2> QED
    BY <2>1, FlattenParts
<1> QED
  BY <1>1 DEF Gathers

\* With one more sequence.
LEMMA FlattenNext ==
    ASSUME NEW V, NEW n \in Nat, NEW s \in [1 .. n -> Seq(V)], NEW t \in [1 .. n + 1 -> Seq(V)],
           \A i \in 1 .. n : t[i] = s[i]
    PROVE  FlattenSeq(t) = FlattenSeq(s) \o t[n + 1]
<1>1. PICK m \in Nat : m = n + 1
  OBVIOUS
<1>2. PICK g \in [0 .. n -> Seq(V)] : Gathers(g, s, n)
  BY FlattenParts
<1>3. PICK h \in [0 .. m -> Seq(V)] : Gathers(h, t, m)
  <2>1. t \in [1 .. m -> Seq(V)]
    BY <1>1
  <2> QED
    BY <2>1, FlattenParts
<1>4. /\ g[0] = <<>> /\ FlattenSeq(s) = g[n] /\ \A k \in 1 .. n : g[k] = g[k - 1] \o s[k]
      /\ h[0] = <<>> /\ FlattenSeq(t) = h[m] /\ \A k \in 1 .. m : h[k] = h[k - 1] \o t[k]
  BY <1>2, <1>3 DEF Gathers
<1> DEFINE S == {k \in Nat : k <= n => g[k] = h[k]}
<1>5. 0 \in S
  BY <1>4
<1>6. ASSUME NEW k \in Nat, k \in S PROVE k + 1 \in S
  <2>1. ASSUME k + 1 <= n PROVE g[k + 1] = h[k + 1]
    <3>1. PICK j \in 1 .. n : j = k + 1
      BY <2>1
    <3>2. j \in 1 .. m /\ j - 1 = k /\ k <= n
      BY <1>1, <3>1
    <3>3. g[j] = g[k] \o s[j] /\ h[j] = h[k] \o t[j]
      BY <1>4, <3>2
    <3>4. g[k] = h[k] /\ s[j] = t[j]
      BY <1>6, <3>2
    <3> QED
      BY <3>1, <3>3, <3>4
  <2> QED
    BY <2>1
<1>7. Nat \subseteq S
  <2> HIDE DEF S
  <2> QED
    BY <1>5, <1>6, Induction
<1>8. g[n] = h[n]
  BY <1>7
<1>9. m \in 1 .. m /\ m - 1 = n
  BY <1>1
<1>10. h[m] = h[n] \o t[m]
  BY <1>4, <1>9
<1> QED
  BY <1>1, <1>4, <1>8, <1>10

\* Of sequences of one element each.
LEMMA FlattenSingles ==
    ASSUME NEW V, NEW n \in Nat, NEW s \in [1 .. n -> V]
    PROVE  FlattenSeq([k \in 1 .. n |-> <<s[k]>>]) = s
<1> DEFINE t == [k \in 1 .. n |-> <<s[k]>>]
<1>1. t \in [1 .. n -> Seq(V)] /\ \A k \in 1 .. n : t[k] = <<s[k]>>
  OBVIOUS
<1> HIDE DEF t
<1>2. PICK g \in [0 .. n -> Seq(V)] : Gathers(g, t, n)
  BY <1>1, FlattenParts
<1>3. g[0] = <<>> /\ FlattenSeq(t) = g[n] /\ \A k \in 1 .. n : g[k] = Append(g[k - 1], s[k])
  <2>1. ASSUME NEW k \in 1 .. n PROVE g[k] = Append(g[k - 1], s[k])
    <3>1. k - 1 \in 0 .. n
      OBVIOUS
    <3>2. PICK x \in Seq(V) : x = g[k - 1]
      BY <3>1
    <3>3. g[k] = x \o <<s[k]>> /\ s[k] \in V
      BY <1>1, <1>2, <3>2 DEF Gathers
    <3>4. x \o <<s[k]>> = Append(x, s[k])
      BY <3>3
    <3> QED
      BY <3>2, <3>3, <3>4
  <2> QED
    BY <1>2, <2>1 DEF Gathers
<1> DEFINE S == {k \in Nat : k <= n => Len(g[k]) = k /\ \A i \in 1 .. k : g[k][i] = s[i]}
<1>4. 0 \in S
  BY <1>3
<1>5. ASSUME NEW k \in Nat, k \in S PROVE k + 1 \in S
  <2>1. ASSUME k + 1 <= n
        PROVE  Len(g[k + 1]) = k + 1 /\ \A i \in 1 .. k + 1 : g[k + 1][i] = s[i]
    <3>1. PICK j \in 1 .. n : j = k + 1
      BY <2>1
    <3>2. j - 1 = k /\ k <= n /\ k \in 0 .. n
      BY <3>1
    <3>3. PICK x \in Seq(V) : x = g[k]
      BY <3>2
    <3>4. g[j] = Append(x, s[j]) /\ s[j] \in V
      BY <1>3, <3>2, <3>3
    <3>5. Len(x) = k /\ \A i \in 1 .. k : x[i] = s[i]
      BY <1>5, <3>2, <3>3
    <3>6. Len(g[j]) = j
      BY <3>1, <3>4, <3>5
    <3>7. ASSUME NEW i \in 1 .. j PROVE g[j][i] = s[i]
      <4>1. CASE i = j
        BY <3>1, <3>4, <3>5, <4>1
      <4>2. CASE i # j
        <5>1. i \in 1 .. k
          BY <3>1, <4>2
        <5> QED
          BY <3>4, <3>5, <5>1
      <4> QED
        BY <4>1, <4>2
    <3> QED
      BY <3>1, <3>6, <3>7
  <2> QED
    BY <2>1
<1>6. Nat \subseteq S
  <2> HIDE DEF S
  <2> QED
    BY <1>4, <1>5, Induction
<1>7. Len(g[n]) = n /\ \A i \in 1 .. n : g[n][i] = s[i]
  BY <1>6, SMTT(30)
<1>8. g[n] \in Seq(V)
  BY <1>2
<1>9. g[n] = s
  BY <1>7, <1>8
<1> QED
  BY <1>3, <1>9 DEF t

\* Sequences related element by element; so are sequences put together of such.
Related(x, y, R) == Len(x) = Len(y) /\ \A i \in 1 .. Len(x) : <<x[i], y[i]>> \in R

LEMMA RelatedBoth ==
    ASSUME NEW V, NEW W, NEW R, NEW x \in Seq(V), NEW a \in Seq(V), NEW y \in Seq(W), NEW b \in Seq(W),
           Related(x, y, R), Related(a, b, R)
    PROVE  Related(x \o a, y \o b, R)
<1>1. PICK l \in Nat : l = Len(x) /\ l = Len(y) /\ \A i \in 1 .. l : <<x[i], y[i]>> \in R
  <2>1. Len(x) = Len(y) /\ Len(x) \in Nat /\ \A i \in 1 .. Len(x) : <<x[i], y[i]>> \in R
    BY DEF Related
  <2> QED
    BY <2>1
<1>2. PICK n \in Nat : n = Len(a) /\ n = Len(b) /\ \A i \in 1 .. n : <<a[i], b[i]>> \in R
  <2>1. Len(a) = Len(b) /\ Len(a) \in Nat /\ \A i \in 1 .. Len(a) : <<a[i], b[i]>> \in R
    BY DEF Related
  <2> QED
    BY <2>1
<1>3. PICK p, q : p = x \o a /\ q = y \o b
  OBVIOUS
<1>4. /\ Len(x \o a) = Len(x) + Len(a)
      /\ \A i \in 1 .. Len(x) : (x \o a)[i] = x[i]
      /\ \A i \in 1 .. Len(a) : (x \o a)[Len(x) + i] = a[i]
  BY Behind
<1>5. /\ Len(y \o b) = Len(y) + Len(b)
      /\ \A i \in 1 .. Len(y) : (y \o b)[i] = y[i]
      /\ \A i \in 1 .. Len(b) : (y \o b)[Len(y) + i] = b[i]
  BY Behind
<1>6. Len(p) = l + n /\ Len(q) = l + n
  BY <1>1, <1>2, <1>3, <1>4, <1>5
<1>7. ASSUME NEW i \in 1 .. l + n PROVE <<p[i], q[i]>> \in R
  <2>1. CASE i <= l
    <3>1. i \in 1 .. l
      BY <2>1
    <3>2. p[i] = x[i] /\ q[i] = y[i]
      BY <1>1, <1>3, <1>4, <1>5, <3>1
    <3> QED
      BY <1>1, <3>1, <3>2
  <2>2. CASE i > l
    <3>1. PICK d \in 1 .. n : d = i - l
      <4>1. i - l \in 1 .. n
        BY <2>2
      <4> QED
        BY <4>1
    <3>2. l + d = i
      BY <3>1
    <3>3. p[l + d] = a[d] /\ q[l + d] = b[d]
      BY <1>1, <1>2, <1>3, <1>4, <1>5
    <3> QED
      BY <1>2, <3>2, <3>3
  <2> QED
    BY <2>1, <2>2
<1> QED
  BY <1>3, <1>6, <1>7 DEF Related

LEMMA FlattenRelated ==
    ASSUME NEW V, NEW W, NEW R, NEW n \in Nat, NEW s \in [1 .. n -> Seq(V)], NEW t \in [1 .. n -> Seq(W)],
           \A k \in 1 .. n : Related(s[k], t[k], R)
    PROVE  Related(FlattenSeq(s), FlattenSeq(t), R)
<1>1. PICK g \in [0 .. n -> Seq(V)] : Gathers(g, s, n)
  BY FlattenParts
<1>2. PICK h \in [0 .. n -> Seq(W)] : Gathers(h, t, n)
  BY FlattenParts
<1>3. /\ g[0] = <<>> /\ FlattenSeq(s) = g[n] /\ \A k \in 1 .. n : g[k] = g[k - 1] \o s[k]
      /\ h[0] = <<>> /\ FlattenSeq(t) = h[n] /\ \A k \in 1 .. n : h[k] = h[k - 1] \o t[k]
  BY <1>1, <1>2 DEF Gathers
<1> DEFINE S == {k \in Nat : k <= n => Related(g[k], h[k], R)}
<1>4. 0 \in S
  <2>1. Related(<<>>, <<>>, R)
    BY DEF Related
  <2> QED
    BY <1>3, <2>1
<1>5. ASSUME NEW k \in Nat, k \in S PROVE k + 1 \in S
  <2>1. ASSUME k + 1 <= n PROVE Related(g[k + 1], h[k + 1], R)
    <3>1. PICK j \in 1 .. n : j = k + 1
      BY <2>1
    <3>2. j - 1 = k /\ k <= n /\ k \in 0 .. n
      BY <3>1
    <3>3. g[k] \in Seq(V) /\ h[k] \in Seq(W) /\ s[j] \in Seq(V) /\ t[j] \in Seq(W)
      BY <3>2
    <3>4. Related(g[k], h[k], R) /\ Related(s[j], t[j], R)
      BY <1>5, <3>2
    <3>5. Related(g[k] \o s[j], h[k] \o t[j], R)
      BY <3>3, <3>4, RelatedBoth
    <3>6. g[j] = g[k] \o s[j] /\ h[j] = h[k] \o t[j]
      BY <1>3, <3>2
    <3> QED
      BY <3>1, <3>5, <3>6
  <2> QED
    BY <2>1
<1>6. Nat \subseteq S
  <2> HIDE DEF S
  <2> QED
    BY <1>4, <1>5, Induction
<1>7. Related(g[n], h[n], R)
  BY <1>6
<1> QED
  BY <1>3, <1>7

\* A sum whose numbers behind the first are those of another, so many times.
LEMMA SumShift ==
    ASSUME NEW n \in Nat, NEW c \in Nat, NEW s \in [1 .. n -> Nat], NEW t \in [1 .. n + 1 -> Nat],
           \A i \in 1 .. n : t[i + 1] = c * s[i]
    PROVE  Sum(t) = t[1] + c * Sum(s)
<1>1. PICK m \in Nat : m = n + 1
  OBVIOUS
<1>2. PICK g \in [0 .. n -> Nat] :
          g[0] = 0 /\ Sum(s) = g[n] /\ \A k \in 1 .. n : g[k] = g[k - 1] + s[k]
  BY SumOK
<1>3. PICK h \in [0 .. m -> Nat] :
          h[0] = 0 /\ Sum(t) = h[m] /\ \A k \in 1 .. m : h[k] = h[k - 1] + t[k]
  BY <1>1, SumOK
<1>4. PICK a \in Nat : a = t[1]
  BY <1>1
<1> DEFINE S == {k \in Nat : k <= n => h[k + 1] = a + c * g[k]}
<1>5. 0 \in S
  <2>1. 1 \in 1 .. m /\ 1 - 1 = 0
    BY <1>1
  <2>2. h[1] = h[0] + t[1]
    BY <1>3, <2>1
  <2> QED
    BY <1>2, <1>3, <1>4, <2>2
<1>6. ASSUME NEW k \in Nat, k \in S PROVE k + 1 \in S
  <2>1. ASSUME k + 1 <= n PROVE h[(k + 1) + 1] = a + c * g[k + 1]
    <3>1. PICK j \in 1 .. n : j = k + 1
      BY <2>1
    <3>2. j - 1 = k /\ k <= n /\ k \in 0 .. n /\ j + 1 \in 1 .. m /\ (j + 1) - 1 = j
      BY <1>1, <3>1
    <3>3. g[j] = g[k] + s[j] /\ h[j + 1] = h[j] + t[j + 1]
      BY <1>2, <1>3, <3>2
    <3>4. h[j] = a + c * g[k] /\ t[j + 1] = c * s[j]
      BY <1>6, <3>1, <3>2
    <3>5. PICK x, y \in Nat : x = g[k] /\ y = s[j]
      BY <3>2
    <3>6. a + c * x + c * y = a + c * (x + y)
      OBVIOUS
    <3> QED
      BY <3>1, <3>3, <3>4, <3>5, <3>6
  <2> QED
    BY <2>1
<1>7. Nat \subseteq S
  <2> HIDE DEF S
  <2> QED
    BY <1>5, <1>6, Induction
<1>8. h[n + 1] = a + c * g[n]
  BY <1>7
<1> QED
  BY <1>1, <1>2, <1>3, <1>4, <1>8

\* Quotient and remainder are what they are known by.
LEMMA Division ==
    ASSUME NEW v \in Int, NEW d \in Nat, d > 0, NEW q \in Int, NEW r \in 0 .. d - 1, v = d * q + r
    PROVE  v \div d = q /\ v % d = r
<1>1. PICK x \in Int : x = v \div d
  OBVIOUS
<1>2. PICK y \in 0 .. d - 1 : y = v % d
  OBVIOUS
<1>3. v = d * x + y
  BY <1>1, <1>2
<1>4. ~(x > q)
  <2>1. SUFFICES ASSUME x > q PROVE FALSE
    OBVIOUS
  <2>2. PICK z \in Nat : x = q + 1 + z
    <3>1. x - q - 1 \in Nat /\ x = q + 1 + (x - q - 1)
      BY <2>1
    <3> QED
      BY <3>1
  <2>3. d * x = d * q + d + d * z /\ d * z \in Nat
    BY <2>2
  <2> QED
    BY <1>3, <2>3
<1>5. ~(q > x)
  <2>1. SUFFICES ASSUME q > x PROVE FALSE
    OBVIOUS
  <2>2. PICK z \in Nat : q = x + 1 + z
    <3>1. q - x - 1 \in Nat /\ q = x + 1 + (q - x - 1)
      BY <2>1
    <3> QED
      BY <3>1
  <2>3. d * q = d * x + d + d * z /\ d * z \in Nat
    BY <2>2
  <2> QED
    BY <1>3, <2>3
<1>6. x = q
  BY <1>4, <1>5
<1> QED
  BY <1>1, <1>2, <1>3, <1>6

(***************************************************************************)
(* Where varints end and what they say: what writeVarint has written is    *)
(* read back.                                                              *)
(***************************************************************************)

\* b has s from p on.
At(b, p, s) == /\ p \in Nat \ {0} /\ p - 1 + Len(s) <= Len(b)
               /\ \A i \in 1 .. Len(s) : b[p - 1 + i] = s[i]

\* A string of bytes.
LEMMA StrParts ==
    ASSUME NEW s \in Str
    PROVE  Len(s) \in Nat /\ \A i \in 1 .. Len(s) : s[i] \in 0 .. Byte - 1 /\ s[i] \in Nat
<1> DEFINE T == 0 .. Byte - 1
<1>1. s \in Seq(T)
  BY DEF Str
<1> HIDE DEF T
<1>2. Len(s) \in Nat /\ \A i \in 1 .. Len(s) : s[i] \in T
  BY <1>1
<1> QED
  BY <1>2, Widths DEF T

LEMMA StrBehind ==
    ASSUME NEW x \in Str, NEW y \in Str
    PROVE  /\ x \o y \in Str /\ Len(x) \in Nat /\ Len(y) \in Nat /\ Len(x \o y) = Len(x) + Len(y)
           /\ \A i \in 1 .. Len(x) : (x \o y)[i] = x[i]
           /\ \A i \in 1 .. Len(y) : (x \o y)[Len(x) + i] = y[i]
BY Behind DEF Str

\* Both parts of what is in b are in b, one behind the other.
LEMMA AtParts ==
    ASSUME NEW b \in Str, NEW p, NEW s \in Str, NEW t \in Str, At(b, p, s \o t)
    PROVE  At(b, p, s) /\ At(b, p + Len(s), t)
<1>1. PICK m, n \in Nat : m = Len(s) /\ n = Len(t)
  BY StrParts
<1>2. PICK u : u = s \o t
  OBVIOUS
<1>3. /\ Len(u) = m + n
      /\ \A i \in 1 .. m : u[i] = s[i]
      /\ \A i \in 1 .. n : u[m + i] = t[i]
  BY <1>1, <1>2, StrBehind
<1>4. /\ p \in Nat \ {0} /\ p - 1 + (m + n) <= Len(b) /\ Len(b) \in Nat
      /\ \A i \in 1 .. m + n : b[p - 1 + i] = u[i]
  BY <1>2, <1>3, StrParts DEF At
<1>5. \A i \in 1 .. m : b[p - 1 + i] = s[i]
  BY <1>3, <1>4
<1>6. ASSUME NEW i \in 1 .. n PROVE b[(p + m) - 1 + i] = t[i]
  <2>1. m + i \in 1 .. m + n /\ p - 1 + (m + i) = (p + m) - 1 + i
    BY <1>4
  <2> QED
    BY <1>3, <1>4, <2>1
<1>7. p - 1 + m <= Len(b) /\ (p + m) - 1 + n <= Len(b) /\ p + m \in Nat \ {0}
  BY <1>4
<1> QED
  BY <1>1, <1>4, <1>5, <1>6, <1>7 DEF At

\* What b has from p on is that part of b.
LEMMA AtSub ==
    ASSUME NEW b \in Str, NEW p, NEW s \in Str, At(b, p, s)
    PROVE  SubSeq(b, p, p + Len(s) - 1) = s
<1>1. PICK n \in Nat : n = Len(s)
  BY StrParts
<1>2. /\ p \in Nat \ {0} /\ p - 1 + n <= Len(b) /\ Len(b) \in Nat
      /\ \A i \in 1 .. n : b[p - 1 + i] = s[i]
  BY <1>1, StrParts DEF At
<1>3. SubSeq(b, p, p + n - 1) = [i \in 1 .. n |-> b[p + i - 1]]
  <2>1. (p + n - 1) - p + 1 = n
    BY <1>2
  <2>2. SubSeq(b, p, p + n - 1) = [i \in 1 .. (p + n - 1) - p + 1 |-> b[p + i - 1]]
    BY <1>2
  <2> QED
    BY <2>1, <2>2
<1>4. \A i \in 1 .. n : b[p + i - 1] = s[i]
  <2>1. \A i \in 1 .. n : p + i - 1 = p - 1 + i
    BY <1>2
  <2> QED
    BY <1>2, <2>1
<1>5. s = [i \in 1 .. n |-> s[i]]
  BY <1>1 DEF Str
<1> QED
  BY <1>1, <1>3, <1>4, <1>5

LEMMA AtWhole == ASSUME NEW b \in Str PROVE At(b, 1, b)
<1>1. PICK n \in Nat : n = Len(b)
  BY StrParts
<1>2. \A i \in 1 .. n : 1 - 1 + i = i
  OBVIOUS
<1> QED
  BY <1>1, <1>2 DEF At

-----------------------------------------------------------------------------
(***************************************************************************)
(* Varints.                                                                *)
(***************************************************************************)
LEMMA MinIs ==
    ASSUME NEW S \in SUBSET Nat, NEW m \in S, \A k \in S : m <= k
    PROVE  Min(S) = m
<1>1. \A x \in S : (\A y \in S : x <= y) => x = m
  OBVIOUS
<1> QED
  BY <1>1 DEF Min

\* Where the varint at p may end.
Ends(b, p) == {e \in p .. Len(b) : b[e] < Base} \cup {Len(b) + 1}

\* A varint ends at its first byte below Base: at p, or where the rest of it does.
LEMMA EndOK ==
    ASSUME NEW b \in Str, NEW p \in 1 .. Len(b) + 1
    PROVE  /\ VarIntEnd(b, p) \in p .. Len(b) + 1
           /\ p <= Len(b) /\ b[p] < Base => VarIntEnd(b, p) = p
           /\ p <= Len(b) /\ b[p] >= Base => VarIntEnd(b, p) = VarIntEnd(b, p + 1)
<1>1. PICK n \in Nat : n = Len(b)
  BY StrParts
<1>2. \A q \in 1 .. n + 1 : Ends(b, q) \in SUBSET Nat /\ n + 1 \in Ends(b, q) /\ VarIntEnd(b, q) = Min(Ends(b, q))
  BY <1>1 DEF Ends, VarIntEnd
<1>3. PICK m \in Ends(b, p) : \A k \in Ends(b, p) : m <= k
  BY <1>1, <1>2, Least
<1>4. VarIntEnd(b, p) = m
  BY <1>1, <1>2, <1>3, MinIs
<1>5. m \in p .. n + 1
  BY <1>1, <1>3 DEF Ends
<1>6. ASSUME p <= n, b[p] < Base PROVE m = p
  <2>1. p \in Ends(b, p)
    BY <1>1, <1>6 DEF Ends
  <2> QED
    BY <1>1, <1>3, <1>5, <2>1
<1>7. ASSUME p <= n, b[p] >= Base PROVE VarIntEnd(b, p + 1) = m
  <2>1. ~(b[p] < Base) /\ b[p] \in Nat
    BY <1>1, <1>7, Widths, StrParts
  <2>2. p .. n = (p + 1 .. n) \cup {p} /\ p + 1 \in 1 .. n + 1
    BY <1>1, <1>7
  <2>3. Ends(b, p) = Ends(b, p + 1)
    BY <1>1, <2>1, <2>2 DEF Ends
  <2> QED
    BY <1>2, <1>3, <2>2, <2>3, MinIs
<1> QED
  BY <1>1, <1>4, <1>5, <1>6, <1>7

\* The first n digits of the varint at p.
Digits(b, p, n) == [k \in 1 .. n |-> (b[p + k - 1] % Base) * Power(Base, k - 1)]

\* Digits are numbers.
LEMMA DigitsOK ==
    ASSUME NEW b \in Str, NEW p \in 1 .. Len(b), NEW n \in Nat, p + n - 1 <= Len(b)
    PROVE  Digits(b, p, n) \in [1 .. n -> Nat]
<1>1. ASSUME NEW k \in 1 .. n PROVE (b[p + k - 1] % Base) * Power(Base, k - 1) \in Nat
  <2>1. p + k - 1 \in 1 .. Len(b) /\ k - 1 \in Nat
    BY StrParts
  <2>2. b[p + k - 1] \in Nat
    BY <2>1, StrParts
  <2>3. PICK x \in Nat : x = b[p + k - 1] % Base
    BY <2>2, ModNat, Widths
  <2>4. PICK y \in Nat : y = Power(Base, k - 1)
    BY <2>1, BasePower
  <2>5. x * y \in Nat
    OBVIOUS
  <2> QED
    BY <2>3, <2>4, <2>5
<1> QED
  BY <1>1 DEF Digits

\* The value of a varint: its first digit, and Base times what the rest of it is.
LEMMA VarIntOK ==
    ASSUME NEW b \in Str, NEW p \in 1 .. Len(b), VarIntEnd(b, p) <= Len(b)
    PROVE  /\ VarIntAt(b, p) \in Nat
           /\ b[p] < Base => VarIntAt(b, p) = b[p]
           /\ b[p] >= Base => VarIntAt(b, p) = (b[p] % Base) + Base * VarIntAt(b, p + 1)
<1>1. PICK l \in Nat : l = Len(b)
  BY StrParts
<1>2. PICK e \in p .. l : e = VarIntEnd(b, p)
  BY <1>1, EndOK
<1>3. PICK n \in Nat : n = e - p
  BY <1>1
<1>4. e + 1 - p = n + 1 /\ p + (n + 1) - 1 = e
  BY <1>1, <1>3
<1>5. VarIntAt(b, p) = Sum(Digits(b, p, n + 1))
  BY <1>2, <1>4 DEF VarIntAt, Digits
<1>6. Digits(b, p, n + 1) \in [1 .. n + 1 -> Nat]
  BY <1>1, <1>4, DigitsOK
<1>7. Sum(Digits(b, p, n + 1)) \in Nat
  BY <1>6, SumNat
<1>8. Digits(b, p, n + 1)[1] = b[p] % Base
  <2>1. 1 \in 1 .. n + 1 /\ p + 1 - 1 = p /\ 1 - 1 = 0
    BY <1>1
  <2>2. Digits(b, p, n + 1)[1] = (b[p] % Base) * Power(Base, 0)
    BY <2>1 DEF Digits
  <2>3. PICK x \in Nat : x = b[p] % Base
    BY StrParts, ModNat, Widths
  <2>4. x * 1 = x
    OBVIOUS
  <2> QED
    BY <2>2, <2>3, <2>4, BasePower
<1>9. ASSUME b[p] < Base PROVE VarIntAt(b, p) = b[p]
  <2>1. n = 0
    <3>1. p \in 1 .. l + 1 /\ p <= l
      BY <1>1
    <3>2. e = p
      BY <1>1, <1>2, <1>9, <3>1, EndOK
    <3> QED
      BY <1>3, <3>2
  <2> DEFINE d == Digits(b, p, n + 1)
  <2>2. d \in [1 .. 1 -> Nat]
    BY <1>6, <2>1
  <2>3. Sum(d) = d[1]
    <3> HIDE DEF d
    <3>1. PICK m \in Nat : m = 1
      OBVIOUS
    <3>2. d \in [1 .. m -> Nat]
      BY <2>2, <3>1
    <3>3. PICK g \in [0 .. m -> Nat] : g[0] = 0 /\ Sum(d) = g[m] /\ \A k \in 1 .. m : g[k] = g[k - 1] + d[k]
      BY <3>2, SumOK
    <3>4. g[1] = g[0] + d[1] /\ d[1] \in Nat
      BY <3>1, <3>2, <3>3
    <3> QED
      BY <3>1, <3>3, <3>4
  <2>4. b[p] % Base = b[p]
    <3>1. PICK x \in Nat : x = b[p]
      BY StrParts
    <3>2. x < Base /\ Base \in Nat
      BY <1>9, <3>1, Widths
    <3>3. x % Base = x
      BY <3>2
    <3> QED
      BY <3>1, <3>3
  <2> QED
    BY <1>5, <1>8, <2>3, <2>4
<1>10. ASSUME b[p] >= Base PROVE VarIntAt(b, p) = (b[p] % Base) + Base * VarIntAt(b, p + 1)
  <2>1. VarIntEnd(b, p + 1) = e
    <3>1. p \in 1 .. l + 1 /\ p <= l
      BY <1>1
    <3> QED
      BY <1>1, <1>2, <1>10, <3>1, EndOK
  <2>2. p # l + 1 /\ p + 1 \in 1 .. l + 1
    BY <1>1
  <2>3. e \in p + 1 .. l + 1
    BY <1>1, <2>1, <2>2, EndOK
  <2>4. p + 1 \in 1 .. l /\ e + 1 - (p + 1) = n /\ (p + 1) + n - 1 = e
    BY <1>1, <1>3, <2>3
  <2>5. VarIntAt(b, p + 1) = Sum(Digits(b, p + 1, n))
    BY <2>1, <2>4 DEF VarIntAt, Digits
  <2>6. Digits(b, p + 1, n) \in [1 .. n -> Nat]
    BY <1>1, <2>4, DigitsOK
  <2>7. ASSUME NEW i \in 1 .. n PROVE Digits(b, p, n + 1)[i + 1] = Base * Digits(b, p + 1, n)[i]
    <3>1. i + 1 \in 1 .. n + 1 /\ p + (i + 1) - 1 = (p + 1) + i - 1 /\ (i + 1) - 1 = (i - 1) + 1 /\ i - 1 \in Nat
          /\ (p + 1) + i - 1 \in 1 .. l
      BY <1>1, <1>4, <2>4, SMTT(30)
    <3>2. PICK x \in Nat : x = b[(p + 1) + i - 1] % Base
      BY <1>1, <3>1, StrParts, ModNat, Widths, SMTT(30)
    <3>3. PICK y \in Nat : y = Power(Base, i - 1) /\ Power(Base, (i - 1) + 1) = Base * y
      BY <3>1, BasePower
    <3>4. Digits(b, p, n + 1)[i + 1] = x * (Base * y)
      BY <3>1, <3>2, <3>3 DEF Digits
    <3>5. Digits(b, p + 1, n)[i] = x * y
      BY <3>2, <3>3 DEF Digits
    <3>6. x * (Base * y) = Base * (x * y)
      BY Widths
    <3> QED
      BY <3>4, <3>5, <3>6
  <2>8. Sum(Digits(b, p, n + 1)) = Digits(b, p, n + 1)[1] + Base * Sum(Digits(b, p + 1, n))
    BY <1>6, <2>6, <2>7, SumShift, Widths, ZenonT(40)
  <2> QED
    BY <1>5, <1>8, <2>5, <2>8
<1> QED
  BY <1>5, <1>7, <1>9, <1>10

\* What writeVarint has written is read back.
LEMMA VarIntRead ==
    ASSUME NEW b \in Str
    PROVE  \A v \in Nat : \A p : At(b, p, writeVarint[v])
               => VarIntEnd(b, p) = p + Len(writeVarint[v]) - 1 /\ VarIntAt(b, p) = v
<1> DEFINE S == {v \in Nat : \A p : At(b, p, writeVarint[v])
                    => VarIntEnd(b, p) = p + Len(writeVarint[v]) - 1 /\ VarIntAt(b, p) = v}
<1>1. ASSUME NEW v \in Nat, \A k \in 0 .. v - 1 : k \in S PROVE v \in S
  <2>1. SUFFICES ASSUME NEW p, At(b, p, writeVarint[v])
                 PROVE  VarIntEnd(b, p) = p + Len(writeVarint[v]) - 1 /\ VarIntAt(b, p) = v
    OBVIOUS
  <2>2. PICK l \in Nat : l = Len(b)
    BY StrParts
  <2>3. CASE v < Base
    <3>1. writeVarint[v] = <<v>> /\ Len(<<v>>) = 1
      BY <2>3, VarintUnfolds
    <3>2. p \in Nat \ {0} /\ p - 1 + 1 <= l /\ b[p - 1 + 1] = v
      BY <2>1, <2>2, <3>1 DEF At
    <3>3. p \in 1 .. l /\ p - 1 + 1 = p /\ b[p] = v
      BY <3>2
    <3>4. VarIntEnd(b, p) = p
      BY <2>2, <2>3, <3>3, EndOK
    <3>5. VarIntAt(b, p) = v
      BY <2>2, <2>3, <3>3, <3>4, VarIntOK
    <3> QED
      BY <3>1, <3>3, <3>4, <3>5
  <2>4. CASE ~(v < Base)
    <3>1. PICK q \in Nat : q = v \div Base /\ q \in 0 .. v - 1
      <4>1. v >= Base
        BY <2>4, Widths
      <4>2. v \div Base \in Nat /\ v \div Base < v
        BY <4>1, Shifted
      <4> QED
        BY <4>2
    <3>2. PICK r \in 0 .. Base - 1 : r = v % Base
      BY Shifted
    <3>3. v = Base * q + r
      BY <3>1, <3>2, Widths
    <3>4. PICK s \in Str : s = writeVarint[q]
      BY VarintStr
    <3>5. writeVarint[v] = <<Base + r>> \o s
      BY <2>4, <3>1, <3>2, <3>4, VarintUnfolds
    <3>6. <<Base + r>> \in Str /\ Len(<<Base + r>>) = 1 /\ <<Base + r>>[1] = Base + r
      <4>1. Base + r \in 0 .. Byte - 1
        BY Widths
      <4> QED
        BY <4>1 DEF Str
    <3>7. At(b, p, <<Base + r>>) /\ At(b, p + 1, s)
      <4>1. PICK x \in Str : x = <<Base + r>> /\ Len(x) = 1
        BY <3>6
      <4>2. At(b, p, x \o s)
        BY <2>1, <3>5, <4>1
      <4> QED
        BY <4>1, <4>2, AtParts
    <3>8. p \in Nat \ {0} /\ p - 1 + 1 <= l /\ b[p - 1 + 1] = Base + r
      BY <2>2, <3>6, <3>7 DEF At
    <3>9. p \in 1 .. l /\ p \in 1 .. l + 1 /\ b[p] = Base + r /\ b[p] >= Base
      <4>1. p - 1 + 1 = p
        BY <3>8
      <4> QED
        BY <2>2, <3>8, <4>1, Widths
    <3>10. VarIntEnd(b, p + 1) = (p + 1) + Len(s) - 1 /\ VarIntAt(b, p + 1) = q
      <4>1. q \in S
        BY <1>1, <3>1
      <4> QED
        BY <3>4, <3>7, <4>1
    <3>11. VarIntEnd(b, p) = VarIntEnd(b, p + 1)
      BY <2>2, <3>9, EndOK
    <3>12. Len(writeVarint[v]) = 1 + Len(s) /\ Len(s) \in Nat
      <4>1. PICK x \in Str : x = <<Base + r>>
        BY <3>6
      <4>2. Len(x \o s) = Len(x) + Len(s) /\ Len(s) \in Nat
        BY StrBehind
      <4>3. Len(x) = 1 /\ writeVarint[v] = x \o s
        BY <3>5, <3>6, <4>1
      <4> QED
        BY <4>2, <4>3
    <3>13. VarIntEnd(b, p) = p + Len(writeVarint[v]) - 1
      BY <3>9, <3>10, <3>11, <3>12
    <3>14. VarIntEnd(b, p) <= Len(b)
      <4>1. p - 1 + Len(writeVarint[v]) <= Len(b)
        BY <2>1 DEF At
      <4>2. p - 1 + Len(writeVarint[v]) = p + Len(writeVarint[v]) - 1
        BY <3>9, <3>12
      <4> QED
        BY <3>13, <4>1, <4>2
    <3>15. VarIntAt(b, p) = (b[p] % Base) + Base * q
      BY <2>2, <3>9, <3>10, <3>14, VarIntOK
    <3>16. (Base + r) % Base = r
      <4>1. Base + r = Base * 1 + r /\ Base > 0 /\ Base \in Nat /\ Base + r \in Int
        BY Widths
      <4> QED
        BY <4>1, Division
    <3> QED
      BY <3>3, <3>9, <3>13, <3>15, <3>16, Widths
  <2> QED
    BY <2>3, <2>4
<1>2. Nat \subseteq S
  <2> HIDE DEF S
  <2> QED
    BY <1>1, StrongInduction
<1> QED
  BY <1>2

(***************************************************************************)
(* Bytes in little endian, two's complement and zigzag: the other ways a   *)
(* number is written.                                                      *)
(***************************************************************************)

\* Divided twice.
LEMMA DivDiv ==
    ASSUME NEW v \in Nat, NEW a \in Nat \ {0}, NEW c \in Nat \ {0}
    PROVE  (v \div a) \div c = v \div (a * c)
<1>1. PICK q \in Nat, r \in 0 .. a - 1 : q = v \div a /\ v = a * q + r
  <2>1. v \div a \in Nat /\ v % a \in 0 .. a - 1 /\ v = a * (v \div a) + (v % a)
    OBVIOUS
  <2> QED
    BY <2>1
<1>2. PICK x \in Nat, y \in 0 .. c - 1 : x = q \div c /\ q = c * x + y
  <2>1. q \div c \in Nat /\ q % c \in 0 .. c - 1 /\ q = c * (q \div c) + (q % c)
    OBVIOUS
  <2> QED
    BY <2>1
<1>3. PICK d \in Nat : d = a * c
  OBVIOUS
<1>4. d > 0
  <2>1. PICK e \in Nat : c = e + 1
    <3>1. c - 1 \in Nat /\ c = (c - 1) + 1
      OBVIOUS
    <3> QED
      BY <3>1
  <2>2. a * c = a * e + a /\ a * e \in Nat
    BY <2>1
  <2> QED
    BY <1>3, <2>2
<1>5. PICK z \in Nat : z = a * y + r
  OBVIOUS
<1>6. v = d * x + z
  <2>1. a * (c * x + y) = (a * c) * x + a * y
    OBVIOUS
  <2>2. v = a * (c * x + y) + r
    BY <1>1, <1>2
  <2>3. v = d * x + a * y + r
    BY <1>3, <2>1, <2>2
  <2> QED
    BY <1>5, <2>3
<1>7. z < d
  <2>1. PICK e \in Nat : c = y + 1 + e
    <3>1. c - y - 1 \in Nat /\ c = y + 1 + (c - y - 1)
      OBVIOUS
    <3> QED
      BY <3>1
  <2>2. a * c = a * y + a + a * e /\ a * e \in Nat
    BY <2>1
  <2> QED
    BY <1>3, <1>5, <2>2
<1>8. v \div d = x
  BY <1>4, <1>6, <1>7, Division
<1> QED
  BY <1>1, <1>2, <1>3, <1>8

\* Powers multiply.
LEMMA PowerAdd ==
    ASSUME NEW m \in Nat
    PROVE  \A n \in Nat : Power(Byte, m + n) = Power(Byte, m) * Power(Byte, n)
<1> DEFINE S == {n \in Nat : Power(Byte, m + n) = Power(Byte, m) * Power(Byte, n)}
<1>1. /\ Power(Byte, 0) = 1
      /\ \A n \in Nat : Power(Byte, n) \in Nat /\ Power(Byte, n + 1) = Byte * Power(Byte, n)
  BY PowerOK, Widths
<1>2. PICK a \in Nat : a = Power(Byte, m)
  BY <1>1
<1>3. 0 \in S
  <2>1. m + 0 = m /\ a * 1 = a
    OBVIOUS
  <2> QED
    BY <1>1, <1>2, <2>1
<1>4. ASSUME NEW n \in Nat, n \in S PROVE n + 1 \in S
  <2>1. PICK x, y \in Nat : x = Power(Byte, n) /\ y = Power(Byte, m + n)
    BY <1>1
  <2>2. y = a * x
    BY <1>2, <1>4, <2>1
  <2>3. m + (n + 1) = (m + n) + 1 /\ m + n \in Nat
    OBVIOUS
  <2>4. Power(Byte, m + (n + 1)) = Byte * y /\ Power(Byte, n + 1) = Byte * x
    BY <1>1, <2>1, <2>3
  <2>5. Byte * (a * x) = a * (Byte * x)
    BY Widths
  <2> QED
    BY <1>2, <2>2, <2>4, <2>5
<1>5. Nat \subseteq S
  <2> HIDE DEF S
  <2> QED
    BY <1>3, <1>4, Induction
<1> QED
  BY <1>5

\* The first n bytes of v, each with its weight.
Weights(v, n) == [k \in 1 .. n |-> ((v \div Power(Byte, k - 1)) % Byte) * Power(Byte, k - 1)]

\* Weights are numbers.
LEMMA WeightsOK ==
    ASSUME NEW v \in Nat, NEW n \in Nat
    PROVE  Weights(v, n) \in [1 .. n -> Nat]
<1>1. ASSUME NEW k \in 1 .. n
      PROVE  ((v \div Power(Byte, k - 1)) % Byte) * Power(Byte, k - 1) \in Nat
  <2>1. k - 1 \in Nat
    OBVIOUS
  <2>2. PICK p \in Nat : p = Power(Byte, k - 1) /\ p >= 1
    BY <2>1, BytePower
  <2>3. PICK x \in Nat : x = v \div p
    BY <2>2
  <2>4. PICK y \in Nat : y = x % Byte
    BY ModNat, Widths
  <2>5. y * p \in Nat
    OBVIOUS
  <2> QED
    BY <2>2, <2>3, <2>4, <2>5
<1> QED
  BY <1>1 DEF Weights

\* They add up to what v is without what is left of it.
LEMMA WeightsSum ==
    ASSUME NEW v \in Nat
    PROVE  \A n \in Nat : Sum(Weights(v, n)) + (v \div Power(Byte, n)) * Power(Byte, n) = v
<1> DEFINE S == {n \in Nat : Sum(Weights(v, n)) + (v \div Power(Byte, n)) * Power(Byte, n) = v}
<1>1. /\ Power(Byte, 0) = 1
      /\ \A n \in Nat : Power(Byte, n) \in Nat /\ Power(Byte, n + 1) = Byte * Power(Byte, n)
  BY PowerOK, Widths
<1>2. 0 \in S
  <2>1. Weights(v, 0) \in [1 .. 0 -> Nat]
    BY WeightsOK
  <2>2. Sum(Weights(v, 0)) = 0
    BY <2>1, SumEmpty
  <2>3. 0 + (v \div 1) * 1 = v
    OBVIOUS
  <2> QED
    BY <1>1, <2>2, <2>3
<1>3. ASSUME NEW n \in Nat, n \in S PROVE n + 1 \in S
  <2>1. PICK p \in Nat : p = Power(Byte, n) /\ p >= 1 /\ Power(Byte, n + 1) = Byte * p
    BY <1>1, BytePower
  <2>2. PICK x \in Nat : x = v \div p
    BY <2>1
  <2>3. PICK y \in Nat : y = x \div Byte
    BY Widths
  <2>4. PICK z \in Nat : z = x % Byte /\ x = Byte * y + z
    BY <2>3, ModNat, Widths
  <2>5. v \div (p * Byte) = y
    <3>1. p \in Nat \ {0} /\ Byte \in Nat \ {0}
      BY <2>1, Widths
    <3> QED
      BY <2>2, <2>3, <3>1, DivDiv
  <2>6. Weights(v, n + 1)[n + 1] = z * p
    <3>1. n + 1 \in 1 .. n + 1 /\ (n + 1) - 1 = n
      OBVIOUS
    <3> QED
      BY <2>1, <2>2, <2>4, <3>1 DEF Weights
  <2>7. PICK s \in Nat : s = Sum(Weights(v, n))
    BY WeightsOK, SumNat
  <2>8. Sum(Weights(v, n + 1)) = s + z * p
    <3>1. Weights(v, n) \in [1 .. n -> Nat] /\ Weights(v, n + 1) \in [1 .. n + 1 -> Nat]
      <4>1. n + 1 \in Nat
        OBVIOUS
      <4> QED
        BY <4>1, WeightsOK
    <3>2. \A i \in 1 .. n : Weights(v, n + 1)[i] = Weights(v, n)[i]
      BY DEF Weights
    <3> QED
      BY <2>6, <2>7, <3>1, <3>2, SumNext
  <2>9. s + x * p = v
    BY <1>3, <2>1, <2>2, <2>7
  <2>10. p * Byte = Byte * p /\ (s + z * p) + y * (Byte * p) = s + (Byte * y + z) * p
    BY Widths
  <2>11. Sum(Weights(v, n + 1)) + (v \div Power(Byte, n + 1)) * Power(Byte, n + 1) = v
    BY <2>1, <2>4, <2>5, <2>8, <2>9, <2>10
  <2> QED
    BY <2>11
<1>4. Nat \subseteq S
  <2> HIDE DEF S
  <2> QED
    BY <1>2, <1>3, Induction
<1> QED
  BY <1>4

\* What writeFixed32 and writeFixed64 have written is read back.
LEMMA LittleEndianRead ==
    ASSUME NEW v \in Nat, NEW n \in Nat, v < Power(Byte, n)
    PROVE  LittleEndian(FixedBytes(v, n)) = v
<1>1. DOMAIN FixedBytes(v, n) = 1 .. n
  BY DEF FixedBytes
<1>2. LittleEndian(FixedBytes(v, n)) = Sum(Weights(v, n))
  BY <1>1 DEF LittleEndian, FixedBytes, Weights
<1>3. PICK p \in Nat : p = Power(Byte, n) /\ p >= 1
  BY BytePower
<1>4. v \div p = 0
  BY <1>3
<1>5. PICK s \in Nat : s = Sum(Weights(v, n))
  BY WeightsOK, SumNat
<1>6. s + 0 * p = v
  BY <1>3, <1>4, <1>5, WeightsSum
<1> QED
  BY <1>2, <1>5, <1>6

\* Words are so many bytes.
LEMMA WordPowers == Word32 = Power(Byte, Fixed32) /\ Word64 = Power(Byte, 2 * Fixed32)
<1>1. 2 * Fixed32 = Fixed32 + Fixed32 /\ Fixed32 \in Nat
  BY Widths
<1> QED
  BY <1>1, PowerAdd DEF Word32, Word64

\* Two's complement.
LEMMA SignedRead ==
    ASSUME NEW w \in Nat, w > 0, NEW v \in Ints(w)
    PROVE  v \in Int /\ v % w \in 0 .. w - 1 /\ Signed(v % w, w) = v
<1>1. PICK h \in Nat : h = w \div 2 /\ 2 * h <= w
  OBVIOUS
<1>2. v \in Int /\ -h <= v /\ v <= h - 1
  BY <1>1 DEF Ints
<1>3. CASE v >= 0
  <2>1. v = w * 0 + v /\ v \in 0 .. w - 1 /\ 2 * v < w
    BY <1>1, <1>2, <1>3
  <2>2. v % w = v
    BY <1>2, <2>1, Division
  <2> QED
    BY <1>2, <2>1, <2>2 DEF Signed
<1>4. CASE v < 0
  <2>1. PICK x \in 0 .. w - 1 : x = v + w
    <3>1. v + w \in 0 .. w - 1
      BY <1>1, <1>2, <1>4
    <3> QED
      BY <3>1
  <2>2. v = w * (-1) + x /\ -1 \in Int
    BY <1>2, <2>1
  <2>3. v % w = x
    BY <1>2, <2>2, Division
  <2>4. 2 * x >= w /\ x - w = v
    BY <1>1, <1>2, <2>1
  <2> QED
    BY <1>2, <2>3, <2>4 DEF Signed
<1> QED
  BY <1>2, <1>3, <1>4

\* zigZagEncode is undone by the parity of what it gives.
LEMMA ZigZagRead ==
    ASSUME NEW v \in Int
    PROVE  /\ zigZagEncode(v) \in Nat
           /\ v = IF zigZagEncode(v) % 2 = 0 THEN zigZagEncode(v) \div 2
                  ELSE -((zigZagEncode(v) + 1) \div 2)
<1>1. CASE v >= 0
  <2>1. zigZagEncode(v) = 2 * v
    BY <1>1 DEF zigZagEncode
  <2>2. (2 * v) % 2 = 0 /\ (2 * v) \div 2 = v
    BY <1>1
  <2> QED
    BY <1>1, <2>1, <2>2
<1>2. CASE v < 0
  <2>1. PICK u \in Nat : v = -u /\ u > 0
    <3>1. -v \in Nat /\ -v > 0 /\ v = -(-v)
      BY <1>2
    <3> QED
      BY <3>1
  <2>2. zigZagEncode(v) = 2 * u - 1
    BY <1>2, <2>1 DEF zigZagEncode
  <2>3. (2 * u - 1) % 2 = 1 /\ ((2 * u - 1) + 1) \div 2 = u /\ 2 * u - 1 \in Nat
    BY <2>1
  <2> QED
    BY <2>1, <2>2, <2>3
<1> QED
  BY <1>1, <1>2

(***************************************************************************)
(* The records of a string, from each place on.                            *)
(***************************************************************************)

\* What a record is, and the records from p on when f gives them for what is behind.
Kinds == [number : Int, wire_type : Int, bytes : Str]
Found(b, f, p) == IF p > Len(b) THEN <<>>
                  ELSE IF LastOf(b, p) > Len(b) THEN <<Cut>>
                  ELSE RecordOf(b, p) \o f[LastOf(b, p) + 1]

\* Part of a string.
LEMMA SubStr ==
    ASSUME NEW b \in Str, NEW i \in Nat \ {0}, NEW j \in Nat, j <= Len(b)
    PROVE  SubSeq(b, i, j) \in Str
<1> DEFINE T == 0 .. Byte - 1
<1>1. b \in Seq(T) /\ Len(b) \in Nat
  BY DEF Str
<1> HIDE DEF T
<1>2. \A k \in 1 .. Len(b) : b[k] \in T
  BY <1>1
<1>3. SubSeq(b, i, j) \in Seq(T)
  <2>1. CASE i <= j
    <3>1. PICK n \in Nat : n = j - i + 1
      BY <2>1
    <3>2. SubSeq(b, i, j) = [k \in 1 .. n |-> b[i + k - 1]]
      BY <1>1, <3>1
    <3>3. \A k \in 1 .. n : i + k - 1 \in 1 .. Len(b)
      BY <1>1, <3>1
    <3>4. PICK s : s = [k \in 1 .. n |-> b[i + k - 1]]
      OBVIOUS
    <3>5. s \in [1 .. n -> T]
      BY <1>2, <3>3, <3>4
    <3>6. s \in Seq(T)
      BY <3>5
    <3> QED
      BY <3>2, <3>4, <3>6
  <2>2. CASE i > j
    <3>1. SubSeq(b, i, j) = <<>>
      BY <1>1, <2>2
    <3> QED
      BY <3>1
  <2> QED
    BY <2>1, <2>2
<1> QED
  BY <1>3 DEF Str, T

\* A field that has an end ends where it begins, or later, and not behind b.
LEMMA LastOK ==
    ASSUME NEW b \in Str, NEW p \in 1 .. Len(b), LastOf(b, p) <= Len(b)
    PROVE  LastOf(b, p) \in p .. Len(b) /\ RecordOf(b, p) \in Seq(Kinds)
<1>1. PICK l \in Nat : l = Len(b)
  BY StrParts
<1>2. PICK e \in p .. l + 1 : e = VarIntEnd(b, p)
  BY <1>1, EndOK
<1>3. e <= l
  <2>1. SUFFICES ASSUME e > l PROVE FALSE
    BY <1>1, <1>2
  <2>2. LastOf(b, p) = e
    BY <1>1, <1>2, <2>1 DEF LastOf
  <2> QED
    BY <1>1, <2>1, <2>2
<1>4. PICK t \in Nat : t = VarIntAt(b, p)
  BY <1>1, <1>2, <1>3, VarIntOK
<1>5. PICK w \in 0 .. 7 : w = t % 8
  OBVIOUS
<1>6. PICK q \in 1 .. l + 1 : q = e + 1 /\ p < q
  BY <1>1, <1>2, <1>3
<1>7. LastOf(b, p) = LastAt(b, w, q)
  BY <1>1, <1>2, <1>3, <1>4, <1>5, <1>6 DEF LastOf
<1>8. VarIntEnd(b, q) \in q .. l + 1
  BY <1>1, EndOK
<1>9. LastAt(b, w, q) \in q - 1 .. l /\ FirstAt(b, w, q) \in q .. l + 1
  <2>1. CASE w = 0
    BY <1>1, <1>7, <1>8, <2>1 DEF LastAt, FirstAt
  <2>2. CASE w = 1
    <3>1. LastAt(b, w, q) = q + 2 * Fixed32 - 1 /\ FirstAt(b, w, q) = q
      BY <2>2 DEF LastAt, FirstAt
    <3> QED
      BY <1>1, <1>7, <3>1, Widths
  <2>3. CASE w = 2
    <3>1. PICK d \in q .. l + 1 : d = VarIntEnd(b, q)
      BY <1>8
    <3>2. LastAt(b, w, q) = IF d > Len(b) THEN d ELSE d + VarIntAt(b, q)
      BY <2>3, <3>1 DEF LastAt
    <3>3. d <= l
      BY <1>1, <1>7, <3>2
    <3>4. q \in 1 .. l
      BY <3>1, <3>3
    <3>5. VarIntAt(b, q) \in Nat
      BY <1>1, <3>1, <3>3, <3>4, VarIntOK
    <3>6. FirstAt(b, w, q) = d + 1
      BY <2>3, <3>1 DEF FirstAt
    <3> QED
      BY <1>1, <1>7, <3>2, <3>3, <3>5, <3>6
  <2>4. CASE w \in {3, 4}
    <3>1. LastAt(b, w, q) = q - 1 /\ FirstAt(b, w, q) = q
      BY <2>4 DEF LastAt, FirstAt
    <3> QED
      BY <1>1, <1>7, <3>1
  <2>5. CASE w = 5
    <3>1. LastAt(b, w, q) = q + Fixed32 - 1 /\ FirstAt(b, w, q) = q
      BY <2>5 DEF LastAt, FirstAt
    <3> QED
      BY <1>1, <1>7, <3>1, Widths
  <2>6. CASE w \in {6, 7}
    <3>1. LastAt(b, w, q) = Len(b) + 1
      BY <2>6 DEF LastAt
    <3> QED
      BY <1>1, <1>7, <3>1
  <2> QED
    BY <2>1, <2>2, <2>3, <2>4, <2>5, <2>6
<1>10. LastOf(b, p) \in p .. Len(b)
  BY <1>1, <1>6, <1>7, <1>9
<1>11. SubSeq(b, FirstAt(b, w, q), LastOf(b, p)) \in Str
  <2>1. FirstAt(b, w, q) \in Nat \ {0} /\ LastOf(b, p) \in Nat
    BY <1>1, <1>9, <1>10
  <2> QED
    BY <2>1, SubStr
<1>12. CASE w \in {3, 4}
  <2>1. RecordOf(b, p) = <<>>
    BY <1>4, <1>5, <1>12 DEF RecordOf
  <2> QED
    BY <1>10, <2>1
<1>13. CASE w \notin {3, 4}
  <2>1. PICK x \in Str : x = SubSeq(b, FirstAt(b, w, q), LastOf(b, p))
    BY <1>11
  <2>2. RecordOf(b, p) = <<[number |-> t \div 8, wire_type |-> w, bytes |-> x]>>
    BY <1>2, <1>4, <1>5, <1>6, <1>13, <2>1 DEF RecordOf
  <2>3. [number |-> t \div 8, wire_type |-> w, bytes |-> x] \in Kinds
    BY DEF Kinds
  <2> QED
    BY <1>10, <2>2, <2>3
<1> QED
  BY <1>12, <1>13

\* Where a field ends is a number, whatever b holds.
LEMMA LastInt ==
    ASSUME NEW b \in Str, NEW p \in 1 .. Len(b)
    PROVE  LastOf(b, p) \in Int
<1>1. PICK l \in Nat : l = Len(b)
  BY StrParts
<1>2. PICK e \in p .. l + 1 : e = VarIntEnd(b, p)
  BY <1>1, EndOK
<1>3. CASE e > l
  BY <1>1, <1>2, <1>3 DEF LastOf
<1>4. CASE e <= l
  <2>1. PICK t \in Nat : t = VarIntAt(b, p)
    BY <1>1, <1>2, <1>4, VarIntOK
  <2>2. PICK w \in 0 .. 7 : w = t % 8
    OBVIOUS
  <2>3. PICK q \in 1 .. l + 1 : q = e + 1
    BY <1>2, <1>4
  <2>4. LastOf(b, p) = LastAt(b, w, q)
    BY <1>1, <1>2, <1>4, <2>1, <2>2, <2>3 DEF LastOf
  <2>5. PICK d \in q .. l + 1 : d = VarIntEnd(b, q)
    BY <1>1, EndOK
  <2>6. CASE w = 0
    <3>1. LastAt(b, w, q) = d
      BY <2>5, <2>6 DEF LastAt
    <3> QED
      BY <2>4, <3>1
  <2>7. CASE w = 1
    <3>1. LastAt(b, w, q) = q + 2 * Fixed32 - 1
      BY <2>7 DEF LastAt
    <3> QED
      BY <2>4, <3>1, Widths
  <2>8. CASE w = 2
    <3>1. LastAt(b, w, q) = IF d > Len(b) THEN d ELSE d + VarIntAt(b, q)
      BY <2>5, <2>8 DEF LastAt
    <3>2. d <= l => VarIntAt(b, q) \in Nat
      <4>1. d <= l => q \in 1 .. l
        OBVIOUS
      <4> QED
        BY <1>1, <2>5, <4>1, VarIntOK
    <3> QED
      BY <1>1, <2>4, <3>1, <3>2
  <2>9. CASE w \in {3, 4}
    <3>1. LastAt(b, w, q) = q - 1
      BY <2>9 DEF LastAt
    <3> QED
      BY <2>4, <3>1
  <2>10. CASE w = 5
    <3>1. LastAt(b, w, q) = q + Fixed32 - 1
      BY <2>10 DEF LastAt
    <3> QED
      BY <2>4, <3>1, Widths
  <2>11. CASE w \in {6, 7}
    <3>1. LastAt(b, w, q) = l + 1
      BY <1>1, <2>11 DEF LastAt
    <3> QED
      BY <2>4, <3>1
  <2> QED
    BY <2>6, <2>7, <2>8, <2>9, <2>10, <2>11
<1> QED
  BY <1>3, <1>4

\* The records from p on, given those from further on.
LEMMA RecordsUnfold ==
    ASSUME NEW b \in Str
    PROVE  \A p \in 1 .. Len(b) + 1 : /\ RecordsFrom(b)[p] = Found(b, RecordsFrom(b), p)
                                      /\ RecordsFrom(b)[p] \in Seq(Kinds)
<1>1. PICK l \in Nat : l = Len(b)
  BY StrParts
<1>2. PICK V : V = Seq(Kinds)
  OBVIOUS
<1>3. <<>> \in V /\ <<Cut>> \in V
  <2>1. <<>> \in Str
    BY DEF Str
  <2>2. Cut \in Kinds
    BY <2>1 DEF Cut, Kinds
  <2> QED
    BY <1>2, <2>2
<1>4. \A x, y \in V : x \o y \in V
  BY <1>2, Behind
<1> DEFINE F(f) == [p \in 1 .. l + 1 |-> IF p > l THEN <<>>
                                         ELSE IF LastOf(b, p) > l THEN <<Cut>>
                                         ELSE RecordOf(b, p) \o f[LastOf(b, p) + 1]]
           E(p, h) == IF p < 1 \/ p > l THEN <<>>
                      ELSE IF LastOf(b, p) > l THEN <<Cut>>
                      ELSE RecordOf(b, p) \o h[l + 1 - LastOf(b, p)]
           D == [h \in Seq(V) |-> E(l + 1 - Len(h), h)]
           from == CHOOSE f : f = F(f)
<1>5. \A p \in 1 .. l : LastOf(b, p) \in Int /\ (LastOf(b, p) <= l => LastOf(b, p) \in p .. l /\ RecordOf(b, p) \in V)
  BY <1>1, <1>2, LastInt, LastOK
<1>6. D \in [Seq(V) -> V]
  <2>1. ASSUME NEW h \in Seq(V) PROVE E(l + 1 - Len(h), h) \in V
    <3>1. PICK p \in Int : p = l + 1 - Len(h)
      <4>1. Len(h) \in Nat
        OBVIOUS
      <4>2. l + 1 - Len(h) \in Int
        BY <4>1
      <4> HIDE DEF F, E, D, from
      <4> QED
        BY <4>2
    <3>2. ASSUME 1 <= p, p <= l, LastOf(b, p) <= l PROVE RecordOf(b, p) \o h[l + 1 - LastOf(b, p)] \in V
      <4>1. p \in 1 .. l /\ Len(h) = l + 1 - p
        BY <3>1, <3>2
      <4>2. PICK q \in p .. l : q = LastOf(b, p)
        BY <1>5, <3>2, <4>1
      <4>3. l + 1 - q \in 1 .. Len(h)
        BY <4>1, <4>2
      <4>4. h[l + 1 - q] \in V
        BY <4>3
      <4> QED
        BY <1>4, <1>5, <3>2, <4>1, <4>2, <4>4
    <3>3. E(p, h) \in V
      <4>1. CASE p < 1 \/ p > l
        BY <1>3, <4>1
      <4>2. CASE ~(p < 1 \/ p > l)
        <5>1. p \in 1 .. l
          BY <4>2
        <5>2. LastOf(b, p) \in Int
          BY <1>5, <5>1
        <5>3. CASE LastOf(b, p) > l
          BY <1>3, <4>2, <5>3
        <5>4. CASE ~(LastOf(b, p) > l)
          BY <3>2, <4>2, <5>1, <5>2, <5>4
        <5> QED
          BY <5>3, <5>4
      <4> QED
        BY <4>1, <4>2
    <3> QED
      BY <3>1, <3>3
  <2> HIDE DEF E
  <2> QED
    BY <2>1
<1>7. \E f : f = F(f) /\ f \in [1 .. l + 1 -> V]
  <2>1. PICK g \in [Nat -> V] : \A n \in Nat : \A h \in Seq(V) :
            Len(h) = n /\ (\A i \in 1 .. n : h[i] = g[i - 1]) => g[n] = D[h]
    <3> HIDE DEF D
    <3> QED
      BY <1>6, CourseOfValues
  <2> DEFINE f == [p \in 1 .. l + 1 |-> g[l + 1 - p]]
  <2>2. f \in [1 .. l + 1 -> V]
    BY <1>1
  <2>3. ASSUME NEW p \in 1 .. l + 1
        PROVE  f[p] = IF p > l THEN <<>>
                      ELSE IF LastOf(b, p) > l THEN <<Cut>>
                      ELSE RecordOf(b, p) \o f[LastOf(b, p) + 1]
    <3>1. PICK n \in Nat : n = l + 1 - p
      OBVIOUS
    <3>2. PICK h \in Seq(V) : h = [i \in 1 .. n |-> g[i - 1]] /\ Len(h) = n
      <4>1. PICK h : h = [i \in 1 .. n |-> g[i - 1]]
        OBVIOUS
      <4>2. h \in [1 .. n -> V]
        <5>1. \A i \in 1 .. n : i - 1 \in Nat
          OBVIOUS
        <5> QED
          BY <4>1, <5>1
      <4>3. h \in Seq(V) /\ Len(h) = n
        BY <4>2
      <4> QED
        BY <4>1, <4>3
    <3>3. g[n] = D[h]
      <4>1. \A i \in 1 .. n : h[i] = g[i - 1]
        BY <3>2
      <4> HIDE DEF D
      <4> QED
        BY <2>1, <3>2, <4>1
    <3>4. l + 1 - Len(h) = p
      BY <3>1, <3>2
    <3>5. D[h] = E(p, h)
      <4>1. D[h] = E(l + 1 - Len(h), h)
        OBVIOUS
      <4> HIDE DEF D, E
      <4> QED
        BY <3>4, <4>1
    <3>6. f[p] = E(p, h)
      BY <3>1, <3>3, <3>5
    <3>7. CASE p > l
      BY <3>6, <3>7
    <3>8. CASE p <= l
      <4>1. p \in 1 .. l
        BY <3>8
      <4>2. PICK q \in Int : q = LastOf(b, p)
        BY <1>5, <4>1
      <4>3. CASE q > l
        BY <3>6, <4>1, <4>2, <4>3
      <4>4. CASE q <= l
        <5>1. q \in p .. l
          BY <1>5, <4>1, <4>2, <4>4
        <5>2. l + 1 - q \in 1 .. n /\ (l + 1 - q) - 1 = l + 1 - (q + 1) /\ q + 1 \in 1 .. l + 1
          BY <3>1, <4>1, <5>1
        <5>3. h[l + 1 - q] = g[(l + 1 - q) - 1]
          BY <3>2, <5>2
        <5>4. h[l + 1 - q] = f[q + 1]
          BY <5>2, <5>3
        <5> HIDE DEF f
        <5>6. ~(p > l) /\ ~(LastOf(b, p) > l) /\ ~(p < 1)
          BY <4>1, <4>2, <4>4
        <5>5. f[p] = RecordOf(b, p) \o h[l + 1 - q]
          BY <3>6, <4>2, <5>6, Zenon
        <5> QED
          BY <4>2, <5>4, <5>5, <5>6, Zenon
      <4> QED
        BY <4>3, <4>4
    <3> QED
      BY <3>7, <3>8
  <2>4. f = F(f)
    <3>1. PICK k : k = f
      OBVIOUS
    <3>2. k = [p \in 1 .. l + 1 |-> k[p]]
      BY <3>1
    <3>3. \A p \in 1 .. l + 1 : k[p] = IF p > l THEN <<>>
                      ELSE IF LastOf(b, p) > l THEN <<Cut>>
                      ELSE RecordOf(b, p) \o k[LastOf(b, p) + 1]
      BY <2>3, <3>1
    <3> HIDE DEF f
    <3>4. k = F(k)
      BY <3>2, <3>3
    <3> QED
      BY <3>1, <3>4
  <2> HIDE DEF f, F
  <2> QED
    BY <2>2, <2>4
<1>8. RecordsFrom(b) = from
  BY <1>1 DEF RecordsFrom
<1>9. from = F(from)
  BY <1>7
<1>10. \A f : f = F(f) => f \in [1 .. l + 1 -> V]
  <2>1. SUFFICES ASSUME NEW f, f = F(f) PROVE f \in [1 .. l + 1 -> V]
    OBVIOUS
  <2>2. \A p \in 1 .. l + 1 : f[p] = IF p > l THEN <<>>
                      ELSE IF LastOf(b, p) > l THEN <<Cut>>
                      ELSE RecordOf(b, p) \o f[LastOf(b, p) + 1]
    BY <2>1
  <2>3. f = [p \in 1 .. l + 1 |-> f[p]]
    BY <2>1
  <2> HIDE DEF F
  <2> DEFINE S == {k \in Nat : \A p \in 1 .. l + 1 : p + k = l + 1 => f[p] \in V}
  <2>4. ASSUME NEW k \in Nat, \A i \in 0 .. k - 1 : i \in S PROVE k \in S
    <3>1. SUFFICES ASSUME NEW p \in 1 .. l + 1, p + k = l + 1 PROVE f[p] \in V
      OBVIOUS
    <3>2. CASE p > l
      BY <1>3, <2>2, <3>2
    <3>3. CASE p <= l
      <4>1. p \in 1 .. l
        BY <3>3
      <4>2. PICK q \in Int : q = LastOf(b, p)
        BY <1>5, <4>1
      <4>3. CASE q > l
        BY <1>3, <2>2, <4>1, <4>2, <4>3
      <4>4. CASE q <= l
        <5>1. q \in p .. l
          BY <1>5, <4>1, <4>2, <4>4
        <5>2. PICK i \in 0 .. k - 1 : i = l - q
          BY <3>1, <5>1
        <5>3. q + 1 \in 1 .. l + 1 /\ (q + 1) + i = l + 1
          BY <4>1, <5>1, <5>2
        <5>4. f[q + 1] \in V
          BY <2>4, <5>2, <5>3
        <5>6. ~(p > l) /\ ~(LastOf(b, p) > l)
          BY <4>1, <4>2, <4>4
        <5>5. f[p] = RecordOf(b, p) \o f[q + 1]
          BY <2>2, <4>2, <5>6, Zenon
        <5> QED
          BY <1>4, <1>5, <4>1, <4>2, <4>4, <5>4, <5>5
      <4> QED
        BY <4>3, <4>4
    <3> QED
      BY <3>2, <3>3
  <2>5. Nat \subseteq S
    <3> HIDE DEF S
    <3> QED
      BY <2>4, StrongInduction
  <2>6. ASSUME NEW p \in 1 .. l + 1 PROVE f[p] \in V
    <3>1. l + 1 - p \in Nat /\ p + (l + 1 - p) = l + 1
      OBVIOUS
    <3>2. l + 1 - p \in S
      <4> HIDE DEF S
      <4> QED
        BY <2>5, <3>1
    <3> QED
      BY <3>1, <3>2
  <2> QED
    BY <2>3, <2>6
<1>11. from \in [1 .. l + 1 -> V]
  <2> HIDE DEF F
  <2> QED
    BY <1>9, <1>10
<1>12. PICK r : r = from
  OBVIOUS
<1>13. r = F(r) /\ r \in [1 .. l + 1 -> V] /\ r = RecordsFrom(b)
  <2> HIDE DEF F, from
  <2> QED
    BY <1>8, <1>9, <1>11, <1>12
<1>14. \A p \in 1 .. l + 1 : r[p] = (IF p > l THEN <<>>
                      ELSE IF LastOf(b, p) > l THEN <<Cut>>
                      ELSE RecordOf(b, p) \o r[LastOf(b, p) + 1]) /\ r[p] \in V
  BY <1>13
<1> QED
  BY <1>1, <1>2, <1>13, <1>14 DEF Found

(***************************************************************************)
(* What is written one after another is read as one record after another.  *)
(***************************************************************************)

\* Bytes s that say what bytes x of a value of wire type w are.
Carries(w, s, x) == \/ w = 0 /\ s = x /\ \E v \in Nat : s = writeVarint[v]
                    \/ w = 1 /\ s = x /\ Len(s) = 2 * Fixed32
                    \/ w = 2 /\ s = writeVarint[Len(x)] \o x
                    \/ w = 5 /\ s = x /\ Len(s) = Fixed32

\* Wherever s is in b, records rs are found of it.
Reads(b, s, rs) == \A p : At(b, p, s) => RecordsFrom(b)[p] = rs \o RecordsFrom(b)[p + Len(s)]

\* A varint has a byte.
LEMMA VarintPositive == ASSUME NEW v \in Nat PROVE Len(writeVarint[v]) \in Nat \ {0}
<1>1. CASE v < Base
  <2>1. writeVarint[v] = <<v>>
    BY <1>1, VarintUnfolds
  <2>2. Len(<<v>>) = 1
    OBVIOUS
  <2> QED
    BY <2>1, <2>2
<1>2. CASE ~(v < Base)
  <2>1. v \div Base \in Nat
    BY Shifted
  <2>2. PICK x \in Str : x = writeVarint[v \div Base]
    BY <2>1, VarintStr
  <2>3. PICK d \in 0 .. Byte - 1 : d = Base + (v % Base)
    <3>1. v % Base \in 0 .. Base - 1
      BY Shifted
    <3>2. Base + (v % Base) \in 0 .. Byte - 1
      BY <3>1, Widths
    <3> QED
      BY <3>2
  <2>4. PICK y \in Str : y = <<d>> /\ Len(y) = 1
    <3>1. d \in 0 .. Byte - 1
      OBVIOUS
    <3>2. <<d>> \in Str /\ Len(<<d>>) = 1
      BY <3>1 DEF Str
    <3> QED
      BY <3>2
  <2>5. writeVarint[v] = y \o x
    BY <1>2, <2>2, <2>3, <2>4, VarintUnfolds
  <2>6. Len(y \o x) = 1 + Len(x) /\ Len(x) \in Nat
    BY <2>4, StrBehind
  <2> QED
    BY <2>5, <2>6
<1> QED
  BY <1>1, <1>2

\* A tag and what follows it are one record.
LEMMA RecordRead ==
    ASSUME NEW b \in Str, NEW t \in Nat, NEW s \in Str, NEW x \in Str, Carries(t % 8, s, x)
    PROVE  Reads(b, writeVarint[t] \o s, <<[number |-> t \div 8, wire_type |-> t % 8, bytes |-> x]>>)
<1>1. PICK w \in 0 .. 7 : w = t % 8
  OBVIOUS
<1>2. PICK l \in Nat : l = Len(b)
  BY StrParts
<1>3. PICK y \in Str : y = writeVarint[t]
  BY VarintStr
<1>4. PICK n \in Nat \ {0} : n = Len(y)
  BY <1>3, VarintPositive
<1>5. PICK k \in Nat : k = Len(s) /\ Len(y \o s) = n + k
  BY <1>4, StrBehind
<1>6. SUFFICES ASSUME NEW p, At(b, p, y \o s)
               PROVE  RecordsFrom(b)[p] = <<[number |-> t \div 8, wire_type |-> w, bytes |-> x]>>
                                          \o RecordsFrom(b)[p + (n + k)]
  BY <1>1, <1>3, <1>5 DEF Reads
<1>7. At(b, p, y) /\ At(b, p + n, s)
  BY <1>4, <1>6, AtParts
<1>8. p \in Nat \ {0} /\ p - 1 + (n + k) <= l
  BY <1>2, <1>5, <1>6 DEF At
<1>9. p \in 1 .. l /\ p + (n + k) \in 1 .. l + 1 /\ p + n - 1 <= l
  BY <1>8
<1>10. VarIntEnd(b, p) = p + n - 1 /\ VarIntAt(b, p) = t
  BY <1>3, <1>4, <1>7, VarIntRead
<1>11. PICK q \in 1 .. l + 1 : q = p + n /\ q = VarIntEnd(b, p) + 1
  BY <1>8, <1>9, <1>10
<1>12. LastOf(b, p) = LastAt(b, w, q)
  BY <1>1, <1>2, <1>9, <1>10, <1>11 DEF LastOf
<1>13. LastAt(b, w, q) = q + k - 1 /\ SubSeq(b, FirstAt(b, w, q), q + k - 1) = x
  <2>1. SubSeq(b, q, q + k - 1) = s
    BY <1>5, <1>7, <1>11, AtSub
  <2>2. CASE w = 0 /\ s = x /\ \E v \in Nat : s = writeVarint[v]
    <3>1. VarIntEnd(b, q) = q + k - 1
      <4>1. PICK v \in Nat : s = writeVarint[v]
        BY <2>2
      <4> QED
        BY <1>5, <1>7, <1>11, <4>1, VarIntRead
    <3>2. LastAt(b, w, q) = VarIntEnd(b, q) /\ FirstAt(b, w, q) = q
      BY <2>2 DEF LastAt, FirstAt
    <3> QED
      BY <2>1, <2>2, <3>1, <3>2
  <2>3. CASE w = 1 /\ s = x /\ Len(s) = 2 * Fixed32
    <3>1. LastAt(b, w, q) = q + 2 * Fixed32 - 1 /\ FirstAt(b, w, q) = q
      BY <2>3 DEF LastAt, FirstAt
    <3> QED
      BY <1>5, <2>1, <2>3, <3>1
  <2>4. CASE w = 2 /\ s = writeVarint[Len(x)] \o x
    <3>1. PICK j \in Nat : j = Len(x)
      BY StrParts
    <3>2. PICK z \in Str : z = writeVarint[j]
      BY VarintStr
    <3>3. PICK i \in Nat : i = Len(z) /\ Len(z \o x) = i + j
      BY <3>1, StrBehind
    <3>4. s = z \o x
      BY <2>4, <3>1, <3>2
    <3>5. At(b, q, z) /\ At(b, q + i, x)
      BY <1>7, <1>11, <3>3, <3>4, AtParts
    <3>6. VarIntEnd(b, q) = q + i - 1 /\ VarIntAt(b, q) = j
      BY <3>1, <3>2, <3>3, <3>5, VarIntRead
    <3>7. k = i + j
      BY <1>5, <3>3, <3>4
    <3>8. q + i - 1 <= l
      BY <1>8, <1>11, <3>7
    <3>9. LastAt(b, w, q) = (q + i - 1) + j
      BY <1>2, <2>4, <3>6, <3>8 DEF LastAt
    <3>10. FirstAt(b, w, q) = q + i
      <4>1. (q + i - 1) + 1 = q + i
        OBVIOUS
      <4> QED
        BY <2>4, <3>6, <4>1 DEF FirstAt
    <3>11. SubSeq(b, q + i, (q + i) + j - 1) = x
      BY <3>1, <3>5, AtSub
    <3>12. (q + i) + j - 1 = q + k - 1 /\ (q + i - 1) + j = q + k - 1
      BY <3>7
    <3> QED
      BY <3>9, <3>10, <3>11, <3>12
  <2>5. CASE w = 5 /\ s = x /\ Len(s) = Fixed32
    <3>1. LastAt(b, w, q) = q + Fixed32 - 1 /\ FirstAt(b, w, q) = q
      BY <2>5 DEF LastAt, FirstAt
    <3> QED
      BY <1>5, <2>1, <2>5, <3>1
  <2> QED
    BY <1>1, <2>2, <2>3, <2>4, <2>5 DEF Carries
<1>14. w \notin {3, 4}
  BY <1>1 DEF Carries
<1>15. RecordOf(b, p) = <<[number |-> t \div 8, wire_type |-> w, bytes |-> x]>>
  BY <1>1, <1>10, <1>11, <1>12, <1>13, <1>14 DEF RecordOf
<1>16. RecordsFrom(b)[p] = Found(b, RecordsFrom(b), p)
  BY <1>2, <1>9, RecordsUnfold
<1>17. LastOf(b, p) = q + k - 1 /\ ~(p > Len(b)) /\ ~(LastOf(b, p) > Len(b)) /\ LastOf(b, p) + 1 = p + (n + k)
  BY <1>2, <1>8, <1>9, <1>11, <1>12, <1>13
<1> QED
  BY <1>15, <1>16, <1>17, Zenon DEF Found

\* The records behind p, wherever it is.
LEMMA RecordsKinds ==
    ASSUME NEW b \in Str, NEW p, NEW s \in Str, At(b, p, s)
    PROVE  RecordsFrom(b)[p + Len(s)] \in Seq(Kinds)
<1>1. PICK l \in Nat : l = Len(b)
  BY StrParts
<1>2. PICK n \in Nat : n = Len(s)
  BY StrParts
<1>3. p \in Nat \ {0} /\ p - 1 + n <= l
  BY <1>1, <1>2 DEF At
<1>4. p + n \in 1 .. l + 1
  BY <1>3
<1> QED
  BY <1>1, <1>2, <1>4, RecordsUnfold

\* Nothing is read as nothing.
LEMMA ReadsNone == ASSUME NEW b \in Str PROVE Reads(b, <<>>, <<>>)
<1>1. SUFFICES ASSUME NEW p, At(b, p, <<>>)
               PROVE  RecordsFrom(b)[p] = <<>> \o RecordsFrom(b)[p + Len(<<>>)]
  BY DEF Reads
<1>2. p \in Nat /\ Len(<<>>) = 0 /\ p + 0 = p
  BY <1>1 DEF At
<1>3. <<>> \in Str
  BY DEF Str
<1>4. PICK rs \in Seq(Kinds) : rs = RecordsFrom(b)[p + Len(<<>>)]
  BY <1>1, <1>3, RecordsKinds
<1>5. <<>> \o rs = rs
  OBVIOUS
<1> QED
  BY <1>2, <1>4, <1>5

\* What is written one after another is read as one after another, ...
LEMMA ReadsBoth ==
    ASSUME NEW b \in Str, NEW s \in Str, NEW t \in Str, NEW x \in Seq(Kinds), NEW y \in Seq(Kinds),
           Reads(b, s, x), Reads(b, t, y)
    PROVE  Reads(b, s \o t, x \o y)
<1>1. SUFFICES ASSUME NEW p, At(b, p, s \o t)
               PROVE  RecordsFrom(b)[p] = (x \o y) \o RecordsFrom(b)[p + Len(s \o t)]
  BY DEF Reads
<1>2. At(b, p, s) /\ At(b, p + Len(s), t)
  BY <1>1, AtParts
<1>3. p \in Nat /\ Len(s) \in Nat /\ Len(t) \in Nat /\ Len(s \o t) = Len(s) + Len(t)
  BY <1>1, StrBehind DEF At
<1>4. p + Len(s \o t) = (p + Len(s)) + Len(t)
  BY <1>3
<1>5. PICK z \in Seq(Kinds) : z = RecordsFrom(b)[(p + Len(s)) + Len(t)]
  BY <1>2, RecordsKinds
<1>6. RecordsFrom(b)[p] = x \o RecordsFrom(b)[p + Len(s)]
  BY <1>2 DEF Reads
<1>7. RecordsFrom(b)[p + Len(s)] = y \o z
  BY <1>2, <1>5 DEF Reads
<1>8. (x \o y) \o z = x \o (y \o z)
  BY ConcatAssociative
<1> QED
  BY <1>4, <1>5, <1>6, <1>7, <1>8, Zenon

\* ... so many times.
LEMMA ReadsFlatten ==
    ASSUME NEW b \in Str
    PROVE  \A n \in Nat : \A s \in [1 .. n -> Str] : \A r \in [1 .. n -> Seq(Kinds)] :
               (\A k \in 1 .. n : Reads(b, s[k], r[k]))
               => /\ Reads(b, FlattenSeq(s), FlattenSeq(r))
                  /\ FlattenSeq(s) \in Str /\ FlattenSeq(r) \in Seq(Kinds)
<1> DEFINE S == {n \in Nat : \A s \in [1 .. n -> Str] : \A r \in [1 .. n -> Seq(Kinds)] :
               (\A k \in 1 .. n : Reads(b, s[k], r[k]))
               => /\ Reads(b, FlattenSeq(s), FlattenSeq(r))
                  /\ FlattenSeq(s) \in Str /\ FlattenSeq(r) \in Seq(Kinds)}
<1>1. 0 \in S
  <2>1. SUFFICES ASSUME NEW s \in [1 .. 0 -> Str], NEW r \in [1 .. 0 -> Seq(Kinds)]
                 PROVE  /\ Reads(b, FlattenSeq(s), FlattenSeq(r))
                        /\ FlattenSeq(s) \in Str /\ FlattenSeq(r) \in Seq(Kinds)
    OBVIOUS
  <2>2. FlattenSeq(s) = <<>> /\ FlattenSeq(r) = <<>>
    BY FlattenNone DEF Str
  <2>3. <<>> \in Str /\ <<>> \in Seq(Kinds)
    BY DEF Str
  <2> QED
    BY <2>2, <2>3, ReadsNone
<1>2. ASSUME NEW n \in Nat, n \in S PROVE n + 1 \in S
  <2>0. PICK m \in Nat : m = n + 1
    OBVIOUS
  <2>1. SUFFICES ASSUME NEW s \in [1 .. m -> Str], NEW r \in [1 .. m -> Seq(Kinds)],
                        \A k \in 1 .. m : Reads(b, s[k], r[k])
                 PROVE  /\ Reads(b, FlattenSeq(s), FlattenSeq(r))
                        /\ FlattenSeq(s) \in Str /\ FlattenSeq(r) \in Seq(Kinds)
    BY <2>0
  <2>2. PICK t \in [1 .. n -> Str] : \A k \in 1 .. n : t[k] = s[k]
    <3>1. \A k \in 1 .. n : k \in 1 .. m
      BY <2>0
    <3>2. PICK t : t = [k \in 1 .. n |-> s[k]]
      OBVIOUS
    <3>3. t \in [1 .. n -> Str] /\ \A k \in 1 .. n : t[k] = s[k]
      BY <3>1, <3>2
    <3> QED
      BY <3>3
  <2>3. PICK u \in [1 .. n -> Seq(Kinds)] : \A k \in 1 .. n : u[k] = r[k]
    <3>1. \A k \in 1 .. n : k \in 1 .. m
      BY <2>0
    <3>2. PICK u : u = [k \in 1 .. n |-> r[k]]
      OBVIOUS
    <3>3. u \in [1 .. n -> Seq(Kinds)] /\ \A k \in 1 .. n : u[k] = r[k]
      BY <3>1, <3>2
    <3> QED
      BY <3>3
  <2>4. FlattenSeq(s) = FlattenSeq(t) \o s[m]
    <3>1. PICK V : Str = Seq(V)
      BY DEF Str
    <3>2. s \in [1 .. n + 1 -> Seq(V)] /\ t \in [1 .. n -> Seq(V)] /\ \A i \in 1 .. n : s[i] = t[i]
      BY <2>0, <2>2, <3>1
    <3>3. FlattenSeq(s) = FlattenSeq(t) \o s[n + 1]
      BY <3>2, FlattenNext
    <3> QED
      BY <2>0, <3>3
  <2>5. FlattenSeq(r) = FlattenSeq(u) \o r[m]
    <3>1. PICK V : V = Kinds
      OBVIOUS
    <3>2. r \in [1 .. n + 1 -> Seq(V)] /\ u \in [1 .. n -> Seq(V)] /\ \A i \in 1 .. n : r[i] = u[i]
      BY <2>0, <2>3, <3>1
    <3>3. FlattenSeq(r) = FlattenSeq(u) \o r[n + 1]
      BY <3>2, FlattenNext
    <3> QED
      BY <2>0, <3>3
  <2>6. m \in 1 .. m /\ \A k \in 1 .. n : k \in 1 .. m
    BY <2>0
  <2>7. Reads(b, FlattenSeq(t), FlattenSeq(u)) /\ FlattenSeq(t) \in Str /\ FlattenSeq(u) \in Seq(Kinds)
    <3>1. \A k \in 1 .. n : Reads(b, t[k], u[k])
      BY <2>1, <2>2, <2>3, <2>6
    <3> QED
      BY <1>2, <3>1
  <2>8. s[m] \in Str /\ r[m] \in Seq(Kinds) /\ Reads(b, s[m], r[m])
    BY <2>1, <2>6
  <2>9. Reads(b, FlattenSeq(t) \o s[m], FlattenSeq(u) \o r[m])
    BY <2>7, <2>8, ReadsBoth
  <2>10. FlattenSeq(t) \o s[m] \in Str /\ FlattenSeq(u) \o r[m] \in Seq(Kinds)
    BY <2>7, <2>8, Behind DEF Str
  <2> QED
    BY <2>4, <2>5, <2>9, <2>10
<1>3. Nat \subseteq S
  <2> HIDE DEF S
  <2> QED
    BY <1>1, <1>2, Induction
<1> QED
  BY <1>3

\* All that b is read as.
LEMMA ReadsWhole ==
    ASSUME NEW b \in Str, NEW r \in Seq(Kinds), Reads(b, b, r)
    PROVE  Records(b) = r
<1>1. PICK l \in Nat : l = Len(b)
  BY StrParts
<1>2. RecordsFrom(b)[1] = r \o RecordsFrom(b)[1 + l]
  BY <1>1, AtWhole DEF Reads
<1>3. RecordsFrom(b)[1 + l] = <<>>
  <2>1. 1 + l \in 1 .. l + 1 /\ 1 + l > Len(b)
    BY <1>1
  <2> QED
    BY <1>1, <2>1, RecordsUnfold DEF Found
<1>4. r \o <<>> = r
  OBVIOUS
<1> QED
  BY <1>2, <1>3, <1>4 DEF Records

(***************************************************************************)
(* What values, entries and elements are written as is read as their       *)
(* records.                                                                *)
(***************************************************************************)

\* A packed field is written as its reader reads it if each of its elements takes a byte.
PackedInBytes(f) ==
    /\ f.shape = "packed" /\ f.type \in (Varint32 \cup Varint64) \ {"SINT32", "SINT64"}
    /\ \A j \in DOMAIN f.values : f.values[j] \in 0 .. Base - 1
\* What the theorem below is about: messages whose fields are counted as they are
\* written, or packed with elements of a byte.
ReadableField(f) == PackedInBytes(f) \/ CountsField(f, Counts)
Readable(m) == \A k \in DOMAIN Messages[m] : ReadableField(Messages[m][k])

\* The numbers of fields fit into a tag.
NumberFits(n) == 8 * (n + 1) <= Word32
NumbersFit == \A m \in DOMAIN Messages : \A k \in DOMAIN Messages[m] : NumberFits(Messages[m][k].number)

\* The bytes of a value's record: without the length in front of them.
Payload(type, v) ==
    CASE type \in Varint32 \cup Varint64 -> writeVarint[Written(type, v)]
      [] type \in FixedTypes32 -> FixedBytes(v % Word32, Fixed32)
      [] type \in FixedTypes64 -> FixedBytes(v % Word64, 2 * Fixed32)
      [] type \in {"STRING", "BYTES"} -> v
      [] type = "MESSAGE" -> Bytes[v]

LEMMA WireTypes ==
    ASSUME NEW type \in FieldTypes
    PROVE  fieldType2WireType(type) \in {0, 1, 2, 5}
BY DEF FieldTypes, fieldType2WireType, Varint32, Varint64, FixedTypes32, FixedTypes64, Delimited,
       WIRETYPE_LENGTH_DELIMITED

\* What is written of a value carries its payload.
LEMMA PayloadOK ==
    ASSUME NEW m \in DOMAIN Messages, NEW type \in FieldTypes, NEW v \in ValuesOf(type, m),
           CountsValue(type, v, Counts)
    PROVE  /\ writeValue(type, v, Bytes) \in Str /\ Payload(type, v) \in Str
           /\ Carries(fieldType2WireType(type), writeValue(type, v, Bytes), Payload(type, v))
<1>1. StrBelow(Bytes, m) /\ m \in Nat
  BY BytesAreStr, MessageParts
<1>2. writeValue(type, v, Bytes) \in Str
  BY <1>1, WriteValueOK
<1>3. CASE type \in Varint32 \cup Varint64
  <2>1. fieldType2WireType(type) = 0
    BY <1>3 DEF fieldType2WireType, Varint32, Varint64, FixedTypes32, FixedTypes64, Delimited
  <2>2. writeValue(type, v, Bytes) = writeVarint[Written(type, v)] /\ Payload(type, v) = writeVarint[Written(type, v)]
    BY <1>3 DEF writeValue, Payload, Varint32, Varint64, FixedTypes32, FixedTypes64
  <2>3. Written(type, v) \in Nat
    BY <1>1, <1>3, SizedOK
  <2> QED
    BY <1>2, <2>1, <2>2, <2>3 DEF Carries
<1>4. CASE type \in FixedTypes32 \cup FixedTypes64
  <2>1. v \in Int
    BY <1>4, Words DEF ValuesOf, Ints, FixedTypes32, FixedTypes64
  <2>2. v % Word32 \in Nat /\ v % Word64 \in Nat
    BY <2>1, ModNat, Words
  <2>3. Len(FixedBytes(v % Word32, Fixed32)) = Fixed32 /\ Len(FixedBytes(v % Word64, 2 * Fixed32)) = 2 * Fixed32
    BY <2>2, FixedBytesOK, Widths
  <2>4. CASE type \in FixedTypes32
    <3>1. fieldType2WireType(type) = 5
      BY <2>4 DEF fieldType2WireType, Varint32, Varint64, FixedTypes32, FixedTypes64, Delimited
    <3>2. writeValue(type, v, Bytes) = FixedBytes(v % Word32, Fixed32) /\ Payload(type, v) = FixedBytes(v % Word32, Fixed32)
      BY <2>4 DEF writeValue, Payload, Varint32, Varint64, FixedTypes32, FixedTypes64
    <3> QED
      BY <1>2, <2>3, <3>1, <3>2 DEF Carries
  <2>5. CASE type \in FixedTypes64
    <3>1. fieldType2WireType(type) = 1
      BY <2>5 DEF fieldType2WireType, Varint32, Varint64, FixedTypes32, FixedTypes64, Delimited
    <3>2. writeValue(type, v, Bytes) = FixedBytes(v % Word64, 2 * Fixed32) /\ Payload(type, v) = FixedBytes(v % Word64, 2 * Fixed32)
      BY <2>5 DEF writeValue, Payload, Varint32, Varint64, FixedTypes32, FixedTypes64
    <3> QED
      BY <1>2, <2>3, <3>1, <3>2 DEF Carries
  <2> QED
    BY <1>4, <2>4, <2>5
<1>5. CASE type \in Delimited
  <2>1. fieldType2WireType(type) = 2
    BY <1>5 DEF fieldType2WireType, Varint32, Varint64, FixedTypes32, FixedTypes64, Delimited,
                WIRETYPE_LENGTH_DELIMITED
  <2>2. CASE type \in {"STRING", "BYTES"}
    <3>1. v \in Str
      BY <2>2 DEF ValuesOf, Str
    <3>2. writeValue(type, v, Bytes) = writeVarint[Len(v)] \o v /\ Payload(type, v) = v
      BY <2>2 DEF writeValue, Payload, Varint32, Varint64, FixedTypes32, FixedTypes64
    <3> QED
      BY <1>2, <2>1, <3>1, <3>2 DEF Carries
  <2>3. CASE type = "MESSAGE"
    <3>1. v \in 1 .. m - 1 /\ Counts[v]
      BY <2>3 DEF ValuesOf, CountsValue
    <3>2. Bytes[v] \in Str /\ Len(Bytes[v]) = Size[v]
      BY <1>1, <3>1, MessageExact DEF StrBelow, Exact
    <3>3. writeValue(type, v, Bytes) = writeVarint[Size[v]] \o Bytes[v] /\ Payload(type, v) = Bytes[v]
      BY <2>3 DEF writeValue, Payload, Varint32, Varint64, FixedTypes32, FixedTypes64
    <3> QED
      BY <1>2, <2>1, <3>2, <3>3 DEF Carries
  <2> QED
    BY <1>5, <2>2, <2>3 DEF Delimited
<1> QED
  BY <1>3, <1>4, <1>5 DEF FieldTypes

\* The tag of a field whose number fits says its number and its wire type.
LEMMA TagRead ==
    ASSUME NEW n \in Nat, NumberFits(n), NEW type \in FieldTypes
    PROVE  \E t \in Nat : /\ writeTag(n, type) = writeVarint[t]
                          /\ t % 8 = fieldType2WireType(type) /\ t \div 8 = n
<1>1. PICK w \in {0, 1, 2, 5} : w = fieldType2WireType(type)
  BY WireTypes
<1>2. PICK d \in Nat : d = Word32
  BY Words
<1>3. PICK t \in Nat : t = 8 * n + w /\ t < d
  BY <1>2 DEF NumberFits
<1>4. t % 8 = w /\ t \div 8 = n
  BY <1>3
<1>5. Tag(n, w) = t
  <2>1. t % d = t
    BY <1>3
  <2> QED
    BY <1>2, <1>3, <2>1 DEF Tag
<1> QED
  BY <1>1, <1>4, <1>5 DEF writeTag

\* The record a value is read as.
ValueRecord(n, type, v) ==
    [number |-> n, wire_type |-> fieldType2WireType(type), bytes |-> Payload(type, v)]

\* A tag and a value are read as one record.
LEMMA TaggedRead ==
    ASSUME NEW b \in Str, NEW n \in Nat, NumberFits(n), NEW type \in FieldTypes, NEW s \in Str, NEW x \in Str,
           Carries(fieldType2WireType(type), s, x)
    PROVE  /\ Reads(b, writeTag(n, type) \o s,
                    <<[number |-> n, wire_type |-> fieldType2WireType(type), bytes |-> x]>>)
           /\ [number |-> n, wire_type |-> fieldType2WireType(type), bytes |-> x] \in Kinds
<1>1. PICK t \in Nat : writeTag(n, type) = writeVarint[t] /\ t % 8 = fieldType2WireType(type) /\ t \div 8 = n
  BY TagRead
<1>2. Carries(t % 8, s, x)
  BY <1>1
<1>3. Reads(b, writeVarint[t] \o s, <<[number |-> t \div 8, wire_type |-> t % 8, bytes |-> x]>>)
  BY <1>2, RecordRead
<1> QED
  BY <1>1, <1>3 DEF Kinds

\* What an entry of a map is written as, without its length.
EntryBytes(f, e) == (writeTag(1, f.type) \o writeValue(f.type, e[1], Bytes))
                    \o (writeTag(2, f.type2) \o writeValue(f.type2, e[2], Bytes))

\* The numbers of key and value do.
LEMMA SmallNumbers == NumberFits(1) /\ NumberFits(2)
BY Words DEF NumberFits

\* Parts of a string may be grouped at will.
Associates(x, y, z) == (x \o y) \o z = x \o (y \o z)
Regroups(u, v, a, b, c, d) ==
    ((((u \o v) \o a) \o b) \o c) \o d = u \o (v \o ((a \o b) \o (c \o d)))

LEMMA StrAssociates == ASSUME NEW x \in Str, NEW y \in Str, NEW z \in Str PROVE Associates(x, y, z)
<1> DEFINE T == 0 .. Byte - 1
<1>1. x \in Seq(T) /\ y \in Seq(T) /\ z \in Seq(T)
  BY DEF Str
<1> HIDE DEF T
<1> QED
  BY <1>1, ConcatAssociative DEF Associates

LEMMA Regrouped ==
    ASSUME NEW u \in Str, NEW v \in Str, NEW a \in Str, NEW b \in Str, NEW c \in Str, NEW d \in Str
    PROVE  Regroups(u, v, a, b, c, d)
<1>1. u \o v \in Str /\ a \o b \in Str /\ c \o d \in Str
  BY StrBehind
<1>2. (u \o v) \o (a \o b) \in Str /\ (a \o b) \o (c \o d) \in Str
  BY <1>1, StrBehind
<1>3. Associates(u \o v, a, b) /\ Associates((u \o v) \o (a \o b), c, d)
      /\ Associates(u \o v, a \o b, c \o d) /\ Associates(u, v, (a \o b) \o (c \o d))
  BY <1>1, <1>2, StrAssociates
<1> QED
  BY <1>3, Zenon DEF Associates, Regroups

LEMMA Pair ==
    ASSUME NEW V, NEW x \in V, NEW y \in V
    PROVE  <<x>> \in Seq(V) /\ <<y>> \in Seq(V) /\ <<x>> \o <<y>> = <<x, y>> /\ <<x, y>> \in Seq(V)
<1>1. <<x>> \in Seq(V) /\ <<y>> \in Seq(V) /\ <<x, y>> \in Seq(V)
  OBVIOUS
<1>2. <<x>> \o <<y>> = <<x, y>>
  <2>1. PICK a, b : a = <<x>> /\ b = <<y>>
    OBVIOUS
  <2>2. a \in Seq(V) /\ b \in Seq(V) /\ Len(a) = 1 /\ Len(b) = 1 /\ a[1] = x /\ b[1] = y
    BY <2>1
  <2>3. PICK c : c = a \o b
    OBVIOUS
  <2>4. c \in Seq(V) /\ Len(c) = 2 /\ c[1] = x /\ c[2] = y
    <3>1. 1 + 1 = 2 /\ 1 \in 1 .. 1
      OBVIOUS
    <3> QED
      BY <2>2, <2>3, <3>1, Behind
  <2>5. c = <<x, y>>
    BY <2>4
  <2> QED
    BY <2>1, <2>3, <2>5
<1> QED
  BY <1>1, <1>2

\* The entry of a map is read as two records, key and value.
LEMMA EntryRead ==
    ASSUME NEW m \in DOMAIN Messages, NEW f, IsField(f, m), f.shape = "map",
           NEW e, IsElement(f, e, m), CountsElement(f, e), EntrySize(f, e, Size) < Word32
    PROVE  /\ EntryBytes(f, e) \in Str /\ Len(EntryBytes(f, e)) = EntrySize(f, e, Size)
           /\ WriteElement(f, e, Bytes) = writeTag(f.number, "MESSAGE")
                                          \o (writeVarint[EntrySize(f, e, Size)] \o EntryBytes(f, e))
           /\ Records(EntryBytes(f, e)) = <<ValueRecord(1, f.type, e[1]), ValueRecord(2, f.type2, e[2])>>
<1>1. /\ f.type \in FieldTypes /\ f.type2 \in FieldTypes /\ m \in Nat
      /\ e[1] \in ValuesOf(f.type, m) /\ e[2] \in ValuesOf(f.type2, m)
      /\ CountsValue(f.type, e[1], Counts) /\ CountsValue(f.type2, e[2], Counts)
  BY FieldParts, MessageParts DEF IsElement, CountsElement
<1>2. PICK u, v, a, b, c, d \in Str :
        /\ u = writeTag(f.number, "MESSAGE") /\ v = writeVarint[EntrySize(f, e, Size)]
        /\ a = writeTag(1, f.type) /\ b = writeValue(f.type, e[1], Bytes)
        /\ c = writeTag(2, f.type2) /\ d = writeValue(f.type2, e[2], Bytes)
  BY EntryOK, BytesAreStr
<1>3. WriteElement(f, e, Bytes) = ((((u \o v) \o a) \o b) \o c) \o d
  BY <1>2 DEF WriteElement
<1>4. EntryBytes(f, e) = (a \o b) \o (c \o d)
  BY <1>2 DEF EntryBytes
<1>5. PICK ab, cd \in Str : ab = a \o b /\ cd = c \o d
  BY StrBehind
<1>6. PICK x \in Str : x = ab \o cd /\ x = EntryBytes(f, e)
  BY <1>4, <1>5, StrBehind
<1>7. Len(x) = EntrySize(f, e, Size)
  <2>1. Len(a) + Len(b) + Len(c) + Len(d) = EntrySize(f, e, Size)
    BY <1>2, EntryExact, MessageExact
  <2>2. Len(ab) = Len(a) + Len(b) /\ Len(a) \in Nat /\ Len(b) \in Nat
    BY <1>5, StrBehind
  <2>3. Len(cd) = Len(c) + Len(d) /\ Len(c) \in Nat /\ Len(d) \in Nat
    BY <1>5, StrBehind
  <2>4. Len(x) = Len(ab) + Len(cd)
    BY <1>6, StrBehind
  <2> QED
    BY <2>1, <2>2, <2>3, <2>4
<1>8. WriteElement(f, e, Bytes) = u \o (v \o x)
  <2>1. Regroups(u, v, a, b, c, d)
    BY Regrouped
  <2> QED
    BY <1>3, <1>5, <1>6, <2>1, Zenon DEF Regroups
<1>9. PICK r1, r2 \in Kinds : /\ r1 = ValueRecord(1, f.type, e[1]) /\ Reads(x, ab, <<r1>>)
                              /\ r2 = ValueRecord(2, f.type2, e[2]) /\ Reads(x, cd, <<r2>>)
  <2>1. Payload(f.type, e[1]) \in Str /\ Carries(fieldType2WireType(f.type), b, Payload(f.type, e[1]))
    BY <1>1, <1>2, PayloadOK
  <2>2. Payload(f.type2, e[2]) \in Str /\ Carries(fieldType2WireType(f.type2), d, Payload(f.type2, e[2]))
    BY <1>1, <1>2, PayloadOK
  <2>3. Reads(x, ab, <<ValueRecord(1, f.type, e[1])>>) /\ ValueRecord(1, f.type, e[1]) \in Kinds
    BY <1>1, <1>2, <1>5, <2>1, TaggedRead, SmallNumbers DEF ValueRecord
  <2>4. Reads(x, cd, <<ValueRecord(2, f.type2, e[2])>>) /\ ValueRecord(2, f.type2, e[2]) \in Kinds
    BY <1>1, <1>2, <1>5, <2>2, TaggedRead, SmallNumbers DEF ValueRecord
  <2> QED
    BY <2>3, <2>4
<1>10. <<r1>> \in Seq(Kinds) /\ <<r2>> \in Seq(Kinds) /\ <<r1>> \o <<r2>> = <<r1, r2>> /\ <<r1, r2>> \in Seq(Kinds)
  BY Pair
<1>11. Reads(x, x, <<r1, r2>>)
  <2>1. Reads(x, ab \o cd, <<r1>> \o <<r2>>)
    BY <1>9, <1>10, ReadsBoth
  <2> QED
    BY <1>6, <1>10, <2>1
<1>12. Records(x) = <<r1, r2>>
  BY <1>10, <1>11, ReadsWhole
<1> QED
  BY <1>2, <1>6, <1>7, <1>8, <1>9, <1>12

\* An element of a map fits into 32 bits: so does the entry inside of it.
LEMMA EntryFits ==
    ASSUME NEW m \in DOMAIN Messages, NEW f, IsField(f, m), f.shape = "map",
           NEW e, IsElement(f, e, m), CountsElement(f, e), ElementSize(f, e, Size) < Word32
    PROVE  EntrySize(f, e, Size) \in Nat /\ EntrySize(f, e, Size) < Word32
<1>1. PICK n \in Nat : n = EntrySize(f, e, Size)
  BY EntryOK, BytesAreStr
<1>2. ElementSize(f, e, Size) = TagSize(f.number, "MESSAGE") + WithLength("MESSAGE", n)
  BY <1>1 DEF ElementSize
<1>3. f.number \in Nat
  BY FieldParts, MessageParts
<1>4. TagSize(f.number, "MESSAGE") \in Nat /\ WithLength("MESSAGE", n) \in Nat /\ n <= WithLength("MESSAGE", n)
  BY <1>3, MessageType, TagOK, WithLengthOK
<1> QED
  BY <1>1, <1>2, <1>4, Words

\* The record an element is read as.
ElementRecord(f, e) ==
    IF f.shape = "map" THEN [number |-> f.number, wire_type |-> 2, bytes |-> EntryBytes(f, e)]
    ELSE ValueRecord(f.number, f.type, e)

\* An element is read as its record.
LEMMA ElementRead ==
    ASSUME NEW b \in Str, NEW m \in DOMAIN Messages, NEW f, IsField(f, m), NumberFits(f.number),
           NEW e, IsElement(f, e, m), CountsElement(f, e), ElementSize(f, e, Size) < Word32
    PROVE  Reads(b, WriteElement(f, e, Bytes), <<ElementRecord(f, e)>>) /\ ElementRecord(f, e) \in Kinds
<1>1. f.number \in Nat /\ f.type \in FieldTypes
  BY FieldParts, MessageParts
<1>2. CASE f.shape = "map"
  <2>1. EntrySize(f, e, Size) \in Nat
    BY <1>2, EntryFits
  <2>2. EntrySize(f, e, Size) < Word32
    BY <1>2, EntryFits
  <2>3. PICK x \in Str : x = EntryBytes(f, e) /\ Len(x) = EntrySize(f, e, Size)
    BY <1>2, <2>2, EntryRead
  <2>4. PICK s \in Str : s = writeVarint[Len(x)] \o x
    BY <2>1, <2>3, VarintStr, StrBehind
  <2>5. WriteElement(f, e, Bytes) = writeTag(f.number, "MESSAGE") \o s
    BY <1>2, <2>2, <2>3, <2>4, EntryRead
  <2>6. fieldType2WireType("MESSAGE") = 2
    BY DEF fieldType2WireType, Varint32, Varint64, FixedTypes32, FixedTypes64, Delimited,
           WIRETYPE_LENGTH_DELIMITED
  <2>7. Carries(2, s, x)
    BY <2>4 DEF Carries
  <2>8. /\ Reads(b, writeTag(f.number, "MESSAGE") \o s, <<[number |-> f.number, wire_type |-> 2, bytes |-> x]>>)
        /\ [number |-> f.number, wire_type |-> 2, bytes |-> x] \in Kinds
    BY <1>1, <2>6, <2>7, MessageType, TaggedRead
  <2> QED
    BY <1>2, <2>3, <2>5, <2>8 DEF ElementRecord
<1>3. CASE f.shape # "map"
  <2>1. e \in ValuesOf(f.type, m) /\ CountsValue(f.type, e, Counts)
    BY <1>3 DEF IsElement, CountsElement
  <2>2. PICK s, x \in Str : /\ s = writeValue(f.type, e, Bytes) /\ x = Payload(f.type, e)
                            /\ Carries(fieldType2WireType(f.type), s, x)
    BY <1>1, <2>1, PayloadOK
  <2>3. WriteElement(f, e, Bytes) = writeTag(f.number, f.type) \o s
    BY <1>3, <2>2 DEF WriteElement
  <2>4. /\ Reads(b, writeTag(f.number, f.type) \o s,
                 <<[number |-> f.number, wire_type |-> fieldType2WireType(f.type), bytes |-> x]>>)
        /\ [number |-> f.number, wire_type |-> fieldType2WireType(f.type), bytes |-> x] \in Kinds
    BY <1>1, <2>2, TaggedRead
  <2> QED
    BY <1>3, <2>2, <2>3, <2>4 DEF ElementRecord, ValueRecord
<1> QED
  BY <1>2, <1>3

(***************************************************************************)
(* So is a packed field whose elements take a byte each; so is a message.  *)
(***************************************************************************)

\* Words hold a digit.
LEMMA WordsHoldBase == Base <= Word32 /\ Base <= Word64
<1>1. PICK i \in Nat : i + 1 = Fixed32
  <2>1. Fixed32 - 1 \in Nat /\ (Fixed32 - 1) + 1 = Fixed32
    BY Widths
  <2> QED
    BY <2>1
<1>2. Power(Byte, i + 1) >= Byte
  BY BytePower
<1> QED
  BY <1>1, <1>2, Words, Widths DEF Word32

\* A number below Base takes a byte, which is the number.
LEMMA OneByte ==
    ASSUME NEW v \in 0 .. Base - 1
    PROVE  writeVarint[v] = <<v>> /\ varintSize(v) = 1
<1>1. v \in Nat /\ v < Base
  BY Widths
<1>2. writeVarint[v] = <<v>>
  BY <1>1, VarintUnfolds
<1>3. v < Power(Base, MaxVarInt)
  BY <1>1, WordsHoldBase, Words, Widths
<1>4. Len(writeVarint[v]) = varintSize(v)
  BY <1>1, <1>3, VarintSizeOK
<1>5. Len(<<v>>) = 1
  OBVIOUS
<1> QED
  BY <1>2, <1>4, <1>5

\* What is counted and written for a packed field is what its elements are.
LEMMA PackedOK ==
    ASSUME NEW m \in DOMAIN Messages, NEW f, IsField(f, m), PackedInBytes(f)
    PROVE  /\ f.values \in Str
           /\ FlattenSeq(PackedBytes(f, Bytes)) = f.values
           /\ PackedSize(f, Size) = Len(f.values)
<1>1. PICK n \in Nat : n = Len(f.values) /\ DOMAIN f.values = 1 .. n
  BY FieldParts, MessageParts
<1>2. f.shape = "packed" /\ f.type \in FieldTypes /\ m \in Nat
  BY FieldParts, MessageParts DEF PackedInBytes
<1>3. f.type \in Varint32 \cup Varint64 /\ f.type \notin {"SINT32", "SINT64"}
  BY DEF PackedInBytes
<1>4. f.values \in [1 .. n -> 0 .. Byte - 1]
  <2>1. f.values \in Seq(ValuesOf(f.type, m))
    BY <1>2 DEF IsField
  <2>2. f.values = [k \in 1 .. n |-> f.values[k]]
    <3>1. PICK V : V = ValuesOf(f.type, m)
      OBVIOUS
    <3>2. f.values \in Seq(V)
      BY <2>1, <3>1
    <3> QED
      BY <1>1, <3>2
  <2>3. \A k \in 1 .. n : f.values[k] \in 0 .. Byte - 1
    BY <1>1, Widths DEF PackedInBytes
  <2> QED
    BY <2>2, <2>3
<1>5. ASSUME NEW k \in 1 .. n
      PROVE  /\ writeValue(f.type, f.values[k], Bytes) = <<f.values[k]>>
             /\ varintSize(valueSize(f.type, f.values[k], Size)) = 1
  <2>1. PICK v \in 0 .. Base - 1 : v = f.values[k]
    BY <1>1 DEF PackedInBytes
  <2>2. v \in Nat /\ v < Word32 /\ v < Word64
    BY WordsHoldBase, Words, Widths
  <2>3. v % Word32 = v /\ v % Word64 = v
    <3>1. PICK x, y \in Nat : x = Word32 /\ y = Word64
      BY Words
    <3>2. v % x = v /\ v % y = v
      BY <2>2, <3>1
    <3> QED
      BY <3>1, <3>2
  <2>4. Sized(f.type, v) = v
    BY <1>3, <2>3 DEF Sized, Varint32, Varint64
  <2>5. Written(f.type, v) = v
    BY <2>3, <2>4 DEF Written
  <2>6. writeValue(f.type, v, Bytes) = writeVarint[v]
    BY <1>3, <2>5 DEF writeValue, Varint32, Varint64, FixedTypes32, FixedTypes64
  <2>7. valueSize(f.type, v, Size) = varintSize(v)
    BY <1>3, <2>4 DEF valueSize, Varint32, Varint64, FixedTypes32, FixedTypes64
  <2>8. varintSize(1) = 1
    BY OneByte, Widths
  <2> QED
    BY <2>1, <2>6, <2>7, <2>8, OneByte
<1>6. PackedBytes(f, Bytes) = [k \in 1 .. n |-> <<f.values[k]>>]
  BY <1>1, <1>5 DEF PackedBytes
<1>7. FlattenSeq([k \in 1 .. n |-> <<f.values[k]>>]) = f.values
  BY <1>4, FlattenSingles
<1>8. f.values \in Str
  <2>1. PICK T : T = 0 .. Byte - 1
    OBVIOUS
  <2>2. f.values \in [1 .. n -> T]
    BY <1>4, <2>1
  <2>3. f.values \in Seq(T)
    BY <2>2
  <2> QED
    BY <2>1, <2>3 DEF Str
<1>9. PackedSize(f, Size) = n
  <2>1. PackedSize(f, Size) = Sum([k \in 1 .. n |-> 1])
    BY <1>1, <1>5 DEF PackedSize
  <2>2. PackedBytes(f, Bytes) \in [1 .. n -> Str]
    BY <1>1, <1>2, BytesOK, BytesAreStr
  <2>3. Len(FlattenSeq(PackedBytes(f, Bytes))) = Sum([k \in 1 .. n |-> Len(PackedBytes(f, Bytes)[k])])
    BY <2>2, FlattenStr
  <2>4. \A k \in 1 .. n : Len(PackedBytes(f, Bytes)[k]) = 1
    BY <1>6
  <2>5. [k \in 1 .. n |-> Len(PackedBytes(f, Bytes)[k])] = [k \in 1 .. n |-> 1]
    BY <2>4
  <2> QED
    BY <1>1, <1>6, <1>7, <2>1, <2>3, <2>5
<1> QED
  BY <1>1, <1>6, <1>7, <1>8, <1>9

-----------------------------------------------------------------------------
\* The records that a field is read as.
ElementRecords(f) == [k \in DOMAIN f.values |-> ElementRecord(f, f.values[k])]
\* Those of a field that may be packed, or not written at all.
FieldRecords(f) ==
    IF ~IsWritten(f) THEN <<>>
    ELSE IF f.shape = "packed" THEN <<[number |-> f.number, wire_type |-> 2, bytes |-> f.values]>>
    ELSE ElementRecords(f)

\* A packed field of elements of a byte is read as one record.
LEMMA PackedRead ==
    ASSUME NEW b \in Str, NEW m \in DOMAIN Messages, NEW f, IsField(f, m), NumberFits(f.number),
           PackedInBytes(f)
    PROVE  /\ Reads(b, WritePacked(f, Bytes), <<[number |-> f.number, wire_type |-> 2, bytes |-> f.values]>>)
           /\ [number |-> f.number, wire_type |-> 2, bytes |-> f.values] \in Kinds
<1>1. f.number \in Nat
  BY FieldParts, MessageParts
<1>2. PICK x \in Str : x = f.values /\ x = FlattenSeq(PackedBytes(f, Bytes)) /\ PackedSize(f, Size) = Len(x)
  BY PackedOK
<1>3. PICK y \in Str : y = writeVarint[Len(x)]
  BY <1>2, VarintStr, StrBehind
<1>4. PICK z \in Str : z = writeTag(f.number, "BYTES")
  BY <1>1, TagOK, MessageType
<1>5. WritePacked(f, Bytes) = (z \o y) \o x
  BY <1>2, <1>3, <1>4 DEF WritePacked, PackedBytes
<1>6. (z \o y) \o x = z \o (y \o x)
  BY StrAssociates DEF Associates
<1>7. PICK s \in Str : s = y \o x
  BY StrBehind
<1>8. fieldType2WireType("BYTES") = 2
  BY DEF fieldType2WireType, Varint32, Varint64, FixedTypes32, FixedTypes64, Delimited,
         WIRETYPE_LENGTH_DELIMITED
<1>9. Carries(2, s, x)
  BY <1>3, <1>7 DEF Carries
<1>10. /\ Reads(b, writeTag(f.number, "BYTES") \o s, <<[number |-> f.number, wire_type |-> 2, bytes |-> x]>>)
       /\ [number |-> f.number, wire_type |-> 2, bytes |-> x] \in Kinds
  BY <1>1, <1>8, <1>9, MessageType, TaggedRead
<1> QED
  BY <1>2, <1>4, <1>5, <1>6, <1>7, <1>10

\* A field is read as its records.
LEMMA FieldRead ==
    ASSUME NEW b \in Str, NEW m \in DOMAIN Messages, NEW f, IsField(f, m), NumberFits(f.number),
           ReadableField(f), fieldSize(f, Size) < Word32
    PROVE  Reads(b, writeField(f, Bytes), FieldRecords(f)) /\ FieldRecords(f) \in Seq(Kinds)
<1>1. CASE ~IsWritten(f)
  <2>1. writeField(f, Bytes) = <<>> /\ FieldRecords(f) = <<>>
    BY <1>1 DEF writeField, FieldRecords
  <2>2. <<>> \in Seq(Kinds)
    OBVIOUS
  <2> QED
    BY <2>1, <2>2, ReadsNone
<1>2. CASE IsWritten(f) /\ f.shape = "packed"
  <2>1. PackedInBytes(f)
    BY <1>2 DEF ReadableField, CountsField
  <2>2. writeField(f, Bytes) = WritePacked(f, Bytes)
    BY <1>2 DEF writeField
  <2>3. PICK r \in Kinds : /\ r = [number |-> f.number, wire_type |-> 2, bytes |-> f.values]
                           /\ Reads(b, WritePacked(f, Bytes), <<r>>)
    BY <2>1, PackedRead
  <2>4. FieldRecords(f) = <<r>>
    BY <1>2, <2>3 DEF FieldRecords
  <2>5. <<r>> \in Seq(Kinds)
    BY Pair
  <2> QED
    BY <2>2, <2>3, <2>4, <2>5
<1>3. CASE IsWritten(f) /\ f.shape # "packed"
  <2>1. CountsField(f, Counts)
    BY <1>3 DEF ReadableField, PackedInBytes
  <2>2. /\ fieldSize(f, Size) = Sum(ElementSizes(f, Size))
        /\ writeField(f, Bytes) = FlattenSeq(ElementBytes(f, Bytes))
    BY <1>3 DEF fieldSize, writeField, ElementSizes, ElementBytes
  <2>3. PICK n \in Nat : n = Len(f.values)
    BY FieldParts, MessageParts
  <2>4. DOMAIN f.values = 1 .. n
    BY <2>3, FieldParts, MessageParts
  <2>5. ElementSizes(f, Size) \in [1 .. n -> Nat] /\ ElementBytes(f, Bytes) \in [1 .. n -> Str]
    BY <2>3, SizesOK, BytesOK, SizeOK, BytesAreStr, MessageParts
  <2>6. ASSUME NEW k \in 1 .. n
        PROVE  /\ Reads(b, ElementBytes(f, Bytes)[k], <<ElementRecord(f, f.values[k])>>)
               /\ ElementRecord(f, f.values[k]) \in Kinds
    <3>1. IsElement(f, f.values[k], m)
      BY <2>3, FieldParts, MessageParts
    <3>2. CountsElement(f, f.values[k])
      BY <1>3, <2>1, <2>4 DEF CountsField, CountsElement
    <3>3. ElementSizes(f, Size)[k] = ElementSize(f, f.values[k], Size)
      BY <2>4 DEF ElementSizes
    <3>4. ElementSize(f, f.values[k], Size) < Word32
      <4>1. ElementSizes(f, Size)[k] <= Sum(ElementSizes(f, Size))
        BY <2>5, SumBounds
      <4>2. ElementSizes(f, Size)[k] \in Nat /\ Sum(ElementSizes(f, Size)) \in Nat
        BY <2>5, SumNat
      <4> QED
        BY <2>2, <3>3, <4>1, <4>2, Words
    <3>5. ElementBytes(f, Bytes)[k] = WriteElement(f, f.values[k], Bytes)
      BY <2>4 DEF ElementBytes
    <3> QED
      BY <3>1, <3>2, <3>4, <3>5, ElementRead
  <2>7. PICK r : r = ElementRecords(f)
    OBVIOUS
  <2>8. r \in [1 .. n -> Kinds] /\ \A k \in 1 .. n : r[k] = ElementRecord(f, f.values[k])
    BY <2>4, <2>6, <2>7 DEF ElementRecords
  <2>9. PICK s : s = [k \in 1 .. n |-> <<r[k]>>]
    OBVIOUS
  <2>10. s \in [1 .. n -> Seq(Kinds)] /\ \A k \in 1 .. n : s[k] = <<r[k]>>
    <3>1. \A k \in 1 .. n : <<r[k]>> \in Seq(Kinds)
      BY <2>8, Pair
    <3> QED
      BY <2>9, <3>1
  <2>11. FlattenSeq(s) = r
    BY <2>8, <2>9, FlattenSingles
  <2>12. \A k \in 1 .. n : Reads(b, ElementBytes(f, Bytes)[k], s[k])
    BY <2>6, <2>8, <2>10
  <2>13. Reads(b, FlattenSeq(ElementBytes(f, Bytes)), FlattenSeq(s)) /\ FlattenSeq(s) \in Seq(Kinds)
    BY <2>5, <2>10, <2>12, ReadsFlatten
  <2>14. FieldRecords(f) = r
    BY <1>3, <2>7 DEF FieldRecords
  <2> QED
    BY <2>2, <2>11, <2>13, <2>14
<1> QED
  BY <1>1, <1>2, <1>3

\* All of them, by field.
RecordsIn(m) == [k \in DOMAIN Messages[m] |-> FieldRecords(Messages[m][k])]

\* The bytes of a message are read as the records of its fields.
LEMMA MessageRead ==
    ASSUME NEW m \in DOMAIN Messages, NumbersFit, Readable(m)
    PROVE  /\ RecordsIn(m) \in [1 .. Len(Messages[m]) -> Seq(Kinds)]
           /\ Records(Bytes[m]) = FlattenSeq(RecordsIn(m))
<1>1. PICK l \in Nat : l = Len(Messages[m]) /\ DOMAIN Messages[m] = 1 .. l
  BY MessageParts
<1>2. PICK b \in Str : b = Bytes[m]
  BY BytesAreStr
<1>3. ASSUME NEW k \in 1 .. l
      PROVE  /\ Reads(b, writeField(Messages[m][k], Bytes), FieldRecords(Messages[m][k]))
             /\ FieldRecords(Messages[m][k]) \in Seq(Kinds)
  <2>1. IsField(Messages[m][k], m) /\ k \in DOMAIN Messages[m]
    BY <1>1, MessageParts
  <2>2. NumberFits(Messages[m][k].number) /\ ReadableField(Messages[m][k])
    BY <2>1 DEF NumbersFit, Readable
  <2>3. fieldSize(Messages[m][k], Size) < Word32
    <3>1. SizesIn(m, Size) \in [1 .. l -> Nat] /\ Sum(SizesIn(m, Size)) = Size[m] /\ Size[m] \in Nat
      BY <1>1, SizeOK, SizesInOK
    <3>2. SizesIn(m, Size)[k] <= Size[m]
      BY <3>1, SumBounds
    <3>3. SizesIn(m, Size)[k] = fieldSize(Messages[m][k], Size)
      BY <2>1 DEF SizesIn
    <3>4. SizesIn(m, Size)[k] \in Nat
      BY <3>1
    <3> QED
      BY <3>1, <3>2, <3>3, <3>4, FitsAssumption, Words
  <2> QED
    BY <2>1, <2>2, <2>3, FieldRead
<1>4. BytesIn(m, Bytes) \in [1 .. l -> Str] /\ b = FlattenSeq(BytesIn(m, Bytes))
  BY <1>1, <1>2, BytesInOK, BytesAreStr
<1>5. RecordsIn(m) \in [1 .. l -> Seq(Kinds)]
  BY <1>1, <1>3 DEF RecordsIn
<1>6. \A k \in 1 .. l : Reads(b, BytesIn(m, Bytes)[k], RecordsIn(m)[k])
  BY <1>1, <1>3 DEF BytesIn, RecordsIn
<1>7. Reads(b, b, FlattenSeq(RecordsIn(m))) /\ FlattenSeq(RecordsIn(m)) \in Seq(Kinds)
  BY <1>4, <1>5, <1>6, ReadsFlatten
<1> QED
  BY <1>1, <1>2, <1>5, <1>7, ReadsWhole

(***************************************************************************)
(* The records give the values they have been written for.                 *)
(***************************************************************************)

\* What the messages inside of a message are written as is read as these messages.
ReadBelow(m, texts) == \A v \in 1 .. m - 1 : Counts[v] => Bytes[v] \in texts[v]

\* What a varint says is what Written has made of the value.
LEMMA WrittenRead ==
    ASSUME NEW m \in Nat, NEW type \in Varint32 \cup Varint64, NEW v \in ValuesOf(type, m), NEW n
    PROVE  VarIntAt(ValueRecord(n, type, v).bytes, 1) = Written(type, v)
<1>1. PICK w \in Nat : w = Written(type, v)
  BY SizedOK
<1>2. PICK x \in Str : x = writeVarint[w]
  BY VarintStr
<1>3. ValueRecord(n, type, v).bytes = x
  BY <1>1, <1>2 DEF ValueRecord, Payload, Varint32, Varint64, FixedTypes32, FixedTypes64
<1>4. VarIntAt(x, 1) = w
  BY <1>2, AtWhole, VarIntRead
<1> QED
  BY <1>1, <1>3, <1>4

\* What is written in little endian says the value, within its word.
LEMMA FixedRead ==
    ASSUME NEW type \in FixedTypes32 \cup FixedTypes64, NEW v \in Int, NEW n
    PROVE  LittleEndian(ValueRecord(n, type, v).bytes) = v % (IF type \in FixedTypes32 THEN Word32 ELSE Word64)
<1>1. PICK x, y \in Nat : x = v % Word32 /\ x < Word32 /\ y = v % Word64 /\ y < Word64
  BY ModNat, Words
<1>2. LittleEndian(FixedBytes(x, Fixed32)) = x /\ LittleEndian(FixedBytes(y, 2 * Fixed32)) = y
  BY <1>1, WordPowers, LittleEndianRead, Widths
<1>3. CASE type \in FixedTypes32
  <2>1. ValueRecord(n, type, v).bytes = FixedBytes(x, Fixed32)
    BY <1>1, <1>3 DEF ValueRecord, Payload, Varint32, Varint64, FixedTypes32, FixedTypes64
  <2> QED
    BY <1>1, <1>2, <1>3, <2>1
<1>4. CASE type \in FixedTypes64
  <2>1. ValueRecord(n, type, v).bytes = FixedBytes(y, 2 * Fixed32) /\ type \notin FixedTypes32
    BY <1>1, <1>4 DEF ValueRecord, Payload, Varint32, Varint64, FixedTypes32, FixedTypes64
  <2> QED
    BY <1>1, <1>2, <1>4, <2>1
<1> QED
  BY <1>3, <1>4

\* A number within its word is left alone.
LEMMA WithinWord == ASSUME NEW w \in Nat, NEW v \in 0 .. w - 1 PROVE v % w = v
OBVIOUS

\* The record of a value gives the value.
LEMMA ValueRead ==
    ASSUME NEW m \in DOMAIN Messages, NEW type \in FieldTypes, NEW v \in ValuesOf(type, m),
           CountsValue(type, v, Counts), NEW texts, ReadBelow(m, texts), NEW n
    PROVE  ValueIsRead(type, ValueRecord(n, type, v), v, texts)
<1>1. PICK r : r = ValueRecord(n, type, v)
  OBVIOUS
<1>2. r.wire_type = fieldType2WireType(type) /\ r.bytes = Payload(type, v) /\ m \in Nat
  BY <1>1, MessageParts DEF ValueRecord
<1>3. type \in Varint32 \cup Varint64 => VarIntAt(r.bytes, 1) = Written(type, v)
  BY <1>1, <1>2, WrittenRead
<1>4. type \in FixedTypes32 \cup FixedTypes64 /\ v \in Int
      => LittleEndian(r.bytes) = v % (IF type \in FixedTypes32 THEN Word32 ELSE Word64)
  BY <1>1, FixedRead
<1>5. CASE type \in {"INT32", "BOOL", "ENUM"}
  <2>1. v \in Ints(Word32)
    BY <1>5 DEF ValuesOf
  <2>2. Signed(v % Word32, Word32) = v
    BY <2>1, SignedRead, Words
  <2>3. VarIntAt(r.bytes, 1) = v % Word32
    BY <1>3, <1>5 DEF Written, Sized, Varint32, Varint64
  <2> QED
    BY <1>1, <1>2, <1>5, <2>2, <2>3 DEF ValueIsRead
<1>6. CASE type = "INT64"
  <2>1. PICK d \in Nat : d = Word32 /\ d > 46 /\ Word64 = d * d
    BY Words DEF Word64
  <2>2. v \in 0 .. d - 1
    BY <1>6, <2>1 DEF CountsValue
  <2>3. v % d = v
    BY <2>1, <2>2
  <2>4. 2 * v < d * d /\ d * d \in Nat
    <3>1. d * d >= 2 * d
      BY <2>1
    <3> QED
      BY <2>2, <3>1
  <2>5. Signed(v, Word64) = v
    BY <2>1, <2>2, <2>4 DEF Signed
  <2>6. VarIntAt(r.bytes, 1) = v
    BY <1>3, <1>6, <2>1, <2>3 DEF Written, Varint64
  <2> QED
    BY <1>1, <1>2, <1>6, <2>5, <2>6 DEF ValueIsRead
<1>7. CASE type \in {"UINT32", "UINT64"}
  <2>1. Written(type, v) = v
    <3>1. CASE type = "UINT32"
      <4>1. v \in 0 .. Word32 - 1
        BY <3>1 DEF ValuesOf
      <4>2. v % Word32 = v
        BY <4>1, WithinWord, Words
      <4> QED
        BY <3>1, <4>2 DEF Written, Sized, Varint32, Varint64
    <3>2. CASE type = "UINT64"
      <4>1. v \in 0 .. Word64 - 1
        BY <3>2 DEF ValuesOf
      <4>2. v % Word64 = v
        BY <4>1, WithinWord, Words
      <4> QED
        BY <3>2, <4>2 DEF Written, Sized, Varint32, Varint64
    <3> QED
      BY <1>7, <3>1, <3>2
  <2>2. VarIntAt(r.bytes, 1) = v
    BY <1>3, <1>7, <2>1 DEF Varint32, Varint64
  <2> QED
    BY <1>1, <1>2, <1>7, <2>2 DEF ValueIsRead
<1>8. CASE type \in {"SINT32", "SINT64"}
  <2>1. v \in Int
    BY <1>8, Words, ZigZagOK DEF ValuesOf
  <2>2. VarIntAt(r.bytes, 1) = zigZagEncode(v)
    BY <1>3, <1>8 DEF Written, Sized, Varint32, Varint64
  <2>3. v = IF zigZagEncode(v) % 2 = 0 THEN zigZagEncode(v) \div 2 ELSE -((zigZagEncode(v) + 1) \div 2)
    BY <2>1, ZigZagRead
  <2> QED
    BY <1>1, <1>2, <1>8, <2>2, <2>3 DEF ValueIsRead
<1>9. CASE type \in {"FIXED32", "FIXED64"}
  <2>1. CASE type = "FIXED32"
    <3>1. v \in 0 .. Word32 - 1 /\ v \in Int
      BY <2>1 DEF ValuesOf
    <3>2. v % Word32 = v
      BY <3>1, WithinWord, Words
    <3>3. LittleEndian(r.bytes) = v
      BY <1>4, <2>1, <3>1, <3>2 DEF FixedTypes32
    <3> QED
      BY <1>1, <1>2, <2>1, <3>3 DEF ValueIsRead
  <2>2. CASE type = "FIXED64"
    <3>1. v \in 0 .. Word64 - 1 /\ v \in Int
      BY <2>2 DEF ValuesOf
    <3>2. v % Word64 = v
      BY <3>1, WithinWord, Words
    <3>3. LittleEndian(r.bytes) = v
      BY <1>4, <2>2, <3>1, <3>2 DEF FixedTypes32, FixedTypes64
    <3> QED
      BY <1>1, <1>2, <2>2, <3>3 DEF ValueIsRead
  <2> QED
    BY <1>9, <2>1, <2>2
<1>10. CASE type = "SFIXED32"
  <2>1. v \in Ints(Word32)
    BY <1>10 DEF ValuesOf
  <2>2. v \in Int /\ Signed(v % Word32, Word32) = v
    BY <2>1, SignedRead, Words
  <2>3. LittleEndian(r.bytes) = v % Word32
    BY <1>4, <1>10, <2>2 DEF FixedTypes32
  <2> QED
    BY <1>1, <1>2, <1>10, <2>2, <2>3 DEF ValueIsRead
<1>11. CASE type = "SFIXED64"
  <2>1. v \in Ints(Word64)
    BY <1>11 DEF ValuesOf
  <2>2. v \in Int /\ Signed(v % Word64, Word64) = v
    BY <2>1, SignedRead, Words
  <2>3. LittleEndian(r.bytes) = v % Word64
    BY <1>4, <1>11, <2>2 DEF FixedTypes32, FixedTypes64
  <2> QED
    BY <1>1, <1>2, <1>11, <2>2, <2>3 DEF ValueIsRead
<1>12. CASE type \in {"STRING", "BYTES"}
  <2>1. r.bytes = v
    BY <1>2, <1>12 DEF Payload, Varint32, Varint64, FixedTypes32, FixedTypes64
  <2> QED
    BY <1>1, <1>2, <1>12, <2>1 DEF ValueIsRead
<1>13. CASE type = "MESSAGE"
  <2>1. r.bytes = Bytes[v]
    BY <1>2, <1>13 DEF Payload, Varint32, Varint64, FixedTypes32, FixedTypes64
  <2>2. v \in 1 .. m - 1 /\ Counts[v]
    BY <1>13 DEF ValuesOf, CountsValue
  <2> QED
    BY <1>1, <1>2, <1>13, <2>1, <2>2 DEF ValueIsRead, ReadBelow
<1> QED
  BY <1>5, <1>6, <1>7, <1>8, <1>9, <1>10, <1>11, <1>12, <1>13
     DEF FieldTypes, Varint32, Varint64, FixedTypes32, FixedTypes64, Delimited

\* The record of an element gives the element.
LEMMA ElementIsRead ==
    ASSUME NEW m \in DOMAIN Messages, NEW f, IsField(f, m), f.shape # "packed",
           NEW e, IsElement(f, e, m), CountsElement(f, e), ElementSize(f, e, Size) < Word32,
           NEW texts, ReadBelow(m, texts)
    PROVE  RecordIsRead(ElementRecord(f, e), [field |-> f, element |-> e], texts)
<1>1. f.number \in Nat /\ f.type \in FieldTypes
  BY FieldParts, MessageParts
<1>2. CASE f.shape = "map"
  <2>1. /\ f.type2 \in FieldTypes
        /\ e[1] \in ValuesOf(f.type, m) /\ e[2] \in ValuesOf(f.type2, m)
        /\ CountsValue(f.type, e[1], Counts) /\ CountsValue(f.type2, e[2], Counts)
    BY <1>2, FieldParts, MessageParts DEF IsElement, CountsElement
  <2>2. EntrySize(f, e, Size) < Word32
    BY <1>2, EntryFits
  <2>3. PICK x, r1, r2 : /\ x = EntryBytes(f, e) /\ Records(x) = <<r1, r2>>
                         /\ r1 = ValueRecord(1, f.type, e[1]) /\ r2 = ValueRecord(2, f.type2, e[2])
    BY <1>2, <2>2, EntryRead
  <2>4. ValueIsRead(f.type, r1, e[1], texts) /\ ValueIsRead(f.type2, r2, e[2], texts)
    BY <1>1, <2>1, <2>3, ValueRead
  <2>5. r1.number = 1 /\ r2.number = 2
    BY <2>3 DEF ValueRecord
  <2>6. PICK r : r = [number |-> f.number, wire_type |-> 2, bytes |-> x]
    OBVIOUS
  <2>7. Len(Records(x)) = 2 /\ Records(x)[1] = r1 /\ Records(x)[2] = r2
    BY <2>3
  <2>8. EntryIsRead(f, r, e, texts)
    BY <2>4, <2>5, <2>6, <2>7 DEF EntryIsRead, WIRETYPE_LENGTH_DELIMITED
  <2>9. ElementRecord(f, e) = r /\ r.number = f.number
    BY <1>2, <2>3, <2>6 DEF ElementRecord
  <2> QED
    BY <1>2, <2>8, <2>9 DEF RecordIsRead
<1>3. CASE f.shape # "map"
  <2>1. e \in ValuesOf(f.type, m) /\ CountsValue(f.type, e, Counts)
    BY <1>3 DEF IsElement, CountsElement
  <2>2. PICK r : r = ValueRecord(f.number, f.type, e)
    OBVIOUS
  <2>3. ValueIsRead(f.type, r, e, texts)
    BY <1>1, <2>1, <2>2, ValueRead
  <2>4. r = ElementRecord(f, e) /\ r.number = f.number
    BY <1>3, <2>2 DEF ElementRecord, ValueRecord
  <2> QED
    BY <1>3, <2>3, <2>4 DEF RecordIsRead
<1> QED
  BY <1>2, <1>3

\* The record of a packed field gives its elements, a byte each.
LEMMA PackedIsReadOK ==
    ASSUME NEW m \in DOMAIN Messages, NEW f, IsField(f, m), PackedInBytes(f), NEW n
    PROVE  PackedIsRead([number |-> n, wire_type |-> 2, bytes |-> f.values], f.values)
<1>1. PICK b \in Str : b = f.values
  BY PackedOK
<1>2. PICK l \in Nat : l = Len(b) /\ DOMAIN b = 1 .. l
  BY <1>1, FieldParts, MessageParts
<1>3. \A p \in 1 .. l : b[p] < Base
  BY <1>1, <1>2, Widths DEF PackedInBytes
<1>4. Starts(b) = 1 .. l
  <2>1. ASSUME NEW p \in 1 .. l PROVE p = 1 \/ b[p - 1] < Base
    <3>1. p # 1 => p - 1 \in 1 .. l
      BY <1>2
    <3> QED
      BY <1>3, <3>1
  <2> QED
    BY <1>2, <2>1 DEF Starts
<1>5. Cardinality(1 .. l) = l
  BY FS_Interval
<1>6. ASSUME NEW p \in 1 .. l
      PROVE  VarIntAt(b, p) = b[p] /\ Cardinality(Starts(b) \cap 1 .. p) = p
  <2>1. VarIntEnd(b, p) = p
    BY <1>2, <1>3, EndOK
  <2>2. VarIntAt(b, p) = b[p]
    BY <1>2, <1>3, <2>1, VarIntOK
  <2>3. Starts(b) \cap 1 .. p = 1 .. p
    BY <1>2, <1>4
  <2>4. Cardinality(1 .. p) = p
    BY FS_Interval
  <2> QED
    BY <2>2, <2>3, <2>4
<1>7. b # <<>> => b[Len(b)] < Base
  <2>1. b # <<>> => l # 0
    BY <1>2 DEF Str
  <2>2. l # 0 => l \in 1 .. l
    OBVIOUS
  <2> QED
    BY <1>2, <1>3, <2>1, <2>2
<1> QED
  BY <1>1, <1>2, <1>4, <1>5, <1>6, <1>7 DEF PackedIsRead, WIRETYPE_LENGTH_DELIMITED

(***************************************************************************)
(* Texts is defined, by course of values, and has what each message is     *)
(* written as; what the second pass has appended is what the fields seen   *)
(* are written as.                                                         *)
(***************************************************************************)

\* What may be expected of a field, and of the fields of a message.
Entries(f) == IF f.shape = "packed" THEN {[field |-> f, element |-> f.values]}
              ELSE {[field |-> f, element |-> f.values[k]] : k \in DOMAIN f.values}
EntriesIn(m) == UNION {Entries(Messages[m][k]) : k \in DOMAIN Messages[m]}
ExpectedIn(m) == [k \in DOMAIN Messages[m] |-> Expected(Messages[m][k])]

\* What is expected of a field is what is written of it.
LEMMA ExpectedIs ==
    ASSUME NEW m \in DOMAIN Messages, NEW f, IsField(f, m)
    PROVE  Expected(f) = IF ~IsWritten(f) THEN <<>>
                         ELSE IF f.shape = "packed" THEN <<[field |-> f, element |-> f.values]>>
                         ELSE [k \in DOMAIN f.values |-> [field |-> f, element |-> f.values[k]]]
<1>1. PICK n \in Nat : n = Len(f.values) /\ DOMAIN f.values = 1 .. n
  BY FieldParts, MessageParts
<1>2. f.values = <<>> <=> n = 0
  <2>1. CASE f.shape = "map"
    <3>1. PICK V : V = ValuesOf(f.type, m) \X ValuesOf(f.type2, m)
      OBVIOUS
    <3>2. f.values \in Seq(V)
      BY <2>1, <3>1 DEF IsField
    <3> QED
      BY <1>1, <3>2
  <2>2. CASE f.shape # "map"
    <3>1. PICK V : V = ValuesOf(f.type, m)
      OBVIOUS
    <3>2. f.values \in Seq(V)
      BY <2>2, <3>1 DEF IsField
    <3> QED
      BY <1>1, <3>2
  <2> QED
    BY <2>1, <2>2
<1>3. ASSUME f.shape = "one" PROVE n = 1 /\ (f.values = <<<<>>>> <=> f.values[1] = <<>>)
  <2>1. PICK V : V = ValuesOf(f.type, m)
    OBVIOUS
  <2>2. f.values \in Seq(V) /\ Len(f.values) = 1
    BY <1>3, <2>1 DEF IsField
  <2>3. f.values = <<<<>>>> <=> f.values[1] = <<>>
    BY <2>2
  <2> QED
    BY <1>1, <2>2, <2>3
<1>4. f.shape \in {"one", "repeated", "packed", "map"}
  BY DEF IsField
<1>5. CASE f.shape = "one"
  <2>1. IsWritten(f) <=> (f.has /\ f.number # 0 /\ ~(f.type \in {"STRING", "BYTES"} /\ f.values[1] = <<>>))
    BY <1>3, <1>5 DEF IsWritten, IsSet, Empty
  <2>2. f.values # <<>>
    BY <1>2, <1>3, <1>5
  <2> QED
    BY <1>5, <2>1, <2>2 DEF Expected
<1>6. CASE f.shape # "one"
  <2>1. IsWritten(f) <=> ((f.has \/ f.shape = "packed") /\ f.number # 0 /\ f.values # <<>>)
    BY <1>6 DEF IsWritten, IsSet, Empty
  <2> QED
    BY <1>6, <2>1 DEF Expected
<1> QED
  BY <1>5, <1>6

\* It is a sequence of entries.
LEMMA ExpectedOK ==
    ASSUME NEW m \in DOMAIN Messages, NEW f, IsField(f, m)
    PROVE  Expected(f) \in Seq(Entries(f))
<1>1. PICK n \in Nat : n = Len(f.values) /\ DOMAIN f.values = 1 .. n
  BY FieldParts, MessageParts
<1>2. PICK V : V = Entries(f)
  OBVIOUS
<1>3. CASE ~IsWritten(f)
  <2>1. Expected(f) = <<>>
    BY <1>3, ExpectedIs
  <2> QED
    BY <2>1
<1>4. CASE IsWritten(f) /\ f.shape = "packed"
  <2>1. PICK e : e = [field |-> f, element |-> f.values]
    OBVIOUS
  <2>2. Expected(f) = <<e>> /\ e \in V
    BY <1>2, <1>4, <2>1, ExpectedIs DEF Entries
  <2>3. <<e>> \in Seq(V)
    BY <2>2
  <2> QED
    BY <1>2, <2>2, <2>3
<1>5. CASE IsWritten(f) /\ f.shape # "packed"
  <2>1. PICK s : s = [k \in 1 .. n |-> [field |-> f, element |-> f.values[k]]]
    OBVIOUS
  <2>2. Expected(f) = s
    BY <1>1, <1>5, <2>1, ExpectedIs
  <2>3. \A k \in 1 .. n : [field |-> f, element |-> f.values[k]] \in V
    BY <1>1, <1>2, <1>5 DEF Entries
  <2>4. s \in [1 .. n -> V]
    BY <2>1, <2>3
  <2>5. s \in Seq(V)
    BY <2>4
  <2> QED
    BY <1>2, <2>2, <2>5
<1> QED
  BY <1>3, <1>4, <1>5

\* Sequences over a larger set.
LEMMA SeqSubset == ASSUME NEW V, NEW W, V \subseteq W, NEW s \in Seq(V) PROVE s \in Seq(W)
<1>1. s \in [1 .. Len(s) -> V] /\ Len(s) \in Nat
  OBVIOUS
<1>2. s \in [1 .. Len(s) -> W]
  BY <1>1
<1> QED
  BY <1>1, <1>2

\* So it is for all fields together.
LEMMA ExpectedInOK ==
    ASSUME NEW m \in DOMAIN Messages
    PROVE  /\ ExpectedIn(m) \in [1 .. Len(Messages[m]) -> Seq(EntriesIn(m))]
           /\ FlattenSeq(ExpectedIn(m)) \in Seq(EntriesIn(m))
<1>1. PICK l \in Nat : l = Len(Messages[m]) /\ DOMAIN Messages[m] = 1 .. l
  BY MessageParts
<1>2. PICK V : V = EntriesIn(m)
  OBVIOUS
<1>3. ASSUME NEW k \in 1 .. l PROVE Expected(Messages[m][k]) \in Seq(V)
  <2>1. Expected(Messages[m][k]) \in Seq(Entries(Messages[m][k]))
    BY <1>1, ExpectedOK, MessageParts
  <2>2. Entries(Messages[m][k]) \subseteq V
    BY <1>1, <1>2 DEF EntriesIn
  <2> QED
    BY <2>1, <2>2, SeqSubset
<1>4. ExpectedIn(m) \in [1 .. l -> Seq(V)]
  BY <1>1, <1>3 DEF ExpectedIn
<1>5. FlattenSeq(ExpectedIn(m)) \in Seq(V)
  BY <1>4, FlattenOK
<1> QED
  BY <1>1, <1>2, <1>4, <1>5

\* The records of a field are what is expected of it, one by one.
LEMMA FieldIsRead ==
    ASSUME NEW m \in DOMAIN Messages, NEW f, IsField(f, m), ReadableField(f), fieldSize(f, Size) < Word32,
           NEW texts, ReadBelow(m, texts)
    PROVE  /\ Len(FieldRecords(f)) = Len(Expected(f))
           /\ \A i \in 1 .. Len(FieldRecords(f)) : RecordIsRead(FieldRecords(f)[i], Expected(f)[i], texts)
<1>1. PICK n \in Nat : n = Len(f.values) /\ DOMAIN f.values = 1 .. n
  BY FieldParts, MessageParts
<1>2. CASE ~IsWritten(f)
  <2>1. FieldRecords(f) = <<>> /\ Expected(f) = <<>>
    BY <1>2, ExpectedIs DEF FieldRecords
  <2> QED
    BY <2>1
<1>3. CASE IsWritten(f) /\ f.shape = "packed"
  <2>1. PackedInBytes(f)
    BY <1>3 DEF ReadableField, CountsField
  <2>2. PICK r, e : /\ r = [number |-> f.number, wire_type |-> 2, bytes |-> f.values]
                    /\ e = [field |-> f, element |-> f.values]
    OBVIOUS
  <2>3. FieldRecords(f) = <<r>> /\ Expected(f) = <<e>>
    BY <1>3, <2>2, ExpectedIs DEF FieldRecords
  <2>4. PackedIsRead(r, e.element)
    BY <2>1, <2>2, PackedIsReadOK
  <2>5. RecordIsRead(r, e, texts)
    BY <1>3, <2>2, <2>4 DEF RecordIsRead
  <2>6. Len(<<r>>) = 1 /\ Len(<<e>>) = 1 /\ <<r>>[1] = r /\ <<e>>[1] = e
    OBVIOUS
  <2> QED
    BY <2>3, <2>5, <2>6
<1>4. CASE IsWritten(f) /\ f.shape # "packed"
  <2>1. CountsField(f, Counts)
    BY <1>4 DEF ReadableField, PackedInBytes
  <2>2. fieldSize(f, Size) = Sum(ElementSizes(f, Size))
    BY <1>4 DEF fieldSize, ElementSizes
  <2>3. ElementSizes(f, Size) \in [1 .. n -> Nat]
    BY <1>1, SizesOK, SizeOK, MessageParts
  <2>4. FieldRecords(f) = [k \in 1 .. n |-> ElementRecord(f, f.values[k])]
    BY <1>1, <1>4 DEF FieldRecords, ElementRecords
  <2>5. Expected(f) = [k \in 1 .. n |-> [field |-> f, element |-> f.values[k]]]
    BY <1>1, <1>4, ExpectedIs
  <2>6. ASSUME NEW k \in 1 .. n
        PROVE  RecordIsRead(ElementRecord(f, f.values[k]), [field |-> f, element |-> f.values[k]], texts)
    <3>1. IsElement(f, f.values[k], m)
      BY <1>1, FieldParts, MessageParts
    <3>2. CountsElement(f, f.values[k])
      BY <1>1, <1>4, <2>1 DEF CountsField, CountsElement
    <3>3. ElementSizes(f, Size)[k] = ElementSize(f, f.values[k], Size)
      BY <1>1 DEF ElementSizes
    <3>4. ElementSize(f, f.values[k], Size) < Word32
      <4>1. ElementSizes(f, Size)[k] <= Sum(ElementSizes(f, Size))
        BY <2>3, SumBounds
      <4>2. ElementSizes(f, Size)[k] \in Nat /\ Sum(ElementSizes(f, Size)) \in Nat
        BY <2>3, SumNat
      <4> QED
        BY <2>2, <3>3, <4>1, <4>2, Words
    <3> QED
      BY <1>4, <3>1, <3>2, <3>4, ElementIsRead
  <2>7. PICK r, e : r = FieldRecords(f) /\ e = Expected(f)
    OBVIOUS
  <2>8. /\ Len(r) = n /\ Len(e) = n
        /\ \A k \in 1 .. n : r[k] = ElementRecord(f, f.values[k]) /\ e[k] = [field |-> f, element |-> f.values[k]]
    BY <2>4, <2>5, <2>7
  <2> QED
    BY <2>6, <2>7, <2>8
<1> QED
  BY <1>2, <1>3, <1>4

\* The bytes of a message are read as the message if those of smaller messages are.
LEMMA MessageIsRead ==
    ASSUME NEW m \in DOMAIN Messages, NumbersFit, Readable(m), NEW texts, ReadBelow(m, texts)
    PROVE  IsRead(Bytes[m], m, texts)
<1>1. PICK l \in Nat : l = Len(Messages[m]) /\ DOMAIN Messages[m] = 1 .. l
  BY MessageParts
<1> DEFINE R == {x \in Kinds \X EntriesIn(m) : RecordIsRead(x[1], x[2], texts)}
<1>2. PICK V : V = EntriesIn(m)
  OBVIOUS
<1>3. PICK s, t : s = RecordsIn(m) /\ t = ExpectedIn(m)
  OBVIOUS
<1>4. s \in [1 .. l -> Seq(Kinds)] /\ Records(Bytes[m]) = FlattenSeq(s)
  BY <1>1, <1>3, MessageRead
<1>5. t \in [1 .. l -> Seq(V)] /\ FlattenSeq(t) \in Seq(V)
  BY <1>1, <1>2, <1>3, ExpectedInOK
<1>6. ASSUME NEW k \in 1 .. l PROVE Related(s[k], t[k], R)
  <2>1. s[k] = FieldRecords(Messages[m][k]) /\ t[k] = Expected(Messages[m][k])
    BY <1>1, <1>3 DEF RecordsIn, ExpectedIn
  <2>2. IsField(Messages[m][k], m) /\ ReadableField(Messages[m][k])
    BY <1>1, MessageParts DEF Readable
  <2>3. fieldSize(Messages[m][k], Size) < Word32
    <3>1. SizesIn(m, Size) \in [1 .. l -> Nat] /\ Sum(SizesIn(m, Size)) = Size[m] /\ Size[m] \in Nat
      BY <1>1, SizeOK, SizesInOK
    <3>2. SizesIn(m, Size)[k] <= Size[m]
      BY <3>1, SumBounds
    <3>3. SizesIn(m, Size)[k] = fieldSize(Messages[m][k], Size)
      BY <1>1 DEF SizesIn
    <3>4. SizesIn(m, Size)[k] \in Nat
      BY <3>1
    <3> QED
      BY <3>1, <3>2, <3>3, <3>4, FitsAssumption, Words
  <2>4. /\ Len(s[k]) = Len(t[k])
        /\ \A i \in 1 .. Len(s[k]) : RecordIsRead(s[k][i], t[k][i], texts)
    BY <2>1, <2>2, <2>3, FieldIsRead
  <2>5. \A i \in 1 .. Len(s[k]) : s[k][i] \in Kinds /\ t[k][i] \in V
    <3>1. s[k] \in Seq(Kinds) /\ t[k] \in Seq(V)
      BY <1>4, <1>5
    <3> QED
      BY <2>4, <3>1
  <2> QED
    BY <1>2, <2>4, <2>5 DEF Related
<1>7. Related(FlattenSeq(s), FlattenSeq(t), R)
  <2> HIDE DEF R
  <2> QED
    BY <1>4, <1>5, <1>6, FlattenRelated
<1>8. /\ Len(FlattenSeq(s)) = Len(FlattenSeq(t))
      /\ \A i \in 1 .. Len(FlattenSeq(s)) : RecordIsRead(FlattenSeq(s)[i], FlattenSeq(t)[i], texts)
  BY <1>7 DEF Related
<1>9. FlattenSeq(s) \in Seq(Kinds)
  BY <1>4, FlattenOK
<1>10. DOMAIN FlattenSeq(s) = 1 .. Len(FlattenSeq(s))
  BY <1>9
<1> QED
  BY <1>3, <1>4, <1>8, <1>10 DEF IsRead, ExpectedIn

-----------------------------------------------------------------------------
\* Whether a string is read as message m depends on the messages inside of it alone.
LEMMA ValueIsReadSame ==
    ASSUME NEW m \in Nat, NEW type \in FieldTypes, NEW v \in ValuesOf(type, m), NEW r,
           NEW t, NEW u, Agree(t, u, m)
    PROVE  ValueIsRead(type, r, v, t) <=> ValueIsRead(type, r, v, u)
<1>1. CASE type = "MESSAGE"
  <2>1. v \in 1 .. m - 1
    BY <1>1 DEF ValuesOf
  <2>2. t[v] = u[v]
    BY <2>1 DEF Agree
  <2>3. \A x : ValueIsRead(type, r, v, x) <=> r.wire_type = fieldType2WireType(type) /\ r.bytes \in x[v]
    BY <1>1 DEF ValueIsRead
  <2> QED
    BY <2>2, <2>3
<1>2. CASE type # "MESSAGE"
  BY <1>2 DEF ValueIsRead
<1> QED
  BY <1>1, <1>2

\* So for a record ...
LEMMA RecordIsReadSame ==
    ASSUME NEW m \in DOMAIN Messages, NEW e \in EntriesIn(m), NEW r, NEW t, NEW u, Agree(t, u, m)
    PROVE  RecordIsRead(r, e, t) <=> RecordIsRead(r, e, u)
<1>1. PICK k \in DOMAIN Messages[m] : e \in Entries(Messages[m][k])
  BY DEF EntriesIn
<1>2. PICK f : f = Messages[m][k] /\ IsField(f, m)
  BY MessageParts
<1>3. f.type \in FieldTypes /\ m \in Nat /\ DOMAIN f.values = 1 .. Len(f.values)
  BY <1>2, FieldParts, MessageParts
<1>4. CASE f.shape = "packed"
  <2>1. e = [field |-> f, element |-> f.values]
    BY <1>1, <1>2, <1>4 DEF Entries
  <2> QED
    BY <1>4, <2>1 DEF RecordIsRead
<1>5. CASE f.shape = "map"
  <2>1. PICK j \in DOMAIN f.values : e = [field |-> f, element |-> f.values[j]]
    BY <1>1, <1>2, <1>5 DEF Entries
  <2>2. IsElement(f, f.values[j], m) /\ f.type2 \in FieldTypes
    BY <1>2, <1>3, <1>5, FieldParts
  <2>3. PICK x : x = f.values[j]
    OBVIOUS
  <2>4. x[1] \in ValuesOf(f.type, m) /\ x[2] \in ValuesOf(f.type2, m)
    BY <1>5, <2>2, <2>3 DEF IsElement
  <2>5. \A q : /\ ValueIsRead(f.type, q, x[1], t) <=> ValueIsRead(f.type, q, x[1], u)
               /\ ValueIsRead(f.type2, q, x[2], t) <=> ValueIsRead(f.type2, q, x[2], u)
    BY <1>3, <2>2, <2>4, ValueIsReadSame
  <2>6. EntryIsRead(f, r, x, t) <=> EntryIsRead(f, r, x, u)
    BY <2>5 DEF EntryIsRead
  <2> QED
    BY <1>5, <2>1, <2>3, <2>6 DEF RecordIsRead
<1>6. CASE f.shape \notin {"packed", "map"}
  <2>1. PICK j \in DOMAIN f.values : e = [field |-> f, element |-> f.values[j]]
    BY <1>1, <1>2, <1>6 DEF Entries
  <2>2. IsElement(f, f.values[j], m)
    BY <1>2, <1>3, FieldParts
  <2>3. f.values[j] \in ValuesOf(f.type, m)
    BY <1>6, <2>2 DEF IsElement
  <2>4. ValueIsRead(f.type, r, f.values[j], t) <=> ValueIsRead(f.type, r, f.values[j], u)
    BY <1>3, <2>3, ValueIsReadSame
  <2> QED
    BY <1>6, <2>1, <2>4 DEF RecordIsRead
<1> QED
  BY <1>4, <1>5, <1>6

\* ... and for a message.
LEMMA IsReadSame ==
    ASSUME NEW m \in DOMAIN Messages, NEW b \in Str, NEW t, NEW u, Agree(t, u, m)
    PROVE  IsRead(b, m, t) <=> IsRead(b, m, u)
<1>1. PICK V : V = EntriesIn(m)
  OBVIOUS
<1>2. PICK es \in Seq(V) : es = FlattenSeq(ExpectedIn(m))
  BY <1>1, ExpectedInOK
<1>3. PICK rs \in Seq(Kinds) : rs = Records(b)
  <2>1. 1 \in 1 .. Len(b) + 1
    BY StrParts
  <2> QED
    BY <2>1, RecordsUnfold DEF Records
<1>4. \A x : IsRead(b, m, x) <=> Len(rs) = Len(es) /\ \A k \in DOMAIN rs : RecordIsRead(rs[k], es[k], x)
  BY <1>2, <1>3 DEF IsRead, ExpectedIn
<1>5. ASSUME Len(rs) = Len(es), NEW k \in DOMAIN rs
      PROVE  RecordIsRead(rs[k], es[k], t) <=> RecordIsRead(rs[k], es[k], u)
  <2>1. es[k] \in V
    BY <1>5
  <2> QED
    BY <1>1, <2>1, RecordIsReadSame
<1> QED
  BY <1>4, <1>5

\* The strings that are read as message m.
TextsIn(m, t) == {b \in Str : IsRead(b, m, t)}

LEMMA TextsInSame ==
    ASSUME NEW m \in DOMAIN Messages, NEW t, NEW u, Agree(t, u, m)
    PROVE  TextsIn(m, t) = TextsIn(m, u)
BY IsReadSame DEF TextsIn

\* Texts is defined: a function exists that is given by itself on smaller messages.
LEMMA TextsUnfold == Texts = [m \in DOMAIN Messages |-> TextsIn(m, Texts)]
<1> DEFINE V == SUBSET Str
           F(t) == [m \in DOMAIN Messages |-> TextsIn(m, t)]
           D == [h \in Seq(V) |-> IF Len(h) + 1 \in DOMAIN Messages
                                  THEN TextsIn(Len(h) + 1, h) ELSE {}]
<1>1. D \in [Seq(V) -> V]
  BY DEF TextsIn
<1>2. PICK g \in [Nat -> V] : \A n \in Nat : \A h \in Seq(V) :
          Len(h) = n /\ (\A i \in 1 .. n : h[i] = g[i - 1]) => g[n] = D[h]
  <2> HIDE DEF D, V
  <2> QED
    BY <1>1, CourseOfValues
<1> DEFINE G == [m \in DOMAIN Messages |-> g[m - 1]]
<1>3. ASSUME NEW m \in DOMAIN Messages PROVE G[m] = TextsIn(m, G)
  <2>1. PICK n \in Nat : n + 1 = m
    <3>1. m - 1 \in Nat /\ (m - 1) + 1 = m
      BY MessageParts
    <3> QED
      BY <3>1
  <2> DEFINE h == [i \in 1 .. n |-> g[i - 1]]
  <2> HIDE DEF V
  <2>2. h \in Seq(V) /\ Len(h) = n
    OBVIOUS
  <2>3. \A i \in 1 .. n : h[i] = g[i - 1]
    OBVIOUS
  <2> HIDE DEF h
  <2>4. g[n] = D[h]
    <3> HIDE DEF D
    <3> QED
      BY <1>2, <2>2, <2>3
  <2>5. D[h] = TextsIn(m, h)
    BY <2>1, <2>2
  <2>6. Agree(h, G, m)
    <3>1. ASSUME NEW i \in 1 .. m - 1 PROVE h[i] = G[i]
      <4>1. i \in 1 .. n /\ i \in DOMAIN Messages
        <5>1. i \in DOMAIN Messages
          BY MessageParts
        <5>2. m - 1 = n
          BY <2>1
        <5> QED
          BY <5>1, <5>2
      <4> QED
        BY <2>3, <4>1
    <3> QED
      BY <3>1 DEF Agree
  <2>7. TextsIn(m, h) = TextsIn(m, G)
    <3> HIDE DEF G
    <3> QED
      BY <2>6, TextsInSame
  <2>8. G[m] = g[n]
    BY <2>1
  <2> QED
    BY <2>4, <2>5, <2>7, <2>8
<1>4. G = F(G)
  BY <1>3
<1> HIDE DEF G
<1>5. \E f : f = F(f)
  BY <1>4
<1>6. Texts = CHOOSE f : f = F(f)
  BY DEF Texts, TextsIn, Str
<1> QED
  BY <1>5, <1>6

\* A message that is counted as it is written is read back, and so is one whose packed
\* fields have elements of a byte.
LEMMA CountsIsReadable == ASSUME NEW m \in DOMAIN Messages, Counts[m] PROVE Readable(m)
<1>1. CountsIn(m, Counts)
  BY CountsUnfolds
<1> QED
  BY <1>1 DEF CountsIn, Readable, ReadableField

\* From the inside out, the bytes of each message are read as the message.
LEMMA BytesAreRead ==
    ASSUME NumbersFit, NEW m \in DOMAIN Messages, Readable(m)
    PROVE  Bytes[m] \in Texts[m]
<1>1. ASSUME NEW n \in DOMAIN Messages, ReadBelow(n, Texts), Readable(n) PROVE Bytes[n] \in Texts[n]
  <2>1. IsRead(Bytes[n], n, Texts) /\ Bytes[n] \in Str
    BY <1>1, MessageIsRead, BytesAreStr
  <2>2. Texts[n] = TextsIn(n, Texts)
    BY TextsUnfold
  <2> QED
    BY <2>1, <2>2 DEF TextsIn
<1> DEFINE S == {n \in Nat : n \in DOMAIN Messages /\ Counts[n] => Bytes[n] \in Texts[n]}
<1>2. ASSUME NEW n \in Nat, \A k \in 0 .. n - 1 : k \in S PROVE n \in S
  <2>1. CASE n \in DOMAIN Messages /\ Counts[n]
    <3>1. ReadBelow(n, Texts)
      <4>1. ASSUME NEW v \in 1 .. n - 1, Counts[v] PROVE Bytes[v] \in Texts[v]
        <5>1. v \in 0 .. n - 1 /\ v \in DOMAIN Messages
          BY <2>1, MessageParts
        <5> QED
          BY <1>2, <4>1, <5>1
      <4> QED
        BY <4>1 DEF ReadBelow
    <3> QED
      BY <1>1, <2>1, <3>1, CountsIsReadable
  <2> QED
    BY <2>1
<1>3. Nat \subseteq S
  <2> HIDE DEF S
  <2> QED
    BY <1>2, StrongInduction
<1>4. ReadBelow(m, Texts)
  <2>1. ASSUME NEW v \in 1 .. m - 1, Counts[v] PROVE Bytes[v] \in Texts[v]
    <3>1. v \in Nat /\ v \in DOMAIN Messages
      BY MessageParts
    <3> QED
      BY <1>3, <2>1, <3>1
  <2> QED
    BY <2>1 DEF ReadBelow
<1> QED
  BY <1>1, <1>4

-----------------------------------------------------------------------------
\* What the first k fields of message m are written as.
PartsWritten(m, k) == [j \in 1 .. k |-> writeField(Messages[m][j], Bytes)]
PartWritten(m, k) == FlattenSeq(PartsWritten(m, k))

\* Nothing for no fields, and the message for all of them.
LEMMA PartWrittenOK ==
    ASSUME NEW m \in DOMAIN Messages, NEW k \in 0 .. Len(Messages[m])
    PROVE  /\ PartsWritten(m, k) \in [1 .. k -> Str] /\ PartWritten(m, k) \in Str
           /\ k = 0 => PartWritten(m, k) = <<>>
           /\ k = Len(Messages[m]) => PartWritten(m, k) = Bytes[m]
<1>1. k \in Nat /\ Len(Messages[m]) \in Nat
  BY MessageParts
<1>2. ASSUME NEW j \in 1 .. k PROVE writeField(Messages[m][j], Bytes) \in Str
  <2>1. j \in 1 .. Len(Messages[m])
    BY <1>1
  <2> QED
    BY <2>1, MessageParts, BytesAreStr, WriteFieldOK
<1>3. PartsWritten(m, k) \in [1 .. k -> Str]
  BY <1>2 DEF PartsWritten
<1>4. PartWritten(m, k) \in Str
  BY <1>1, <1>3, FlattenStr DEF PartWritten
<1>5. ASSUME k = 0 PROVE PartWritten(m, k) = <<>>
  <2>1. PICK V : Str = Seq(V)
    BY DEF Str
  <2>2. PartsWritten(m, k) \in [1 .. 0 -> Seq(V)]
    BY <1>3, <1>5, <2>1
  <2> QED
    BY <2>2, FlattenNone DEF PartWritten
<1>6. ASSUME k = Len(Messages[m]) PROVE PartWritten(m, k) = Bytes[m]
  <2>1. DOMAIN Messages[m] = 1 .. k
    BY <1>6, MessageParts
  <2>2. PartsWritten(m, k) = BytesIn(m, Bytes)
    BY <2>1 DEF PartsWritten, BytesIn
  <2> QED
    BY <2>2, BytesAreStr DEF PartWritten
<1> QED
  BY <1>3, <1>4, <1>5, <1>6

\* With one more field.
LEMMA PartWrittenNext ==
    ASSUME NEW m \in DOMAIN Messages, NEW k \in Nat, k < Len(Messages[m])
    PROVE  PartWritten(m, k + 1) = PartWritten(m, k) \o writeField(Messages[m][k + 1], Bytes)
<1>1. PICK n \in Nat : n = k + 1
  OBVIOUS
<1>2. k \in 0 .. Len(Messages[m]) /\ n \in 0 .. Len(Messages[m])
  BY <1>1, MessageParts
<1>3. PICK V : Str = Seq(V)
  BY DEF Str
<1>4. PICK s, t : s = PartsWritten(m, k) /\ t = PartsWritten(m, n)
  OBVIOUS
<1>5. s \in [1 .. k -> Seq(V)] /\ t \in [1 .. k + 1 -> Seq(V)]
  BY <1>1, <1>2, <1>3, <1>4, PartWrittenOK
<1>6. \A j \in 1 .. k : t[j] = s[j]
  BY <1>1, <1>4 DEF PartsWritten
<1>7. t[n] = writeField(Messages[m][n], Bytes)
  BY <1>1, <1>4 DEF PartsWritten
<1>8. FlattenSeq(t) = FlattenSeq(s) \o t[k + 1]
  BY <1>5, <1>6, FlattenNext
<1> QED
  BY <1>1, <1>4, <1>7, <1>8 DEF PartWritten

\* What the string holds: what it held before, and what the fields seen are written as.
WrittenInv == /\ Inv
              /\ pc # "size" => str_ = start \o PartWritten(message, seen)

\* Each step of the second pass appends what its field is written as.
LEMMA NextWritten == WrittenInv /\ [Next]_vars => WrittenInv'
<1> SUFFICES ASSUME WrittenInv, [Next]_vars PROVE WrittenInv'
  OBVIOUS
<1>1. Inv /\ Inv'
  BY NextInv DEF WrittenInv
<1>2. PICK n \in Nat : n = Len(Fields)
  BY <1>1, MessageParts DEF Inv, TypeOK, Fields
<1>3. message \in DOMAIN Messages /\ seen \in 0 .. n /\ start \in Str
  BY <1>1, <1>2, BeforeAssumption DEF Inv, TypeOK, Str
<1>4. CASE SizeField
  BY <1>1, <1>4 DEF SizeField, WrittenInv
<1>5. CASE Reserve
  <2>1. str_ = start /\ seen' = 0 /\ UNCHANGED <<message, str_, start>>
    BY <1>1, <1>5 DEF Reserve, Inv
  <2>2. PartWritten(message, 0) = <<>>
    BY <1>2, <1>3, PartWrittenOK DEF Fields
  <2>3. start \o <<>> = start
    <3>1. PICK V : Str = Seq(V)
      BY DEF Str
    <3>2. start \in Seq(V)
      BY <1>3, <3>1
    <3> QED
      BY <3>2
  <2> QED
    BY <1>1, <2>1, <2>2, <2>3 DEF WrittenInv
<1>6. CASE WriteField
  <2>1. /\ pc = "write" /\ seen < n /\ str_' = str_ \o writeField(Fields[seen + 1], Bytes)
        /\ seen' = seen + 1
        /\ UNCHANGED <<message, pc, size_, result, start>>
    BY <1>2, <1>6 DEF WriteField
  <2>2. str_ = start \o PartWritten(message, seen)
    BY <2>1 DEF WrittenInv
  <2>3. PartWritten(message, seen + 1) = PartWritten(message, seen) \o writeField(Fields[seen + 1], Bytes)
    <3>1. seen \in Nat /\ seen < Len(Messages[message])
      BY <1>2, <1>3, <2>1 DEF Fields
    <3>2. PartWritten(message, seen + 1)
          = PartWritten(message, seen) \o writeField(Messages[message][seen + 1], Bytes)
      BY <1>3, <3>1, PartWrittenNext
    <3> QED
      BY <3>2 DEF Fields
  <2>4. PICK x \in Str : x = PartWritten(message, seen)
    BY <1>2, <1>3, PartWrittenOK DEF Fields
  <2>5. PICK y \in Str : y = writeField(Fields[seen + 1], Bytes)
    <3>1. seen + 1 \in 1 .. n
      BY <1>3, <2>1
    <3> QED
      BY <1>2, <1>3, <3>1, MessageParts, BytesAreStr, WriteFieldOK DEF Fields
  <2>6. (start \o x) \o y = start \o (x \o y)
    BY <1>3, StrAssociates DEF Associates
  <2>7. str_' = start \o PartWritten(message, seen + 1)
    BY <2>1, <2>2, <2>3, <2>4, <2>5, <2>6, Zenon
  <2> QED
    BY <1>1, <2>1, <2>7 DEF WrittenInv
<1>7. CASE Return
  BY <1>1, <1>7 DEF Return, WrittenInv
<1>8. CASE UNCHANGED vars
  BY <1>1, <1>8 DEF vars, WrittenInv
<1> QED
  BY <1>4, <1>5, <1>6, <1>7, <1>8 DEF Next

LEMMA InitWritten == Init => WrittenInv
BY InitInv DEF Init, WrittenInv

\* The invariant holds.
LEMMA WrittenInvariant == Spec => []WrittenInv
<1> QED
  BY InitWritten, NextWritten, PTL DEF Spec

\* What has been appended to x.
LEMMA Appended ==
    ASSUME NEW x \in Str, NEW y \in Str
    PROVE  IsPrefix(x, x \o y) /\ SubSeq(x \o y, Len(x) + 1, Len(x \o y)) = y
<1>1. PICK z : z = x \o y
  OBVIOUS
<1>2. PICK m, n \in Nat : m = Len(x) /\ n = Len(y)
  BY StrParts
<1>3. z \in Str /\ Len(z) = m + n /\ (\A i \in 1 .. m : z[i] = x[i]) /\ \A i \in 1 .. n : z[m + i] = y[i]
  BY <1>1, <1>2, StrBehind
<1>4. IsPrefix(x, z)
  <2>1. SubSeq(z, 1, m) = x
    <3>1. At(z, 1, x)
      <4>1. \A i \in 1 .. m : 1 - 1 + i = i
        OBVIOUS
      <4> QED
        BY <1>2, <1>3, <4>1 DEF At
    <3>2. SubSeq(z, 1, 1 + m - 1) = x
      BY <1>2, <1>3, <3>1, AtSub
    <3>3. 1 + m - 1 = m
      OBVIOUS
    <3> QED
      BY <3>2, <3>3
  <2> QED
    BY <1>2, <1>3, <2>1 DEF IsPrefix
<1>5. SubSeq(z, m + 1, Len(z)) = y
  <2>1. At(z, m + 1, y)
    <3>1. \A i \in 1 .. n : (m + 1) - 1 + i = m + i
      OBVIOUS
    <3> QED
      BY <1>2, <1>3, <3>1 DEF At
  <2>2. SubSeq(z, m + 1, (m + 1) + n - 1) = y
    BY <1>2, <1>3, <2>1, AtSub
  <2>3. (m + 1) + n - 1 = m + n
    OBVIOUS
  <2> QED
    BY <1>3, <2>2, <2>3
<1> QED
  BY <1>1, <1>2, <1>4, <1>5

\* The round trip: what ProtobufEncoder has appended for a message is read, by the
\* wire format, as that message, each field that is set with its values and no other,
\* and what the string held before is left.  It is so for every message whose numbers
\* fit into a tag and whose fields are counted as they are written, or packed with
\* elements that take a byte.
THEOREM ReadsBackCorrect == NumbersFit => (Spec => [](Readable(message) => BytesReadBack))
<1>1. ASSUME NumbersFit PROVE WrittenInv => (Readable(message) => BytesReadBack)
  <2>1. SUFFICES ASSUME WrittenInv, Readable(message), pc = "done"
                 PROVE  IsPrefix(start, str_) /\ SubSeq(str_, Len(start) + 1, Len(str_)) \in Texts[message]
    BY DEF BytesReadBack
  <2>2. /\ message \in DOMAIN Messages /\ start \in Str /\ seen = Len(Messages[message])
        /\ str_ = start \o PartWritten(message, seen)
    BY <2>1, BeforeAssumption DEF WrittenInv, Inv, TypeOK, Str, Fields
  <2>3. PartWritten(message, seen) = Bytes[message] /\ Bytes[message] \in Str
    BY <2>2, PartWrittenOK, MessageParts, BytesAreStr
  <2>4. Bytes[message] \in Texts[message]
    BY <1>1, <2>1, <2>2, BytesAreRead
  <2> QED
    BY <2>2, <2>3, <2>4, Appended
<1>2. ASSUME NumbersFit PROVE Spec => [](Readable(message) => BytesReadBack)
  BY <1>1, <1>2, WrittenInvariant, PTL
<1> QED
  BY <1>2

=============================================================================
