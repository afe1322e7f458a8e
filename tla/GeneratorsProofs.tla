-------------------------- MODULE GeneratorsProofs --------------------------
(***************************************************************************)
(* The classes that are printed for every file and for every document.     *)
(*                                                                         *)
(* Of the class plugin the invariant is about result while it is sorted.   *)
(* Inserting a message does not change the order of the others.  The new   *)
(* one stands before all that use it, and behind all others if there is    *)
(* none: that is what is known of a message and the earlier ones, and of a *)
(* message and the later ones, and it stays so.                            *)
(*                                                                         *)
(* Of json2cpp it is about the calls in progress.  Each is about a member  *)
(* of the object of the call around it; what their loops have ahead is not *)
(* begun, what they have behind is collected, but for what the call inside *)
(* is about; and no class is begun before that of the object it is a       *)
(* member of, so that one not yet begun has nothing collected in it.       *)
(***************************************************************************)
EXTENDS ClassOrder, Json2Cpp, WellFoundedInduction, TLAPS

-----------------------------------------------------------------------------
(***************************************************************************)
(* The class plugin.                                                       *)
(***************************************************************************)
Typed ==
    /\ msgs \in Files
    /\ idx \in 1 .. Len(msgs) + 1
    /\ result \in Seq(1 .. idx - 1)
    /\ at \in 1 .. Len(result) + 1
    /\ line \in 1 .. Len(result) + 1
    /\ printed \in Seq(DOMAIN msgs)

\* The result has each message inserted once.
Whole ==
    /\ \A p, q \in DOMAIN result : result[p] = result[q] => p = q
    /\ \A m \in 1 .. idx - 1 : \E p \in DOMAIN result : result[p] = m

\* A later message stands before an earlier one that uses it; one that no
\* earlier message uses stands behind all that are earlier.
Ordered ==
    \A p, q \in DOMAIN result :
        result[p] < result[q] =>
            /\ Finds(result[p], result[q]) => q < p
            /\ (\A k \in 1 .. result[q] - 1 : ~Finds(k, result[q])) => p < q

\* What is printed are the messages up to line that are not skipped.
Prefix ==
    /\ printed # <<>> => idx > Len(msgs)
    /\ \A p \in 1 .. line - 1 : ~Skipped(result[p]) => \E r \in DOMAIN printed : printed[r] = result[p]
    /\ \A r \in DOMAIN printed : /\ ~Skipped(printed[r])
                                 /\ \E p \in 1 .. line - 1 : printed[r] = result[p]
    /\ line > 1 => idx > Len(msgs)

Once == \A p, q \in DOMAIN printed : printed[p] = printed[q] => p = q

\* No message before the one that is looked at uses the new one.
Passed == idx <= Len(msgs) => \A p \in 1 .. at - 1 : ~Finds(result[p], idx)

IInv == Typed /\ Whole /\ Ordered /\ Passed /\ Prefix /\ Once /\ DefinedBefore

-----------------------------------------------------------------------------
\* A file is a sequence.
LEMMA FileLen == ASSUME NEW f \in Files PROVE Len(f) \in Nat /\ DOMAIN f = 1 .. Len(f)
BY FilesAssumption

\* Where the messages are after one more is inserted: the new one at p, those that
\* were before it where they were, the others one place behind.
LEMMA Insertion ==
    ASSUME Typed, NEW p \in 1 .. Len(result) + 1
    PROVE  /\ Inserted(idx, p) \in Seq(1 .. idx)
           /\ Len(Inserted(idx, p)) = Len(result) + 1
           /\ Inserted(idx, p)[p] = idx
           /\ \A q \in 1 .. Len(result) + 1 :
                /\ q < p => q \in DOMAIN result /\ Inserted(idx, p)[q] = result[q]
                /\ q > p => q - 1 \in DOMAIN result /\ Inserted(idx, p)[q] = result[q - 1]
<1>1. Len(result) \in Nat /\ DOMAIN result = 1 .. Len(result) /\ idx \in Nat /\ idx > 0
      /\ \A q \in DOMAIN result : result[q] \in 1 .. idx - 1
  BY FileLen DEF Typed
<1>2. Inserted(idx, p) \in [1 .. Len(result) + 1 -> 1 .. idx]
  <2>1. ASSUME NEW q \in 1 .. Len(result) + 1
        PROVE  (IF q < p THEN result[q] ELSE IF q = p THEN idx ELSE result[q - 1]) \in 1 .. idx
    <3>1. CASE q < p
      <4>1. result[q] \in 1 .. idx - 1
        BY <1>1, <3>1
      <4> QED BY <1>1, <3>1, <4>1
    <3>2. CASE q = p
      BY <1>1, <3>2
    <3>3. CASE q > p
      <4>1. result[q - 1] \in 1 .. idx - 1
        BY <1>1, <3>3
      <4> QED BY <1>1, <3>3, <4>1
    <3> QED BY <1>1, <3>1, <3>2, <3>3
  <2> QED BY <2>1 DEF Inserted
<1>3. Inserted(idx, p) \in Seq(1 .. idx) /\ Len(Inserted(idx, p)) = Len(result) + 1
  BY <1>1, <1>2
<1>4. Inserted(idx, p)[p] = idx
  BY <1>1 DEF Inserted
<1>5. ASSUME NEW q \in 1 .. Len(result) + 1
      PROVE  /\ q < p => q \in DOMAIN result /\ Inserted(idx, p)[q] = result[q]
             /\ q > p => q - 1 \in DOMAIN result /\ Inserted(idx, p)[q] = result[q - 1]
  BY <1>1 DEF Inserted
<1> QED BY <1>3, <1>4, <1>5

-----------------------------------------------------------------------------
LEMMA InitInv == Init => IInv
<1> SUFFICES ASSUME Init PROVE IInv
  OBVIOUS
<1>1. Len(msgs) \in Nat /\ DOMAIN msgs = 1 .. Len(msgs)
  BY FileLen DEF Init
<1> QED BY <1>1 DEF Init, IInv, Typed, Whole, Ordered, Passed, Prefix, Once, DefinedBefore

\* While messages are inserted nothing is printed.
LEMMA NothingYet == ASSUME IInv, idx <= Len(msgs) PROVE line = 1 /\ printed = <<>>
<1>1. Len(msgs) \in Nat /\ idx \in Nat /\ line \in Nat /\ line >= 1
  BY FileLen DEF IInv, Typed
<1> QED BY <1>1 DEF IInv, Prefix

LEMMA LookInv == IInv /\ Look => IInv'
<1> SUFFICES ASSUME IInv, Look PROVE IInv'
  OBVIOUS
<1>1. Len(msgs) \in Nat /\ Len(result) \in Nat /\ DOMAIN result = 1 .. Len(result) /\ at \in Nat
  BY FileLen DEF IInv, Typed
<1>2. Typed'
  BY <1>1 DEF IInv, Typed, Look, Looking
<1>3. Passed'
  <2>1. msgs' = msgs /\ idx' = idx /\ result' = result /\ at' = at + 1 /\ ~Finds(result[at], idx)
    BY DEF Look
  <2>2. ASSUME idx <= Len(msgs), NEW p \in 1 .. at PROVE ~Finds(result[p], idx)
    <3>1. p = at \/ p \in 1 .. at - 1
      BY <1>1
    <3> QED BY <2>1, <2>2, <3>1 DEF IInv, Passed
  <2>3. \A m, n : Finds(m, n)' <=> Finds(m, n)
    BY <2>1 DEF Finds
  <2>4. 1 .. at' - 1 = 1 .. at
    BY <1>1, <2>1
  <2> QED BY <2>1, <2>2, <2>3, <2>4 DEF Passed
<1>4. Whole' /\ Once'
  BY DEF IInv, Look, Whole, Once
<1>5. Ordered' /\ Prefix' /\ DefinedBefore'
  BY DEF IInv, Look, Ordered, Prefix, DefinedBefore, Finds, Needs, HasField, InPlace, Skipped
<1> QED BY <1>2, <1>3, <1>4, <1>5 DEF IInv

LEMMA InsertInv == IInv /\ Insert => IInv'
<1> SUFFICES ASSUME IInv, Insert PROVE IInv'
  OBVIOUS
<1> USE DEF Place
<1>1. /\ Len(msgs) \in Nat /\ Len(result) \in Nat /\ DOMAIN result = 1 .. Len(result)
      /\ at \in 1 .. Len(result) + 1 /\ idx \in 1 .. Len(msgs) /\ DOMAIN msgs = 1 .. Len(msgs)
      /\ \A q \in DOMAIN result : result[q] \in 1 .. idx - 1
  BY FileLen DEF IInv, Typed, Insert
<1>2. /\ line = 1 /\ printed = <<>> /\ line' = 1 /\ printed' = <<>>
      /\ msgs' = msgs /\ idx' = idx + 1 /\ at' = 1 /\ idx <= Len(msgs)
  BY NothingYet DEF Insert
<1>3. /\ result' \in Seq(1 .. idx)
      /\ Len(result') = Len(result) + 1
      /\ result'[at] = idx
      /\ \A q \in 1 .. Len(result) + 1 :
           /\ q < at => q \in DOMAIN result /\ result'[q] = result[q]
           /\ q > at => q - 1 \in DOMAIN result /\ result'[q] = result[q - 1]
  BY <1>1, Insertion DEF IInv, Insert
<1>4. DOMAIN result' = 1 .. Len(result) + 1
  BY <1>1, <1>3
<1>5. Typed'
  BY <1>1, <1>2, <1>3 DEF IInv, Typed
<1>6. Whole'
  <2>1. ASSUME NEW p \in DOMAIN result', NEW q \in DOMAIN result', result'[p] = result'[q]
        PROVE  p = q
    <3> DEFINE Old(j) == IF j < at THEN j ELSE j - 1
    <3>1. ASSUME NEW j \in DOMAIN result', j # at
          PROVE  Old(j) \in DOMAIN result /\ result'[j] = result[Old(j)] /\ result'[j] # idx
      <4>1. j < at \/ j > at
        BY <3>1, <1>1, <1>4
      <4>2. Old(j) \in DOMAIN result /\ result'[j] = result[Old(j)]
        BY <4>1, <1>1, <1>3, <1>4
      <4>3. result[Old(j)] \in 1 .. idx - 1
        BY <4>2, <1>1
      <4> QED BY <4>2, <4>3, <1>1
    <3>2. CASE p = at \/ q = at
      BY <3>1, <3>2, <2>1, <1>3
    <3>3. CASE p # at /\ q # at
      <4>1. Old(p) = Old(q)
        BY <3>1, <3>3, <2>1 DEF IInv, Whole
      <4> QED BY <4>1, <3>3, <1>1, <1>4
    <3> QED BY <3>2, <3>3
  <2>2. ASSUME NEW m \in 1 .. idx PROVE \E p \in DOMAIN result' : result'[p] = m
    <3>1. CASE m = idx
      BY <3>1, <1>1, <1>3, <1>4
    <3>2. CASE m < idx
      <4>1. PICK p \in DOMAIN result : result[p] = m
        BY <3>2, <1>1 DEF IInv, Whole
      <4>2. CASE p < at
        <5>1. p \in 1 .. Len(result) + 1
          BY <4>1, <1>1
        <5> QED BY <5>1, <4>1, <4>2, <1>3, <1>4
      <4>3. CASE p >= at
        <5>1. p + 1 \in 1 .. Len(result) + 1 /\ p + 1 > at /\ (p + 1) - 1 = p
          BY <4>1, <4>3, <1>1
        <5> QED BY <5>1, <4>1, <1>3, <1>4
      <4> QED BY <4>1, <4>2, <4>3, <1>1
    <3> QED BY <3>1, <3>2, <1>1
  <2>3. idx' - 1 = idx
    BY <1>1, <1>2
  <2> QED BY <2>1, <2>2, <2>3 DEF Whole
<1>7. \A m, n : Finds(m, n)' <=> Finds(m, n)
  BY <1>2 DEF Finds
<1>8. ASSUME NEW p \in DOMAIN result', NEW q \in DOMAIN result', result'[p] < result'[q]
      PROVE  /\ Finds(result'[p], result'[q]) => q < p
             /\ (\A k \in 1 .. result'[q] - 1 : ~Finds(k, result'[q])) => p < q
  \* The later of the two is the new one: no message before its place uses it; if
  \* none does at all, its place is the last.
  <2>1. CASE q = at
    <3>1. result'[q] = idx /\ p # q
      BY <2>1, <1>1, <1>3, <1>8
    <3>2. ASSUME p < at PROVE ~Finds(result'[p], idx)
      BY <3>2, <1>1, <1>2, <1>3, <1>4 DEF IInv, Passed
    <3>3. ASSUME at < p PROVE Finds(result[at], idx) /\ at \in DOMAIN result
      BY <3>3, <1>1, <1>2, <1>4 DEF Insert, Looking
    <3>4. ASSUME at < p PROVE \E k \in 1 .. idx - 1 : Finds(k, idx)
      BY <3>3, <3>4, <1>1
    <3> QED BY <2>1, <3>1, <3>2, <3>4, <1>1, <1>4
  \* It is not: the earlier one is not either, and both were in this order.
  <2>2. CASE q # at
    <3> DEFINE Old(j) == IF j < at THEN j ELSE j - 1
    <3>1. p # at
      BY <2>2, <1>1, <1>3, <1>4, <1>8
    <3>2. /\ Old(p) \in DOMAIN result /\ result'[p] = result[Old(p)]
          /\ Old(q) \in DOMAIN result /\ result'[q] = result[Old(q)]
      <4>1. ASSUME NEW j \in DOMAIN result', j # at
            PROVE  Old(j) \in DOMAIN result /\ result'[j] = result[Old(j)]
        <5>1. j < at \/ j > at
          BY <4>1, <1>1, <1>4
        <5> QED BY <5>1, <1>1, <1>3, <1>4
      <4> HIDE DEF Old
      <4> QED BY <4>1, <2>2, <3>1
    <3>3. /\ Finds(result'[p], result'[q]) => Old(q) < Old(p)
          /\ (\A k \in 1 .. result'[q] - 1 : ~Finds(k, result'[q])) => Old(p) < Old(q)
      BY <3>2, <1>8 DEF IInv, Ordered
    <3>4. /\ Old(q) < Old(p) => q < p
          /\ Old(p) < Old(q) => p < q
      BY <2>2, <3>1, <1>1, <1>4
    <3> QED BY <3>3, <3>4
  <2> QED BY <2>1, <2>2
<1>9. Ordered'
  BY <1>7, <1>8 DEF Ordered
<1>10. Passed'
  BY <1>2 DEF Passed
<1>11. Prefix' /\ Once' /\ DefinedBefore'
  BY <1>2 DEF Prefix, Once, DefinedBefore
<1> QED BY <1>5, <1>6, <1>9, <1>10, <1>11 DEF IInv

-----------------------------------------------------------------------------
LEMMA PrintInv == IInv /\ PrintClass => IInv'
<1> SUFFICES ASSUME IInv, PrintClass PROVE IInv'
  OBVIOUS
<1> DEFINE new == result[line]
<1>1. /\ Len(msgs) \in Nat /\ DOMAIN msgs = 1 .. Len(msgs) /\ idx = Len(msgs) + 1
      /\ Len(result) \in Nat /\ DOMAIN result = 1 .. Len(result) /\ line \in 1 .. Len(result)
      /\ \A q \in DOMAIN result : result[q] \in 1 .. Len(msgs)
      /\ printed \in Seq(1 .. Len(msgs)) /\ Len(printed) \in Nat /\ DOMAIN printed = 1 .. Len(printed)
  <2>1. Len(msgs) \in Nat /\ DOMAIN msgs = 1 .. Len(msgs)
    BY FileLen DEF IInv, Typed
  <2>2. idx = Len(msgs) + 1
    BY <2>1 DEF IInv, Typed, PrintClass
  <2>3. result \in Seq(1 .. Len(msgs)) /\ printed \in Seq(1 .. Len(msgs))
    BY <2>1, <2>2 DEF IInv, Typed
  <2>4. line \in 1 .. Len(result)
    BY <2>3 DEF IInv, Typed, PrintClass
  <2> QED BY <2>1, <2>2, <2>3, <2>4
<1>2. msgs' = msgs /\ idx' = idx /\ at' = at /\ result' = result /\ line' = line + 1
  BY DEF PrintClass
<1>3. new \in 1 .. Len(msgs)
  BY <1>1
<1>4. CASE Skipped(new)
  <2>1. printed' = printed
    BY <1>4 DEF PrintClass
  <2>2. Typed' /\ Whole' /\ Ordered' /\ Passed' /\ Once' /\ DefinedBefore'
    <3>1. Typed' /\ Once'
      BY <1>1, <1>2, <2>1 DEF IInv, Typed, Once
    <3>2. Whole' /\ Ordered' /\ Passed'
      BY <1>2 DEF IInv, Whole, Ordered, Passed, Finds
    <3>3. DefinedBefore'
      BY <1>2, <2>1 DEF IInv, DefinedBefore, Finds, Needs, HasField, InPlace, Skipped
    <3> QED BY <3>1, <3>2, <3>3
  <2>3. ASSUME NEW p \in 1 .. line, ~Skipped(result[p]) PROVE \E r \in DOMAIN printed : printed[r] = result[p]
    <3>1. p \in 1 .. line - 1
      BY <1>1, <1>4, <2>3
    <3> QED BY <3>1, <2>3 DEF IInv, Prefix
  <2>4. ASSUME NEW r \in DOMAIN printed
        PROVE  ~Skipped(printed[r]) /\ \E p \in 1 .. line : printed[r] = result[p]
    <3>1. PICK p \in 1 .. line - 1 : printed[r] = result[p]
      BY DEF IInv, Prefix
    <3>2. p \in 1 .. line
      BY <1>1
    <3> QED BY <3>1, <3>2 DEF IInv, Prefix
  <2>5. Prefix'
    BY <1>1, <1>2, <2>1, <2>3, <2>4 DEF Prefix, Skipped
  <2> QED BY <2>2, <2>5 DEF IInv
<1>5. CASE ~Skipped(new)
  <2>1. printed' = Append(printed, new)
    BY <1>5 DEF PrintClass
  <2>2. /\ printed' \in Seq(1 .. Len(msgs)) /\ DOMAIN printed' = 1 .. Len(printed) + 1
        /\ printed'[Len(printed) + 1] = new
        /\ \A r \in 1 .. Len(printed) : printed'[r] = printed[r]
    BY <1>1, <1>3, <2>1
  <2>3. Typed' /\ Whole' /\ Ordered' /\ Passed'
    <3>1. Typed'
      BY <1>1, <1>2, <2>2 DEF IInv, Typed
    <3>2. Whole' /\ Ordered' /\ Passed'
      BY <1>2 DEF IInv, Whole, Ordered, Passed, Finds
    <3> QED BY <3>1, <3>2
  <2>4. ASSUME NEW p \in 1 .. line, ~Skipped(result[p])
        PROVE  \E r \in DOMAIN printed' : printed'[r] = result[p]
    <3>1. CASE p = line
      <4>1. Len(printed) + 1 \in DOMAIN printed'
        BY <1>1, <2>2
      <4> QED BY <3>1, <4>1, <2>2
    <3>2. CASE p # line
      <4>1. p \in 1 .. line - 1
        BY <3>2, <1>1
      <4>2. PICK r \in DOMAIN printed : printed[r] = result[p]
        BY <4>1, <2>4 DEF IInv, Prefix
      <4> QED BY <4>2, <1>1, <2>2
    <3> QED BY <3>1, <3>2
  <2>5. ASSUME NEW r \in DOMAIN printed'
        PROVE  ~Skipped(printed'[r]) /\ \E p \in 1 .. line : printed'[r] = result[p]
    <3>1. CASE r = Len(printed) + 1
      BY <3>1, <1>1, <1>5, <2>2
    <3>2. CASE r # Len(printed) + 1
      <4>1. r \in DOMAIN printed /\ printed'[r] = printed[r]
        BY <3>2, <1>1, <2>2
      <4>2. PICK p \in 1 .. line - 1 : printed[r] = result[p]
        BY <4>1 DEF IInv, Prefix
      <4>3. p \in 1 .. line /\ ~Skipped(printed[r])
        BY <4>1, <1>1 DEF IInv, Prefix
      <4> QED BY <4>1, <4>2, <4>3
    <3> QED BY <3>1, <3>2
  <2>6. Prefix'
    BY <1>1, <1>2, <2>4, <2>5 DEF Prefix, Skipped
  \* What was printed is from an earlier place of the result, so it is another message.
  <2>7. \A r \in 1 .. Len(printed) : printed[r] # new
    <3> SUFFICES ASSUME NEW r \in 1 .. Len(printed), printed[r] = new PROVE FALSE
      OBVIOUS
    <3>1. PICK p \in 1 .. line - 1 : printed[r] = result[p]
      BY <1>1 DEF IInv, Prefix
    <3>2. p \in DOMAIN result /\ line \in DOMAIN result /\ p # line
      BY <1>1
    <3>3. result[p] = result[line]
      BY <3>1
    <3> QED BY <3>2, <3>3 DEF IInv, Whole
  <2>8. Once'
    <3>1. ASSUME NEW p \in DOMAIN printed', NEW q \in DOMAIN printed', printed'[p] = printed'[q] PROVE p = q
      <4>1. ASSUME NEW j \in DOMAIN printed', j # Len(printed) + 1
            PROVE  j \in DOMAIN printed /\ printed'[j] = printed[j] /\ printed'[j] # new
        <5>1. j \in 1 .. Len(printed)
          BY <4>1, <1>1, <2>2
        <5> QED BY <5>1, <1>1, <2>2, <2>7
      <4>2. CASE p = Len(printed) + 1 \/ q = Len(printed) + 1
        BY <3>1, <4>1, <4>2, <2>2
      <4>3. CASE p # Len(printed) + 1 /\ q # Len(printed) + 1
        BY <3>1, <4>1, <4>3 DEF IInv, Once
      <4> QED BY <4>2, <4>3
    <3> QED BY <3>1 DEF Once
  <2>9. ASSUME NEW n \in DOMAIN msgs, Needs(new, n), ~Skipped(n), InPlace(new, n)
        PROVE  \E q \in 1 .. Len(printed) : printed[q] = n
    <3>1. PICK p \in DOMAIN result : result[p] = n
      BY <1>1 DEF IInv, Whole
    <3>2. new # n
      BY <2>9 DEF Needs, HasField
    <3>3. p < line
      <4>1. CASE new < n
        BY <4>1, <3>1, <2>9, <1>1 DEF IInv, Ordered, InPlace
      <4>2. CASE n < new
        BY <4>2, <3>1, <2>9, <1>1, <1>3 DEF IInv, Ordered, InPlace
      <4> QED BY <4>1, <4>2, <3>2, <1>1, <1>3
    <3>4. PICK r \in DOMAIN printed : printed[r] = result[p]
      <4>1. p \in 1 .. line - 1 /\ ~Skipped(result[p])
        BY <3>1, <3>3, <2>9, <1>1
      <4> QED BY <4>1 DEF IInv, Prefix
    <3> QED BY <3>1, <3>4, <1>1
  <2>10. ASSUME NEW p \in DOMAIN printed', NEW n \in DOMAIN msgs,
                Needs(printed'[p], n), ~Skipped(n), InPlace(printed'[p], n)
         PROVE  \E q \in 1 .. p - 1 : printed'[q] = n
    <3>1. CASE p = Len(printed) + 1
      <4>1. PICK q \in 1 .. Len(printed) : printed[q] = n
        BY <3>1, <2>2, <2>9, <2>10
      <4> QED BY <3>1, <4>1, <1>1, <2>2
    <3>2. CASE p # Len(printed) + 1
      <4>1. p \in DOMAIN printed /\ printed'[p] = printed[p]
        BY <3>2, <1>1, <2>2
      <4>2. PICK q \in 1 .. p - 1 : printed[q] = n
        BY <4>1, <2>10 DEF IInv, DefinedBefore
      <4>3. q \in 1 .. Len(printed) /\ printed'[q] = printed[q]
        <5>1. Len(printed) \in Nat /\ p \in 1 .. Len(printed)
          BY <4>1, <1>1
        <5>2. q \in 1 .. Len(printed)
          BY <5>1, <4>2
        <5> QED BY <5>2, <1>1, <2>2
      <4> QED BY <4>2, <4>3
    <3> QED BY <3>1, <3>2
  <2>11. \A m, n : /\ Needs(m, n)' <=> Needs(m, n)
                   /\ InPlace(m, n)' <=> InPlace(m, n)
                   /\ Skipped(n)' <=> Skipped(n)
    BY <1>2 DEF Needs, HasField, InPlace, Skipped, Finds
  <2>12. DefinedBefore'
    BY <1>2, <2>10, <2>11 DEF DefinedBefore
  <2> QED BY <2>3, <2>6, <2>8, <2>12 DEF IInv
<1> QED BY <1>4, <1>5

LEMMA StepInv == IInv /\ [Next]_vars => IInv'
<1> SUFFICES ASSUME IInv, [Next]_vars PROVE IInv'
  OBVIOUS
<1>1. CASE Look
  BY <1>1, LookInv
<1>2. CASE Insert
  BY <1>2, InsertInv
<1>3. CASE PrintClass
  BY <1>3, PrintInv
<1>4. CASE UNCHANGED vars
  <2>1. UNCHANGED <<msgs, idx, at, result, line, printed>>
    BY <1>4 DEF vars
  <2> QED BY <2>1 DEF IInv, Typed, Whole, Ordered, Passed, Prefix, Once, DefinedBefore,
                      Finds, Needs, HasField, InPlace, Skipped
<1> QED BY <1>1, <1>2, <1>3, <1>4 DEF Next

\* When all is done, what is printed are the messages that are not skipped.
LEMMA AllPrinted == IInv => EachOnce
<1> SUFFICES ASSUME IInv, Done PROVE \A m \in DOMAIN msgs : (~Skipped(m) <=> (\E p \in DOMAIN printed : printed[p] = m))
  BY DEF IInv, Once, EachOnce
<1>1. /\ Len(msgs) \in Nat /\ DOMAIN msgs = 1 .. Len(msgs) /\ idx = Len(msgs) + 1
      /\ Len(result) \in Nat /\ DOMAIN result = 1 .. Len(result) /\ line = Len(result) + 1
  BY FileLen DEF IInv, Typed, Done
<1>2. ASSUME NEW m \in DOMAIN msgs, ~Skipped(m) PROVE \E p \in DOMAIN printed : printed[p] = m
  <2>1. PICK q \in DOMAIN result : result[q] = m
    BY <1>1 DEF IInv, Whole
  <2> QED BY <1>1, <1>2, <2>1 DEF IInv, Prefix
<1>3. ASSUME NEW m \in DOMAIN msgs, NEW p \in DOMAIN printed, printed[p] = m PROVE ~Skipped(m)
  BY <1>3 DEF IInv, Prefix
<1> QED BY <1>2, <1>3

LEMMA Invariant == Spec => []IInv
<1> QED BY InitInv, StepInv, PTL DEF Spec

\* Whatever the messages of a file use, each class is printed once: sorting loses
\* and repeats none.
THEOREM PrintsEachOnce == Spec => []EachOnce
<1> QED BY Invariant, AllPrinted, PTL

\* For every file: a class stands behind those of its members that come later in
\* the file, and behind those that come earlier if no earlier message uses it.
THEOREM UsedBefore == Spec => []DefinedBefore
<1>1. IInv => DefinedBefore
  BY DEF IInv
<1> QED BY Invariant, <1>1, PTL

-----------------------------------------------------------------------------
(***************************************************************************)
(* json2cpp.                                                               *)
(***************************************************************************)
-----------------------------------------------------------------------------
(***************************************************************************)
(* Recursion over what a node links to.                                    *)
(***************************************************************************)
\* A set of natural numbers that is not empty has a least one.
LEMMA Least ==
    ASSUME NEW S \in SUBSET Nat, S # {}
    PROVE  \E m \in S : \A k \in S : m <= k
<1> DEFINE R == OpToRel(<, Nat)
<1>1. IsWellFoundedOn(R, Nat)
  BY NatLessThanWellFounded
<1>2. \A x, y \in Nat : x < y => <<x, y>> \in R
  BY DEF OpToRel
<1> HIDE DEF R
<1>3. PICK m \in S : \A k \in S : <<k, m>> \notin R
  BY <1>1, WFMin
<1>4. \A k \in S : ~(k < m)
  BY <1>2, <1>3
<1> QED BY <1>4

\* A set that has each number whose greater ones it has, has all.
LEMMA Backwards ==
    ASSUME NEW n \in Nat, NEW S, \A p \in 1 .. n : (\A q \in p + 1 .. n : q \in S) => p \in S
    PROVE  \A p \in 1 .. n : p \in S
<1> DEFINE T == {k \in Nat : k < n /\ n - k \notin S}
<1>1. SUFFICES ASSUME NEW p \in 1 .. n, p \notin S PROVE FALSE
  OBVIOUS
<1>2. T \in SUBSET Nat /\ n - p \in T
  <2>1. n - p \in Nat /\ n - p < n /\ n - (n - p) = p
    OBVIOUS
  <2> QED BY <2>1, <1>1
<1>3. PICK l \in T : \A k \in T : l <= k
  <2> HIDE DEF T
  <2> QED BY <1>2, Least
<1>4. PICK m \in 1 .. n : m = n - l /\ m \notin S
  OBVIOUS
<1>5. ASSUME NEW q \in m + 1 .. n PROVE q \in S
  <2>0. l \in Nat
    OBVIOUS
  <2>1. n - q \in Nat /\ n - q < n /\ n - q < l /\ n - (n - q) = q
    BY <1>4
  <2>2. n - q \notin T
    <3> HIDE DEF T
    <3> QED BY <1>3, <2>0, <2>1
  <2> QED BY <2>1, <2>2
<1> QED BY <1>4, <1>5

\* A value for each node, given by the node and the value of a later one, or that of 0.
Unrolls(f, q, n, A, B) == \A p \in q .. n : f[p] = A[p][f[B[p]]]

LEMMA Unroll ==
    ASSUME NEW V, NEW zero \in V, NEW n \in Nat, NEW A \in [1 .. n -> [V -> V]],
           NEW B \in [1 .. n -> 0 .. n], \A p \in 1 .. n : B[p] = 0 \/ B[p] > p
    PROVE  \E f \in [0 .. n -> V] : f[0] = zero /\ Unrolls(f, 1, n, A, B)
<1> DEFINE Is(f, q) == f \in [0 .. n -> V] /\ f[0] = zero /\ Unrolls(f, q, n, A, B)
           S == {p \in 1 .. n + 1 : \E f : Is(f, p)}
<1>1. n + 1 \in S
  <2>1. n + 1 .. n = {}
    OBVIOUS
  <2>2. Is([p \in 0 .. n |-> zero], n + 1)
    BY <2>1 DEF Unrolls
  <2> HIDE DEF Is
  <2> QED BY <2>2
<1>2. ASSUME NEW q \in 1 .. n, q + 1 \in S PROVE q \in S
  <2>1. PICK f : Is(f, q + 1)
    BY <1>2
  <2> DEFINE x == A[q][f[B[q]]]
             g == [f EXCEPT ![q] = x]
  <2>2. x \in V
    BY <2>1
  <2>3. g \in [0 .. n -> V] /\ g[0] = zero
    <3> HIDE DEF x
    <3> QED BY <2>1, <2>2
  <2>4. ASSUME NEW p \in q .. n PROVE g[p] = A[p][g[B[p]]]
    <3>1. B[p] # q /\ B[p] \in 0 .. n /\ p \in 1 .. n
      OBVIOUS
    <3>2. g[B[p]] = f[B[p]]
      <4> HIDE DEF x
      <4> QED BY <2>1, <3>1
    <3>3. CASE p = q
      <4>1. g[q] = x
        <5> HIDE DEF x
        <5> QED BY <2>1
      <4> HIDE DEF g
      <4> QED BY <3>2, <3>3, <4>1
    <3>4. CASE p # q
      <4>1. p \in q + 1 .. n
        BY <3>4
      <4>2. f[p] = A[p][f[B[p]]]
        BY <2>1, <4>1 DEF Unrolls
      <4>3. g[p] = f[p]
        <5> HIDE DEF x
        <5> QED BY <2>1, <3>4
      <4> HIDE DEF g
      <4> QED BY <3>2, <4>2, <4>3
    <3> QED BY <3>3, <3>4
  <2>5. Is(g, q)
    <3> HIDE DEF g
    <3> QED BY <2>3, <2>4 DEF Unrolls
  <2>6. q \in 1 .. n + 1
    OBVIOUS
  <2> HIDE DEF Is, g
  <2> QED BY <2>5, <2>6
<1>3. \A p \in 1 .. n : p \in S
  <2>1. ASSUME NEW p \in 1 .. n, \A q \in p + 1 .. n : q \in S PROVE p \in S
    <3>1. p + 1 \in S
      <4> HIDE DEF S
      <4> QED BY <1>1, <2>1
    <3> HIDE DEF S
    <3> QED BY <1>2, <3>1
  <2> HIDE DEF S
  <2> QED BY <2>1, Backwards
<1>4. 1 \in S
  <2>1. 1 \in 1 .. n \/ n + 1 = 1
    OBVIOUS
  <2> HIDE DEF S
  <2> QED BY <1>1, <1>3, <2>1
<1>5. \E f : Is(f, 1)
  <2> HIDE DEF Is
  <2> QED BY <1>4
<1> QED BY <1>5

-----------------------------------------------------------------------------
(***************************************************************************)
(* The nodes of a document.                                                *)
(***************************************************************************)
LEMMA LinksOK ==
    ASSUME IsDocument, NEW n \in DOMAIN nodes
    PROVE  /\ n \in Nat /\ Len(nodes) \in Nat /\ n \in 1 .. Len(nodes) /\ DOMAIN nodes = 1 .. Len(nodes)
           /\ nodes[n].child \in 0 .. Len(nodes) /\ (nodes[n].child = 0 \/ nodes[n].child > n)
           /\ nodes[n].next \in 0 .. Len(nodes) /\ (nodes[n].next = 0 \/ nodes[n].next > n)
           /\ nodes[n].child # 0 => nodes[nodes[n].child].prev = n
           /\ nodes[n].next # 0 => nodes[nodes[n].next].prev = n
           /\ nodes[n].child # 0 => nodes[n].child # nodes[n].next
<1>1. Len(nodes) \in Nat /\ DOMAIN nodes = 1 .. Len(nodes)
  BY DEF IsDocument
<1>2. ASSUME NEW c \in DOMAIN nodes, nodes[c].prev = n
      PROVE  c > n /\ (nodes[n].child = c) # (nodes[n].next = c)
  <2>1. c # 1
    BY <1>2 DEF IsDocument, NULL
  <2>2. nodes[c].prev \in 1 .. c - 1
    BY <2>1 DEF IsDocument
  <2>3. (nodes[nodes[c].prev].child = c) # (nodes[nodes[c].prev].next = c)
    BY <2>1 DEF IsDocument
  <2> QED BY <1>1, <1>2, <2>2, <2>3
<1>3. nodes[n].child # 0 => nodes[n].child \in DOMAIN nodes /\ nodes[nodes[n].child].prev = n
  BY DEF IsDocument, NULL
<1>4. nodes[n].next # 0 => nodes[n].next \in DOMAIN nodes /\ nodes[nodes[n].next].prev = n
  BY DEF IsDocument, NULL
<1>5. nodes[n].child # 0 => nodes[n].child > n /\ nodes[n].child # nodes[n].next
  BY <1>2, <1>3
<1>6. nodes[n].next # 0 => nodes[n].next > n
  BY <1>2, <1>4
<1> QED BY <1>1, <1>3, <1>4, <1>5, <1>6

LEMMA NodesLen == IsDocument => \E n \in Nat : n = Len(nodes) /\ DOMAIN nodes = 1 .. n
<1>1. IsDocument => Len(nodes) \in Nat /\ DOMAIN nodes = 1 .. Len(nodes)
  BY DEF IsDocument
<1> QED BY <1>1, Zenon

\* A node and those that its next links lead to.
LEMMA ItemsUnfold ==
    ASSUME IsDocument
    PROVE  /\ ItemsFrom[NULL] = {}
           /\ \A n \in DOMAIN nodes : ItemsFrom[n] = {n} \cup ItemsFrom[nodes[n].next]
<1>1. PICK n \in Nat : n = Len(nodes) /\ DOMAIN nodes = 1 .. n
  BY NodesLen
<1>2. \A p \in 1 .. n : nodes[p].next \in 0 .. n /\ (nodes[p].next = 0 \/ nodes[p].next > p)
  BY <1>1, LinksOK
<1> DEFINE V == SUBSET Nat
           A == [p \in 1 .. n |-> [x \in V |-> {p} \cup x]]
           B == [p \in 1 .. n |-> nodes[p].next]
           C(g) == [p \in 0 .. n |-> IF p = 0 THEN {} ELSE {p} \cup g[nodes[p].next]]
<1>3. A \in [1 .. n -> [V -> V]]
  OBVIOUS
<1>4. B \in [1 .. n -> 0 .. n] /\ \A p \in 1 .. n : B[p] = 0 \/ B[p] > p
  BY <1>2
<1>5. PICK f \in [0 .. n -> V] : f[0] = {} /\ Unrolls(f, 1, n, A, B)
  <2>1. {} \in V
    OBVIOUS
  <2> HIDE DEF A, B, V
  <2> QED BY <1>3, <1>4, <2>1, Unroll
<1>6. ASSUME NEW p \in 1 .. n PROVE f[p] = {p} \cup f[nodes[p].next]
  <2>1. f[p] = A[p][f[B[p]]]
    <3> HIDE DEF A, B
    <3> QED BY <1>5 DEF Unrolls
  <2>2. B[p] = nodes[p].next /\ f[nodes[p].next] \in V
    <3> HIDE DEF V
    <3> QED BY <1>2
  <2>3. A[p][f[nodes[p].next]] = {p} \cup f[nodes[p].next]
    BY <2>2
  <2> HIDE DEF A, B
  <2> QED BY <2>1, <2>2, <2>3
<1>7. f = C(f)
  <2>1. f = [p \in 0 .. n |-> f[p]]
    BY <1>5
  <2>2. \A p \in 0 .. n : p # 0 => p \in 1 .. n
    OBVIOUS
  <2> QED BY <1>5, <1>6, <2>1, <2>2
<1>8. ItemsFrom = CHOOSE g : g = C(g)
  BY <1>1 DEF ItemsFrom, NULL
<1>9. ItemsFrom = C(ItemsFrom)
  <2> HIDE DEF C
  <2> QED BY <1>7, <1>8
<1>10. /\ C(ItemsFrom)[0] = {}
       /\ \A p \in 1 .. n : C(ItemsFrom)[p] = {p} \cup ItemsFrom[nodes[p].next]
  <2>1. 0 \in 0 .. n /\ \A p \in 1 .. n : p \in 0 .. n /\ p # 0
    OBVIOUS
  <2> QED BY <2>1
<1> HIDE DEF C
<1> QED BY <1>1, <1>9, <1>10 DEF NULL

LEMMA TypeUnfold ==
    ASSUME IsDocument
    PROVE  /\ TypeFrom[NULL] = NULL
           /\ \A n \in DOMAIN nodes : TypeFrom[n] = IF nodes[n].type = "object" THEN n
                                                    ELSE IF nodes[n].type = "array" THEN TypeFrom[nodes[n].child]
                                                    ELSE NULL
<1>1. PICK n \in Nat : n = Len(nodes) /\ DOMAIN nodes = 1 .. n
  BY NodesLen
<1>2. \A p \in 1 .. n : nodes[p].child \in 0 .. n /\ (nodes[p].child = 0 \/ nodes[p].child > p)
  BY <1>1, LinksOK
<1> DEFINE V == Nat
           Is(p, x) == IF nodes[p].type = "object" THEN p ELSE IF nodes[p].type = "array" THEN x ELSE NULL
           A == [p \in 1 .. n |-> [x \in V |-> Is(p, x)]]
           B == [p \in 1 .. n |-> nodes[p].child]
           C(g) == [p \in 0 .. n |-> IF p = NULL THEN NULL
                                     ELSE IF nodes[p].type = "object" THEN p
                                     ELSE IF nodes[p].type = "array" THEN g[nodes[p].child]
                                     ELSE NULL]
<1>3. A \in [1 .. n -> [V -> V]]
  BY DEF NULL
<1>4. B \in [1 .. n -> 0 .. n] /\ \A p \in 1 .. n : B[p] = 0 \/ B[p] > p
  BY <1>2
<1>5. PICK f \in [0 .. n -> V] : f[0] = 0 /\ Unrolls(f, 1, n, A, B)
  <2>1. 0 \in V
    OBVIOUS
  <2> HIDE DEF A, B, V
  <2> QED BY <1>3, <1>4, <2>1, Unroll
<1>6. ASSUME NEW p \in 1 .. n PROVE f[p] = Is(p, f[nodes[p].child])
  <2>1. f[p] = A[p][f[B[p]]]
    <3> HIDE DEF A, B
    <3> QED BY <1>5 DEF Unrolls
  <2>2. B[p] = nodes[p].child /\ f[nodes[p].child] \in V
    <3> HIDE DEF V
    <3> QED BY <1>2
  <2>3. A[p][f[nodes[p].child]] = Is(p, f[nodes[p].child])
    <3> HIDE DEF Is
    <3> QED BY <2>2
  <2> HIDE DEF A, B, Is
  <2> QED BY <2>1, <2>2, <2>3
<1>7. f = C(f)
  <2>1. f = [p \in 0 .. n |-> f[p]]
    BY <1>5
  <2>2. \A p \in 0 .. n : f[p] = C(f)[p]
    <3>1. TAKE p \in 0 .. n
    <3>2. CASE p = 0
      BY <1>5, <3>2 DEF NULL
    <3>3. CASE p # 0
      <4>1. p \in 1 .. n
        BY <3>3
      <4> QED BY <1>6, <3>3, <4>1 DEF NULL
    <3> QED BY <3>2, <3>3
  <2>3. C(f) = [p \in 0 .. n |-> C(f)[p]]
    OBVIOUS
  <2> HIDE DEF C
  <2> QED BY <2>1, <2>2, <2>3
<1>8. TypeFrom = CHOOSE g : g = C(g)
  BY <1>1 DEF TypeFrom
<1>9. TypeFrom = C(TypeFrom)
  <2> HIDE DEF C
  <2> QED BY <1>7, <1>8
<1>10. C(TypeFrom)[0] = NULL /\ \A p \in 1 .. n : C(TypeFrom)[p] = Is(p, TypeFrom[nodes[p].child])
  <2>1. 0 \in 0 .. n /\ \A p \in 1 .. n : p \in 0 .. n /\ p # 0
    OBVIOUS
  <2> QED BY <2>1 DEF NULL
<1>11. TypeFrom[0] = NULL /\ \A p \in 1 .. n : TypeFrom[p] = Is(p, TypeFrom[nodes[p].child])
  <2> HIDE DEF C, Is
  <2> QED BY <1>9, <1>10
<1> QED BY <1>1, <1>11 DEF NULL

\* What a node's next links lead to comes after it.
LEMMA ItemsLater ==
    ASSUME IsDocument
    PROVE  \A n \in DOMAIN nodes : \A m \in ItemsFrom[n] : m \in DOMAIN nodes /\ m >= n
<1>1. PICK l \in Nat : l = Len(nodes) /\ DOMAIN nodes = 1 .. l
  BY NodesLen
<1> DEFINE S == {n \in 1 .. l : \A m \in ItemsFrom[n] : m \in 1 .. l /\ m >= n}
<1>2. ASSUME NEW p \in 1 .. l, \A q \in p + 1 .. l : q \in S PROVE p \in S
  <2>1. nodes[p].next = 0 \/ nodes[p].next \in p + 1 .. l
    BY <1>1, LinksOK
  <2>2. ASSUME NEW m \in ItemsFrom[p] PROVE m \in 1 .. l /\ m >= p
    <3>1. m = p \/ m \in ItemsFrom[nodes[p].next]
      BY <1>1, ItemsUnfold
    <3>2. CASE m = p
      BY <3>2
    <3>3. CASE m # p
      <4>1. nodes[p].next \in p + 1 .. l
        BY <2>1, <3>1, <3>3, ItemsUnfold DEF NULL
      <4> QED BY <1>2, <3>1, <3>3, <4>1
    <3> QED BY <3>2, <3>3
  <2> QED BY <2>2
<1>3. \A n \in 1 .. l : n \in S
  <2> HIDE DEF S
  <2> QED BY <1>2, Backwards
<1> QED BY <1>1, <1>3

\* Each of them but the node itself is the next of another one.
LEMMA ItemsLinked ==
    ASSUME IsDocument
    PROVE  \A n \in DOMAIN nodes : \A m \in ItemsFrom[n] :
               /\ m # n => nodes[m].prev \in ItemsFrom[n] /\ nodes[nodes[m].prev].next = m
               /\ HasKey(m) <=> HasKey(n)
               /\ ItemsFrom[nodes[m].next] \subseteq ItemsFrom[n]
<1>1. PICK l \in Nat : l = Len(nodes) /\ DOMAIN nodes = 1 .. l
  BY NodesLen
<1> DEFINE OK(n, m) == /\ m # n => nodes[m].prev \in ItemsFrom[n] /\ nodes[nodes[m].prev].next = m
                       /\ HasKey(m) <=> HasKey(n)
                       /\ ItemsFrom[nodes[m].next] \subseteq ItemsFrom[n]
           S == {n \in 1 .. l : \A m \in ItemsFrom[n] : OK(n, m)}
<1>2. ASSUME NEW p \in 1 .. l, \A q \in p + 1 .. l : q \in S PROVE p \in S
  <2>1. nodes[p].next = 0 \/ nodes[p].next \in p + 1 .. l
    BY <1>1, LinksOK
  <2>2. ItemsFrom[p] = {p} \cup ItemsFrom[nodes[p].next]
    BY <1>1, ItemsUnfold
  <2>3. ASSUME NEW m \in ItemsFrom[p] PROVE OK(p, m)
    <3>1. CASE m = p
      BY <2>2, <3>1
    <3>2. CASE m # p
      <4>1. PICK x \in p + 1 .. l : x = nodes[p].next /\ m \in ItemsFrom[x]
        BY <2>1, <2>2, <3>2, ItemsUnfold DEF NULL
      <4>2. OK(x, m)
        BY <1>2, <4>1
      <4>3. nodes[x].prev = p /\ (HasKey(x) <=> HasKey(p))
        BY <1>1, <4>1 DEF IsDocument, NULL
      <4>4. CASE m = x
        BY <2>2, <4>1, <4>2, <4>3, <4>4
      <4>5. CASE m # x
        BY <2>2, <4>1, <4>2, <4>3, <4>5
      <4> QED BY <4>4, <4>5
    <3> QED BY <3>1, <3>2
  <2> HIDE DEF OK
  <2> QED BY <2>3
<1>3. \A n \in 1 .. l : n \in S
  <2> HIDE DEF S
  <2> QED BY <1>2, Backwards
<1> QED BY <1>1, <1>3

Items(n) == ItemsFrom[nodes[n].child]
IsObject(n) == n \in DOMAIN nodes /\ nodes[n].type = "object"

\* The items of a node come after it, and have keys if it is an object.
LEMMA ItemsOK ==
    ASSUME IsDocument, NEW n \in DOMAIN nodes, NEW m \in Items(n)
    PROVE  /\ m \in DOMAIN nodes /\ m > n
           /\ HasKey(m) <=> nodes[n].type = "object"
           /\ nodes[n].type = "object" \/ nodes[n].type = "array"
           /\ ItemsFrom[m] \subseteq Items(n) /\ ItemsFrom[nodes[m].next] \subseteq Items(n)
           /\ \/ m = nodes[n].child /\ nodes[m].prev = n
              \/ nodes[m].prev \in Items(n) /\ nodes[nodes[m].prev].next = m
<1>1. nodes[n].child # NULL
  BY ItemsUnfold DEF Items
<1>2. PICK c \in DOMAIN nodes : c = nodes[n].child /\ c > n /\ nodes[c].prev = n /\ n \in Nat
  BY <1>1, LinksOK DEF NULL
<1>3. nodes[n].type \in {"object", "array"} /\ (HasKey(c) <=> nodes[n].type = "object")
  BY <1>1, <1>2 DEF IsDocument
<1>4. m \in ItemsFrom[c]
  BY <1>2 DEF Items
<1>5. m \in DOMAIN nodes /\ m >= c /\ m \in Nat /\ c \in Nat
  BY <1>4, ItemsLater, LinksOK
<1>6. /\ m # c => nodes[m].prev \in ItemsFrom[c] /\ nodes[nodes[m].prev].next = m
      /\ HasKey(m) <=> HasKey(c)
      /\ ItemsFrom[nodes[m].next] \subseteq ItemsFrom[c]
  BY <1>4, ItemsLinked
<1>7. ItemsFrom[m] \subseteq ItemsFrom[c]
  BY <1>4, <1>5, <1>6, ItemsUnfold
<1> QED BY <1>2, <1>3, <1>5, <1>6, <1>7 DEF Items

\* No node is an item of two.
LEMMA OneParent ==
    ASSUME IsDocument, NEW m \in DOMAIN nodes
    PROVE  \A n, o \in DOMAIN nodes : m \in Items(n) /\ m \in Items(o) => n = o
<1> DEFINE S == {k \in Nat : k \in DOMAIN nodes /\
                   ~\A n, o \in DOMAIN nodes : k \in Items(n) /\ k \in Items(o) => n = o}
<1>1. SUFFICES ASSUME S # {} PROVE FALSE
  BY LinksOK
<1>2. PICK k \in S : \A i \in S : k <= i
  <2>1. S \in SUBSET Nat
    OBVIOUS
  <2> HIDE DEF S
  <2> QED BY <1>1, <2>1, Least
<1>3. PICK n \in DOMAIN nodes : \E o \in DOMAIN nodes : k \in Items(n) /\ k \in Items(o) /\ n # o
  OBVIOUS
<1>4. PICK o \in DOMAIN nodes : k \in Items(n) /\ k \in Items(o) /\ n # o
  BY <1>3
<1>5. k \in DOMAIN nodes /\ k \in Nat
  OBVIOUS
<1> DEFINE p == nodes[k].prev
<1>6. /\ (k = nodes[n].child /\ p = n) \/ (p \in Items(n) /\ nodes[p].next = k)
      /\ (k = nodes[o].child /\ p = o) \/ (p \in Items(o) /\ nodes[p].next = k)
  BY <1>4, <1>5, ItemsOK
<1>7. p \in DOMAIN nodes => ~(nodes[p].child = k /\ nodes[p].next = k)
  BY <1>5, LinksOK
<1>8. p \in Items(n) /\ p \in Items(o) /\ nodes[p].next = k
  BY <1>4, <1>6, <1>7
<1>9. p \in DOMAIN nodes /\ p \in Nat /\ p < k
  <2>1. p \in DOMAIN nodes
    BY <1>8, ItemsOK
  <2> QED BY <1>5, <1>8, <2>1, LinksOK
<1>10. p \in S
  BY <1>4, <1>8, <1>9
<1> QED
  <2> HIDE DEF S, p
  <2> QED BY <1>2, <1>5, <1>9, <1>10
-----------------------------------------------------------------------------
(***************************************************************************)
(* The classes of an object's members.                                     *)
(***************************************************************************)
\* The name that a class is printed under is the key of the member.
LEMMA MemberOK ==
    ASSUME IsDocument, NEW n, IsObject(n), NEW m \in Items(n), ObjectOf(m) # NULL
    PROVE  /\ IsObject(ObjectOf(m)) /\ ObjectOf(m) > n /\ ObjectOf(m) # 1
           /\ HasKey(m) /\ TypeName(ObjectOf(m)) = nodes[m].key
           /\ \/ ObjectOf(m) = m
              \/ ~HasKey(ObjectOf(m)) /\ nodes[ObjectOf(m)].prev = m /\ nodes[m].type = "array"
<1>1. n \in DOMAIN nodes /\ n \in Nat /\ n >= 1
  BY LinksOK DEF IsObject
<1>2. m \in DOMAIN nodes /\ m > n /\ m \in Nat /\ HasKey(m)
  BY <1>1, ItemsOK, LinksOK DEF IsObject
<1>3. CASE nodes[m].type = "object"
  BY <1>1, <1>2, <1>3 DEF ObjectOf, IsObject, TypeName
<1>4. CASE nodes[m].type # "object"
  <2>1. PICK c : c = ObjectOf(m) /\ c = nodes[m].child /\ c # NULL /\ nodes[m].type = "array" /\ nodes[c].type = "object"
    BY <1>4 DEF ObjectOf
  <2>2. c \in DOMAIN nodes /\ c \in Nat /\ c > m /\ nodes[c].prev = m
    BY <1>2, <2>1, LinksOK DEF NULL
  <2>3. ~HasKey(c)
    BY <1>2, <1>4, <2>1 DEF IsDocument
  <2> QED BY <1>1, <1>2, <2>1, <2>2, <2>3 DEF IsObject, TypeName
<1> QED BY <1>3, <1>4

\* No class is that of two members.
LEMMA OneMember ==
    ASSUME IsDocument, NEW n, IsObject(n), NEW m \in Items(n), ObjectOf(m) # NULL,
           NEW o, IsObject(o), NEW i \in Items(o), ObjectOf(i) = ObjectOf(m)
    PROVE  m = i /\ n = o
<1>1. m = i
  BY MemberOK
<1>2. m \in DOMAIN nodes
  BY ItemsOK DEF IsObject
<1> QED BY <1>1, <1>2, OneParent DEF IsObject

\* The class in a member's type is the one that is collected for it, unless the
\* member is a vector of vectors.
LEMMA TypeCollected ==
    ASSUME IsDocument, NEW m \in DOMAIN nodes, ~InVectors(m)
    PROVE  TypeFrom[m] = ObjectOf(m)
<1>1. CASE nodes[m].type # "array"
  BY <1>1, TypeUnfold DEF ObjectOf
<1>2. CASE nodes[m].type = "array" /\ nodes[m].child = NULL
  BY <1>2, TypeUnfold DEF ObjectOf
<1>3. CASE nodes[m].type = "array" /\ nodes[m].child # NULL
  <2>1. nodes[m].child \in DOMAIN nodes /\ nodes[nodes[m].child].type # "array"
    BY <1>3 DEF InVectors, IsDocument
  <2> QED BY <1>3, <2>1, TypeUnfold DEF ObjectOf
<1> QED BY <1>1, <1>2, <1>3

\* Of that of a vector of vectors neither the object nor the array it is in has a key.
LEMMA TypeUnnamed ==
    ASSUME IsDocument
    PROVE  \A a \in DOMAIN nodes : nodes[a].type = "array" /\ ~HasKey(a) =>
               \/ TypeFrom[a] = NULL
               \/ /\ TypeFrom[a] \in DOMAIN nodes /\ TypeFrom[a] # 1 /\ ~HasKey(TypeFrom[a])
                  /\ ~HasKey(nodes[TypeFrom[a]].prev)
<1>1. PICK l \in Nat : l = Len(nodes) /\ DOMAIN nodes = 1 .. l
  BY NodesLen
<1> DEFINE OK(t) == \/ t = NULL
                    \/ t \in DOMAIN nodes /\ t # 1 /\ ~HasKey(t) /\ ~HasKey(nodes[t].prev)
           S == {a \in 1 .. l : nodes[a].type = "array" /\ ~HasKey(a) => OK(TypeFrom[a])}
<1>2. ASSUME NEW a \in 1 .. l, \A q \in a + 1 .. l : q \in S PROVE a \in S
  <2>1. SUFFICES ASSUME nodes[a].type = "array", ~HasKey(a) PROVE OK(TypeFrom[a])
    OBVIOUS
  <2>2. TypeFrom[a] = TypeFrom[nodes[a].child]
    BY <1>1, <2>1, TypeUnfold
  <2>3. CASE nodes[a].child = NULL
    BY <2>2, <2>3, TypeUnfold
  <2>4. CASE nodes[a].child # NULL
    <3>1. PICK c \in a + 1 .. l : c = nodes[a].child /\ nodes[c].prev = a
      BY <1>1, <2>4, LinksOK DEF NULL
    <3>2. ~HasKey(c) /\ c \in DOMAIN nodes /\ c # 1
      BY <1>1, <2>1, <2>4, <3>1 DEF IsDocument
    <3>3. CASE nodes[c].type = "array"
      BY <1>2, <2>2, <3>1, <3>2, <3>3
    <3>4. CASE nodes[c].type # "array"
      BY <2>1, <2>2, <3>1, <3>2, <3>4, TypeUnfold
    <3> QED BY <3>3, <3>4
  <2> QED BY <2>3, <2>4
<1>3. \A a \in 1 .. l : a \in S
  <2> HIDE DEF S
  <2> QED BY <1>2, Backwards
<1> QED BY <1>1, <1>3

-----------------------------------------------------------------------------
(***************************************************************************)
(* The invariant of the calls.                                             *)
(***************************************************************************)
IsMember(c, n) == c # NULL /\ \E m \in Items(n) : ObjectOf(m) = c

Calls == [function : {"getDescription", "getDescriptionChild"}, root : Nat, item : Nat, back : BOOLEAN]

CallOK(call) ==
    /\ IsObject(call.root)
    /\ call.item = NULL \/ call.item \in Items(call.root)
    /\ call.back => call.function = "getDescription" /\ call.item # NULL /\ ObjectOf(call.item) # NULL

\* The items that the loop of a call has ahead of it, with the one it is at, and behind.
Left(call) == ItemsFrom[call.item]
Behind(call) == Items(call.root) \ Left(call)

\* Each call is about a member of the object of the call around it.
Nested(outer, inner) ==
    \/ /\ outer.function = "getDescription" /\ inner.function = "getDescriptionChild"
       /\ outer.back /\ inner.root = ObjectOf(outer.item)
    \/ /\ outer.function = "getDescriptionChild" /\ inner.function = "getDescription"
       /\ \E m \in Behind(outer) : inner.root = ObjectOf(m)

StackOK ==
    /\ calls \in Seq(Calls)
    /\ \A k \in DOMAIN calls : CallOK(calls[k])
    /\ calls # <<>> => calls[1].function = "getDescription" /\ calls[1].root = 1
    /\ \A k \in 1 .. Len(calls) - 1 : Nested(calls[k], calls[k + 1])

Pushed == {vec_[q].node : q \in DOMAIN vec_}
AllPushed(n) == \A m \in Items(n) : ObjectOf(m) # NULL => ObjectOf(m) \in Pushed
Active == {calls[k].root : k \in DOMAIN calls}
\* The class that has been described and comes next.
Open == {c \in DOMAIN nodes : calls # <<>> /\ Running.back /\ c = ObjectOf(Item)}
Begun == Active \cup Pushed \cup Open

RootsOnce == /\ \A j, k \in DOMAIN calls : calls[j].root = calls[k].root => j = k
             /\ \A k \in DOMAIN calls : calls[k].root \notin Pushed

\* Nothing ahead is collected, nor being described but by the call itself;
AheadOK ==
    \A k \in DOMAIN calls : \A m \in Left(calls[k]) : ObjectOf(m) # NULL =>
        /\ ObjectOf(m) \notin Pushed
        /\ ObjectOf(m) \in Active => calls[k].back /\ m = calls[k].item
\* all that is behind is collected, but what the call inside is about.
BehindOK ==
    \A k \in DOMAIN calls : \A m \in Behind(calls[k]) : ObjectOf(m) # NULL =>
        \/ ObjectOf(m) \in Pushed
        \/ /\ calls[k].function = "getDescriptionChild" /\ k < Len(calls)
           /\ ObjectOf(m) = calls[k + 1].root
OpenOK == \A c \in DOMAIN nodes : c \in Open => c \notin Active /\ AllPushed(c)
\* Nothing is begun before the object that it is a member of.
Held == \A n \in DOMAIN nodes : \A c :
            IsObject(n) /\ n # 1 /\ IsMember(c, n) /\ c \in Begun => n \in Begun
EndOK == calls = <<>> => AllPushed(1)

CallsOK == StackOK /\ RootsOnce /\ AheadOK /\ BehindOK /\ OpenOK /\ Held /\ EndOK

\* What is collected.
Entry == [name : {nodes[n].key : n \in DOMAIN nodes} \cup {"Result"}, node : DOMAIN nodes]
NamesOK ==
    \A q \in DOMAIN vec_ : IF vec_[q].node = 1 THEN text
                           ELSE /\ vec_[q].name = TypeName(vec_[q].node)
                                /\ \E n : IsObject(n) /\ IsMember(vec_[q].node, n)
VecOK ==
    /\ vec_ \in Seq(Entry) /\ NamesOK
    /\ \A p, q \in DOMAIN vec_ : vec_[p].node = vec_[q].node => p = q
    /\ \A q \in DOMAIN vec_ : \A m \in Items(vec_[q].node) : ObjectOf(m) # NULL =>
           \E p \in 1 .. q - 1 : vec_[p].node = ObjectOf(m)

JInv == /\ IsDocument /\ CallsOK /\ VecOK
        /\ text \in BOOLEAN /\ (text => calls = <<>>)

-----------------------------------------------------------------------------
\* The nodes do not change, nor what is said of them alone.
LEMMA SameNodes ==
    ASSUME nodes' = nodes
    PROVE  /\ IsDocument' <=> IsDocument
           /\ ItemsFrom' = ItemsFrom /\ TypeFrom' = TypeFrom /\ Entry' = Entry
           /\ \A n : /\ (Items(n))' = Items(n)
                     /\ (ObjectOf(n))' = ObjectOf(n)
                     /\ (TypeName(n))' = TypeName(n)
                     /\ (IsObject(n))' <=> IsObject(n)
           /\ \A c, n : (IsMember(c, n))' <=> IsMember(c, n)
           /\ \A call : /\ (CallOK(call))' <=> CallOK(call)
                        /\ (Left(call))' = Left(call)
                        /\ (Behind(call))' = Behind(call)
           /\ \A outer, inner : (Nested(outer, inner))' <=> Nested(outer, inner)
<1>1. IsDocument' <=> IsDocument
  BY DEF IsDocument, HasKey
<1>2. ItemsFrom' = ItemsFrom
  BY DEF ItemsFrom
<1>3. TypeFrom' = TypeFrom
  BY DEF TypeFrom
<1>4. Entry' = Entry
  BY DEF Entry
<1>5. \A n : /\ (Items(n))' = Items(n)
             /\ (ObjectOf(n))' = ObjectOf(n)
             /\ (TypeName(n))' = TypeName(n)
             /\ (IsObject(n))' <=> IsObject(n)
  BY <1>2 DEF Items, ObjectOf, TypeName, IsObject, HasKey
<1>6. \A c, n : (IsMember(c, n))' <=> IsMember(c, n)
  BY <1>5 DEF IsMember
<1>7. \A call : /\ (CallOK(call))' <=> CallOK(call)
                /\ (Left(call))' = Left(call)
                /\ (Behind(call))' = Behind(call)
  BY <1>2, <1>5 DEF CallOK, Left, Behind
<1>8. \A outer, inner : (Nested(outer, inner))' <=> Nested(outer, inner)
  BY <1>5, <1>7 DEF Nested
<1> QED BY <1>1, <1>2, <1>3, <1>4, <1>5, <1>6, <1>7, <1>8

\* What the innermost call is at.
LEMMA RunningOK ==
    ASSUME IsDocument, StackOK, calls # <<>>
    PROVE  /\ Len(calls) \in Nat \ {0} /\ Len(calls) \in DOMAIN calls /\ DOMAIN calls = 1 .. Len(calls)
           /\ Running = calls[Len(calls)] /\ Running \in Calls /\ CallOK(Running)
           /\ IsObject(Running.root)
<1>1. Len(calls) \in Nat \ {0} /\ Len(calls) \in DOMAIN calls /\ DOMAIN calls = 1 .. Len(calls)
  BY DEF StackOK
<1>2. Running = calls[Len(calls)] /\ Running \in Calls /\ CallOK(Running)
  BY <1>1 DEF StackOK, Running
<1> QED BY <1>1, <1>2 DEF CallOK

LEMMA CallsLen ==
    ASSUME IsDocument, StackOK, calls # <<>>
    PROVE  \E l \in Nat \ {0} : l = Len(calls) /\ l \in DOMAIN calls /\ DOMAIN calls = 1 .. l
BY RunningOK, Zenon

LEMMA ItemOK ==
    ASSUME IsDocument, StackOK, calls # <<>>, Item # NULL
    PROVE  /\ Item \in Items(Running.root) /\ Item \in Left(Running)
           /\ Left(Running) = {Item} \cup ItemsFrom[nodes[Item].next]
           /\ Item \notin ItemsFrom[nodes[Item].next]
           /\ nodes[Item].next = NULL \/ nodes[Item].next \in Items(Running.root)
           /\ nodes[Item].next \in Nat
           /\ Left(Running) \subseteq Items(Running.root)
           /\ ObjectOf(Item) # NULL => IsMember(ObjectOf(Item), Running.root)
<1>1. Item \in Items(Running.root) /\ Running.root \in DOMAIN nodes
  BY RunningOK DEF CallOK, IsObject, Item
<1>2. Item \in DOMAIN nodes /\ ItemsFrom[Item] \subseteq Items(Running.root)
  BY <1>1, ItemsOK
<1>3. ItemsFrom[Item] = {Item} \cup ItemsFrom[nodes[Item].next]
  BY <1>2, ItemsUnfold
<1>4. /\ nodes[Item].next \in Nat /\ Item \in Nat
      /\ nodes[Item].next # NULL => nodes[Item].next \in DOMAIN nodes /\ nodes[Item].next > Item
  BY <1>2, LinksOK DEF NULL
<1>5. Item \notin ItemsFrom[nodes[Item].next]
  <2>1. CASE nodes[Item].next = NULL
    BY <2>1, ItemsUnfold
  <2>2. CASE nodes[Item].next # NULL
    BY <1>4, <2>2, ItemsLater
  <2> QED BY <2>1, <2>2
<1>6. nodes[Item].next # NULL => nodes[Item].next \in Items(Running.root)
  BY <1>2, <1>3, <1>4, ItemsUnfold
<1> QED BY <1>1, <1>2, <1>3, <1>4, <1>5, <1>6 DEF Left, Item, IsMember

\* A class is a member of one object, under one key.
LEMMA SameMember ==
    ASSUME IsDocument, StackOK, RootsOnce, NEW k \in DOMAIN calls, NEW m \in Items(calls[k].root),
           NEW j \in DOMAIN calls, NEW i \in Items(calls[j].root),
           ObjectOf(m) # NULL, ObjectOf(i) = ObjectOf(m)
    PROVE  m = i /\ k = j
<1>1. IsObject(calls[k].root) /\ IsObject(calls[j].root)
  BY DEF StackOK, CallOK
<1>2. m = i /\ calls[k].root = calls[j].root
  BY <1>1, OneMember
<1> QED BY <1>2 DEF RootsOnce

LEMMA LeftOK ==
    ASSUME IsDocument, StackOK, NEW k \in DOMAIN calls
    PROVE  Left(calls[k]) \subseteq Items(calls[k].root)
<1>1. CallOK(calls[k])
  BY DEF StackOK
<1>2. CASE calls[k].item = NULL
  BY <1>2, ItemsUnfold DEF Left
<1>3. CASE calls[k].item # NULL
  BY <1>1, <1>3, ItemsOK DEF CallOK, IsObject, Left
<1> QED BY <1>2, <1>3

-----------------------------------------------------------------------------
(***************************************************************************)
(* Collecting.                                                             *)
(***************************************************************************)
\* A class goes to the end, behind those of its members.
LEMMA PushOK ==
    ASSUME IsDocument, VecOK, nodes' = nodes, NEW e \in Entry, vec_' = Append(vec_, e),
           text => text', e.node \notin Pushed, AllPushed(e.node),
           IF e.node = 1 THEN text'
           ELSE e.name = TypeName(e.node) /\ \E n : IsObject(n) /\ IsMember(e.node, n)
    PROVE  /\ VecOK'
           /\ Pushed' = Pushed \cup {e.node}
<1>1. Len(vec_) \in Nat /\ DOMAIN vec_ = 1 .. Len(vec_) /\ vec_ \in Seq(Entry)
  BY DEF VecOK
<1>2. PICK l \in Nat : l = Len(vec_) /\ DOMAIN vec_ = 1 .. l
  BY <1>1, Zenon
<1>3. /\ vec_' \in Seq(Entry) /\ DOMAIN vec_' = 1 .. l + 1
      /\ vec_'[l + 1] = e /\ \A q \in 1 .. l : vec_'[q] = vec_[q]
  BY <1>1, <1>2
<1>4. l + 1 \in 1 .. l + 1 /\ \A q \in 1 .. l : q \in 1 .. l + 1 /\ q # l + 1
  BY <1>2
<1>5. \A q \in 1 .. l + 1 : q = l + 1 \/ q \in 1 .. l
  BY <1>2
<1>6. Pushed' = Pushed \cup {e.node}
  BY <1>2, <1>3, <1>4, <1>5 DEF Pushed
<1>7. \A q \in 1 .. l : vec_[q].node # e.node
  BY <1>2 DEF Pushed
<1>8. ASSUME NEW i \in DOMAIN vec_', NEW q \in DOMAIN vec_', vec_'[i].node = vec_'[q].node PROVE i = q
  <2>1. CASE i = l + 1 \/ q = l + 1
    BY <1>3, <1>5, <1>7, <1>8, <2>1
  <2>2. CASE i \in 1 .. l /\ q \in 1 .. l
    BY <1>2, <1>3, <1>8, <2>2 DEF VecOK
  <2> QED BY <1>3, <1>5, <2>1, <2>2
<1>9. ASSUME NEW q \in DOMAIN vec_'
      PROVE  IF vec_'[q].node = 1 THEN text'
             ELSE /\ vec_'[q].name = TypeName(vec_'[q].node)
                  /\ \E n : IsObject(n) /\ IsMember(vec_'[q].node, n)
  <2>1. CASE q = l + 1
    BY <1>3, <2>1
  <2>2. CASE q \in 1 .. l
    <3>1. vec_'[q] = vec_[q] /\ q \in DOMAIN vec_
      BY <1>2, <1>3, <2>2
    <3> QED BY <3>1 DEF VecOK, NamesOK
  <2> QED BY <1>3, <1>5, <2>1, <2>2
<1>10. ASSUME NEW q \in DOMAIN vec_', NEW m \in Items(vec_'[q].node), ObjectOf(m) # NULL
       PROVE  \E i \in 1 .. q - 1 : vec_'[i].node = ObjectOf(m)
  <2>1. CASE q = l + 1
    <3>1. PICK i \in DOMAIN vec_ : vec_[i].node = ObjectOf(m)
      BY <1>3, <1>10, <2>1 DEF AllPushed, Pushed
    <3>2. i \in 1 .. q - 1
      BY <1>2, <2>1, <3>1
    <3> QED BY <1>2, <1>3, <3>1, <3>2
  <2>2. CASE q \in 1 .. l
    <3>1. vec_'[q] = vec_[q] /\ q \in DOMAIN vec_
      BY <1>2, <1>3, <2>2
    <3>2. PICK i \in 1 .. q - 1 : vec_[i].node = ObjectOf(m)
      BY <1>10, <3>1 DEF VecOK
    <3>3. i \in 1 .. l
      BY <1>2, <2>2, <3>2
    <3> QED BY <1>3, <3>2, <3>3
  <2> QED BY <1>3, <1>5, <2>1, <2>2
<1>11. VecOK'
  <2>1. Entry' = Entry /\ \A n : (Items(n))' = Items(n) /\ (ObjectOf(n))' = ObjectOf(n)
                                 /\ (TypeName(n))' = TypeName(n) /\ ((IsObject(n))' <=> IsObject(n))
    BY SameNodes
  <2>2. \A c, n : (IsMember(c, n))' <=> IsMember(c, n)
    BY SameNodes
  <2>3. vec_' \in Seq(Entry')
    BY <1>3, <2>1
  <2>4. NamesOK'
    BY <1>9, <2>1, <2>2 DEF NamesOK
  <2>5. \A q \in DOMAIN vec_' : \A m \in Items(vec_'[q].node) : ObjectOf(m) # NULL =>
            \E i \in 1 .. q - 1 : vec_'[i].node = ObjectOf(m)
    BY <1>10
  <2>6. \A i, q \in DOMAIN vec_' : vec_'[i].node = vec_'[q].node => i = q
    BY <1>8
  <2> QED BY <2>1, <2>3, <2>4, <2>5, <2>6 DEF VecOK
<1> QED BY <1>6, <1>11

LEMMA NothingPushed ==
    ASSUME VecOK, nodes' = nodes, vec_' = vec_, text' = text
    PROVE  VecOK' /\ Pushed' = Pushed
<1>1. Entry' = Entry /\ \A n : (Items(n))' = Items(n) /\ (ObjectOf(n))' = ObjectOf(n)
                               /\ (TypeName(n))' = TypeName(n) /\ ((IsObject(n))' <=> IsObject(n))
  BY SameNodes
<1>2. \A c, n : (IsMember(c, n))' <=> IsMember(c, n)
  BY SameNodes
<1>3. VecOK'
  BY <1>1, <1>2 DEF VecOK, NamesOK
<1> QED BY <1>3 DEF Pushed

-----------------------------------------------------------------------------
(***************************************************************************)
(* The steps of the calls.                                                 *)
(***************************************************************************)
Passes ==
    \/ ObjectOf(Item) = NULL /\ Pushed' = Pushed
    \/ /\ ObjectOf(Item) # NULL /\ Running.back
       /\ Pushed' = Pushed \cup {ObjectOf(Item)}

\* To the next item: the class of this one is collected, if it has one.
LEMMA GoesOn ==
    ASSUME IsDocument, CallsOK, calls # <<>>, Item # NULL, nodes' = nodes,
           calls' = Top(GoOn), Passes
    PROVE  CallsOK'
<1> DEFINE c == ObjectOf(Item)
           next == nodes[Item].next
<1>0. StackOK /\ RootsOnce /\ AheadOK /\ BehindOK /\ OpenOK /\ Held /\ EndOK
  BY DEF CallsOK
<1>1. PICK l \in Nat \ {0} : l = Len(calls) /\ l \in DOMAIN calls /\ DOMAIN calls = 1 .. l
  BY <1>0, CallsLen
<1>2. /\ Running = calls[l] /\ Running \in Calls /\ CallOK(Running) /\ IsObject(Running.root)
      /\ Item = Running.item
  BY <1>0, <1>1, RunningOK DEF Item
<1>3. /\ Item \in Items(Running.root) /\ Item \in Left(Running)
      /\ Left(Running) = {Item} \cup ItemsFrom[next] /\ Item \notin ItemsFrom[next]
      /\ next = NULL \/ next \in Items(Running.root)
      /\ next \in Nat
      /\ Left(Running) \subseteq Items(Running.root)
  BY <1>0, ItemOK
<1>4. PICK x \in Calls : x = GoOn /\ x.function = Running.function /\ x.root = Running.root
                         /\ x.item = next /\ x.back = FALSE
  <2>1. GoOn \in Calls /\ GoOn.function = Running.function /\ GoOn.root = Running.root
    BY <1>2, <1>3 DEF GoOn, Calls
  <2>2. GoOn.item = next /\ GoOn.back = FALSE
    BY <1>2, <1>3 DEF GoOn, Calls
  <2> QED BY <2>1, <2>2
<1>5. /\ calls' \in Seq(Calls) /\ Len(calls') = l /\ DOMAIN calls' = 1 .. l
      /\ calls'[l] = x /\ \A k \in 1 .. l : k # l => calls'[k] = calls[k]
  BY <1>0, <1>1, <1>4 DEF Top, StackOK
<1>6. \A k \in 1 .. l : calls'[k].root = calls[k].root /\ calls'[k].function = calls[k].function
  BY <1>2, <1>4, <1>5
<1>7. Active' = Active
  BY <1>1, <1>5, <1>6 DEF Active
<1>8. calls' # <<>> /\ Running' = x /\ calls'[1].root = calls[1].root /\ calls'[1].function = calls[1].function
  BY <1>1, <1>5, <1>6 DEF Running
<1>9. StackOK'
  <2>1. CallOK(x)
    BY <1>2, <1>3, <1>4 DEF CallOK
  <2>2. ASSUME NEW k \in 1 .. l - 1 PROVE Nested(calls'[k], calls'[k + 1])
    <3>1. k \in 1 .. l /\ k # l /\ k + 1 \in 1 .. l
      BY <1>1
    <3>2. Nested(calls[k], calls[k + 1])
      BY <1>0, <1>1 DEF StackOK
    <3> QED BY <1>5, <1>6, <3>1, <3>2 DEF Nested
  <2>3. \A k \in 1 .. l : CallOK(calls'[k])
    BY <1>0, <1>1, <1>5, <2>1 DEF StackOK
  <2> QED BY <1>0, <1>5, <1>8, <2>2, <2>3, SameNodes DEF StackOK
<1>10. c # NULL => c \in DOMAIN nodes
  BY <1>2, <1>3, MemberOK DEF IsObject
<1>11. \A z \in Pushed' : z \in Pushed \/ (z = c /\ c # NULL /\ c \in Open /\ c \notin Active)
  BY <1>0, <1>10 DEF Passes, OpenOK, Open
<1>12. Pushed \subseteq Pushed'
  BY DEF Passes
<1>13. c # NULL => c \in Pushed'
  BY DEF Passes
<1>14. RootsOnce'
  <2>1. \A k \in 1 .. l : calls[k].root \notin Pushed'
    BY <1>0, <1>1, <1>11 DEF RootsOnce, Active
  <2> QED BY <1>0, <1>1, <1>5, <1>6, <2>1 DEF RootsOnce
<1>15. ASSUME NEW k \in DOMAIN calls', NEW m \in Left(calls'[k]), ObjectOf(m) # NULL
       PROVE  /\ ObjectOf(m) \notin Pushed'
              /\ ObjectOf(m) \in Active => calls'[k].back /\ m = calls'[k].item
  <2>1. m \in Left(calls[k]) /\ m \in Items(calls[k].root) /\ (k = l => m # Item)
    <3>1. CASE k = l
      BY <1>2, <1>3, <1>4, <1>5, <1>15, <3>1 DEF Left
    <3>2. CASE k # l
      BY <1>0, <1>1, <1>5, <1>15, <3>2, LeftOK
    <3> QED BY <3>1, <3>2
  <2>2. /\ ObjectOf(m) \notin Pushed
        /\ ObjectOf(m) \in Active => calls[k].back /\ m = calls[k].item
    BY <1>0, <1>1, <1>5, <1>15, <2>1 DEF AheadOK
  <2>3. ObjectOf(m) # c
    BY <1>0, <1>1, <1>2, <1>3, <1>5, <1>15, <2>1, SameMember
  <2>4. ObjectOf(m) \in Active => k # l
    BY <1>2, <2>1, <2>2
  <2> QED BY <1>5, <1>11, <2>2, <2>3, <2>4
<1>16. AheadOK'
  BY <1>7, <1>15, SameNodes DEF AheadOK
<1>17. ASSUME NEW k \in DOMAIN calls', NEW m \in Behind(calls'[k]), ObjectOf(m) # NULL
       PROVE  \/ ObjectOf(m) \in Pushed'
              \/ /\ calls'[k].function = "getDescriptionChild" /\ k < l
                 /\ ObjectOf(m) = calls'[k + 1].root
  <2>1. CASE m \in Behind(calls[k])
    <3>1. \/ ObjectOf(m) \in Pushed
          \/ calls[k].function = "getDescriptionChild" /\ k < l /\ ObjectOf(m) = calls[k + 1].root
      BY <1>0, <1>1, <1>5, <1>17, <2>1 DEF BehindOK
    <3>2. k \in 1 .. l /\ (k < l => k + 1 \in 1 .. l)
      BY <1>1, <1>5
    <3> QED BY <1>6, <1>12, <3>1, <3>2
  <2>2. CASE m \notin Behind(calls[k])
    <3>1. k = l
      BY <1>5, <1>17, <2>2
    <3>2. m = Item
      BY <1>2, <1>3, <1>4, <1>5, <1>17, <2>2, <3>1 DEF Behind, Left
    <3> QED BY <1>13, <1>17, <3>2
  <2> QED BY <2>1, <2>2
<1>18. BehindOK'
  BY <1>5, <1>17, SameNodes DEF BehindOK
<1>19. Open' = {}
  BY <1>4, <1>8 DEF Open
<1>20. OpenOK'
  BY <1>19 DEF OpenOK
<1>21. Begun' = Begun
  <2>1. Open \subseteq Pushed'
    BY <1>2, <1>13 DEF Open, CallOK
  <2> QED BY <1>7, <1>11, <1>12, <1>19, <2>1 DEF Begun
<1>22. Held'
  BY <1>0, <1>21, SameNodes DEF Held
<1>23. EndOK'
  BY <1>8 DEF EndOK
<1> QED BY <1>9, <1>14, <1>16, <1>18, <1>20, <1>22, <1>23 DEF CallsOK

Begins(call, inner) ==
    \/ /\ Running.function = "getDescription" /\ call = [Running EXCEPT !.back = TRUE]
       /\ inner = "getDescriptionChild"
    \/ /\ Running.function = "getDescriptionChild" /\ call = GoOn
       /\ inner = "getDescription"

\* Into the class of this item: it and its members have not been begun.
LEMMA GoesIn ==
    ASSUME IsDocument, CallsOK, calls # <<>>, Item # NULL, ObjectOf(Item) # NULL, ~Running.back,
           nodes' = nodes, Pushed' = Pushed,
           NEW x, NEW f, Begins(x, f), calls' = Append(Top(x), Call(f, ObjectOf(Item)))
    PROVE  CallsOK'
<1> DEFINE c == ObjectOf(Item)
           next == nodes[Item].next
           r == Running.root
           y == Call(f, c)
<1>0. StackOK /\ RootsOnce /\ AheadOK /\ BehindOK /\ OpenOK /\ Held /\ EndOK
  BY DEF CallsOK
<1>1. PICK l \in Nat \ {0} : l = Len(calls) /\ l \in DOMAIN calls /\ DOMAIN calls = 1 .. l
  BY <1>0, CallsLen
<1>2. /\ Running = calls[l] /\ Running \in Calls /\ CallOK(Running) /\ IsObject(r)
      /\ Item = Running.item
  BY <1>0, <1>1, RunningOK DEF Item
<1>3. /\ Item \in Items(r) /\ Item \in Left(Running)
      /\ Left(Running) = {Item} \cup ItemsFrom[next] /\ Item \notin ItemsFrom[next]
      /\ next = NULL \/ next \in Items(r)
      /\ next \in Nat
      /\ Left(Running) \subseteq Items(r)
      /\ IsMember(c, r)
  BY <1>0, ItemOK
<1>4. IsObject(c) /\ c > r /\ c # 1 /\ c \in DOMAIN nodes /\ c \in Nat /\ r \in Nat
  <2>1. IsObject(c) /\ c > r /\ c # 1
    BY <1>2, <1>3, MemberOK
  <2> QED BY <1>2, <2>1, LinksOK DEF IsObject
<1>5. x \in Calls /\ x.function = Running.function /\ x.root = r
  BY <1>2, <1>3 DEF Begins, GoOn, Calls
<1>6. \/ f = "getDescriptionChild" /\ x.function = "getDescription" /\ x.item = Item /\ x.back
      \/ f = "getDescription" /\ x.function = "getDescriptionChild" /\ x.item = next /\ ~x.back
  BY <1>2, <1>3, <1>5 DEF Begins, GoOn, Calls
<1>7. y \in Calls /\ y.function = f /\ y.root = c /\ y.item = nodes[c].child /\ ~y.back
  BY <1>4, <1>6, LinksOK DEF Call, Calls
<1> HIDE DEF c, next, r, y
<1>8. /\ calls' \in Seq(Calls) /\ Len(calls') = l + 1 /\ DOMAIN calls' = 1 .. l + 1
      /\ calls'[l + 1] = y /\ calls'[l] = x /\ \A k \in 1 .. l : k # l => calls'[k] = calls[k]
  <2>1. Top(x) \in Seq(Calls) /\ Len(Top(x)) = l
    BY <1>0, <1>1, <1>5 DEF Top, StackOK
  <2>2. \A k \in 1 .. l : Top(x)[k] = IF k = l THEN x ELSE calls[k]
    BY <1>0, <1>1, <1>5 DEF Top, StackOK
  <2>3. calls' = Append(Top(x), y)
    BY DEF c, y
  <2>4. l \in 1 .. l
    OBVIOUS
  <2> HIDE DEF Top
  <2> QED BY <1>7, <2>1, <2>2, <2>3, <2>4
<1>9. \A k \in 1 .. l : calls'[k].root = calls[k].root /\ calls'[k].function = calls[k].function
  BY <1>2, <1>5, <1>8 DEF r
<1>10. \A k \in 1 .. l + 1 : k = l + 1 \/ k \in 1 .. l
  OBVIOUS
<1>11. l + 1 \in 1 .. l + 1 /\ l \in 1 .. l /\ \A k \in 1 .. l : k \in 1 .. l + 1 /\ k # l + 1
  OBVIOUS
<1>12. Active' = Active \cup {c}
  BY <1>1, <1>7, <1>8, <1>9, <1>10, <1>11 DEF Active
<1>13. c \notin Pushed /\ c \notin Active /\ Open = {}
  BY <1>0, <1>1, <1>2, <1>3 DEF AheadOK, Open, c
<1>14. calls' # <<>> /\ Running' = y
  BY <1>8, <1>11 DEF Running
\* Nothing in the class has been begun, since the class has not.
<1>15. ASSUME NEW m \in Items(c), ObjectOf(m) # NULL
       PROVE  ObjectOf(m) \notin Pushed /\ ObjectOf(m) \notin Active /\ ObjectOf(m) # c
  <2>1. IsMember(ObjectOf(m), c)
    BY <1>15 DEF IsMember
  <2>2. ObjectOf(m) \notin Begun
    BY <1>0, <1>4, <1>13, <2>1 DEF Held, Begun
  <2>3. ObjectOf(m) > c
    BY <1>4, <1>15, MemberOK
  <2> QED BY <1>4, <2>2, <2>3 DEF Begun
<1>16. StackOK'
  <2>1. CallOK(x)
    BY <1>2, <1>3, <1>5, <1>6 DEF CallOK, c, r
  <2>2. CallOK(y)
    <3>1. nodes[c].child = NULL \/ nodes[c].child \in Items(c)
      BY <1>4, ItemsUnfold, LinksOK DEF Items, NULL
    <3> QED BY <1>4, <1>7, <3>1 DEF CallOK
  <2>3. Nested(x, y)
    <3>1. CASE f = "getDescriptionChild"
      BY <1>6, <1>7, <3>1 DEF Nested, c
    <3>2. CASE f = "getDescription"
      <4>1. Item \in Behind(x)
        BY <1>3, <1>5, <1>6, <3>2 DEF Behind, Left
      <4> QED BY <1>6, <1>7, <3>2, <4>1 DEF Nested, c
    <3> QED BY <1>6, <3>1, <3>2
  <2>4. ASSUME NEW k \in 1 .. l PROVE Nested(calls'[k], calls'[k + 1])
    <3>1. CASE k = l
      BY <1>8, <2>3, <3>1
    <3>2. CASE k # l
      <4>1. k \in 1 .. l - 1 /\ k + 1 \in 1 .. l
        BY <3>2
      <4>2. Nested(calls[k], calls[k + 1])
        BY <1>0, <1>1, <4>1 DEF StackOK
      <4> QED BY <1>8, <1>9, <3>2, <4>1, <4>2 DEF Nested
    <3> QED BY <3>1, <3>2
  <2>5. \A k \in 1 .. l + 1 : CallOK(calls'[k])
    BY <1>0, <1>1, <1>8, <1>10, <2>1, <2>2 DEF StackOK
  <2>6. calls'[1].function = "getDescription" /\ calls'[1].root = 1
    BY <1>0, <1>1, <1>9 DEF StackOK
  <2>7. (l + 1) - 1 = l
    OBVIOUS
  <2>8. \A k \in 1 .. Len(calls') - 1 : Nested(calls'[k], calls'[k + 1])
    BY <1>8, <2>4, <2>7
  <2>9. \A k \in DOMAIN calls' : CallOK(calls'[k])
    BY <1>8, <2>5
  <2> QED BY <1>8, <2>6, <2>8, <2>9, SameNodes DEF StackOK
<1>17. RootsOnce'
  <2>1. \A k \in 1 .. l : calls'[k].root # c
    BY <1>1, <1>9, <1>13 DEF Active
  <2>2. ASSUME NEW j \in 1 .. l, NEW k \in 1 .. l, calls'[j].root = calls'[k].root PROVE j = k
    <3>1. calls[j].root = calls[k].root
      BY <1>9, <2>2
    <3> QED BY <1>0, <1>1, <3>1 DEF RootsOnce
  <2>3. \A k \in 1 .. l + 1 : calls'[k].root \notin Pushed
    BY <1>0, <1>1, <1>7, <1>8, <1>9, <1>10, <1>13 DEF RootsOnce
  <2>4. calls'[l + 1].root = c
    BY <1>7, <1>8
  <2> QED BY <1>8, <1>10, <2>1, <2>2, <2>3, <2>4 DEF RootsOnce
<1>18. ASSUME NEW k \in DOMAIN calls', NEW m \in Left(calls'[k]), ObjectOf(m) # NULL
       PROVE  /\ ObjectOf(m) \notin Pushed
              /\ ObjectOf(m) \in Active' => calls'[k].back /\ m = calls'[k].item
  <2>1. CASE k = l + 1
    <3>1. m \in Items(c)
      BY <1>7, <1>8, <1>18, <2>1 DEF Left, Items
    <3> QED BY <1>12, <1>15, <1>18, <3>1
  <2>2. CASE k = l
    <3>1. m \in Left(calls[l])
      BY <1>2, <1>3, <1>6, <1>8, <1>18, <2>2 DEF Left
    <3>2. ObjectOf(m) \notin Pushed /\ ObjectOf(m) \notin Active
      BY <1>0, <1>1, <1>2, <1>18, <3>1 DEF AheadOK
    <3>3. ObjectOf(m) = c => m = Item
      BY <1>0, <1>1, <1>2, <1>3, <1>18, <3>1, SameMember DEF c, r
    <3>4. m = Item => calls'[k].back /\ m = calls'[k].item
      BY <1>3, <1>6, <1>8, <1>18, <2>2 DEF Left
    <3> QED BY <1>12, <3>2, <3>3, <3>4
  <2>3. CASE k # l + 1 /\ k # l
    <3>1. k \in DOMAIN calls /\ m \in Left(calls[k]) /\ calls'[k] = calls[k]
      BY <1>1, <1>8, <1>10, <1>18, <2>3
    <3>2. /\ ObjectOf(m) \notin Pushed
          /\ ObjectOf(m) \in Active => calls[k].back /\ m = calls[k].item
      BY <1>0, <1>18, <3>1 DEF AheadOK
    <3>3. m \in Items(calls[k].root)
      BY <1>0, <3>1, LeftOK
    <3>4. ObjectOf(m) # c
      BY <1>0, <1>1, <1>2, <1>3, <1>18, <2>3, <3>1, <3>3, SameMember DEF c, r
    <3> QED BY <1>12, <3>1, <3>2, <3>4
  <2> QED BY <2>1, <2>2, <2>3
<1>19. AheadOK'
  BY <1>18, SameNodes DEF AheadOK
<1>20. ASSUME NEW k \in DOMAIN calls', NEW m \in Behind(calls'[k]), ObjectOf(m) # NULL
       PROVE  \/ ObjectOf(m) \in Pushed
              \/ /\ calls'[k].function = "getDescriptionChild" /\ k < l + 1
                 /\ ObjectOf(m) = calls'[k + 1].root
  <2>1. CASE k = l + 1
    BY <1>7, <1>8, <1>20, <2>1 DEF Behind, Left, Items
  <2>2. CASE k = l /\ m = Item
    <3>1. Item \notin Left(x)
      BY <1>8, <1>20, <2>2 DEF Behind
    <3>2. x.item # Item
      BY <1>2, <1>3, <3>1 DEF Left
    <3>3. x.function = "getDescriptionChild"
      BY <1>6, <3>2
    <3>4. calls'[k].function = "getDescriptionChild" /\ calls'[k + 1].root = c
      BY <1>7, <1>8, <2>2, <3>3
    <3>5. k < l + 1
      BY <2>2
    <3> QED BY <2>2, <3>4, <3>5 DEF c
  <2>3. CASE k = l /\ m # Item
    <3>0. m \in Items(r) /\ m \notin Left(x)
      BY <1>5, <1>8, <1>20, <2>3 DEF Behind
    <3>1. m \notin Left(Running)
      <4>1. Left(x) = Left(Running) \/ Left(x) = ItemsFrom[next]
        BY <1>2, <1>6 DEF Left
      <4> QED BY <1>3, <2>3, <3>0, <4>1
    <3>2. m \in Behind(calls[l])
      BY <1>2, <3>0, <3>1 DEF Behind, r
    <3> QED BY <1>0, <1>1, <1>20, <3>2 DEF BehindOK
  <2>4. CASE k # l + 1 /\ k # l
    <3>1. k \in 1 .. l /\ k < l /\ k + 1 \in 1 .. l /\ m \in Behind(calls[k]) /\ calls'[k] = calls[k]
      BY <1>8, <1>10, <1>20, <2>4
    <3>2. \/ ObjectOf(m) \in Pushed
          \/ calls[k].function = "getDescriptionChild" /\ ObjectOf(m) = calls[k + 1].root
      BY <1>0, <1>1, <1>20, <3>1 DEF BehindOK
    <3>3. calls'[k + 1].root = calls[k + 1].root
      BY <1>9, <3>1
    <3>4. k < l + 1
      BY <3>1
    <3> QED BY <3>1, <3>2, <3>3, <3>4
  <2> QED BY <2>1, <2>2, <2>3, <2>4
<1>21. BehindOK'
  BY <1>8, <1>20, SameNodes DEF BehindOK
<1>22. Open' = {}
  BY <1>7, <1>14 DEF Open
<1>23. OpenOK'
  BY <1>22 DEF OpenOK
<1>24. Held'
  <2>1. Begun' = Begun \cup {c}
    BY <1>12, <1>13, <1>22 DEF Begun
  <2>2. ASSUME NEW n, IsObject(n), IsMember(c, n) PROVE n \in Begun
    <3>1. n = r
      BY <1>2, <1>3, <2>2, OneMember DEF IsMember
    <3> QED BY <1>1, <1>2, <3>1 DEF Begun, Active, r
  <2> QED BY <1>0, <2>1, <2>2, SameNodes DEF Held
<1>25. EndOK'
  BY <1>14 DEF EndOK
<1> QED BY <1>16, <1>17, <1>19, <1>21, <1>23, <1>24, <1>25 DEF CallsOK

\* Out of a class when there is nothing ahead: all its members' classes are collected.
LEMMA GoesOut ==
    ASSUME IsDocument, CallsOK, calls # <<>>, Item = NULL, nodes' = nodes,
           calls' = SubSeq(calls, 1, Len(calls) - 1),
           Pushed' = Pushed \cup (IF Running.function = "getDescription" /\ Len(calls) > 1
                                  THEN {Running.root} ELSE {})
    PROVE  CallsOK' /\ AllPushed(Running.root)
<1> DEFINE r == Running.root
<1>0. StackOK /\ RootsOnce /\ AheadOK /\ BehindOK /\ OpenOK /\ Held /\ EndOK
  BY DEF CallsOK
<1>1. PICK l \in Nat \ {0} : l = Len(calls) /\ l \in DOMAIN calls /\ DOMAIN calls = 1 .. l
  BY <1>0, CallsLen
<1>2. PICK h \in Nat : h = l - 1 /\ l = h + 1 /\ h + 1 \in 1 .. l
  OBVIOUS
<1>3. \A k \in 1 .. h : k \in 1 .. l /\ k # l /\ k + 1 \in 1 .. l /\ (k = h \/ k + 1 \in 1 .. h)
  BY <1>2
<1>4. \A k \in 1 .. l : k = l \/ k \in 1 .. h
  BY <1>2
<1>5. /\ Running = calls[l] /\ CallOK(Running) /\ IsObject(r) /\ r \in DOMAIN nodes
      /\ Running.item = NULL /\ ~Running.back
  BY <1>0, <1>1, RunningOK DEF Item, CallOK, IsObject
<1>6. /\ calls' \in Seq(Calls) /\ Len(calls') = h /\ DOMAIN calls' = 1 .. h
      /\ \A k \in 1 .. h : calls'[k] = calls[k]
  BY <1>0, <1>1, <1>2 DEF StackOK
<1>7. /\ Pushed \subseteq Pushed' /\ Pushed' \subseteq Pushed \cup {r}
      /\ Running.function = "getDescription" /\ h # 0 => r \in Pushed'
      /\ r \in Pushed' => r \in Pushed \/ Running.function = "getDescription"
  <2>1. Len(calls) > 1 <=> h # 0
    BY <1>1, <1>2
  <2> QED BY <2>1
<1> HIDE DEF r
<1>8. r \in Active /\ r \notin Pushed /\ Active = Active' \cup {r} /\ r \notin Active'
  <2>1. \A k \in 1 .. h : calls[k].root # r
    BY <1>0, <1>1, <1>3, <1>5 DEF RootsOnce, r
  <2>2. Active = Active' \cup {r}
    BY <1>1, <1>3, <1>4, <1>5, <1>6 DEF Active, r
  <2>3. r \notin Active'
    BY <1>6, <2>1 DEF Active
  <2>4. r \in Active /\ r \notin Pushed
    BY <1>0, <1>1, <1>5 DEF RootsOnce, Active, r
  <2> QED BY <2>2, <2>3, <2>4
<1>9. AllPushed(r)
  <2>1. Behind(calls[l]) = Items(r)
    BY <1>5, ItemsUnfold DEF Behind, Left, r
  <2>2. \A m \in Items(r) : ObjectOf(m) # NULL => ObjectOf(m) \in Pushed
    BY <1>0, <1>1, <2>1 DEF BehindOK
  <2> QED BY <2>2 DEF AllPushed
<1>10. h = 0 => r = 1 /\ calls' = <<>>
  BY <1>0, <1>1, <1>2, <1>5, <1>6 DEF StackOK, r
<1>11. h # 0 => /\ Nested(calls[h], calls[l])
                /\ calls' # <<>> /\ Running' = calls[h] /\ h \in 1 .. h
  <2>1. ASSUME h # 0 PROVE Nested(calls[h], calls[l])
    BY <1>0, <1>1, <1>2, <2>1 DEF StackOK
  <2>2. ASSUME h # 0 PROVE calls' # <<>> /\ Running' = calls[h] /\ h \in 1 .. h
    <3>1. h \in 1 .. h
      BY <2>2
    <3>2. Len(calls') = h /\ calls'[h] = calls[h]
      BY <1>6, <3>1
    <3>3. calls' # <<>>
      BY <2>2, <3>2
    <3> QED BY <3>1, <3>2, <3>3 DEF Running
  <2> QED BY <2>1, <2>2
\* The object of getDescriptionChild is that of the item of the call around it,
<1>12. calls[l].function = "getDescriptionChild" /\ h # 0 =>
           calls[h].back /\ r = ObjectOf(calls[h].item)
  BY <1>5, <1>11 DEF Nested, r
\* which is the only one to be in it.
<1>13. ASSUME NEW k \in 1 .. h, calls[k].back
       PROVE  calls[k + 1].function = "getDescriptionChild" /\ calls[k + 1].root = ObjectOf(calls[k].item)
  <2>1. Nested(calls[k], calls[k + 1])
    BY <1>0, <1>1, <1>2 DEF StackOK
  <2>2. calls[k].function = "getDescription"
    BY <1>0, <1>1, <1>3, <1>13 DEF StackOK, CallOK
  <2> QED BY <2>1, <2>2 DEF Nested
<1>14. StackOK'
  <2>1. \A k \in DOMAIN calls' : CallOK(calls'[k])
    BY <1>0, <1>1, <1>3, <1>6 DEF StackOK
  <2>2. calls' # <<>> => calls'[1].function = "getDescription" /\ calls'[1].root = 1
    <3>1. h # 0 => 1 \in 1 .. h
      OBVIOUS
    <3> QED BY <1>0, <1>6, <1>10, <3>1 DEF StackOK
  <2>3. ASSUME NEW k \in 1 .. h - 1 PROVE Nested(calls'[k], calls'[k + 1])
    <3>1. k \in 1 .. h /\ k + 1 \in 1 .. h /\ k \in 1 .. l - 1
      BY <1>2
    <3> QED BY <1>0, <1>1, <1>6, <3>1 DEF StackOK
  <2> QED BY <1>6, <2>1, <2>2, <2>3, SameNodes DEF StackOK
<1>15. RootsOnce'
  <2>1. ASSUME NEW k \in 1 .. h PROVE calls'[k].root \notin Pushed'
    <3>1. calls[k].root \in Active'
      BY <1>6 DEF Active
    <3>2. calls[k].root \notin Pushed
      BY <1>0, <1>1, <1>3 DEF RootsOnce
    <3> QED BY <1>6, <1>7, <1>8, <3>1, <3>2
  <2>2. ASSUME NEW j \in 1 .. h, NEW k \in 1 .. h, calls'[j].root = calls'[k].root PROVE j = k
    <3>1. calls[j].root = calls[k].root
      BY <1>6, <2>2
    <3> QED BY <1>0, <1>1, <1>3, <3>1 DEF RootsOnce
  <2> QED BY <1>6, <2>1, <2>2 DEF RootsOnce
<1>16. ASSUME NEW k \in DOMAIN calls', NEW m \in Left(calls'[k]), ObjectOf(m) # NULL
       PROVE  /\ ObjectOf(m) \notin Pushed'
              /\ ObjectOf(m) \in Active' => calls'[k].back /\ m = calls'[k].item
  <2>1. k \in 1 .. h /\ k \in DOMAIN calls /\ m \in Left(calls[k]) /\ calls'[k] = calls[k]
    BY <1>1, <1>3, <1>6, <1>16
  <2>2. /\ ObjectOf(m) \notin Pushed
        /\ ObjectOf(m) \in Active => calls[k].back /\ m = calls[k].item
    BY <1>0, <1>16, <2>1 DEF AheadOK
  <2>3. ASSUME ObjectOf(m) = r PROVE r \notin Pushed'
    <3>1. calls[k].back /\ m = calls[k].item
      BY <1>8, <2>2, <2>3
    <3>2. calls[k + 1].function = "getDescriptionChild" /\ calls[k + 1].root = r
      BY <1>13, <2>1, <2>3, <3>1
    <3>3. k + 1 = l
      BY <1>0, <1>1, <1>3, <1>5, <2>1, <3>2 DEF RootsOnce, r
    <3>4. Running.function = "getDescriptionChild"
      BY <1>5, <3>2, <3>3
    <3> QED BY <1>7, <1>8, <3>4
  <2> QED BY <1>7, <1>8, <2>1, <2>2, <2>3
<1>17. AheadOK'
  BY <1>16, SameNodes DEF AheadOK
<1>18. ASSUME NEW k \in DOMAIN calls', NEW m \in Behind(calls'[k]), ObjectOf(m) # NULL
       PROVE  \/ ObjectOf(m) \in Pushed'
              \/ /\ calls'[k].function = "getDescriptionChild" /\ k < h
                 /\ ObjectOf(m) = calls'[k + 1].root
  <2>1. k \in 1 .. h /\ k \in DOMAIN calls /\ m \in Behind(calls[k]) /\ calls'[k] = calls[k]
    BY <1>1, <1>3, <1>6, <1>18
  <2>2. \/ ObjectOf(m) \in Pushed
        \/ calls[k].function = "getDescriptionChild" /\ ObjectOf(m) = calls[k + 1].root
    BY <1>0, <1>18, <2>1 DEF BehindOK
  <2>3. CASE k = h
    <3>1. calls[k].function = "getDescriptionChild" => Running.function = "getDescription"
      BY <1>5, <1>11, <2>1, <2>3 DEF Nested
    <3>2. calls[k + 1].root = r /\ h # 0
      BY <1>2, <1>5, <2>1, <2>3 DEF r
    <3> QED BY <1>7, <2>2, <3>1, <3>2
  <2>4. CASE k # h
    <3>1. k + 1 \in 1 .. h /\ k < h
      BY <2>1, <2>4
    <3> QED BY <1>6, <1>7, <2>1, <2>2, <3>1
  <2> QED BY <2>3, <2>4
<1>19. BehindOK'
  <2>1. \A k \in DOMAIN calls' : \A m \in Behind(calls'[k]) : ObjectOf(m) # NULL =>
            \/ ObjectOf(m) \in Pushed'
            \/ /\ calls'[k].function = "getDescriptionChild" /\ k < Len(calls')
               /\ ObjectOf(m) = calls'[k + 1].root
    BY <1>6, <1>18
  <2> QED BY <2>1, SameNodes DEF BehindOK
<1>20. Open' \subseteq {r}
  <2>1. SUFFICES ASSUME NEW c \in Open' PROVE c = r
    OBVIOUS
  <2>2. calls' # <<>> /\ Running'.back /\ c = (ObjectOf(Item))'
    BY DEF Open
  <2>3. h # 0 /\ Item' = calls[h].item /\ calls[h].back
    BY <1>10, <1>11, <2>2 DEF Item
  <2>4. c = ObjectOf(calls[h].item)
    BY <2>2, <2>3 DEF ObjectOf
  <2>5. calls[h + 1].root = ObjectOf(calls[h].item)
    BY <1>11, <1>13, <2>3
  <2> QED BY <1>2, <1>5, <2>4, <2>5 DEF r
<1>21. OpenOK'
  <2>1. \A m \in Items(r) : ObjectOf(m) # NULL => ObjectOf(m) \in Pushed'
    BY <1>7, <1>9 DEF AllPushed
  <2>2. ASSUME NEW c, c \in Open' PROVE c \notin Active' /\ (AllPushed(c))'
    <3>1. c = r
      BY <1>20, <2>2
    <3>2. c \notin Active'
      BY <1>8, <3>1
    <3>3. \A m \in Items(c) : ObjectOf(m) # NULL => ObjectOf(m) \in Pushed'
      BY <2>1, <3>1
    <3> QED BY <3>2, <3>3, SameNodes DEF AllPushed
  <2> QED BY <2>2 DEF OpenOK
<1>22. Begun' \subseteq Begun
  BY <1>7, <1>8, <1>20 DEF Begun
<1>23. ASSUME NEW n \in Begun, n # 1 PROVE n \in Begun'
  <2>1. Open = {}
    BY <1>5 DEF Open
  <2>2. CASE n # r
    BY <1>7, <1>8, <2>1, <2>2 DEF Begun
  <2>3. CASE n = r
    <3>1. h # 0
      BY <1>10, <1>23, <2>3
    <3>2. CASE Running.function = "getDescription"
      BY <1>7, <2>3, <3>1, <3>2 DEF Begun
    <3>3. CASE Running.function = "getDescriptionChild"
      <4>1. calls[h].back /\ r = ObjectOf(calls[h].item)
        BY <1>5, <1>12, <3>1, <3>3
      <4>2. Item' = calls[h].item /\ Running' = calls[h] /\ calls' # <<>>
        BY <1>11, <3>1 DEF Item
      <4>3. (ObjectOf(Item))' = r
        BY <4>1, <4>2 DEF ObjectOf
      <4>4. r \in Open'
        BY <1>5, <4>1, <4>2, <4>3 DEF Open
      <4> QED BY <2>3, <4>4 DEF Begun
    <3>4. Running.function \in {"getDescription", "getDescriptionChild"}
      BY <1>0, <1>5, RunningOK DEF Calls
    <3> QED BY <3>2, <3>3, <3>4
  <2> QED BY <2>2, <2>3
<1>24. Held'
  BY <1>0, <1>22, <1>23, SameNodes DEF Held
<1>25. EndOK'
  <2>1. h # 0 => calls' # <<>>
    BY <1>11
  <2>2. h = 0 => \A m \in Items(1) : ObjectOf(m) # NULL => ObjectOf(m) \in Pushed'
    BY <1>7, <1>9, <1>10 DEF AllPushed
  <2> QED BY <2>1, <2>2, SameNodes DEF EndOK, AllPushed
<1>26. AllPushed(Running.root)
  BY <1>9 DEF r
<1> QED BY <1>14, <1>15, <1>17, <1>19, <1>21, <1>24, <1>25, <1>26 DEF CallsOK

-----------------------------------------------------------------------------
(***************************************************************************)
(* The invariant is kept.                                                  *)
(***************************************************************************)
\* What is collected of a member is a class under the name in the member's type.
LEMMA EntryOK ==
    ASSUME IsDocument, NEW n, IsObject(n), NEW m \in Items(n), ObjectOf(m) # NULL
    PROVE  LET e == Details(m, ObjectOf(m))
           IN  /\ e \in Entry /\ e.node = ObjectOf(m) /\ e.node # 1
               /\ e.name = TypeName(e.node) /\ IsMember(e.node, n)
               /\ Own(ObjectOf(m)) = <<e>>
<1>1. n \in DOMAIN nodes
  BY DEF IsObject
<1>2. m \in DOMAIN nodes /\ m # NULL
  <2>1. m \in DOMAIN nodes /\ m > n /\ n \in Nat
    BY <1>1, ItemsOK, LinksOK
  <2> QED BY <2>1, LinksOK DEF NULL
<1>3. /\ ObjectOf(m) \in DOMAIN nodes /\ ObjectOf(m) # 1
      /\ HasKey(m) /\ TypeName(ObjectOf(m)) = nodes[m].key
      /\ ObjectOf(m) = m \/ (~HasKey(ObjectOf(m)) /\ nodes[ObjectOf(m)].prev = m)
  BY MemberOK DEF IsObject
<1>4. IsMember(ObjectOf(m), n)
  BY DEF IsMember
<1>5. Own(ObjectOf(m)) = <<Details(m, ObjectOf(m))>>
  BY <1>2, <1>3 DEF Own
<1> QED BY <1>2, <1>3, <1>4, <1>5 DEF Details, Entry

LEMMA BuildStructInv == BuildStruct => JInv
<1> SUFFICES ASSUME BuildStruct PROVE JInv
  OBVIOUS
<1>1. IsDocument /\ calls = <<Call("getDescription", 1)>> /\ vec_ = <<>> /\ text = FALSE
  BY DEF BuildStruct
<1> DEFINE y == Call("getDescription", 1)
<1>2. 1 \in DOMAIN nodes /\ IsObject(1)
  <2>1. 1 \in DOMAIN nodes
    BY <1>1 DEF IsDocument
  <2> QED BY <1>1, <2>1 DEF IsDocument, IsObject
<1>3. y \in Calls /\ y.function = "getDescription" /\ y.root = 1 /\ y.item = nodes[1].child /\ ~y.back
  BY <1>1, <1>2, LinksOK DEF Call, Calls
<1> HIDE DEF y
<1>4. calls = <<y>>
  BY <1>1 DEF y
<1>5. Len(calls) = 1 /\ DOMAIN calls = {1} /\ calls[1] = y /\ calls \in Seq(Calls) /\ calls # <<>> /\ Running = y
  BY <1>3, <1>4 DEF Running
<1>6. Pushed = {} /\ DOMAIN vec_ = {} /\ vec_ \in Seq(Entry)
  BY <1>1 DEF Pushed
<1>7. Active = {1} /\ Open = {} /\ Begun = {1}
  BY <1>3, <1>5, <1>6 DEF Active, Open, Begun
<1>8. Left(y) = Items(1) /\ Behind(y) = {}
  BY <1>3 DEF Left, Behind, Items
<1>9. StackOK
  <2>1. nodes[1].child = NULL \/ nodes[1].child \in Items(1)
    BY <1>1, <1>2, ItemsUnfold, LinksOK DEF Items, NULL
  <2>2. CallOK(y)
    BY <1>2, <1>3, <2>1 DEF CallOK
  <2>3. 1 .. Len(calls) - 1 = {}
    BY <1>5
  <2> QED BY <1>3, <1>5, <2>2, <2>3 DEF StackOK
<1>10. RootsOnce /\ BehindOK /\ OpenOK /\ EndOK
  BY <1>5, <1>6, <1>7, <1>8 DEF RootsOnce, BehindOK, OpenOK, EndOK
<1>11. \A m \in Items(1) : ObjectOf(m) # NULL => ObjectOf(m) # 1
  BY <1>1, <1>2, MemberOK
<1>12. AheadOK
  BY <1>5, <1>6, <1>7, <1>8, <1>11 DEF AheadOK
<1>13. Held
  <2>1. SUFFICES ASSUME NEW n \in DOMAIN nodes, IsObject(n), n # 1, IsMember(1, n) PROVE FALSE
    BY <1>7 DEF Held
  <2> QED BY <1>1, <2>1, MemberOK DEF IsMember
<1>14. VecOK
  BY <1>6 DEF VecOK, NamesOK
<1> QED BY <1>1, <1>9, <1>10, <1>12, <1>13, <1>14 DEF JInv, CallsOK

LEMMA SkipInv == JInv /\ Skip => JInv'
<1> SUFFICES ASSUME JInv, Skip PROVE JInv'
  OBVIOUS
<1>1. /\ calls # <<>> /\ Item # NULL /\ ObjectOf(Item) = NULL /\ calls' = Top(GoOn)
      /\ nodes' = nodes /\ vec_' = vec_ /\ text' = text
  BY DEF Skip
<1>2. IsDocument /\ CallsOK /\ VecOK /\ text = FALSE
  BY <1>1 DEF JInv
<1>3. VecOK' /\ Pushed' = Pushed
  BY <1>1, <1>2, NothingPushed
<1>4. CallsOK'
  BY <1>1, <1>2, <1>3, GoesOn DEF Passes
<1> QED BY <1>1, <1>2, <1>3, <1>4, SameNodes DEF JInv

LEMMA DescribeChildInv == JInv /\ DescribeChild => JInv'
<1> SUFFICES ASSUME JInv, DescribeChild PROVE JInv'
  OBVIOUS
<1> DEFINE x == [Running EXCEPT !.back = TRUE]
           f == "getDescriptionChild"
<1>1. /\ calls # <<>> /\ Item # NULL /\ ObjectOf(Item) # NULL /\ ~Running.back
      /\ Running.function = "getDescription"
      /\ calls' = Append(Top(x), Call(f, ObjectOf(Item)))
      /\ nodes' = nodes /\ vec_' = vec_ /\ text' = text
  BY DEF DescribeChild, AtItem
<1>2. IsDocument /\ CallsOK /\ VecOK /\ text = FALSE
  BY <1>1 DEF JInv
<1>3. VecOK' /\ Pushed' = Pushed
  BY <1>1, <1>2, NothingPushed
<1>4. Begins(x, f)
  BY <1>1 DEF Begins
<1>5. CallsOK'
  <2> HIDE DEF x, f
  <2> QED BY <1>1, <1>2, <1>3, <1>4, GoesIn
<1> QED BY <1>1, <1>2, <1>3, <1>5, SameNodes DEF JInv

LEMMA DescribeInv == JInv /\ Describe => JInv'
<1> SUFFICES ASSUME JInv, Describe PROVE JInv'
  OBVIOUS
<1> DEFINE f == "getDescription"
<1>1. /\ calls # <<>> /\ Item # NULL /\ ObjectOf(Item) # NULL
      /\ Running.function = "getDescriptionChild"
      /\ calls' = Append(Top(GoOn), Call(f, ObjectOf(Item)))
      /\ nodes' = nodes /\ vec_' = vec_ /\ text' = text
  BY DEF Describe, AtItem
<1>2. IsDocument /\ CallsOK /\ VecOK /\ text = FALSE
  BY <1>1 DEF JInv
<1>3. VecOK' /\ Pushed' = Pushed
  BY <1>1, <1>2, NothingPushed
<1>4. Begins(GoOn, f)
  BY <1>1 DEF Begins
<1>5. ~Running.back
  BY <1>1, <1>2, RunningOK DEF CallsOK, CallOK
<1>6. CallsOK'
  <2> HIDE DEF f
  <2> QED BY <1>1, <1>2, <1>3, <1>4, <1>5, GoesIn
<1> QED BY <1>1, <1>2, <1>3, <1>6, SameNodes DEF JInv

LEMMA PushItemInv == JInv /\ PushItem => JInv'
<1> SUFFICES ASSUME JInv, PushItem PROVE JInv'
  OBVIOUS
<1> DEFINE c == ObjectOf(Item)
           e == Details(Item, c)
<1>1. /\ calls # <<>> /\ Item # NULL /\ Running.back
      /\ vec_' = Append(vec_, e) /\ calls' = Top(GoOn)
      /\ nodes' = nodes /\ text' = text
  BY DEF PushItem, AtItem
<1>2. IsDocument /\ CallsOK /\ VecOK /\ text = FALSE
  BY <1>1 DEF JInv
<1>3. StackOK /\ AheadOK /\ OpenOK
  BY <1>2 DEF CallsOK
<1>4. /\ Running = calls[Len(calls)] /\ Len(calls) \in DOMAIN calls /\ CallOK(Running)
      /\ IsObject(Running.root) /\ Item \in Items(Running.root) /\ Item \in Left(Running)
  BY <1>1, <1>2, <1>3, RunningOK, ItemOK
<1>5. c # NULL
  BY <1>1, <1>4 DEF CallOK, Item
<1>6. /\ e \in Entry /\ e.node = c /\ e.node # 1
      /\ e.name = TypeName(e.node) /\ IsMember(e.node, Running.root)
  BY <1>2, <1>4, <1>5, EntryOK
<1>7. c \notin Pushed
  BY <1>3, <1>4, <1>5 DEF AheadOK
<1>8. AllPushed(c)
  <2>1. c \in DOMAIN nodes
    BY <1>2, <1>4, <1>5, MemberOK DEF IsObject
  <2>2. c \in Open
    BY <1>1, <2>1 DEF Open
  <2> QED BY <1>3, <2>1, <2>2 DEF OpenOK
<1> HIDE DEF c, e
<1>9. VecOK' /\ Pushed' = Pushed \cup {c}
  BY <1>1, <1>2, <1>4, <1>6, <1>7, <1>8, PushOK
<1>10. Passes
  BY <1>1, <1>5, <1>9 DEF Passes, c
<1>11. CallsOK'
  BY <1>1, <1>2, <1>10, GoesOn
<1> QED BY <1>1, <1>2, <1>9, <1>11, SameNodes DEF JInv

LEMMA ReturnInv == JInv /\ Return => JInv'
<1> SUFFICES ASSUME JInv, Return PROVE JInv'
  OBVIOUS
<1> DEFINE r == Running.root
<1>1. /\ calls # <<>> /\ Item = NULL /\ calls' = SubSeq(calls, 1, Len(calls) - 1)
      /\ vec_' = IF Running.function = "getDescription" THEN vec_ \o Own(r) ELSE vec_
      /\ nodes' = nodes /\ text' = text
  BY DEF Return, AtEnd
<1>2. IsDocument /\ CallsOK /\ VecOK /\ text = FALSE
  BY <1>1 DEF JInv
<1>3. StackOK /\ RootsOnce /\ BehindOK
  BY <1>2 DEF CallsOK
<1>4. PICK l \in Nat \ {0} : l = Len(calls) /\ l \in DOMAIN calls /\ DOMAIN calls = 1 .. l
  BY <1>1, <1>2, <1>3, CallsLen
<1>5. Running = calls[l] /\ IsObject(r) /\ r \in DOMAIN nodes /\ r # NULL
  <2>1. Running = calls[l] /\ IsObject(r)
    BY <1>1, <1>2, <1>3, <1>4, RunningOK
  <2> QED BY <1>2, <2>1, LinksOK DEF IsObject, NULL
<1>6. r \notin Pushed
  BY <1>3, <1>4, <1>5 DEF RootsOnce
<1>7. AllPushed(r)
  <2>1. Behind(calls[l]) = Items(r)
    BY <1>1, <1>2, <1>5, ItemsUnfold DEF Behind, Left, Item
  <2>2. ~(l < l)
    OBVIOUS
  <2>3. \A m \in Items(r) : ObjectOf(m) # NULL => ObjectOf(m) \in Pushed
    BY <1>3, <1>4, <2>1, <2>2 DEF BehindOK
  <2> QED BY <2>3 DEF AllPushed
<1> DEFINE Collects == Running.function = "getDescription" /\ Len(calls) > 1
<1>8. VecOK' /\ Pushed' = Pushed \cup (IF Collects THEN {r} ELSE {})
  <2>1. CASE Running.function # "getDescription"
    BY <1>1, <1>2, <2>1, NothingPushed
  <2>2. CASE Running.function = "getDescription" /\ l = 1
    <3>1. Own(r) = <<>>
      BY <1>1, <1>2, <1>3, <1>5, <2>2 DEF StackOK, Own, IsDocument
    <3>2. vec_' = vec_
      <4>1. vec_ \in Seq(Entry)
        BY <1>2 DEF VecOK
      <4> HIDE DEF r
      <4> QED BY <1>1, <2>2, <3>1, <4>1
    <3> QED BY <1>1, <1>2, <1>4, <2>2, <3>2, NothingPushed
  <2>3. CASE Running.function = "getDescription" /\ l # 1
    <3>1. PICK h \in 1 .. l - 1 : h + 1 = l /\ h \in DOMAIN calls
      <4>1. l - 1 \in 1 .. l - 1 /\ (l - 1) + 1 = l /\ l - 1 \in 1 .. l
        BY <2>3
      <4> QED BY <1>4, <4>1
    <3>2. Nested(calls[h], calls[l])
      BY <1>3, <1>4, <3>1 DEF StackOK
    <3>3. PICK m \in Behind(calls[h]) : r = ObjectOf(m)
      BY <1>5, <2>3, <3>2 DEF Nested
    <3>4. m \in Items(calls[h].root) /\ IsObject(calls[h].root)
      BY <1>3, <3>1, <3>3 DEF Behind, StackOK, CallOK
    <3> DEFINE e == Details(m, r)
    <3>5. /\ e \in Entry /\ e.node = r /\ e.node # 1
          /\ e.name = TypeName(e.node) /\ IsMember(e.node, calls[h].root)
          /\ Own(r) = <<e>>
      BY <1>2, <1>5, <3>3, <3>4, EntryOK
    <3> HIDE DEF r, e
    <3>6. vec_' = Append(vec_, e)
      <4>1. vec_ \in Seq(Entry)
        BY <1>2 DEF VecOK
      <4> QED BY <1>1, <2>3, <3>5, <4>1
    <3>7. VecOK' /\ Pushed' = Pushed \cup {r}
      BY <1>1, <1>2, <1>6, <1>7, <3>4, <3>5, <3>6, PushOK
    <3>8. Len(calls) > 1
      BY <1>4, <2>3
    <3> QED BY <2>3, <3>7, <3>8
  <2> QED BY <2>1, <2>2, <2>3
<1>9. CallsOK'
  BY <1>1, <1>2, <1>8, GoesOut
<1> QED BY <1>1, <1>2, <1>8, <1>9, SameNodes DEF JInv

LEMMA ToTextInv == JInv /\ ToText => JInv'
<1> SUFFICES ASSUME JInv, ToText PROVE JInv'
  OBVIOUS
<1> DEFINE e == [name |-> "Result", node |-> 1]
<1>1. /\ calls = <<>> /\ ~text /\ vec_' = Append(vec_, e) /\ text' = TRUE
      /\ nodes' = nodes /\ calls' = calls
  BY DEF ToText
<1>2. IsDocument /\ CallsOK /\ VecOK
  BY DEF JInv
<1>3. /\ e \in Entry /\ e.node = 1
  BY <1>2 DEF Entry, IsDocument
<1>4. 1 \notin Pushed /\ AllPushed(1)
  <2>1. 1 \notin Pushed
    BY <1>1, <1>2 DEF VecOK, NamesOK, Pushed
  <2> QED BY <1>1, <1>2, <2>1 DEF CallsOK, EndOK
<1> HIDE DEF e
<1>5. VecOK' /\ Pushed' = Pushed \cup {1}
  BY <1>1, <1>2, <1>3, <1>4, PushOK
<1>6. CallsOK'
  <2>1. DOMAIN calls' = {} /\ Open = {} /\ Open' = {} /\ Active' = {} /\ Active = {}
    BY <1>1 DEF Open, Active
  <2>2. StackOK'
    BY <1>1, <1>2 DEF CallsOK, StackOK
  <2>3. RootsOnce' /\ AheadOK' /\ BehindOK' /\ OpenOK'
    BY <2>1 DEF RootsOnce, AheadOK, BehindOK, OpenOK
  <2>4. \A n : ~IsMember(1, n) \/ ~IsObject(n)
    BY <1>2, MemberOK DEF IsMember
  <2>5. Begun' = Begun \cup {1}
    BY <1>5, <2>1 DEF Begun
  <2>6. Held'
    BY <1>1, <1>2, <2>4, <2>5, SameNodes DEF Held, CallsOK
  <2>7. EndOK'
    <3>1. \A m \in Items(1) : ObjectOf(m) # NULL => ObjectOf(m) \in Pushed'
      BY <1>4, <1>5 DEF AllPushed
    <3> QED BY <1>1, <3>1, SameNodes DEF EndOK, AllPushed
  <2> QED BY <2>2, <2>3, <2>6, <2>7 DEF CallsOK
<1> QED BY <1>1, <1>2, <1>5, <1>6, SameNodes DEF JInv

LEMMA StutterInv == JInv /\ UNCHANGED jsonVars => JInv'
<1> SUFFICES ASSUME JInv, UNCHANGED jsonVars PROVE JInv'
  OBVIOUS
<1>1. nodes' = nodes /\ calls' = calls /\ vec_' = vec_ /\ text' = text
  BY DEF jsonVars
<1>2. IsDocument' /\ VecOK' /\ Pushed' = Pushed
  BY <1>1, NothingPushed, SameNodes DEF JInv
<1>3. Active' = Active /\ Open' = Open
  BY <1>1 DEF Active, Open, Item, Running, ObjectOf
<1>4. StackOK' /\ RootsOnce'
  BY <1>1, <1>2, SameNodes DEF JInv, CallsOK, StackOK, RootsOnce
<1>5. AheadOK'
  BY <1>1, <1>2, <1>3, SameNodes DEF JInv, CallsOK, AheadOK
<1>6. BehindOK'
  BY <1>1, <1>2, SameNodes DEF JInv, CallsOK, BehindOK
<1>7. OpenOK' /\ Held' /\ EndOK'
  BY <1>1, <1>2, <1>3, SameNodes DEF JInv, CallsOK, OpenOK, Held, EndOK, Begun, AllPushed
<1> QED BY <1>1, <1>2, <1>4, <1>5, <1>6, <1>7 DEF JInv, CallsOK

LEMMA CallStepInv == JInv /\ [NextCall]_jsonVars => JInv'
BY SkipInv, DescribeChildInv, PushItemInv, DescribeInv, ReturnInv, ToTextInv, StutterInv DEF NextCall

LEMMA CallsInvariant == Json2CppSpec => []JInv
<1>1. BuildStruct => JInv
  BY BuildStructInv
<1>2. JInv /\ [NextCall]_jsonVars => JInv'
  BY CallStepInv
<1> QED BY <1>1, <1>2, PTL DEF Json2CppSpec

-----------------------------------------------------------------------------
\* Each class that is collected is that of an object.
LEMMA EntryObject ==
    ASSUME IsDocument, VecOK, NEW q \in DOMAIN vec_
    PROVE  vec_[q] \in Entry /\ IsObject(vec_[q].node) /\ vec_[q].node # NULL
<1>1. vec_[q] \in Entry
  BY DEF VecOK
<1>2. \A e \in Entry : e.node \in DOMAIN nodes
  BY DEF Entry
<1>3. vec_[q].node \in DOMAIN nodes /\ vec_[q].node # NULL
  <2>1. vec_[q].node \in DOMAIN nodes
    BY <1>1, <1>2
  <2> QED BY <2>1, LinksOK DEF NULL
<1>4. IsObject(1)
  BY DEF IsObject, IsDocument
<1>5. vec_[q].node # 1 => IsObject(vec_[q].node)
  <2> SUFFICES ASSUME vec_[q].node # 1 PROVE IsObject(vec_[q].node)
    OBVIOUS
  <2>1. PICK n : IsObject(n) /\ IsMember(vec_[q].node, n)
    BY DEF VecOK, NamesOK
  <2> QED BY <2>1, MemberOK DEF IsMember
<1> QED BY <1>1, <1>3, <1>4, <1>5

\* A member that is a vector of vectors has no class.
LEMMA VectorsUnnamed ==
    ASSUME IsDocument, VecOK, NEW m \in DOMAIN nodes, InVectors(m), NEW q \in DOMAIN vec_
    PROVE  vec_[q].node # TypeFrom[m]
<1>1. PICK a : a = nodes[m].child /\ a \in DOMAIN nodes /\ nodes[a].type = "array" /\ ~HasKey(a)
  BY DEF InVectors, IsDocument
<1>2. TypeFrom[m] = TypeFrom[a]
  BY <1>1, TypeUnfold DEF InVectors
<1>3. \/ TypeFrom[a] = NULL
      \/ TypeFrom[a] # 1 /\ ~HasKey(TypeFrom[a]) /\ ~HasKey(nodes[TypeFrom[a]].prev)
  BY <1>1, TypeUnnamed
<1>4. vec_[q].node # NULL
  BY EntryObject
<1>5. CASE vec_[q].node = 1
  BY <1>2, <1>3, <1>5 DEF NULL
<1>6. CASE vec_[q].node # 1
  <2>1. PICK n : IsObject(n) /\ IsMember(vec_[q].node, n)
    BY <1>6 DEF VecOK, NamesOK
  <2>2. PICK i \in Items(n) : ObjectOf(i) = vec_[q].node /\ ObjectOf(i) # NULL
    BY <2>1 DEF IsMember
  <2>3. HasKey(vec_[q].node) \/ HasKey(nodes[vec_[q].node].prev)
    BY <2>1, <2>2, MemberOK
  <2> QED BY <1>2, <1>3, <1>4, <2>3
<1> QED BY <1>5, <1>6

LEMMA BeforeInv == JInv => MembersBefore
<1> SUFFICES ASSUME JInv PROVE MembersBefore
  OBVIOUS
<1>0. IsDocument /\ VecOK
  BY DEF JInv
<1>1. \A p, q \in DOMAIN vec_ : vec_[p].node = vec_[q].node => p = q
  BY <1>0 DEF VecOK
<1>2. ASSUME NEW p \in DOMAIN vec_, NEW n \in ItemsFrom[nodes[vec_[p].node].child]
      PROVE  n \in DOMAIN nodes /\ n \in Items(vec_[p].node)
  <2>1. vec_[p].node \in DOMAIN nodes
    BY <1>0, EntryObject DEF IsObject
  <2> QED BY <1>0, <1>2, <2>1, ItemsOK DEF Items
<1>3. ASSUME NEW p \in DOMAIN vec_, NEW n \in ItemsFrom[nodes[vec_[p].node].child],
             TypeFrom[n] # NULL, ~InVectors(n)
      PROVE  \E q \in 1 .. p - 1 : vec_[q] = [name |-> TypeName(TypeFrom[n]), node |-> TypeFrom[n]]
  <2>1. TypeFrom[n] = ObjectOf(n)
    BY <1>0, <1>2, <1>3, TypeCollected
  <2>2. PICK q \in 1 .. p - 1 : vec_[q].node = TypeFrom[n]
    BY <1>0, <1>2, <1>3, <2>1 DEF VecOK
  <2>3. q \in DOMAIN vec_ /\ vec_[q] \in Entry
    <3>1. q \in DOMAIN vec_
      BY <1>0 DEF VecOK
    <3> QED BY <1>0, <3>1, EntryObject
  <2>4. IsObject(vec_[p].node)
    BY <1>0, EntryObject
  <2>5. vec_[q].node # 1
    BY <1>0, <1>2, <1>3, <2>1, <2>2, <2>4, MemberOK
  <2>6. vec_[q].name = TypeName(TypeFrom[n])
    BY <1>0, <2>2, <2>3, <2>5 DEF VecOK, NamesOK
  <2>7. vec_[q] = [name |-> vec_[q].name, node |-> vec_[q].node]
    BY <2>3 DEF Entry
  <2> QED BY <2>2, <2>6, <2>7
<1>4. ASSUME NEW p \in DOMAIN vec_, NEW n \in ItemsFrom[nodes[vec_[p].node].child],
             InVectors(n), NEW q \in DOMAIN vec_
      PROVE  vec_[q].node # TypeFrom[n]
  BY <1>0, <1>2, <1>4, VectorsUnnamed
<1> QED BY <1>1, <1>3, <1>4 DEF MembersBefore

\* buildStruct prints the class of each object that a class asks for once, before
\* it, and under the name that the members have in their types; for a vector of
\* vectors it prints none: whatever the document is.
THEOREM MembersFirst == Json2CppSpec => []MembersBefore
<1>1. Json2CppSpec => []JInv
  BY CallsInvariant
<1>2. JInv => MembersBefore
  BY BeforeInv
<1> QED BY <1>1, <1>2, PTL

=============================================================================
