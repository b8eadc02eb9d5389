------------------------------ MODULE FoldFacts ------------------------------
(***************************************************************************)
(* What a fold over a sequence returns, for any step.  An INSTANCE with    *)
(* the step of a particular fold gives the theorems about that fold; the   *)
(* first argument of the step stands for whatever else it depends on.      *)
(***************************************************************************)
EXTENDS Naturals, Sequences, WellFoundedInduction, TLAPS

CONSTANT Step(_, _, _)   \* context, accumulator, element

\* Accumulate of Iteration.
Folded(p, base, seq) ==
    CHOOSE r \in
        { LET upTo[i \in 0..Len(s)] ==
                  IF i = 0 THEN base
                  ELSE CHOOSE x \in {Step(p, acc, s[i]) : acc \in {upTo[i - 1]}} : TRUE
          IN upTo[Len(s)] : s \in {seq} } : TRUE

\* u holds the accumulators after each element.
IsTrace(p, base, s, n, u) ==
    /\ u = [i \in 0..n |-> u[i]]
    /\ u[0] = base
    /\ \A i \in 1..n : u[i] = Step(p, u[i - 1], s[i])

Less == {ss \in Nat \X Nat : ss[1] < ss[2]}

\* A set of naturals with 0 and each successor holds all naturals up to n.
LEMMA UpTo ==
    ASSUME NEW n \in Nat, NEW S, 0 \in S, \A i \in 1..n : i - 1 \in S => i \in S
    PROVE  \A i \in 0..n : i \in S
<1> DEFINE D == {i \in 0..n : i \notin S}
<1> SUFFICES ASSUME D # {} PROVE FALSE
    OBVIOUS
<1>1. IsWellFoundedOn(OpToRel(<, Nat), Nat)
    BY NatLessThanWellFounded, Zenon
<1>2. IsWellFoundedOn(Less, Nat)
    BY <1>1, Zenon DEF OpToRel, Less
<1>3. PICK m \in D : \A k \in D : ~ (<<k, m>> \in Less)
  <2> D \in SUBSET Nat
      OBVIOUS
  <2> HIDE DEF D
  <2> QED
      BY <1>2, WFMin
<1>4. m \in 1..n /\ m - 1 \in 0..n /\ m - 1 < m
    BY <1>3
<1>5. m - 1 \notin D
  <2>1. <<m - 1, m>> \in Less
      BY <1>4 DEF Less
  <2> HIDE DEF D
  <2> QED
      BY <1>3, <2>1
<1> QED
    BY <1>3, <1>4, <1>5

LEMMA TraceExists ==
    ASSUME NEW p, NEW base, NEW s, NEW n \in Nat
    PROVE  \E u : IsTrace(p, base, s, n, u)
<1> DEFINE S == {k \in 0..n : \E u : IsTrace(p, base, s, k, u)}
<1>1. 0 \in S
  <2>1. IsTrace(p, base, s, 0, [i \in 0..0 |-> base])
      BY DEF IsTrace
  <2> QED
      BY <2>1
<1>2. ASSUME NEW k \in 1..n, k - 1 \in S PROVE k \in S
  <2>1. PICK u : IsTrace(p, base, s, k - 1, u)
      BY <1>2
  <2> DEFINE v == [i \in 0..k |-> IF i = k THEN Step(p, u[k - 1], s[k]) ELSE u[i]]
  <2>2. v[0] = base /\ v = [i \in 0..k |-> v[i]]
      BY <2>1 DEF IsTrace
  <2>3. ASSUME NEW i \in 1..k PROVE v[i] = Step(p, v[i - 1], s[i])
    <3>1. i \in 0..k /\ i - 1 \in 0..k /\ i - 1 # k
        OBVIOUS
    <3>2. v[i - 1] = u[i - 1]
        BY <3>1
    <3>3. CASE i = k
        BY <3>1, <3>2, <3>3
    <3>4. CASE i # k
      <4>1. i \in 1..(k - 1) /\ v[i] = u[i]
          BY <3>1, <3>4
      <4> QED
          BY <2>1, <3>2, <4>1 DEF IsTrace
    <3> QED
        BY <3>3, <3>4
  <2> HIDE DEF v
  <2>4. IsTrace(p, base, s, k, v)
      BY <2>2, <2>3 DEF IsTrace
  <2> QED
      BY <2>4
<1>3. \A i \in 0..n : i \in S
  <2> HIDE DEF S
  <2> QED
      BY <1>1, <1>2, UpTo
<1> QED
    BY <1>3

\* A fold is the last of its accumulators.
LEMMA FoldHasTrace ==
    ASSUME NEW p, NEW base, NEW s, Len(s) \in Nat
    PROVE  \E u : IsTrace(p, base, s, Len(s), u) /\ Folded(p, base, s) = u[Len(s)]
<1>1. PICK u : IsTrace(p, base, s, Len(s), u)
    BY TraceExists
<1> DEFINE upTo[i \in 0..Len(s)] ==
               IF i = 0 THEN base ELSE CHOOSE x \in {Step(p, acc, s[i]) : acc \in {upTo[i - 1]}} : TRUE
<1>2. \A a, c : (CHOOSE x \in {Step(p, acc, c) : acc \in {a}} : TRUE) = Step(p, a, c)
    OBVIOUS
<1>3. u = [i \in 0..Len(s) |->
               IF i = 0 THEN base ELSE CHOOSE x \in {Step(p, acc, s[i]) : acc \in {u[i - 1]}} : TRUE]
    BY <1>1, <1>2 DEF IsTrace
<1>4. upTo = [i \in 0..Len(s) |->
               IF i = 0 THEN base ELSE CHOOSE x \in {Step(p, acc, s[i]) : acc \in {upTo[i - 1]}} : TRUE]
    BY <1>3, Zenon
<1>5. Folded(p, base, s) = upTo[Len(s)]
    BY DEF Folded
<1>6. IsTrace(p, base, s, Len(s), upTo)
  <2> HIDE DEF upTo
  <2> QED
      BY <1>2, <1>4 DEF IsTrace
<1> QED
    BY <1>5, <1>6

\* Induction over the elements: from the set A[i - 1] each step leads to A[i].
LEMMA FoldRuns ==
    ASSUME NEW p, NEW T, NEW s \in Seq(T), NEW A, NEW base \in A[0],
           \A i \in 1..Len(s) : \A a \in A[i - 1] : Step(p, a, s[i]) \in A[i]
    PROVE  Folded(p, base, s) \in A[Len(s)]
<1>1. Len(s) \in Nat
    OBVIOUS
<1>2. PICK u : IsTrace(p, base, s, Len(s), u) /\ Folded(p, base, s) = u[Len(s)]
    BY <1>1, FoldHasTrace
<1> DEFINE S == {i \in 0..Len(s) : u[i] \in A[i]}
<1>3. 0 \in S
    BY <1>1, <1>2 DEF IsTrace
<1>4. ASSUME NEW i \in 1..Len(s), i - 1 \in S PROVE i \in S
  <2>1. u[i - 1] \in A[i - 1] /\ i \in 0..Len(s)
      BY <1>1, <1>4
  <2>2. u[i] = Step(p, u[i - 1], s[i])
      BY <1>2 DEF IsTrace
  <2>3. u[i] \in A[i]
      BY <2>1, <2>2
  <2> QED
      BY <2>1, <2>3
<1>5. \A i \in 0..Len(s) : i \in S
  <2> HIDE DEF S
  <2> QED
      BY <1>1, <1>3, <1>4, UpTo
<1> QED
    BY <1>1, <1>2, <1>5

\* A fold stays in a set if each of its steps does.
LEMMA FoldStays ==
    ASSUME NEW p, NEW T, NEW A, NEW s \in Seq(T), NEW base \in A,
           \A a \in A, x \in T : Step(p, a, x) \in A
    PROVE  Folded(p, base, s) \in A
<1> DEFINE B == [i \in 0..Len(s) |-> A]
<1>1. base \in B[0]
    OBVIOUS
<1>2. ASSUME NEW i \in 1..Len(s), NEW a \in B[i - 1] PROVE Step(p, a, s[i]) \in B[i]
  <2>1. s[i] \in T /\ a \in A /\ B[i] = A
      OBVIOUS
  <2> QED
      BY <2>1
<1>3. B[Len(s)] = A
    OBVIOUS
<1> HIDE DEF B
<1> QED
    BY <1>1, <1>2, <1>3, FoldRuns

\* A fold over at least one element ends where its steps lead.
LEMMA FoldEnds ==
    ASSUME NEW p, NEW T, NEW A, NEW B \in SUBSET A, NEW s \in Seq(T), s # << >>, NEW base \in A,
           \A a \in A, x \in T : Step(p, a, x) \in B
    PROVE  Folded(p, base, s) \in B
<1> DEFINE C == [i \in 0..Len(s) |-> IF i = 0 THEN A ELSE B]
<1>1. base \in C[0]
    OBVIOUS
<1>2. ASSUME NEW i \in 1..Len(s), NEW a \in C[i - 1] PROVE Step(p, a, s[i]) \in C[i]
  <2>1. s[i] \in T /\ i \in 0..Len(s) /\ i - 1 \in 0..Len(s) /\ i # 0
      OBVIOUS
  <2>2. a \in A /\ C[i] = B
      BY <2>1
  <2> QED
      BY <2>1, <2>2
<1>3. C[Len(s)] = B
    OBVIOUS
<1> HIDE DEF C
<1> QED
    BY <1>1, <1>2, <1>3, FoldRuns
=============================================================================
