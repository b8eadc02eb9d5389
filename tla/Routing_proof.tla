--------------------------- MODULE Routing_proof ---------------------------
(***************************************************************************)
(* Requests reach their handlers, and those that have none the closest     *)
(* fallback.  From the top: in every reachable state the components are    *)
(* those of the blueprints that have been processed, no blueprint is       *)
(* forgotten, and outer blueprints register before those nested in them;   *)
(* so the server is built from all blueprints, and a path router holds a   *)
(* leaf for each of its routes and for the prefix of each of its           *)
(* fallbacks; and of the patterns that match a path one comes before all   *)
(* others, the one that answers.                                           *)
(***************************************************************************)
EXTENDS Routing, FiniteSetTheorems, TLAPS

KeepKind(kind, acc, e) == IF e.kind = kind THEN Append(acc, e) ELSE acc
Listed == INSTANCE FoldFacts WITH Step <- KeepKind

-----------------------------------------------------------------------------
(* Patterns: Before is an order, and the closest match is the only one. *)

EndsOpen(p) == p.tail \in {"", NoTail}

LEMMA RankFacts ==
    ASSUME NEW p \in Patterns
    PROVE  /\ Len(p.segs) \in Nat
           /\ \A i \in Nat : Rank(p, i) \in Nat
           /\ \A i \in 1..Len(p.segs) : Rank(p, i) \in {1, 3} /\ (Rank(p, i) = 1 <=> p.segs[i] = Param)
           /\ \A i \in Nat : i > Len(p.segs) => Rank(p, i) \in {0, 2} /\ (Rank(p, i) = 0 <=> EndsOpen(p))
<1> DEFINE n == Len(p.segs)
<1>1. n \in Nat
    BY DEF Patterns
<1> HIDE DEF n
<1>2. ASSUME NEW i \in Nat
      PROVE  /\ i <= n /\ p.segs[i] = Param => Rank(p, i) = 1
             /\ i <= n /\ p.segs[i] # Param => Rank(p, i) = 3
             /\ ~(i <= n) /\ EndsOpen(p) => Rank(p, i) = 0
             /\ ~(i <= n) /\ ~EndsOpen(p) => Rank(p, i) = 2
    BY DEF Rank, n, EndsOpen
<1>3. /\ \A i \in Nat : Rank(p, i) \in Nat
      /\ \A i \in 1..n : Rank(p, i) \in {1, 3} /\ (Rank(p, i) = 1 <=> p.segs[i] = Param)
      /\ \A i \in Nat : i > n => Rank(p, i) \in {0, 2} /\ (Rank(p, i) = 0 <=> EndsOpen(p))
  <2>1. ASSUME NEW i \in Nat PROVE Rank(p, i) \in Nat
      BY <1>2
  <2>2. ASSUME NEW i \in 1..n PROVE Rank(p, i) \in {1, 3} /\ (Rank(p, i) = 1 <=> p.segs[i] = Param)
    <3>1. i <= n
        BY <1>1
    <3> QED
        BY <1>2, <3>1
  <2>3. ASSUME NEW i \in Nat, i > n PROVE Rank(p, i) \in {0, 2} /\ (Rank(p, i) = 0 <=> EndsOpen(p))
    <3>1. ~(i <= n)
        BY <1>1, <2>3
    <3> QED
        BY <1>2, <3>1
  <2> QED
      BY <2>1, <2>2, <2>3
<1> QED
    BY <1>1, <1>3 DEF n

LEMMA SameLength ==
    ASSUME NEW p \in Patterns, NEW q \in Patterns, SameRanks(p, q, Len(p.segs) + 1)
    PROVE  Len(p.segs) = Len(q.segs)
<1> DEFINE n == Len(p.segs)
           m == Len(q.segs)
<1>1. n \in Nat /\ m \in Nat
    BY RankFacts
<1>2. \A j \in 1..(n + 1) : Rank(p, j) = Rank(q, j)
    BY DEF SameRanks
<1>3. /\ \A i \in 1..n : Rank(p, i) \in {1, 3}
      /\ \A i \in 1..m : Rank(q, i) \in {1, 3}
      /\ \A i \in Nat : i > n => Rank(p, i) \in {0, 2}
      /\ \A i \in Nat : i > m => Rank(q, i) \in {0, 2}
    BY RankFacts
<1> HIDE DEF n, m
<1>4. ~(m > n)
  <2> SUFFICES ASSUME m > n PROVE FALSE
      OBVIOUS
  <2>1. n + 1 \in 1..m /\ n + 1 \in 1..(n + 1) /\ n + 1 \in Nat /\ n + 1 > n
      BY <1>1
  <2> QED
      BY <1>2, <1>3, <2>1
<1>5. ~(m < n)
  <2> SUFFICES ASSUME m < n PROVE FALSE
      OBVIOUS
  <2>1. m + 1 \in 1..n /\ m + 1 \in 1..(n + 1) /\ m + 1 \in Nat /\ m + 1 > m
      BY <1>1
  <2> QED
      BY <1>2, <1>3, <2>1
<1>6. n = m
    BY <1>1, <1>4, <1>5
<1> QED
    BY <1>6 DEF n, m

LEMMA BeforeIrreflexive ==
    ASSUME NEW p \in Patterns
    PROVE  ~Before(p, p)
<1>1. \A i \in 1..(Len(p.segs) + 1) : ~(Rank(p, i) > Rank(p, i))
  <2> DEFINE n == Len(p.segs)
  <2>1. n \in Nat /\ \A i \in Nat : Rank(p, i) \in Nat
      BY RankFacts
  <2> HIDE DEF n
  <2>2. \A i \in 1..(n + 1) : ~(Rank(p, i) > Rank(p, i))
      BY <2>1
  <2> QED
      BY <2>2 DEF n
<1>2. <<p.tail, p.tail>> \notin Begins
    BY BeginsAssumption
<1> QED
    BY <1>1, <1>2 DEF Before

LEMMA BeforeTransitive ==
    ASSUME NEW p \in Patterns, NEW q \in Patterns, NEW r \in Patterns, Before(p, q), Before(q, r)
    PROVE  Before(p, r)
<1> DEFINE n == Len(p.segs)
           m == Len(q.segs)
<1>1. /\ n \in Nat /\ m \in Nat
      /\ \A i \in Nat : Rank(p, i) \in Nat /\ Rank(q, i) \in Nat /\ Rank(r, i) \in Nat
  <2>1. n \in Nat /\ \A i \in Nat : Rank(p, i) \in Nat
      BY RankFacts
  <2>2. m \in Nat /\ \A i \in Nat : Rank(q, i) \in Nat
      BY RankFacts
  <2>3. \A i \in Nat : Rank(r, i) \in Nat
      BY RankFacts
  <2> QED
      BY <2>1, <2>2, <2>3
<1> HIDE DEF n, m
<1>2. ASSUME NEW i \in 1..(n + 1), Rank(p, i) > Rank(q, i), SameRanks(p, q, i - 1),
             NEW j \in 1..(m + 1), Rank(q, j) > Rank(r, j), SameRanks(q, r, j - 1)
      PROVE  Before(p, r)
  <2>1. CASE i <= j
    <3>1. Rank(p, i) > Rank(r, i)
      <4>1. CASE i = j
          BY <1>1, <1>2, <4>1
      <4>2. CASE i < j
        <5>1. i \in 1..(j - 1)
            BY <1>1, <4>2
        <5> QED
            BY <1>1, <1>2, <5>1 DEF SameRanks
      <4> QED
          BY <1>1, <2>1, <4>1, <4>2
    <3>2. SameRanks(p, r, i - 1)
      <4>1. \A k \in 1..(i - 1) : k \in 1..(j - 1)
          BY <1>1, <2>1
      <4> QED
          BY <1>2, <4>1 DEF SameRanks
    <3> QED
        BY <3>1, <3>2 DEF Before, n
  <2>2. CASE j < i
    <3>1. j \in 1..(i - 1) /\ j \in 1..(n + 1)
        BY <1>1, <2>2
    <3>2. Rank(p, j) > Rank(r, j)
        BY <1>1, <1>2, <3>1 DEF SameRanks
    <3>3. SameRanks(p, r, j - 1)
      <4>1. \A k \in 1..(j - 1) : k \in 1..(i - 1)
          BY <1>1, <2>2
      <4> QED
          BY <1>2, <4>1 DEF SameRanks
    <3> QED
        BY <3>1, <3>2, <3>3 DEF Before, n
  <2> QED
      BY <1>1, <2>1, <2>2
<1>3. ASSUME NEW i \in 1..(n + 1), Rank(p, i) > Rank(q, i), SameRanks(p, q, i - 1), SameRanks(q, r, m + 1)
      PROVE  Before(p, r)
  <2>1. i <= m + 1
    <3> SUFFICES ASSUME i > m + 1 PROVE FALSE
        BY <1>1
    <3>1. m + 1 \in 1..(i - 1) /\ m + 1 \in 1..n
        BY <1>1
    <3>2. Rank(p, m + 1) \in {1, 3}
        BY <3>1, RankFacts DEF n
    <3>4. Rank(q, m + 1) \in {0, 2}
      <4>1. m + 1 \in Nat /\ m + 1 > m
          BY <1>1
      <4> QED
          BY <4>1, RankFacts DEF m
    <3>3. Rank(p, m + 1) = Rank(q, m + 1)
        BY <1>3, <3>1 DEF SameRanks
    <3> QED
        BY <3>2, <3>3, <3>4
  <2>2. \A k \in 1..i : Rank(q, k) = Rank(r, k)
    <3>1. \A k \in 1..i : k \in 1..(m + 1)
        BY <1>1, <2>1
    <3> QED
        BY <1>3, <3>1 DEF SameRanks
  <2>3. Rank(p, i) > Rank(r, i) /\ SameRanks(p, r, i - 1)
      BY <1>1, <1>3, <2>2 DEF SameRanks
  <2> QED
      BY <2>3 DEF Before, n
<1>4. ASSUME SameRanks(p, q, n + 1), NEW j \in 1..(m + 1), Rank(q, j) > Rank(r, j), SameRanks(q, r, j - 1)
      PROVE  Before(p, r)
  <2>1. n = m
      BY <1>4, SameLength DEF n, m
  <2>2. Rank(p, j) > Rank(r, j) /\ SameRanks(p, r, j - 1)
      BY <1>1, <1>4, <2>1 DEF SameRanks
  <2> QED
      BY <2>1, <2>2 DEF Before, n
<1>5. ASSUME SameRanks(p, q, n + 1), SameRanks(q, r, m + 1), <<q.tail, p.tail>> \in Begins, <<r.tail, q.tail>> \in Begins
      PROVE  Before(p, r)
  <2>1. n = m
      BY <1>5, SameLength DEF n, m
  <2>2. SameRanks(p, r, n + 1)
      BY <1>5, <2>1 DEF SameRanks
  <2>3. <<r.tail, p.tail>> \in Begins
    <3>1. \A x, y \in Begins : x[2] = y[1] => <<x[1], y[2]>> \in Begins
        BY BeginsAssumption
    <3> QED
        BY <1>5, <3>1
  <2> QED
      BY <2>2, <2>3 DEF Before, n
<1> QED
    BY <1>2, <1>3, <1>4, <1>5 DEF Before, n, m

LEMMA FirstDifference ==
    ASSUME NEW p \in Patterns, NEW q \in Patterns, ~Before(p, q), ~Before(q, p),
           Len(p.segs) <= Len(q.segs)
    PROVE  SameRanks(p, q, Len(p.segs) + 1)
<1> DEFINE n == Len(p.segs) + 1
           m == Len(q.segs) + 1
<1>1. n \in Nat /\ m \in Nat /\ n <= m
  <2>1. Len(p.segs) \in Nat /\ Len(q.segs) \in Nat
      BY RankFacts
  <2> QED
      BY <2>1
<1>2. \A i \in Nat : Rank(p, i) \in Nat /\ Rank(q, i) \in Nat
    BY RankFacts
<1>3. /\ \A i \in 1..n : ~(Rank(p, i) > Rank(q, i) /\ SameRanks(p, q, i - 1))
      /\ \A i \in 1..m : ~(Rank(q, i) > Rank(p, i) /\ SameRanks(q, p, i - 1))
    BY DEF Before
<1> HIDE DEF n, m
<1> DEFINE S == {k \in 0..n : SameRanks(p, q, k)}
<1>4. 0 \in S
  <2>1. \A j \in 1..0 : FALSE
      OBVIOUS
  <2> QED
      BY <1>1, <2>1 DEF SameRanks
<1>5. ASSUME NEW i \in 1..n, i - 1 \in S PROVE i \in S
  <2>1. SameRanks(p, q, i - 1)
      BY <1>5
  <2>2. SameRanks(q, p, i - 1)
      BY <2>1 DEF SameRanks
  <2>3. i \in 1..m /\ i \in Nat /\ i \in 0..n
      BY <1>1
  <2>4. Rank(p, i) = Rank(q, i)
    <3>1. ~(Rank(p, i) > Rank(q, i)) /\ ~(Rank(q, i) > Rank(p, i))
        BY <1>3, <2>1, <2>2, <2>3
    <3> QED
        BY <1>2, <2>3, <3>1
  <2>5. \A j \in 1..i : j = i \/ j \in 1..(i - 1)
      BY <2>3
  <2>6. SameRanks(p, q, i)
      BY <2>1, <2>4, <2>5 DEF SameRanks
  <2> QED
      BY <2>3, <2>6
<1>6. \A i \in 0..n : i \in S
  <2> HIDE DEF S
  <2> QED
      BY <1>1, <1>4, <1>5, Listed!UpTo
<1>7. n \in 0..n
    BY <1>1
<1>8. SameRanks(p, q, n)
    BY <1>6, <1>7
<1> QED
    BY <1>8 DEF n

\* Of two patterns that match a path one is closer.
LEMMA OneClosest ==
    ASSUME NEW p \in Patterns, NEW q \in Patterns, NEW path \in Seq(STRING),
           Matches(p, path), Matches(q, path), ~Before(p, q), ~Before(q, p)
    PROVE  p = q
<1> DEFINE n == Len(p.segs)
<1>1. Len(p.segs) \in Nat /\ Len(q.segs) \in Nat
    BY RankFacts
<1>2. SameRanks(p, q, n + 1) /\ Len(q.segs) = n
  <2>1. CASE Len(p.segs) <= Len(q.segs)
      BY <2>1, FirstDifference, SameLength
  <2>2. CASE Len(q.segs) <= Len(p.segs)
    <3>1. SameRanks(q, p, Len(q.segs) + 1) /\ Len(q.segs) = Len(p.segs)
        BY <2>2, FirstDifference, SameLength
    <3> QED
        BY <3>1 DEF SameRanks
  <2> QED
      BY <1>1, <2>1, <2>2
<1>3. p.segs = q.segs
  <2>1. ASSUME NEW i \in 1..n PROVE p.segs[i] = q.segs[i]
    <3>1. Rank(p, i) = Rank(q, i) /\ i \in 1..Len(q.segs)
        BY <1>1, <1>2 DEF SameRanks
    <3>2. p.segs[i] = Param <=> q.segs[i] = Param
      <4>1. i \in 1..Len(p.segs)
          OBVIOUS
      <4>2. Rank(p, i) = 1 <=> p.segs[i] = Param
          BY <4>1, RankFacts
      <4>3. Rank(q, i) = 1 <=> q.segs[i] = Param
          BY <3>1, RankFacts
      <4> QED
          BY <3>1, <4>2, <4>3
    <3>3. Fits(p.segs[i], path[i]) /\ Fits(q.segs[i], path[i])
        BY <3>1 DEF Matches
    <3> QED
        BY <3>2, <3>3 DEF Fits
  <2>2. p.segs \in Seq(STRING) /\ q.segs \in Seq(STRING)
      BY DEF Patterns
  <2> QED
      BY <1>2, <2>1, <2>2
<1>4. p.tail = q.tail
  <2>1. Rank(p, n + 1) = Rank(q, n + 1)
      BY <1>1, <1>2 DEF SameRanks
  <2>2. EndsOpen(p) <=> EndsOpen(q)
    <3>1. n + 1 \in Nat /\ n + 1 > n
        BY <1>1
    <3>2. Rank(p, n + 1) = 0 <=> EndsOpen(p)
        BY <3>1, RankFacts
    <3>3. Rank(q, n + 1) = 0 <=> EndsOpen(q)
        BY <1>2, <3>1, RankFacts
    <3> QED
        BY <2>1, <3>2, <3>3
  <2>3. CASE EndsOpen(p)
    <3>1. p.tail = NoTail <=> Len(path) = n
        BY <1>1 DEF Matches
    <3>2. q.tail = NoTail <=> Len(path) = n
        BY <1>1, <1>2 DEF Matches
    <3> QED
      <4>1. PICK e : \A pattern : EndsOpen(pattern) <=> pattern.tail \in {e, NoTail}
          BY DEF EndsOpen
      <4>2. p.tail \in {e, NoTail} /\ q.tail \in {e, NoTail}
          BY <2>2, <2>3, <4>1
      <4> QED
          BY <3>1, <3>2, <4>2
  <2>4. CASE ~EndsOpen(p)
    <3> DEFINE s == path[n + 1]
    <3>1. /\ <<p.tail, s>> \in Begins \/ s = p.tail
          /\ <<q.tail, s>> \in Begins \/ s = q.tail
        BY <1>2, <2>2, <2>4 DEF Matches, StartsWith, EndsOpen
    <3>2. <<q.tail, p.tail>> \notin Begins /\ <<p.tail, q.tail>> \notin Begins
      <4>1. SameRanks(q, p, Len(q.segs) + 1)
          BY <1>2 DEF SameRanks
      <4> QED
          BY <1>2, <4>1 DEF Before
    <3> HIDE DEF s
    <3>3. \A x, y \in Begins : x[2] = y[2] => x[1] = y[1] \/ <<x[1], y[1]>> \in Begins \/ <<y[1], x[1]>> \in Begins
        BY BeginsAssumption
    <3>4. ASSUME <<p.tail, s>> \in Begins, <<q.tail, s>> \in Begins PROVE p.tail = q.tail
        BY <3>2, <3>3, <3>4
    <3> QED
        BY <3>1, <3>2, <3>4
  <2> QED
      BY <2>3, <2>4
<1> QED
    BY <1>3, <1>4 DEF Patterns

LEMMA ClosestExists ==
    ASSUME NEW S \in SUBSET Patterns, IsFiniteSet(S), S # {}
    PROVE  \E p \in S : \A q \in S : ~Before(q, p)
<1> DEFINE n == Cardinality(S)
<1>1. n \in Nat /\ n # 0
    BY FS_CardinalityType, FS_EmptySet
<1>2. PICK f : f \in Bijection(1..n, S)
  <2>1. ExistsBijection(1..n, S)
      BY FS_CardinalityType
  <2> QED
      BY <2>1 DEF ExistsBijection
<1>3. /\ \A i \in 1..n : f[i] \in S
      /\ \A q \in S : \E i \in 1..n : f[i] = q
    BY <1>2 DEF Bijection, Surjection
<1> HIDE DEF n
<1> DEFINE T == {k \in 0..n : k = 0 \/ \E i \in 1..k : \A j \in 1..k : ~Before(f[j], f[i])}
<1>4. 0 \in T
    BY <1>1
<1>5. ASSUME NEW k \in 1..n, k - 1 \in T PROVE k \in T
  <2>1. k \in 1..k /\ \A j \in 1..k : j = k \/ j \in 1..(k - 1)
      BY <1>1
  <2>2. \A j \in 1..k : f[j] \in Patterns
      BY <1>1, <1>3
  <2>3. ~Before(f[k], f[k])
      BY <2>1, <2>2, BeforeIrreflexive
  <2>4. CASE k - 1 = 0
      BY <2>1, <2>3, <2>4
  <2>5. CASE k - 1 # 0
    <3>1. PICK i \in 1..(k - 1) : \A j \in 1..(k - 1) : ~Before(f[j], f[i])
        BY <1>5, <2>5
    <3>2. i \in 1..k
        BY <1>1
    <3>3. CASE ~Before(f[k], f[i])
        BY <2>1, <3>1, <3>2, <3>3
    <3>4. CASE Before(f[k], f[i])
      <4>1. ASSUME NEW j \in 1..k PROVE ~Before(f[j], f[k])
          BY <2>1, <2>2, <2>3, <3>1, <3>2, <3>4, BeforeTransitive
      <4> QED
          BY <2>1, <4>1
    <3> QED
        BY <3>3, <3>4
  <2> QED
      BY <2>4, <2>5
<1>6. \A k \in 0..n : k \in T
  <2> HIDE DEF T
  <2> QED
      BY <1>1, <1>4, <1>5, Listed!UpTo
<1>7. \E i \in 1..n : \A j \in 1..n : ~Before(f[j], f[i])
  <2>1. n \in 0..n
      BY <1>1
  <2> QED
      BY <1>1, <1>6, <2>1
<1> QED
    BY <1>3, <1>7

\* What At returns is the match that comes before all others.
LEMMA AtFacts ==
    ASSUME NEW S \in SUBSET Patterns, IsFiniteSet(S), NEW path \in Seq(STRING), Hits(S, path) # {}
    PROVE  /\ At(S, path) \in S /\ Matches(At(S, path), path)
           /\ \A q \in Hits(S, path) : ~Before(q, At(S, path))
           /\ \A p \in Hits(S, path) : (\A q \in Hits(S, path) : ~Before(q, p)) => p = At(S, path)
<1> DEFINE H == Hits(S, path)
           a == At(S, path)
<1>1. H \in SUBSET Patterns /\ IsFiniteSet(H) /\ H \subseteq S /\ \A p \in H : Matches(p, path)
    BY FS_Subset DEF Hits
<1>2. \E p \in H : \A q \in H : ~Before(q, p)
    BY <1>1, ClosestExists
<1>3. a \in H /\ \A q \in H : ~Before(q, a)
    BY <1>2 DEF At
<1>4. ASSUME NEW p \in H, \A q \in H : ~Before(q, p) PROVE p = a
    BY <1>1, <1>3, <1>4, OneClosest
<1> QED
    BY <1>1, <1>3, <1>4

-----------------------------------------------------------------------------
(* The tree of blueprints. *)

EntriesOf(b, kind) == {app[b][k] : k \in {j \in DOMAIN app[b] : app[b][j].kind = kind}}

\* Entries keeps the entries of one kind.
LEMMA EntriesFacts ==
    ASSUME IsApp(app), NEW b \in DOMAIN app, NEW kind
    PROVE  /\ Entries(app[b], kind) \in Seq(EntriesOf(b, kind))
           /\ ToSet(Entries(app[b], kind)) = EntriesOf(b, kind)
<1> DEFINE s == app[b]
           In(i) == {s[k] : k \in {j \in 1..i : s[j].kind = kind}}
           A == [i \in 0..Len(s) |-> {r \in Seq(EntriesOf(b, kind)) : ToSet(r) = In(i)}]
<1>1. s \in Seq(ToSet(s)) /\ Len(s) \in Nat /\ DOMAIN s = 1..Len(s)
    BY DEF IsApp
<1>2. << >> \in A[0]
  <2>1. << >> \in Seq(EntriesOf(b, kind))
      OBVIOUS
  <2>2. ToSet(<< >>) = In(0)
      BY DEF ToSet
  <2> QED
      BY <1>1, <2>1, <2>2
<1>3. ASSUME NEW i \in 1..Len(s), NEW r \in A[i - 1] PROVE KeepKind(kind, r, s[i]) \in A[i]
  <2>1. /\ r \in Seq(EntriesOf(b, kind)) /\ ToSet(r) = In(i - 1)
        /\ i \in 0..Len(s) /\ \A j \in 1..i : j = i \/ j \in 1..(i - 1)
        /\ \A j \in 1..(i - 1) : j \in 1..i
        /\ i \in 1..i
      BY <1>1
  <2>2. CASE s[i].kind = kind
    <3>1. s[i] \in EntriesOf(b, kind)
        BY <1>1, <2>2 DEF EntriesOf
    <3>2. ToSet(Append(r, s[i])) = ToSet(r) \cup {s[i]}
      <4> DEFINE T == EntriesOf(b, kind)
                 x == s[i]
      <4>1. r \in Seq(T) /\ x \in T
          BY <2>1, <3>1
      <4> HIDE DEF T, x
      <4>2. /\ DOMAIN Append(r, x) = 1..(Len(r) + 1) /\ DOMAIN r = 1..Len(r) /\ Len(r) \in Nat
            /\ Append(r, x)[Len(r) + 1] = x /\ \A j \in 1..Len(r) : Append(r, x)[j] = r[j]
          BY <4>1
      <4>3. ToSet(Append(r, x)) = ToSet(r) \cup {x}
          BY <4>2 DEF ToSet
      <4> QED
          BY <4>3 DEF x
    <3>3. In(i) = In(i - 1) \cup {s[i]}
        BY <2>1, <2>2
    <3>4. KeepKind(kind, r, s[i]) = Append(r, s[i])
        BY <2>2 DEF KeepKind
    <3>5. Append(r, s[i]) \in Seq(EntriesOf(b, kind))
      <4> DEFINE T == EntriesOf(b, kind)
                 x == s[i]
      <4>1. r \in Seq(T) /\ x \in T
          BY <2>1, <3>1
      <4> HIDE DEF T, x
      <4>2. Append(r, x) \in Seq(T)
          BY <4>1
      <4> QED
          BY <4>2 DEF T, x
    <3> HIDE DEF In
    <3>6. ToSet(Append(r, s[i])) = In(i)
        BY <2>1, <3>2, <3>3
    <3> QED
        BY <2>1, <3>4, <3>5, <3>6
  <2>3. CASE s[i].kind # kind
    <3>1. In(i) = In(i - 1)
        BY <2>1, <2>3
    <3>2. KeepKind(kind, r, s[i]) = r
        BY <2>3 DEF KeepKind
    <3> HIDE DEF In
    <3> QED
        BY <2>1, <3>1, <3>2
  <2> QED
      BY <2>2, <2>3
<1>4. A[Len(s)] = {r \in Seq(EntriesOf(b, kind)) : ToSet(r) = In(Len(s))}
    BY <1>1
<1>5. In(Len(s)) = EntriesOf(b, kind)
    BY <1>1 DEF EntriesOf
<1>6. Entries(app[b], kind) = Listed!Folded(kind, << >>, s)
    BY DEF Entries, Accumulate, Listed!Folded, KeepKind
<1>7. Listed!Folded(kind, << >>, s) \in A[Len(s)]
  <2> HIDE DEF A, s
  <2> QED
      BY <1>1, <1>2, <1>3, Listed!FoldRuns
<1> HIDE DEF In
<1> QED
    BY <1>4, <1>5, <1>6, <1>7

LEMMA EntryFacts ==
    ASSUME IsApp(app), NEW b \in DOMAIN app
    PROVE  /\ \A e \in EntriesOf(b, "route") :
                 e = RouteAt(e.path, e.methods, e.callable) /\ e.path \in Patterns /\ e.methods \in SUBSET AllMethods
           /\ \A e \in EntriesOf(b, "nest") :
                 e = Nest(e.bp, e.prefix, e.domain) /\ e.bp \in DOMAIN app \ {Root}
                 /\ e.prefix \in Seq(STRING) /\ e.domain \in Patterns
<1>1. \A k \in DOMAIN app[b] : IsEntry(app, app[b][k])
    BY DEF IsApp
<1> QED
    BY <1>1 DEF EntriesOf, IsEntry

LEMMA SiteFacts ==
    ASSUME IsApp(app), NEW b \in DOMAIN app \ {Root}
    PROVE  /\ SiteOf(b) \in Sites(app, b)
           /\ SiteOf(b).in \in DOMAIN app
           /\ NestOf(b) \in EntriesOf(SiteOf(b).in, "nest") /\ NestOf(b).bp = b
           /\ \A c \in DOMAIN app : \A e \in EntriesOf(c, "nest") : e.bp = b => c = SiteOf(b).in /\ e = NestOf(b)
<1>1. PICK s \in Sites(app, b) : Sites(app, b) = {s}
    BY DEF IsApp
<1>2. SiteOf(b) = s
    BY <1>1 DEF SiteOf
<1>3. PICK c \in DOMAIN app : \E k \in DOMAIN app[c] :
          s = [in |-> c, at |-> k] /\ app[c][k].kind = "nest" /\ app[c][k].bp = b
    BY <1>1 DEF Sites
<1>8. PICK k \in DOMAIN app[c] :
          s = [in |-> c, at |-> k] /\ app[c][k].kind = "nest" /\ app[c][k].bp = b
    BY <1>3
<1>4. s.in = c /\ s.at = k
    BY <1>8
<1>5. NestOf(b) = app[c][k]
    BY <1>2, <1>4 DEF NestOf
<1>6. NestOf(b) \in EntriesOf(c, "nest")
    BY <1>8, <1>5 DEF EntriesOf
<1>7. ASSUME NEW d \in DOMAIN app, NEW e \in EntriesOf(d, "nest"), e.bp = b
      PROVE  d = c /\ e = NestOf(b)
  <2>1. PICK j \in DOMAIN app[d] : app[d][j].kind = "nest" /\ e = app[d][j]
      BY <1>7 DEF EntriesOf
  <2> DEFINE t == [in |-> d, at |-> j]
  <2>2. t \in Sites(app, b)
      BY <1>7, <2>1 DEF Sites
  <2>3. t = s /\ t.in = d /\ t.at = j
      BY <1>1, <2>2
  <2> QED
      BY <1>4, <1>5, <2>1, <2>3
<1> QED
    BY <1>1, <1>2, <1>4, <1>5, <1>6, <1>7, <1>8

\* No blueprint is nested twice in another.
NoneTwice(r) == \A j, k \in DOMAIN r : r[j].bp = r[k].bp => j = k
LEMMA NestsDiffer ==
    ASSUME IsApp(app), NEW b \in DOMAIN app
    PROVE  NoneTwice(Entries(app[b], "nest"))
<1> DEFINE s == app[b]
           In(i) == {s[k] : k \in {j \in 1..i : s[j].kind = "nest"}}
           A == [i \in 0..Len(s) |-> {r \in Seq(EntriesOf(b, "nest")) : ToSet(r) \subseteq In(i) /\ NoneTwice(r)}]
<1>1. s \in Seq(ToSet(s)) /\ Len(s) \in Nat /\ DOMAIN s = 1..Len(s)
    BY DEF IsApp
<1>2. << >> \in A[0]
  <2>1. << >> \in Seq(EntriesOf(b, "nest")) /\ NoneTwice(<< >>)
      BY DEF NoneTwice
  <2>2. ToSet(<< >>) \subseteq In(0)
      BY DEF ToSet
  <2> QED
      BY <1>1, <2>1, <2>2
<1>3. ASSUME NEW i \in 1..Len(s), NEW r \in A[i - 1] PROVE KeepKind("nest", r, s[i]) \in A[i]
  <2>1. /\ r \in Seq(EntriesOf(b, "nest")) /\ ToSet(r) \subseteq In(i - 1) /\ NoneTwice(r)
        /\ i \in 0..Len(s) /\ \A j \in 1..(i - 1) : j \in 1..i /\ j # i /\ j \in 1..Len(s)
        /\ i \in 1..i
      BY <1>1
  <2>2. In(i - 1) \subseteq In(i)
      BY <2>1
  <2>3. CASE s[i].kind = "nest"
    <3> DEFINE T == EntriesOf(b, "nest")
               x == s[i]
               u == Append(r, x)
               n == Len(r)
    <3>1. r \in Seq(T) /\ x \in T /\ x \in In(i)
        BY <1>1, <2>1, <2>3 DEF EntriesOf
    <3>2. x.bp \in DOMAIN app \ {Root}
        BY <1>1, <2>3 DEF IsApp, IsEntry
    <3>3. ASSUME NEW j \in 1..(i - 1), s[j].kind = "nest", s[j].bp = x.bp PROVE FALSE
      <4> DEFINE y == [in |-> b, at |-> j]
                 z == [in |-> b, at |-> i]
      <4>5. ASSUME NEW k \in DOMAIN s, s[k].kind = "nest" PROVE [in |-> b, at |-> k] \in Sites(app, s[k].bp)
          BY <4>5 DEF Sites
      <4>1. y \in Sites(app, x.bp) /\ z \in Sites(app, x.bp)
        <5> HIDE DEF s
        <5> QED
            BY <1>1, <2>1, <2>3, <3>3, <4>5
      <4>2. \E p \in Sites(app, x.bp) : Sites(app, x.bp) = {p}
          BY <3>2 DEF IsApp
      <4>3. y.at = j /\ z.at = i
          OBVIOUS
      <4>4. y = z
          BY <4>1, <4>2
      <4> QED
          BY <2>1, <4>3, <4>4
    <3>4. \A j \in DOMAIN r : r[j] \in In(i - 1)
        BY <2>1 DEF ToSet
    <3>5. \A j \in DOMAIN r : r[j].bp # x.bp
        BY <3>3, <3>4
    <3> HIDE DEF T, x, n, In
    <3>6. /\ u \in Seq(T) /\ DOMAIN u = 1..(n + 1) /\ DOMAIN r = 1..n /\ n \in Nat
          /\ u[n + 1] = x /\ \A j \in 1..n : u[j] = r[j]
        BY <3>1 DEF n
    <3>7. ToSet(u) \subseteq In(i)
        BY <2>1, <2>2, <3>1, <3>6 DEF ToSet
    <3> HIDE DEF u
    <3>8. NoneTwice(u)
      <4> SUFFICES ASSUME NEW j \in 1..(n + 1), NEW k \in 1..(n + 1), u[j].bp = u[k].bp PROVE j = k
          BY <3>6 DEF NoneTwice
      <4>1. CASE j \in 1..n /\ k \in 1..n
          BY <2>1, <3>6, <4>1 DEF NoneTwice
      <4>2. \A m \in 1..n : u[m].bp # x.bp
          BY <3>5, <3>6
      <4>3. u[n + 1].bp = x.bp /\ \A m \in 1..(n + 1) : m \in 1..n \/ m = n + 1
          BY <3>6
      <4> QED
          BY <4>1, <4>2, <4>3
    <3>9. KeepKind("nest", r, s[i]) = u
        BY <2>3 DEF KeepKind, u, x
    <3> QED
        BY <2>1, <3>6, <3>7, <3>8, <3>9 DEF T
  <2>4. CASE s[i].kind # "nest"
    <3>1. KeepKind("nest", r, s[i]) = r
        BY <2>4 DEF KeepKind
    <3> HIDE DEF In
    <3> QED
        BY <2>1, <2>2, <3>1
  <2> QED
      BY <2>3, <2>4
<1>4. A[Len(s)] = {r \in Seq(EntriesOf(b, "nest")) : ToSet(r) \subseteq In(Len(s)) /\ NoneTwice(r)}
    BY <1>1
<1>5. Entries(app[b], "nest") = Listed!Folded("nest", << >>, s)
    BY DEF Entries, Accumulate, Listed!Folded, KeepKind
<1>6. Listed!Folded("nest", << >>, s) \in A[Len(s)]
  <2> HIDE DEF A, s
  <2> QED
      BY <1>1, <1>2, <1>3, Listed!FoldRuns
<1> HIDE DEF In
<1> QED
    BY <1>4, <1>5, <1>6

\* The blueprints by their depth.
IsDepth(depth) ==
    /\ depth \in [DOMAIN app -> 0..Cardinality(DOMAIN app)]
    /\ \A b \in DOMAIN app \ {Root} : depth[SiteOf(b).in] < depth[b]

\* What holds of the root, and of a blueprint if it holds of the one it is
\* nested in, holds of all.
LEMMA DownTheTree ==
    ASSUME IsApp(app), NEW S, Root \in S, \A b \in DOMAIN app \ {Root} : SiteOf(b).in \in S => b \in S
    PROVE  \A b \in DOMAIN app : b \in S
<1>1. PICK depth : IsDepth(depth)
    BY SiteFacts DEF IsApp, IsDepth
<1> DEFINE n == Cardinality(DOMAIN app)
           T == {k \in 0..n : \A b \in DOMAIN app : depth[b] <= k => b \in S}
<1>2. n \in Nat
    BY FS_CardinalityType DEF IsApp
<1>3. \A b \in DOMAIN app : depth[b] \in 0..n
    BY <1>1 DEF IsDepth
<1>4. \A b \in DOMAIN app \ {Root} : depth[SiteOf(b).in] < depth[b] /\ SiteOf(b).in \in DOMAIN app
    BY <1>1, SiteFacts DEF IsDepth
<1> HIDE DEF n
<1>5. 0 \in T
  <2>1. ASSUME NEW b \in DOMAIN app, depth[b] <= 0, b # Root PROVE FALSE
    <3>1. depth[SiteOf(b).in] < depth[b] /\ depth[SiteOf(b).in] \in 0..n /\ depth[b] \in 0..n
        BY <1>3, <1>4, <2>1
    <3> QED
        BY <1>2, <2>1, <3>1
  <2> QED
      BY <1>2, <2>1
<1>6. ASSUME NEW k \in 1..n, k - 1 \in T PROVE k \in T
  <2>1. ASSUME NEW b \in DOMAIN app, depth[b] <= k, b # Root PROVE b \in S
    <3> DEFINE c == SiteOf(b).in
    <3>1. depth[c] < depth[b] /\ depth[c] \in 0..n /\ depth[b] \in 0..n /\ c \in DOMAIN app
        BY <1>3, <1>4, <2>1
    <3>2. depth[c] <= k - 1
        BY <1>2, <2>1, <3>1
    <3>3. c \in S
        BY <1>6, <3>1, <3>2
    <3> QED
        BY <2>1, <3>3
  <2> QED
      BY <1>2, <2>1
<1>7. \A k \in 0..n : k \in T
  <2> HIDE DEF T
  <2> QED
      BY <1>2, <1>5, <1>6, Listed!UpTo
<1>8. n \in 0..n /\ \A b \in DOMAIN app : depth[b] <= n
    BY <1>2, <1>3
<1> QED
    BY <1>7, <1>8

-----------------------------------------------------------------------------
\* Where a blueprint is, from where the one around it is.
TopPlace == [chain |-> <<Root>>, prefix |-> << >>, domain |-> NoDomain]
PlaceIn(b, around) ==
    [chain |-> Append(around.chain, b), prefix |-> around.prefix \o NestOf(b).prefix,
     domain |-> IF NestOf(b).domain = NoDomain THEN around.domain ELSE NestOf(b).domain]
\* u holds the places of the blueprints in D.
ArePlaces(D, u) ==
    u = [b \in D |-> IF b = Root THEN TopPlace ELSE PlaceIn(b, u[SiteOf(b).in])]

LEMMA PlacesExist ==
    ASSUME IsApp(app)
    PROVE  \E u : ArePlaces(DOMAIN app, u)
<1>1. PICK depth : IsDepth(depth)
    BY SiteFacts DEF IsApp, IsDepth
<1> DEFINE n == Cardinality(DOMAIN app)
           D(k) == {b \in DOMAIN app : depth[b] <= k}
           T == {k \in 0..n : \E u : ArePlaces(D(k), u)}
<1>2. n \in Nat
    BY FS_CardinalityType DEF IsApp
<1>3. \A b \in DOMAIN app : depth[b] \in 0..n
    BY <1>1 DEF IsDepth
<1>4. \A b \in DOMAIN app \ {Root} : depth[SiteOf(b).in] < depth[b] /\ SiteOf(b).in \in DOMAIN app
    BY <1>1, SiteFacts DEF IsDepth
<1> HIDE DEF n
<1>5. 0 \in T
  <2>1. ASSUME NEW b \in D(0), b # Root PROVE FALSE
    <3>1. depth[SiteOf(b).in] < depth[b] /\ depth[SiteOf(b).in] \in 0..n /\ depth[b] \in 0..n /\ depth[b] <= 0
        BY <1>3, <1>4, <2>1
    <3> QED
        BY <1>2, <2>1, <3>1
  <2> DEFINE u == [b \in D(0) |-> TopPlace]
  <2>2. ArePlaces(D(0), u)
    <3> HIDE DEF D
    <3> QED
        BY <2>1 DEF ArePlaces
  <2> QED
      BY <1>2, <2>2
<1>6. ASSUME NEW k \in 1..n, k - 1 \in T PROVE k \in T
  <2>1. PICK u : ArePlaces(D(k - 1), u)
      BY <1>6
  <2> DEFINE v == [b \in D(k) |-> IF b = Root THEN TopPlace ELSE PlaceIn(b, u[SiteOf(b).in])]
  <2>2. ASSUME NEW b \in D(k), b # Root PROVE SiteOf(b).in \in D(k) /\ SiteOf(b).in \in D(k - 1)
    <3> DEFINE c == SiteOf(b).in
    <3>1. depth[c] < depth[b] /\ depth[c] \in 0..n /\ depth[b] \in 0..n /\ c \in DOMAIN app /\ depth[b] <= k
        BY <1>3, <1>4, <2>2
    <3>2. depth[c] <= k - 1 /\ depth[c] <= k
        BY <1>2, <3>1
    <3> QED
        BY <3>1, <3>2
  <2>3. ASSUME NEW c \in D(k), c \in D(k - 1) PROVE v[c] = u[c]
    <3> HIDE DEF D
    <3>1. v[c] = IF c = Root THEN TopPlace ELSE PlaceIn(c, u[SiteOf(c).in])
        BY <2>3
    <3>2. u[c] = IF c = Root THEN TopPlace ELSE PlaceIn(c, u[SiteOf(c).in])
        BY <2>1, <2>3 DEF ArePlaces
    <3> QED
        BY <3>1, <3>2
  <2>4. ArePlaces(D(k), v)
    <3> HIDE DEF D
    <3>1. \A b \in D(k) : b # Root => v[SiteOf(b).in] = u[SiteOf(b).in]
      <4> HIDE DEF v
      <4> QED
          BY <2>2, <2>3
    <3>2. v = [b \in D(k) |-> IF b = Root THEN TopPlace ELSE PlaceIn(b, v[SiteOf(b).in])]
      <4> DEFINE w == [b \in D(k) |-> IF b = Root THEN TopPlace ELSE PlaceIn(b, v[SiteOf(b).in])]
      <4>1. ASSUME NEW b \in D(k) PROVE v[b] = w[b]
        <5>1. v[b] = IF b = Root THEN TopPlace ELSE PlaceIn(b, u[SiteOf(b).in])
            OBVIOUS
        <5>2. w[b] = IF b = Root THEN TopPlace ELSE PlaceIn(b, v[SiteOf(b).in])
            OBVIOUS
        <5> HIDE DEF v, w
        <5> QED
            BY <3>1, <5>1, <5>2
      <4>2. v = [b \in D(k) |-> v[b]] /\ w = [b \in D(k) |-> w[b]]
          OBVIOUS
      <4>3. v = w
        <5> HIDE DEF v, w
        <5> QED
            BY <4>1, <4>2
      <4> QED
          BY <4>3
    <3> QED
        BY <3>2, Zenon DEF ArePlaces
  <2> HIDE DEF v, D
  <2>5. k \in 0..n
      BY <1>2
  <2> QED
      BY <2>4, <2>5
<1>7. \A k \in 0..n : k \in T
  <2> HIDE DEF T
  <2> QED
      BY <1>2, <1>5, <1>6, Listed!UpTo
<1>8. n \in 0..n /\ D(n) = DOMAIN app
    BY <1>2, <1>3
<1>9. \E u : ArePlaces(D(n), u)
    BY <1>7, <1>8
<1> QED
    BY <1>8, <1>9

LEMMA PlaceFacts ==
    ASSUME IsApp(app)
    PROVE  /\ PlaceOf[Root] = TopPlace
           /\ \A b \in DOMAIN app \ {Root} : PlaceOf[b] = PlaceIn(b, PlaceOf[SiteOf(b).in])
<1>1. PICK u : ArePlaces(DOMAIN app, u)
    BY PlacesExist
<1>2. u = [b \in DOMAIN app |->
              IF b = Root THEN [chain |-> <<Root>>, prefix |-> << >>, domain |-> NoDomain]
              ELSE [chain |-> Append(u[SiteOf(b).in].chain, b), prefix |-> u[SiteOf(b).in].prefix \o NestOf(b).prefix,
                    domain |-> IF NestOf(b).domain = NoDomain THEN u[SiteOf(b).in].domain ELSE NestOf(b).domain]]
    BY <1>1, Zenon DEF ArePlaces, TopPlace, PlaceIn
<1>3. PlaceOf = [b \in DOMAIN app |->
              IF b = Root THEN [chain |-> <<Root>>, prefix |-> << >>, domain |-> NoDomain]
              ELSE [chain |-> Append(PlaceOf[SiteOf(b).in].chain, b),
                    prefix |-> PlaceOf[SiteOf(b).in].prefix \o NestOf(b).prefix,
                    domain |-> IF NestOf(b).domain = NoDomain THEN PlaceOf[SiteOf(b).in].domain ELSE NestOf(b).domain]]
    BY <1>2, Zenon DEF PlaceOf
<1>4. ArePlaces(DOMAIN app, PlaceOf)
    BY <1>3, Zenon DEF ArePlaces, TopPlace, PlaceIn
<1>5. Root \in DOMAIN app
    BY DEF IsApp
<1> QED
    BY <1>4, <1>5 DEF ArePlaces

Places == [chain : Seq(DOMAIN app), prefix : Seq(STRING), domain : Patterns]

LEMMA PlaceTyped ==
    ASSUME IsApp(app), NEW b \in DOMAIN app
    PROVE  PlaceOf[b] \in Places /\ Len(ChainTo(b)) \in Nat /\ Len(ChainTo(b)) >= 1 /\ ChainTo(b)[1] = Root
<1> DEFINE S == {c \in DOMAIN app : PlaceOf[c] \in Places /\ Len(PlaceOf[c].chain) >= 1 /\ PlaceOf[c].chain[1] = Root}
<1>1. Root \in S
  <2>1. Root \in DOMAIN app
      BY DEF IsApp
  <2>2. <<Root>> \in Seq(DOMAIN app) /\ Len(<<Root>>) >= 1 /\ <<Root>>[1] = Root
      BY <2>1
  <2>3. << >> \in Seq(STRING)
      OBVIOUS
  <2>4. NoDomain \in Patterns
    <3> DEFINE no == << >>
    <3>2. no \in Seq(STRING)
        BY <2>3
    <3>3. NoDomain = [segs |-> no, tail |-> NoTail]
        BY DEF NoDomain
    <3> HIDE DEF no
    <3> QED
        BY <3>2, <3>3 DEF Patterns
  <2>5. PlaceOf[Root] = TopPlace
      BY PlaceFacts
  <2>6. TopPlace \in Places /\ Len(TopPlace.chain) >= 1 /\ TopPlace.chain[1] = Root
    <3> DEFINE ch == <<Root>>
               no == << >>
    <3>1. ch \in Seq(DOMAIN app) /\ Len(ch) >= 1 /\ ch[1] = Root /\ no \in Seq(STRING)
        BY <2>2, <2>3
    <3> HIDE DEF ch, no
    <3>2. [chain |-> ch, prefix |-> no, domain |-> NoDomain] \in Places
        BY <2>4, <3>1 DEF Places
    <3>3. TopPlace = [chain |-> ch, prefix |-> no, domain |-> NoDomain]
        BY DEF TopPlace, ch, no
    <3> QED
        BY <3>1, <3>2, <3>3
  <2> QED
      BY <2>1, <2>5, <2>6
<1>2. ASSUME NEW c \in DOMAIN app \ {Root}, SiteOf(c).in \in S PROVE c \in S
  <2> DEFINE around == PlaceOf[SiteOf(c).in]
             ch == around.chain
  <2>1. ch \in Seq(DOMAIN app) /\ Len(ch) >= 1 /\ ch[1] = Root /\ around.prefix \in Seq(STRING) /\ around.domain \in Patterns
      BY <1>2 DEF Places
  <2>2. NestOf(c).prefix \in Seq(STRING) /\ NestOf(c).domain \in Patterns
      BY SiteFacts, EntryFacts
  <2>3. PlaceOf[c] = PlaceIn(c, around)
      BY PlaceFacts
  <2> HIDE DEF around
  <2>4. Append(ch, c) \in Seq(DOMAIN app) /\ Len(Append(ch, c)) >= 1 /\ Append(ch, c)[1] = Root
    <3> HIDE DEF ch
    <3> QED
        BY <2>1
  <2>5. around.prefix \o NestOf(c).prefix \in Seq(STRING)
    <3> DEFINE x == around.prefix
               y == NestOf(c).prefix
    <3>1. x \in Seq(STRING) /\ y \in Seq(STRING)
        BY <2>1, <2>2
    <3> HIDE DEF x, y
    <3>2. x \o y \in Seq(STRING)
        BY <3>1
    <3> QED
        BY <3>2 DEF x, y
  <2>6. PlaceIn(c, around) \in Places /\ PlaceIn(c, around).chain = Append(ch, c)
    <3> DEFINE x == Append(ch, c)
               y == around.prefix \o NestOf(c).prefix
               z == IF NestOf(c).domain = NoDomain THEN around.domain ELSE NestOf(c).domain
    <3>1. x \in Seq(DOMAIN app) /\ y \in Seq(STRING) /\ z \in Patterns
        BY <2>1, <2>2, <2>4, <2>5
    <3>2. PlaceIn(c, around) = [chain |-> x, prefix |-> y, domain |-> z]
        BY DEF PlaceIn
    <3> HIDE DEF x, y, z
    <3>3. PlaceIn(c, around) \in Places /\ PlaceIn(c, around).chain = x
        BY <3>1, <3>2 DEF Places
    <3> QED
        BY <3>3 DEF x
  <2> QED
      BY <2>3, <2>4, <2>6
<1>3. \A c \in DOMAIN app : c \in S
  <2> HIDE DEF S
  <2> QED
      BY <1>1, <1>2, DownTheTree
<1>4. PlaceOf[b] \in Places /\ Len(PlaceOf[b].chain) >= 1 /\ PlaceOf[b].chain[1] = Root
    BY <1>3
<1> QED
    BY <1>4 DEF ChainTo, Places

-----------------------------------------------------------------------------
(* What a blueprint registers. *)

LEMMA ConcatFacts ==
    ASSUME NEW T, NEW s \in Seq(T), NEW t \in Seq(T)
    PROVE  s \o t \in Seq(T) /\ ToSet(s \o t) = ToSet(s) \cup ToSet(t)
<1>1. /\ s \o t \in Seq(T) /\ Len(s) \in Nat /\ Len(t) \in Nat
      /\ DOMAIN s = 1..Len(s) /\ DOMAIN t = 1..Len(t) /\ DOMAIN (s \o t) = 1..(Len(s) + Len(t))
      /\ \A i \in 1..Len(s) : (s \o t)[i] = s[i]
      /\ \A i \in 1..Len(t) : (s \o t)[i + Len(s)] = t[i]
    OBVIOUS
<1> DEFINE u == s \o t
           n == Len(s)
           m == Len(t)
<1>2. ASSUME NEW x \in ToSet(u) PROVE x \in ToSet(s) \cup ToSet(t)
  <2>1. PICK i \in 1..(n + m) : x = u[i]
      BY <1>1, <1>2 DEF ToSet
  <2>2. CASE i <= n
    <3>1. i \in 1..n
        BY <1>1, <2>2
    <3> QED
        BY <1>1, <2>1, <3>1 DEF ToSet
  <2>3. CASE ~(i <= n)
    <3>1. i - n \in 1..m /\ (i - n) + n = i
        BY <1>1, <2>3
    <3> DEFINE j == i - n
    <3> HIDE DEF j
    <3>2. j \in 1..m /\ j + n = i
        BY <3>1 DEF j
    <3>3. x = t[j]
        BY <1>1, <2>1, <3>2
    <3> QED
        BY <1>1, <3>2, <3>3 DEF ToSet
  <2> QED
      BY <2>2, <2>3
<1>3. \A i \in 1..n : i \in 1..(n + m)
    BY <1>1
<1>4. \A i \in 1..m : i + n \in 1..(n + m)
    BY <1>1
<1>5. ASSUME NEW x \in ToSet(s) PROVE x \in ToSet(u)
  <2>1. PICK i \in 1..n : x = s[i]
      BY <1>1, <1>5 DEF ToSet
  <2>2. i \in DOMAIN u /\ x = u[i]
      BY <1>1, <1>3, <2>1
  <2> HIDE DEF u
  <2> QED
      BY <2>2 DEF ToSet
<1>6. ASSUME NEW x \in ToSet(t) PROVE x \in ToSet(u)
  <2>1. PICK i \in 1..m : x = t[i]
      BY <1>1, <1>6 DEF ToSet
  <2>2. i + n \in DOMAIN u /\ x = u[i + n]
      BY <1>1, <1>4, <2>1
  <2> HIDE DEF u
  <2> QED
      BY <2>2 DEF ToSet
<1> HIDE DEF u
<1>7. ToSet(u) = ToSet(s) \cup ToSet(t)
    BY <1>2, <1>5, <1>6
<1> QED
    BY <1>1, <1>7 DEF u

ItemOf(b) == Item(b, ChainTo(b), PrefixOf(b), DomainOf(b))
HandlerOf(b, e) ==
    [kind |-> "route", chain |-> ChainTo(b), domain |-> DomainOf(b), callable |-> e.callable,
     path |-> Join(PrefixOf(b), e.path), methods |-> e.methods]
FallbackIn(b, e) ==
    [kind |-> "fallback", chain |-> ChainTo(b), domain |-> DomainOf(b), callable |-> e.callable, prefix |-> PrefixOf(b)]
IsFallbackOf(c, b) ==
    c.kind = "fallback" /\ c.chain = ChainTo(b) /\ c.domain = DomainOf(b) /\ c.prefix = PrefixOf(b)
Handlers(b) == {HandlerOf(b, e) : e \in EntriesOf(b, "route")}
RegisteredBy(b) == ToSet(Registered(ItemOf(b)))

LEMMA RegisteredFacts ==
    ASSUME IsApp(app), NEW b \in DOMAIN app
    PROVE  /\ Registered(ItemOf(b)) \in Seq(RegisteredBy(b))
           /\ \A c \in RegisteredBy(b) : c \in Handlers(b) \/ (IsFallbackOf(c, b) /\ HasFallback(b))
           /\ Handlers(b) \subseteq RegisteredBy(b)
           /\ HasFallback(b) => \E c \in RegisteredBy(b) : IsFallbackOf(c, b)
<1> DEFINE routes == Entries(app[b], "route")
           fallbacks == Entries(app[b], "fallback")
           hs == [i \in DOMAIN routes |-> HandlerOf(b, routes[i])]
           fs == IF fallbacks # << >> THEN <<FallbackIn(b, Last(fallbacks))>>
                 ELSE IF b = Root THEN <<FallbackIn(b, FallbackTo("default_fallback"))>> ELSE << >>
<1>1. routes \in Seq(EntriesOf(b, "route")) /\ ToSet(routes) = EntriesOf(b, "route")
    BY EntriesFacts
<1>2. Registered(ItemOf(b)) = hs \o fs
    BY DEF Registered, ItemOf, Item, HandlerOf, FallbackIn
<1> HIDE DEF routes, fallbacks
<1>3. hs \in Seq(Handlers(b)) /\ ToSet(hs) = Handlers(b)
  <2>1. /\ Len(routes) \in Nat /\ DOMAIN routes = 1..Len(routes)
        /\ \A i \in 1..Len(routes) : routes[i] \in EntriesOf(b, "route")
      BY <1>1
  <2>2. \A i \in 1..Len(routes) : HandlerOf(b, routes[i]) \in Handlers(b)
      BY <2>1 DEF Handlers
  <2>3. hs \in Seq(Handlers(b))
      BY <2>1, <2>2
  <2>4. ToSet(hs) = {HandlerOf(b, routes[i]) : i \in DOMAIN routes}
      BY DEF ToSet
  <2>5. ToSet(routes) = {routes[i] : i \in DOMAIN routes}
      BY DEF ToSet
  <2>6. Handlers(b) = {HandlerOf(b, routes[i]) : i \in DOMAIN routes}
      BY <1>1, <2>5 DEF Handlers
  <2> QED
      BY <2>3, <2>4, <2>6
<1>4. \A e : IsFallbackOf(FallbackIn(b, e), b)
    BY DEF IsFallbackOf, FallbackIn
<1>5. PICK F : /\ fs \in Seq(F) /\ ToSet(fs) = F
               /\ \A c \in F : IsFallbackOf(c, b) /\ HasFallback(b)
               /\ HasFallback(b) => F # {}
  <2>1. CASE HasFallback(b)
    <3>1. PICK e : fs = <<FallbackIn(b, e)>>
        BY <2>1 DEF HasFallback, fallbacks
    <3> DEFINE x == FallbackIn(b, e)
    <3>2. \E y : fs = <<y>> /\ IsFallbackOf(y, b)
        BY <1>4, <3>1
    <3>3. PICK y : fs = <<y>> /\ IsFallbackOf(y, b)
        BY <3>2
    <3>4. <<y>> \in Seq({y}) /\ DOMAIN <<y>> = {1} /\ <<y>>[1] = y
        OBVIOUS
    <3>5. ToSet(<<y>>) = {y}
        BY <3>4 DEF ToSet
    <3> HIDE DEF fs
    <3> QED
        BY <2>1, <3>3, <3>4, <3>5
  <2>2. CASE ~HasFallback(b)
    <3>1. fs = << >>
        BY <2>2 DEF HasFallback, fallbacks
    <3>2. << >> \in Seq({}) /\ ToSet(<< >>) = {}
        BY DEF ToSet
    <3> HIDE DEF fs
    <3> QED
        BY <2>2, <3>1, <3>2
  <2> QED
      BY <2>1, <2>2
<1> HIDE DEF hs, fs
<1> DEFINE T == Handlers(b) \cup F
<1>6. hs \in Seq(T) /\ fs \in Seq(T)
    BY <1>3, <1>5
<1> HIDE DEF T
<1>7. hs \o fs \in Seq(T) /\ ToSet(hs \o fs) = Handlers(b) \cup F
    BY <1>3, <1>5, <1>6, ConcatFacts
<1>8. RegisteredBy(b) = T
    BY <1>2, <1>7 DEF RegisteredBy, T
<1> QED
    BY <1>2, <1>5, <1>7, <1>8 DEF T

LEMMA PushedFacts ==
    ASSUME IsApp(app), NEW b \in DOMAIN app
    PROVE  /\ Pushed(ItemOf(b)) \in Seq({ItemOf(c) : c \in DOMAIN app})
           /\ \A c \in DOMAIN app \ {Root} :
                 SiteOf(c).in = b => \E k \in DOMAIN Pushed(ItemOf(b)) : Pushed(ItemOf(b))[k].bp = c
           /\ \A k \in DOMAIN Pushed(ItemOf(b)) :
                 \E c \in DOMAIN app \ {Root} : SiteOf(c).in = b /\ Pushed(ItemOf(b))[k] = ItemOf(c)
<1> DEFINE nests == Entries(app[b], "nest")
<1>1. nests \in Seq(EntriesOf(b, "nest")) /\ ToSet(nests) = EntriesOf(b, "nest")
    BY EntriesFacts
<1>2. Pushed(ItemOf(b)) = [i \in DOMAIN nests |-> Nested(ItemOf(b), nests[i])]
    BY DEF Pushed, ItemOf, Item
<1> HIDE DEF nests
<1>3. ASSUME NEW e \in EntriesOf(b, "nest")
      PROVE  e.bp \in DOMAIN app \ {Root} /\ SiteOf(e.bp).in = b /\ Nested(ItemOf(b), e) = ItemOf(e.bp)
  <2>1. e.bp \in DOMAIN app \ {Root}
      BY EntryFacts
  <2>2. SiteOf(e.bp).in = b /\ NestOf(e.bp) = e
      BY <2>1, SiteFacts
  <2>3. PlaceOf[e.bp] = PlaceIn(e.bp, PlaceOf[b])
      BY <2>1, <2>2, PlaceFacts
  <2> QED
      BY <2>1, <2>2, <2>3 DEF Nested, ItemOf, Item, PlaceIn, ChainTo, PrefixOf, DomainOf
<1>4. Len(nests) \in Nat /\ DOMAIN nests = 1..Len(nests) /\ \A i \in 1..Len(nests) : nests[i] \in EntriesOf(b, "nest")
    BY <1>1
<1>5. Pushed(ItemOf(b)) \in Seq({ItemOf(c) : c \in DOMAIN app})
  <2>1. \A i \in 1..Len(nests) : Nested(ItemOf(b), nests[i]) \in {ItemOf(c) : c \in DOMAIN app}
      BY <1>3, <1>4
  <2> QED
      BY <1>2, <1>4, <2>1
<1>6. ASSUME NEW c \in DOMAIN app \ {Root}, SiteOf(c).in = b
      PROVE  \E k \in DOMAIN Pushed(ItemOf(b)) : Pushed(ItemOf(b))[k].bp = c
  <2>1. NestOf(c) \in EntriesOf(b, "nest") /\ NestOf(c).bp = c
      BY <1>6, SiteFacts
  <2>2. PICK k \in DOMAIN nests : nests[k] = NestOf(c)
      BY <1>1, <2>1 DEF ToSet
  <2>3. Pushed(ItemOf(b))[k] = ItemOf(c)
      BY <1>2, <1>3, <2>1, <2>2
  <2> QED
      BY <1>2, <2>2, <2>3 DEF ItemOf, Item
<1>7. ASSUME NEW k \in DOMAIN Pushed(ItemOf(b))
      PROVE  \E c \in DOMAIN app \ {Root} : SiteOf(c).in = b /\ Pushed(ItemOf(b))[k] = ItemOf(c)
  <2>1. k \in DOMAIN nests /\ Pushed(ItemOf(b))[k] = Nested(ItemOf(b), nests[k])
      BY <1>2
  <2>2. nests[k] \in EntriesOf(b, "nest")
      BY <1>4, <2>1
  <2> QED
      BY <1>3, <2>1, <2>2
<1> QED
    BY <1>5, <1>6, <1>7

-----------------------------------------------------------------------------
(* The traversal: as long as nothing is wrong, no blueprint is left out. *)

Items == {ItemOf(b) : b \in DOMAIN app}
CompSet == UNION {RegisteredBy(b) : b \in DOMAIN app}
Pending == {queue[k].bp : k \in DOMAIN queue}
\* The blueprints in D have been processed, and those nested in them are not forgotten.
Processed(D) ==
    /\ D \subseteq DOMAIN app
    /\ \A b \in D : RegisteredBy(b) \subseteq ToSet(comps)
    /\ Root \in D \cup Pending
    /\ \A b \in DOMAIN app \ {Root} : SiteOf(b).in \in D => b \in D \cup Pending
BuildInv ==
    /\ IsApp(app)
    /\ queue \in Seq(Items)
    /\ comps \in Seq(CompSet)
    /\ ~errors => \E D : Processed(D)

LEMMA FrontFacts ==
    ASSUME NEW T, NEW s \in Seq(T), s # << >>
    PROVE  /\ Front(s) \in Seq(T) /\ Last(s) \in T
           /\ \A k \in DOMAIN s : k = Len(s) \/ (k \in DOMAIN Front(s) /\ Front(s)[k] = s[k])
           /\ Len(s) \in DOMAIN s /\ Len(s) \in Nat /\ Len(s) >= 1 /\ Len(Front(s)) = Len(s) - 1
           /\ \A k \in 1..(Len(s) - 1) : Front(s)[k] = s[k]
<1>1. Len(s) \in Nat /\ DOMAIN s = 1..Len(s) /\ Len(s) >= 1 /\ \A k \in 1..Len(s) : s[k] \in T
    OBVIOUS
<1>2. /\ Front(s) \in Seq(T) /\ Len(Front(s)) = Len(s) - 1
      /\ \A k \in 1..(Len(s) - 1) : Front(s)[k] = s[k]
  <2> DEFINE n == Len(s) - 1
  <2>1. n \in Nat /\ \A k \in 1..n : s[k] \in T /\ 1 + k - 1 = k
      BY <1>1
  <2>2. Front(s) = SubSeq(s, 1, n)
      BY DEF Front
  <2>3. n <= Len(s) /\ \A k \in 1..n : k \in 1..Len(s)
      BY <1>1
  <2> HIDE DEF n
  <2>4. SubSeq(s, 1, n) \in Seq(T) /\ Len(SubSeq(s, 1, n)) = n
      BY <1>1, <2>1, <2>3
  <2>5. \A k \in 1..n : SubSeq(s, 1, n)[k] = s[k]
      BY <1>1, <2>1, <2>3
  <2> QED
      BY <2>2, <2>4, <2>5 DEF n
<1>3. DOMAIN Front(s) = 1..(Len(s) - 1)
    BY <1>1, <1>2
<1>4. Len(s) \in 1..Len(s) /\ \A k \in 1..Len(s) : k = Len(s) \/ k \in 1..(Len(s) - 1)
  <2> DEFINE n == Len(s)
  <2>1. n \in Nat /\ n >= 1
      BY <1>1
  <2> HIDE DEF n
  <2>2. n \in 1..n /\ \A k \in 1..n : k = n \/ k \in 1..(n - 1)
      BY <2>1
  <2> QED
      BY <2>2 DEF n
<1>5. Last(s) \in T
    BY <1>1, <1>4 DEF Last
<1> QED
    BY <1>1, <1>2, <1>3, <1>4, <1>5

LEMMA BuildStart == Init => BuildInv
<1> SUFFICES ASSUME Init PROVE BuildInv
    OBVIOUS
<1>1. IsApp(app)
    BY RoutingAssumption DEF Init
<1>2. Root \in DOMAIN app
    BY <1>1 DEF IsApp
<1>3. queue = <<ItemOf(Root)>>
    BY <1>1, PlaceFacts DEF Init, ItemOf, TopPlace, ChainTo, PrefixOf, DomainOf
<1>4. queue \in Seq(Items) /\ queue[1].bp = Root /\ 1 \in DOMAIN queue
  <2> DEFINE x == ItemOf(Root)
  <2>1. x \in Items /\ x.bp = Root
      BY <1>2 DEF Items, ItemOf, Item
  <2> HIDE DEF x
  <2>2. <<x>> \in Seq(Items) /\ <<x>>[1] = x /\ DOMAIN <<x>> = 1..1
      BY <2>1
  <2> QED
      BY <1>3, <2>1, <2>2 DEF x
<1>5. comps \in Seq(CompSet)
  <2>1. comps = << >>
      BY DEF Init
  <2> QED
      BY <2>1
<1>6. Processed({})
    BY <1>4 DEF Processed, Pending
<1> QED
    BY <1>1, <1>4, <1>5, <1>6 DEF BuildInv

LEMMA ProcessBlueprintKeepsBuild ==
    ASSUME BuildInv, ProcessBlueprint
    PROVE  BuildInv'
<1> DEFINE item == Last(queue)
<1>0. IsApp(app) /\ app' = app /\ queue # << >> /\ queue \in Seq(Items) /\ comps \in Seq(CompSet)
    BY DEF ProcessBlueprint, BuildInv
<1>1. /\ \A b : SiteOf(b)' = SiteOf(b) /\ HasFallback(b)' = HasFallback(b)
      /\ \A i : Registered(i)' = Registered(i)
      /\ PlaceOf' = PlaceOf
    BY <1>0 DEF SiteOf, Sites, HasFallback, Registered, PlaceOf, NestOf
<1>2. \A b : ItemOf(b)' = ItemOf(b)
    BY <1>1 DEF ItemOf, ChainTo, PrefixOf, DomainOf
<1>3. \A b : RegisteredBy(b)' = RegisteredBy(b)
    BY <1>1, <1>2 DEF RegisteredBy
<1>4. Items' = Items
    BY <1>0, <1>2 DEF Items
<1>5. CompSet' = CompSet
    BY <1>0, <1>3 DEF CompSet
<1>6. /\ Front(queue) \in Seq(Items) /\ item \in Items
      /\ \A k \in DOMAIN queue : k = Len(queue) \/ (k \in DOMAIN Front(queue) /\ Front(queue)[k] = queue[k])
    BY <1>0, FrontFacts
<1>7. PICK b \in DOMAIN app : item = ItemOf(b)
    BY <1>6 DEF Items
<1>8. CASE errors' = TRUE /\ queue' = Front(queue) /\ comps' = comps
    BY <1>0, <1>4, <1>5, <1>6, <1>8 DEF BuildInv
<1>9. CASE comps' = comps \o Registered(item) /\ queue' = Front(queue) \o Pushed(item) /\ errors' = errors
  <2>1. Registered(item) \in Seq(CompSet)
    <3>1. Registered(item) \in Seq(RegisteredBy(b)) /\ RegisteredBy(b) \subseteq CompSet
        BY <1>0, <1>7, RegisteredFacts DEF CompSet
    <3> QED
        BY <3>1
  <2>2. comps' \in Seq(CompSet) /\ ToSet(comps') = ToSet(comps) \cup RegisteredBy(b)
    <3> HIDE DEF item
    <3>1. comps \o Registered(item) \in Seq(CompSet)
          /\ ToSet(comps \o Registered(item)) = ToSet(comps) \cup ToSet(Registered(item))
        BY <1>0, <2>1, ConcatFacts
    <3> QED
        BY <1>7, <1>9, <3>1 DEF RegisteredBy
  <2>3. Pushed(item) \in Seq(Items)
    <3>1. Pushed(ItemOf(b)) \in Seq({ItemOf(c) : c \in DOMAIN app})
        BY <1>0, PushedFacts
    <3> QED
        BY <1>7, <3>1, Zenon DEF Items
  <2> DEFINE f == Front(queue)
             p == Pushed(item)
  <2>4. f \in Seq(Items) /\ p \in Seq(Items) /\ queue' = f \o p
      BY <1>6, <1>9, <2>3
  <2>5. ToSet(queue') = ToSet(f) \cup ToSet(p) /\ queue' \in Seq(Items)
    <3> HIDE DEF f, p
    <3> QED
        BY <2>4, ConcatFacts
  <2>6. \A c : c \in Pending' <=> \E x \in ToSet(queue') : x.bp = c
      BY DEF Pending, ToSet
  <2>7. \A c : c \in Pending <=> \E x \in ToSet(queue) : x.bp = c
      BY DEF Pending, ToSet
  <2>8. ASSUME NEW c \in Pending PROVE c \in Pending' \cup {b}
    <3>1. PICK k \in DOMAIN queue : queue[k].bp = c
        BY <2>8 DEF Pending
    <3>2. CASE k = Len(queue)
      <4>1. queue[k] = item
          BY <3>2 DEF Last
      <4>2. item.bp = b
          BY <1>7 DEF ItemOf, Item
      <4> QED
          BY <3>1, <4>1, <4>2
    <3>3. CASE k # Len(queue)
      <4>1. k \in DOMAIN f /\ f[k] = queue[k]
          BY <1>6, <3>3
      <4>2. f[k] \in ToSet(f)
          BY <4>1 DEF ToSet
      <4> QED
          BY <2>5, <2>6, <3>1, <4>1, <4>2
    <3> QED
        BY <3>2, <3>3
  <2>9. ASSUME NEW c \in DOMAIN app \ {Root}, SiteOf(c).in = b PROVE c \in Pending'
    <3>5. \A d \in DOMAIN app \ {Root} :
              SiteOf(d).in = b => \E k \in DOMAIN Pushed(ItemOf(b)) : Pushed(ItemOf(b))[k].bp = d
        BY <1>0, PushedFacts
    <3>3. \E k \in DOMAIN Pushed(ItemOf(b)) : Pushed(ItemOf(b))[k].bp = c
        BY <2>9, <3>5
    <3>4. p = Pushed(ItemOf(b))
        BY <1>7
    <3> HIDE DEF p
    <3>1. PICK k \in DOMAIN p : p[k].bp = c
        BY <3>3, <3>4
    <3>2. p[k] \in ToSet(p)
        BY DEF ToSet
    <3> QED
        BY <2>5, <2>6, <3>1, <3>2
  <2>10. ASSUME ~errors' PROVE \E D : Processed(D)'
    <3>1. PICK D : Processed(D)
        BY <1>9, <2>10 DEF BuildInv
    <3>2. ASSUME NEW c \in D \cup {b} PROVE RegisteredBy(c)' \subseteq ToSet(comps')
        BY <1>3, <2>2, <3>1 DEF Processed
    <3>3. Root \in (D \cup {b}) \cup Pending'
        BY <2>8, <3>1 DEF Processed
    <3>4. ASSUME NEW c \in DOMAIN app \ {Root}, SiteOf(c).in \in D \cup {b} PROVE c \in (D \cup {b}) \cup Pending'
        BY <2>8, <2>9, <3>1, <3>4 DEF Processed
    <3>5. D \cup {b} \subseteq DOMAIN app
        BY <3>1 DEF Processed
    <3>6. Processed(D \cup {b})'
      <4> DEFINE E == D \cup {b}
      <4>1. /\ E \subseteq DOMAIN app'
            /\ \A c \in E : RegisteredBy(c)' \subseteq ToSet(comps')
            /\ Root \in E \cup Pending'
            /\ \A c \in (DOMAIN app') \ {Root} : SiteOf(c)'.in \in E => c \in E \cup Pending'
        <5> HIDE DEF item, f, p
        <5>1. DOMAIN app' = DOMAIN app
            BY <1>0
        <5>2. \A c : SiteOf(c)' = SiteOf(c)
            BY <1>1
        <5> QED
            BY <3>2, <3>3, <3>4, <3>5, <5>1, <5>2
      <4> HIDE DEF E
      <4>2. Processed(E)'
          BY <4>1, Zenon DEF Processed
      <4> QED
          BY <4>2 DEF E
    <3> QED
        BY <3>6
  <2> QED
      BY <1>0, <1>4, <1>5, <2>2, <2>5, <2>10 DEF BuildInv
<1> QED
    BY <1>8, <1>9 DEF ProcessBlueprint

LEMMA OthersKeepBuild ==
    ASSUME BuildInv, UNCHANGED <<app, queue, comps, errors>>
    PROVE  BuildInv'
<1>1. app' = app /\ queue' = queue /\ comps' = comps /\ errors' = errors
    OBVIOUS
<1>2. /\ \A b : SiteOf(b)' = SiteOf(b)
      /\ \A i : Registered(i)' = Registered(i)
      /\ PlaceOf' = PlaceOf
      /\ Pending' = Pending
    BY <1>1 DEF SiteOf, Sites, Registered, PlaceOf, NestOf, Pending
<1>3. \A b : RegisteredBy(b)' = RegisteredBy(b) /\ ItemOf(b)' = ItemOf(b)
    BY <1>2 DEF ItemOf, ChainTo, PrefixOf, DomainOf, RegisteredBy
<1>4. \A D : Processed(D)' = Processed(D)
    BY <1>1, <1>2, <1>3 DEF Processed
<1>5. Items' = Items /\ CompSet' = CompSet
    BY <1>1, <1>3 DEF Items, CompSet
<1> QED
    BY <1>1, <1>4, <1>5 DEF BuildInv

\* When no blueprint is left, the components are those of all blueprints.
LEMMA AllRegistered ==
    ASSUME BuildInv, queue = << >>, ~errors
    PROVE  \A b \in DOMAIN app : RegisteredBy(b) \subseteq ToSet(comps)
<1>1. PICK D : Processed(D)
    BY DEF BuildInv
<1>2. Pending = {}
    BY DEF Pending
<1>3. \A b \in DOMAIN app : b \in D
    BY <1>1, <1>2, DownTheTree DEF Processed, BuildInv
<1> QED
    BY <1>1, <1>3 DEF Processed

-----------------------------------------------------------------------------
(* The router of a set of components. *)

RouteStep(ids, leaves, i) == IF i \in ids THEN AddRoute(leaves, i) ELSE leaves
FallbackStep(ids, leaves, i) == IF i \in ids THEN AddFallback(leaves, i) ELSE leaves
Routed == INSTANCE FoldFacts WITH Step <- RouteStep
Claimed == INSTANCE FoldFacts WITH Step <- FallbackStep

UpToId(ids, k) == {i \in ids : i <= k}
PathsOf(R) == {comps[i].path : i \in R}
RoutesOn(R, p) == {i \in R : comps[i].path = p}
\* The leaf of a path, after the routes in R.
IsLeaf(R, p, leaf) ==
    /\ leaf = [handlers |-> leaf.handlers, fallback |-> leaf.fallback]
    /\ leaf.handlers \subseteq RoutesOn(R, p)
    /\ \/ leaf.fallback \in RoutesOn(R, p) /\ comps[leaf.fallback].methods = AllMethods
       \/ /\ leaf.handlers = RoutesOn(R, p)
          /\ \E j \in RoutesOn(R, p) : comps[j].methods # AllMethods /\ leaf.fallback = FallbackOf(comps[j].chain)
AreLeaves(R, leaves) == DOMAIN leaves = PathsOf(R) /\ \A p \in PathsOf(R) : IsLeaf(R, p, leaves[p])

LEMMA AddRouteFacts ==
    ASSUME NEW R, NEW leaves, AreLeaves(R, leaves), NEW i
    PROVE  AreLeaves(R \cup {i}, AddRoute(leaves, i))
<1> DEFINE c == comps[i]
           S == R \cup {i}
           new == IF c.methods = AllMethods THEN [handlers |-> {}, fallback |-> i]
                  ELSE IF c.path \in DOMAIN leaves THEN [leaves[c.path] EXCEPT !.handlers = @ \cup {i}]
                  ELSE [handlers |-> {i}, fallback |-> FallbackOf(c.chain)]
           all == AddRoute(leaves, i)
<1>1. all = [p \in DOMAIN leaves \cup {c.path} |-> IF p = c.path THEN new ELSE leaves[p]]
    BY DEF AddRoute, With
<1>2. PathsOf(S) = PathsOf(R) \cup {c.path} /\ DOMAIN all = PathsOf(S)
    BY <1>1 DEF PathsOf, AreLeaves
<1>3. i \in RoutesOn(S, c.path) /\ RoutesOn(S, c.path) = RoutesOn(R, c.path) \cup {i}
    BY DEF RoutesOn
<1>4. IsLeaf(S, c.path, new)
  <2>1. CASE c.methods = AllMethods
    <3>1. new.handlers = {} /\ new.fallback = i /\ new = [handlers |-> new.handlers, fallback |-> new.fallback]
        BY <2>1
    <3> HIDE DEF new
    <3> QED
        BY <1>3, <2>1, <3>1 DEF IsLeaf
  <2>2. CASE c.methods # AllMethods /\ c.path \in DOMAIN leaves
    <3> DEFINE old == leaves[c.path]
    <3>1. IsLeaf(R, c.path, old)
        BY <2>2 DEF AreLeaves
    <3>2. new = [old EXCEPT !.handlers = @ \cup {i}]
        BY <2>2
    <3> HIDE DEF old, new
    <3>3. old = [handlers |-> old.handlers, fallback |-> old.fallback]
        BY <3>1 DEF IsLeaf
    <3>4. PICK h, f : old = [handlers |-> h, fallback |-> f]
        BY <3>3
    <3>5. new = [handlers |-> h \cup {i}, fallback |-> f]
        BY <3>2, <3>4
    <3>6. new.handlers = old.handlers \cup {i} /\ new.fallback = old.fallback
          /\ new = [handlers |-> new.handlers, fallback |-> new.fallback]
        BY <3>4, <3>5
    <3>7. /\ new.handlers \subseteq RoutesOn(S, c.path)
          /\ new.fallback \in RoutesOn(R, c.path) => new.fallback \in RoutesOn(S, c.path)
          /\ old.handlers = RoutesOn(R, c.path) => new.handlers = RoutesOn(S, c.path)
          /\ RoutesOn(R, c.path) \subseteq RoutesOn(S, c.path)
        BY <1>3, <3>1, <3>6 DEF IsLeaf
    <3> QED
        BY <3>1, <3>6, <3>7 DEF IsLeaf
  <2>3. CASE c.methods # AllMethods /\ c.path \notin DOMAIN leaves
    <3>1. RoutesOn(R, c.path) = {}
        BY <2>3 DEF AreLeaves, RoutesOn, PathsOf
    <3>2. new = [handlers |-> {i}, fallback |-> FallbackOf(c.chain)]
        BY <2>3
    <3> HIDE DEF new
    <3>3. new.handlers = {i} /\ new.fallback = FallbackOf(c.chain)
          /\ new = [handlers |-> new.handlers, fallback |-> new.fallback]
        BY <3>2
    <3>4. new.handlers = RoutesOn(S, c.path)
        BY <1>3, <3>1, <3>3
    <3>5. comps[i].methods # AllMethods /\ new.fallback = FallbackOf(comps[i].chain)
        BY <2>3, <3>3
    <3>6. \E j \in RoutesOn(S, c.path) : comps[j].methods # AllMethods /\ new.fallback = FallbackOf(comps[j].chain)
        BY <1>3, <3>5
    <3> QED
        BY <3>3, <3>4, <3>6 DEF IsLeaf
  <2> QED
      BY <2>1, <2>2, <2>3
<1> HIDE DEF new
<1>5. ASSUME NEW p \in PathsOf(S) PROVE IsLeaf(S, p, all[p])
  <2>1. CASE p = c.path
    <3>1. all[p] = new
        BY <1>1, <2>1
    <3> QED
        BY <1>4, <2>1, <3>1
  <2>2. CASE p # c.path
    <3>1. p \in PathsOf(R) /\ p \in DOMAIN leaves
        BY <1>2, <2>2 DEF AreLeaves
    <3>2. all[p] = leaves[p]
        BY <1>1, <2>2, <3>1
    <3>3. RoutesOn(S, p) = RoutesOn(R, p)
        BY <2>2 DEF RoutesOn
    <3>4. IsLeaf(R, p, leaves[p])
        BY <3>1 DEF AreLeaves
    <3> QED
        BY <3>2, <3>3, <3>4 DEF IsLeaf
  <2> QED
      BY <2>1, <2>2
<1> HIDE DEF all, S
<1>6. AreLeaves(S, all)
    BY <1>2, <1>5 DEF AreLeaves
<1> QED
    BY <1>6 DEF all, S

LEMMA RouteLeaves ==
    ASSUME Len(comps) \in Nat, DOMAIN comps = 1..Len(comps), NEW ids \in SUBSET Ids
    PROVE  AreLeaves(ids, InOrder(AddRoute, << >>, ids))
<1> DEFINE n == Len(comps)
           s == [i \in Ids |-> i]
<1>1. n \in Nat /\ Ids = 1..n
    BY DEF Ids
<1>2. Len(s) = n /\ \A i \in 1..n : s[i] = i
    BY <1>1
<1>3. InOrder(AddRoute, << >>, ids) = Routed!Folded(ids, << >>, s)
    BY DEF InOrder, Accumulate, Routed!Folded, RouteStep
<1> HIDE DEF s, n
<1>4. PICK u : Routed!IsTrace(ids, << >>, s, n, u) /\ Routed!Folded(ids, << >>, s) = u[n]
    BY <1>1, <1>2, Routed!FoldHasTrace
<1> DEFINE S == {k \in 0..n : AreLeaves(UpToId(ids, k), u[k])}
<1>10. \A i \in ids : i \in Nat /\ i >= 1 /\ i <= n
  <2>1. \A i \in ids : i \in 1..n
      BY <1>1
  <2> QED
      BY <1>1, <2>1
<1>5. 0 \in S
  <2>1. UpToId(ids, 0) = {}
    <3>1. \A i \in ids : ~(i <= 0)
        BY <1>10
    <3> QED
        BY <3>1 DEF UpToId
  <2>2. u[0] = << >>
      BY <1>4 DEF Routed!IsTrace
  <2>3. AreLeaves({}, << >>)
      BY DEF AreLeaves, PathsOf
  <2>4. AreLeaves(UpToId(ids, 0), u[0])
      BY <2>1, <2>2, <2>3, Zenon
  <2>5. 0 \in 0..n
      BY <1>1
  <2> QED
      BY <2>4, <2>5
<1>6. ASSUME NEW k \in 1..n, k - 1 \in S PROVE k \in S
  <2>1. AreLeaves(UpToId(ids, k - 1), u[k - 1])
      BY <1>6
  <2>2. u[k] = RouteStep(ids, u[k - 1], k)
      BY <1>2, <1>4 DEF Routed!IsTrace
  <2>3. \A i \in ids : i <= k <=> i <= k - 1 \/ i = k
      BY <1>1
  <2>4. CASE k \in ids
    <3>1. UpToId(ids, k) = UpToId(ids, k - 1) \cup {k}
        BY <2>3, <2>4 DEF UpToId
    <3>2. AreLeaves(UpToId(ids, k), AddRoute(u[k - 1], k))
        BY <2>1, <3>1, AddRouteFacts
    <3>3. k \in 0..n
        BY <1>1
    <3> QED
        BY <2>2, <2>4, <3>2, <3>3 DEF RouteStep
  <2>5. CASE k \notin ids
    <3>1. UpToId(ids, k) = UpToId(ids, k - 1)
        BY <2>3, <2>5 DEF UpToId
    <3>2. k \in 0..n
        BY <1>1
    <3> QED
        BY <2>1, <2>2, <2>5, <3>1, <3>2 DEF RouteStep
  <2> QED
      BY <2>4, <2>5
<1>7. \A k \in 0..n : k \in S
  <2> HIDE DEF S
  <2> QED
      BY <1>1, <1>5, <1>6, Listed!UpTo
<1>8. n \in 0..n /\ UpToId(ids, n) = ids
  <2>1. n \in 0..n
      BY <1>1
  <2>2. UpToId(ids, n) = ids
      BY <1>10 DEF UpToId
  <2> QED
      BY <2>1, <2>2
<1>9. AreLeaves(ids, u[n])
    BY <1>7, <1>8
<1> QED
    BY <1>3, <1>4, <1>9

CatchAllsOf(Q) == {CatchAll(comps[i].prefix) : i \in Q}
\* The leaves after the fallbacks in Q.
WithCatchAlls(leaves, Q, all) ==
    /\ DOMAIN all = DOMAIN leaves \cup CatchAllsOf(Q)
    /\ \A p \in DOMAIN leaves : all[p] = leaves[p]
    /\ \A p \in CatchAllsOf(Q) :
          all[p].handlers = {} /\ all[p].fallback \in Q /\ CatchAll(comps[all[p].fallback].prefix) = p

LEMMA CatchAllLeaves ==
    ASSUME Len(comps) \in Nat, DOMAIN comps = 1..Len(comps), NEW ids \in SUBSET Ids, NEW leaves,
           DOMAIN leaves \cap CatchAllsOf(ids) = {}
    PROVE  WithCatchAlls(leaves, ids, InOrder(AddFallback, leaves, ids))
<1> DEFINE n == Len(comps)
           s == [i \in Ids |-> i]
<1>1. n \in Nat /\ Ids = 1..n
    BY DEF Ids
<1>2. Len(s) = n /\ \A i \in 1..n : s[i] = i
    BY <1>1
<1>3. InOrder(AddFallback, leaves, ids) = Claimed!Folded(ids, leaves, s)
    BY DEF InOrder, Accumulate, Claimed!Folded, FallbackStep
<1> HIDE DEF s, n
<1>4. PICK u : Claimed!IsTrace(ids, leaves, s, n, u) /\ Claimed!Folded(ids, leaves, s) = u[n]
    BY <1>1, <1>2, Claimed!FoldHasTrace
<1> DEFINE S == {k \in 0..n : WithCatchAlls(leaves, UpToId(ids, k), u[k])}
<1>10. \A i \in ids : i \in Nat /\ i >= 1 /\ i <= n
  <2>1. \A i \in ids : i \in 1..n
      BY <1>1
  <2> QED
      BY <1>1, <2>1
<1>5. 0 \in S
  <2>1. UpToId(ids, 0) = {}
    <3>1. \A i \in ids : ~(i <= 0)
        BY <1>10
    <3> QED
        BY <3>1 DEF UpToId
  <2>2. u[0] = leaves
      BY <1>4 DEF Claimed!IsTrace
  <2>3. WithCatchAlls(leaves, {}, leaves)
      BY DEF WithCatchAlls, CatchAllsOf
  <2>4. WithCatchAlls(leaves, UpToId(ids, 0), u[0]) /\ 0 \in 0..n
      BY <1>1, <2>1, <2>2, <2>3
  <2> QED
      BY <2>4
<1>6. ASSUME NEW k \in 1..n, k - 1 \in S PROVE k \in S
  <2> DEFINE Q == UpToId(ids, k - 1)
             v == u[k - 1]
  <2>1. WithCatchAlls(leaves, Q, v)
      BY <1>6
  <2>2. u[k] = FallbackStep(ids, v, k)
      BY <1>2, <1>4 DEF Claimed!IsTrace
  <2>3. \A i \in ids : i <= k <=> i <= k - 1 \/ i = k
      BY <1>1
  <2>4. CASE k \in ids
    <3>1. UpToId(ids, k) = Q \cup {k}
        BY <2>3, <2>4 DEF UpToId
    <3> DEFINE c == CatchAll(comps[k].prefix)
               leaf == [handlers |-> {}, fallback |-> k]
               w == u[k]
    <3>2. w = [p \in DOMAIN v \cup {c} |-> IF p = c THEN leaf ELSE v[p]]
        BY <2>2, <2>4 DEF FallbackStep, AddFallback, With
    <3>3. CatchAllsOf(Q \cup {k}) = CatchAllsOf(Q) \cup {c} /\ c \in CatchAllsOf(ids)
        BY <2>4 DEF CatchAllsOf
    <3>4. c \notin DOMAIN leaves
        BY <3>3
    <3>5. leaf.handlers = {} /\ leaf.fallback = k
        OBVIOUS
    <3> HIDE DEF c, w, v, Q, leaf
    <3>6. WithCatchAlls(leaves, Q \cup {k}, w)
      <4>1. DOMAIN w = DOMAIN leaves \cup CatchAllsOf(Q \cup {k})
          BY <2>1, <3>2, <3>3 DEF WithCatchAlls
      <4>2. \A p \in DOMAIN leaves : w[p] = leaves[p]
          BY <2>1, <3>2, <3>4 DEF WithCatchAlls
      <4>3. ASSUME NEW p \in CatchAllsOf(Q \cup {k})
            PROVE  w[p].handlers = {} /\ w[p].fallback \in Q \cup {k} /\ CatchAll(comps[w[p].fallback].prefix) = p
        <5>1. CASE p = c
          <6>1. w[p] = leaf
              BY <3>2, <5>1
          <6> QED
              BY <3>5, <5>1, <6>1 DEF c
        <5>2. CASE p # c
          <6>1. p \in CatchAllsOf(Q) /\ w[p] = v[p]
              BY <2>1, <3>2, <3>3, <5>2 DEF WithCatchAlls
          <6> QED
              BY <2>1, <6>1 DEF WithCatchAlls
        <5> QED
            BY <5>1, <5>2
      <4> QED
          BY <4>1, <4>2, <4>3 DEF WithCatchAlls
    <3>7. k \in 0..n
        BY <1>1
    <3> QED
        BY <3>1, <3>6, <3>7 DEF w
  <2>5. CASE k \notin ids
    <3>1. UpToId(ids, k) = Q
        BY <2>3, <2>5 DEF UpToId
    <3>2. k \in 0..n
        BY <1>1
    <3> QED
        BY <2>1, <2>2, <2>5, <3>1, <3>2 DEF FallbackStep
  <2> QED
      BY <2>4, <2>5
<1>7. \A k \in 0..n : k \in S
  <2> HIDE DEF S
  <2> QED
      BY <1>1, <1>5, <1>6, Listed!UpTo
<1>8. n \in 0..n /\ UpToId(ids, n) = ids
  <2>1. n \in 0..n
      BY <1>1
  <2>2. UpToId(ids, n) = ids
      BY <1>10 DEF UpToId
  <2> QED
      BY <2>1, <2>2
<1>9. WithCatchAlls(leaves, ids, u[n])
    BY <1>7, <1>8
<1> QED
    BY <1>3, <1>4, <1>9

-----------------------------------------------------------------------------
(* The least and the greatest of a set of numbers. *)

LEMMA LeastOf ==
    ASSUME NEW S \in SUBSET Nat, S # {}
    PROVE  \E m \in S : \A k \in S : m <= k
<1>1. IsWellFoundedOn(OpToRel(<, Nat), Nat)
    BY NatLessThanWellFounded, Zenon
<1> DEFINE R == OpToRel(<, Nat)
<1>2. PICK m \in S : \A k \in S : ~ (<<k, m>> \in R)
  <2> HIDE DEF R
  <2> QED
      BY <1>1, WFMin DEF R
<1>3. \A k \in S : ~ (k < m)
    BY <1>2 DEF OpToRel
<1> QED
    BY <1>3

LEMMA GreatestOf ==
    ASSUME NEW n \in Nat, NEW S \in SUBSET (0..n), S # {}
    PROVE  \E m \in S : \A k \in S : k <= m
<1> DEFINE T == {n - k : k \in S}
<1>1. T \in SUBSET Nat /\ T # {}
  <2>1. \A k \in S : n - k \in Nat
    <3>1. \A k \in S : k \in 0..n
        OBVIOUS
    <3> QED
        BY <3>1
  <2>2. PICK k : k \in S
      OBVIOUS
  <2>3. n - k \in T
      BY <2>2
  <2> QED
      BY <2>1, <2>3
<1>2. PICK l \in T : \A k \in T : l <= k
  <2> HIDE DEF T
  <2> QED
      BY <1>1, LeastOf
<1>3. PICK m \in S : l = n - m
    BY <1>2
<1>4. ASSUME NEW k \in S PROVE k <= m
  <2>1. n - k \in T
      OBVIOUS
  <2>2. n - m <= n - k
      BY <1>2, <1>3, <2>1
  <2> QED
      BY <2>2
<1> QED
    BY <1>4

-----------------------------------------------------------------------------
(* Components, and the fallbacks of their scopes. *)

Owns(b, i) == comps[i] \in Handlers(b) \/ (IsFallbackOf(comps[i], b) /\ HasFallback(b))

LEMMA CompFacts ==
    ASSUME BuildInv
    PROVE  /\ Len(comps) \in Nat /\ DOMAIN comps = 1..Len(comps) /\ Ids = DOMAIN comps
           /\ \A i \in Ids : \E b \in DOMAIN app : Owns(b, i)
<1>1. comps \in Seq(CompSet) /\ IsApp(app)
    BY DEF BuildInv
<1>2. Len(comps) \in Nat /\ DOMAIN comps = 1..Len(comps) /\ \A i \in 1..Len(comps) : comps[i] \in CompSet
    BY <1>1
<1>3. ASSUME NEW i \in Ids PROVE \E b \in DOMAIN app : Owns(b, i)
  <2>1. PICK b \in DOMAIN app : comps[i] \in RegisteredBy(b)
      BY <1>2 DEF CompSet, Ids
  <2> QED
      BY <1>1, <2>1, RegisteredFacts DEF Owns
<1> QED
    BY <1>2, <1>3 DEF Ids

LEMMA JoinFacts ==
    ASSUME NEW prefix \in Seq(STRING), NEW path \in Patterns
    PROVE  Join(prefix, path) \in Patterns
<1> DEFINE s == path.segs
           t == path.tail
<1>1. s \in Seq(STRING) /\ t \in STRING \cup {NoTail} /\ path = [segs |-> s, tail |-> t]
    BY DEF Patterns
<1>2. Join(prefix, path) = [path EXCEPT !.segs = prefix \o s]
    BY DEF Join
<1> HIDE DEF s, t
<1>3. prefix \o s \in Seq(STRING)
    BY <1>1
<1> DEFINE u == prefix \o s
<1> HIDE DEF u
<1>4. Join(prefix, path) = [segs |-> u, tail |-> t]
    BY <1>1, <1>2 DEF u
<1>5. u \in Seq(STRING)
    BY <1>3 DEF u
<1> QED
    BY <1>1, <1>4, <1>5 DEF Patterns

LEMMA CatchAllFacts ==
    ASSUME NEW prefix \in Seq(STRING), prefix # << >>
    PROVE  CatchAll(prefix) \in Patterns
<1>1. Front(prefix) \in Seq(STRING) /\ Last(prefix) \in STRING
    BY FrontFacts
<1> DEFINE f == Front(prefix)
           l == Last(prefix)
<1>2. CatchAll(prefix) = [segs |-> f, tail |-> l]
    BY DEF CatchAll
<1> HIDE DEF f, l
<1>3. f \in Seq(STRING) /\ l \in STRING
    BY <1>1 DEF f, l
<1> QED
    BY <1>2, <1>3 DEF Patterns

\* The chain of a scope.
Chains == {c \in Seq(DOMAIN app) : Len(c) >= 1 /\ c[1] = Root}

LEMMA CompTyped ==
    ASSUME BuildInv, NEW i \in Ids
    PROVE  /\ comps[i].chain \in Chains /\ comps[i].domain \in Patterns
           /\ \/ comps[i].kind = "route" /\ comps[i].path \in Patterns
              \/ comps[i].kind = "fallback" /\ comps[i].prefix \in Seq(STRING)
<1>1. IsApp(app)
    BY DEF BuildInv
<1>2. PICK b \in DOMAIN app : Owns(b, i)
    BY CompFacts
<1>3. /\ ChainTo(b) \in Chains /\ DomainOf(b) \in Patterns /\ PrefixOf(b) \in Seq(STRING)
  <2>1. PlaceOf[b] \in Places /\ Len(ChainTo(b)) >= 1 /\ ChainTo(b)[1] = Root
      BY <1>1, PlaceTyped
  <2> QED
      BY <2>1 DEF Places, Chains, ChainTo, DomainOf, PrefixOf
<1>4. CASE comps[i] \in Handlers(b)
  <2>1. PICK e \in EntriesOf(b, "route") : comps[i] = HandlerOf(b, e)
      BY <1>4 DEF Handlers
  <2>2. e.path \in Patterns
      BY <1>1, EntryFacts
  <2>3. comps[i].kind = "route" /\ comps[i].chain = ChainTo(b) /\ comps[i].domain = DomainOf(b)
        /\ comps[i].path = Join(PrefixOf(b), e.path)
      BY <2>1 DEF HandlerOf
  <2> QED
      BY <1>3, <2>2, <2>3, JoinFacts
<1>5. CASE IsFallbackOf(comps[i], b)
    BY <1>3, <1>5 DEF IsFallbackOf
<1> QED
    BY <1>2, <1>4, <1>5 DEF Owns

\* Everything has been registered.
Complete == BuildInv /\ queue = << >> /\ ~errors

LEMMA RegistrationsKept ==
    ASSUME Complete, NEW b \in DOMAIN app
    PROVE  /\ \A e \in EntriesOf(b, "route") : \E i \in Ids : comps[i] = HandlerOf(b, e)
           /\ HasFallback(b) => \E i \in Ids : IsFallbackOf(comps[i], b)
<1>1. RegisteredBy(b) \subseteq ToSet(comps) /\ IsApp(app)
    BY AllRegistered DEF Complete, BuildInv
<1>2. \A c \in RegisteredBy(b) : \E i \in Ids : comps[i] = c
    BY <1>1 DEF ToSet, Ids
<1>3. Handlers(b) \subseteq RegisteredBy(b) /\ (HasFallback(b) => \E c \in RegisteredBy(b) : IsFallbackOf(c, b))
    BY <1>1, RegisteredFacts
<1>4. ASSUME NEW e \in EntriesOf(b, "route") PROVE \E i \in Ids : comps[i] = HandlerOf(b, e)
  <2>1. HandlerOf(b, e) \in RegisteredBy(b)
      BY <1>3 DEF Handlers
  <2> QED
      BY <1>2, <2>1
<1>5. HasFallback(b) => \E i \in Ids : IsFallbackOf(comps[i], b)
    BY <1>2, <1>3
<1> QED
    BY <1>4, <1>5

LEMMA TopFallback ==
    ASSUME Complete
    PROVE  \E i \in Fallbacks(Ids) : comps[i].chain = <<Root>> /\ comps[i].domain = NoDomain
<1>1. IsApp(app)
    BY DEF Complete, BuildInv
<1>2. Root \in DOMAIN app /\ HasFallback(Root)
    BY <1>1 DEF IsApp, HasFallback
<1>3. PICK i \in Ids : IsFallbackOf(comps[i], Root)
    BY <1>2, RegistrationsKept
<1>4. ChainTo(Root) = <<Root>> /\ DomainOf(Root) = NoDomain
    BY <1>1, PlaceFacts DEF TopPlace, ChainTo, DomainOf
<1> QED
    BY <1>3, <1>4 DEF IsFallbackOf, Fallbacks

LEMMA PrefixFacts ==
    ASSUME NEW T, NEW s \in Seq(T), NEW t \in Seq(T)
    PROVE  IsPrefix(s, t) <=> Len(s) <= Len(t) /\ \A j \in 1..Len(s) : s[j] = t[j]
<1> DEFINE n == Len(s)
<1>1. n \in Nat /\ Len(t) \in Nat
    OBVIOUS
<1>2. ASSUME n <= Len(t) PROVE SubSeq(s, 1, n) = SubSeq(t, 1, n) <=> \A j \in 1..n : s[j] = t[j]
  <2> DEFINE a == SubSeq(s, 1, n)
             b == SubSeq(t, 1, n)
  <2>1. a \in Seq(T) /\ b \in Seq(T) /\ Len(a) = n /\ Len(b) = n
        /\ (\A j \in 1..n : a[j] = s[j]) /\ (\A j \in 1..n : b[j] = t[j])
    <3>1. \A j \in 1..n : j \in 1..Len(t) /\ 1 + j - 1 = j
        BY <1>1, <1>2
    <3> QED
        BY <1>1, <1>2, <3>1
  <2> HIDE DEF a, b, n
  <2>2. a = b <=> \A j \in 1..n : a[j] = b[j]
      BY <2>1
  <2>3. a = b <=> \A j \in 1..n : s[j] = t[j]
      BY <2>1, <2>2
  <2> QED
      BY <2>3 DEF a, b
<1> QED
    BY <1>1, <1>2 DEF IsPrefix

\* find_fallback_id finds one, as there is always the top-level blueprint's, and
\* no other around the scope is further in.
LEMMA FallbackExists ==
    ASSUME Complete, NEW chain \in Chains
    PROVE  /\ FallbackOf(chain) \in Fallbacks(Ids)
           /\ IsPrefix(comps[FallbackOf(chain)].chain, chain)
           /\ \A j \in Fallbacks(Ids) :
                 IsPrefix(comps[j].chain, chain) => IsPrefix(comps[j].chain, comps[FallbackOf(chain)].chain)
<1> DEFINE around == {i \in Fallbacks(Ids) : IsPrefix(comps[i].chain, chain)}
           n == Len(chain)
           L == {Len(comps[i].chain) : i \in around}
<1>1. n \in Nat /\ n >= 1 /\ chain[1] = Root /\ chain \in Seq(DOMAIN app)
    BY DEF Chains
<1>2. BuildInv
    BY DEF Complete
<1>3. \A i \in around : comps[i].chain \in Seq(DOMAIN app) /\ Len(comps[i].chain) \in Nat
    BY <1>2, CompTyped DEF Fallbacks, Chains
<1>4. ASSUME NEW i \in around
      PROVE  Len(comps[i].chain) <= n /\ \A j \in 1..Len(comps[i].chain) : comps[i].chain[j] = chain[j]
  <2>1. IsPrefix(comps[i].chain, chain)
      OBVIOUS
  <2> HIDE DEF around
  <2> QED
      BY <1>1, <1>3, <2>1, PrefixFacts
<1>5. \E i \in around : TRUE
  <2>1. PICK i \in Fallbacks(Ids) : comps[i].chain = <<Root>>
      BY TopFallback
  <2>2. <<Root>> \in Seq(DOMAIN app) /\ Len(<<Root>>) = 1 /\ <<Root>>[1] = Root
    <3>1. Root \in DOMAIN app
        BY <1>2 DEF BuildInv, IsApp
    <3> QED
        BY <3>1
  <2> DEFINE r == <<Root>>
  <2>3. \A j \in 1..1 : r[j] = chain[j]
      BY <1>1, <2>2
  <2> HIDE DEF r
  <2>4. IsPrefix(r, chain)
      BY <1>1, <2>2, <2>3, PrefixFacts DEF r
  <2> QED
      BY <2>1, <2>4 DEF r
<1>6. L \in SUBSET (0..n) /\ L # {}
  <2> HIDE DEF around, n
  <2>1. \A i \in around : Len(comps[i].chain) \in 0..n
      BY <1>1, <1>3, <1>4
  <2> QED
      BY <1>5, <2>1
<1>7. PICK m \in L : \A k \in L : k <= m
  <2> HIDE DEF L, n
  <2> QED
      BY <1>1, <1>6, GreatestOf
<1>8. PICK i \in around : Len(comps[i].chain) = m
    BY <1>7
<1>9. ASSUME NEW j \in around PROVE IsPrefix(comps[j].chain, comps[i].chain)
  <2> HIDE DEF around
  <2>1. Len(comps[j].chain) <= Len(comps[i].chain)
      BY <1>7, <1>8
  <2> DEFINE s == comps[j].chain
             t == comps[i].chain
  <2>2. s \in Seq(DOMAIN app) /\ t \in Seq(DOMAIN app) /\ Len(s) \in Nat /\ Len(t) \in Nat
      BY <1>3
  <2>3. (\A k \in 1..Len(s) : s[k] = chain[k]) /\ \A k \in 1..Len(t) : t[k] = chain[k]
      BY <1>4
  <2> HIDE DEF s, t
  <2>4. \A k \in 1..Len(s) : k \in 1..Len(t)
      BY <2>1, <2>2 DEF s, t
  <2>5. \A k \in 1..Len(s) : s[k] = t[k]
      BY <2>3, <2>4
  <2>6. Len(s) <= Len(t)
      BY <2>1 DEF s, t
  <2>7. IsPrefix(s, t)
      BY <2>2, <2>5, <2>6, PrefixFacts
  <2> QED
      BY <2>7 DEF s, t
<1>10. FallbackOf(chain) = CHOOSE k \in around : \A j \in around : IsPrefix(comps[j].chain, comps[k].chain)
    BY DEF FallbackOf
<1>11. FallbackOf(chain) \in around /\ \A j \in around : IsPrefix(comps[j].chain, comps[FallbackOf(chain)].chain)
  <2> HIDE DEF around
  <2> QED
      BY <1>8, <1>9, <1>10
<1> QED
    BY <1>11

-----------------------------------------------------------------------------
(* Prefixes of chains, and the scope around several. *)

LEMMA PrefixOfPrefix ==
    ASSUME NEW T, NEW r \in Seq(T), NEW s \in Seq(T), NEW t \in Seq(T), IsPrefix(r, s), IsPrefix(s, t)
    PROVE  IsPrefix(r, t)
<1>1. /\ Len(r) \in Nat /\ Len(s) \in Nat /\ Len(t) \in Nat
      /\ Len(r) <= Len(s) /\ Len(s) <= Len(t)
      /\ \A j \in 1..Len(r) : r[j] = s[j]
      /\ \A j \in 1..Len(s) : s[j] = t[j]
    BY PrefixFacts
<1>2. Len(r) <= Len(t) /\ \A j \in 1..Len(r) : j \in 1..Len(s)
    BY <1>1
<1>3. \A j \in 1..Len(r) : r[j] = t[j]
    BY <1>1, <1>2
<1> QED
    BY <1>2, <1>3, PrefixFacts

LEMMA PrefixesOfOne ==
    ASSUME NEW T, NEW r \in Seq(T), NEW s \in Seq(T), NEW t \in Seq(T),
           IsPrefix(r, t), IsPrefix(s, t), Len(r) <= Len(s)
    PROVE  IsPrefix(r, s)
<1>1. /\ Len(r) \in Nat /\ Len(s) \in Nat
      /\ \A j \in 1..Len(r) : r[j] = t[j]
      /\ \A j \in 1..Len(s) : s[j] = t[j]
    BY PrefixFacts
<1>2. \A j \in 1..Len(r) : j \in 1..Len(s)
    BY <1>1
<1>3. \A j \in 1..Len(r) : r[j] = s[j]
    BY <1>1, <1>2
<1> QED
    BY <1>3, PrefixFacts

LEMMA PrefixesOfEachOther ==
    ASSUME NEW T, NEW s \in Seq(T), NEW t \in Seq(T), IsPrefix(s, t), IsPrefix(t, s)
    PROVE  s = t
<1>1. /\ Len(s) \in Nat /\ Len(t) \in Nat
      /\ Len(s) <= Len(t) /\ Len(t) <= Len(s)
      /\ \A j \in 1..Len(s) : s[j] = t[j]
    BY PrefixFacts
<1> QED
    BY <1>1

LEMMA PrefixOfItself ==
    ASSUME NEW T, NEW s \in Seq(T)
    PROVE  IsPrefix(s, s)
<1>1. Len(s) <= Len(s)
    OBVIOUS
<1> QED
    BY <1>1, PrefixFacts

LEMMA PrefixOfAppended ==
    ASSUME NEW T, NEW s \in Seq(T), NEW t \in Seq(T), NEW x \in T, IsPrefix(s, Append(t, x)), s # Append(t, x)
    PROVE  IsPrefix(s, t)
<1> DEFINE u == Append(t, x)
<1>1. u \in Seq(T) /\ Len(u) = Len(t) + 1 /\ Len(t) \in Nat /\ Len(s) \in Nat /\ \A j \in 1..Len(t) : u[j] = t[j]
    OBVIOUS
<1> HIDE DEF u
<1>2. Len(s) <= Len(u) /\ \A j \in 1..Len(s) : s[j] = u[j]
  <2>1. IsPrefix(s, u)
      BY DEF u
  <2> QED
      BY <1>1, <2>1, PrefixFacts
<1>3. Len(s) # Len(u)
  <2> SUFFICES ASSUME Len(s) = Len(u) PROVE s = u
      BY DEF u
  <2> QED
      BY <1>1, <1>2
<1>4. Len(s) <= Len(t) /\ \A j \in 1..Len(s) : j \in 1..Len(t)
    BY <1>1, <1>2, <1>3
<1>5. \A j \in 1..Len(s) : s[j] = t[j]
    BY <1>1, <1>2, <1>4
<1> QED
    BY <1>4, <1>5, PrefixFacts

LEMMA AncestorExists ==
    ASSUME Complete, NEW ids \in SUBSET Ids, ids # {}
    PROVE  /\ CommonAncestor(ids) \in Chains
           /\ \A x \in Chains : IsPrefix(x, CommonAncestor(ids)) <=> \A i \in ids : IsPrefix(x, comps[i].chain)
<1> DEFINE S == {comps[i].chain : i \in ids}
           CP == CommonPrefixes(S)
           L == {Len(x) : x \in CP}
<1>1. \A t \in S : t \in Seq(DOMAIN app) /\ Len(t) \in Nat /\ Len(t) >= 1 /\ t[1] = Root
    BY CompTyped DEF Complete, Chains
<1>2. PICK t \in S : TRUE
    OBVIOUS
<1>3. CommonAncestor(ids) = CHOOSE longest \in CP : \A other \in CP : Len(other) <= Len(longest)
    BY DEF CommonAncestor, LongestCommonPrefix
<1>4. \A x : x \in CP <=> (\E s \in S : x \in Prefixes(s)) /\ \A s \in S : IsPrefix(x, s)
    BY DEF CommonPrefixes
<1> HIDE DEF S, CP
<1>5. ASSUME NEW x \in CP
      PROVE  x \in Seq(DOMAIN app) /\ Len(x) \in Nat /\ Len(x) <= Len(t) /\ \A j \in 1..Len(x) : x[j] = t[j]
  <2>1. PICK s \in S : x \in Prefixes(s)
      BY <1>4
  <2>2. s \in Seq(DOMAIN app) /\ Len(s) \in Nat
      BY <1>1
  <2>3. x = << >> \/ \E l \in 1..Len(s) : x = SubSeq(s, 1, l)
      BY <2>1 DEF Prefixes
  <2>4. x \in Seq(DOMAIN app)
    <3>1. CASE x = << >>
        BY <3>1
    <3>2. CASE \E l \in 1..Len(s) : x = SubSeq(s, 1, l)
      <4>1. PICK l \in 1..Len(s) : x = SubSeq(s, 1, l)
          BY <3>2
      <4>2. \A j \in 1..l : j \in 1..Len(s)
          BY <2>2
      <4> QED
          BY <2>2, <4>1, <4>2
    <3> QED
        BY <2>3, <3>1, <3>2
  <2>5. IsPrefix(x, t) /\ t \in Seq(DOMAIN app)
      BY <1>1, <1>2, <1>4
  <2>6. Len(x) \in Nat
      BY <2>4
  <2> QED
      BY <2>4, <2>5, <2>6, PrefixFacts
<1>6. <<Root>> \in CP
  <2> DEFINE r == <<Root>>
  <2>1. \A s \in S : r = SubSeq(s, 1, 1) /\ 1 \in 1..Len(s)
    <3> SUFFICES ASSUME NEW s \in S PROVE r = SubSeq(s, 1, 1) /\ 1 \in 1..Len(s)
        OBVIOUS
    <3>1. s \in Seq(DOMAIN app) /\ Len(s) \in Nat /\ Len(s) >= 1 /\ s[1] = Root
        BY <1>1
    <3>2. 1 \in 1..Len(s)
        BY <3>1
    <3>3. SubSeq(s, 1, 1) \in Seq(DOMAIN app) /\ Len(SubSeq(s, 1, 1)) = 1 /\ SubSeq(s, 1, 1)[1] = s[1]
        BY <3>1, <3>2
    <3> QED
        BY <3>1, <3>2, <3>3
  <2>2. r \in Seq(DOMAIN app) /\ Len(r) = 1 /\ r[1] = Root
    <3>1. Root \in DOMAIN app
        BY DEF Complete, BuildInv, IsApp
    <3> QED
        BY <3>1
  <2> HIDE DEF r
  <2>3. \A s \in S : IsPrefix(r, s)
    <3> SUFFICES ASSUME NEW s \in S PROVE IsPrefix(r, s)
        OBVIOUS
    <3>1. s \in Seq(DOMAIN app) /\ Len(s) \in Nat /\ Len(s) >= 1 /\ s[1] = Root
        BY <1>1
    <3>2. Len(r) <= Len(s) /\ \A j \in 1..Len(r) : r[j] = s[j]
        BY <2>2, <3>1
    <3> QED
        BY <2>2, <3>1, <3>2, PrefixFacts
  <2>4. r \in Prefixes(t)
    <3>1. r = SubSeq(t, 1, 1) /\ 1 \in 1..Len(t)
        BY <1>2, <2>1
    <3> QED
        BY <3>1 DEF Prefixes
  <2>5. r \in CP
      BY <1>2, <1>4, <2>3, <2>4
  <2> QED
      BY <2>5 DEF r
<1>7. L \in SUBSET (0..Len(t)) /\ L # {} /\ Len(t) \in Nat
  <2>1. \A x \in CP : Len(x) \in 0..Len(t)
      BY <1>1, <1>2, <1>5
  <2>2. Len(t) \in Nat
      BY <1>1, <1>2
  <2> QED
      BY <1>6, <2>1, <2>2
<1>8. PICK m \in L : \A k \in L : k <= m
  <2> HIDE DEF L
  <2> QED
      BY <1>7, GreatestOf
<1>9. PICK x \in CP : Len(x) = m
    BY <1>8
<1>10. \A other \in CP : Len(other) <= Len(x)
    BY <1>8, <1>9
<1> DEFINE a == CommonAncestor(ids)
<1>11. a \in CP /\ \A other \in CP : Len(other) <= Len(a)
    BY <1>3, <1>9, <1>10
<1>12. Len(<<Root>>) = 1
    OBVIOUS
<1> HIDE DEF a
<1>13. 1 <= Len(a)
    BY <1>6, <1>11, <1>12
<1>14. a \in Seq(DOMAIN app) /\ Len(a) \in Nat /\ \A j \in 1..Len(a) : a[j] = t[j]
    BY <1>5, <1>11
<1>15. 1 \in 1..Len(a) /\ t[1] = Root
    BY <1>1, <1>2, <1>13, <1>14
<1>16. a \in Chains
    BY <1>13, <1>14, <1>15 DEF Chains
<1>17. ASSUME NEW y \in Chains PROVE IsPrefix(y, a) <=> \A s \in S : IsPrefix(y, s)
  <2>1. y \in Seq(DOMAIN app) /\ Len(y) \in Nat /\ Len(y) >= 1
      BY DEF Chains
  <2>2. ASSUME IsPrefix(y, a), NEW s \in S PROVE IsPrefix(y, s)
    <3>1. IsPrefix(a, s) /\ s \in Seq(DOMAIN app)
        BY <1>1, <1>4, <1>11
    <3> QED
        BY <1>14, <2>1, <2>2, <3>1, PrefixOfPrefix
  <2>3. ASSUME \A s \in S : IsPrefix(y, s) PROVE IsPrefix(y, a)
    <3>1. IsPrefix(y, t) /\ t \in Seq(DOMAIN app) /\ IsPrefix(a, t)
        BY <1>1, <1>2, <1>4, <1>11, <2>3
    <3>2. y = SubSeq(t, 1, Len(y)) /\ Len(y) \in 0..Len(t)
      <4>1. Len(y) <= Len(t) /\ y = SubSeq(y, 1, Len(y))
          BY <2>1, <3>1 DEF IsPrefix
      <4>2. SubSeq(y, 1, Len(y)) = SubSeq(t, 1, Len(y))
          BY <3>1 DEF IsPrefix
      <4> QED
          BY <2>1, <3>1, <4>1, <4>2
    <3>3. y \in CP
      <4>1. y \in Prefixes(t)
          BY <3>2, Zenon DEF Prefixes
      <4> QED
          BY <1>2, <1>4, <2>3, <4>1
    <3>4. Len(y) <= Len(a)
        BY <1>11, <3>3
    <3> QED
        BY <1>14, <2>1, <3>1, <3>4, PrefixesOfOne
  <2> QED
      BY <2>2, <2>3
<1>18. \A z : (\A s \in S : IsPrefix(z, s)) <=> \A i \in ids : IsPrefix(z, comps[i].chain)
    BY DEF S
<1> QED
    BY <1>16, <1>17, <1>18 DEF a

LEMMA RouterFacts ==
    ASSUME BuildInv, NEW ids \in SUBSET Ids
    PROVE  LET L == PathRouter(ids).leaves
               R == Routes(ids)
               F == PathFallbacks(ids)
           IN  /\ DOMAIN L = PathsOf(R) \cup CatchAllsOf(F)
               /\ PathsOf(R) \cap CatchAllsOf(F) = {}
               /\ \A p \in PathsOf(R) : IsLeaf(R, p, L[p])
               /\ \A p \in CatchAllsOf(F) :
                     L[p].handlers = {} /\ L[p].fallback \in F /\ CatchAll(comps[L[p].fallback].prefix) = p
               /\ CatchAllsOf(Prefixed(ids)) \subseteq DOMAIN L
               /\ DOMAIN L \in SUBSET Patterns /\ IsFiniteSet(DOMAIN L)
<1> DEFINE R == Routes(ids)
           F == PathFallbacks(ids)
           base == InOrder(AddRoute, << >>, R)
           L == InOrder(AddFallback, base, F)
<1>1. PathRouter(ids).leaves = L
    BY DEF PathRouter
<1>2. Len(comps) \in Nat /\ DOMAIN comps = 1..Len(comps) /\ Ids = DOMAIN comps
    BY CompFacts
<1>3. R \in SUBSET Ids /\ F \in SUBSET Ids /\ Prefixed(ids) \in SUBSET Ids
    BY DEF Routes, PathFallbacks, Prefixed, Fallbacks
<1>4. AreLeaves(R, base)
  <2> HIDE DEF R
  <2> QED
      BY <1>2, <1>3, RouteLeaves
<1>5. PathsOf(R) \cap CatchAllsOf(F) = {}
    BY DEF PathsOf, CatchAllsOf, PathFallbacks, Taken
<1>6. DOMAIN base = PathsOf(R)
    BY <1>4 DEF AreLeaves
<1>7. WithCatchAlls(base, F, L)
  <2> HIDE DEF R, F, base
  <2> QED
      BY <1>2, <1>3, <1>5, <1>6, CatchAllLeaves DEF L
<1>8. ASSUME NEW c \in CatchAllsOf(Prefixed(ids)) PROVE c \in PathsOf(R) \cup CatchAllsOf(F)
  <2> SUFFICES ASSUME c \notin PathsOf(R) PROVE c \in CatchAllsOf(F)
      OBVIOUS
  <2>1. PICK i \in Prefixed(ids) : c = CatchAll(comps[i].prefix)
      BY <1>8 DEF CatchAllsOf
  <2> DEFINE S == {j \in Prefixed(ids) : comps[j].prefix = comps[i].prefix}
  <2>2. S \in SUBSET Nat /\ i \in S
    <3>1. \A j \in Ids : j \in Nat
        BY <1>2
    <3> QED
        BY <1>3, <3>1
  <2>3. PICK m \in S : \A k \in S : m <= k
    <3> HIDE DEF S
    <3> QED
        BY <2>2, LeastOf
  <2>4. \A k \in Prefixed(ids) : k < m => comps[k].prefix # comps[m].prefix
    <3> SUFFICES ASSUME NEW k \in Prefixed(ids), k < m, comps[k].prefix = comps[m].prefix PROVE FALSE
        OBVIOUS
    <3>1. k \in S
        BY <2>3
    <3>2. m <= k /\ m \in Nat /\ k \in Nat
        BY <2>2, <2>3, <3>1
    <3> QED
        BY <3>2
  <2>5. m \in F
    <3>1. CatchAll(comps[m].prefix) \notin {comps[j].path : j \in Routes(ids)}
        BY <2>1, <2>3 DEF PathsOf
    <3>2. ~Taken(ids, m)
        BY <2>4, <3>1 DEF Taken
    <3> QED
        BY <2>3, <3>2 DEF PathFallbacks
  <2> QED
      BY <2>1, <2>3, <2>5 DEF CatchAllsOf
<1>9. PathsOf(R) \cup CatchAllsOf(F) \in SUBSET Patterns
  <2>1. ASSUME NEW i \in R PROVE comps[i].path \in Patterns
      BY CompTyped DEF Routes
  <2>2. ASSUME NEW i \in F PROVE CatchAll(comps[i].prefix) \in Patterns
    <3>1. i \in Ids /\ comps[i].kind = "fallback" /\ comps[i].prefix # << >>
        BY DEF PathFallbacks, Prefixed, Fallbacks
    <3>2. comps[i].prefix \in Seq(STRING)
        BY <3>1, CompTyped
    <3> QED
        BY <3>1, <3>2, CatchAllFacts
  <2> HIDE DEF R, F
  <2> QED
      BY <2>1, <2>2 DEF PathsOf, CatchAllsOf
<1>10. IsFiniteSet(PathsOf(R) \cup CatchAllsOf(F))
  <2>1. IsFiniteSet(Ids)
      BY <1>2, FS_Interval
  <2>2. IsFiniteSet(R) /\ IsFiniteSet(F)
    <3> HIDE DEF R, F
    <3> QED
        BY <1>3, <2>1, FS_Subset
  <2> HIDE DEF R, F
  <2>3. IsFiniteSet(PathsOf(R)) /\ IsFiniteSet(CatchAllsOf(F))
    <3> DEFINE f == [i \in R |-> comps[i].path]
               g == [i \in F |-> CatchAll(comps[i].prefix)]
    <3>1. f \in Surjection(R, PathsOf(R))
        BY DEF Surjection, PathsOf
    <3>2. g \in Surjection(F, CatchAllsOf(F))
        BY DEF Surjection, CatchAllsOf
    <3> HIDE DEF f, g
    <3> QED
        BY <2>2, <3>1, <3>2, FS_Surjection
  <2> QED
      BY <2>3, FS_Union
<1> HIDE DEF R, F, base, L
<1>11. /\ DOMAIN L = PathsOf(R) \cup CatchAllsOf(F)
       /\ \A p \in PathsOf(R) : IsLeaf(R, p, L[p])
       /\ \A p \in CatchAllsOf(F) :
             L[p].handlers = {} /\ L[p].fallback \in F /\ CatchAll(comps[L[p].fallback].prefix) = p
    BY <1>4, <1>6, <1>7 DEF WithCatchAlls, AreLeaves
<1> QED
    BY <1>1, <1>5, <1>8, <1>9, <1>10, <1>11 DEF R, F

-----------------------------------------------------------------------------
(* How a path router answers, in terms of the components it was built from. *)

RoutesFor(ids, path) == {i \in Routes(ids) : Matches(comps[i].path, path)}
BestRoutes(ids, path) ==
    {i \in RoutesFor(ids, path) : \A j \in RoutesFor(ids, path) : ~Before(comps[j].path, comps[i].path)}
Fitting(ids, path, method) == {i \in BestRoutes(ids, path) : method \in comps[i].methods}
Claiming(ids, path) == {i \in Prefixed(ids) : Matches(CatchAll(comps[i].prefix), path)}
PrefixIsCloser(ids, path) ==
    \E i \in Claiming(ids, path) : \A j \in BestRoutes(ids, path) : Before(CatchAll(comps[i].prefix), comps[j].path)

LEMMA MinFacts ==
    ASSUME NEW S \in SUBSET Nat, S # {}
    PROVE  Min(S) \in S
<1>1. \E m \in S : \A k \in S : m <= k
    BY LeastOf
<1> QED
    BY <1>1 DEF Min

\* Which leaf a path router takes.
LEMMA LeafTaken ==
    ASSUME Complete, NEW ids \in SUBSET Ids, NEW path \in Seq(STRING)
    PROVE  LET L == PathRouter(ids).leaves
               R == Routes(ids)
               F == PathFallbacks(ids)
               H == Hits(DOMAIN L, path)
               a == At(DOMAIN L, path)
               Best == BestRoutes(ids, path)
           IN  /\ Best # {} /\ ~PrefixIsCloser(ids, path) => H # {} /\ a \in PathsOf(R) /\ RoutesOn(R, a) = Best
               /\ PrefixIsCloser(ids, path) \/ (Best = {} /\ Claiming(ids, path) # {}) =>
                     H # {} /\ a \in CatchAllsOf(F) /\ \A i \in Claiming(ids, path) : ~Before(CatchAll(comps[i].prefix), a)
               /\ Best = {} /\ Claiming(ids, path) = {} => H = {}
<1> DEFINE L == PathRouter(ids).leaves
           R == Routes(ids)
           F == PathFallbacks(ids)
           H == Hits(DOMAIN L, path)
           a == At(DOMAIN L, path)
           Best == BestRoutes(ids, path)
<1>1. /\ DOMAIN L = PathsOf(R) \cup CatchAllsOf(F)
      /\ CatchAllsOf(Prefixed(ids)) \subseteq DOMAIN L
      /\ DOMAIN L \in SUBSET Patterns /\ IsFiniteSet(DOMAIN L)
    BY RouterFacts DEF Complete
<1>2. \A p : p \in H <=> p \in DOMAIN L /\ Matches(p, path)
    BY DEF Hits
<1>3. H # {} => /\ a \in DOMAIN L /\ Matches(a, path)
                /\ \A q \in H : ~Before(q, a)
                /\ \A p \in H : (\A q \in H : ~Before(q, p)) => p = a
  <2> HIDE DEF L
  <2> QED
      BY <1>1, AtFacts
<1>4. \A i : i \in Best <=> /\ i \in R /\ Matches(comps[i].path, path)
                            /\ \A j \in R : Matches(comps[j].path, path) => ~Before(comps[j].path, comps[i].path)
    BY DEF BestRoutes, RoutesFor
<1>5. \A i \in F : i \in Prefixed(ids)
    BY DEF PathFallbacks
<1>6. \A i : i \in Claiming(ids, path) <=> i \in Prefixed(ids) /\ Matches(CatchAll(comps[i].prefix), path)
    BY DEF Claiming
<1>7. \A i \in Claiming(ids, path) : CatchAll(comps[i].prefix) \in H
    BY <1>1, <1>2, <1>6 DEF CatchAllsOf
<1> HIDE DEF L, R, F, H, a, Best
<1>8. \A p \in CatchAllsOf(F) : p \in H => \E i \in Claiming(ids, path) : p = CatchAll(comps[i].prefix)
    BY <1>2, <1>5, <1>6 DEF CatchAllsOf
<1>9. ASSUME H # {}, a \in PathsOf(R) PROVE RoutesOn(R, a) \subseteq Best /\ RoutesOn(R, a) # {}
  <2>1. ASSUME NEW i \in RoutesOn(R, a) PROVE i \in Best
    <3>1. i \in R /\ comps[i].path = a
        BY DEF RoutesOn
    <3>2. ASSUME NEW j \in R, Matches(comps[j].path, path) PROVE comps[j].path \in H
        BY <1>1, <1>2, <3>2 DEF PathsOf
    <3> QED
        BY <1>3, <1>4, <1>9, <3>1, <3>2
  <2>2. RoutesOn(R, a) # {}
      BY <1>9 DEF RoutesOn, PathsOf
  <2> QED
      BY <2>1, <2>2
<1>10. H # {} => a \in PathsOf(R) \/ a \in CatchAllsOf(F)
    BY <1>1, <1>3
<1>11. ASSUME Best # {}, ~PrefixIsCloser(ids, path)
       PROVE  H # {} /\ a \in PathsOf(R) /\ RoutesOn(R, a) = Best
  <2>1. PICK i \in Best : TRUE
      BY <1>11
  <2> DEFINE p == comps[i].path
  <2>2. i \in R /\ Matches(p, path)
      BY <1>4
  <2>3. p \in PathsOf(R) /\ p \in H
      BY <1>1, <1>2, <2>2 DEF PathsOf
  <2>4. ASSUME NEW j \in Best PROVE comps[j].path = p /\ j \in R
    <3> DEFINE q == comps[j].path
    <3>1. j \in R /\ Matches(q, path) /\ ~Before(p, q) /\ ~Before(q, p)
        BY <1>4, <2>2, <2>4
    <3>2. p \in Patterns /\ q \in Patterns
        BY <1>1, <2>3, <3>1 DEF PathsOf
    <3> HIDE DEF p, q
    <3>3. q = p
        BY <2>2, <3>1, <3>2, OneClosest
    <3> QED
        BY <3>1, <3>3 DEF q
  <2>5. ASSUME NEW q \in H PROVE ~Before(q, p)
    <3>1. q \in DOMAIN L /\ Matches(q, path)
        BY <1>2
    <3>2. CASE q \in PathsOf(R)
      <4>1. PICK j \in R : q = comps[j].path
          BY <3>2 DEF PathsOf
      <4> QED
          BY <1>4, <3>1, <4>1
    <3>3. CASE q \in CatchAllsOf(F)
      <4>1. PICK j \in Claiming(ids, path) : q = CatchAll(comps[j].prefix)
          BY <1>8, <3>3
      <4>2. PICK k \in Best : ~Before(CatchAll(comps[j].prefix), comps[k].path)
          BY <1>11 DEF PrefixIsCloser, Best
      <4> QED
          BY <2>4, <4>1, <4>2
    <3> QED
        BY <1>1, <3>1, <3>2, <3>3
  <2>6. a = p
    <3> HIDE DEF p
    <3> QED
        BY <1>3, <2>3, <2>5
  <2>7. H # {} /\ a \in PathsOf(R)
      BY <2>3, <2>6
  <2>8. \A j \in Best : j \in RoutesOn(R, a)
      BY <2>4, <2>6 DEF RoutesOn
  <2> QED
      BY <1>9, <2>7, <2>8
<1>12. ASSUME PrefixIsCloser(ids, path) \/ (Best = {} /\ Claiming(ids, path) # {})
       PROVE  H # {} /\ a \in CatchAllsOf(F) /\ \A i \in Claiming(ids, path) : ~Before(CatchAll(comps[i].prefix), a)
  <2>1. PICK i \in Claiming(ids, path) : \A j \in Best : Before(CatchAll(comps[i].prefix), comps[j].path)
      BY <1>12 DEF PrefixIsCloser, Best
  <2>2. H # {}
      BY <1>7
  <2>3. a \notin PathsOf(R)
    <3> SUFFICES ASSUME a \in PathsOf(R) PROVE FALSE
        OBVIOUS
    <3>1. PICK j \in RoutesOn(R, a) : j \in Best
        BY <1>9, <2>2
    <3>2. Before(CatchAll(comps[i].prefix), a)
        BY <2>1, <3>1 DEF RoutesOn
    <3> QED
        BY <1>3, <1>7, <2>2, <3>2
  <2> QED
      BY <1>3, <1>7, <1>10, <2>2, <2>3
<1>13. ASSUME Best = {}, Claiming(ids, path) = {} PROVE H = {}
  <2> SUFFICES ASSUME H # {} PROVE FALSE
      OBVIOUS
  <2>1. a \notin PathsOf(R)
      BY <1>9, <1>13
  <2>2. a \in H
      BY <1>2, <1>3
  <2> QED
      BY <1>8, <1>10, <1>13, <2>1, <2>2
<1> QED
    BY <1>11, <1>12, <1>13 DEF L, R, F, H, a, Best

\* The route's handler, or the fallback around a route with the path, of the
\* prefix that claims it, or around them all.
LEMMA PathAnswer ==
    ASSUME Complete, NEW ids \in SUBSET Ids, NEW path \in Seq(STRING), NEW method \in AllMethods
    PROVE  LET result == RouteByPath(PathRouter(ids), path, method)
               Best == BestRoutes(ids, path)
           IN  /\ Best # {} /\ ~PrefixIsCloser(ids, path) =>
                     \/ result \in Fitting(ids, path, method)
                     \/ /\ Fitting(ids, path, method) = {}
                        /\ \E j \in Best : comps[j].methods # AllMethods /\ result = FallbackOf(comps[j].chain)
               /\ PrefixIsCloser(ids, path) \/ (Best = {} /\ Claiming(ids, path) # {}) =>
                     /\ result \in Claiming(ids, path) /\ ~Taken(ids, result)
                     /\ \A i \in Claiming(ids, path) :
                           ~Before(CatchAll(comps[i].prefix), CatchAll(comps[result].prefix))
               /\ Best = {} /\ Claiming(ids, path) = {} => result = FallbackOf(CommonAncestor(ids))
<1> DEFINE r == PathRouter(ids)
           L == r.leaves
           R == Routes(ids)
           F == PathFallbacks(ids)
           a == At(DOMAIN L, path)
           leaf == L[a]
           allowed == {i \in leaf.handlers : method \in comps[i].methods}
           result == RouteByPath(r, path, method)
           Fit == Fitting(ids, path, method)
           H == Hits(DOMAIN L, path)
           Best == BestRoutes(ids, path)
<1>1. BuildInv
    BY DEF Complete
<1>2. /\ \A p \in PathsOf(R) : IsLeaf(R, p, L[p])
      /\ \A p \in CatchAllsOf(F) :
            L[p].handlers = {} /\ L[p].fallback \in F /\ CatchAll(comps[L[p].fallback].prefix) = p
      /\ DOMAIN L \in SUBSET Patterns /\ IsFiniteSet(DOMAIN L)
    BY <1>1, RouterFacts
<1>3. /\ Best # {} /\ ~PrefixIsCloser(ids, path) => H # {} /\ a \in PathsOf(R) /\ RoutesOn(R, a) = Best
      /\ PrefixIsCloser(ids, path) \/ (Best = {} /\ Claiming(ids, path) # {}) =>
            H # {} /\ a \in CatchAllsOf(F) /\ \A i \in Claiming(ids, path) : ~Before(CatchAll(comps[i].prefix), a)
      /\ Best = {} /\ Claiming(ids, path) = {} => H = {}
    BY LeafTaken
<1>4. result = IF H = {} THEN r.root ELSE IF allowed = {} THEN leaf.fallback ELSE Min(allowed)
    BY DEF RouteByPath
<1>5. r.root = FallbackOf(CommonAncestor(ids))
    BY DEF PathRouter
<1>6. R \in SUBSET Nat
  <2>1. \A i \in Ids : i \in Nat
      BY <1>1, CompFacts
  <2> QED
      BY <2>1 DEF Routes
<1>7. \A i : i \in Fit <=> i \in Best /\ method \in comps[i].methods
    BY DEF Fitting
<1>8. H # {} => Matches(a, path)
  <2> HIDE DEF L
  <2> QED
      BY <1>2, AtFacts
<1>9. \A i \in F : i \in Prefixed(ids) /\ ~Taken(ids, i)
    BY DEF PathFallbacks
<1> HIDE DEF r, L, R, F, a, result, Fit, H, Best
<1>10. ASSUME Best # {}, ~PrefixIsCloser(ids, path)
       PROVE  \/ result \in Fit
              \/ Fit = {} /\ \E j \in Best : comps[j].methods # AllMethods /\ result = FallbackOf(comps[j].chain)
  <2>1. IsLeaf(R, a, leaf) /\ RoutesOn(R, a) = Best /\ H # {}
      BY <1>2, <1>3, <1>10
  <2>2. CASE allowed # {}
    <3>1. allowed \in SUBSET Nat
        BY <1>6, <2>1 DEF IsLeaf, RoutesOn
    <3>2. Min(allowed) \in allowed
      <4> HIDE DEF allowed
      <4> QED
          BY <2>2, <3>1, MinFacts
    <3>3. result \in allowed
        BY <1>4, <2>1, <2>2, <3>2
    <3>4. result \in Best /\ method \in comps[result].methods
        BY <2>1, <3>3 DEF IsLeaf
    <3> QED
        BY <1>7, <3>4
  <2>3. CASE allowed = {}
    <3>1. result = leaf.fallback
        BY <1>4, <2>1, <2>3
    <3>2. CASE leaf.fallback \in RoutesOn(R, a) /\ comps[leaf.fallback].methods = AllMethods
        BY <1>7, <2>1, <3>1, <3>2
    <3>3. CASE /\ leaf.handlers = RoutesOn(R, a)
               /\ \E j \in RoutesOn(R, a) : comps[j].methods # AllMethods /\ leaf.fallback = FallbackOf(comps[j].chain)
      <4>1. Fit = {}
          BY <1>7, <2>1, <2>3, <3>3
      <4> QED
          BY <2>1, <3>1, <3>3, <4>1
    <3> QED
        BY <2>1, <3>2, <3>3 DEF IsLeaf
  <2> QED
      BY <2>2, <2>3
<1>11. ASSUME PrefixIsCloser(ids, path) \/ (Best = {} /\ Claiming(ids, path) # {})
       PROVE  /\ result \in Claiming(ids, path) /\ ~Taken(ids, result)
              /\ \A i \in Claiming(ids, path) : ~Before(CatchAll(comps[i].prefix), CatchAll(comps[result].prefix))
  <2>1. H # {} /\ a \in CatchAllsOf(F) /\ \A i \in Claiming(ids, path) : ~Before(CatchAll(comps[i].prefix), a)
      BY <1>3, <1>11
  <2>2. leaf.handlers = {} /\ leaf.fallback \in F /\ CatchAll(comps[leaf.fallback].prefix) = a
      BY <1>2, <2>1
  <2>3. allowed = {}
      BY <2>2
  <2>4. result = leaf.fallback
      BY <1>4, <2>1, <2>3
  <2>5. result \in Claiming(ids, path)
      BY <1>8, <1>9, <2>1, <2>2, <2>4 DEF Claiming
  <2> QED
      BY <1>9, <2>1, <2>2, <2>4, <2>5
<1>12. ASSUME Best = {}, Claiming(ids, path) = {} PROVE result = FallbackOf(CommonAncestor(ids))
    BY <1>3, <1>4, <1>5, <1>12
<1> QED
    BY <1>10, <1>11, <1>12 DEF result, Fit, r, Best

-----------------------------------------------------------------------------
(* Outer blueprints register first. *)

LEMMA ChainFacts ==
    ASSUME IsApp(app), NEW b \in DOMAIN app \ {Root}
    PROVE  ChainTo(b) = Append(ChainTo(SiteOf(b).in), b)
<1> DEFINE around == PlaceOf[SiteOf(b).in]
           x == Append(around.chain, b)
           y == around.prefix \o NestOf(b).prefix
           z == IF NestOf(b).domain = NoDomain THEN around.domain ELSE NestOf(b).domain
<1>1. PlaceOf[b] = PlaceIn(b, around)
    BY PlaceFacts
<1>2. PlaceIn(b, around) = [chain |-> x, prefix |-> y, domain |-> z]
    BY DEF PlaceIn
<1> HIDE DEF x, y, z
<1>3. PlaceOf[b].chain = x
    BY <1>1, <1>2
<1> QED
    BY <1>3 DEF x, ChainTo

LEMMA ChainsDiffer ==
    ASSUME IsApp(app), NEW b \in DOMAIN app, NEW c \in DOMAIN app, ChainTo(b) = ChainTo(c)
    PROVE  b = c
<1>1. ASSUME NEW d \in DOMAIN app PROVE ChainTo(d)[Len(ChainTo(d))] = d
  <2>1. CASE d = Root
    <3>1. ChainTo(d) = <<Root>>
        BY <2>1, PlaceFacts DEF ChainTo, TopPlace
    <3> QED
        BY <2>1, <3>1
  <2>2. CASE d # Root
    <3> DEFINE t == ChainTo(SiteOf(d).in)
    <3>1. ChainTo(d) = Append(t, d)
        BY <2>2, ChainFacts
    <3>2. t \in Seq(DOMAIN app)
        BY <2>2, SiteFacts, PlaceTyped DEF Places, ChainTo
    <3> HIDE DEF t
    <3>3. Append(t, d)[Len(Append(t, d))] = d
        BY <3>2
    <3> QED
        BY <3>1, <3>3
  <2> QED
      BY <2>1, <2>2
<1> QED
    BY <1>1

\* Blueprint c is around the scope.
Around(c, chain) == IsPrefix(ChainTo(c), chain) /\ ChainTo(c) # chain
\* Before a blueprint registers anything, those around it have registered their fallbacks.
OuterFirst ==
    /\ \A k \in DOMAIN queue : \A c \in DOMAIN app :
          HasFallback(c) /\ Around(c, queue[k].chain) => \E i \in Ids : IsFallbackOf(comps[i], c)
    /\ \A i \in Ids : \A c \in DOMAIN app :
          HasFallback(c) /\ Around(c, comps[i].chain) => \E k \in Ids : k < i /\ IsFallbackOf(comps[k], c)

LEMMA OuterFirstAtTheStart ==
    ASSUME Init
    PROVE  OuterFirst
<1>1. IsApp(app)
    BY RoutingAssumption DEF Init
<1>2. Ids = {}
    BY DEF Init, Ids
<1>3. ASSUME NEW c \in DOMAIN app, IsPrefix(ChainTo(c), <<Root>>) PROVE ChainTo(c) = <<Root>>
  <2> DEFINE s == ChainTo(c)
             r == <<Root>>
  <2>1. s \in Seq(DOMAIN app) /\ Len(s) \in Nat /\ Len(s) >= 1
      BY <1>1, PlaceTyped DEF Places, ChainTo
  <2>2. r \in Seq(DOMAIN app) /\ Len(r) = 1 /\ IsPrefix(s, r)
      BY <1>1, <1>3 DEF IsApp
  <2> HIDE DEF s, r
  <2>3. Len(s) <= Len(r) /\ \A j \in 1..Len(s) : s[j] = r[j]
      BY <2>1, <2>2, PrefixFacts
  <2>4. s = r
      BY <2>1, <2>2, <2>3
  <2> QED
      BY <2>4 DEF s, r
<1>4. \A k \in DOMAIN queue : queue[k].chain = <<Root>>
  <2> DEFINE x == Item(Root, <<Root>>, << >>, NoDomain)
  <2>1. x.chain = <<Root>> /\ queue = <<x>>
      BY DEF Item, Init
  <2> HIDE DEF x
  <2> QED
      BY <2>1
<1> QED
    BY <1>2, <1>3, <1>4 DEF OuterFirst, Around

LEMMA ProcessBlueprintKeepsOuterFirst ==
    ASSUME BuildInv, OuterFirst, ProcessBlueprint
    PROVE  OuterFirst'
<1> DEFINE item == Last(queue)
           n == Len(comps)
<1>0. IsApp(app) /\ app' = app /\ queue # << >> /\ queue \in Seq(Items) /\ comps \in Seq(CompSet)
    BY DEF ProcessBlueprint, BuildInv
<1>1. PlaceOf' = PlaceOf /\ \A c : HasFallback(c)' = HasFallback(c)
    BY <1>0 DEF SiteOf, Sites, HasFallback, PlaceOf, NestOf
<1>2. /\ \A c : \A chain : Around(c, chain)' <=> Around(c, chain)
      /\ \A c : \A x : IsFallbackOf(x, c)' <=> IsFallbackOf(x, c)
    BY <1>1 DEF Around, IsFallbackOf, ChainTo, DomainOf, PrefixOf
<1>3. /\ Front(queue) \in Seq(Items) /\ item \in Items /\ Len(queue) \in DOMAIN queue
      /\ Len(queue) \in Nat /\ Len(Front(queue)) = Len(queue) - 1
      /\ \A k \in 1..(Len(queue) - 1) : Front(queue)[k] = queue[k]
    BY <1>0, FrontFacts
<1>4. DOMAIN Front(queue) = 1..(Len(queue) - 1) /\ DOMAIN queue = 1..Len(queue)
    BY <1>0, <1>3
<1>5. ASSUME NEW k \in DOMAIN Front(queue) PROVE k \in DOMAIN queue /\ Front(queue)[k] = queue[k]
    BY <1>3, <1>4
<1>6. PICK b \in DOMAIN app : item = ItemOf(b)
    BY <1>3 DEF Items
<1>7. item.chain = ChainTo(b) /\ item = queue[Len(queue)]
    BY <1>6 DEF ItemOf, Item, Last
<1>8. n \in Nat /\ Ids = 1..n
    BY <1>0 DEF Ids
<1>9. CASE queue' = Front(queue) /\ comps' = comps
  <2> DEFINE q == Front(queue)
  <2>1. Ids' = Ids
      BY <1>9 DEF Ids
  <2> HIDE DEF q, item, n
  <2>2. \A k \in DOMAIN q : k \in DOMAIN queue /\ q[k] = queue[k]
      BY <1>5 DEF q
  <2>3. queue' = q
      BY <1>9 DEF q
  <2>4. ASSUME NEW k \in DOMAIN q, NEW c \in DOMAIN app, HasFallback(c), Around(c, q[k].chain)
        PROVE  \E i \in Ids : IsFallbackOf(comps[i], c)
      BY <2>2, <2>4 DEF OuterFirst
  <2> QED
      BY <1>0, <1>1, <1>2, <1>9, <2>1, <2>3, <2>4 DEF OuterFirst
<1>10. CASE comps' = comps \o Registered(item) /\ queue' = Front(queue) \o Pushed(item)
  <2> DEFINE reg == Registered(item)
             m == Len(reg)
             p == Pushed(item)
             f == Front(queue)
  <2>1. reg \in Seq(RegisteredBy(b)) /\ m \in Nat /\ ToSet(reg) = RegisteredBy(b)
      BY <1>0, <1>6, RegisteredFacts DEF RegisteredBy
  <2>2. \A x \in RegisteredBy(b) : x.chain = ChainTo(b)
      BY <1>0, RegisteredFacts DEF Handlers, HandlerOf, IsFallbackOf
  <2>3. HasFallback(b) => \E j \in 1..m : IsFallbackOf(reg[j], b)
    <3>1. HasFallback(b) => \E x \in ToSet(reg) : IsFallbackOf(x, b)
        BY <1>0, <2>1, RegisteredFacts
    <3>2. DOMAIN reg = 1..m
        BY <2>1
    <3> HIDE DEF reg, m
    <3> QED
        BY <3>1, <3>2 DEF ToSet
  <2>4. \A j \in 1..m : reg[j].chain = ChainTo(b)
    <3> HIDE DEF reg
    <3>1. \A j \in 1..m : reg[j] \in RegisteredBy(b)
        BY <2>1
    <3> QED
        BY <2>2, <3>1
  <2> DEFINE all == comps'
  <2>5. /\ DOMAIN all = 1..(n + m) /\ \A j \in 1..n : all[j] = comps[j]
        /\ \A j \in 1..m : all[n + j] = reg[j]
    <3>1. all = comps \o reg
        BY <1>10
    <3> HIDE DEF reg, all, item
    <3> QED
        BY <1>0, <2>1, <3>1
  <2>6. Ids' = 1..(n + m)
      BY <2>5 DEF Ids
  <2>7. p \in Seq(Items) /\ \A k \in DOMAIN p :
            \E d \in DOMAIN app \ {Root} : SiteOf(d).in = b /\ p[k] = ItemOf(d)
    <3>1. Pushed(ItemOf(b)) \in Seq({ItemOf(c) : c \in DOMAIN app})
          /\ \A k \in DOMAIN Pushed(ItemOf(b)) :
                 \E c \in DOMAIN app \ {Root} : SiteOf(c).in = b /\ Pushed(ItemOf(b))[k] = ItemOf(c)
        BY <1>0, PushedFacts
    <3> QED
        BY <1>6, <3>1, Zenon DEF Items
  <2>8. f \in Seq(Items) /\ queue' = f \o p
      BY <1>3, <1>10
  <2> DEFINE q == queue'
  <2>9. \A k \in DOMAIN q : (k \in DOMAIN f /\ q[k] = f[k]) \/ \E j \in DOMAIN p : q[k] = p[j]
    <3> HIDE DEF f, p, item
    <3>1. q = f \o p
        BY <2>8
    <3> HIDE DEF q
    <3>2. Len(f) \in Nat /\ Len(p) \in Nat /\ DOMAIN f = 1..Len(f) /\ DOMAIN p = 1..Len(p)
          /\ DOMAIN q = 1..(Len(f) + Len(p)) /\ \A k \in 1..Len(f) : q[k] = f[k]
        BY <2>7, <2>8, <3>1
    <3>3. ASSUME NEW k \in DOMAIN q, k \notin DOMAIN f PROVE \E j \in DOMAIN p : q[k] = p[j]
      <4>1. k - Len(f) \in 1..Len(p) /\ ~(k <= Len(f))
          BY <3>2, <3>3
      <4>2. q[k] = p[k - Len(f)]
          BY <2>7, <2>8, <3>1, <3>2, <4>1
      <4> QED
          BY <3>2, <4>1, <4>2
    <3> QED
        BY <3>2, <3>3
  <2> HIDE DEF item, n, reg, m, p, f, all, q
  <2>10. \A c : (\E i \in Ids : IsFallbackOf(comps[i], c)) => \E i \in 1..(n + m) : i <= n /\ IsFallbackOf(all[i], c)
    <3>1. \A i \in 1..n : i \in 1..(n + m) /\ i <= n
        BY <1>8, <2>1
    <3> QED
        BY <1>8, <2>5, <3>1
  <2>11. \A c \in DOMAIN app : HasFallback(c) /\ Around(c, ChainTo(b)) => \E i \in Ids : IsFallbackOf(comps[i], c)
      BY <1>3, <1>7 DEF OuterFirst
  <2>12. ASSUME NEW k \in DOMAIN q, NEW c \in DOMAIN app, HasFallback(c), Around(c, q[k].chain)
         PROVE  \E i \in 1..(n + m) : IsFallbackOf(all[i], c)
    <3>1. CASE k \in DOMAIN f /\ q[k] = f[k]
      <4>1. k \in DOMAIN queue /\ q[k] = queue[k]
          BY <1>5, <3>1 DEF f
      <4>2. \E i \in Ids : IsFallbackOf(comps[i], c)
          BY <2>12, <4>1 DEF OuterFirst
      <4> QED
          BY <2>10, <4>2
    <3>2. CASE \E j \in DOMAIN p : q[k] = p[j]
      <4>1. PICK d \in DOMAIN app \ {Root} : SiteOf(d).in = b /\ q[k] = ItemOf(d)
          BY <2>7, <3>2
      <4>2. q[k].chain = ChainTo(d) /\ ChainTo(d) = Append(ChainTo(b), d)
        <5>1. q[k].chain = ChainTo(d)
            BY <4>1 DEF ItemOf, Item
        <5> QED
            BY <1>0, <4>1, <5>1, ChainFacts
      <4>3. ChainTo(b) \in Seq(DOMAIN app) /\ ChainTo(c) \in Seq(DOMAIN app)
          BY <1>0, PlaceTyped DEF Places, ChainTo
      <4>4. IsPrefix(ChainTo(c), ChainTo(b))
          BY <2>12, <4>2, <4>3, PrefixOfAppended DEF Around
      <4>5. CASE ChainTo(c) = ChainTo(b)
        <5>1. c = b
            BY <1>0, <4>5, ChainsDiffer
        <5>2. PICK j \in 1..m : IsFallbackOf(reg[j], b)
            BY <2>3, <2>12, <5>1
        <5>3. n + j \in 1..(n + m) /\ all[n + j] = reg[j]
            BY <1>8, <2>1, <2>5
        <5> QED
            BY <5>1, <5>2, <5>3
      <4>6. CASE ChainTo(c) # ChainTo(b)
        <5>1. \E i \in Ids : IsFallbackOf(comps[i], c)
            BY <2>11, <2>12, <4>4, <4>6 DEF Around
        <5> QED
            BY <2>10, <5>1
      <4> QED
          BY <4>5, <4>6
    <3> QED
        BY <2>9, <3>1, <3>2
  <2>13. ASSUME NEW i \in 1..(n + m), NEW c \in DOMAIN app, HasFallback(c), Around(c, all[i].chain)
         PROVE  \E k \in 1..(n + m) : k < i /\ IsFallbackOf(all[k], c)
    <3>1. CASE i <= n
      <4>1. i \in Ids /\ all[i] = comps[i]
          BY <1>8, <2>5, <3>1
      <4>2. PICK k \in Ids : k < i /\ IsFallbackOf(comps[k], c)
          BY <2>13, <4>1 DEF OuterFirst
      <4>3. k \in 1..(n + m) /\ all[k] = comps[k]
          BY <1>8, <2>1, <2>5, <4>2
      <4> QED
          BY <4>2, <4>3
    <3>2. CASE ~(i <= n)
      <4>1. i - n \in 1..m /\ n + (i - n) = i
          BY <1>8, <2>1, <3>2
      <4>2. all[i].chain = ChainTo(b)
          BY <2>4, <2>5, <4>1
      <4>3. PICK k \in 1..(n + m) : k <= n /\ IsFallbackOf(all[k], c)
          BY <2>10, <2>11, <2>13, <4>2
      <4>4. k < i
          BY <1>8, <2>1, <3>2, <4>3
      <4> QED
          BY <4>3, <4>4
    <3> QED
        BY <3>1, <3>2
  <2>14. queue' = q /\ comps' = all
      BY DEF q, all
  <2> QED
      BY <1>0, <1>1, <1>2, <2>6, <2>12, <2>13, <2>14 DEF OuterFirst
<1> QED
    BY <1>9, <1>10 DEF ProcessBlueprint

LEMMA OthersKeepOuterFirst ==
    ASSUME OuterFirst, UNCHANGED <<app, queue, comps>>
    PROVE  OuterFirst'
<1>1. app' = app /\ queue' = queue /\ comps' = comps
    OBVIOUS
<1>2. PlaceOf' = PlaceOf /\ \A c : HasFallback(c)' = HasFallback(c)
    BY <1>1 DEF SiteOf, Sites, HasFallback, PlaceOf, NestOf
<1>3. /\ \A c : \A chain : Around(c, chain)' <=> Around(c, chain)
      /\ \A c : \A x : IsFallbackOf(x, c)' <=> IsFallbackOf(x, c)
    BY <1>2 DEF Around, IsFallbackOf, ChainTo, DomainOf, PrefixOf
<1> QED
    BY <1>1, <1>2, <1>3 DEF OuterFirst, Ids

\* No blueprint that is waiting is nested in another that is, or has something
\* registered in it.
Apart ==
    /\ \A j, k \in DOMAIN queue : IsPrefix(queue[j].chain, queue[k].chain) => j = k
    /\ \A k \in DOMAIN queue : \A i \in Ids : ~IsPrefix(queue[k].chain, comps[i].chain)
\* What is registered in a blueprint comes before what is in those nested in it.
OuterBefore ==
    /\ Apart
    /\ \A i, k \in Ids : IsPrefix(comps[k].chain, comps[i].chain) /\ comps[k].chain # comps[i].chain => k < i

LEMMA OuterBeforeAtTheStart ==
    ASSUME Init
    PROVE  OuterBefore
<1>1. Ids = {}
    BY DEF Init, Ids
<1>2. DOMAIN queue = {1}
  <2> DEFINE x == Item(Root, <<Root>>, << >>, NoDomain)
  <2>1. queue = <<x>>
      BY DEF Init
  <2> HIDE DEF x
  <2> QED
      BY <2>1
<1> QED
    BY <1>1, <1>2 DEF OuterBefore, Apart

\* The blueprints nested in one are pushed once, each below it.
LEMMA PushedBelow ==
    ASSUME IsApp(app), NEW b \in DOMAIN app
    PROVE  LET p == Pushed(ItemOf(b)) IN
           /\ \A k \in DOMAIN p : p[k].bp \in DOMAIN app /\ p[k].chain = Append(ChainTo(b), p[k].bp)
           /\ \A j, k \in DOMAIN p : p[j].bp = p[k].bp => j = k
<1> DEFINE nests == Entries(app[b], "nest")
           p == Pushed(ItemOf(b))
<1>1. NoneTwice(nests)
    BY NestsDiffer
<1>2. p = [i \in DOMAIN nests |-> Nested(ItemOf(b), nests[i])]
    BY DEF Pushed, ItemOf, Item
<1>3. \A e : Nested(ItemOf(b), e).bp = e.bp /\ Nested(ItemOf(b), e).chain = Append(ChainTo(b), e.bp)
    BY DEF Nested, ItemOf, Item
<1>4. ASSUME NEW k \in DOMAIN p PROVE p[k].bp \in DOMAIN app
  <2>2. \E c \in DOMAIN app \ {Root} : SiteOf(c).in = b /\ p[k] = ItemOf(c)
    <3>1. \A j \in DOMAIN Pushed(ItemOf(b)) :
              \E c \in DOMAIN app \ {Root} : SiteOf(c).in = b /\ Pushed(ItemOf(b))[j] = ItemOf(c)
        BY PushedFacts
    <3> QED
        BY <3>1
  <2>1. PICK c \in DOMAIN app : p[k] = ItemOf(c)
      BY <2>2
  <2> HIDE DEF p
  <2> QED
      BY <2>1 DEF ItemOf, Item
<1> HIDE DEF nests, p
<1>5. \A k \in DOMAIN p : k \in DOMAIN nests /\ p[k].bp = nests[k].bp /\ p[k].chain = Append(ChainTo(b), nests[k].bp)
    BY <1>2, <1>3
<1>6. \A j, k \in DOMAIN p : p[j].bp = p[k].bp => j = k
    BY <1>1, <1>5 DEF NoneTwice
<1>7. \A k \in DOMAIN p : p[k].chain = Append(ChainTo(b), p[k].bp)
    BY <1>5
<1> QED
    BY <1>4, <1>6, <1>7 DEF p

LEMMA AppendedFacts ==
    ASSUME NEW T, NEW s \in Seq(T), NEW x \in T, NEW y \in T
    PROVE  /\ Append(s, x) \in Seq(T)
           /\ IsPrefix(s, Append(s, x)) /\ ~IsPrefix(Append(s, x), s)
           /\ IsPrefix(Append(s, x), Append(s, y)) => x = y
<1> DEFINE u == Append(s, x)
           v == Append(s, y)
           n == Len(s)
<1>1. /\ u \in Seq(T) /\ v \in Seq(T) /\ n \in Nat /\ Len(u) = n + 1 /\ Len(v) = n + 1
      /\ u[n + 1] = x /\ v[n + 1] = y /\ \A j \in 1..n : u[j] = s[j]
    OBVIOUS
<1> HIDE DEF u, v
<1>2. IsPrefix(s, u)
    BY <1>1, PrefixFacts
<1>3. ~IsPrefix(u, s)
    BY <1>1, PrefixFacts
<1>4. IsPrefix(u, v) => x = y
  <2>1. n + 1 \in 1..Len(u)
      BY <1>1
  <2> QED
      BY <1>1, <2>1, PrefixFacts
<1> QED
    BY <1>1, <1>2, <1>3, <1>4 DEF u, v

LEMMA ProcessBlueprintKeepsOuterBefore ==
    ASSUME BuildInv, OuterBefore, ProcessBlueprint
    PROVE  OuterBefore'
<1> DEFINE item == Last(queue)
           n == Len(comps)
           f == Front(queue)
           h == Len(queue)
           C == Seq(DOMAIN app)
<1>0. IsApp(app) /\ queue # << >> /\ queue \in Seq(Items) /\ comps \in Seq(CompSet)
    BY DEF ProcessBlueprint, BuildInv
<1>1. /\ f \in Seq(Items) /\ item \in Items /\ h \in DOMAIN queue /\ h \in Nat /\ Len(f) = h - 1
      /\ \A k \in 1..(h - 1) : f[k] = queue[k]
    BY <1>0, FrontFacts
<1>2. DOMAIN f = 1..(h - 1) /\ DOMAIN queue = 1..h
    BY <1>0, <1>1
<1>3. \A k \in DOMAIN f : k \in DOMAIN queue /\ f[k] = queue[k] /\ k # h
    BY <1>1, <1>2
<1>4. PICK b \in DOMAIN app : item = ItemOf(b)
    BY <1>1 DEF Items
<1>5. item.chain = ChainTo(b) /\ item = queue[h]
    BY <1>4 DEF ItemOf, Item, Last
<1>6. n \in Nat /\ Ids = 1..n
    BY <1>0 DEF Ids
<1>7. \A d \in DOMAIN app : ChainTo(d) \in C
    BY <1>0, PlaceTyped DEF Places, ChainTo
<1>8. /\ \A k \in DOMAIN queue : queue[k].chain \in C
      /\ \A i \in Ids : comps[i].chain \in C
  <2>1. \A k \in DOMAIN queue : queue[k] \in Items
      BY <1>0
  <2>2. \A x \in Items : x.chain \in C
      BY <1>7 DEF Items, ItemOf, Item
  <2>3. \A i \in Ids : comps[i] \in CompSet
      BY <1>0 DEF Ids
  <2>4. ASSUME NEW d \in DOMAIN app, NEW x \in RegisteredBy(d) PROVE x.chain \in C
    <3>1. x \in Handlers(d) \/ IsFallbackOf(x, d)
        BY <1>0, RegisteredFacts
    <3> QED
        BY <1>7, <3>1 DEF Handlers, HandlerOf, IsFallbackOf
  <2>5. \A x \in CompSet : x.chain \in C
      BY <2>4 DEF CompSet
  <2> HIDE DEF C
  <2> QED
      BY <2>1, <2>2, <2>3, <2>5
<1>9. /\ \A k \in DOMAIN f : /\ ~IsPrefix(f[k].chain, ChainTo(b)) /\ ~IsPrefix(ChainTo(b), f[k].chain)
                             /\ \A i \in Ids : ~IsPrefix(f[k].chain, comps[i].chain)
      /\ \A j, k \in DOMAIN f : IsPrefix(f[j].chain, f[k].chain) => j = k
      /\ \A i \in Ids : ~IsPrefix(ChainTo(b), comps[i].chain)
  <2> HIDE DEF f, h, item
  <2> QED
      BY <1>1, <1>3, <1>5 DEF OuterBefore, Apart
<1>10. CASE queue' = f /\ comps' = comps
  <2>1. Ids' = Ids
      BY <1>10 DEF Ids
  <2> HIDE DEF f, item, n
  <2> QED
      BY <1>9, <1>10, <2>1 DEF OuterBefore, Apart
<1>11. CASE comps' = comps \o Registered(item) /\ queue' = f \o Pushed(item)
  <2> DEFINE reg == Registered(item)
             m == Len(reg)
             p == Pushed(item)
             all == comps'
             q == queue'
             g == Len(f)
  <2>1. reg \in Seq(RegisteredBy(b)) /\ m \in Nat
      BY <1>0, <1>4, RegisteredFacts DEF RegisteredBy
  <2>2. \A x \in RegisteredBy(b) : x.chain = ChainTo(b)
      BY <1>0, RegisteredFacts DEF Handlers, HandlerOf, IsFallbackOf
  <2>3. \A j \in 1..m : reg[j].chain = ChainTo(b)
    <3> HIDE DEF reg
    <3>1. \A j \in 1..m : reg[j] \in RegisteredBy(b)
        BY <2>1
    <3> QED
        BY <2>2, <3>1
  <2>4. /\ DOMAIN all = 1..(n + m) /\ \A j \in 1..n : all[j] = comps[j]
        /\ \A j \in 1..m : all[n + j] = reg[j]
    <3>1. all = comps \o reg
        BY <1>11
    <3> HIDE DEF reg, all, item
    <3> QED
        BY <1>0, <2>1, <3>1
  <2>5. Ids' = 1..(n + m)
      BY <2>4 DEF Ids
  <2>6. \A i \in 1..(n + m) : (i \in Ids /\ all[i] = comps[i]) \/ (i > n /\ i \notin Ids /\ all[i].chain = ChainTo(b))
    <3> HIDE DEF all, reg, m, n
    <3>1. ASSUME NEW i \in 1..(n + m), ~(i \in 1..n) PROVE i > n /\ i - n \in 1..m /\ n + (i - n) = i
        BY <1>6, <2>1, <3>1
    <3> QED
        BY <1>6, <2>3, <2>4, <3>1
  <2>7. /\ \A k \in DOMAIN p : p[k].bp \in DOMAIN app /\ p[k].chain = Append(ChainTo(b), p[k].bp)
        /\ \A j, k \in DOMAIN p : p[j].bp = p[k].bp => j = k
      BY <1>0, <1>4, PushedBelow
  <2>8. p \in Seq(Items) /\ f \in Seq(Items) /\ g \in Nat /\ DOMAIN f = 1..g
      BY <1>0, <1>1, <1>4, PushedFacts DEF Items
  <2>9. \A k \in DOMAIN q : \/ k \in DOMAIN f /\ q[k] = f[k]
                            \/ k - g \in DOMAIN p /\ k \notin DOMAIN f /\ q[k] = p[k - g]
    <3>1. q = f \o p
        BY <1>11
    <3> HIDE DEF f, p, item, q
    <3>2. Len(p) \in Nat /\ DOMAIN p = 1..Len(p) /\ DOMAIN q = 1..(g + Len(p)) /\ \A k \in 1..g : q[k] = f[k]
        BY <2>8, <3>1
    <3>3. ASSUME NEW k \in DOMAIN q, k \notin DOMAIN f PROVE k - g \in DOMAIN p /\ q[k] = p[k - g]
      <4>1. k - g \in 1..Len(p) /\ ~(k <= g)
          BY <2>8, <3>2, <3>3
      <4>2. q[k] = p[k - g]
          BY <2>8, <3>1, <3>2, <4>1
      <4> QED
          BY <3>2, <4>1, <4>2
    <3> QED
        BY <2>8, <3>2, <3>3
  <2>10. \A k \in DOMAIN q : k \in Int
    <3>1. q = f \o p
        BY <1>11
    <3> HIDE DEF f, p, item, q
    <3> QED
        BY <2>8, <3>1
  <2> HIDE DEF item, reg, m, p, f, all, q, n, h, g
  \* A chain that continues that of b, and any other.
  <2>11. ASSUME NEW k \in DOMAIN p
         PROVE  /\ p[k].chain \in C
                /\ \A j \in DOMAIN f : ~IsPrefix(f[j].chain, p[k].chain) /\ ~IsPrefix(p[k].chain, f[j].chain)
                /\ \A j \in DOMAIN p : IsPrefix(p[k].chain, p[j].chain) => k = j
                /\ \A i \in Ids : ~IsPrefix(p[k].chain, comps[i].chain)
                /\ ~IsPrefix(p[k].chain, ChainTo(b))
    <3> DEFINE x == p[k].bp
               c == p[k].chain
               t == ChainTo(b)
    <3>1. x \in DOMAIN app /\ c = Append(t, x) /\ t \in C
        BY <1>7, <2>7
    <3>2. c \in C /\ IsPrefix(t, c) /\ ~IsPrefix(c, t)
      <4> HIDE DEF x, c, t
      <4> QED
          BY <3>1, AppendedFacts
    <3>3. ASSUME NEW r \in C, IsPrefix(c, r) PROVE IsPrefix(t, r)
      <4> HIDE DEF x, c, t
      <4> QED
          BY <3>1, <3>2, <3>3, PrefixOfPrefix
    <3>4. ASSUME NEW r \in C, IsPrefix(r, c) PROVE IsPrefix(r, t) \/ r = c
      <4> HIDE DEF x, c, t
      <4> QED
          BY <3>1, <3>4, PrefixOfAppended
    <3>5. ASSUME NEW j \in DOMAIN f PROVE ~IsPrefix(f[j].chain, c) /\ ~IsPrefix(c, f[j].chain)
      <4>1. f[j].chain \in C
          BY <1>3, <1>8
      <4>2. ~IsPrefix(f[j].chain, t) /\ ~IsPrefix(t, f[j].chain)
          BY <1>9
      <4> HIDE DEF c, t
      <4> QED
          BY <3>2, <3>3, <3>4, <4>1, <4>2
    <3>6. ASSUME NEW j \in DOMAIN p, IsPrefix(c, p[j].chain) PROVE k = j
      <4> DEFINE y == p[j].bp
      <4>1. y \in DOMAIN app /\ p[j].chain = Append(t, y)
          BY <2>7
      <4>2. x = y
        <5> HIDE DEF x, y, c, t
        <5> QED
            BY <3>1, <3>6, <4>1, AppendedFacts
      <4> QED
          BY <2>7, <4>2
    <3>7. \A i \in Ids : ~IsPrefix(c, comps[i].chain)
      <4> HIDE DEF c, t
      <4> QED
          BY <1>8, <1>9, <3>3 DEF t
    <3> QED
        BY <3>2, <3>5, <3>6, <3>7
  <2>12. \A j, k \in DOMAIN q : IsPrefix(q[j].chain, q[k].chain) => j = k
    <3> SUFFICES ASSUME NEW j \in DOMAIN q, NEW k \in DOMAIN q, IsPrefix(q[j].chain, q[k].chain) PROVE j = k
        OBVIOUS
    <3>1. CASE j \in DOMAIN f /\ k \in DOMAIN f
        BY <1>9, <2>9, <3>1
    <3>2. CASE j \notin DOMAIN f /\ k \notin DOMAIN f
      <4>1. j - g \in DOMAIN p /\ k - g \in DOMAIN p /\ q[j] = p[j - g] /\ q[k] = p[k - g]
          BY <2>9, <3>2
      <4>2. j - g = k - g
          BY <2>11, <4>1
      <4> QED
          BY <2>8, <2>10, <4>2
    <3>3. CASE ~(j \in DOMAIN f <=> k \in DOMAIN f)
        BY <2>9, <2>11, <3>3
    <3> QED
        BY <3>1, <3>2, <3>3
  <2>13. \A k \in DOMAIN q : \A i \in 1..(n + m) : ~IsPrefix(q[k].chain, all[i].chain)
      BY <1>9, <2>6, <2>9, <2>11
  <2>14. ASSUME NEW i \in 1..(n + m), NEW k \in 1..(n + m),
                IsPrefix(all[k].chain, all[i].chain), all[k].chain # all[i].chain
         PROVE  k < i
    <3>1. CASE i \in Ids /\ k \in Ids
        BY <1>6, <2>6, <2>14, <3>1 DEF OuterBefore
    <3>2. CASE i \notin Ids /\ k \in Ids
        BY <1>6, <2>1, <2>6, <3>2
    <3>3. CASE k \notin Ids
        BY <1>9, <2>6, <2>14, <3>3
    <3> QED
        BY <3>1, <3>2, <3>3
  <2>15. queue' = q /\ comps' = all
      BY DEF q, all
  <2> QED
      BY <2>5, <2>12, <2>13, <2>14, <2>15 DEF OuterBefore, Apart
<1> QED
    BY <1>10, <1>11 DEF ProcessBlueprint

LEMMA OthersKeepOuterBefore ==
    ASSUME OuterBefore, UNCHANGED <<queue, comps>>
    PROVE  OuterBefore'
BY DEF OuterBefore, Apart, Ids

-----------------------------------------------------------------------------
(* What the blueprints declare is what the routers hold. *)

\* The components in ids are those of the blueprints in B.
AreOf(ids, B) ==
    /\ \A i \in ids : \E b \in B : Owns(b, i)
    /\ \A b \in B : \A i \in Ids : Owns(b, i) => i \in ids
    /\ \A b \in B : /\ \A e \in EntriesOf(b, "route") : \E i \in ids : comps[i] = HandlerOf(b, e)
                    /\ HasFallback(b) => \E i \in ids : IsFallbackOf(comps[i], b)
Fit == {d \in BestHits : request.method \in d.methods}

LEMMA OwnFacts ==
    ASSUME BuildInv, NEW b \in DOMAIN app, NEW i, Owns(b, i)
    PROVE  /\ comps[i].domain = DomainOf(b) /\ comps[i].chain = ChainTo(b) /\ Speaks(b)
           /\ comps[i].kind = "route" =>
                 \E d \in Declared(b) : /\ d.in = b /\ d.path = comps[i].path
                                       /\ d.methods = comps[i].methods /\ d.callable = comps[i].callable
           /\ comps[i].kind = "fallback" => HasFallback(b) /\ comps[i].prefix = PrefixOf(b)
<1>1. ToSet(Entries(app[b], "route")) = EntriesOf(b, "route")
    BY EntriesFacts DEF BuildInv
<1>2. CASE comps[i] \in Handlers(b)
  <2>1. PICK e \in EntriesOf(b, "route") : comps[i] = HandlerOf(b, e)
      BY <1>2 DEF Handlers
  <2>2. /\ comps[i].kind = "route" /\ comps[i].chain = ChainTo(b) /\ comps[i].domain = DomainOf(b)
        /\ comps[i].callable = e.callable /\ comps[i].methods = e.methods /\ comps[i].path = Join(PrefixOf(b), e.path)
      BY <2>1 DEF HandlerOf
  <2>3. Entries(app[b], "route") # << >>
      BY <1>1, <2>1 DEF ToSet
  <2> DEFINE d == [in |-> b, path |-> Join(PrefixOf(b), e.path), methods |-> e.methods, callable |-> e.callable]
  <2>4. d \in Declared(b)
      BY <1>1, <2>1 DEF Declared
  <2>5. d.in = b /\ d.path = Join(PrefixOf(b), e.path) /\ d.methods = e.methods /\ d.callable = e.callable
      OBVIOUS
  <2> HIDE DEF d
  <2> QED
      BY <2>2, <2>3, <2>4, <2>5 DEF Speaks
<1>3. CASE IsFallbackOf(comps[i], b) /\ HasFallback(b)
    BY <1>3 DEF IsFallbackOf, Speaks
<1> QED
    BY <1>2, <1>3 DEF Owns

LEMMA DeclaredFacts ==
    ASSUME BuildInv, NEW b \in DOMAIN app, NEW ids \in SUBSET Ids,
           \A e \in EntriesOf(b, "route") : \E i \in ids : comps[i] = HandlerOf(b, e),
           NEW d \in Declared(b)
    PROVE  \E i \in Routes(ids) : comps[i].path = d.path /\ comps[i].methods = d.methods /\ comps[i].callable = d.callable
<1>1. PICK e \in EntriesOf(b, "route") :
          d = [in |-> b, path |-> Join(PrefixOf(b), e.path), methods |-> e.methods, callable |-> e.callable]
    BY EntriesFacts DEF BuildInv, Declared
<1>2. PICK i \in ids : comps[i] = HandlerOf(b, e)
    BY <1>1
<1>3. comps[i].kind = "route" /\ comps[i].path = d.path /\ comps[i].methods = d.methods /\ comps[i].callable = d.callable
    BY <1>1, <1>2 DEF HandlerOf
<1> QED
    BY <1>3 DEF Routes

LEMMA SameAnswers ==
    ASSUME BuildInv, NEW ids \in SUBSET Ids, AreOf(ids, Present)
    PROVE  LET path == request.path
               Same(i, d) == comps[i].path = d.path /\ comps[i].methods = d.methods /\ comps[i].callable = d.callable
           IN  /\ \A i \in BestRoutes(ids, path) :
                     /\ comps[i].kind = "route"
                     /\ \E d \in BestHits : Same(i, d) /\ d.in \in Present /\ comps[i].chain = ChainTo(d.in)
               /\ \A d \in BestHits : \E i \in BestRoutes(ids, path) : Same(i, d)
               /\ \A i \in Claiming(ids, path) : \E b \in Claimants : IsFallbackOf(comps[i], b)
               /\ \A b \in Claimants : \E i \in Claiming(ids, path) : IsFallbackOf(comps[i], b)
<1> DEFINE path == request.path
           D == UNION {Declared(b) : b \in Present}
           Same(i, d) == comps[i].path = d.path /\ comps[i].methods = d.methods /\ comps[i].callable = d.callable
<1>1. Present \subseteq DOMAIN app
    BY DEF Present
<1>2. ASSUME NEW i \in ids
      PROVE  \E b \in Present :
                /\ comps[i].kind = "route" => comps[i].chain = ChainTo(b) /\ \E d \in Declared(b) : d.in = b /\ Same(i, d)
                /\ comps[i].kind = "fallback" => HasFallback(b) /\ IsFallbackOf(comps[i], b)
  <2>1. PICK b \in Present : Owns(b, i)
      BY DEF AreOf
  <2>2. /\ comps[i].domain = DomainOf(b) /\ comps[i].chain = ChainTo(b)
        /\ comps[i].kind = "route" =>
              \E d \in Declared(b) : /\ d.in = b /\ d.path = comps[i].path
                                    /\ d.methods = comps[i].methods /\ d.callable = comps[i].callable
        /\ comps[i].kind = "fallback" => HasFallback(b) /\ comps[i].prefix = PrefixOf(b)
      BY <1>1, <2>1, OwnFacts
  <2>3. comps[i].kind = "fallback" => HasFallback(b) /\ IsFallbackOf(comps[i], b)
      BY <2>2 DEF IsFallbackOf
  <2>4. comps[i].kind = "route" => comps[i].chain = ChainTo(b) /\ \E d \in Declared(b) : d.in = b /\ Same(i, d)
      BY <2>2
  <2> QED
      BY <2>3, <2>4
<1>3. \A i \in Routes(ids) : \E d \in D : Same(i, d) /\ d.in \in Present /\ comps[i].chain = ChainTo(d.in)
  <2>1. ASSUME NEW i \in Routes(ids) PROVE \E d \in D : Same(i, d) /\ d.in \in Present /\ comps[i].chain = ChainTo(d.in)
    <3>1. i \in ids /\ comps[i].kind = "route"
        BY DEF Routes
    <3>2. PICK b \in Present : comps[i].chain = ChainTo(b) /\ \E d \in Declared(b) : d.in = b /\ Same(i, d)
        BY <1>2, <3>1
    <3> HIDE DEF Same
    <3>3. PICK d \in Declared(b) : d.in = b /\ Same(i, d)
        BY <3>2
    <3> QED
        BY <3>2, <3>3
  <2> QED
      BY <2>1
<1>4. ASSUME NEW d \in D PROVE \E i \in Routes(ids) : Same(i, d)
  <2>1. PICK b \in Present : d \in Declared(b)
      OBVIOUS
  <2>2. \A e \in EntriesOf(b, "route") : \E i \in ids : comps[i] = HandlerOf(b, e)
      BY <2>1 DEF AreOf
  <2> QED
      BY <1>1, <2>1, <2>2, DeclaredFacts
<1>5. \A i : i \in BestRoutes(ids, path) <=>
                /\ i \in Routes(ids) /\ Matches(comps[i].path, path)
                /\ \A j \in Routes(ids) : Matches(comps[j].path, path) => ~Before(comps[j].path, comps[i].path)
    BY DEF BestRoutes, RoutesFor
<1>6. \A d : d \in BestHits <=>
                /\ d \in D /\ Matches(d.path, path)
                /\ \A e \in D : Matches(e.path, path) => ~Before(e.path, d.path)
    BY DEF BestHits, RoutesHit, Closest
<1> HIDE DEF D
<1>7. ASSUME NEW i \in BestRoutes(ids, path)
      PROVE  comps[i].kind = "route" /\ \E d \in BestHits : Same(i, d) /\ d.in \in Present /\ comps[i].chain = ChainTo(d.in)
  <2>1. PICK d \in D : Same(i, d) /\ d.in \in Present /\ comps[i].chain = ChainTo(d.in)
      BY <1>3, <1>5
  <2>2. \A e \in D : Matches(e.path, path) => ~Before(e.path, d.path)
      BY <1>4, <1>5, <2>1
  <2>3. comps[i].kind = "route"
      BY <1>5 DEF Routes
  <2> QED
      BY <1>5, <1>6, <2>1, <2>2, <2>3
<1>8. ASSUME NEW d \in BestHits PROVE \E i \in BestRoutes(ids, path) : Same(i, d)
  <2>1. PICK i \in Routes(ids) : Same(i, d)
      BY <1>4, <1>6
  <2>2. \A j \in Routes(ids) : Matches(comps[j].path, path) => ~Before(comps[j].path, comps[i].path)
      BY <1>3, <1>6, <2>1
  <2> QED
      BY <1>5, <1>6, <2>1, <2>2
<1>9. ASSUME NEW b \in Claimants PROVE \E i \in Claiming(ids, path) : IsFallbackOf(comps[i], b)
  <2>1. b \in Present /\ HasFallback(b) /\ PrefixOf(b) # << >> /\ Matches(CatchAll(PrefixOf(b)), path)
      BY DEF Claimants
  <2>2. PICK i \in ids : IsFallbackOf(comps[i], b)
      BY <2>1 DEF AreOf
  <2> QED
      BY <2>1, <2>2 DEF IsFallbackOf, Claiming, Prefixed, Fallbacks
<1>10. ASSUME NEW i \in Claiming(ids, path) PROVE \E b \in Claimants : IsFallbackOf(comps[i], b)
  <2>1. i \in ids /\ comps[i].kind = "fallback" /\ comps[i].prefix # << >> /\ Matches(CatchAll(comps[i].prefix), path)
      BY DEF Claiming, Prefixed, Fallbacks
  <2>2. PICK b \in Present : HasFallback(b) /\ IsFallbackOf(comps[i], b)
      BY <1>2, <2>1
  <2> QED
      BY <2>1, <2>2 DEF Claimants, IsFallbackOf
<1> QED
    BY <1>7, <1>8, <1>9, <1>10

LEMMA SameOutranked ==
    ASSUME BuildInv, NEW ids \in SUBSET Ids, AreOf(ids, Present)
    PROVE  Outranked <=> PrefixIsCloser(ids, request.path)
<1> DEFINE path == request.path
<1>1. /\ \A i \in BestRoutes(ids, path) : \E d \in BestHits : comps[i].path = d.path
      /\ \A d \in BestHits : \E i \in BestRoutes(ids, path) : comps[i].path = d.path
      /\ \A i \in Claiming(ids, path) : \E b \in Claimants : comps[i].prefix = PrefixOf(b)
      /\ \A b \in Claimants : \E i \in Claiming(ids, path) : comps[i].prefix = PrefixOf(b)
    BY SameAnswers DEF IsFallbackOf
<1>2. ASSUME Outranked PROVE PrefixIsCloser(ids, path)
  <2>1. PICK b \in Claimants : \A d \in BestHits : Before(CatchAll(PrefixOf(b)), d.path)
      BY <1>2 DEF Outranked
  <2>2. PICK i \in Claiming(ids, path) : comps[i].prefix = PrefixOf(b)
      BY <1>1
  <2> QED
      BY <1>1, <2>1, <2>2 DEF PrefixIsCloser
<1>3. ASSUME PrefixIsCloser(ids, path) PROVE Outranked
  <2>1. PICK i \in Claiming(ids, path) : \A j \in BestRoutes(ids, path) : Before(CatchAll(comps[i].prefix), comps[j].path)
      BY <1>3 DEF PrefixIsCloser
  <2>2. PICK b \in Claimants : comps[i].prefix = PrefixOf(b)
      BY <1>1
  <2> QED
      BY <1>1, <2>1, <2>2 DEF Outranked
<1> QED
    BY <1>2, <1>3

-----------------------------------------------------------------------------
(* The generated server. *)

ServingInv ==
    /\ BuildInv
    /\ OuterFirst /\ OuterBefore
    /\ phase = "serving" => queue = << >> /\ ~errors /\ router = NewRouter
    /\ answer # 0 => phase = "serving" /\ request \in Requests /\ answer = Route(request)

LEMMA SameRouter ==
    ASSUME comps' = comps
    PROVE  NewRouter' = NewRouter
BY DEF NewRouter, DomainBased, Domains, Of, PathRouter, InOrder, Accumulate, AddFallback, AddRoute, With, Routes,
       Fallbacks, PathFallbacks, Prefixed, Taken, FallbackOf, CommonAncestor, Ids, CatchAll

LEMMA ServingStep == ServingInv /\ [Next]_vars => ServingInv'
<1> SUFFICES ASSUME ServingInv, [Next]_vars PROVE ServingInv'
    OBVIOUS
<1>0. BuildInv /\ OuterFirst /\ OuterBefore
    BY DEF ServingInv
<1>1. CASE ProcessBlueprint
  <2>1. BuildInv' /\ OuterFirst' /\ OuterBefore'
      BY <1>0, <1>1, ProcessBlueprintKeepsBuild, ProcessBlueprintKeepsOuterFirst,
         ProcessBlueprintKeepsOuterBefore
  <2>2. answer = 0 /\ phase' # "serving" /\ answer' = answer
      BY <1>1 DEF ProcessBlueprint, ServingInv
  <2> QED
      BY <2>1, <2>2 DEF ServingInv
<1>2. CASE RejectApp \/ PanicInsteadOfApp
  <2>1. BuildInv' /\ OuterFirst' /\ OuterBefore'
      BY <1>0, <1>2, OthersKeepBuild, OthersKeepOuterFirst, OthersKeepOuterBefore DEF RejectApp, PanicInsteadOfApp, Built
  <2>2. answer = 0 /\ phase' # "serving" /\ answer' = answer
      BY <1>2 DEF RejectApp, PanicInsteadOfApp, Built, ServingInv
  <2> QED
      BY <2>1, <2>2 DEF ServingInv
<1>3. CASE BuildRouter
  <2>1. BuildInv' /\ OuterFirst' /\ OuterBefore'
      BY <1>0, <1>3, OthersKeepBuild, OthersKeepOuterFirst, OthersKeepOuterBefore DEF BuildRouter, Built
  <2>2. answer = 0 /\ answer' = answer
      BY <1>3 DEF BuildRouter, Built, ServingInv
  <2>3. queue' = << >> /\ ~errors' /\ router' = NewRouter /\ comps' = comps
      BY <1>3 DEF BuildRouter, Built
  <2>4. router' = NewRouter'
      BY <2>3, SameRouter
  <2> QED
      BY <2>1, <2>2, <2>3, <2>4 DEF ServingInv
<1>4. CASE \E req \in Requests : Serve(req)
  <2>1. BuildInv' /\ OuterFirst' /\ OuterBefore'
      BY <1>0, <1>4, OthersKeepBuild, OthersKeepOuterFirst, OthersKeepOuterBefore DEF Serve
  <2>2. PICK req \in Requests : Serve(req)
      BY <1>4
  <2>3. /\ phase = "serving" /\ phase' = phase /\ queue' = queue /\ errors' = errors /\ router' = router
        /\ comps' = comps /\ request' = req /\ answer' = Route(req)
      BY <2>2 DEF Serve
  <2>4. router' = NewRouter'
      BY <2>3, SameRouter DEF ServingInv
  <2>5. answer' = Route(request)'
      BY <2>3 DEF Route, RouteByPath
  <2> QED
      BY <2>1, <2>3, <2>4, <2>5 DEF ServingInv
<1>5. CASE UNCHANGED vars
  <2>1. BuildInv' /\ OuterFirst' /\ OuterBefore'
      BY <1>0, <1>5, OthersKeepBuild, OthersKeepOuterFirst, OthersKeepOuterBefore DEF vars
  <2>2. /\ phase' = phase /\ queue' = queue /\ errors' = errors /\ router' = router
        /\ comps' = comps /\ request' = request /\ answer' = answer
      BY <1>5 DEF vars
  <2>3. NewRouter' = NewRouter
      BY <2>2, SameRouter
  <2>4. Route(request)' = Route(request)
      BY <2>2 DEF Route, RouteByPath
  <2> QED
      BY <2>1, <2>2, <2>3, <2>4 DEF ServingInv
<1> QED
    BY <1>1, <1>2, <1>3, <1>4, <1>5 DEF Next

\* A blueprint with a route or a fallback has a component.
LEMMA SpeakersOwn ==
    ASSUME Complete, NEW b \in DOMAIN app, Speaks(b)
    PROVE  \E i \in Ids : Owns(b, i)
<1>1. IsApp(app)
    BY DEF Complete, BuildInv
<1>2. CASE HasFallback(b)
    BY <1>2, RegistrationsKept DEF Owns
<1>3. CASE Entries(app[b], "route") # << >>
  <2>1. Entries(app[b], "route") \in Seq(EntriesOf(b, "route"))
      BY <1>1, EntriesFacts
  <2>2. PICK e : e \in EntriesOf(b, "route")
    <3> DEFINE s == Entries(app[b], "route")
               T == EntriesOf(b, "route")
    <3>1. s \in Seq(T) /\ s # << >>
        BY <1>3, <2>1
    <3> HIDE DEF s, T
    <3>2. s[1] \in T
        BY <3>1
    <3> QED
        BY <3>2 DEF T
  <2>3. PICK i \in Ids : comps[i] = HandlerOf(b, e)
      BY <2>2, RegistrationsKept
  <2> QED
      BY <2>2, <2>3 DEF Owns, Handlers
<1> QED
    BY <1>2, <1>3 DEF Speaks

\* The guards a host is compared with are those of the routers.
LEMMA GuardFacts ==
    ASSUME Complete, DomainBased
    PROVE  /\ GuardsHit = Hits(Domains, request.host)
           /\ Domains \in SUBSET Patterns /\ IsFiniteSet(Domains)
           /\ \A d \in Domains : d # NoDomain /\ \E i \in Ids : comps[i].domain = d
<1>1. BuildInv
    BY DEF Complete
<1>2. Domains = {comps[i].domain : i \in Ids} \ {NoDomain}
    BY DEF Domains
<1> DEFINE Speaking == {c \in DOMAIN app : Speaks(c)}
<1>3. ASSUME NEW i \in Ids PROVE \E b \in Speaking : comps[i].domain = DomainOf(b)
  <2>1. PICK b \in DOMAIN app : Owns(b, i)
      BY <1>1, CompFacts
  <2> QED
      BY <1>1, <2>1, OwnFacts
<1>4. ASSUME NEW b \in Speaking PROVE \E i \in Ids : comps[i].domain = DomainOf(b)
  <2>1. PICK i \in Ids : Owns(b, i)
      BY SpeakersOwn
  <2> QED
      BY <1>1, <2>1, OwnFacts
<1>5. {comps[i].domain : i \in Ids} = {DomainOf(b) : b \in Speaking}
  <2> HIDE DEF Speaking
  <2> QED
      BY <1>3, <1>4
<1>6. GuardsHit = Hits(Domains, request.host)
    BY <1>2, <1>5 DEF GuardsHit, Hits
<1>7. {comps[i].domain : i \in Ids} \subseteq Patterns
    BY <1>1, CompTyped
<1>8. IsFiniteSet({comps[i].domain : i \in Ids})
  <2>1. IsFiniteSet(Ids)
      BY <1>1, CompFacts, FS_Interval
  <2> DEFINE S == {comps[i].domain : i \in Ids}
             f == [i \in Ids |-> comps[i].domain]
  <2>2. f \in Surjection(Ids, S)
      BY DEF Surjection
  <2> HIDE DEF f, S
  <2>3. IsFiniteSet(S)
      BY <2>1, <2>2, FS_Surjection
  <2> QED
      BY <2>3 DEF S
<1>9. IsFiniteSet(Domains)
  <2> DEFINE S == {comps[i].domain : i \in Ids}
  <2>1. IsFiniteSet(S) /\ Domains \subseteq S
      BY <1>2, <1>8
  <2> HIDE DEF S
  <2> QED
      BY <2>1, FS_Subset
<1> QED
    BY <1>2, <1>6, <1>7, <1>9

LEMMA ServedBy ==
    ASSUME ServingInv, Answered
    PROVE  \/ /\ Present = {} /\ answer \in Fallbacks(Ids) /\ comps[answer].domain = NoDomain
              /\ \A i \in Fallbacks(Ids) : comps[i].domain = NoDomain => i <= answer
           \/ \E ids \in SUBSET Ids :
                 ids # {} /\ AreOf(ids, Present) /\ answer = RouteByPath(PathRouter(ids), request.path, request.method)
<1>1. /\ Complete /\ BuildInv /\ router = NewRouter /\ answer = Route(request)
      /\ request.host \in Seq(STRING)
    BY RoutingAssumption DEF ServingInv, Answered, Complete
<1>2. /\ router.domainBased = DomainBased
      /\ router.routers = [d \in Domains |-> PathRouter(Of(d))]
      /\ router.root = Max({i \in Fallbacks(Ids) : comps[i].domain = NoDomain})
    BY <1>1 DEF NewRouter
<1>3. \A i \in Ids : \E b \in DOMAIN app : Owns(b, i)
    BY <1>1, CompFacts
<1>4. CASE ~DomainBased
  <2>1. answer = RouteByPath(PathRouter(Ids), request.path, request.method)
    <3>1. router.routers[NoDomain] = PathRouter(Ids)
        BY <1>2, <1>4 DEF Domains, Of
    <3> QED
        BY <1>1, <1>2, <1>4, <3>1 DEF Route
  <2>2. Present = {b \in DOMAIN app : Speaks(b)}
      BY <1>2, <1>4 DEF Present, Concerned
  <2>3. \A i \in Ids : \E b \in Present : Owns(b, i)
      BY <1>1, <1>3, <2>2, OwnFacts
  <2>4. AreOf(Ids, Present)
    <3>1. ASSUME NEW b \in Present
          PROVE  /\ \A e \in EntriesOf(b, "route") : \E i \in Ids : comps[i] = HandlerOf(b, e)
                 /\ HasFallback(b) => \E i \in Ids : IsFallbackOf(comps[i], b)
        BY <1>1, <2>2, RegistrationsKept
    <3> QED
        BY <2>3, <3>1 DEF AreOf
  <2>5. Ids # {}
      BY <1>1, TopFallback DEF Fallbacks
  <2> QED
      BY <2>1, <2>4, <2>5
<1>5. CASE DomainBased /\ Hits(Domains, request.host) = {}
  <2>1. Present = {}
    <3>1. GuardsHit = {}
        BY <1>1, <1>5, GuardFacts
    <3> QED
        BY <1>2, <1>5, <3>1 DEF Present, Concerned, Closest
  <2> DEFINE S == {i \in Fallbacks(Ids) : comps[i].domain = NoDomain}
             n == Len(comps)
  <2>2. answer = Max(S)
      BY <1>1, <1>2, <1>5 DEF Route
  <2>3. S \in SUBSET (0..n) /\ S # {} /\ n \in Nat
    <3>1. n \in Nat /\ Ids = 1..n
        BY <1>1, CompFacts
    <3>2. \A i \in Ids : i \in 0..n
      <4> HIDE DEF n
      <4> QED
          BY <3>1
    <3> HIDE DEF n
    <3> QED
        BY <1>1, <3>1, <3>2, TopFallback DEF Fallbacks
  <2>4. Max(S) \in S /\ \A k \in S : k <= Max(S)
    <3> HIDE DEF S, n
    <3>1. \E m \in S : \A k \in S : k <= m
        BY <2>3, GreatestOf
    <3>2. \E m \in S : \A k \in S : m >= k
        BY <2>3, <3>1
    <3>3. Max(S) \in S /\ \A k \in S : Max(S) >= k
        BY <3>2 DEF Max
    <3> QED
        BY <2>3, <3>3
  <2> QED
      BY <2>1, <2>2, <2>4
<1>6. CASE DomainBased /\ Hits(Domains, request.host) # {}
  <2> DEFINE g == At(Domains, request.host)
             ids == Of(g)
  <2>1. g \in Domains /\ Closest(GuardsHit) = {g}
    <3>1. /\ Domains \in SUBSET Patterns /\ IsFiniteSet(Domains)
          /\ GuardsHit = Hits(Domains, request.host)
        BY <1>1, <1>6, GuardFacts
    <3>2. /\ g \in Domains /\ Matches(g, request.host)
          /\ \A q \in Hits(Domains, request.host) : ~Before(q, g)
          /\ \A p \in Hits(Domains, request.host) : (\A q \in Hits(Domains, request.host) : ~Before(q, p)) => p = g
        BY <1>1, <1>6, <3>1, AtFacts
    <3>3. g \in Hits(Domains, request.host)
        BY <3>2 DEF Hits
    <3> HIDE DEF g
    <3> QED
        BY <3>1, <3>2, <3>3 DEF Closest
  <2>2. answer = RouteByPath(PathRouter(ids), request.path, request.method)
    <3>1. DOMAIN router.routers = Domains /\ router.routers[g] = PathRouter(ids)
        BY <1>2, <2>1
    <3> QED
        BY <1>1, <1>2, <1>6, <3>1 DEF Route
  <2>3. ids = {i \in Ids : comps[i].domain = g}
      BY <1>6 DEF Of
  <2>4. ids \in SUBSET Ids /\ ids # {}
      BY <1>1, <1>6, <2>1, <2>3, GuardFacts
  <2>5. Present = {b \in DOMAIN app : Speaks(b) /\ DomainOf(b) = g}
      BY <1>2, <1>6, <2>1 DEF Present, Concerned
  <2> HIDE DEF g
  <2>6. ASSUME NEW i \in ids PROVE \E b \in Present : Owns(b, i)
    <3>1. PICK b \in DOMAIN app : Owns(b, i)
        BY <1>3, <2>3
    <3>2. comps[i].domain = DomainOf(b) /\ Speaks(b) /\ comps[i].domain = g
        BY <1>1, <2>3, <3>1, OwnFacts
    <3> QED
        BY <2>5, <3>1, <3>2
  <2>7. ASSUME NEW b \in Present
        PROVE  /\ \A e \in EntriesOf(b, "route") : \E i \in ids : comps[i] = HandlerOf(b, e)
               /\ HasFallback(b) => \E i \in ids : IsFallbackOf(comps[i], b)
    <3>1. b \in DOMAIN app /\ DomainOf(b) = g
        BY <2>5
    <3>2. ASSUME NEW e \in EntriesOf(b, "route") PROVE \E i \in ids : comps[i] = HandlerOf(b, e)
      <4>1. PICK i \in Ids : comps[i] = HandlerOf(b, e)
          BY <1>1, <3>1, RegistrationsKept
      <4> QED
          BY <2>3, <3>1, <4>1 DEF HandlerOf
    <3>3. ASSUME HasFallback(b) PROVE \E i \in ids : IsFallbackOf(comps[i], b)
      <4>1. PICK i \in Ids : IsFallbackOf(comps[i], b)
          BY <1>1, <3>1, <3>3, RegistrationsKept
      <4> QED
          BY <2>3, <3>1, <4>1 DEF IsFallbackOf
    <3> QED
        BY <3>2, <3>3
  <2> HIDE DEF ids
  <2>8. ASSUME NEW b \in Present, NEW i \in Ids, Owns(b, i) PROVE i \in ids
      BY <1>1, <2>3, <2>5, <2>8, OwnFacts
  <2>9. AreOf(ids, Present)
      BY <2>6, <2>7, <2>8 DEF AreOf
  <2> QED
      BY <2>2, <2>4, <2>9
<1> QED
    BY <1>4, <1>5, <1>6

\* A path router's answer, in terms of the blueprints it was built from.
LEMMA AnsweredByPath ==
    ASSUME Complete, Answered, request \in Requests,
           NEW ids \in SUBSET Ids, ids # {}, AreOf(ids, Present),
           answer = RouteByPath(PathRouter(ids), request.path, request.method)
    PROVE  /\ BestHits # {} /\ ~Outranked =>
                 \/ AnsweredBy("route") /\ \E d \in Fit : comps[answer].callable = d.callable
                 \/ /\ Fit = {}
                    /\ \E d \in BestHits :
                          d.methods # AllMethods /\ d.in \in Present /\ answer = FallbackOf(ChainTo(d.in))
           /\ Outranked \/ (BestHits = {} /\ Claimants # {}) =>
                 /\ answer \in Prefixed(ids) /\ ~Taken(ids, answer)
                 /\ \E b \in Claimants : /\ IsFallbackOf(comps[answer], b)
                                         /\ \A c \in Claimants : ~Before(CatchAll(PrefixOf(c)), CatchAll(PrefixOf(b)))
           /\ BestHits = {} /\ Claimants = {} => answer = FallbackOf(CommonAncestor(ids))
<1> DEFINE path == request.path
           Best == BestRoutes(ids, path)
           Fitted == Fitting(ids, path, request.method)
<1>1. BuildInv /\ path \in Seq(STRING) /\ request.method \in AllMethods
    BY RoutingAssumption DEF Complete
<1>2. /\ Best # {} /\ ~PrefixIsCloser(ids, path) =>
            \/ answer \in Fitted
            \/ Fitted = {} /\ \E j \in Best : comps[j].methods # AllMethods /\ answer = FallbackOf(comps[j].chain)
      /\ PrefixIsCloser(ids, path) \/ (Best = {} /\ Claiming(ids, path) # {}) =>
            /\ answer \in Claiming(ids, path) /\ ~Taken(ids, answer)
            /\ \A i \in Claiming(ids, path) : ~Before(CatchAll(comps[i].prefix), CatchAll(comps[answer].prefix))
      /\ Best = {} /\ Claiming(ids, path) = {} => answer = FallbackOf(CommonAncestor(ids))
    BY <1>1, PathAnswer
<1> DEFINE Same(i, d) == comps[i].path = d.path /\ comps[i].methods = d.methods /\ comps[i].callable = d.callable
<1>3. /\ \A i \in Best :
            comps[i].kind = "route" /\ \E d \in BestHits : Same(i, d) /\ d.in \in Present /\ comps[i].chain = ChainTo(d.in)
      /\ \A d \in BestHits : \E i \in Best : Same(i, d)
      /\ \A i \in Claiming(ids, path) : \E b \in Claimants : IsFallbackOf(comps[i], b)
      /\ \A b \in Claimants : \E i \in Claiming(ids, path) : IsFallbackOf(comps[i], b)
    BY <1>1, SameAnswers
<1>4. Outranked <=> PrefixIsCloser(ids, path)
    BY <1>1, SameOutranked
<1>5. \A i : i \in Fitted <=> i \in Best /\ request.method \in comps[i].methods
    BY DEF Fitting
<1>6. \A d : d \in Fit <=> d \in BestHits /\ request.method \in d.methods
    BY DEF Fit
<1>7. \A i \in Claiming(ids, path) : i \in Prefixed(ids)
    BY DEF Claiming
<1> HIDE DEF Best, Fitted, path
<1>8. ASSUME BestHits # {}, ~Outranked
      PROVE  \/ AnsweredBy("route") /\ \E d \in Fit : comps[answer].callable = d.callable
             \/ /\ Fit = {}
                /\ \E d \in BestHits : d.methods # AllMethods /\ d.in \in Present /\ answer = FallbackOf(ChainTo(d.in))
  <2>1. Best # {} /\ ~PrefixIsCloser(ids, path)
      BY <1>3, <1>4, <1>8
  <2>2. CASE answer \in Fitted
      BY <1>3, <1>5, <1>6, <2>2 DEF AnsweredBy
  <2>3. CASE Fitted = {} /\ \E j \in Best : comps[j].methods # AllMethods /\ answer = FallbackOf(comps[j].chain)
    <3>1. Fit = {}
        BY <1>3, <1>5, <1>6, <2>3
    <3>2. PICK j \in Best : comps[j].methods # AllMethods /\ answer = FallbackOf(comps[j].chain)
        BY <2>3
    <3>3. PICK d \in BestHits : Same(j, d) /\ d.in \in Present /\ comps[j].chain = ChainTo(d.in)
        BY <1>3
    <3> QED
        BY <3>1, <3>2, <3>3
  <2> QED
      BY <1>2, <2>1, <2>2, <2>3
<1>9. ASSUME Outranked \/ (BestHits = {} /\ Claimants # {})
      PROVE  /\ answer \in Prefixed(ids) /\ ~Taken(ids, answer)
             /\ \E b \in Claimants : /\ IsFallbackOf(comps[answer], b)
                                     /\ \A c \in Claimants : ~Before(CatchAll(PrefixOf(c)), CatchAll(PrefixOf(b)))
  <2>1. PrefixIsCloser(ids, path) \/ (Best = {} /\ Claiming(ids, path) # {})
      BY <1>3, <1>4, <1>9
  <2>2. PICK b \in Claimants : IsFallbackOf(comps[answer], b)
      BY <1>2, <1>3, <2>1
  <2>3. ASSUME NEW c \in Claimants PROVE ~Before(CatchAll(PrefixOf(c)), CatchAll(PrefixOf(b)))
    <3>1. PICK i \in Claiming(ids, path) : IsFallbackOf(comps[i], c)
        BY <1>3
    <3>2. comps[i].prefix = PrefixOf(c) /\ comps[answer].prefix = PrefixOf(b)
        BY <2>2, <3>1 DEF IsFallbackOf
    <3> QED
        BY <1>2, <2>1, <3>2
  <2> QED
      BY <1>2, <1>7, <2>1, <2>2, <2>3
<1>10. ASSUME BestHits = {}, Claimants = {} PROVE answer = FallbackOf(CommonAncestor(ids))
    BY <1>2, <1>3, <1>10
<1> QED
    BY <1>8, <1>9, <1>10

LEMMA AnswersAreRight ==
    ASSUME ServingInv
    PROVE  RequestsReachTheirHandlers
<1> SUFFICES ASSUME Answered
             PROVE  IF Fit # {} /\ ~Outranked
                    THEN AnsweredBy("route") /\ comps[answer].callable \in {d.callable : d \in Fit}
                    ELSE AnsweredBy("fallback")
    BY DEF RequestsReachTheirHandlers, Fit
<1>1. Complete /\ request \in Requests
    BY DEF ServingInv, Answered, Complete
<1>2. CASE Present = {} /\ answer \in Fallbacks(Ids)
  <2>1. Fit = {}
      BY <1>2 DEF Fit, BestHits, RoutesHit
  <2> QED
      BY <1>2, <2>1 DEF AnsweredBy, Fallbacks
<1>3. ASSUME NEW ids \in SUBSET Ids, ids # {}, AreOf(ids, Present),
             answer = RouteByPath(PathRouter(ids), request.path, request.method)
      PROVE  IF Fit # {} /\ ~Outranked
             THEN AnsweredBy("route") /\ comps[answer].callable \in {d.callable : d \in Fit}
             ELSE AnsweredBy("fallback")
  <2>1. /\ BestHits # {} /\ ~Outranked =>
              \/ AnsweredBy("route") /\ \E d \in Fit : comps[answer].callable = d.callable
              \/ Fit = {} /\ \E d \in BestHits : d.in \in Present /\ answer = FallbackOf(ChainTo(d.in))
        /\ Outranked \/ (BestHits = {} /\ Claimants # {}) => answer \in Prefixed(ids)
        /\ BestHits = {} /\ Claimants = {} => answer = FallbackOf(CommonAncestor(ids))
      BY <1>1, <1>3, AnsweredByPath
  <2>2. \A b \in Present : FallbackOf(ChainTo(b)) \in Fallbacks(Ids)
    <3>1. \A b \in DOMAIN app : ChainTo(b) \in Chains
        BY <1>1, PlaceTyped DEF Complete, BuildInv, Places, Chains, ChainTo
    <3> QED
        BY <1>1, <3>1, FallbackExists DEF Present
  <2>3. FallbackOf(CommonAncestor(ids)) \in Fallbacks(Ids)
      BY <1>1, <1>3, AncestorExists, FallbackExists
  <2>4. \A i \in Prefixed(ids) : i \in Fallbacks(Ids)
      BY DEF Prefixed, Fallbacks
  <2>5. Fit \subseteq BestHits
      BY DEF Fit
  <2>6. answer \in Fallbacks(Ids) => AnsweredBy("fallback")
      BY DEF Fallbacks, AnsweredBy
  <2>7. CASE Fit # {} /\ ~Outranked
      BY <2>1, <2>5, <2>7
  <2>8. CASE ~(Fit # {} /\ ~Outranked)
    <3>1. answer \in Fallbacks(Ids)
        BY <2>1, <2>2, <2>3, <2>4, <2>8
    <3> QED
        BY <2>6, <2>8, <3>1
  <2> QED
      BY <2>7, <2>8
<1> QED
    BY <1>1, <1>2, <1>3, ServedBy

\* Every request that fits a route, no prefix of a blueprint with a fallback being
\* a closer match, is answered by a handler that was registered for its path,
\* method and domain; every other request by a fallback.  No blueprint is lost in
\* the traversal, no route in the routers, and no fallback takes a route's place.
THEOREM RequestsAreAnsweredRight == Spec => []RequestsReachTheirHandlers
<1>1. Init => ServingInv
    BY BuildStart, OuterFirstAtTheStart, OuterBeforeAtTheStart DEF Init, ServingInv
<1>2. ServingInv /\ [Next]_vars => ServingInv'
    BY ServingStep
<1>3. ServingInv => RequestsReachTheirHandlers
    BY AnswersAreRight
<1> QED
    BY <1>1, <1>2, <1>3, PTL DEF Spec

-----------------------------------------------------------------------------
(* Which fallback answers a request that no handler does. *)

\* find_fallback_id finds the fallback of the innermost blueprint that has one
\* and is around the scope.
LEMMA FallbackIsInnermost ==
    ASSUME Complete, NEW chain \in Chains, NEW bs,
           \A c \in DOMAIN app : HasFallback(c) => (IsPrefix(ChainTo(c), chain) <=> \A b \in bs : Encloses(c, b))
    PROVE  comps[FallbackOf(chain)].chain = ChainTo(Innermost(bs))
<1> DEFINE k == FallbackOf(chain)
           common == {c \in DOMAIN app : HasFallback(c) /\ \A b \in bs : Encloses(c, b)}
           i == Innermost(bs)
<1>1. BuildInv /\ IsApp(app)
    BY DEF Complete, BuildInv
<1>2. /\ k \in Fallbacks(Ids) /\ IsPrefix(comps[k].chain, chain)
      /\ \A j \in Fallbacks(Ids) : IsPrefix(comps[j].chain, chain) => IsPrefix(comps[j].chain, comps[k].chain)
    BY FallbackExists
<1>3. k \in Ids /\ comps[k].kind = "fallback"
    BY <1>2 DEF Fallbacks
<1>4. PICK e \in DOMAIN app : Owns(e, k)
    BY <1>1, <1>3, CompFacts
<1>5. comps[k].chain = ChainTo(e) /\ HasFallback(e)
    BY <1>1, <1>3, <1>4, OwnFacts
<1>6. e \in common
    BY <1>2, <1>5
<1>7. ASSUME NEW f \in common PROVE Encloses(f, e)
  <2>1. f \in DOMAIN app /\ HasFallback(f) /\ IsPrefix(ChainTo(f), chain)
      OBVIOUS
  <2>2. PICK j \in Ids : IsFallbackOf(comps[j], f)
      BY <2>1, RegistrationsKept
  <2>3. j \in Fallbacks(Ids) /\ comps[j].chain = ChainTo(f)
      BY <2>2 DEF IsFallbackOf, Fallbacks
  <2> QED
      BY <1>2, <1>5, <2>1, <2>3 DEF Encloses
<1>8. i = CHOOSE c \in common : \A f \in common : Encloses(f, c)
    BY DEF Innermost
<1>9. i \in common /\ \A f \in common : Encloses(f, i)
  <2> HIDE DEF common, i
  <2> QED
      BY <1>6, <1>7, <1>8
<1>10. i \in DOMAIN app /\ Encloses(e, i) /\ Encloses(i, e)
    BY <1>6, <1>7, <1>9
<1> HIDE DEF i, k
<1>11. ChainTo(i) \in Seq(DOMAIN app) /\ ChainTo(e) \in Seq(DOMAIN app)
    BY <1>1, <1>10, PlaceTyped DEF Places, ChainTo
<1>12. ChainTo(i) = ChainTo(e)
    BY <1>10, <1>11, PrefixesOfEachOther DEF Encloses
<1> QED
    BY <1>5, <1>12 DEF i, k

\* Its catch-all tells a prefix.
LEMMA CatchAllTells ==
    ASSUME NEW p \in Seq(STRING), NEW q \in Seq(STRING), p # << >>, q # << >>, CatchAll(p) = CatchAll(q)
    PROVE  p = q
<1> DEFINE f == Front(p)
           g == Front(q)
           l == Last(p)
           m == Last(q)
<1>1. [segs |-> f, tail |-> l] = [segs |-> g, tail |-> m]
    BY DEF CatchAll
<1> HIDE DEF f, g, l, m
<1>2. f = g /\ l = m
    BY <1>1
<1>3. /\ Len(p) \in Nat /\ Len(p) >= 1 /\ Len(f) = Len(p) - 1 /\ l = p[Len(p)]
      /\ \A k \in 1..(Len(p) - 1) : f[k] = p[k]
    BY FrontFacts DEF f, l, Last
<1>4. /\ Len(q) \in Nat /\ Len(q) >= 1 /\ Len(g) = Len(q) - 1 /\ m = q[Len(q)]
      /\ \A k \in 1..(Len(q) - 1) : g[k] = q[k]
    BY FrontFacts DEF g, m, Last
<1>5. Len(p) = Len(q)
    BY <1>2, <1>3, <1>4
<1>6. ASSUME NEW k \in 1..Len(p) PROVE p[k] = q[k]
  <2>1. k \in 1..(Len(p) - 1) \/ k = Len(p)
      BY <1>3
  <2> QED
      BY <1>2, <1>3, <1>4, <1>5, <2>1
<1> QED
    BY <1>5, <1>6

LEMMA MissesAreRight ==
    ASSUME ServingInv
    PROVE  MissesGetTheClosestFallback
<1> DEFINE claims == {b \in Claimants : CatchAll(PrefixOf(b)) \in Closest({CatchAll(PrefixOf(c)) : c \in Claimants})}
           free == {b \in DOMAIN app : DomainOf(b) = NoDomain /\ HasFallback(b)}
<1> SUFFICES ASSUME Answered, AnsweredBy("fallback")
             PROVE  IF Present = {}
                    THEN \E b \in free : AnsweredIn(b) /\ \A c \in free : Encloses(b, c) => c = b
                    ELSE IF BestHits # {} /\ ~Outranked
                    THEN \E d \in BestHits : d.methods # AllMethods /\ AnsweredIn(Innermost({d.in}))
                    ELSE IF claims # {}
                    THEN \E b \in claims : AnsweredIn(b) /\ \A c \in claims : Encloses(c, b) => c = b
                    ELSE AnsweredIn(Innermost(Present))
    BY DEF MissesGetTheClosestFallback
<1>1. Complete /\ BuildInv /\ OuterFirst /\ OuterBefore /\ IsApp(app) /\ request \in Requests
    BY DEF ServingInv, Answered, Complete, BuildInv
<1>2. Present \subseteq DOMAIN app /\ \A b \in Present : Speaks(b)
    BY DEF Present
<1>3. \A b \in DOMAIN app : ChainTo(b) \in Chains /\ ChainTo(b) \in Seq(DOMAIN app) /\ PrefixOf(b) \in Seq(STRING)
    BY <1>1, PlaceTyped DEF Places, Chains, ChainTo, PrefixOf
<1>4. \A b : b \in claims <=> /\ b \in Claimants
                              /\ \A c \in Claimants : ~Before(CatchAll(PrefixOf(c)), CatchAll(PrefixOf(b)))
    BY DEF Closest
<1>5. \A b \in Claimants : /\ b \in Present /\ HasFallback(b) /\ PrefixOf(b) # << >>
                           /\ Matches(CatchAll(PrefixOf(b)), request.path)
    BY DEF Claimants
<1> HIDE DEF claims
<1>6. CASE /\ Present = {} /\ answer \in Fallbacks(Ids) /\ comps[answer].domain = NoDomain
           /\ \A i \in Fallbacks(Ids) : comps[i].domain = NoDomain => i <= answer
  <2>1. answer \in Ids /\ comps[answer].kind = "fallback"
      BY <1>6 DEF Fallbacks
  <2>2. PICK b \in DOMAIN app : Owns(b, answer)
      BY <1>1, <2>1, CompFacts
  <2>3. comps[answer].domain = DomainOf(b) /\ comps[answer].chain = ChainTo(b) /\ HasFallback(b)
      BY <1>1, <2>1, <2>2, OwnFacts
  <2>4. ASSUME NEW c \in free, Encloses(b, c), c # b PROVE FALSE
    <3>1. PICK i \in Ids : IsFallbackOf(comps[i], c)
        BY <1>1, <2>4, RegistrationsKept
    <3>2. i \in Fallbacks(Ids) /\ comps[i].domain = NoDomain /\ comps[i].chain = ChainTo(c)
        BY <2>4, <3>1 DEF IsFallbackOf, Fallbacks
    <3>3. ChainTo(b) # ChainTo(c)
        BY <1>1, <2>4, ChainsDiffer
    <3>4. answer < i
        BY <1>1, <2>1, <2>3, <2>4, <3>2, <3>3 DEF OuterBefore, Encloses
    <3>5. i <= answer /\ i \in Nat /\ answer \in Nat
        BY <1>1, <1>6, <2>1, <3>2, CompFacts
    <3> QED
        BY <3>4, <3>5
  <2> QED
      BY <1>6, <2>3, <2>4 DEF AnsweredIn
<1>7. ASSUME NEW ids \in SUBSET Ids, ids # {}, AreOf(ids, Present),
             answer = RouteByPath(PathRouter(ids), request.path, request.method)
      PROVE  /\ Present # {}
             /\ IF BestHits # {} /\ ~Outranked
                THEN \E d \in BestHits : d.methods # AllMethods /\ AnsweredIn(Innermost({d.in}))
                ELSE IF claims # {}
                THEN \E b \in claims : AnsweredIn(b) /\ \A c \in claims : Encloses(c, b) => c = b
                ELSE AnsweredIn(Innermost(Present))
  <2>1. /\ BestHits # {} /\ ~Outranked =>
              \/ AnsweredBy("route") /\ \E d \in Fit : comps[answer].callable = d.callable
              \/ /\ Fit = {}
                 /\ \E d \in BestHits :
                       d.methods # AllMethods /\ d.in \in Present /\ answer = FallbackOf(ChainTo(d.in))
        /\ Outranked \/ (BestHits = {} /\ Claimants # {}) =>
              /\ answer \in Prefixed(ids) /\ ~Taken(ids, answer)
              /\ \E b \in Claimants : /\ IsFallbackOf(comps[answer], b)
                                      /\ \A c \in Claimants : ~Before(CatchAll(PrefixOf(c)), CatchAll(PrefixOf(b)))
        /\ BestHits = {} /\ Claimants = {} => answer = FallbackOf(CommonAncestor(ids))
      BY <1>1, <1>7, AnsweredByPath
  <2>2. Present # {}
      BY <1>7 DEF AreOf
  <2>3. CASE BestHits # {} /\ ~Outranked
    <3>1. PICK d \in BestHits : d.methods # AllMethods /\ d.in \in Present /\ answer = FallbackOf(ChainTo(d.in))
        BY <2>1, <2>3 DEF AnsweredBy
    <3> DEFINE b == d.in
    <3>2. b \in DOMAIN app /\ ChainTo(b) \in Chains
        BY <1>2, <1>3, <3>1
    <3> HIDE DEF b
    <3>3. \A c \in DOMAIN app : HasFallback(c) => (IsPrefix(ChainTo(c), ChainTo(b)) <=> \A e \in {b} : Encloses(c, e))
        BY DEF Encloses
    <3>4. comps[FallbackOf(ChainTo(b))].chain = ChainTo(Innermost({b}))
        BY <1>1, <3>2, <3>3, FallbackIsInnermost
    <3>5. AnsweredIn(Innermost({b}))
        BY <3>1, <3>4 DEF AnsweredIn, b
    <3> QED
        BY <2>2, <2>3, <3>1, <3>5 DEF b
  <2>4. CASE Outranked \/ (BestHits = {} /\ Claimants # {})
    <3>1. PICK b \in Claimants :
              /\ IsFallbackOf(comps[answer], b)
              /\ \A c \in Claimants : ~Before(CatchAll(PrefixOf(c)), CatchAll(PrefixOf(b)))
        BY <2>1, <2>4
    <3>2. b \in claims /\ AnsweredIn(b)
        BY <1>4, <3>1 DEF AnsweredIn, IsFallbackOf
    <3>3. ASSUME NEW c \in claims, Encloses(c, b), c # b PROVE FALSE
      <4>1. c \in Claimants /\ ~Before(CatchAll(PrefixOf(b)), CatchAll(PrefixOf(c)))
            /\ ~Before(CatchAll(PrefixOf(c)), CatchAll(PrefixOf(b)))
          BY <1>4, <3>1
      <4> DEFINE p == CatchAll(PrefixOf(b))
                 q == CatchAll(PrefixOf(c))
      <4>2. /\ b \in DOMAIN app /\ c \in DOMAIN app /\ HasFallback(c)
            /\ PrefixOf(b) \in Seq(STRING) /\ PrefixOf(c) \in Seq(STRING) /\ PrefixOf(b) # << >> /\ PrefixOf(c) # << >>
            /\ Matches(p, request.path) /\ Matches(q, request.path) /\ c \in Present
          BY <1>2, <1>3, <1>5, <4>1
      <4>3. p \in Patterns /\ q \in Patterns /\ request.path \in Seq(STRING)
          BY <1>1, <4>2, CatchAllFacts, RoutingAssumption
      <4>4. p = q
        <5>1. ~Before(p, q) /\ ~Before(q, p)
            BY <4>1
        <5> HIDE DEF p, q
        <5> QED
            BY <4>2, <4>3, <5>1, OneClosest
      <4>5. PrefixOf(c) = PrefixOf(b)
          BY <4>2, <4>4, CatchAllTells
      <4>6. answer \in Prefixed(ids) /\ ~Taken(ids, answer)
          BY <2>1, <2>4
      <4>7. answer \in Ids /\ comps[answer].chain = ChainTo(b) /\ comps[answer].prefix = PrefixOf(b)
          BY <3>1, <4>6 DEF Prefixed, Fallbacks, IsFallbackOf
      <4>8. Around(c, comps[answer].chain)
          BY <1>1, <3>3, <4>2, <4>7, ChainsDiffer DEF Around, Encloses
      <4>9. PICK k \in Ids : k < answer /\ IsFallbackOf(comps[k], c)
          BY <1>1, <4>2, <4>7, <4>8 DEF OuterFirst
      <4>10. k \in ids
          BY <1>7, <4>2, <4>9 DEF AreOf, Owns
      <4>11. k \in Prefixed(ids) /\ comps[k].prefix = comps[answer].prefix
          BY <4>2, <4>5, <4>7, <4>9, <4>10 DEF IsFallbackOf, Prefixed, Fallbacks
      <4> QED
          BY <4>6, <4>9, <4>11 DEF Taken
    <3>4. ~(BestHits # {} /\ ~Outranked)
        BY <2>4
    <3> QED
        BY <2>2, <3>2, <3>3, <3>4
  <2>5. CASE BestHits = {} /\ Claimants = {}
    <3>1. answer = FallbackOf(CommonAncestor(ids))
        BY <2>1, <2>5
    <3>2. /\ CommonAncestor(ids) \in Chains
          /\ \A x \in Chains : IsPrefix(x, CommonAncestor(ids)) <=> \A i \in ids : IsPrefix(x, comps[i].chain)
        BY <1>1, <1>7, AncestorExists
    <3>3. ASSUME NEW c \in DOMAIN app
          PROVE  (\A i \in ids : IsPrefix(ChainTo(c), comps[i].chain)) <=> \A b \in Present : Encloses(c, b)
      <4>1. \A i \in ids : \E b \in Present : comps[i].chain = ChainTo(b)
        <5>1. ASSUME NEW i \in ids PROVE \E b \in Present : comps[i].chain = ChainTo(b)
          <6>1. PICK b \in Present : Owns(b, i)
              BY <1>7 DEF AreOf
          <6> QED
              BY <1>1, <1>2, <6>1, OwnFacts
        <5> QED
            BY <5>1
      <4>2. \A b \in Present : \E i \in ids : comps[i].chain = ChainTo(b)
        <5>1. ASSUME NEW b \in Present PROVE \E i \in ids : comps[i].chain = ChainTo(b)
          <6>1. PICK i \in Ids : Owns(b, i)
              BY <1>1, <1>2, SpeakersOwn
          <6>2. i \in ids
              BY <1>7, <6>1 DEF AreOf
          <6> QED
              BY <1>1, <1>2, <6>1, <6>2, OwnFacts
        <5> QED
            BY <5>1
      <4> QED
          BY <4>1, <4>2 DEF Encloses
    <3>4. \A c \in DOMAIN app :
              HasFallback(c) => (IsPrefix(ChainTo(c), CommonAncestor(ids)) <=> \A b \in Present : Encloses(c, b))
        BY <1>3, <3>2, <3>3
    <3>5. comps[FallbackOf(CommonAncestor(ids))].chain = ChainTo(Innermost(Present))
        BY <1>1, <3>2, <3>4, FallbackIsInnermost
    <3>6. claims = {}
        BY <1>4, <2>5
    <3> QED
        BY <2>2, <2>5, <3>1, <3>5, <3>6 DEF AnsweredIn
  <2>6. Outranked => Claimants # {}
      BY DEF Outranked
  <2> QED
      BY <2>3, <2>4, <2>5, <2>6
<1> QED
    BY <1>1, <1>6, <1>7, ServedBy

\* A request that no handler answers gets the closest fallback: the one around a
\* route with its path, or that of the longest prefix that claims the path and of
\* the outermost blueprint with that prefix, or the innermost one around all that
\* is known of the domain; one that is not tied to a domain, if it is for none of
\* them, and no blueprint with such a fallback is nested in that one's.
THEOREM MissesAreAnsweredRight == Spec => []MissesGetTheClosestFallback
<1>1. Init => ServingInv
    BY BuildStart, OuterFirstAtTheStart, OuterBeforeAtTheStart DEF Init, ServingInv
<1>2. ServingInv /\ [Next]_vars => ServingInv'
    BY ServingStep
<1>3. ServingInv => MissesGetTheClosestFallback
    BY MissesAreRight
<1> QED
    BY <1>1, <1>2, <1>3, PTL DEF Spec
=============================================================================
