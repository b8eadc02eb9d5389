------------------------ MODULE RequestPipeline_proof ------------------------
(***************************************************************************)
(* What the analysis of a pipeline and the code generated for it keep, for *)
(* every application.                                                      *)
(***************************************************************************)
EXTENDS RequestPipeline, FiniteSetTheorems, WellFoundedInduction, TLAPS

-----------------------------------------------------------------------------
(* Finite sets of naturals have a least and a greatest element. *)

Less == {ss \in Nat \X Nat : ss[1] < ss[2]}

\* A set of naturals that is not empty has a least element.
LEMMA LeastExists ==
    ASSUME NEW S \in SUBSET Nat, S # {}
    PROVE  \E m \in S : \A n \in S : m <= n
<1>1. IsWellFoundedOn(OpToRel(<, Nat), Nat)
  BY NatLessThanWellFounded, Zenon
<1>2. IsWellFoundedOn(Less, Nat)
  BY <1>1, Zenon DEF OpToRel, Less
<1>3. PICK m \in S : \A n \in S : ~ (<<n, m>> \in Less)
  BY <1>2, WFMin
<1>4. \A n \in S : ~ (n < m)
  BY <1>3 DEF Less
<1> QED
  BY <1>3, <1>4

\* A set of naturals that is not empty and has a bound has a greatest element.
LEMMA GreatestExists ==
    ASSUME NEW n \in Nat, NEW S \in SUBSET (0..n), S # {}
    PROVE  \E m \in S : \A x \in S : x <= m
<1> DEFINE D == {n - x : x \in S}
<1>1. D \in SUBSET Nat /\ D # {}
  <2>1. \A x \in S : n - x \in Nat
    OBVIOUS
  <2>2. PICK x \in S : TRUE
    OBVIOUS
  <2>3. n - x \in D
    OBVIOUS
  <2> QED
    BY <2>1, <2>3
<1>2. PICK d \in D : \A e \in D : d <= e
  <2> HIDE DEF D
  <2> QED BY <1>1, LeastExists
<1>3. PICK m \in S : d = n - m
  BY <1>2
<1>4. ASSUME NEW x \in S
      PROVE  x <= m
  <2>1. n - m <= n - x
    BY <1>2, <1>3
  <2>2. n \in Nat /\ m \in 0..n /\ x \in 0..n
    OBVIOUS
  <2> QED
    BY <2>1, <2>2
<1> QED
  BY <1>4

-----------------------------------------------------------------------------
(* The chain and its order. *)

\* The application is one of Apps, with its first wrapping middleware.
WellFormed == \E a \in Apps : app = WithNoop(a)

\* The members are numbered and each has one of the kinds.
LEMMA ChainShape ==
    ASSUME WellFormed
    PROVE  /\ Len(app.chain) \in Nat
           /\ Members = 1..Len(app.chain)
           /\ \A i \in Members : app.chain[i].kind \in Kinds
<1>1. PICK a \in Apps : app = WithNoop(a)
  BY DEF WellFormed
<1>2. IsApp(a)
  BY <1>1, AppsAssumption
<1> DEFINE Steps == [kind : Kinds, scope : DOMAIN a.parent, takes : [DOMAIN a.chain[1].takes -> Modes]]
<1> DEFINE first == [kind |-> "wrap", scope |-> a.chain[Len(a.chain)].scope,
                     takes |-> [t \in DOMAIN a.chain[1].takes |-> Absent]]
<1>3. app.chain = <<first>> \o a.chain
  BY <1>1 DEF WithNoop, Preceded
<1>4. a.chain \in Seq(Steps) /\ a.chain # << >>
  BY <1>2 DEF IsApp
<1>5. first \in Steps
  <2> HIDE DEF Steps
  <2>1. Len(a.chain) \in DOMAIN a.chain
    BY <1>4
  <2>2. a.chain[Len(a.chain)] \in Steps
    BY <1>4, <2>1
  <2>3. a.chain[Len(a.chain)].scope \in DOMAIN a.parent
    BY <2>2 DEF Steps
  <2> QED
    BY <2>3 DEF Steps, Kinds, Modes
<1>6. app.chain \in Seq(Steps)
  <2> HIDE DEF Steps, first
  <2> QED BY <1>3, <1>4, <1>5
<1>7. \A x \in Steps : x.kind \in Kinds
  OBVIOUS
<1> HIDE DEF Steps
<1> QED
  BY <1>6, <1>7 DEF Members

\* The order of invocation is a strict total order.
LEMMA BeforeIsTotal ==
    ASSUME WellFormed
    PROVE  /\ \A i \in Members : ~Before(i, i)
           /\ \A i, j \in Members : i = j \/ Before(i, j) \/ Before(j, i)
           /\ \A i, j, l \in Members : Before(i, j) /\ Before(j, l) => Before(i, l)
           /\ \A i \in Members : i \in Nat /\ Rank(i) \in 0..2
<1>1. \A i \in Members : i \in Nat
  BY ChainShape
<1>2. \A i \in Members : Rank(i) \in 0..2
  BY ChainShape DEF Rank, IsMiddle, Kinds
<1> QED
  BY <1>1, <1>2 DEF Before

\* A set of members that is not empty has a latest one.
LEMMA LatestExists ==
    ASSUME WellFormed, NEW S \in SUBSET Members, S # {}
    PROVE  Latest(S) \in S /\ \A j \in S : Latest(S) = j \/ Before(j, Latest(S))
<1> DEFINE R == {Rank(i) : i \in S}
<1>1. R \in SUBSET (0..2) /\ R # {}
  BY BeforeIsTotal
<1>2. PICK r \in R : \A x \in R : x <= r
  <2> HIDE DEF R
  <2> QED BY <1>1, GreatestExists
<1> DEFINE T == {i \in S : Rank(i) = r}
<1>3. T \in SUBSET (0..Len(app.chain)) /\ T # {} /\ Len(app.chain) \in Nat
  BY <1>2, ChainShape
<1>4. PICK m \in T : \A x \in T : x <= m
  <2> HIDE DEF T
  <2> QED BY <1>3, GreatestExists
<1>5. ASSUME NEW j \in S
      PROVE  m = j \/ Before(j, m)
  <2>1. Rank(j) <= Rank(m) /\ Rank(m) = r
    BY <1>2, <1>4
  <2>2. Rank(j) \in 0..2 /\ Rank(m) \in 0..2 /\ j \in Nat /\ m \in Nat
    BY <1>4, BeforeIsTotal
  <2>3. Rank(j) = Rank(m) => j <= m
    BY <1>4, <2>1
  <2> QED
    BY <2>1, <2>2, <2>3 DEF Before
<1> QED
  BY <1>4, <1>5 DEF Latest

-----------------------------------------------------------------------------
(* What the comparison of the members of a stage finds. *)

\* A member that needs a clone takes a value that a later one uses.
LEMMA NeedCloneIsUsedLater ==
    ASSUME WellFormed, NEW k, NEW t, NEW i \in NeedClone(k, t)
    PROVE  i \in Members /\ \E j \in Members : TakenThenUsed(i, j, t)
<1> DEFINE C == Consumers(k, t)
           B == Borrowers(k, t)
<1>1. /\ C \in SUBSET Members /\ B \in SUBSET Members
      /\ \A j \in C : StageOf(j) = k /\ graphs[j].inputs[t] = Owned
      /\ \A j \in B : StageOf(j) = k /\ graphs[j].inputs[t] = Shared
  BY DEF Consumers, Borrowers, InStage
<1>2. C # {} /\ i \in C
  BY DEF NeedClone
<1>3. Latest(C) \in C /\ \A j \in C : Latest(C) = j \/ Before(j, Latest(C))
  <2> HIDE DEF C
  <2> QED BY <1>1, <1>2, LatestExists
<1>4. CASE i # Latest(C)
  <2>1. Before(i, Latest(C))
    BY <1>2, <1>3, <1>4
  <2>2. StageOf(i) = StageOf(Latest(C)) /\ graphs[i].inputs[t] = Owned /\ graphs[Latest(C)].inputs[t] # Absent
    BY <1>1, <1>2, <1>3 DEF Owned, Absent
  <2> QED
    BY <1>1, <1>2, <1>3, <2>1, <2>2 DEF TakenThenUsed
<1>5. CASE i = Latest(C)
  <2>1. B # {} /\ ~Before(Latest(B), Latest(C))
    BY <1>2, <1>5 DEF NeedClone
  <2>2. Latest(B) \in B
    <3> HIDE DEF B
    <3> QED BY <1>1, <2>1, LatestExists
  <2>3. Latest(B) # i
    BY <1>1, <1>2, <2>2 DEF Owned, Shared
  <2>4. Before(i, Latest(B))
    BY <1>1, <1>2, <1>5, <2>1, <2>2, <2>3, BeforeIsTotal
  <2> QED
    BY <1>1, <1>2, <2>2, <2>4 DEF TakenThenUsed, Owned, Shared, Absent
<1> QED
  BY <1>4, <1>5

-----------------------------------------------------------------------------
(* No action changes the application, nor what depends on it only. *)

LEMMA OfTheApplication ==
    ASSUME app' = app
    PROVE  /\ WellFormed' <=> WellFormed
           /\ Members' = Members /\ Types' = Types /\ Comps' = Comps /\ LastStage' = LastStage
           /\ \A i : (StageOf(i))' = StageOf(i)
           /\ \A k : (InStage(k))' = InStage(k)
           /\ \A i, j : (Before(i, j))' <=> Before(i, j)
           /\ \A s, t : (Get(s, t))' = Get(s, t)
           /\ \A i, t : (MayNotBeCloned(i, t))' <=> MayNotBeCloned(i, t)
           /\ \A i, t : (FromComponent(i, t))' <=> FromComponent(i, t)
<1>1. WellFormed' <=> WellFormed
  BY DEF WellFormed
<1>2. Members' = Members /\ Types' = Types /\ Comps' = Comps
  BY DEF Members, Types, Comps
<1>3. \A i : (StageOf(i))' = StageOf(i)
  BY DEF StageOf, Members, IsMiddle
<1>4. LastStage' = LastStage /\ \A k : (InStage(k))' = InStage(k)
  BY <1>2, <1>3 DEF LastStage, InStage
<1>5. \A i, j : (Before(i, j))' <=> Before(i, j)
  BY DEF Before, Rank, IsMiddle
<1>6. \A s, t : (Get(s, t))' = Get(s, t)
  BY DEF Get
<1>7. \A i, t : (MayNotBeCloned(i, t))' <=> MayNotBeCloned(i, t)
  BY <1>6 DEF MayNotBeCloned
<1>8. \A i, t : (FromComponent(i, t))' <=> FromComponent(i, t)
  BY <1>6 DEF FromComponent
<1> QED
  BY <1>1, <1>2, <1>3, <1>4, <1>5, <1>6, <1>7, <1>8

-----------------------------------------------------------------------------
(* What is known of an application. *)

LEMMA MaxIsGreatest ==
    ASSUME NEW n \in Nat, NEW S \in SUBSET (0..n), S # {}
    PROVE  Max(S) \in S /\ \A x \in S : x <= Max(S)
<1>1. \E m \in S : \A x \in S : m >= x
  BY GreatestExists
<1> QED
  BY <1>1 DEF Max

\* A scope sees what the scopes around it see.
LEMMA SeesMore ==
    ASSUME NEW a, NEW s, NEW r \in Ancestors(a, s), NEW t
    PROVE  Visible(a, r, t) \subseteq Visible(a, s, t)
<1>1. Ancestors(a, r) \subseteq Ancestors(a, s)
  BY DEF Ancestors, Closure
<1> QED
  BY <1>1 DEF Visible

LEMMA AppShape ==
    ASSUME WellFormed
    PROVE  /\ Len(app.chain) \in Nat \ {0, 1}
           /\ app.parent \in Seq(Nat)
           /\ \A i \in Members : app.chain[i].takes \in [Types -> Modes]
           /\ \A i \in Members : app.chain[i].kind = "handler" <=> i = Len(app.chain)
           /\ app.chain[1].kind = "wrap" /\ app.chain[1].scope = app.chain[Len(app.chain)].scope
           /\ \A i \in Members : \A j \in Members :
                  1 < i /\ i <= j => app.chain[i].scope \in Ancestors(app, app.chain[j].scope)
           /\ \A i \in Members : \A t \in Asked(app.chain[i].takes) : Visible(app, app.chain[i].scope, t) # {}
           /\ \E n \in Nat : Comps = 1..n
           /\ \A c \in Comps : app.comps[c].scope \in DOMAIN app.parent /\ app.comps[c].takes \in [Types -> Modes]
           /\ \A c \in Comps : \A t \in Asked(app.comps[c].takes) : Visible(app, app.comps[c].scope, t) # {}
<1>1. PICK a \in Apps : app = WithNoop(a)
  BY DEF WellFormed
<1>2. IsApp(a)
  BY <1>1, AppsAssumption
<1> DEFINE T == DOMAIN a.chain[1].takes
           Steps == [kind : Kinds, scope : DOMAIN a.parent, takes : [T -> Modes]]
           first == [kind |-> "wrap", scope |-> a.chain[Len(a.chain)].scope, takes |-> [t \in T |-> Absent]]
           Builders == [type : T, scope : DOMAIN a.parent, life : Lifecycles, takes : [T -> Modes], clonable : BOOLEAN]
           n == Len(a.chain)
<1>3. app.chain = <<first>> \o a.chain /\ app.parent = a.parent /\ app.comps = a.comps
  BY <1>1 DEF WithNoop, Preceded
<1>4. a.chain \in Seq(Steps) /\ a.chain # << >> /\ a.comps \in Seq(Builders) /\ a.parent \in Seq(Nat)
  BY <1>2 DEF IsApp
<1>41. \A i \in DOMAIN a.chain : a.chain[i].kind = "handler" <=> i = n
  BY <1>2 DEF IsApp
<1>42. \A i \in DOMAIN a.chain : \A j \in i..n : a.chain[i].scope \in Ancestors(a, a.chain[j].scope)
  BY <1>2 DEF IsApp
<1>43. \A i \in DOMAIN a.chain : \A t \in Asked(a.chain[i].takes) : Visible(a, a.chain[i].scope, t) # {}
  BY <1>2 DEF IsApp
<1>44. \A c \in DOMAIN a.comps : \A t \in Asked(a.comps[c].takes) : Visible(a, a.comps[c].scope, t) # {}
  BY <1>2 DEF IsApp
<1>5. /\ n \in Nat \ {0} /\ DOMAIN a.chain = 1..n
      /\ \A i \in 1..n : /\ a.chain[i].scope \in DOMAIN a.parent
                         /\ a.chain[i].takes \in [T -> Modes]
  <2>1. \A x \in Steps : x.scope \in DOMAIN a.parent /\ x.takes \in [T -> Modes]
    OBVIOUS
  <2> HIDE DEF Steps
  <2> QED
    BY <1>4, <2>1
<1>6. /\ Len(app.chain) = n + 1 /\ Members = 1..(n + 1)
      /\ app.chain[1] = first
      /\ \A i \in 2..(n + 1) : i - 1 \in 1..n /\ app.chain[i] = a.chain[i - 1]
  <2> HIDE DEF first, Steps
  <2>1. \A f : f \o a.chain = [i \in 1..(Len(f) + n) |-> IF i <= Len(f) THEN f[i] ELSE a.chain[i - Len(f)]]
    OBVIOUS
  <2>2. Len(<<first>>) = 1 /\ <<first>>[1] = first
    OBVIOUS
  <2>3. app.chain = [i \in 1..(1 + n) |-> IF i <= 1 THEN <<first>>[i] ELSE a.chain[i - 1]]
    BY <1>3, <2>1, <2>2
  <2> QED
    BY <1>5, <2>2, <2>3 DEF Members
<1>7. Types = T
  BY <1>6 DEF Types
<1>8. \A s : Ancestors(app, s) = Ancestors(a, s)
  BY <1>3 DEF Ancestors, Closure
<1>9. \A s, t : Visible(app, s, t) = Visible(a, s, t)
  BY <1>3, <1>8 DEF Visible
<1>10. Asked(first.takes) = {}
  BY DEF Asked
<1>11. \A i \in Members : i = 1 \/ i \in 2..(n + 1)
  BY <1>5, <1>6
<1> DEFINE AllOf(i) == /\ app.chain[i].takes \in [Types -> Modes]
                       /\ app.chain[i].kind = "handler" <=> i = n + 1
                       /\ \A j \in Members : 1 < i /\ i <= j => app.chain[i].scope \in Ancestors(app, app.chain[j].scope)
                       /\ \A t \in Asked(app.chain[i].takes) : Visible(app, app.chain[i].scope, t) # {}
<1>12. AllOf(1)
  BY <1>5, <1>6, <1>7, <1>10 DEF Modes
<1>13. ASSUME NEW i \in 2..(n + 1)
       PROVE  AllOf(i)
  <2> HIDE DEF Steps, first, T, n, Builders
  <2>1. app.chain[i] = a.chain[i - 1] /\ i - 1 \in DOMAIN a.chain
    BY <1>5, <1>6
  <2>2. app.chain[i].takes \in [Types -> Modes]
    BY <1>5, <1>7, <2>1
  <2>3. app.chain[i].kind = "handler" <=> i = n + 1
    <3>1. i - 1 \in 1..n /\ (a.chain[i - 1].kind = "handler" <=> i - 1 = n)
      BY <1>5, <1>6, <1>41, <2>1
    <3>2. n \in Nat /\ i \in Nat
      BY <1>5
    <3>3. i - 1 = n <=> i = n + 1
      BY <3>2
    <3> QED
      BY <2>1, <3>1, <3>3
  <2>4. ASSUME NEW j \in Members, i <= j
        PROVE  app.chain[i].scope \in Ancestors(app, app.chain[j].scope)
    <3>1. j \in 2..(n + 1) /\ j - 1 \in (i - 1)..n /\ app.chain[j] = a.chain[j - 1]
      BY <1>5, <1>6, <2>4
    <3> QED
      BY <1>42, <1>8, <2>1, <3>1
  <2>5. \A t \in Asked(app.chain[i].takes) : Visible(app, app.chain[i].scope, t) # {}
    BY <1>43, <1>9, <2>1
  <2> QED
    BY <2>2, <2>3, <2>4, <2>5
<1>14. \E m \in Nat : Comps = 1..m
  <2> HIDE DEF Builders
  <2> QED BY <1>3, <1>4 DEF Comps
<1>15. \A c \in Comps : app.comps[c].scope \in DOMAIN app.parent /\ app.comps[c].takes \in [Types -> Modes]
  <2>1. \A x \in Builders : x.scope \in DOMAIN a.parent /\ x.takes \in [T -> Modes]
    OBVIOUS
  <2> HIDE DEF Builders, T
  <2>2. \A c \in DOMAIN a.comps : a.comps[c] \in Builders
    BY <1>4
  <2>3. Comps = DOMAIN a.comps
    BY <1>3 DEF Comps
  <2> QED
    BY <1>3, <1>7, <2>1, <2>2, <2>3
<1>16. \A c \in Comps : \A t \in Asked(app.comps[c].takes) : Visible(app, app.comps[c].scope, t) # {}
  BY <1>3, <1>9, <1>44, Zenon DEF Comps
<1>17. app.chain[1].kind = "wrap" /\ app.chain[1].scope = app.chain[Len(app.chain)].scope
  <2>1. app.chain[n + 1] = a.chain[n]
    <3> HIDE DEF first, n
    <3> QED BY <1>5, <1>6
  <2> QED BY <1>6, <2>1
<1>18. \A i \in Members : AllOf(i)
  <2> HIDE DEF AllOf
  <2> QED BY <1>11, <1>12, <1>13
<1> HIDE DEF Steps, first, T, Builders, n
<1>19. Len(app.chain) \in Nat \ {0, 1} /\ app.parent \in Seq(Nat)
  BY <1>3, <1>4, <1>5, <1>6
<1>20. \A i \in Members : app.chain[i].kind = "handler" <=> i = Len(app.chain)
  BY <1>6, <1>18
<1> QED
  BY <1>14, <1>15, <1>16, <1>17, <1>18, <1>19, <1>20

-----------------------------------------------------------------------------
(* What is known of the graph of a member. *)

\* ConstructibleDb::get finds a component exactly if one can be seen.
LEMMA GetFinds ==
    ASSUME WellFormed, NEW s, NEW t
    PROVE  /\ Get(s, t) = 0 <=> Visible(app, s, t) = {}
           /\ Get(s, t) # 0 => Get(s, t) \in Visible(app, s, t) /\ Get(s, t) \in Comps
<1> DEFINE V == Visible(app, s, t)
           Scopes == {app.comps[c].scope : c \in V}
           nearest == Max(Scopes)
           Best == {c \in V : app.comps[c].scope = nearest}
<1>1. PICK n \in Nat : Comps = 1..n
  BY AppShape
<1>2. V \subseteq Comps
  BY DEF Visible, Comps
<1>3. CASE V = {}
  BY <1>3 DEF Get
<1>4. CASE V # {}
  <2>1. Len(app.parent) \in Nat /\ DOMAIN app.parent = 1..Len(app.parent)
    BY AppShape
  <2>2. Scopes \in SUBSET (0..Len(app.parent)) /\ Scopes # {}
    BY <1>2, <1>4, <2>1, AppShape
  <2>3. nearest \in Scopes
    <3> HIDE DEF Scopes
    <3> QED BY <2>1, <2>2, MaxIsGreatest
  <2>4. Best # {} /\ Best \in SUBSET (0..n)
    <3>1. \E c \in V : app.comps[c].scope = nearest
      BY <2>3
    <3> HIDE DEF V, nearest
    <3>2. V \in SUBSET (0..n)
      BY <1>1, <1>2
    <3> QED
      BY <3>1, <3>2
  <2>5. Max(Best) \in Best
    <3> HIDE DEF Best
    <3> QED BY <2>4, MaxIsGreatest
  <2>6. Get(s, t) = Max(Best)
    BY <1>4 DEF Get
  <2>7. Max(Best) \in V
    BY <2>5
  <2> HIDE DEF Best, V
  <2>8. Get(s, t) \in V /\ Get(s, t) \in 1..n
    BY <1>1, <1>2, <2>6, <2>7
  <2> QED
    BY <1>1, <1>4, <2>8 DEF V
<1> QED
  BY <1>3, <1>4

LEMMA MergedIsLeast ==
    ASSUME NEW F, \A f \in F : f \in [Types -> Modes]
    PROVE  /\ Merged(F) \in [Types -> Modes]
           /\ \A f \in F : \A t \in Types : f[t] # Absent => Merged(F)[t] # Absent
           /\ \A t \in Types : Merged(F)[t] # Absent => \E f \in F : f[t] = Merged(F)[t]
<1> DEFINE S(t) == {Absent} \cup {f[t] : f \in F}
<1>1. Modes = 0..2
  BY DEF Modes, Absent, Shared, Owned
<1>2. ASSUME NEW t \in Types
      PROVE  Max(S(t)) \in S(t) /\ \A x \in S(t) : x \in 0..2 /\ x <= Max(S(t))
  <2>1. S(t) \in SUBSET (0..2) /\ S(t) # {}
    BY <1>1 DEF Absent
  <2> HIDE DEF S
  <2> QED
    BY <2>1, MaxIsGreatest
<1>3. Merged(F) = [t \in Types |-> Max(S(t))]
  BY DEF Merged
<1>4. Merged(F) \in [Types -> Modes]
  BY <1>1, <1>2, <1>3
<1>5. ASSUME NEW f \in F, NEW t \in Types, f[t] # Absent
      PROVE  Merged(F)[t] # Absent
  <2>1. f[t] \in S(t)
    OBVIOUS
  <2>2. f[t] \in 0..2 /\ f[t] <= Max(S(t)) /\ Max(S(t)) \in 0..2
    <3> HIDE DEF S
    <3> QED BY <1>2, <2>1
  <2> HIDE DEF S
  <2> QED
    BY <1>3, <1>5, <2>2 DEF Absent
<1>6. ASSUME NEW t \in Types, Merged(F)[t] # Absent
      PROVE  \E f \in F : f[t] = Merged(F)[t]
  <2>1. Merged(F)[t] \in S(t)
    <3> HIDE DEF S
    <3> QED BY <1>2, <1>3
  <2> QED
    BY <1>6, <2>1
<1> QED
  BY <1>4, <1>5, <1>6

\* Nothing that is merged is stronger than the result.
LEMMA MergedIsGreatest ==
    ASSUME NEW F, \A f \in F : f \in [Types -> Modes], NEW f \in F, NEW t \in Types
    PROVE  f[t] <= Merged(F)[t]
<1> DEFINE S == {Absent} \cup {g[t] : g \in F}
<1>1. S \in SUBSET (0..2) /\ S # {} /\ f[t] \in S
  BY DEF Modes, Absent, Shared, Owned
<1>2. Merged(F)[t] = Max(S)
  BY DEF Merged
<1> HIDE DEF S
<1> QED
  BY <1>1, <1>2, MaxIsGreatest

\* A graph knows how each type is taken, computes components only, has what its
\* root takes, and its inputs can be seen from its scope, but for what the root
\* takes; what it computes is no input.
LEMMA GraphFacts ==
    ASSUME WellFormed, NEW s, NEW takes \in [Types -> Modes], NEW pre
    PROVE  /\ GraphOf(s, takes, pre).inputs \in [Types -> Modes]
           /\ 0 \notin GraphOf(s, takes, pre).computes /\ GraphOf(s, takes, pre).computes \subseteq Comps
           /\ \A t \in Types : takes[t] # Absent =>
                  \/ Get(s, t) \in GraphOf(s, takes, pre).computes
                  \/ GraphOf(s, takes, pre).inputs[t] # Absent
           /\ \A t \in Types : GraphOf(s, takes, pre).inputs[t] # Absent /\ Get(s, t) = 0 => takes[t] # Absent
           /\ \A t \in Types : GraphOf(s, takes, pre).inputs[t] # Absent =>
                  \/ GraphOf(s, takes, pre).inputs[t] = takes[t]
                  \/ \E c \in GraphOf(s, takes, pre).computes : GraphOf(s, takes, pre).inputs[t] = app.comps[c].takes[t]
           /\ \A t \in Types : GraphOf(s, takes, pre).inputs[t] # Absent => ~Computed(s, t, pre)
<1> DEFINE reached == Closure(Asked(takes), LAMBDA t : Asked(Requests(s, t, pre)), Types)
           F == {takes} \cup {Requests(s, t, pre) : t \in reached}
           computed == {t \in reached : Computed(s, t, pre)}
           g == GraphOf(s, takes, pre)
<1>1. reached \subseteq Types
  BY DEF Closure
<1>2. Asked(takes) \subseteq reached
  BY DEF Closure, Asked
<1>21. \A u \in reached : \A t \in Types : t \in Asked(Requests(s, u, pre)) => t \in reached
  BY DEF Closure
<1>3. ASSUME NEW t \in Types
      PROVE  /\ Requests(s, t, pre) \in [Types -> Modes]
             /\ \A u \in Types : Requests(s, t, pre)[u] # Absent => Visible(app, s, u) # {}
  <2>1. CASE Computed(s, t, pre)
    <3> DEFINE c == Get(s, t)
    <3>1. c \in Visible(app, s, t) /\ c \in Comps
      BY <2>1, GetFinds DEF Computed
    <3>2. app.comps[c].scope \in Ancestors(app, s)
      BY <3>1 DEF Visible
    <3>3. Requests(s, t, pre) = app.comps[c].takes
      BY <2>1 DEF Requests
    <3> HIDE DEF c
    <3>4. app.comps[c].takes \in [Types -> Modes]
      BY <3>1, AppShape
    <3>5. ASSUME NEW u \in Types, app.comps[c].takes[u] # Absent
          PROVE  Visible(app, s, u) # {}
      <4>1. u \in Asked(app.comps[c].takes)
        BY <3>4, <3>5 DEF Asked
      <4>2. Visible(app, app.comps[c].scope, u) # {}
        BY <3>1, <4>1, AppShape
      <4> QED
        BY <3>2, <4>2, SeesMore
    <3> QED
      BY <3>3, <3>4, <3>5
  <2>2. CASE ~Computed(s, t, pre)
    BY <2>2 DEF Requests, Nothing, Modes
  <2> QED
    BY <2>1, <2>2
<1>4. \A f \in F : f \in [Types -> Modes]
  BY <1>1, <1>3
<1>5. /\ Merged(F) \in [Types -> Modes]
      /\ \A f \in F : \A t \in Types : f[t] # Absent => Merged(F)[t] # Absent
      /\ \A t \in Types : Merged(F)[t] # Absent => \E f \in F : f[t] = Merged(F)[t]
  <2> HIDE DEF F
  <2> QED BY <1>4, MergedIsLeast
<1>6. /\ g.computes = {Get(s, t) : t \in computed}
      /\ g.inputs = [t \in Types |-> IF t \in computed THEN Absent ELSE Merged(F)[t]]
  BY DEF GraphOf
<1> HIDE DEF g, reached
<1>7. g.inputs \in [Types -> Modes]
  <2> HIDE DEF computed, F
  <2> QED BY <1>5, <1>6 DEF Modes
<1>8. 0 \notin g.computes /\ g.computes \subseteq Comps
  BY <1>6, GetFinds DEF Computed
<1>9. ASSUME NEW t \in Types, takes[t] # Absent
      PROVE  Get(s, t) \in g.computes \/ g.inputs[t] # Absent
  <2>1. Merged(F)[t] # Absent
    BY <1>5, <1>9
  <2> HIDE DEF computed, F
  <2> QED
    BY <1>6, <2>1
<1>10. ASSUME NEW t \in Types, g.inputs[t] # Absent, Get(s, t) = 0
       PROVE  takes[t] # Absent
  <2>1. Merged(F)[t] # Absent
    <3> HIDE DEF computed, F
    <3> QED BY <1>6, <1>10
  <2>2. PICK f \in F : f[t] # Absent
    <3> HIDE DEF F
    <3> QED BY <1>5, <2>1
  <2>3. CASE f = takes
    BY <2>2, <2>3
  <2>4. CASE f # takes
    <3>1. PICK u \in reached : f = Requests(s, u, pre)
      BY <2>4
    <3>2. Visible(app, s, t) # {}
      BY <1>1, <1>3, <2>2, <3>1
    <3> QED
      BY <1>10, <3>2, GetFinds
  <2> QED
    BY <2>3, <2>4
<1>11. ASSUME NEW t \in Types, g.inputs[t] # Absent
       PROVE  g.inputs[t] = takes[t] \/ \E c \in g.computes : g.inputs[t] = app.comps[c].takes[t]
  <2>1. Merged(F)[t] # Absent /\ g.inputs[t] = Merged(F)[t]
    <3> HIDE DEF computed, F
    <3> QED BY <1>6, <1>11
  <2>2. PICK f \in F : f[t] = Merged(F)[t]
    <3> HIDE DEF F
    <3> QED BY <1>5, <2>1
  <2>3. CASE f = takes
    BY <2>1, <2>2, <2>3
  <2>4. CASE f # takes
    <3>1. PICK u \in reached : f = Requests(s, u, pre)
      BY <2>4
    <3>2. Computed(s, u, pre)
      BY <2>1, <2>2, <3>1 DEF Requests, Nothing
    <3>3. f = app.comps[Get(s, u)].takes /\ Get(s, u) \in g.computes
      BY <1>6, <3>1, <3>2 DEF Requests
    <3> QED
      BY <2>1, <2>2, <3>3
  <2> QED
    BY <2>3, <2>4
<1>12. ASSUME NEW t \in Types, g.inputs[t] # Absent
       PROVE  ~Computed(s, t, pre)
  <2>1. Merged(F)[t] # Absent /\ t \notin computed
    <3> HIDE DEF computed, F
    <3> QED BY <1>6, <1>12
  <2>2. PICK f \in F : f[t] # Absent
    <3> HIDE DEF F
    <3> QED BY <1>5, <2>1
  <2>3. t \in Asked(f)
    BY <1>4, <2>2 DEF Asked
  <2>4. t \in reached
    BY <1>2, <1>21, <2>2, <2>3
  <2> QED
    BY <2>1, <2>4
<1> QED
  BY <1>7, <1>8, <1>9, <1>10, <1>11, <1>12 DEF g

-----------------------------------------------------------------------------
(* What a graph reaches. *)

\* The types that the root of a graph needs, directly or not.
Reached(s, takes, pre) == Closure(Asked(takes), LAMBDA t : Asked(Requests(s, t, pre)), Types)

\* It is the least set with what the root takes and what each of its types
\* needs; the graph computes those of its types that it can.
LEMMA ReachedFacts ==
    ASSUME WellFormed, NEW s, NEW takes \in [Types -> Modes], NEW pre
    PROVE  /\ Reached(s, takes, pre) \subseteq Types /\ Asked(takes) \subseteq Reached(s, takes, pre)
           /\ \A y \in Reached(s, takes, pre) : Asked(Requests(s, y, pre)) \subseteq Reached(s, takes, pre)
           /\ \A S \in SUBSET Types :
                  Asked(takes) \subseteq S /\ (\A y \in S : Asked(Requests(s, y, pre)) \subseteq S) =>
                      Reached(s, takes, pre) \subseteq S
           /\ \A t \in Reached(s, takes, pre) :
                  Computed(s, t, pre) => Get(s, t) \in GraphOf(s, takes, pre).computes
           /\ \A c \in GraphOf(s, takes, pre).computes :
                  \E t \in Reached(s, takes, pre) : Computed(s, t, pre) /\ c = Get(s, t)
<1> DEFINE R == Reached(s, takes, pre)
<1>1. R \subseteq Types
  BY DEF Reached, Closure
<1>2. Asked(takes) \subseteq Types
  BY DEF Asked
<1>3. Asked(takes) \subseteq R
  BY <1>2 DEF Reached, Closure
<1>4. \A t \in Types : Requests(s, t, pre) \in [Types -> Modes]
  BY GetFinds, AppShape DEF Requests, Computed, Nothing, Modes
<1>5. \A t \in Types : Asked(Requests(s, t, pre)) \subseteq Types
  BY <1>4 DEF Asked
<1>6. \A y \in R : Asked(Requests(s, y, pre)) \subseteq R
  BY <1>1, <1>5 DEF Reached, Closure
<1>7. \A S \in SUBSET Types :
          Asked(takes) \subseteq S /\ (\A y \in S : Asked(Requests(s, y, pre)) \subseteq S) => R \subseteq S
  BY DEF Reached, Closure
<1>8. GraphOf(s, takes, pre).computes = {Get(s, t) : t \in {u \in R : Computed(s, u, pre)}}
  BY DEF GraphOf, Reached
<1> HIDE DEF R
<1>9. /\ \A t \in R : Computed(s, t, pre) => Get(s, t) \in GraphOf(s, takes, pre).computes
      /\ \A c \in GraphOf(s, takes, pre).computes : \E t \in R : Computed(s, t, pre) /\ c = Get(s, t)
  BY <1>8
<1> QED
  BY <1>1, <1>3, <1>6, <1>7, <1>9 DEF R

\* A graph depends on the application, beside its scope, its root and what is
\* built already.
LEMMA GraphKept ==
    ASSUME app' = app
    PROVE  \A s, takes, pre : GraphOf(s, takes, pre)' = GraphOf(s, takes, pre)
<1>1. \A s, t, pre : Computed(s, t, pre)' <=> Computed(s, t, pre)
  BY OfTheApplication DEF Computed
<1>2. \A s, t, pre : Requests(s, t, pre)' = Requests(s, t, pre)
  BY <1>1, OfTheApplication DEF Requests, Nothing
<1>3. \A F : Merged(F)' = Merged(F)
  BY OfTheApplication DEF Merged
<1> SUFFICES ASSUME NEW s, NEW takes, NEW pre
             PROVE  GraphOf(s, takes, pre)' = GraphOf(s, takes, pre)
  OBVIOUS
<1> DEFINE reached == Closure(Asked(takes), LAMBDA t : Asked(Requests(s, t, pre)), Types)
           asks == Merged({takes} \cup {Requests(s, t, pre) : t \in reached})
           computed == {t \in reached : Computed(s, t, pre)}
<1>4. reached' = reached
  BY <1>2, OfTheApplication DEF Closure
<1> HIDE DEF reached
<1>5. {Requests(s, t, pre) : t \in reached}' = {Requests(s, t, pre) : t \in reached}
  BY <1>2, <1>4
<1>6. asks' = asks
  BY <1>3, <1>5
<1>7. computed' = computed
  BY <1>1, <1>4
<1>8. GraphOf(s, takes, pre) = [computes |-> {Get(s, t) : t \in computed},
                                inputs |-> [t \in Types |-> IF t \in computed THEN Absent ELSE asks[t]]]
  BY DEF GraphOf, reached
<1>9. GraphOf(s, takes, pre)' = [computes |-> {Get(s, t)' : t \in computed'},
                                 inputs |-> [t \in Types' |-> IF t \in computed' THEN Absent ELSE asks'[t]]]
  BY DEF GraphOf, reached, asks, computed
<1> HIDE DEF asks, computed
<1> QED
  BY <1>6, <1>7, <1>8, <1>9, OfTheApplication

-----------------------------------------------------------------------------
(* Stages. *)

\* Stages are numbered along the chain, and a new one begins after a wrapping
\* middleware.
LEMMA StageFacts ==
    ASSUME WellFormed
    PROVE  /\ LastStage \in Nat \ {0}
           /\ \A i \in Members : StageOf(i) \in 0..LastStage
           /\ \A i, j \in Members : i <= j => StageOf(i) <= StageOf(j)
           /\ \A i, j \in Members : i < j /\ IsMiddle(i) => StageOf(i) < StageOf(j)
           /\ 1 \in Members /\ StageOf(1) = 0 /\ Len(app.chain) \in Members
<1> DEFINE Ahead(i) == {j \in Members : j < i /\ IsMiddle(j)}
           n == Len(app.chain)
<1>1. n \in Nat \ {0, 1} /\ Members = 1..n /\ 1 \in Members /\ n \in Members
  BY AppShape, ChainShape
<1>2. ASSUME NEW i \in Members
      PROVE  IsFiniteSet(Ahead(i)) /\ StageOf(i) = Cardinality(Ahead(i)) /\ StageOf(i) \in Nat
  <2>1. IsFiniteSet(1..n)
    BY <1>1, FS_Interval
  <2>2. IsFiniteSet(Ahead(i))
    BY <1>1, <2>1, FS_Subset
  <2> QED
    BY <2>2, FS_CardinalityType DEF StageOf
<1>3. ASSUME NEW i \in Members, NEW j \in Members, i <= j
      PROVE  StageOf(i) <= StageOf(j)
  <2>1. Ahead(i) \subseteq Ahead(j)
    BY <1>1, <1>3
  <2> HIDE DEF Ahead
  <2> QED
    BY <1>2, <2>1, FS_Subset
<1>4. ASSUME NEW i \in Members, NEW j \in Members, i < j, IsMiddle(i)
      PROVE  StageOf(i) < StageOf(j)
  <2>1. Ahead(i) \subseteq Ahead(j) /\ i \in Ahead(j) /\ i \notin Ahead(i)
    BY <1>1, <1>4
  <2> HIDE DEF Ahead
  <2>2. Cardinality(Ahead(i)) # Cardinality(Ahead(j)) /\ Cardinality(Ahead(i)) <= Cardinality(Ahead(j))
    BY <1>2, <2>1, FS_Subset
  <2> QED
    BY <1>2, <2>2
<1>5. StageOf(1) = 0
  <2>1. Ahead(1) = {}
    BY <1>1
  <2> HIDE DEF Ahead
  <2> QED
    BY <1>1, <1>2, <2>1, FS_EmptySet
<1>6. LastStage \in Nat /\ \A i \in Members : StageOf(i) \in 0..LastStage
  <2>1. LastStage = StageOf(n) /\ n \in Members
    BY <1>1 DEF LastStage
  <2> HIDE DEF n
  <2>2. \A i \in Members : i <= n /\ StageOf(i) \in Nat
    <3>1. \A i \in Members : i <= n
      BY <1>1
    <3> QED
      BY <1>2, <3>1
  <2>3. \A i \in Members : StageOf(i) <= StageOf(n)
    BY <1>3, <2>1, <2>2
  <2> QED
    BY <2>1, <2>2, <2>3
<1>7. LastStage # 0
  <2>1. IsMiddle(1) /\ 1 < n
    BY <1>1, AppShape DEF IsMiddle
  <2> HIDE DEF n
  <2> QED
    BY <1>1, <1>4, <1>5, <2>1 DEF LastStage, n
<1> QED
  BY <1>1, <1>3, <1>4, <1>5, <1>6, <1>7

\* A set of members that is not empty has one that comes before the others.
LEMMA EarliestExists ==
    ASSUME WellFormed, NEW S \in SUBSET Members, S # {}
    PROVE  \E i \in S : \A j \in S : i = j \/ Before(i, j)
<1> DEFINE R == {Rank(i) : i \in S}
<1>1. R \in SUBSET Nat /\ R # {}
  BY BeforeIsTotal
<1>2. PICK r \in R : \A x \in R : r <= x
  <2> HIDE DEF R
  <2> QED BY <1>1, LeastExists
<1> DEFINE T == {i \in S : Rank(i) = r}
<1>3. T \in SUBSET Nat /\ T # {}
  BY <1>2, ChainShape
<1>4. PICK m \in T : \A x \in T : m <= x
  <2> HIDE DEF T
  <2> QED BY <1>3, LeastExists
<1>5. ASSUME NEW j \in S
      PROVE  m = j \/ Before(m, j)
  <2>1. Rank(m) <= Rank(j) /\ Rank(m) = r
    BY <1>2, <1>4
  <2>2. Rank(j) \in 0..2 /\ Rank(m) \in 0..2 /\ j \in Nat /\ m \in Nat
    BY <1>4, BeforeIsTotal
  <2>3. Rank(j) = Rank(m) => m <= j
    BY <1>4, <2>1
  <2> QED
    BY <2>1, <2>2, <2>3 DEF Before
<1> QED
  BY <1>4, <1>5

\* In a stage, what comes before a wrapping middleware is registered before it,
\* and so is what comes after it.
LEMMA AroundTheWrap ==
    ASSUME WellFormed, NEW i \in Members, NEW w \in Members, i # w,
           StageOf(i) = StageOf(w), app.chain[w].kind = "wrap"
    PROVE  i < w /\ app.chain[i].kind \in {"pre", "post"}
<1>1. i \in Nat /\ w \in Nat
  BY BeforeIsTotal
<1>2. IsMiddle(w)
  BY DEF IsMiddle
<1>3. StageOf(i) \in Nat /\ StageOf(w) \in Nat
  BY StageFacts
<1>4. i < w
  BY <1>1, <1>2, <1>3, StageFacts
<1>5. ~IsMiddle(i)
  BY <1>3, <1>4, StageFacts
<1> QED
  BY <1>4, <1>5, ChainShape DEF IsMiddle, Kinds


-----------------------------------------------------------------------------
(* Applications that are given up on, and clones. *)

\* What the comparison of the members stops at has a conflict.
StoppedByAConflict == phase \in {"rejected", "unreachable"} => Conflict
\* Until the members of a stage are compared, none is given a clone.
ConflictInv ==
    /\ WellFormed
    /\ phase \in {"count", "combine"} => \A k \in DOMAIN cloned : \A t \in Types : cloned[k][t] = {}
    /\ StoppedByAConflict
    /\ ClonedOnlyIfUsedLater

LEMMA ConflictInit == Init => ConflictInv
BY DEF Init, CompileInit, ConflictInv, WellFormed, StoppedByAConflict, ClonedOnlyIfUsedLater

\* A step that touches neither the graphs nor the clones.
LEMMA ConflictKept ==
    ASSUME ConflictInv, app' = app, graphs' = graphs, cloned' = cloned,
           phase' \in {"rejected", "unreachable", "count", "combine"} => phase' = phase
    PROVE  ConflictInv'
<1>1. \A i, j, t : (TakenThenUsed(i, j, t))' <=> TakenThenUsed(i, j, t)
  BY OfTheApplication DEF TakenThenUsed
<1>2. StoppedByAConflict'
  BY <1>1, OfTheApplication DEF ConflictInv, StoppedByAConflict, Conflict
<1>3. ClonedOnlyIfUsedLater'
  BY <1>1, OfTheApplication DEF ConflictInv, ClonedOnlyIfUsedLater
<1> QED
  BY <1>2, <1>3, OfTheApplication DEF ConflictInv

LEMMA ConflictStep == ConflictInv /\ [Next]_vars => ConflictInv'
<1> SUFFICES ASSUME ConflictInv, [Next]_vars
             PROVE  ConflictInv'
  OBVIOUS
<1>1. CASE Count
  <2>1. StoppedByAConflict'
    BY <1>1 DEF Count, StoppedByAConflict
  <2>2. \A k \in DOMAIN cloned' : \A t \in Types : cloned'[k][t] = {}
    BY <1>1 DEF Count, ConflictInv
  <2>3. app' = app
    BY <1>1 DEF Count
  <2> QED
    BY <2>1, <2>2, <2>3, OfTheApplication DEF ConflictInv, ClonedOnlyIfUsedLater
<1>2. CASE Combine
  <2>1. StoppedByAConflict'
    BY <1>2 DEF Combine, StoppedByAConflict
  <2>2. \A k \in DOMAIN cloned' : \A t \in Types : cloned'[k][t] = {}
    BY <1>2 DEF Combine, ConflictInv
  <2>3. app' = app
    BY <1>2 DEF Combine
  <2> QED
    BY <2>1, <2>2, <2>3, OfTheApplication DEF ConflictInv, ClonedOnlyIfUsedLater
<1>3. CASE RejectGraph
  BY <1>3, ConflictKept DEF RejectGraph
<1>4. CASE CheckStage
  <2>1. app' = app /\ graphs' = graphs /\ phase = "check"
    BY <1>4 DEF CheckStage
  <2>2. \A i, j, t : (TakenThenUsed(i, j, t))' <=> TakenThenUsed(i, j, t)
    BY <2>1, OfTheApplication DEF TakenThenUsed
  <2>3. CASE Issues(stage) = {}
    <3>1. cloned' = [cloned EXCEPT ![stage] = [t \in Types |-> NeedClone(stage, t)]]
          /\ phase' \in {"enforce", "check"}
      BY <1>4, <2>3 DEF CheckStage
    <3>2. ASSUME NEW k \in DOMAIN cloned', NEW t \in Types, NEW i \in cloned'[k][t]
          PROVE  ~MayNotBeCloned(i, t) /\ \E j \in Members : TakenThenUsed(i, j, t)
      <4>1. CASE k = stage
        <5>1. i \in NeedClone(stage, t)
          BY <3>1, <3>2, <4>1
        <5>2. ~MayNotBeCloned(i, t)
          BY <2>3, <5>1 DEF Issues
        <5> QED
          BY <5>1, <5>2, NeedCloneIsUsedLater DEF ConflictInv
      <4>2. CASE k # stage
        <5>1. i \in cloned[k][t] /\ k \in DOMAIN cloned
          BY <3>1, <3>2, <4>2
        <5> QED
          BY <5>1 DEF ConflictInv, ClonedOnlyIfUsedLater
      <4> QED
        BY <4>1, <4>2
    <3>3. ClonedOnlyIfUsedLater'
      BY <2>1, <2>2, <3>2, OfTheApplication DEF ClonedOnlyIfUsedLater
    <3>4. StoppedByAConflict'
      BY <3>1 DEF StoppedByAConflict
    <3> QED
      BY <2>1, <3>1, <3>3, <3>4, OfTheApplication DEF ConflictInv
  <2>4. CASE Issues(stage) # {}
    <3>1. cloned' = cloned /\ phase' \in {"rejected", "unreachable"}
      BY <1>4, <2>4 DEF CheckStage
    <3>2. PICK t \in Issues(stage) : TRUE
      BY <2>4
    <3>3. PICK i \in NeedClone(stage, t) : MayNotBeCloned(i, t)
      BY <3>2 DEF Issues
    <3>4. i \in Members /\ \E j \in Members : TakenThenUsed(i, j, t)
      BY <3>3, NeedCloneIsUsedLater DEF ConflictInv
    <3>5. Conflict'
      <4>1. t \in Types /\ FromComponent(i, t)
        BY <3>2, <3>3 DEF Issues, NeedClone, Consumers
      <4> QED
        BY <2>1, <2>2, <3>3, <3>4, <4>1, OfTheApplication DEF Conflict
    <3>6. ClonedOnlyIfUsedLater'
      BY <2>1, <2>2, <3>1, OfTheApplication DEF ConflictInv, ClonedOnlyIfUsedLater
    <3> QED
      BY <2>1, <3>1, <3>5, <3>6, OfTheApplication DEF ConflictInv, StoppedByAConflict
  <2> QED
    BY <2>3, <2>4
<1>5. CASE Enforce
  BY <1>5, ConflictKept DEF Enforce
<1>6. CASE Codegen
  BY <1>6, ConflictKept DEF Codegen
<1>7. CASE Receive
  BY <1>7, ConflictKept DEF Receive
<1>8. CASE Return
  BY <1>8, ConflictKept DEF Return
<1>9. CASE UNCHANGED compileVars
  BY <1>9, ConflictKept DEF compileVars
<1>10. ASSUME NEW i \in Members, Call(i)
       PROVE  UNCHANGED compileVars
  BY <1>10 DEF Call, Continue, EarlyReturn, Handle, CallNext, SkipNext, PostProcess
<1> QED
  BY <1>1, <1>2, <1>3, <1>4, <1>5, <1>6, <1>7, <1>8, <1>9, <1>10 DEF Next, Compile, Halt, vars

LEMMA ConflictAlways == Spec => []ConflictInv
<1> QED
  BY ConflictInit, ConflictStep, PTL DEF Spec

\* No clone is made without need, nor of a value that may not be cloned.
THEOREM ClonesWhenNeeded == Spec => []ClonedOnlyIfUsedLater
<1>1. ConflictInv => ClonedOnlyIfUsedLater
  BY DEF ConflictInv
<1> QED
  BY <1>1, ConflictAlways, PTL

-----------------------------------------------------------------------------
(* What the analysis leaves behind. *)

\* The fields of the Next that a member is given, and its graph in the end.
Fields(i) == IF StageOf(i) = LastStage THEN Nothing ELSE next[StageOf(i)]
Final(i) == GraphOf(app.chain[i].scope, Takes(i, Fields(i)), PrebuiltFor(StageOf(i)))
\* A type that the handler's blueprint, hence the entrypoint, can resolve.
Seen(t) == Get(app.chain[Len(app.chain)].scope, t) # 0
Usage == [Types -> Modes]
AllSeen(f) == \A t \in Types : f[t] # Absent => Seen(t)

GraphsInv ==
    /\ WellFormed
    /\ stage \in 0..LastStage
    /\ carried \in Usage /\ AllSeen(carried)
    /\ next \in [0..(LastStage - 1) -> Usage] /\ \A k \in DOMAIN next : AllSeen(next[k])
    /\ phase = "combine" => \A i \in Members : StageOf(i) > stage => graphs[i] = Final(i)
    /\ phase \in {"check", "enforce", "generate", "generated", "serving"} =>
          \A i \in Members : graphs[i] = Final(i)
ClonesInv ==
    /\ DOMAIN cloned = 0..LastStage
    /\ phase = "check" =>
          \A k \in 0..LastStage : \A t \in Types : k > stage => cloned[k][t] = NeedClone(k, t)
    /\ phase \in {"enforce", "generate", "generated", "serving"} =>
          \A k \in 0..LastStage : \A t \in Types : cloned[k][t] = NeedClone(k, t)
VariablesInv ==
    phase \in {"generated", "serving"} =>
        \A i \in Members : \A t \in Types : graphs[i].inputs[t] <= Parameters(StageOf(i))[t]

LEMMA FieldsTyped ==
    ASSUME GraphsInv, NEW i \in Members
    PROVE  /\ Fields(i) \in Usage /\ AllSeen(Fields(i))
           /\ Takes(i, Fields(i)) \in Usage
           /\ \A t \in Types : Takes(i, Fields(i))[t] # Absent =>
                  \/ app.chain[i].takes[t] # Absent
                  \/ app.chain[i].kind = "wrap" /\ Fields(i)[t] # Absent
           /\ app.chain[i].kind = "wrap" =>
                  \A t \in Types : Fields(i)[t] # Absent => Takes(i, Fields(i))[t] # Absent
<1>1. WellFormed
  BY DEF GraphsInv
<1>2. Fields(i) \in Usage /\ AllSeen(Fields(i))
  <2>1. CASE StageOf(i) = LastStage
    BY <2>1 DEF Fields, Nothing, Usage, Modes, AllSeen
  <2>2. CASE StageOf(i) # LastStage
    <3>1. StageOf(i) \in 0..(LastStage - 1)
      BY <1>1, <2>2, StageFacts
    <3> QED
      BY <2>2, <3>1 DEF Fields, GraphsInv
  <2> QED
    BY <2>1, <2>2
<1>3. app.chain[i].takes \in Usage
  BY <1>1, AppShape DEF Usage
<1> DEFINE F == {app.chain[i].takes, Fields(i)}
<1>4. /\ Merged(F) \in Usage
      /\ \A f \in F : \A t \in Types : f[t] # Absent => Merged(F)[t] # Absent
      /\ \A t \in Types : Merged(F)[t] # Absent => \E f \in F : f[t] = Merged(F)[t]
  <2>1. \A f \in F : f \in [Types -> Modes]
    BY <1>2, <1>3 DEF Usage
  <2> HIDE DEF F
  <2> QED
    BY <2>1, MergedIsLeast DEF Usage
<1>5. Takes(i, Fields(i)) = IF app.chain[i].kind = "wrap" THEN Merged(F) ELSE app.chain[i].takes
  BY DEF Takes
<1> QED
  BY <1>2, <1>3, <1>4, <1>5

\* A member of the chain sees no more than the handler.
LEMMA SeenByTheHandler ==
    ASSUME WellFormed, NEW i \in Members, NEW t \in Types, Get(app.chain[i].scope, t) # 0
    PROVE  Seen(t)
<1> DEFINE h == Len(app.chain)
<1>1. Visible(app, app.chain[i].scope, t) # {}
  BY GetFinds
<1>2. CASE i = 1
  BY <1>2, AppShape DEF Seen
<1>3. CASE i # 1
  <2>1. 1 < i /\ i <= h /\ h \in Members
    BY <1>3, ChainShape, StageFacts
  <2>2. app.chain[i].scope \in Ancestors(app, app.chain[h].scope)
    BY <2>1, AppShape
  <2>3. Visible(app, app.chain[h].scope, t) # {}
    BY <1>1, <2>2, SeesMore
  <2> QED
    BY <2>3, GetFinds DEF Seen
<1> QED
  BY <1>2, <1>3

\* The final graph of a member: its inputs are seen by its own blueprint, or
\* are fields of its Next.
LEMMA FinalFacts ==
    ASSUME GraphsInv, NEW i \in Members
    PROVE  /\ Final(i).inputs \in Usage /\ AllSeen(Final(i).inputs)
           /\ 0 \notin Final(i).computes
           /\ \A t \in Types : Final(i).inputs[t] # Absent =>
                  \/ FromComponent(i, t)
                  \/ app.chain[i].kind = "wrap" /\ Fields(i)[t] # Absent
           /\ app.chain[i].kind = "wrap" =>
                  \A t \in Types : Fields(i)[t] # Absent =>
                      \/ Get(app.chain[i].scope, t) \in Final(i).computes
                      \/ Final(i).inputs[t] # Absent
<1> DEFINE s == app.chain[i].scope
           takes == Takes(i, Fields(i))
           pre == PrebuiltFor(StageOf(i))
<1>1. WellFormed /\ takes \in Usage
  BY FieldsTyped DEF GraphsInv
<1>2. Final(i) = GraphOf(s, takes, pre)
  BY DEF Final
<1> HIDE DEF pre, takes
<1>3. /\ Final(i).inputs \in Usage
      /\ 0 \notin Final(i).computes
      /\ \A t \in Types : takes[t] # Absent =>
             Get(s, t) \in Final(i).computes \/ Final(i).inputs[t] # Absent
      /\ \A t \in Types : Final(i).inputs[t] # Absent /\ Get(s, t) = 0 => takes[t] # Absent
  BY <1>1, <1>2, GraphFacts DEF Usage
<1>4. ASSUME NEW t \in Types, Final(i).inputs[t] # Absent
      PROVE  FromComponent(i, t) \/ (app.chain[i].kind = "wrap" /\ Fields(i)[t] # Absent)
  <2> SUFFICES ASSUME ~FromComponent(i, t)
               PROVE  app.chain[i].kind = "wrap" /\ Fields(i)[t] # Absent
    OBVIOUS
  <2>1. Get(s, t) = 0
    BY DEF FromComponent
  <2>2. takes[t] # Absent
    BY <1>3, <1>4, <2>1
  <2>3. app.chain[i].takes[t] = Absent
    <3>1. app.chain[i].takes \in [Types -> Modes]
      BY <1>1, AppShape
    <3>2. Visible(app, s, t) = {}
      BY <1>1, <2>1, GetFinds
    <3>3. t \notin Asked(app.chain[i].takes)
      BY <1>1, <3>2, AppShape
    <3> QED
      BY <3>1, <3>3 DEF Asked
  <2> QED
    BY <2>2, <2>3, FieldsTyped DEF takes
<1>5. AllSeen(Final(i).inputs)
  BY <1>1, <1>4, SeenByTheHandler, FieldsTyped DEF AllSeen, FromComponent
<1>6. ASSUME app.chain[i].kind = "wrap", NEW t \in Types, Fields(i)[t] # Absent
      PROVE  Get(s, t) \in Final(i).computes \/ Final(i).inputs[t] # Absent
  <2>1. takes[t] # Absent
    BY <1>6, FieldsTyped DEF takes
  <2> QED
    BY <1>3, <2>1
<1> QED
  BY <1>3, <1>4, <1>5, <1>6

-----------------------------------------------------------------------------
(* The analysis keeps what it knows. *)

LEMMA GraphsInit == Init => GraphsInv /\ ClonesInv /\ VariablesInv
<1> SUFFICES ASSUME Init
             PROVE  GraphsInv /\ ClonesInv /\ VariablesInv
  OBVIOUS
<1>1. WellFormed
  BY DEF Init, CompileInit, WellFormed
<1>2. Nothing \in Usage /\ AllSeen(Nothing)
  BY DEF Nothing, Usage, Modes, AllSeen
<1>3. phase = "count" /\ stage = 0 /\ carried = Nothing /\ next = [k \in 0..(LastStage - 1) |-> Nothing]
      /\ DOMAIN cloned = 0..LastStage
  BY DEF Init, CompileInit
<1>4. stage \in 0..LastStage
  BY <1>1, <1>3, StageFacts
<1>5. next \in [0..(LastStage - 1) -> Usage] /\ \A k \in DOMAIN next : AllSeen(next[k])
  BY <1>2, <1>3
<1> QED
  BY <1>1, <1>2, <1>3, <1>4, <1>5 DEF GraphsInv, ClonesInv, VariablesInv

\* What depends on the application, the fields of Next and where things are
\* built only.
LEMMA FinalKept ==
    ASSUME app' = app, builtAt' = builtAt, NEW i, Fields(i)' = Fields(i)
    PROVE  Final(i)' = Final(i)
<1>1. PrebuiltFor(StageOf(i))' = PrebuiltFor(StageOf(i))
  BY OfTheApplication DEF PrebuiltFor
<1>2. Takes(i, Fields(i))' = Takes(i, Fields(i))
  BY OfTheApplication DEF Takes, Merged
<1>3. \A s, takes, pre : GraphOf(s, takes, pre)' = GraphOf(s, takes, pre)
  BY GraphKept
<1> QED
  BY <1>1, <1>2, <1>3 DEF Final

LEMMA NeedCloneKept ==
    ASSUME app' = app, graphs' = graphs
    PROVE  \A k, t : NeedClone(k, t)' = NeedClone(k, t)
<1>1. \A k, t : Consumers(k, t)' = Consumers(k, t)
  BY OfTheApplication DEF Consumers
<1>2. \A k, t : Borrowers(k, t)' = Borrowers(k, t)
  BY <1>1, OfTheApplication DEF Borrowers
<1>3. \A S : Latest(S)' = Latest(S)
  BY OfTheApplication DEF Latest
<1> QED
  BY <1>1, <1>2, <1>3, OfTheApplication DEF NeedClone

LEMMA SeenKept ==
    ASSUME app' = app
    PROVE  /\ Usage' = Usage
           /\ \A t : Seen(t)' <=> Seen(t)
<1> QED
  BY OfTheApplication DEF Usage, Seen

\* A step that does not combine graphs.
LEMMA GraphsKept ==
    ASSUME GraphsInv, app' = app, carried' = carried, next' = next,
           stage' \in 0..LastStage, graphs' = graphs, builtAt' = builtAt,
           phase' = "combine" => phase' = phase /\ stage' = stage,
           phase' \in {"check", "enforce", "generate", "generated", "serving"} =>
               phase \in {"check", "enforce", "generate", "generated", "serving"}
    PROVE  GraphsInv'
<1>1. WellFormed' /\ stage' \in (0..LastStage)'
  BY OfTheApplication DEF GraphsInv
<1>2. (carried \in Usage /\ AllSeen(carried))'
  BY OfTheApplication, SeenKept DEF GraphsInv, AllSeen
<1>3. (next \in [0..(LastStage - 1) -> Usage] /\ \A k \in DOMAIN next : AllSeen(next[k]))'
  BY OfTheApplication, SeenKept DEF GraphsInv, AllSeen
<1>4. \A i \in Members : Final(i)' = Final(i)
  BY FinalKept, OfTheApplication DEF Fields, Nothing
<1>5. (phase = "combine" => \A i \in Members : StageOf(i) > stage => graphs[i] = Final(i))'
  BY <1>4, OfTheApplication DEF GraphsInv
<1>6. (phase \in {"check", "enforce", "generate", "generated", "serving"} =>
           \A i \in Members : graphs[i] = Final(i))'
  BY <1>4, OfTheApplication DEF GraphsInv
<1> QED
  BY <1>1, <1>2, <1>3, <1>5, <1>6 DEF GraphsInv

LEMMA NeededFacts ==
    ASSUME GraphsInv
    PROVE  /\ Needed \in Usage /\ AllSeen(Needed)
           /\ Kept(Needed) \in Usage /\ AllSeen(Kept(Needed))
           /\ \A i \in InStage(stage) : Bound(i) = Final(i)
<1>1. \A i \in InStage(stage) : i \in Members /\ Bound(i) = Final(i)
  BY DEF InStage, Bound, Final, Fields
<1> DEFINE F == {carried} \cup {Bound(i).inputs : i \in InStage(stage)}
<1>2. \A f \in F : f \in Usage /\ AllSeen(f)
  BY <1>1, FinalFacts DEF GraphsInv
<1>3. \A f \in F : f \in [Types -> Modes]
  <2> HIDE DEF F
  <2> QED BY <1>2 DEF Usage
<1>4. /\ Merged(F) \in [Types -> Modes]
      /\ \A t \in Types : Merged(F)[t] # Absent => \E f \in F : f[t] = Merged(F)[t]
  <2> HIDE DEF F
  <2> QED BY <1>3, MergedIsLeast
<1>5. Needed = Merged(F)
  BY DEF Needed
<1> HIDE DEF F
<1>6. Needed \in Usage /\ AllSeen(Needed)
  BY <1>2, <1>4, <1>5 DEF Usage, AllSeen
<1>7. Kept(Needed) \in Usage /\ AllSeen(Kept(Needed))
  BY <1>6 DEF Kept, Usage, AllSeen, Modes
<1> QED
  BY <1>1, <1>6, <1>7

LEMMA CombineKeeps == GraphsInv /\ Combine => GraphsInv'
<1> SUFFICES ASSUME GraphsInv, Combine
             PROVE  GraphsInv'
  OBVIOUS
<1>1. /\ app' = app /\ builtAt' = builtAt /\ phase = "combine"
      /\ graphs' = [i \in Members |-> IF StageOf(i) = stage THEN Bound(i) ELSE graphs[i]]
      /\ carried' = IF stage = 0 THEN Needed ELSE Kept(Needed)
      /\ next' = IF stage = 0 THEN next ELSE [next EXCEPT ![stage - 1] = Needed]
      /\ \/ phase' = "panicked" /\ stage' = stage
         \/ phase' = "check" /\ stage = 0 /\ stage' = LastStage
         \/ phase' = "combine" /\ stage # 0 /\ stage' = stage - 1
  BY DEF Combine
<1>2. WellFormed /\ stage \in 0..LastStage /\ LastStage \in Nat
  BY StageFacts DEF GraphsInv
<1>3. WellFormed' /\ stage' \in (0..LastStage)'
  BY <1>1, <1>2, OfTheApplication
<1>4. (carried \in Usage /\ AllSeen(carried))'
  <2>1. carried' \in Usage /\ AllSeen(carried')
    BY <1>1, NeededFacts
  <2> QED
    BY <1>1, <2>1, OfTheApplication, SeenKept DEF AllSeen
<1>5. (next \in [0..(LastStage - 1) -> Usage] /\ \A k \in DOMAIN next : AllSeen(next[k]))'
  <2>1. next' \in [0..(LastStage - 1) -> Usage] /\ \A k \in DOMAIN next' : AllSeen(next'[k])
    BY <1>1, NeededFacts DEF GraphsInv
  <2> QED
    BY <1>1, <2>1, OfTheApplication, SeenKept DEF AllSeen
<1>6. ASSUME NEW i \in Members, StageOf(i) >= stage
      PROVE  graphs'[i] = Final(i)'
  <2>1. StageOf(i) \in 0..LastStage
    BY <1>2, StageFacts
  <2>2. Fields(i)' = Fields(i)
    <3>1. next'[StageOf(i)] = next[StageOf(i)]
      BY <1>1, <1>2, <1>6, <2>1 DEF GraphsInv
    <3> QED
      BY <1>1, <3>1, OfTheApplication DEF Fields, Nothing
  <2>3. Final(i)' = Final(i)
    BY <1>1, <2>2, FinalKept
  <2>4. CASE StageOf(i) = stage
    BY <1>1, <2>3, <2>4, NeededFacts DEF InStage
  <2>5. CASE StageOf(i) # stage
    <3>1. StageOf(i) > stage
      BY <1>2, <1>6, <2>1, <2>5
    <3> QED
      BY <1>1, <2>3, <2>5, <3>1 DEF GraphsInv
  <2> QED
    BY <2>4, <2>5
<1>7. ASSUME phase' \in {"combine", "check"}, NEW i \in Members, phase' = "combine" => StageOf(i) > stage'
      PROVE  StageOf(i) >= stage
  <2>1. StageOf(i) \in 0..LastStage
    BY <1>2, StageFacts
  <2> QED
    BY <1>1, <1>2, <1>7, <2>1
<1>8. (phase = "combine" => \A i \in Members : StageOf(i) > stage => graphs[i] = Final(i))'
  BY <1>1, <1>6, <1>7, OfTheApplication
<1>9. (phase \in {"check", "enforce", "generate", "generated", "serving"} =>
           \A i \in Members : graphs[i] = Final(i))'
  BY <1>1, <1>6, <1>7, OfTheApplication
<1> QED
  BY <1>3, <1>4, <1>5, <1>8, <1>9 DEF GraphsInv

LEMMA CountKeeps == GraphsInv /\ Count => GraphsInv'
<1> SUFFICES ASSUME GraphsInv, Count
             PROVE  GraphsInv'
  OBVIOUS
<1>1. /\ app' = app /\ phase' = "combine" /\ stage' = LastStage
      /\ UNCHANGED <<carried, next, graphs>>
  BY DEF Count
<1>2. WellFormed /\ LastStage \in Nat
  BY StageFacts DEF GraphsInv
<1>3. WellFormed' /\ stage' \in (0..LastStage)'
  BY <1>1, <1>2, OfTheApplication
<1>4. (carried \in Usage /\ AllSeen(carried))'
  BY <1>1, OfTheApplication, SeenKept DEF GraphsInv, AllSeen
<1>5. (next \in [0..(LastStage - 1) -> Usage] /\ \A k \in DOMAIN next : AllSeen(next[k]))'
  BY <1>1, OfTheApplication, SeenKept DEF GraphsInv, AllSeen
<1>6. \A i \in Members : ~(StageOf(i) > LastStage)
  BY <1>2, StageFacts
<1>7. (\A i \in Members : StageOf(i) > stage => graphs[i] = Final(i))'
  BY <1>1, <1>6, OfTheApplication
<1> QED
  BY <1>1, <1>3, <1>4, <1>5, <1>7 DEF GraphsInv

LEMMA ClonesKept ==
    ASSUME GraphsInv, ClonesInv, app' = app, graphs' = graphs, cloned' = cloned,
           phase' = "check" => phase' = phase /\ stage' = stage,
           phase' \in {"enforce", "generate", "generated", "serving"} =>
               phase \in {"enforce", "generate", "generated", "serving"}
    PROVE  ClonesInv'
BY NeedCloneKept, OfTheApplication DEF ClonesInv

LEMMA CheckStageKeeps ==
    ASSUME GraphsInv, ClonesInv, CheckStage
    PROVE  ClonesInv'
<1>1. app' = app /\ graphs' = graphs /\ phase = "check"
  BY DEF CheckStage
<1>2. WellFormed /\ stage \in 0..LastStage /\ LastStage \in Nat /\ DOMAIN cloned = 0..LastStage
  BY StageFacts DEF GraphsInv, ClonesInv
<1>3. CASE Issues(stage) # {}
  <2>1. cloned' = cloned /\ phase' \in {"rejected", "unreachable"}
    BY <1>3 DEF CheckStage
  <2> QED
    BY <1>1, <2>1, ClonesKept
<1>4. CASE Issues(stage) = {}
  <2>1. /\ cloned' = [cloned EXCEPT ![stage] = [t \in Types |-> NeedClone(stage, t)]]
        /\ \/ stage = 0 /\ phase' = "enforce"
           \/ stage # 0 /\ phase' = "check" /\ stage' = stage - 1
    BY <1>4 DEF CheckStage
  <2>2. DOMAIN cloned' = 0..LastStage
    BY <1>2, <2>1
  <2>3. ASSUME NEW k \in 0..LastStage, NEW t \in Types, k >= stage
        PROVE  cloned'[k][t] = NeedClone(k, t)
    <3>1. CASE k = stage
      BY <1>2, <2>1, <3>1
    <3>2. CASE k > stage
      BY <1>1, <1>2, <2>1, <3>2 DEF ClonesInv
    <3> QED
      BY <1>2, <2>3, <3>1, <3>2
  <2>4. ASSUME NEW k \in 0..LastStage, phase' = "check" => k > stage'
        PROVE  k >= stage
    BY <1>2, <2>1, <2>4
  <2>5. phase' \in {"enforce", "check"}
    BY <2>1
  <2>6. (phase = "check" =>
            \A k \in 0..LastStage : \A t \in Types : k > stage => cloned[k][t] = NeedClone(k, t))'
    BY <1>1, <2>3, <2>4, NeedCloneKept, OfTheApplication
  <2>7. (phase \in {"enforce", "generate", "generated", "serving"} =>
            \A k \in 0..LastStage : \A t \in Types : cloned[k][t] = NeedClone(k, t))'
    BY <1>1, <2>3, <2>4, <2>5, NeedCloneKept, OfTheApplication
  <2> QED
    BY <1>1, <2>2, <2>6, <2>7, OfTheApplication DEF ClonesInv
<1> QED
  BY <1>3, <1>4

AnalysisInv == GraphsInv /\ ClonesInv /\ VariablesInv

LEMMA ParametersKept ==
    ASSUME graphs' = graphs, next' = next
    PROVE  \A k : Parameters(k)' = Parameters(k)
BY DEF Parameters

LEMMA AnalysisKept ==
    ASSUME AnalysisInv, app' = app, carried' = carried, next' = next, stage' = stage,
           graphs' = graphs, builtAt' = builtAt, cloned' = cloned,
           \/ phase' = phase \/ phase' \in {"invalid", "panicked", "answered"}
           \/ phase = "generated" /\ phase' = "serving"
           \/ phase = "enforce" /\ phase' = "generate"
    PROVE  AnalysisInv'
<1>1. stage' \in 0..LastStage
  BY DEF AnalysisInv, GraphsInv
<1>2. GraphsInv'
  BY <1>1, GraphsKept DEF AnalysisInv
<1>3. ClonesInv'
  BY ClonesKept DEF AnalysisInv
<1>4. VariablesInv'
  BY ParametersKept, OfTheApplication DEF AnalysisInv, VariablesInv
<1> QED
  BY <1>2, <1>3, <1>4 DEF AnalysisInv

LEMMA CallsOnlyCall ==
    ASSUME NEW i \in Members, Call(i)
    PROVE  UNCHANGED compileVars
BY DEF Call, Continue, EarlyReturn, Handle, CallNext, SkipNext, PostProcess

LEMMA AnalysisStep == AnalysisInv /\ [Next]_vars => AnalysisInv'
<1> SUFFICES ASSUME AnalysisInv, [Next]_vars
             PROVE  AnalysisInv'
  OBVIOUS
<1>1. CASE Count
  <2>1. /\ app' = app /\ phase' = "combine" /\ cloned' = cloned /\ graphs' = graphs
    BY <1>1 DEF Count
  <2>2. ClonesInv' /\ VariablesInv'
    BY <2>1, ClonesKept DEF AnalysisInv, VariablesInv
  <2> QED
    BY <1>1, <2>2, CountKeeps DEF AnalysisInv
<1>2. CASE Combine
  <2>1. /\ app' = app /\ cloned' = cloned
        /\ phase' \in {"panicked", "combine"} \/ (phase' = "check" /\ stage' = LastStage)
    BY <1>2 DEF Combine
  <2>2. \A k \in 0..LastStage : ~(k > LastStage)
    BY StageFacts DEF AnalysisInv, GraphsInv
  <2>3. ClonesInv'
    BY <2>1, <2>2, OfTheApplication DEF AnalysisInv, ClonesInv
  <2>4. VariablesInv'
    BY <2>1 DEF VariablesInv
  <2> QED
    BY <1>2, <2>3, <2>4, CombineKeeps DEF AnalysisInv
<1>3. CASE RejectGraph
  BY <1>3, AnalysisKept DEF RejectGraph
<1>4. CASE CheckStage
  <2>1. /\ UNCHANGED <<app, builtAt, carried, next, graphs>> /\ phase = "check"
        /\ stage' = stage \/ (stage # 0 /\ stage' = stage - 1) \/ (stage = 0 /\ stage' = 0)
        /\ phase' \in {"check", "enforce", "rejected", "unreachable"}
    BY <1>4 DEF CheckStage
  <2>2. stage' \in 0..LastStage
    BY <2>1, StageFacts DEF AnalysisInv, GraphsInv
  <2>3. GraphsInv'
    BY <2>1, <2>2, GraphsKept DEF AnalysisInv
  <2>4. ClonesInv'
    BY <1>4, CheckStageKeeps DEF AnalysisInv
  <2>5. VariablesInv'
    BY <2>1 DEF VariablesInv
  <2> QED
    BY <2>3, <2>4, <2>5 DEF AnalysisInv
<1>5. CASE Enforce
  BY <1>5, AnalysisKept DEF Enforce
<1>6. CASE Codegen
  <2>1. /\ UNCHANGED <<app, stage, builtAt, carried, next, graphs, cloned>> /\ phase = "generate"
        /\ \/ phase' = "panicked"
           \/ /\ phase' = "generated"
              /\ \A i \in Members : \A t \in Types : graphs[i].inputs[t] <= Parameters(StageOf(i))[t]
    BY <1>6 DEF Codegen
  <2>2. GraphsInv'
    <3>1. stage' \in 0..LastStage
      BY <2>1 DEF AnalysisInv, GraphsInv
    <3> QED
      BY <2>1, <3>1, GraphsKept DEF AnalysisInv
  <2>3. ClonesInv'
    BY <2>1, ClonesKept DEF AnalysisInv
  <2>4. VariablesInv'
    BY <2>1, ParametersKept, OfTheApplication DEF VariablesInv
  <2> QED
    BY <2>2, <2>3, <2>4 DEF AnalysisInv
<1>7. CASE Receive
  BY <1>7, AnalysisKept DEF Receive
<1>8. CASE Return
  BY <1>8, AnalysisKept DEF Return
<1>9. CASE UNCHANGED compileVars
  BY <1>9, AnalysisKept DEF compileVars
<1> QED
  BY <1>1, <1>2, <1>3, <1>4, <1>5, <1>6, <1>7, <1>8, <1>9, CallsOnlyCall DEF Next, Compile, Halt, vars

-----------------------------------------------------------------------------
(* Running stage functions. *)

\* A value that is gone was taken by a member that was called, that comes before
\* all that are still to be called, and that was not given a clone.
Taken(f, t) ==
    \E j \in InStage(f.stage) \ f.left :
        /\ graphs[j].inputs[t] = Owned /\ j \notin cloned[f.stage][t]
        /\ \A i \in f.left : Before(j, i)
FrameOK(f) ==
    /\ f.left \subseteq InStage(f.stage)
    /\ \A t \in Types : Parameters(f.stage)[t] # Absent /\ f.values[t] = 0 => Taken(f, t)
Frames == [stage : Nat, left : SUBSET Members, values : [Types -> {0} \cup Comps]]
FramesInv ==
    /\ stack \in Seq(Frames)
    /\ phase = "serving" => \A n \in DOMAIN stack : FrameOK(stack[n])

\* A wrapping middleware sees what the other members of its stage see.
LEMMA SeenByTheWrap ==
    ASSUME WellFormed, NEW i \in Members, NEW w \in Members, i # w,
           StageOf(i) = StageOf(w), app.chain[w].kind = "wrap", NEW t, FromComponent(i, t)
    PROVE  FromComponent(w, t)
<1>1. i < w /\ app.chain[i].kind \in {"pre", "post"}
  BY AroundTheWrap
<1>2. 1 < i /\ i <= w
  BY <1>1, AppShape, ChainShape
<1>3. app.chain[i].scope \in Ancestors(app, app.chain[w].scope)
  BY <1>2, AppShape
<1>4. Visible(app, app.chain[w].scope, t) # {}
  BY <1>3, SeesMore, GetFinds DEF FromComponent
<1> QED
  BY <1>4, GetFinds DEF FromComponent

\* Where the graphs are combined, a member that takes a value which a later one
\* uses is in need of a clone.
LEMMA UsedLaterNeedsClone ==
    ASSUME GraphsInv, phase \in {"check", "enforce", "generate", "generated", "serving"},
           NEW j \in Members, NEW i \in Members, NEW t \in Types, TakenThenUsed(j, i, t)
    PROVE  StageOf(j) \in 0..LastStage /\ j \in NeedClone(StageOf(j), t)
<1> DEFINE k == StageOf(j)
           C == Consumers(k, t)
           B == Borrowers(k, t)
<1>1. WellFormed /\ k \in 0..LastStage /\ StageOf(i) = k
  BY StageFacts DEF GraphsInv, TakenThenUsed
<1>2. Before(j, i) /\ j # i
  BY <1>1, BeforeIsTotal DEF TakenThenUsed
<1>3. \A m \in Members : graphs[m] = Final(m) /\ graphs[m].inputs \in [Types -> Modes]
  BY FinalFacts DEF GraphsInv, Usage
<1>4. graphs[j].inputs[t] = Owned /\ graphs[i].inputs[t] \in {Shared, Owned}
  BY <1>3 DEF Modes, TakenThenUsed
<1>5. \A m \in Members : graphs[m].inputs[t] # Absent => FromComponent(m, t) \/ app.chain[m].kind = "wrap"
  BY <1>3, FinalFacts
<1>6. FromComponent(i, t)
  <2>1. CASE app.chain[i].kind = "wrap"
    <3>1. app.chain[j].kind # "wrap"
      BY <1>1, <1>2, <2>1, AroundTheWrap
    <3>2. FromComponent(j, t)
      BY <1>4, <1>5, <3>1 DEF Owned, Absent
    <3> QED
      BY <1>1, <1>2, <2>1, <3>2, SeenByTheWrap
  <2>2. CASE app.chain[i].kind # "wrap"
    BY <1>4, <1>5, <2>2 DEF Shared, Owned, Absent
  <2> QED
    BY <2>1, <2>2
<1>7. FromComponent(j, t)
  <2>1. CASE app.chain[j].kind = "wrap"
    BY <1>1, <1>2, <1>6, <2>1, SeenByTheWrap
  <2>2. CASE app.chain[j].kind # "wrap"
    BY <1>4, <1>5, <2>2 DEF Owned, Absent
  <2> QED
    BY <2>1, <2>2
<1>8. j \in C /\ (i \in C \/ i \in B)
  BY <1>1, <1>2, <1>4, <1>6, <1>7 DEF Consumers, Borrowers, InStage
<1>9. C \in SUBSET Members /\ B \in SUBSET Members
  BY DEF Consumers, Borrowers, InStage
<1> SUFFICES ASSUME j \notin NeedClone(k, t) PROVE FALSE
  BY <1>1
<1>10. j = Latest(C) /\ (B = {} \/ Before(Latest(B), Latest(C)))
  BY <1>8 DEF NeedClone
<1>11. \A m \in C : j = m \/ Before(m, j)
  <2> HIDE DEF C
  <2> QED BY <1>1, <1>8, <1>9, <1>10, LatestExists
<1>12. i \notin C
  BY <1>1, <1>2, <1>11, BeforeIsTotal
<1>13. i \in B /\ Before(Latest(B), j)
  BY <1>8, <1>10, <1>12
<1>14. Latest(B) \in Members /\ (i = Latest(B) \/ Before(i, Latest(B)))
  <2> HIDE DEF B
  <2> QED BY <1>1, <1>9, <1>13, LatestExists
<1> HIDE DEF B, C, k
<1> QED
  BY <1>1, <1>2, <1>13, <1>14, BeforeIsTotal

\* What passed the comparison has no conflict.
LEMMA NoConflictLeft ==
    ASSUME AnalysisInv, ConflictInv, phase \in {"enforce", "generate", "generated", "serving"}
    PROVE  ~Conflict
<1> SUFFICES ASSUME NEW i \in Members, NEW j \in Members, NEW t \in Types,
                    TakenThenUsed(i, j, t), MayNotBeCloned(i, t)
             PROVE  FALSE
  BY DEF Conflict
<1>1. StageOf(i) \in 0..LastStage /\ i \in NeedClone(StageOf(i), t)
  BY UsedLaterNeedsClone DEF AnalysisInv
<1>2. StageOf(i) \in DOMAIN cloned /\ i \in cloned[StageOf(i)][t]
  BY <1>1 DEF AnalysisInv, ClonesInv
<1> QED
  BY <1>2 DEF ConflictInv, ClonedOnlyIfUsedLater

LEMMA AnsweredStep ==
    ASSUME AnalysisInv, ConflictInv, phase = "answered" => ~Conflict, [Next]_vars, phase' = "answered"
    PROVE  ~Conflict'
<1>1. app' = app /\ graphs' = graphs /\ phase \in {"serving", "answered"}
  BY CallsOnlyCall DEF Next, Compile, Count, Combine, RejectGraph, CheckStage, Enforce, Codegen, Receive,
     Return, Serving, Halt, vars, compileVars
<1>2. ~Conflict
  BY <1>1, NoConflictLeft
<1>3. \A i, j, t : (TakenThenUsed(i, j, t))' <=> TakenThenUsed(i, j, t)
  BY <1>1, OfTheApplication DEF TakenThenUsed
<1> QED
  BY <1>1, <1>2, <1>3, OfTheApplication DEF Conflict

\* The comparison of the members of a stage rejects an application only if a
\* value that may not be cloned is taken by one and used by a later one, and
\* lets none pass of which that is true.
THEOREM GivesUpForAReason == Spec => []RejectedForAConflict
<1> DEFINE I == AnalysisInv /\ ConflictInv /\ (phase = "answered" => ~Conflict)
<1>1. Init => I
  BY GraphsInit, ConflictInit DEF AnalysisInv, Init, CompileInit
<1>2. I /\ [Next]_vars => I'
  BY AnalysisStep, ConflictStep, AnsweredStep
<1>3. I => RejectedForAConflict
  BY NoConflictLeft DEF RejectedForAConflict, ConflictInv, StoppedByAConflict
<1> HIDE DEF I
<1> QED
  BY <1>1, <1>2, <1>3, PTL DEF Spec

\* The heart of the matter: the member whose turn it is finds what it takes.
LEMMA UseIsSafe ==
    ASSUME AnalysisInv, phase = "serving", NEW f, FrameOK(f), NEW i \in f.left,
           \A j \in f.left : i = j \/ Before(i, j),
           NEW t \in Types, graphs[i].inputs[t] # Absent
    PROVE  f.values[t] # 0
<1> SUFFICES ASSUME f.values[t] = 0
             PROVE  FALSE
  OBVIOUS
<1> DEFINE k == f.stage
<1>1. WellFormed /\ GraphsInv
  BY DEF AnalysisInv, GraphsInv
<1>2. i \in Members /\ StageOf(i) = k /\ k \in 0..LastStage
  BY <1>1, StageFacts DEF FrameOK, InStage
<1>3. graphs[i] = Final(i) /\ graphs[i].inputs \in [Types -> Modes]
  BY <1>1, <1>2, FinalFacts DEF GraphsInv, Usage
<1>4. graphs[i].inputs[t] \in {Shared, Owned}
  BY <1>3 DEF Modes
<1>5. Parameters(k)[t] # Absent
  <2>1. graphs[i].inputs[t] <= Parameters(k)[t]
    BY <1>2 DEF AnalysisInv, VariablesInv
  <2> QED
    BY <1>4, <2>1 DEF Shared, Owned, Absent
<1>6. PICK j \in InStage(k) \ f.left : /\ graphs[j].inputs[t] = Owned /\ j \notin cloned[k][t]
                                      /\ Before(j, i)
  BY <1>5 DEF FrameOK, Taken
<1>7. j \in Members /\ TakenThenUsed(j, i, t) /\ StageOf(j) = k
  BY <1>2, <1>6 DEF InStage, TakenThenUsed
<1>8. j \in NeedClone(k, t)
  BY <1>1, <1>2, <1>7, UsedLaterNeedsClone
<1> QED
  BY <1>2, <1>6, <1>8 DEF AnalysisInv, ClonesInv

LEMMA FrameOKKept ==
    ASSUME app' = app, graphs' = graphs, next' = next, cloned' = cloned
    PROVE  Frames' = Frames /\ \A f : FrameOK(f)' <=> FrameOK(f)
<1>1. \A f, t : Taken(f, t)' <=> Taken(f, t)
  BY OfTheApplication DEF Taken
<1> QED
  BY <1>1, OfTheApplication, ParametersKept DEF FrameOK, Frames

\* A stage function starts with a value for each of its parameters.
LEMMA FrameStart ==
    ASSUME NEW k \in Nat, NEW values \in [Types -> {0} \cup Comps],
           \A t \in Types : Parameters(k)[t] # Absent => values[t] # 0
    PROVE  Frame(k, values) \in Frames /\ FrameOK(Frame(k, values))
BY DEF Frame, Frames, FrameOK, InStage

\* A call leaves it with what the member did not take.
LEMMA FrameAfter ==
    ASSUME NEW f \in Frames, FrameOK(f), NEW i \in f.left, \A j \in f.left : i = j \/ Before(i, j),
           NEW left \in SUBSET (f.left \ {i}), NEW values,
           values = [t \in Types |-> IF graphs[i].inputs[t] = Owned /\ i \notin cloned[f.stage][t]
                                     THEN 0 ELSE f.values[t]]
    PROVE  LET g == [stage |-> f.stage, left |-> left, values |-> values]
           IN g \in Frames /\ FrameOK(g)
<1> DEFINE g == [stage |-> f.stage, left |-> left, values |-> values]
<1>1. f.stage \in Nat /\ f.left \in SUBSET Members /\ f.values \in [Types -> {0} \cup Comps]
  BY DEF Frames
<1>2. values \in [Types -> {0} \cup Comps]
  BY <1>1
<1>3. g \in Frames
  BY <1>1, <1>2 DEF Frames
<1>4. g.left \subseteq InStage(g.stage) /\ i \in InStage(g.stage)
  BY DEF FrameOK
<1>5. ASSUME NEW t \in Types, Parameters(g.stage)[t] # Absent, g.values[t] = 0
      PROVE  Taken(g, t)
  <2>1. CASE graphs[i].inputs[t] = Owned /\ i \notin cloned[f.stage][t]
    BY <1>4, <2>1 DEF Taken
  <2>2. CASE ~(graphs[i].inputs[t] = Owned /\ i \notin cloned[f.stage][t])
    <3>1. f.values[t] = 0
      BY <1>5, <2>2
    <3>2. Taken(f, t)
      BY <1>5, <3>1 DEF FrameOK
    <3> QED
      BY <3>2 DEF Taken
  <2> QED
    BY <2>1, <2>2
<1> QED
  BY <1>3, <1>4, <1>5 DEF FrameOK

LEMMA TurnIsEarliest ==
    ASSUME AnalysisInv, FramesInv, Serving, Top.left # {}
    PROVE  /\ Top \in Frames /\ FrameOK(Top) /\ Len(stack) \in DOMAIN stack
           /\ Turn \in Top.left /\ \A j \in Top.left : Turn = j \/ Before(Turn, j)
<1>1. Len(stack) \in DOMAIN stack /\ Top \in Frames /\ FrameOK(Top)
  BY DEF FramesInv, Serving, Top
<1>2. Top.left \in SUBSET Members
  BY <1>1 DEF Frames
<1>3. \E i \in Top.left : \A j \in Top.left : i = j \/ Before(i, j)
  BY <1>2, EarliestExists DEF AnalysisInv, GraphsInv
<1> QED
  BY <1>1, <1>3 DEF Turn

\* The stack after a call of member i, its frame first.
LEMMA CalledKeeps ==
    ASSUME AnalysisInv, FramesInv, NEW i, Calling(i), NEW left \in SUBSET (Top.left \ {i})
    PROVE  Called(i, left) \in Seq(Frames) /\ \A n \in DOMAIN Called(i, left) : FrameOK(Called(i, left)[n])
<1> DEFINE g == [stage |-> Top.stage, left |-> left, values |-> ValuesAfter(i)]
           m == Len(stack)
<1>1. /\ Top \in Frames /\ FrameOK(Top) /\ m \in DOMAIN stack
      /\ i \in Top.left /\ \A j \in Top.left : i = j \/ Before(i, j)
  BY TurnIsEarliest DEF Calling
<1>2. g \in Frames /\ FrameOK(g)
  BY <1>1, FrameAfter DEF ValuesAfter
<1>3. Called(i, left) = [stack EXCEPT ![m] = g]
  BY DEF Called
<1> HIDE DEF g
<1>5. stack \in Seq(Frames) /\ \A n \in DOMAIN stack : FrameOK(stack[n])
  BY DEF FramesInv, Calling, Serving
<1>6. [stack EXCEPT ![m] = g] \in Seq(Frames)
  BY <1>1, <1>2, <1>5
<1>7. \A n \in DOMAIN [stack EXCEPT ![m] = g] : FrameOK([stack EXCEPT ![m] = g][n])
  BY <1>1, <1>2, <1>5
<1> QED
  BY <1>3, <1>6, <1>7

LEMMA ReceiveStarts ==
    ASSUME AnalysisInv, Receive
    PROVE  FramesInv'
<1> DEFINE values == [t \in Types |-> IF Parameters(0)[t] = Absent THEN 0 ELSE Get(app.chain[1].scope, t)]
<1>1. WellFormed /\ GraphsInv /\ phase = "generated"
  BY DEF AnalysisInv, GraphsInv, Receive
<1>2. UNCHANGED <<app, graphs, next, cloned>> /\ stack' = <<Frame(0, values)>>
  BY DEF Receive
<1>3. values \in [Types -> {0} \cup Comps]
  BY <1>1, GetFinds
<1>4. ASSUME NEW t \in Types, Parameters(0)[t] # Absent
      PROVE  values[t] # 0
  <2>1. 1 \in Members /\ app.chain[1].scope = app.chain[Len(app.chain)].scope
    BY <1>1, StageFacts, AppShape
  <2>2. Final(1).inputs[t] # Absent
    BY <1>1, <1>4, <2>1 DEF GraphsInv, Parameters
  <2>3. Seen(t)
    BY <1>1, <2>1, <2>2, FinalFacts DEF AllSeen
  <2> QED
    BY <1>4, <2>1, <2>3 DEF Seen
<1> HIDE DEF values
<1>5. Frame(0, values) \in Frames /\ FrameOK(Frame(0, values))
  BY <1>3, <1>4, FrameStart
<1>6. stack' \in Seq(Frames) /\ \A n \in DOMAIN stack' : FrameOK(stack'[n])
  <2> DEFINE f == Frame(0, values)
  <2> HIDE DEF f
  <2>1. f \in Frames /\ FrameOK(f) /\ stack' = <<f>>
    BY <1>2, <1>5 DEF f
  <2> QED
    BY <2>1
<1> QED
  BY <1>2, <1>6, FrameOKKept DEF FramesInv

LEMMA CallNextStarts ==
    ASSUME AnalysisInv, FramesInv, NEW i, CallNext(i)
    PROVE  FramesInv'
<1> DEFINE k == Top.stage
           fields == [t \in Types |-> IF next[k][t] = Absent THEN 0 ELSE ValueIn(i, t)]
           below == Called(i, Top.left \ {i})
<1>1. /\ Calling(i) /\ app.chain[i].kind = "wrap"
      /\ stack' = Append(below, Frame(k + 1, fields))
      /\ UNCHANGED <<app, graphs, next, cloned>> /\ phase = "serving"
  BY DEF CallNext, compileVars, Calling, Serving
<1>2. WellFormed /\ GraphsInv
  BY DEF AnalysisInv, GraphsInv
<1>3. /\ Top \in Frames /\ FrameOK(Top)
      /\ i \in Top.left /\ \A j \in Top.left : i = j \/ Before(i, j)
  BY <1>1, TurnIsEarliest DEF Calling
<1>4. i \in Members /\ StageOf(i) = k /\ k \in Nat /\ Top.values \in [Types -> {0} \cup Comps]
  BY <1>3 DEF Frames, FrameOK, InStage
<1>5. k # LastStage
  <2>1. i # Len(app.chain) /\ i < Len(app.chain) /\ Len(app.chain) \in Members
    BY <1>1, <1>2, <1>4, AppShape, ChainShape, StageFacts
  <2>2. StageOf(i) < LastStage
    BY <1>1, <1>2, <1>4, <2>1, StageFacts DEF IsMiddle, LastStage
  <2> QED
    BY <1>2, <1>4, <2>2, StageFacts
<1>6. ASSUME NEW t \in Types, next[k][t] # Absent
      PROVE  ValueIn(i, t) # 0
  <2>1. Fields(i)[t] # Absent
    BY <1>4, <1>5, <1>6 DEF Fields
  <2>2. graphs[i] = Final(i) /\ 0 \notin graphs[i].computes
    BY <1>1, <1>2, <1>4, FinalFacts DEF GraphsInv
  <2>3. Get(app.chain[i].scope, t) \in graphs[i].computes \/ graphs[i].inputs[t] # Absent
    BY <1>1, <1>2, <1>4, <2>1, <2>2, FinalFacts
  <2>4. graphs[i].inputs[t] # Absent => Top.values[t] # 0
    BY <1>1, <1>3, UseIsSafe
  <2> QED
    BY <2>2, <2>3, <2>4 DEF ValueIn
<1>7. fields \in [Types -> {0} \cup Comps]
  BY <1>2, <1>4, GetFinds DEF ValueIn
<1>8. Parameters(k + 1) = next[k]
  BY <1>4 DEF Parameters
<1>9. \A t \in Types : Parameters(k + 1)[t] # Absent => fields[t] # 0
  BY <1>6, <1>8
<1> DEFINE g == Frame(k + 1, fields)
<1> HIDE DEF fields
<1>10. g \in Frames /\ FrameOK(g)
  BY <1>4, <1>7, <1>9, FrameStart
<1>11. below \in Seq(Frames) /\ \A n \in DOMAIN below : FrameOK(below[n])
  BY <1>1, <1>3, CalledKeeps
<1> HIDE DEF below, g
<1>12. Append(below, g) \in Seq(Frames) /\ \A n \in DOMAIN Append(below, g) : FrameOK(Append(below, g)[n])
  BY <1>10, <1>11
<1>13. stack' = Append(below, g)
  BY <1>1 DEF g
<1> QED
  BY <1>1, <1>12, <1>13, FrameOKKept DEF FramesInv

LEMMA FramesStep == AnalysisInv /\ FramesInv /\ [Next]_vars => FramesInv'
<1> SUFFICES ASSUME AnalysisInv, FramesInv, [Next]_vars
             PROVE  FramesInv'
  OBVIOUS
<1>1. CASE Compile /\ UNCHANGED <<stack, trail>>
  <2>1. app' = app /\ phase' # "serving" /\ stack' = stack
    BY <1>1 DEF Compile, Count, Combine, RejectGraph, CheckStage, Enforce, Codegen
  <2> QED
    BY <2>1, OfTheApplication DEF FramesInv, Frames
<1>2. CASE Receive
  BY <1>2, ReceiveStarts
<1>3. CASE UNCHANGED vars
  BY <1>3, FrameOKKept DEF FramesInv, vars, compileVars
<1>4. ASSUME NEW i \in Members, Call(i), ~CallNext(i)
      PROVE  FramesInv'
  <2>1. Calling(i) /\ UNCHANGED <<app, graphs, next, cloned, phase>>
    BY <1>4 DEF Call, Continue, EarlyReturn, Handle, SkipNext, PostProcess, compileVars
  <2>2. PICK left \in SUBSET (Top.left \ {i}) : stack' = Called(i, left)
    <3>1. app.chain[i].kind # "post" => Posts \in SUBSET (Top.left \ {i})
      BY DEF Posts
    <3>2. \/ stack' = Called(i, Top.left \ {i})
          \/ app.chain[i].kind # "post" /\ stack' = Called(i, Posts)
      BY <1>4 DEF Call, Continue, EarlyReturn, Handle, SkipNext, PostProcess
    <3> QED
      BY <3>1, <3>2
  <2>3. stack' \in Seq(Frames) /\ \A n \in DOMAIN stack' : FrameOK(stack'[n])
    BY <2>1, <2>2, CalledKeeps
  <2> QED
    BY <2>1, <2>3, FrameOKKept DEF FramesInv
<1>5. CASE Return
  <2>1. /\ UNCHANGED <<app, graphs, next, cloned>> /\ phase = "serving"
        /\ stack' = SubSeq(stack, 1, Len(stack) - 1) /\ stack # << >>
    BY <1>5 DEF Return, Serving
  <2>2. stack' \in Seq(Frames) /\ \A n \in DOMAIN stack' : FrameOK(stack'[n])
    BY <2>1 DEF FramesInv
  <2> QED
    BY <2>1, <2>2, FrameOKKept DEF FramesInv
<1> QED
  BY <1>1, <1>2, <1>3, <1>4, <1>5, CallNextStarts DEF Next, Halt

LEMMA SafeAlways == Spec => [](AnalysisInv /\ FramesInv)
<1>1. Init => AnalysisInv /\ FramesInv
  <2>1. Init => AnalysisInv
    BY GraphsInit DEF AnalysisInv
  <2>2. Init => FramesInv
    BY DEF Init, CompileInit, FramesInv
  <2> QED
    BY <2>1, <2>2
<1>2. AnalysisInv /\ FramesInv /\ [Next]_vars => (AnalysisInv /\ FramesInv)'
  BY AnalysisStep, FramesStep
<1> QED
  BY <1>1, <1>2, PTL DEF Spec

\* The generated code uses no value after it was moved, for every application
\* the compiler accepts, and whichever members answer early.
THEOREM NothingUsedAfterMove == Spec => []NoUseAfterMove
<1>1. AnalysisInv /\ FramesInv => NoUseAfterMove
  <2> SUFFICES ASSUME AnalysisInv, FramesInv, Serving, Top.left # {},
                      NEW t \in Types, graphs[Turn].inputs[t] # Absent
               PROVE  Top.values[t] # 0
    BY DEF NoUseAfterMove
  <2> QED
    BY TurnIsEarliest, UseIsSafe DEF Serving
<1> QED
  BY <1>1, SafeAlways, PTL

-----------------------------------------------------------------------------
(* What Next carries. *)

\* Member i, or a component its graph computes, takes type t that way.
Wants(i, t, mode) ==
    /\ graphs[i].inputs[t] # Absent
    /\ mode \in {app.chain[i].takes[t]} \cup {app.comps[c].takes[t] : c \in graphs[i].computes}
WantedAfter(k, t, mode) == \E i \in Members : StageOf(i) > k /\ Wants(i, t, mode)
\* While the graphs are combined, what is passed down is wanted further down.
MinimalInv ==
    /\ phase = "count" =>
          \A t \in Types : carried[t] = Absent /\ \A k \in DOMAIN next : next[k][t] = Absent
    /\ phase = "combine" =>
          \A t \in Types :
              /\ carried[t] # Absent => WantedAfter(stage, t, carried[t])
              /\ \A k \in DOMAIN next :
                    next[k][t] # Absent => k >= stage /\ WantedAfter(k, t, next[k][t])
    /\ phase \in {"check", "enforce", "generate", "generated", "serving", "answered"} =>
          \A k \in DOMAIN next : \A t \in Types : next[k][t] # Absent => WantedAfter(k, t, next[k][t])

\* What the combined graph of a member takes is wanted by it or further down.
LEMMA BoundIsWanted ==
    ASSUME GraphsInv, MinimalInv, phase = "combine", NEW i \in InStage(stage), NEW t \in Types,
           Bound(i).inputs[t] # Absent
    PROVE  \/ Bound(i).inputs[t] \in {app.chain[i].takes[t]} \cup {app.comps[c].takes[t] : c \in Bound(i).computes}
           \/ WantedAfter(stage, t, Bound(i).inputs[t])
<1> DEFINE s == app.chain[i].scope
           takes == Takes(i, Fields(i))
           pre == PrebuiltFor(StageOf(i))
<1>1. i \in Members /\ StageOf(i) = stage /\ WellFormed
  BY DEF InStage, GraphsInv
<1>2. takes \in [Types -> Modes] /\ Fields(i) \in [Types -> Modes]
  BY <1>1, FieldsTyped DEF Usage
<1>3. Bound(i) = GraphOf(s, takes, pre)
  BY <1>1 DEF Bound, Fields
<1> HIDE DEF pre, takes
<1>4. Bound(i).inputs[t] = takes[t] \/ \E c \in Bound(i).computes : Bound(i).inputs[t] = app.comps[c].takes[t]
  <2> DEFINE g == GraphOf(s, takes, pre)
  <2> HIDE DEF s
  <2>1. \A u \in Types : g.inputs[u] # Absent =>
            g.inputs[u] = takes[u] \/ \E c \in g.computes : g.inputs[u] = app.comps[c].takes[u]
    BY <1>1, <1>2, GraphFacts
  <2> QED
    BY <1>1, <1>3, <2>1
<1>5. CASE Bound(i).inputs[t] = takes[t] /\ takes[t] # app.chain[i].takes[t]
  <2>1. takes[t] = Fields(i)[t]
    <3>1. app.chain[i].kind = "wrap" /\ takes = Merged({app.chain[i].takes, Fields(i)})
      BY <1>5 DEF Takes, takes
    <3> DEFINE F == {app.chain[i].takes, Fields(i)}
    <3>2. \A f \in F : f \in [Types -> Modes]
      BY <1>1, <1>2, AppShape
    <3> HIDE DEF F
    <3>3. \E f \in F : f[t] = takes[t]
      BY <1>5, <3>1, <3>2, MergedIsLeast DEF F
    <3> QED
      BY <1>5, <3>3 DEF F
  <2>2. StageOf(i) # LastStage /\ Fields(i) = next[stage]
    BY <1>1, <1>5, <2>1 DEF Fields, Nothing
  <2>3. stage \in DOMAIN next
    BY <1>1, <2>2, StageFacts DEF GraphsInv
  <2> QED
    BY <1>5, <2>1, <2>2, <2>3 DEF MinimalInv
<1> QED
  BY <1>4, <1>5

LEMMA MinimalCombine ==
    ASSUME GraphsInv, MinimalInv, Combine
    PROVE  MinimalInv'
<1> PICK k : k = stage
  OBVIOUS
<1> PICK need : need = Needed
  OBVIOUS
<1>1. /\ app' = app /\ phase = "combine"
      /\ graphs' = [i \in Members |-> IF StageOf(i) = k THEN Bound(i) ELSE graphs[i]]
      /\ carried' = IF k = 0 THEN need ELSE Kept(need)
      /\ next' = IF k = 0 THEN next ELSE [next EXCEPT ![k - 1] = need]
      /\ \/ phase' = "panicked" /\ stage' = k
         \/ phase' = "check" /\ k = 0 /\ stage' = LastStage
         \/ phase' = "combine" /\ k # 0 /\ stage' = k - 1
  BY DEF Combine
<1>2. WellFormed /\ k \in 0..LastStage /\ LastStage \in Nat /\ DOMAIN next = 0..(LastStage - 1)
      /\ carried \in [Types -> Modes]
  BY StageFacts DEF GraphsInv, Usage
<1>3. ASSUME NEW l \in Nat, NEW m \in Nat, m <= l, l >= k, NEW t \in Types, NEW mode, WantedAfter(l, t, mode)
      PROVE  WantedAfter(m, t, mode)'
  <2>1. PICK i \in Members : StageOf(i) > l /\ Wants(i, t, mode)
    BY <1>3 DEF WantedAfter
  <2>2. graphs'[i] = graphs[i] /\ StageOf(i) > m
    BY <1>1, <1>2, <1>3, <2>1, StageFacts
  <2>3. Wants(i, t, mode)'
    BY <1>1, <2>1, <2>2 DEF Wants
  <2> QED
    BY <1>1, <2>1, <2>2, <2>3, OfTheApplication DEF WantedAfter
<1>4. ASSUME NEW t \in Types, need[t] # Absent, k # 0
      PROVE  WantedAfter(k - 1, t, need[t])'
  <2> DEFINE F == {carried} \cup {Bound(i).inputs : i \in InStage(k)}
  <2>1. \A i \in InStage(k) : Bound(i).inputs \in [Types -> Modes]
    BY NeededFacts, FinalFacts DEF InStage, Usage
  <2>2. \A f \in F : f \in [Types -> Modes]
    BY <1>2, <2>1
  <2>3. PICK f \in F : f[t] = need[t]
    <3>1. need = Merged(F)
      BY DEF Needed
    <3> HIDE DEF F
    <3> QED
      BY <1>4, <2>2, <3>1, MergedIsLeast
  <2>4. k \in Nat /\ k - 1 \in Nat /\ k - 1 <= k
    BY <1>2, <1>4
  <2>5. WantedAfter(k, t, need[t]) => WantedAfter(k - 1, t, need[t])'
    BY <1>3, <2>4
  <2>6. CASE f = carried
    BY <1>1, <1>4, <2>3, <2>5, <2>6 DEF MinimalInv
  <2>7. CASE f # carried
    <3>1. PICK i \in InStage(k) : f = Bound(i).inputs
      BY <2>7
    <3>2. \/ need[t] \in {app.chain[i].takes[t]} \cup {app.comps[c].takes[t] : c \in Bound(i).computes}
          \/ WantedAfter(k, t, need[t])
      BY <1>1, <1>4, <2>3, <3>1, BoundIsWanted
    <3>3. CASE need[t] \in {app.chain[i].takes[t]} \cup {app.comps[c].takes[t] : c \in Bound(i).computes}
      <4>1. i \in Members /\ StageOf(i) = k
        BY DEF InStage
      <4>2. graphs'[i] = Bound(i)
        BY <1>1, <4>1
      <4>3. Wants(i, t, need[t])'
        BY <1>1, <1>4, <2>3, <3>1, <3>3, <4>2 DEF Wants
      <4>4. StageOf(i) > k - 1
        BY <2>4, <4>1
      <4> QED
        BY <1>1, <4>1, <4>3, <4>4, OfTheApplication DEF WantedAfter
    <3> QED
      BY <2>5, <3>2, <3>3
  <2> QED
    BY <2>6, <2>7
<1>5. ASSUME NEW l \in DOMAIN next', NEW t \in Types, NEW mode, mode = next'[l][t], mode # Absent
      PROVE  l \in Nat /\ (k # 0 => l >= k - 1) /\ WantedAfter(l, t, mode)'
  <2>1. DOMAIN next' = 0..(LastStage - 1) /\ l \in Nat /\ k \in Nat
    BY <1>1, <1>2
  <2>2. CASE k # 0 /\ l = k - 1
    <3>1. mode = need[t]
      BY <1>1, <1>2, <1>5, <2>1, <2>2
    <3> QED
      BY <1>4, <1>5, <2>1, <2>2, <3>1
  <2>3. CASE ~(k # 0 /\ l = k - 1)
    <3>1. next'[l] = next[l] /\ l \in DOMAIN next
      BY <1>1, <1>2, <2>1, <2>3
    <3>2. l >= k /\ WantedAfter(l, t, mode)
      BY <1>1, <1>5, <3>1 DEF MinimalInv
    <3>3. WantedAfter(l, t, mode)'
      BY <1>3, <2>1, <3>2
    <3> QED
      BY <2>1, <3>2, <3>3
  <2> QED
    BY <2>2, <2>3
<1>6. ASSUME NEW t \in Types, k # 0, NEW mode, mode = carried'[t], mode # Absent
      PROVE  WantedAfter(k - 1, t, mode)'
  <2>1. mode = need[t]
    BY <1>1, <1>6 DEF Kept
  <2> QED
    BY <1>4, <1>6, <2>1
<1>7. (\A t \in Types : \A l \in DOMAIN next : next[l][t] # Absent => WantedAfter(l, t, next[l][t]))'
  BY <1>1, <1>5, OfTheApplication
<1>8. ASSUME phase' = "combine"
      PROVE  (\A t \in Types :
                 /\ carried[t] # Absent => WantedAfter(stage, t, carried[t])
                 /\ \A l \in DOMAIN next :
                       next[l][t] # Absent => l >= stage /\ WantedAfter(l, t, next[l][t]))'
  <2>1. k # 0 /\ stage' = k - 1
    BY <1>1, <1>8
  <2> QED
    BY <1>1, <1>5, <1>6, <2>1, OfTheApplication
<1> QED
  BY <1>1, <1>7, <1>8 DEF MinimalInv

LEMMA WantedKept ==
    ASSUME app' = app, graphs' = graphs
    PROVE  \A k, t, mode : WantedAfter(k, t, mode)' <=> WantedAfter(k, t, mode)
BY OfTheApplication DEF WantedAfter, Wants

LEMMA MinimalKept ==
    ASSUME MinimalInv, app' = app, graphs' = graphs, next' = next, carried' = carried,
           phase' \in {"count", "combine"} => phase' = phase /\ stage' = stage,
           phase' \in {"check", "enforce", "generate", "generated", "serving", "answered"} =>
               phase \in {"check", "enforce", "generate", "generated", "serving", "answered"}
    PROVE  MinimalInv'
BY WantedKept, OfTheApplication DEF MinimalInv

LEMMA MinimalStep == AnalysisInv /\ MinimalInv /\ [Next]_vars => MinimalInv'
<1> SUFFICES ASSUME AnalysisInv, MinimalInv, [Next]_vars
             PROVE  MinimalInv'
  OBVIOUS
<1>1. CASE Count
  <2>1. app' = app /\ phase = "count" /\ phase' = "combine" /\ UNCHANGED <<carried, next>>
    BY <1>1 DEF Count
  <2> QED
    BY <2>1, OfTheApplication DEF MinimalInv
<1>2. CASE Combine
  BY <1>2, MinimalCombine DEF AnalysisInv
<1>3. CASE RejectGraph
  BY <1>3, MinimalKept DEF RejectGraph
<1>4. CASE CheckStage
  <2>1. /\ UNCHANGED <<app, carried, next, graphs>> /\ phase = "check"
        /\ phase' \in {"check", "enforce", "rejected", "unreachable"}
    BY <1>4 DEF CheckStage
  <2> QED
    BY <2>1, MinimalKept
<1>5. CASE Enforce
  BY <1>5, MinimalKept DEF Enforce
<1>6. CASE Codegen
  BY <1>6, MinimalKept DEF Codegen
<1>7. CASE Receive
  BY <1>7, MinimalKept DEF Receive
<1>8. CASE Return
  BY <1>8, MinimalKept DEF Return, Serving
<1>9. CASE UNCHANGED compileVars
  BY <1>9, MinimalKept DEF compileVars
<1> QED
  BY <1>1, <1>2, <1>3, <1>4, <1>5, <1>6, <1>7, <1>8, <1>9, CallsOnlyCall DEF Next, Compile, Halt, vars

\* Next carries what a member further down takes and nothing else, and a value
\* only if one takes it by value.
THEOREM NextCarriesTheMinimum == Spec => []NextIsMinimal
<1>1. Init => MinimalInv
  BY DEF Init, CompileInit, MinimalInv, Nothing
<1>2. MinimalInv => NextIsMinimal
  BY DEF MinimalInv, NextIsMinimal, WantedAfter, Wants
<1>3. AnalysisInv /\ MinimalInv /\ [Next]_vars => MinimalInv'
  BY MinimalStep
<1> QED
  BY <1>1, <1>2, <1>3, SafeAlways, PTL DEF Spec

-----------------------------------------------------------------------------
(* Types.  That of the trail needs the order in which members run, see     *)
(* DocumentedOrder_proof.                                                  *)

Graph == [computes : SUBSET Comps, inputs : [Types -> Modes]]

\* What TypeOK needs beside AnalysisInv and FramesInv.
TypeInv ==
    /\ phase \in {"count", "combine", "check", "enforce", "generate", "generated", "serving",
                  "invalid", "rejected", "unreachable", "panicked", "answered"}
    /\ DOMAIN builtAt \subseteq Comps /\ \A c \in DOMAIN builtAt : builtAt[c] \in 0..LastStage
    /\ graphs \in [Members -> Graph]
    /\ cloned \in [0..LastStage -> [Types -> SUBSET Members]]
    /\ \A n \in DOMAIN stack : stack[n].stage \in 0..LastStage

LEMMA TypeInit == Init => TypeInv
<1> SUFFICES ASSUME Init
             PROVE  TypeInv
  OBVIOUS
<1>1. Nothing \in [Types -> Modes]
  BY DEF Nothing, Modes
<1>2. graphs \in [Members -> Graph]
  BY <1>1 DEF Init, CompileInit, Graph
<1>3. DOMAIN builtAt = {} /\ stack = << >> /\ phase = "count"
      /\ cloned = [k \in 0..LastStage |-> [t \in Types |-> {}]]
  BY DEF Init, CompileInit
<1>4. cloned \in [0..LastStage -> [Types -> SUBSET Members]]
  BY <1>3
<1> QED
  BY <1>2, <1>3, <1>4 DEF TypeInv

\* Only a wrapping middleware, and the first member is one, can build for its
\* own stage; the others build in a stage that exists.
LEMMA BuildInTyped ==
    ASSUME WellFormed, NEW i \in Members
    PROVE  BuildIn(i) \in 0..LastStage
<1>1. StageOf(i) \in 0..LastStage /\ LastStage \in Nat
  BY StageFacts
<1>2. CASE app.chain[i].kind = "wrap"
  BY <1>1, <1>2 DEF BuildIn
<1>3. CASE app.chain[i].kind # "wrap"
  <2>1. 1 \in Members /\ 1 < i /\ IsMiddle(1) /\ StageOf(1) = 0
    BY <1>3, AppShape, ChainShape, StageFacts DEF IsMiddle
  <2>2. StageOf(i) > 0
    BY <2>1, StageFacts
  <2> QED
    BY <1>1, <1>3, <2>2 DEF BuildIn
<1> QED
  BY <1>2, <1>3

LEMMA CountTypes ==
    ASSUME WellFormed, Count
    PROVE  DOMAIN builtAt' \subseteq Comps /\ \A c \in DOMAIN builtAt' : builtAt'[c] \in 0..LastStage
<1> DEFINE Common == {d \in RequestScoped(Comps) : Cardinality(UsersOf(d)) > 1}
           Builds(c) == {BuildIn(i) : i \in UsersOf(c)}
<1>1. builtAt' = [c \in Common |-> Min(Builds(c))] /\ Common \subseteq Comps
  BY DEF Count, RequestScoped
<1>2. \A i \in Members : BuildIn(i) \in 0..LastStage
  BY BuildInTyped
<1>3. ASSUME NEW c \in Common
      PROVE  Min(Builds(c)) \in 0..LastStage
  <2>1. Cardinality(UsersOf(c)) > 1 /\ UsersOf(c) \subseteq Members
    BY DEF UsersOf
  <2>2. UsersOf(c) # {}
    BY <2>1, FS_EmptySet
  <2>3. Builds(c) \in SUBSET (0..LastStage) /\ Builds(c) \in SUBSET Nat /\ Builds(c) # {}
    BY <1>2, <2>1, <2>2
  <2> HIDE DEF Builds
  <2>4. \E m \in Builds(c) : \A n \in Builds(c) : m <= n
    BY <2>3, LeastExists
  <2> QED
    BY <2>3, <2>4 DEF Min
<1> QED
  BY <1>1, <1>3

\* A call of a member and its frame.
LEMMA CallTypes ==
    ASSUME AnalysisInv, FramesInv, TypeInv, NEW i \in Members, Call(i)
    PROVE  TypeInv'
<1>1. /\ Calling(i) /\ UNCHANGED compileVars
      /\ \/ \E left : stack' = Called(i, left)
         \/ /\ app.chain[i].kind = "wrap"
            /\ \E left, values : stack' = Append(Called(i, left), Frame(Top.stage + 1, values))
  BY Zenon DEF Call, Continue, EarlyReturn, Handle, CallNext, SkipNext, PostProcess
<1>2. /\ Top \in Frames /\ FrameOK(Top) /\ Len(stack) \in DOMAIN stack
      /\ i \in Top.left /\ stack \in Seq(Frames) /\ WellFormed
  BY <1>1, TurnIsEarliest DEF Calling, FramesInv, AnalysisInv, GraphsInv
<1>4. StageOf(i) = Top.stage /\ Top.stage \in 0..LastStage
  BY <1>2 DEF FrameOK, InStage, TypeInv, Top
<1>5. ASSUME NEW left
      PROVE  /\ Len(Called(i, left)) = Len(stack) /\ DOMAIN Called(i, left) = 1..Len(stack)
             /\ \A n \in DOMAIN Called(i, left) : Called(i, left)[n].stage \in 0..LastStage
  <2> DEFINE f == [stage |-> Top.stage, left |-> left, values |-> ValuesAfter(i)]
  <2>1. Called(i, left) = [stack EXCEPT ![Len(stack)] = f] /\ f.stage = Top.stage
    BY DEF Called
  <2> HIDE DEF f
  <2> QED
    BY <1>2, <1>4, <2>1 DEF TypeInv
<1>6. CASE \E left : stack' = Called(i, left)
  BY <1>1, <1>5, <1>6, OfTheApplication DEF TypeInv, compileVars, Graph
<1>7. CASE app.chain[i].kind = "wrap" /\ \E left, values : stack' = Append(Called(i, left), Frame(Top.stage + 1, values))
  <2>1. StageOf(i) < LastStage
    <3>1. i # Len(app.chain) /\ i < Len(app.chain) /\ Len(app.chain) \in Members
      BY <1>2, <1>7, AppShape, ChainShape, StageFacts
    <3> QED
      BY <1>2, <1>7, <3>1, StageFacts DEF IsMiddle, LastStage
  <2>2. Top.stage + 1 \in 0..LastStage
    BY <1>2, <1>4, <2>1, StageFacts
  <2>3. PICK left, values : stack' = Append(Called(i, left), Frame(Top.stage + 1, values))
    BY <1>7
  <2> DEFINE below == Called(i, left)
             f == Frame(Top.stage + 1, values)
  <2>4. f.stage \in 0..LastStage /\ stack' = Append(below, f)
    BY <2>2, <2>3 DEF Frame
  <2>5. DOMAIN below = 1..Len(stack) /\ Len(below) = Len(stack) /\ \A n \in DOMAIN below : below[n].stage \in 0..LastStage
    BY <1>5
  <2> HIDE DEF below, f
  <2>6. \A n \in DOMAIN stack' : stack'[n].stage \in 0..LastStage
    BY <1>2, <2>4, <2>5
  <2> QED
    BY <1>1, <2>6, OfTheApplication DEF TypeInv, compileVars, Graph
<1> QED
  BY <1>1, <1>6, <1>7

\* A step that leaves the graphs and the clones alone.
LEMMA TypeKept ==
    ASSUME TypeInv, app' = app, builtAt' = builtAt, graphs' = graphs, cloned' = cloned,
           phase' \in {"check", "enforce", "generate", "generated", "serving",
                      "invalid", "rejected", "unreachable", "panicked", "answered"} \/ phase' = phase,
           \A n \in DOMAIN stack' : stack'[n].stage \in 0..LastStage
    PROVE  TypeInv'
BY OfTheApplication DEF TypeInv, Graph

LEMMA TypeStep == AnalysisInv /\ FramesInv /\ TypeInv /\ [Next]_vars => TypeInv'
<1> SUFFICES ASSUME AnalysisInv, FramesInv, TypeInv, [Next]_vars
             PROVE  TypeInv'
  OBVIOUS
<1>1. WellFormed /\ GraphsInv /\ LastStage \in Nat
  BY StageFacts DEF AnalysisInv, GraphsInv
<1>2. CASE Count /\ UNCHANGED <<stack, trail>>
  <2>1. app' = app /\ phase' = "combine" /\ UNCHANGED <<graphs, cloned, stack>>
    BY <1>2 DEF Count
  <2>2. DOMAIN builtAt' \subseteq Comps /\ \A c \in DOMAIN builtAt' : builtAt'[c] \in 0..LastStage
    BY <1>1, <1>2, CountTypes
  <2> QED
    BY <2>1, <2>2, OfTheApplication DEF TypeInv, Graph
<1>3. CASE Combine /\ UNCHANGED <<stack, trail>>
  <2>1. /\ UNCHANGED <<app, builtAt, cloned, stack>>
        /\ graphs' = [i \in Members |-> IF StageOf(i) = stage THEN Bound(i) ELSE graphs[i]]
        /\ phase' \in {"panicked", "check", "combine"}
    BY <1>3 DEF Combine
  <2>2. ASSUME NEW i \in Members, StageOf(i) = stage
        PROVE  Bound(i) \in Graph
    <3> DEFINE takes == Takes(i, Fields(i))
               g == GraphOf(app.chain[i].scope, takes, PrebuiltFor(StageOf(i)))
    <3>1. takes \in [Types -> Modes]
      BY <1>1, FieldsTyped DEF Usage
    <3>2. Bound(i) = g
      BY <2>2 DEF Bound, Fields
    <3>3. g = [computes |-> g.computes, inputs |-> g.inputs]
      BY DEF GraphOf
    <3> HIDE DEF takes
    <3>4. g.computes \subseteq Comps /\ g.inputs \in [Types -> Modes]
      BY <1>1, <3>1, GraphFacts
    <3> HIDE DEF g
    <3> QED
      BY <3>2, <3>3, <3>4 DEF Graph
  <2>3. graphs' \in [Members -> Graph]
    BY <2>1, <2>2 DEF TypeInv
  <2> QED
    BY <2>1, <2>3, OfTheApplication DEF TypeInv, Graph
<1>4. CASE RejectGraph /\ UNCHANGED <<stack, trail>>
  BY <1>4, TypeKept DEF RejectGraph, TypeInv
<1>5. CASE CheckStage /\ UNCHANGED <<stack, trail>>
  <2>1. /\ UNCHANGED <<app, builtAt, graphs, stack>>
        /\ phase' \in {"enforce", "check", "unreachable", "rejected"}
        /\ \/ cloned' = cloned
           \/ cloned' = [cloned EXCEPT ![stage] = [t \in Types |-> NeedClone(stage, t)]]
    BY <1>5 DEF CheckStage
  <2>2. [t \in Types |-> NeedClone(stage, t)] \in [Types -> SUBSET Members]
    BY DEF NeedClone, Consumers, InStage
  <2>3. cloned' \in [0..LastStage -> [Types -> SUBSET Members]]
    BY <2>1, <2>2 DEF TypeInv
  <2> QED
    BY <2>1, <2>3, OfTheApplication DEF TypeInv, Graph
<1>6. CASE Enforce /\ UNCHANGED <<stack, trail>>
  BY <1>6, TypeKept DEF Enforce, TypeInv
<1>7. CASE Codegen /\ UNCHANGED <<stack, trail>>
  BY <1>7, TypeKept DEF Codegen, TypeInv
<1>8. CASE Receive
  <2>1. /\ UNCHANGED <<app, builtAt, graphs, cloned>> /\ phase' = "serving"
        /\ \E values : stack' = <<Frame(0, values)>>
    BY <1>8 DEF Receive
  <2>2. \A n \in DOMAIN stack' : stack'[n].stage \in 0..LastStage
    BY <1>1, <2>1 DEF Frame
  <2> QED
    BY <2>1, <2>2, TypeKept
<1>9. CASE \E i \in Members : Call(i)
  BY <1>9, CallTypes
<1>10. CASE Return
  <2>1. /\ UNCHANGED <<app, builtAt, graphs, cloned>> /\ stack # << >> /\ stack \in Seq(Frames)
        /\ stack' = SubSeq(stack, 1, Len(stack) - 1) /\ (phase' = phase \/ phase' = "answered")
    BY <1>10 DEF Return, Serving, FramesInv
  <2>2. Len(stack) \in Nat \ {0} /\ \A n \in DOMAIN stack : stack[n].stage \in 0..LastStage
    BY <2>1 DEF TypeInv
  <2>3. DOMAIN stack' = 1..(Len(stack) - 1) /\ \A n \in DOMAIN stack' : n \in DOMAIN stack /\ stack'[n] = stack[n]
    BY <2>1, <2>2
  <2>4. \A n \in DOMAIN stack' : stack'[n].stage \in 0..LastStage
    BY <2>2, <2>3
  <2> QED
    BY <2>1, <2>4, TypeKept
<1>11. CASE UNCHANGED vars
  BY <1>11, TypeKept DEF vars, compileVars, TypeInv
<1> QED
  BY <1>2, <1>3, <1>4, <1>5, <1>6, <1>7, <1>8, <1>9, <1>10, <1>11 DEF Next, Compile, Halt

LEMMA TypesAlways == Spec => [](AnalysisInv /\ FramesInv /\ TypeInv)
<1>1. Init => TypeInv
  BY TypeInit
<1>2. AnalysisInv /\ FramesInv /\ TypeInv /\ [Next]_vars => TypeInv'
  BY TypeStep
<1> QED
  BY <1>1, <1>2, SafeAlways, PTL DEF Spec

-----------------------------------------------------------------------------
(* What is asked of the caller of the entrypoint. *)

\* What the do-nothing middleware does not compute, at the first stage, is there
\* before it runs.
LEMMA EntrypointFacts ==
    ASSUME AnalysisInv, TypeInv, phase = "generate", NEW t \in Types, Parameters(0)[t] # Absent
    PROVE  LET c == Get(app.chain[Len(app.chain)].scope, t)
           IN c # 0 /\ app.comps[c].life \in {"singleton", "incoming"}
<1> DEFINE s == app.chain[1].scope
           takes == Takes(1, Fields(1))
           pre == PrebuiltFor(0)
<1>1. WellFormed /\ GraphsInv /\ 1 \in Members /\ StageOf(1) = 0
  BY StageFacts DEF AnalysisInv, GraphsInv
<1>2. graphs[1] = Final(1) /\ Final(1).inputs[t] # Absent
  BY <1>1 DEF GraphsInv, Parameters
<1>3. s = app.chain[Len(app.chain)].scope /\ Seen(t)
  BY <1>1, <1>2, AppShape, FinalFacts DEF AllSeen
<1>4. takes \in [Types -> Modes] /\ Final(1) = GraphOf(s, takes, pre)
  BY <1>1, FieldsTyped DEF Usage, Final
<1>5. pre = {}
  BY <1>1, StageFacts DEF PrebuiltFor, TypeInv
<1> HIDE DEF takes, pre
<1>6. ~Computed(s, t, pre)
  BY <1>1, <1>2, <1>4, GraphFacts
<1> QED
  BY <1>3, <1>5, <1>6 DEF Computed, Given, Seen

LEMMA EntrypointStep ==
    AnalysisInv /\ TypeInv /\ EntrypointTakesWhatExists /\ [Next]_vars => EntrypointTakesWhatExists'
<1> SUFFICES ASSUME AnalysisInv, TypeInv, EntrypointTakesWhatExists, [Next]_vars,
                    phase' \in {"generated", "serving", "answered"}
             PROVE  EntrypointTakesWhatExists'
  BY DEF EntrypointTakesWhatExists
<1>1. /\ app' = app /\ graphs' = graphs /\ next' = next
      /\ phase \in {"generate", "generated", "serving", "answered"}
  BY CallsOnlyCall DEF Next, Compile, Count, Combine, RejectGraph, CheckStage, Enforce, Codegen, Receive,
     Return, Serving, Halt, vars, compileVars
<1>2. ASSUME NEW t \in Types, Parameters(0)[t] # Absent
      PROVE  LET c == Get(app.chain[Len(app.chain)].scope, t)
             IN c # 0 /\ app.comps[c].life \in {"singleton", "incoming"}
  BY <1>1, <1>2, EntrypointFacts DEF EntrypointTakesWhatExists
<1>3. Parameters(0)' = Parameters(0)
  BY <1>1 DEF Parameters
<1> QED
  BY <1>1, <1>2, <1>3, OfTheApplication DEF EntrypointTakesWhatExists

\* What a request needs is built by the generated code, unless it is there before
\* the pipeline runs: nothing else is asked of the caller of the entrypoint.
THEOREM CallerHasWhatExists == Spec => []EntrypointTakesWhatExists
<1>1. Init => EntrypointTakesWhatExists
  BY DEF Init, CompileInit, EntrypointTakesWhatExists
<1>2. AnalysisInv /\ TypeInv /\ EntrypointTakesWhatExists /\ [Next]_vars => EntrypointTakesWhatExists'
  BY EntrypointStep
<1> QED
  BY <1>1, <1>2, TypesAlways, PTL DEF Spec

-----------------------------------------------------------------------------
(* The steps of the analysis agree.                                        *)

\* The members of a chain find the same constructors: none of them is
\* registered in a blueprint that only some of the members belong to.
SeeTheSame(a) ==
    \A i, j \in DOMAIN a.chain : \A t \in DOMAIN a.chain[1].takes :
        Visible(a, a.chain[i].scope, t) = Visible(a, a.chain[j].scope, t)
OneView == \A a \in Apps : SeeTheSame(WithNoop(a))

\* The component of a type, for all of them.
TheOne(t) == Get(app.chain[1].scope, t)
Common == {c \in RequestScoped(Comps) : Cardinality(UsersOf(c)) > 1}
\* A value of type t that exists before the members of stage k are called.
ReadyFor(t, k) ==
    \/ TheOne(t) = 0 \/ Given(app.comps[TheOne(t)].life)
    \/ TheOne(t) \in DOMAIN builtAt /\ builtAt[TheOne(t)] < k

\* Where a component is built; whatever the application, a stage has what its
\* members take as parameters.
PlacesInv ==
    /\ phase = "count" => next = [k \in 0..(LastStage - 1) |-> Nothing] /\ carried = Nothing
    /\ phase # "count" => builtAt = [c \in Common |-> Min({BuildIn(i) : i \in UsersOf(c)})]
    /\ phase \in {"combine", "check", "enforce", "generate"} =>
          \A i \in Members : \A t \in Types :
              StageOf(i) # 0 /\ (phase = "combine" => StageOf(i) > stage) =>
                  graphs[i].inputs[t] <= next[StageOf(i) - 1][t]
\* If they see the same: what Next carries is built by then.
FieldsInv ==
    /\ \A k \in DOMAIN next : \A t \in Types : next[k][t] # Absent => ReadyFor(t, k + 1)
    /\ phase = "combine" => \A t \in Types : carried[t] # Absent => ReadyFor(t, stage)

LEMMA SameForAll ==
    ASSUME WellFormed, OneView
    PROVE  \A i \in Members : \A t \in Types : Get(app.chain[i].scope, t) = TheOne(t)
<1>1. SeeTheSame(app)
  BY DEF WellFormed, OneView
<1>2. 1 \in Members
  BY StageFacts
<1> QED
  BY <1>1, <1>2 DEF SeeTheSame, Members, Types, Get, TheOne

\* A graph computes a component of the type it is computed for.
LEMMA GetTyped ==
    ASSUME WellFormed, NEW s, NEW t, Get(s, t) # 0
    PROVE  Get(s, t) \in Comps /\ app.comps[Get(s, t)].type = t
BY GetFinds DEF Visible

LEMMA AloneFacts ==
    ASSUME WellFormed, NEW i \in Members
    PROVE  LET R == Reached(app.chain[i].scope, app.chain[i].takes, {})
               s == app.chain[i].scope
           IN /\ R \subseteq Types
              /\ Asked(app.chain[i].takes) \subseteq R
              /\ \A y \in R : Asked(Requests(s, y, {})) \subseteq R
              /\ \A t \in R : Computed(s, t, {}) => i \in UsersOf(Get(s, t))
              /\ \A t \in Types : Computed(s, t, {}) /\ i \in UsersOf(Get(s, t)) => t \in R
<1> DEFINE s == app.chain[i].scope
           takes == app.chain[i].takes
           R == Reached(s, takes, {})
<1>1. takes \in [Types -> Modes]
  BY AppShape
<1>2. Alone(i).computes = GraphOf(s, takes, {}).computes
  BY DEF Alone
<1>3. /\ R \subseteq Types /\ Asked(takes) \subseteq R
      /\ \A y \in R : Asked(Requests(s, y, {})) \subseteq R
      /\ \A t \in R : Computed(s, t, {}) => Get(s, t) \in GraphOf(s, takes, {}).computes
      /\ \A c \in GraphOf(s, takes, {}).computes : \E t \in R : Computed(s, t, {}) /\ c = Get(s, t)
  BY <1>1, ReachedFacts
<1> HIDE DEF R
<1>4. \A t \in R : Computed(s, t, {}) => i \in UsersOf(Get(s, t))
  BY <1>2, <1>3 DEF UsersOf
<1>5. ASSUME NEW t \in Types, Computed(s, t, {}), i \in UsersOf(Get(s, t))
      PROVE  t \in R
  <2>1. PICK u \in R : Computed(s, u, {}) /\ Get(s, t) = Get(s, u)
    BY <1>2, <1>3, <1>5 DEF UsersOf
  <2>2. t = u
    BY <1>5, <2>1, GetTyped DEF Computed
  <2> QED
    BY <2>1, <2>2
<1> QED
  BY <1>3, <1>4, <1>5 DEF R

\* What is built once is built in the first stage that one of its users needs.
LEMMA PlaceFacts ==
    ASSUME WellFormed, PlacesInv, phase # "count"
    PROVE  /\ DOMAIN builtAt = Common
           /\ \A c \in Common : builtAt[c] \in 0..LastStage /\ \A i \in UsersOf(c) : builtAt[c] <= BuildIn(i)
           /\ \A c, d \in Common : UsersOf(d) \subseteq UsersOf(c) => builtAt[c] <= builtAt[d]
           /\ \A i \in Members : BuildIn(i) \in 0..LastStage
<1> DEFINE Builds(c) == {BuildIn(i) : i \in UsersOf(c)}
<1>1. builtAt = [c \in Common |-> Min(Builds(c))]
  BY DEF PlacesInv
<1>2. \A i \in Members : BuildIn(i) \in 0..LastStage
  BY BuildInTyped
<1>3. ASSUME NEW c \in Common
      PROVE  /\ Min(Builds(c)) \in Builds(c) /\ Builds(c) \in SUBSET (0..LastStage)
             /\ \A n \in Builds(c) : Min(Builds(c)) <= n
  <2>1. Cardinality(UsersOf(c)) > 1 /\ UsersOf(c) \subseteq Members
    BY DEF UsersOf, Common
  <2>2. UsersOf(c) # {}
    BY <2>1, FS_EmptySet
  <2>3. Builds(c) \in SUBSET (0..LastStage) /\ Builds(c) \in SUBSET Nat /\ Builds(c) # {}
    BY <1>2, <2>1, <2>2
  <2> HIDE DEF Builds
  <2>4. \E m \in Builds(c) : \A n \in Builds(c) : m <= n
    BY <2>3, LeastExists
  <2> QED
    BY <2>3, <2>4 DEF Min
<1>4. ASSUME NEW c \in Common
      PROVE  /\ builtAt[c] \in 0..LastStage /\ \A i \in UsersOf(c) : builtAt[c] <= BuildIn(i)
             /\ builtAt[c] = Min(Builds(c))
  <2>1. \A i \in UsersOf(c) : BuildIn(i) \in Builds(c)
    OBVIOUS
  <2> HIDE DEF Builds
  <2> QED
    BY <1>1, <1>3, <2>1
<1>5. ASSUME NEW c \in Common, NEW d \in Common, UsersOf(d) \subseteq UsersOf(c)
      PROVE  builtAt[c] <= builtAt[d]
  <2>1. Builds(d) \subseteq Builds(c)
    BY <1>5
  <2> HIDE DEF Builds
  <2> QED
    BY <1>3, <1>4, <2>1
<1> HIDE DEF Builds
<1> QED
  BY <1>1, <1>2, <1>4, <1>5

\* Only a wrapping middleware builds for its own stage.
LEMMA NobodyBuildsForItsStage ==
    ASSUME WellFormed, PlacesInv, phase = "combine", NEW i \in InStage(stage)
    PROVE  ~BuildsForStage(i)
<1> SUFFICES ASSUME NEW c \in DOMAIN builtAt, builtAt[c] = stage, c \in Alone(i).computes,
                    app.chain[i].kind # "wrap"
             PROVE  FALSE
  BY DEF BuildsForStage
<1>1. i \in Members /\ StageOf(i) = stage /\ i \in UsersOf(c)
  BY DEF InStage, UsersOf
<1>2. builtAt[c] <= BuildIn(i) /\ BuildIn(i) = stage - 1
  BY <1>1, PlaceFacts DEF BuildIn
<1>3. stage \in Nat
  BY <1>1, StageFacts
<1> QED
  BY <1>2, <1>3

\* What Combine makes of a stage.
LEMMA CombineFacts ==
    ASSUME GraphsInv, Combine
    PROVE  /\ app' = app /\ builtAt' = builtAt /\ phase = "combine" /\ stage \in 0..LastStage /\ LastStage \in Nat
           /\ \A i \in Members : graphs'[i] = IF StageOf(i) = stage THEN Final(i) ELSE graphs[i]
           /\ carried' = IF stage = 0 THEN Needed ELSE Kept(Needed)
           /\ stage = 0 => next' = next
           /\ \A k \in DOMAIN next : next'[k] = IF k = stage - 1 THEN Needed ELSE next[k]
           /\ DOMAIN next' = DOMAIN next /\ DOMAIN next = 0..(LastStage - 1)
           /\ \/ phase' = "panicked" /\ \E i \in InStage(stage) : BuildsForStage(i)
              \/ phase' = "check" /\ stage = 0
              \/ phase' = "combine" /\ stage # 0 /\ stage' = stage - 1
           /\ Needed \in Usage
           /\ \A t \in Types : carried[t] <= Needed[t]
           /\ \A i \in InStage(stage) : \A t \in Types : Final(i).inputs[t] <= Needed[t]
           /\ \A t \in Types : Needed[t] # Absent =>
                  carried[t] # Absent \/ \E i \in InStage(stage) : Final(i).inputs[t] # Absent
<1>1. /\ app' = app /\ builtAt' = builtAt /\ phase = "combine"
      /\ graphs' = [i \in Members |-> IF StageOf(i) = stage THEN Bound(i) ELSE graphs[i]]
      /\ carried' = IF stage = 0 THEN Needed ELSE Kept(Needed)
      /\ next' = IF stage = 0 THEN next ELSE [next EXCEPT ![stage - 1] = Needed]
      /\ \/ phase' = "panicked" /\ \E i \in InStage(stage) : BuildsForStage(i)
         \/ phase' = "check" /\ stage = 0
         \/ phase' = "combine" /\ stage # 0 /\ stage' = stage - 1
  BY DEF Combine
<1>2. WellFormed /\ stage \in 0..LastStage /\ LastStage \in Nat /\ DOMAIN next = 0..(LastStage - 1)
  BY StageFacts DEF GraphsInv
<1>3. \A i \in Members : graphs'[i] = IF StageOf(i) = stage THEN Final(i) ELSE graphs[i]
  BY <1>1, NeededFacts DEF InStage
<1>4. /\ DOMAIN next' = DOMAIN next
      /\ \A k \in DOMAIN next : next'[k] = IF k = stage - 1 THEN Needed ELSE next[k]
  <2>1. CASE stage = 0
    <3>1. \A k \in DOMAIN next : k # 0 - 1
      BY <1>2
    <3> QED
      BY <1>1, <2>1, <3>1
  <2>2. CASE stage # 0
    BY <1>1, <1>2, <2>2
  <2> QED
    BY <2>1, <2>2
<1> DEFINE F == {carried} \cup {Bound(i).inputs : i \in InStage(stage)}
<1>5. Needed = Merged(F)
  BY DEF Needed
<1>6. \A f \in F : f \in [Types -> Modes]
  <2>1. \A i \in InStage(stage) : Bound(i).inputs \in [Types -> Modes]
    BY NeededFacts, FinalFacts DEF InStage, Usage
  <2> QED
    BY <2>1 DEF GraphsInv, Usage
<1>7. carried \in F /\ \A i \in InStage(stage) : Final(i).inputs \in F
  BY NeededFacts
<1>8. \A f \in F : f = carried \/ \E i \in InStage(stage) : f = Final(i).inputs
  BY NeededFacts
<1> HIDE DEF F
<1>9. \A f \in F : \A t \in Types : f[t] <= Needed[t]
  BY <1>5, <1>6, MergedIsGreatest
<1>10. Needed \in Usage /\ \A t \in Types : Needed[t] # Absent => \E f \in F : f[t] # Absent
  BY <1>5, <1>6, MergedIsLeast DEF Usage
<1>11. \A t \in Types : Needed[t] # Absent =>
           carried[t] # Absent \/ \E i \in InStage(stage) : Final(i).inputs[t] # Absent
  BY <1>8, <1>10
<1> QED
  BY <1>1, <1>2, <1>3, <1>4, <1>7, <1>9, <1>10, <1>11

LEMMA PlacesInit == Init => PlacesInv
BY DEF Init, CompileInit, PlacesInv

LEMMA UsersKept ==
    ASSUME app' = app
    PROVE  /\ \A c : UsersOf(c)' = UsersOf(c)
           /\ \A i : BuildIn(i)' = BuildIn(i)
           /\ Common' = Common
           /\ \A t : TheOne(t)' = TheOne(t)
<1>1. \A i : Alone(i)' = Alone(i)
  BY GraphKept DEF Alone
<1>2. \A c : UsersOf(c)' = UsersOf(c)
  BY <1>1, OfTheApplication DEF UsersOf
<1>3. \A i : BuildIn(i)' = BuildIn(i)
  BY OfTheApplication DEF BuildIn
<1>4. Common' = Common
  BY <1>2, OfTheApplication DEF Common, RequestScoped
<1>5. \A t : TheOne(t)' = TheOne(t)
  BY OfTheApplication DEF TheOne
<1> QED
  BY <1>2, <1>3, <1>4, <1>5

LEMMA PlacesKept ==
    ASSUME PlacesInv, app' = app, next' = next, carried' = carried, graphs' = graphs, builtAt' = builtAt,
           phase' = "combine" => phase' = phase /\ stage' = stage, phase' = "count" <=> phase = "count",
           phase' \in {"check", "enforce", "generate"} => phase \in {"check", "enforce", "generate"}
    PROVE  PlacesInv'
<1>1. Nothing' = Nothing
  BY OfTheApplication DEF Nothing
<1>2. (phase = "count" => next = [k \in 0..(LastStage - 1) |-> Nothing] /\ carried = Nothing)'
  BY <1>1, OfTheApplication DEF PlacesInv
<1>3. (phase # "count" => builtAt = [c \in Common |-> Min({BuildIn(i) : i \in UsersOf(c)})])'
  BY UsersKept DEF PlacesInv
<1>4. (phase \in {"combine", "check", "enforce", "generate"} =>
          \A i \in Members : \A t \in Types :
              StageOf(i) # 0 /\ (phase = "combine" => StageOf(i) > stage) =>
                  graphs[i].inputs[t] <= next[StageOf(i) - 1][t])'
  BY OfTheApplication DEF PlacesInv
<1> QED
  BY <1>2, <1>3, <1>4 DEF PlacesInv

LEMMA PlacesCount ==
    ASSUME GraphsInv, PlacesInv, Count
    PROVE  PlacesInv'
<1>1. /\ app' = app /\ phase' = "combine" /\ stage' = LastStage
      /\ builtAt' = [c \in Common |-> Min({BuildIn(i) : i \in UsersOf(c)})]
  BY DEF Count, Common
<1>2. \A i \in Members : ~(StageOf(i) > LastStage)
  BY StageFacts DEF GraphsInv
<1>3. (\A i \in Members : ~(StageOf(i) > stage))'
  BY <1>1, <1>2, OfTheApplication
<1>4. builtAt' = [c \in Common |-> Min({BuildIn(i) : i \in UsersOf(c)})]'
  BY <1>1, UsersKept
<1> QED
  BY <1>1, <1>3, <1>4 DEF PlacesInv

LEMMA PlacesCombine ==
    ASSUME GraphsInv, PlacesInv, Combine
    PROVE  PlacesInv' /\ phase' # "panicked"
<1>1. /\ app' = app /\ builtAt' = builtAt /\ phase = "combine" /\ stage \in 0..LastStage /\ LastStage \in Nat
      /\ \A i \in Members : graphs'[i] = IF StageOf(i) = stage THEN Final(i) ELSE graphs[i]
      /\ \A k \in DOMAIN next : next'[k] = IF k = stage - 1 THEN Needed ELSE next[k]
      /\ DOMAIN next = 0..(LastStage - 1)
      /\ \/ phase' = "panicked" /\ \E i \in InStage(stage) : BuildsForStage(i)
         \/ phase' = "check" /\ stage = 0
         \/ phase' = "combine" /\ stage # 0 /\ stage' = stage - 1
      /\ \A i \in InStage(stage) : \A t \in Types : Final(i).inputs[t] <= Needed[t]
  BY CombineFacts
<1>2. WellFormed /\ \A i \in Members : StageOf(i) \in 0..LastStage
  BY StageFacts DEF GraphsInv
<1>3. phase' \in {"check", "combine"}
  BY <1>1, <1>2, NobodyBuildsForItsStage
<1>4. ASSUME NEW i \in Members, NEW t \in Types, StageOf(i) # 0, phase' = "combine" => StageOf(i) > stage'
      PROVE  graphs'[i].inputs[t] <= next'[StageOf(i) - 1][t]
  <2>1. StageOf(i) \in 0..LastStage /\ StageOf(i) >= stage /\ StageOf(i) - 1 \in DOMAIN next
    BY <1>1, <1>2, <1>3, <1>4
  <2>2. CASE StageOf(i) = stage
    BY <1>1, <2>1, <2>2 DEF InStage
  <2>3. CASE StageOf(i) # stage
    <3>1. StageOf(i) > stage /\ StageOf(i) - 1 # stage - 1
      BY <1>1, <2>1, <2>3
    <3>2. graphs[i].inputs[t] <= next[StageOf(i) - 1][t]
      BY <1>1, <1>4, <3>1 DEF PlacesInv
    <3> QED
      BY <1>1, <2>1, <2>3, <3>1, <3>2
  <2> QED
    BY <2>2, <2>3
<1>5. (builtAt = [c \in Common |-> Min({BuildIn(i) : i \in UsersOf(c)})])'
  BY <1>1, UsersKept DEF PlacesInv
<1> QED
  BY <1>1, <1>3, <1>4, <1>5, OfTheApplication DEF PlacesInv

LEMMA PlacesStep == GraphsInv /\ PlacesInv /\ [Next]_vars => PlacesInv'
<1> SUFFICES ASSUME GraphsInv, PlacesInv, [Next]_vars
             PROVE  PlacesInv'
  OBVIOUS
<1>1. CASE Count
  BY <1>1, PlacesCount
<1>2. CASE Combine
  BY <1>2, PlacesCombine
<1>3. CASE RejectGraph \/ Enforce \/ Codegen \/ Receive \/ Return
  BY <1>3, PlacesKept DEF RejectGraph, Enforce, Codegen, Receive, Return, Serving
<1>4. CASE CheckStage
  <2>1. /\ UNCHANGED <<app, builtAt, carried, next, graphs>> /\ phase = "check"
        /\ phase' \in {"check", "enforce", "rejected", "unreachable"}
    BY <1>4 DEF CheckStage
  <2> QED
    BY <2>1, PlacesKept
<1>5. CASE UNCHANGED compileVars
  BY <1>5, PlacesKept DEF compileVars
<1> QED
  BY <1>1, <1>2, <1>3, <1>4, <1>5, CallsOnlyCall DEF Next, Compile, Halt, vars

\* Whatever the application, a stage function has a parameter for each input of
\* its members.
LEMMA EveryInputIsThere ==
    ASSUME GraphsInv, PlacesInv, phase = "generate", NEW i \in Members, NEW t \in Types
    PROVE  graphs[i].inputs[t] <= Parameters(StageOf(i))[t]
<1>1. WellFormed /\ 1 \in Members /\ StageOf(1) = 0 /\ StageOf(i) \in Nat /\ i \in Nat /\ i >= 1
  BY StageFacts, ChainShape DEF GraphsInv
<1>2. CASE StageOf(i) # 0
  BY <1>1, <1>2 DEF PlacesInv, Parameters
<1>3. CASE StageOf(i) = 0
  <2>1. i = 1
    <3>1. ~(1 < i)
      BY <1>1, <1>3, StageFacts, AppShape DEF IsMiddle
    <3> QED
      BY <1>1, <3>1
  <2>2. graphs[1].inputs[t] \in 0..2
    <3>1. graphs[1].inputs \in [Types -> Modes]
      BY <1>1, FinalFacts DEF GraphsInv, Usage
    <3> QED
      BY <3>1 DEF Modes, Absent, Shared, Owned
  <2> QED
    BY <1>3, <2>1, <2>2 DEF Parameters
<1> QED
  BY <1>2, <1>3

\* What a graph leaves to its caller is built by then.
LEMMA InputsReady ==
    ASSUME GraphsInv, OneView, NEW i \in Members, NEW t \in Types, Final(i).inputs[t] # Absent
    PROVE  ReadyFor(t, StageOf(i))
<1> DEFINE s == app.chain[i].scope
           takes == Takes(i, Fields(i))
           pre == PrebuiltFor(StageOf(i))
<1>1. WellFormed /\ takes \in [Types -> Modes] /\ Final(i) = GraphOf(s, takes, pre)
  BY FieldsTyped DEF GraphsInv, Usage, Final
<1>2. ~Computed(s, t, pre)
  <2>1. GraphOf(s, takes, pre).inputs[t] # Absent
    BY <1>1
  <2> HIDE DEF s, takes, pre
  <2>2. \A u \in Types : GraphOf(s, takes, pre).inputs[u] # Absent => ~Computed(s, u, pre)
    BY <1>1, GraphFacts
  <2> QED
    BY <2>1, <2>2
<1>3. Get(s, t) = TheOne(t)
  BY <1>1, SameForAll
<1> QED
  BY <1>2, <1>3 DEF Computed, PrebuiltFor, ReadyFor

LEMMA ReadyKept ==
    ASSUME app' = app, builtAt' = builtAt
    PROVE  \A t, k : ReadyFor(t, k)' <=> ReadyFor(t, k)
BY UsersKept DEF ReadyFor

LEMMA FieldsCombine ==
    ASSUME GraphsInv, PlacesInv, FieldsInv, OneView, Combine
    PROVE  FieldsInv'
<1>1. /\ app' = app /\ builtAt' = builtAt /\ phase = "combine" /\ stage \in 0..LastStage /\ LastStage \in Nat
      /\ carried' = IF stage = 0 THEN Needed ELSE Kept(Needed)
      /\ \A k \in DOMAIN next : next'[k] = IF k = stage - 1 THEN Needed ELSE next[k]
      /\ DOMAIN next' = DOMAIN next /\ DOMAIN next = 0..(LastStage - 1)
      /\ \/ phase' = "panicked"
         \/ phase' = "check"
         \/ phase' = "combine" /\ stage # 0 /\ stage' = stage - 1
      /\ \A t \in Types : Needed[t] # Absent =>
             carried[t] # Absent \/ \E i \in InStage(stage) : Final(i).inputs[t] # Absent
  BY CombineFacts
<1>2. WellFormed
  BY DEF GraphsInv
<1>3. ASSUME NEW t \in Types, Needed[t] # Absent
      PROVE  ReadyFor(t, stage)
  BY <1>1, <1>3, InputsReady DEF FieldsInv, InStage
<1>4. ASSUME NEW k \in DOMAIN next, NEW t \in Types, next'[k][t] # Absent
      PROVE  ReadyFor(t, k + 1)
  <2>1. CASE k = stage - 1
    <3>1. k + 1 = stage
      BY <1>1, <2>1
    <3> QED
      BY <1>1, <1>3, <1>4, <2>1, <3>1
  <2>2. CASE k # stage - 1
    BY <1>1, <1>4, <2>2 DEF FieldsInv
  <2> QED
    BY <2>1, <2>2
<1>5. ASSUME phase' = "combine", NEW t \in Types, carried'[t] # Absent
      PROVE  ReadyFor(t, stage')
  <2>1. stage # 0 /\ stage' = stage - 1 /\ Kept(Needed)[t] # Absent
    BY <1>1, <1>5
  <2>2. /\ \A c \in DOMAIN builtAt : ~(builtAt[c] = stage - 1 /\ app.comps[c].type = t)
        /\ Needed[t] # Absent
    BY <2>1 DEF Kept
  <2>3. ReadyFor(t, stage)
    BY <1>3, <2>2
  <2> DEFINE c == TheOne(t)
  <2>4. CASE c = 0 \/ Given(app.comps[c].life)
    BY <2>4 DEF ReadyFor
  <2>5. CASE c # 0 /\ c \in DOMAIN builtAt /\ builtAt[c] < stage
    <3>1. app.comps[c].type = t
      BY <1>2, <2>5, GetTyped DEF TheOne
    <3>2. builtAt[c] # stage - 1
      BY <2>2, <2>5, <3>1
    <3>3. builtAt[c] \in 0..LastStage
      BY <1>1, <1>2, <2>5, PlaceFacts
    <3>4. builtAt[c] < stage - 1
      <4> HIDE DEF c
      <4> QED BY <1>1, <2>5, <3>2, <3>3
    <3> QED
      BY <2>1, <2>5, <3>4 DEF ReadyFor
  <2> QED
    BY <2>3, <2>4, <2>5 DEF ReadyFor
<1>6. (\A k \in DOMAIN next : \A t \in Types : next[k][t] # Absent => ReadyFor(t, k + 1))'
  BY <1>1, <1>4, ReadyKept, OfTheApplication
<1>7. (phase = "combine" => \A t \in Types : carried[t] # Absent => ReadyFor(t, stage))'
  BY <1>1, <1>5, ReadyKept, OfTheApplication
<1> QED
  BY <1>6, <1>7 DEF FieldsInv

LEMMA FieldsStep == OneView /\ GraphsInv /\ PlacesInv /\ FieldsInv /\ [Next]_vars => FieldsInv'
<1> SUFFICES ASSUME OneView, GraphsInv, PlacesInv, FieldsInv, [Next]_vars
             PROVE  FieldsInv'
  OBVIOUS
<1>1. CASE Count
  <2>1. app' = app /\ carried' = Nothing /\ next' = [k \in 0..(LastStage - 1) |-> Nothing]
    BY <1>1 DEF Count, PlacesInv
  <2>2. \A t \in Types : carried'[t] = Absent /\ \A k \in DOMAIN next' : next'[k][t] = Absent
    BY <2>1 DEF Nothing
  <2> QED
    BY <2>1, <2>2, OfTheApplication DEF FieldsInv
<1>2. CASE Combine
  BY <1>2, FieldsCombine
<1>3. CASE RejectGraph \/ CheckStage \/ Enforce \/ Codegen \/ Receive \/ Return
  <2>1. UNCHANGED <<app, builtAt, next>> /\ phase' # "combine"
    BY <1>3 DEF RejectGraph, CheckStage, Enforce, Codegen, Receive, Return, Serving
  <2> QED
    BY <2>1, ReadyKept, OfTheApplication DEF FieldsInv
<1>4. CASE UNCHANGED compileVars
  BY <1>4, ReadyKept, OfTheApplication DEF FieldsInv, compileVars
<1> QED
  BY <1>1, <1>2, <1>3, <1>4, CallsOnlyCall DEF Next, Compile, Halt, vars

-----------------------------------------------------------------------------
(* Who computes a component.                                               *)

\* The wrapping middleware of the stage where it is built, or its only user.
Owns(i, c) ==
    IF c \in Common THEN app.chain[i].kind = "wrap" /\ builtAt[c] = StageOf(i) ELSE i \in UsersOf(c)

\* A member that is no wrapping middleware computes what it needs itself and
\* the stages before did not build.
LEMMA OthersOwn ==
    ASSUME GraphsInv, PlacesInv, phase # "count", NEW i \in Members, app.chain[i].kind # "wrap",
           NEW c \in Final(i).computes
    PROVE  Owns(i, c)
<1> DEFINE s == app.chain[i].scope
           takes == app.chain[i].takes
           pre == PrebuiltFor(StageOf(i))
           R == Reached(s, takes, pre)
           A == Reached(s, takes, {})
<1>1. WellFormed /\ takes \in [Types -> Modes] /\ Final(i) = GraphOf(s, takes, pre)
  BY AppShape DEF GraphsInv, Final, Takes
<1>2. /\ \A S \in SUBSET Types :
             Asked(takes) \subseteq S /\ (\A y \in S : Asked(Requests(s, y, pre)) \subseteq S) => R \subseteq S
      /\ \E t \in R : Computed(s, t, pre) /\ c = Get(s, t)
  <2>1. c \in GraphOf(s, takes, pre).computes
    BY <1>1
  <2> HIDE DEF pre, takes, s
  <2> QED
    BY <1>1, <2>1, ReachedFacts
<1>3. /\ A \subseteq Types /\ Asked(takes) \subseteq A
      /\ \A y \in A : Asked(Requests(s, y, {})) \subseteq A
      /\ \A t \in A : Computed(s, t, {}) => i \in UsersOf(Get(s, t))
  BY <1>1, AloneFacts
<1>4. \A y : Asked(Requests(s, y, pre)) \subseteq Asked(Requests(s, y, {}))
  BY DEF Requests, Computed, Nothing, Asked
<1> HIDE DEF R, A
<1>5. R \subseteq A
  BY <1>2, <1>3, <1>4
<1>6. PICK t \in R : Computed(s, t, pre) /\ c = Get(s, t)
  BY <1>2
<1>7. i \in UsersOf(c) /\ c \notin pre
  BY <1>3, <1>5, <1>6 DEF Computed
<1>8. c \notin Common
  <2> SUFFICES ASSUME c \in Common
               PROVE  FALSE
    OBVIOUS
  <2>1. builtAt[c] <= BuildIn(i) /\ builtAt[c] \in 0..LastStage /\ c \in DOMAIN builtAt
    BY <1>1, <1>7, PlaceFacts
  <2>2. BuildIn(i) = StageOf(i) - 1 /\ StageOf(i) \in Nat
    BY <1>1, StageFacts DEF BuildIn
  <2>3. builtAt[c] < StageOf(i)
    BY <2>1, <2>2
  <2> QED
    BY <1>7, <2>1, <2>3 DEF PrebuiltFor
<1> QED
  BY <1>7, <1>8 DEF Owns

\* The types a wrapping middleware can come to need: those it needs alone, what
\* is not computed at all, and what all users need of something built by then.
Needs(i) ==
    LET s == app.chain[1].scope
    IN Reached(app.chain[i].scope, app.chain[i].takes, {})
           \cup {t \in Types : \/ ~Computed(s, t, {})
                              \/ \E d \in DOMAIN builtAt : /\ builtAt[d] <= StageOf(i)
                                                           /\ UsersOf(d) \subseteq UsersOf(Get(s, t))}

LEMMA NeedsClosed ==
    ASSUME WellFormed, OneView, NEW i \in Members, NEW y \in Needs(i)
    PROVE  Asked(Requests(app.chain[i].scope, y, {})) \subseteq Needs(i)
<1> DEFINE s == app.chain[i].scope
           A == Reached(s, app.chain[i].takes, {})
<1>1. /\ A \subseteq Types
      /\ \A z \in A : Asked(Requests(s, z, {})) \subseteq A
  BY AloneFacts
<1>2. \A j \in Members : \A t \in Types : Get(app.chain[j].scope, t) = TheOne(t) /\ Get(s, t) = TheOne(t)
  BY SameForAll
<1>3. \A j \in Members : \A t \in Types : /\ Computed(app.chain[j].scope, t, {}) <=> Computed(s, t, {})
                                         /\ Requests(app.chain[j].scope, t, {}) = Requests(s, t, {})
  BY <1>2 DEF Computed, Requests
<1>4. y \in Types /\ 1 \in Members
  BY <1>1, StageFacts DEF Needs
<1> SUFFICES ASSUME NEW u \in Asked(Requests(s, y, {}))
             PROVE  u \in Needs(i)
  OBVIOUS
<1>5. u \in Types
  <2>1. Requests(s, y, {}) \in [Types -> Modes]
    BY GetFinds, AppShape DEF Requests, Computed, Nothing, Modes
  <2> QED
    BY <2>1 DEF Asked
<1>6. CASE y \in A
  BY <1>1, <1>6 DEF Needs
<1>7. CASE ~Computed(s, u, {})
  BY <1>3, <1>4, <1>5, <1>7 DEF Needs
<1>8. CASE y \notin A /\ Computed(s, u, {})
  <2>1. Computed(s, y, {})
    BY DEF Requests, Nothing, Asked
  <2>2. PICK d \in DOMAIN builtAt : builtAt[d] <= StageOf(i) /\ UsersOf(d) \subseteq UsersOf(Get(s, y))
    BY <1>2, <1>3, <1>4, <1>8, <2>1 DEF Needs
  <2>3. ASSUME NEW j \in UsersOf(Get(s, y))
        PROVE  j \in UsersOf(Get(s, u))
    <3> DEFINE r == app.chain[j].scope
               B == Reached(r, app.chain[j].takes, {})
    <3>1. j \in Members
      BY DEF UsersOf
    <3>2. /\ \A z \in B : Asked(Requests(r, z, {})) \subseteq B
          /\ \A t \in B : Computed(r, t, {}) => j \in UsersOf(Get(r, t))
          /\ \A t \in Types : Computed(r, t, {}) /\ j \in UsersOf(Get(r, t)) => t \in B
      BY <3>1, AloneFacts
    <3>3. Get(r, y) = Get(s, y) /\ Get(r, u) = Get(s, u)
      BY <1>2, <1>4, <1>5, <3>1
    <3>4. Computed(r, y, {}) /\ Computed(r, u, {}) /\ Requests(r, y, {}) = Requests(s, y, {})
      BY <1>3, <1>4, <1>5, <1>8, <2>1, <3>1
    <3> HIDE DEF B, r, s
    <3>5. y \in B
      BY <1>4, <2>3, <3>2, <3>3, <3>4
    <3>6. u \in B
      BY <3>2, <3>4, <3>5
    <3> QED
      BY <3>2, <3>3, <3>4, <3>6
  <2>4. UsersOf(d) \subseteq UsersOf(Get(s, u))
    BY <2>2, <2>3
  <2>5. Get(app.chain[1].scope, u) = Get(s, u)
    BY <1>2, <1>4, <1>5
  <2> QED
    BY <1>5, <2>2, <2>4, <2>5 DEF Needs
<1> QED
  BY <1>6, <1>7, <1>8

\* A wrapping middleware, asked by its Next for what is built at its stage.
LEMMA WrapsOwn ==
    ASSUME GraphsInv, PlacesInv, FieldsInv, OneView, phase # "count",
           NEW i \in Members, app.chain[i].kind = "wrap",
           NEW c \in RequestScoped(Final(i).computes)
    PROVE  Owns(i, c)
<1> DEFINE s == app.chain[i].scope
           takes == Takes(i, Fields(i))
           k == StageOf(i)
           pre == PrebuiltFor(k)
           R == Reached(s, takes, pre)
<1>1. WellFormed /\ takes \in [Types -> Modes] /\ Final(i) = GraphOf(s, takes, pre)
  BY FieldsTyped DEF GraphsInv, Usage, Final
<1>2. \A j \in Members : \A t \in Types : Get(app.chain[j].scope, t) = TheOne(t)
  BY <1>1, SameForAll
<1>3. k \in 0..LastStage /\ LastStage \in Nat /\ 1 \in Members
  BY <1>1, StageFacts
<1>4. ASSUME NEW t \in Types, Fields(i)[t] # Absent
      PROVE  t \in Needs(i)
  <2>1. ReadyFor(t, k + 1)
    <3>1. k # LastStage
      BY <1>4 DEF Fields, Nothing
    <3>2. k \in DOMAIN next /\ next[k][t] # Absent
      BY <1>3, <1>4, <3>1 DEF GraphsInv, Fields
    <3> QED
      BY <3>2 DEF FieldsInv
  <2> DEFINE d == TheOne(t)
  <2>2. CASE d = 0 \/ Given(app.comps[d].life)
    BY <2>2 DEF Needs, Computed, TheOne
  <2>3. CASE d \in DOMAIN builtAt /\ builtAt[d] < k + 1
    <3>1. builtAt[d] \in 0..LastStage
      BY <1>1, <2>3, PlaceFacts
    <3>2. builtAt[d] <= k
      <4> HIDE DEF d
      <4> QED BY <1>3, <2>3, <3>1
    <3> QED
      BY <2>3, <3>2 DEF Needs, TheOne
  <2> QED
    BY <2>1, <2>2, <2>3 DEF ReadyFor
<1>5. Needs(i) \in SUBSET Types /\ Asked(takes) \subseteq Needs(i)
  <2>1. Needs(i) \in SUBSET Types /\ Asked(app.chain[i].takes) \subseteq Needs(i)
    BY <1>1, AloneFacts DEF Needs
  <2>2. app.chain[i].takes \in [Types -> Modes]
    BY <1>1, AppShape
  <2>3. \A t \in Asked(takes) : t \in Types /\ takes[t] # Absent
    BY <1>1 DEF Asked
  <2>4. \A t \in Asked(takes) : t \in Asked(app.chain[i].takes) \/ Fields(i)[t] # Absent
    BY <2>2, <2>3, FieldsTyped DEF Asked
  <2> QED
    BY <1>4, <2>1, <2>3, <2>4
<1>6. \A y : Asked(Requests(s, y, pre)) \subseteq Asked(Requests(s, y, {}))
  BY DEF Requests, Computed, Nothing, Asked
<1>7. /\ \A S \in SUBSET Types :
             Asked(takes) \subseteq S /\ (\A y \in S : Asked(Requests(s, y, pre)) \subseteq S) => R \subseteq S
      /\ c \in Final(i).computes /\ c \in RequestScoped(Comps)
      /\ \E t \in R : Computed(s, t, pre) /\ c = Get(s, t)
  <2> HIDE DEF pre, takes
  <2>1. c \in GraphOf(s, takes, pre).computes /\ app.comps[c].life = "request"
    BY <1>1 DEF RequestScoped
  <2>2. GraphOf(s, takes, pre).computes \subseteq Comps
    BY <1>1, GraphFacts
  <2> QED
    BY <1>1, <2>1, <2>2, ReachedFacts DEF RequestScoped
<1> HIDE DEF R, takes
<1>8. R \subseteq Needs(i)
  <2>1. \A y \in Needs(i) : Asked(Requests(s, y, pre)) \subseteq Needs(i)
    BY <1>1, <1>6, NeedsClosed
  <2> QED
    BY <1>5, <1>7, <2>1
<1>9. PICK t \in R : Computed(s, t, pre) /\ c = Get(s, t)
  BY <1>7
<1>10. t \in Needs(i) /\ t \in Types /\ c \notin pre /\ Computed(s, t, {})
  BY <1>5, <1>8, <1>9 DEF Computed
<1>11. c = Get(app.chain[1].scope, t) /\ Computed(app.chain[1].scope, t, {})
  BY <1>2, <1>3, <1>9, <1>10 DEF Computed
<1>12. \/ i \in UsersOf(c)
       \/ \E d \in DOMAIN builtAt : builtAt[d] <= k /\ UsersOf(d) \subseteq UsersOf(c)
  <2>1. CASE t \in Reached(s, app.chain[i].takes, {})
    BY <1>1, <1>9, <1>10, <2>1, AloneFacts
  <2>2. CASE t \notin Reached(s, app.chain[i].takes, {})
    BY <1>10, <1>11, <2>2 DEF Needs
  <2> QED
    BY <2>1, <2>2
<1>13. c \in Common => builtAt[c] \in 0..LastStage /\ c \in DOMAIN builtAt /\ ~(builtAt[c] < k)
  BY <1>1, <1>10, PlaceFacts DEF PrebuiltFor
<1>14. CASE i \in UsersOf(c)
  <2>1. c \in Common => builtAt[c] <= k
    BY <1>1, <1>14, PlaceFacts DEF BuildIn
  <2> QED
    BY <1>3, <1>13, <1>14, <2>1 DEF Owns
<1>15. CASE i \notin UsersOf(c)
  <2>1. PICK d \in DOMAIN builtAt : builtAt[d] <= k /\ UsersOf(d) \subseteq UsersOf(c)
    BY <1>12, <1>15
  <2>2. d \in Common
    BY <1>1, <2>1, PlaceFacts
  <2>3. c \in Common
    <3>1. IsFiniteSet(Members)
      BY <1>1, ChainShape, FS_Interval
    <3>2. IsFiniteSet(UsersOf(c))
      BY <3>1, FS_Subset DEF UsersOf
    <3>3. Cardinality(UsersOf(d)) <= Cardinality(UsersOf(c)) /\ IsFiniteSet(UsersOf(d))
      BY <2>1, <3>2, FS_Subset
    <3>4. Cardinality(UsersOf(d)) > 1 /\ Cardinality(UsersOf(d)) \in Nat /\ Cardinality(UsersOf(c)) \in Nat
      BY <2>2, <3>2, <3>3, FS_CardinalityType DEF Common
    <3>5. Cardinality(UsersOf(c)) > 1
      BY <3>3, <3>4
    <3> QED
      BY <1>7, <3>5 DEF Common
  <2>4. builtAt[c] <= builtAt[d] /\ builtAt[d] \in 0..LastStage
    BY <1>1, <2>1, <2>2, <2>3, PlaceFacts
  <2> QED
    BY <1>3, <1>13, <2>1, <2>3, <2>4 DEF Owns
<1> QED
  BY <1>14, <1>15

\* No component has two owners.
LEMMA OneOwner ==
    ASSUME WellFormed, NEW c \in RequestScoped(Comps), NEW i \in Members, NEW j \in Members, Owns(i, c), Owns(j, c)
    PROVE  i = j
<1> SUFFICES ASSUME i # j
             PROVE  FALSE
  OBVIOUS
<1>1. CASE c \in Common
  <2>1. StageOf(i) = StageOf(j) /\ app.chain[i].kind = "wrap" /\ app.chain[j].kind = "wrap"
    BY <1>1 DEF Owns
  <2> QED
    BY <2>1, AroundTheWrap
<1>2. CASE c \notin Common
  <2>1. i \in UsersOf(c) /\ j \in UsersOf(c)
    BY <1>2 DEF Owns
  <2>2. IsFiniteSet(UsersOf(c))
    <3>1. IsFiniteSet(Members)
      BY ChainShape, FS_Interval
    <3> QED
      BY <3>1, FS_Subset DEF UsersOf
  <2>3. Cardinality({i, j}) = 2
    <3>1. Cardinality({i}) = 1 /\ IsFiniteSet({i})
      BY FS_Singleton
    <3>2. Cardinality({i} \cup {j}) = 2
      BY <3>1, FS_AddElement
    <3>3. {i, j} = {i} \cup {j}
      OBVIOUS
    <3> QED
      BY <3>2, <3>3
  <2>4. Cardinality({i, j}) <= Cardinality(UsersOf(c)) /\ Cardinality(UsersOf(c)) \in Nat
    BY <2>1, <2>2, FS_Subset, FS_CardinalityType
  <2> QED
    BY <1>2, <2>3, <2>4 DEF Common
<1> QED
  BY <1>1, <1>2

\* No component is computed in two graphs.
LEMMA ComputedOnce ==
    ASSUME GraphsInv, PlacesInv, FieldsInv, OneView, phase = "enforce", NEW c \in RequestScoped(Comps)
    PROVE  ~(Cardinality({i \in Members : c \in graphs[i].computes}) > 1)
<1> DEFINE S == {i \in Members : c \in graphs[i].computes}
<1>1. WellFormed /\ \A i \in Members : graphs[i] = Final(i)
  BY DEF GraphsInv
<1>2. ASSUME NEW i \in S
      PROVE  Owns(i, c)
  <2>1. i \in Members /\ c \in Final(i).computes /\ c \in RequestScoped(Final(i).computes)
    BY <1>1 DEF RequestScoped
  <2> QED
    BY <2>1, OthersOwn, WrapsOwn
<1>3. \A i, j \in S : i = j
  BY <1>1, <1>2, OneOwner
<1> HIDE DEF S
<1>4. Cardinality(S) \in {0, 1}
  <2>1. CASE S = {}
    BY <2>1, FS_EmptySet
  <2>2. CASE S # {}
    <3>1. PICK i \in S : S = {i}
      BY <1>3, <2>2
    <3> QED
      BY <3>1, FS_Singleton
  <2> QED
    BY <2>1, <2>2
<1>5. ~(Cardinality(S) > 1)
  BY <1>4
<1> QED
  BY <1>5 DEF S

\* Two members build a component that there must be one of.
BuiltTwice == \E c \in RequestScoped(Comps) : Cardinality({i \in Members : c \in graphs[i].computes}) > 1
PanicsExplained ==
    /\ phase = "panicked" => BuiltTwice
    /\ phase = "unreachable" => Conflict

\* Whatever the application, and whatever its scopes, combine_call_graphs never
\* meets a component that it asserts is not there, and codegen has a variable
\* for each input: if the compiler panics, it is because enforce_invariants
\* found a component that two members build, or because the report of a value
\* that is taken and used again finds nobody to name.
THEOREM PanicsHaveTwoReasons == Spec => []PanicsExplained
<1> DEFINE I == AnalysisInv /\ PlacesInv /\ ConflictInv /\ (phase = "panicked" => BuiltTwice)
<1>1. Init => I
  BY GraphsInit, PlacesInit, ConflictInit DEF AnalysisInv, Init, CompileInit
<1>2. ASSUME AnalysisInv, PlacesInv, phase = "panicked" => BuiltTwice, [Next]_vars, phase' = "panicked"
      PROVE  BuiltTwice'
  <2>1. GraphsInv
    BY <1>2 DEF AnalysisInv
  <2>2. CASE Combine
    BY <1>2, <2>1, <2>2, PlacesCombine
  <2>3. CASE Codegen
    BY <1>2, <2>1, <2>3, EveryInputIsThere DEF Codegen
  <2>4. CASE Enforce
    <3>1. BuiltTwice /\ app' = app /\ graphs' = graphs
      BY <1>2, <2>4 DEF Enforce, BuiltTwice
    <3> QED
      BY <3>1, OfTheApplication DEF BuiltTwice, RequestScoped
  <2>5. CASE Count \/ RejectGraph \/ CheckStage \/ Receive \/ Return
    BY <1>2, <2>5 DEF Count, RejectGraph, CheckStage, Receive, Return, Serving
  <2>6. CASE UNCHANGED compileVars
    <3>1. BuiltTwice /\ app' = app /\ graphs' = graphs
      BY <1>2, <2>6 DEF compileVars
    <3> QED
      BY <3>1, OfTheApplication DEF BuiltTwice, RequestScoped
  <2> QED
    BY <1>2, <2>2, <2>3, <2>4, <2>5, <2>6, CallsOnlyCall DEF Next, Compile, Halt, vars
<1>3. I /\ [Next]_vars => I'
  BY <1>2, AnalysisStep, PlacesStep, ConflictStep DEF AnalysisInv
<1>4. I => PanicsExplained
  BY DEF PanicsExplained, ConflictInv, StoppedByAConflict
<1> HIDE DEF I
<1> QED
  BY <1>1, <1>3, <1>4, PTL DEF Spec

\* If the members of each chain find the same constructors, the assertions of the
\* analysis hold and the generated code finds what it needs; the one panic left,
\* that of the code that reports conflicts, is met by no application without
\* one.  Only the check that a component is built once needs the hypothesis.
THEOREM PanicsOnlyForAConflict == OneView => (Spec => []AnalysesAgree)
<1> SUFFICES ASSUME OneView
             PROVE  Spec => []AnalysesAgree
  OBVIOUS
<1> DEFINE I == AnalysisInv /\ PlacesInv /\ FieldsInv /\ ConflictInv /\ phase # "panicked"
<1>1. Init => I
  <2>1. Init => AnalysisInv /\ PlacesInv /\ ConflictInv /\ phase # "panicked"
    BY GraphsInit, PlacesInit, ConflictInit DEF AnalysisInv, Init, CompileInit
  <2>2. Init => FieldsInv
    BY DEF Init, CompileInit, FieldsInv, Nothing
  <2> QED
    BY <2>1, <2>2
<1>2. ASSUME AnalysisInv, PlacesInv, FieldsInv, phase # "panicked", [Next]_vars
      PROVE  phase' # "panicked"
  <2>1. GraphsInv
    BY <1>2 DEF AnalysisInv
  <2>2. CASE Combine
    BY <1>2, <2>1, <2>2, PlacesCombine
  <2>3. CASE Enforce
    BY <1>2, <2>1, <2>3, ComputedOnce DEF Enforce
  <2>4. CASE Codegen
    BY <1>2, <2>1, <2>4, EveryInputIsThere DEF Codegen
  <2>5. CASE Count \/ RejectGraph \/ CheckStage \/ Receive \/ Return \/ UNCHANGED compileVars
    BY <1>2, <2>5 DEF Count, RejectGraph, CheckStage, Receive, Return, Serving, compileVars
  <2> QED
    BY <1>2, <2>2, <2>3, <2>4, <2>5, CallsOnlyCall DEF Next, Compile, Halt, vars
<1>3. I /\ [Next]_vars => I'
  BY <1>2, AnalysisStep, PlacesStep, FieldsStep, ConflictStep DEF AnalysisInv
<1>4. I => AnalysesAgree
  BY DEF AnalysesAgree, ConflictInv, StoppedByAConflict
<1> HIDE DEF I
<1> QED
  BY <1>1, <1>3, <1>4, PTL DEF Spec
=============================================================================
