------------------------ MODULE DocumentedOrder_proof ------------------------
(***************************************************************************)
(* The stage functions implement ExecutionOrder: what the generated code   *)
(* runs, and in which order, is what the guide says, whatever middlewares  *)
(* are registered and whichever of them answer early.                      *)
(***************************************************************************)
EXTENDS RequestPipeline_proof

-----------------------------------------------------------------------------
(* Stages and what is around their members. *)

\* A wrapping middleware is around the members of the next stage.
LEMMA AroundIsTheStageBefore ==
    ASSUME WellFormed, NEW i \in Members, NEW w \in Members, app.chain[w].kind = "wrap"
    PROVE  Documented!Around(w, i) <=> StageOf(i) = StageOf(w) + 1
<1> DEFINE kinds == [j \in Members |-> app.chain[j].kind]
           Ahead(j) == {v \in Members : v < j /\ IsMiddle(v)}
           n == Len(app.chain)
<1>1. n \in Nat /\ Members = 1..n /\ IsMiddle(w)
  BY ChainShape DEF IsMiddle
<1>2. StageOf(i) \in Nat /\ StageOf(w) \in Nat
  BY StageFacts
<1>3. Documented!Around(w, i) <=> w < i /\ \A v \in (w + 1)..(i - 1) : kinds[v] # "wrap"
  BY <1>1 DEF Documented!Around
<1>4. ASSUME w < i, \A v \in (w + 1)..(i - 1) : kinds[v] # "wrap"
      PROVE  StageOf(i) = StageOf(w) + 1
  <2>1. ASSUME NEW v \in Members, w < v, v < i
        PROVE  ~IsMiddle(v)
    <3>1. v \in (w + 1)..(i - 1) /\ v # n
      BY <1>1, <2>1
    <3>2. app.chain[v].kind # "wrap"
      BY <1>4, <3>1
    <3>3. app.chain[v].kind # "handler"
      BY <3>1, AppShape
    <3> QED
      BY <3>2, <3>3 DEF IsMiddle
  <2>2. Ahead(i) = Ahead(w) \cup {w} /\ w \notin Ahead(w)
    BY <1>1, <1>4, <2>1
  <2>3. IsFiniteSet(Ahead(w))
    <3>1. IsFiniteSet(1..n)
      BY <1>1, FS_Interval
    <3> QED
      BY <1>1, <3>1, FS_Subset
  <2> HIDE DEF Ahead
  <2>4. Cardinality(Ahead(i)) = Cardinality(Ahead(w)) + 1
    BY <2>2, <2>3, FS_AddElement
  <2> QED
    BY <2>4 DEF StageOf, Ahead
<1>5. ASSUME StageOf(i) = StageOf(w) + 1
      PROVE  w < i /\ \A v \in (w + 1)..(i - 1) : kinds[v] # "wrap"
  <2>1. w < i
    <3> SUFFICES ASSUME i < w
                 PROVE  FALSE
      BY <1>1, <1>2, <1>5
    <3>1. Ahead(i) \subseteq Ahead(w)
      BY <1>1
    <3>2. IsFiniteSet(Ahead(w))
      <4>1. IsFiniteSet(1..n)
        BY <1>1, FS_Interval
      <4> QED
        BY <1>1, <4>1, FS_Subset
    <3> HIDE DEF Ahead
    <3>3. Cardinality(Ahead(i)) <= Cardinality(Ahead(w))
      BY <3>1, <3>2, FS_Subset
    <3> QED
      BY <1>2, <1>5, <3>3 DEF StageOf, Ahead
  <2>2. ASSUME NEW v \in (w + 1)..(i - 1), kinds[v] = "wrap"
        PROVE  FALSE
    <3>1. v \in Members /\ w < v /\ v < i
      BY <1>1
    <3>2. IsMiddle(v) /\ StageOf(v) \in Nat
      BY <2>2, <3>1, StageFacts DEF IsMiddle
    <3>3. StageOf(w) < StageOf(v) /\ StageOf(v) < StageOf(i)
      BY <1>1, <3>1, <3>2, StageFacts
    <3> QED
      BY <1>2, <1>5, <3>2, <3>3
  <2> QED
    BY <2>1, <2>2
<1> QED
  BY <1>3, <1>4, <1>5

\* A stage has one member that calls the rest or is the handler.
LEMMA OneMiddle ==
    ASSUME WellFormed, NEW v \in Members, NEW w \in Members,
           IsMiddle(v), IsMiddle(w), StageOf(v) = StageOf(w)
    PROVE  v = w
<1>1. v \in Nat /\ w \in Nat /\ StageOf(v) \in Nat
  BY BeforeIsTotal, StageFacts
<1>2. ~(v < w) /\ ~(w < v)
  BY <1>1, StageFacts
<1> QED
  BY <1>1, <1>2

\* The stage after that of a wrapping middleware has one.
LEMMA NextStageHasAMiddle ==
    ASSUME WellFormed, NEW w \in Members, app.chain[w].kind = "wrap"
    PROVE  \E v \in Members : IsMiddle(v) /\ StageOf(v) = StageOf(w) + 1
<1> DEFINE n == Len(app.chain)
           Later == {v \in Members : w < v /\ IsMiddle(v)}
<1>1. n \in Nat /\ Members = 1..n /\ n \in Members /\ IsMiddle(n) /\ w # n
  BY ChainShape, StageFacts, AppShape DEF IsMiddle
<1>2. Later \in SUBSET Nat /\ Later # {}
  BY <1>1
<1>3. PICK v \in Later : \A x \in Later : v <= x
  <2> HIDE DEF Later
  <2> QED BY <1>2, LeastExists
<1>4. \A u \in (w + 1)..(v - 1) : [j \in Members |-> app.chain[j].kind][u] # "wrap"
  <2> SUFFICES ASSUME NEW u \in (w + 1)..(v - 1), app.chain[u].kind = "wrap", u \in Members
               PROVE  FALSE
    BY <1>1
  <2>1. u \in Later /\ u < v
    BY <1>1 DEF IsMiddle
  <2> QED
    BY <1>1, <1>3, <2>1
<1>5. Documented!Around(w, v)
  BY <1>3, <1>4 DEF Documented!Around
<1> QED
  BY <1>3, <1>5, AroundIsTheStageBefore

-----------------------------------------------------------------------------
(* The stack of stage functions and what happened so far. *)

Events == [member : Members, what : {"runs", "answers", "completes"}]
Did(i, w) == \E n \in DOMAIN trail : trail[n] = [member |-> i, what |-> w]
HasRun(i) == Did(i, "runs") \/ Did(i, "answers")
HasAnswer == \E i \in Members : Did(i, "answers")
IsPost(i) == app.chain[i].kind = "post"
Waits(w) == app.chain[w].kind = "wrap" /\ Did(w, "runs") /\ ~Did(w, "completes")

\* The frames are those of the first stages.  What is left of them has not run;
\* what is not left has, but for what an early answer skips.
FrameTrail(n) ==
    /\ stack[n].stage = n - 1
    /\ \A i \in stack[n].left : ~HasRun(i)
    /\ \A i \in InStage(n - 1) : i \notin stack[n].left /\ (IsPost(i) \/ ~HasAnswer) => HasRun(i)
\* A frame that is not the last one waits for its wrapping middleware.
FrameWaits(n) ==
    /\ \A i \in stack[n].left : IsPost(i)
    /\ \E w \in InStage(n - 1) : Waits(w)
OrderInv ==
    /\ trail \in Seq(Events)
    /\ phase \notin {"serving", "answered"} => trail = << >>
    /\ \A i \in Members : Did(i, "completes") => HasRun(i)
    /\ phase = "serving" =>
          /\ \A n \in DOMAIN stack : FrameTrail(n) /\ (n < Len(stack) => FrameWaits(n))
          /\ \A w \in Members : Waits(w) => StageOf(w) + 1 < Len(stack)
          /\ ~HasAnswer => /\ stack # << >>
                           /\ \E i \in Top.left : IsMiddle(i)
                           /\ \A i \in Members : StageOf(i) >= Len(stack) => ~HasRun(i)
          /\ HasAnswer /\ stack # << >> => \A i \in Top.left : IsPost(i)

\* What a step adds to the trail.
LEMMA DidAfter ==
    ASSUME trail \in Seq(Events), NEW i \in Members, NEW w \in {"runs", "answers", "completes"}, Log(i, w)
    PROVE  /\ trail' \in Seq(Events)
           /\ \A j, x : Did(j, x)' <=> Did(j, x) \/ (j = i /\ x = w)
<1> DEFINE e == [member |-> i, what |-> w]
<1>1. e \in Events /\ trail' = Append(trail, e)
  BY DEF Log, Events
<1>2. trail' \in Seq(Events)
  <2> HIDE DEF e
  <2> QED BY <1>1
<1>3. /\ DOMAIN trail' = DOMAIN trail \cup {Len(trail) + 1}
      /\ \A n \in DOMAIN trail : trail'[n] = trail[n]
      /\ trail'[Len(trail) + 1] = e
  <2> HIDE DEF e
  <2> QED BY <1>1
<1>4. \A j, x : Did(j, x)' <=> \E n \in DOMAIN trail' : trail'[n] = [member |-> j, what |-> x]
  BY DEF Did
<1>5. \A j, x : e = [member |-> j, what |-> x] <=> j = i /\ x = w
  OBVIOUS
<1> HIDE DEF e
<1>6. ASSUME NEW j, NEW x
      PROVE  Did(j, x)' <=> Did(j, x) \/ (j = i /\ x = w)
  <2>1. Did(j, x)' <=> \/ \E n \in DOMAIN trail : trail'[n] = [member |-> j, what |-> x]
                       \/ e = [member |-> j, what |-> x]
    BY <1>3, <1>4
  <2> QED
    BY <1>3, <1>5, <2>1 DEF Did
<1> QED
  BY <1>2, <1>6

LEMMA DidKept ==
    ASSUME trail' = trail
    PROVE  \A j, x : Did(j, x)' <=> Did(j, x)
BY DEF Did

-----------------------------------------------------------------------------
(* A step of a stage function is a step of the documented walk. *)

Inv == AnalysisInv /\ FramesInv /\ OrderInv

LEMMA TurnFacts ==
    ASSUME Inv, NEW i, Calling(i)
    PROVE  /\ i \in Members /\ i \in Top.left /\ \A j \in Top.left : i = j \/ Before(i, j)
           /\ Len(stack) \in DOMAIN stack /\ StageOf(i) = Len(stack) - 1
           /\ FrameTrail(Len(stack)) /\ ~HasRun(i)
           /\ IsPost(i) <=> HasAnswer
<1>1. /\ Top \in Frames /\ FrameOK(Top) /\ Len(stack) \in DOMAIN stack
      /\ i \in Top.left /\ \A j \in Top.left : i = j \/ Before(i, j)
  BY TurnIsEarliest DEF Inv, Calling
<1>2. i \in Members /\ StageOf(i) = Top.stage
  BY <1>1 DEF Frames, FrameOK, InStage
<1>3. FrameTrail(Len(stack)) /\ stack # << >>
  BY <1>1 DEF Inv, OrderInv, Calling, Serving
<1>4. Top.stage = Len(stack) - 1 /\ ~HasRun(i)
  BY <1>1, <1>3 DEF FrameTrail, Top
<1>5. HasAnswer => IsPost(i)
  BY <1>1, <1>3 DEF Inv, OrderInv, Calling, Serving
<1>6. IsPost(i) => HasAnswer
  <2> SUFFICES ASSUME IsPost(i), ~HasAnswer
               PROVE  FALSE
    OBVIOUS
  <2>1. PICK m \in Top.left : IsMiddle(m)
    BY <1>3 DEF Inv, OrderInv, Calling, Serving
  <2>2. Rank(i) = 2 /\ Rank(m) = 1 /\ i # m
    BY <2>1 DEF IsPost, Rank, IsMiddle
  <2> QED
    BY <1>1, <2>1, <2>2 DEF Before
<1> QED
  BY <1>1, <1>2, <1>3, <1>4, <1>5, <1>6

\* On the way in, what was registered earlier has run.
LEMMA EarlierRan ==
    ASSUME Inv, NEW i, Calling(i), ~IsPost(i), NEW j \in Members, j < i, ~IsPost(j)
    PROVE  HasRun(j)
<1> DEFINE n == Len(stack)
<1>1. WellFormed /\ phase = "serving"
  BY DEF Inv, AnalysisInv, GraphsInv, Calling, Serving
<1>2. /\ i \in Members /\ \A m \in Top.left : i = m \/ Before(i, m)
      /\ n \in DOMAIN stack /\ StageOf(i) = n - 1 /\ FrameTrail(n) /\ ~HasAnswer
  BY TurnFacts
<1>3. i \in Nat /\ j \in Nat /\ n \in Nat /\ DOMAIN stack = 1..n
  <2>1. n \in Nat /\ DOMAIN stack = 1..n
    BY DEF Inv, FramesInv
  <2> HIDE DEF n
  <2> QED
    BY <1>1, <1>2, <2>1, BeforeIsTotal
<1>4. StageOf(j) \in Nat /\ StageOf(j) <= n - 1
  BY <1>1, <1>2, <1>3, StageFacts
<1>5. CASE StageOf(j) < n - 1
  <2> DEFINE m == StageOf(j) + 1
  <2>1. m \in DOMAIN stack /\ m < n
    BY <1>3, <1>4, <1>5
  <2>2. FrameTrail(m) /\ FrameWaits(m)
    BY <1>1, <2>1 DEF Inv, OrderInv
  <2>3. j \in InStage(m - 1) /\ j \notin stack[m].left
    BY <1>4, <2>2 DEF InStage, FrameWaits
  <2> QED
    BY <1>2, <2>2, <2>3 DEF FrameTrail
<1>6. CASE StageOf(j) = n - 1
  <2>1. j \in InStage(n - 1)
    BY <1>6 DEF InStage
  <2>2. j \notin Top.left
    <3> SUFFICES ASSUME j \in Top.left
                 PROVE  FALSE
      OBVIOUS
    <3>1. Before(i, j)
      BY <1>2, <1>3
    <3>2. Rank(i) < Rank(j)
      BY <1>3, <3>1 DEF Before
    <3>3. IsMiddle(j)
      BY <1>1, <1>2, <3>2, ChainShape DEF Rank, IsMiddle, IsPost, Kinds
    <3>4. StageOf(j) < StageOf(i)
      BY <1>1, <1>2, <3>3, StageFacts
    <3> QED
      BY <1>2, <1>3, <1>6, <3>4
  <2> QED
    BY <1>2, <2>1, <2>2 DEF FrameTrail, Top
<1> QED
  BY <1>3, <1>4, <1>5, <1>6

\* The vocabulary of ExecutionOrder.
LEMMA Vocabulary ==
    ASSUME WellFormed
    PROVE  /\ \A i \in Members : Documented!Ran(i) <=> HasRun(i)
           /\ Documented!Answered <=> HasAnswer
           /\ \A i \in Members : Documented!Inward(i) <=> ~IsPost(i)
           /\ \A i \in Members : Documented!Open(i) <=> Waits(i)
<1>1. \A i, w : Documented!Did(i, w) <=> Did(i, w)
  BY DEF Documented!Did, Documented!Event, Did
<1> QED
  BY <1>1 DEF Documented!Ran, HasRun, Documented!Answered, HasAnswer, Documented!Inward, IsPost,
                    Documented!Open, Waits

LEMMA CallEnters ==
    ASSUME Inv, NEW i, Calling(i), ~IsPost(i), app' = app,
           \/ app.chain[i].kind # "handler" /\ Log(i, "runs")
           \/ Log(i, "answers")
    PROVE  i \in Members /\ Documented!Enter(i)
<1>1. WellFormed
  BY DEF Inv, AnalysisInv, GraphsInv
<1>2. i \in Members /\ ~HasRun(i) /\ ~HasAnswer
  BY TurnFacts
<1>3. \A j \in 1..(i - 1) : j \in Members /\ j < i
  BY <1>1, <1>2, ChainShape
<1>4. \A j \in 1..(i - 1) : Documented!Inward(j) => Documented!Ran(j)
  BY <1>1, <1>3, EarlierRan, Vocabulary
<1>5. Documented!Inward(i) /\ ~Documented!Ran(i) /\ ~Documented!Answered
  BY <1>1, <1>2, Vocabulary
<1>6. UNCHANGED [j \in Members |-> app.chain[j].kind]
  BY OfTheApplication
<1>7. \/ [j \in Members |-> app.chain[j].kind][i] # "handler" /\ Documented!Log(i, "runs")
      \/ Documented!Log(i, "answers")
  BY <1>2, <1>6 DEF Documented!Log, Documented!Event, Log
<1> QED
  BY <1>2, <1>4, <1>5, <1>7 DEF Documented!Enter

LEMMA InnermostOne ==
    ASSUME Inv, phase = "serving", NEW w \in Members, Waits(w), StageOf(w) = Len(stack) - 2
    PROVE  Documented!Innermost(w)
<1>1. WellFormed /\ Len(stack) \in Nat
  BY DEF Inv, AnalysisInv, GraphsInv, FramesInv
<1>2. ASSUME NEW v \in Members, v > w, Waits(v)
      PROVE  FALSE
  <2>1. StageOf(v) + 1 < Len(stack)
    BY <1>2 DEF Inv, OrderInv
  <2>2. StageOf(w) < StageOf(v) /\ StageOf(v) \in Nat
    BY <1>1, <1>2, StageFacts, ChainShape DEF Waits, IsMiddle
  <2> QED
    BY <1>1, <2>1, <2>2
<1>3. \A v \in Members : v > w => ~Documented!Open(v)
  BY <1>1, <1>2, Vocabulary
<1> QED
  BY <1>1, <1>3, Vocabulary DEF Documented!Innermost

LEMMA CallPosts ==
    ASSUME Inv, NEW i, Calling(i), IsPost(i), app' = app, Log(i, "runs")
    PROVE  i \in Members /\ Documented!Post(i)
<1> DEFINE n == Len(stack)
           kinds == [j \in Members |-> app.chain[j].kind]
<1>1. WellFormed /\ phase = "serving"
  BY DEF Inv, AnalysisInv, GraphsInv, Calling, Serving
<1>2. /\ i \in Members /\ i \in Top.left /\ \A m \in Top.left : i = m \/ Before(i, m)
      /\ n \in DOMAIN stack /\ StageOf(i) = n - 1 /\ FrameTrail(n) /\ HasAnswer /\ ~HasRun(i)
  BY TurnFacts
<1>3. n \in Nat \ {0} /\ DOMAIN stack = 1..n /\ i \in Nat
  BY <1>1, <1>2, BeforeIsTotal DEF Inv, FramesInv
<1>4. n # 1
  <2> SUFFICES ASSUME n = 1
               PROVE  FALSE
    OBVIOUS
  <2>1. StageOf(i) = 0 /\ StageOf(1) = 0 /\ 1 \in Members /\ app.chain[1].kind = "wrap"
    BY <1>1, <1>2, StageFacts, AppShape
  <2>2. i # 1 /\ 1 < i
    BY <1>1, <1>2, <2>1, ChainShape DEF IsPost
  <2>3. StageOf(1) < StageOf(i)
    BY <1>1, <1>2, <2>1, <2>2, StageFacts DEF IsMiddle
  <2> QED
    BY <2>1, <2>3
<1>5. PICK w \in InStage(n - 2) : Waits(w)
  <2>1. n - 1 \in DOMAIN stack /\ n - 1 < n /\ (n - 1) - 1 = n - 2
    BY <1>3, <1>4
  <2>2. FrameWaits(n - 1)
    BY <1>1, <2>1 DEF Inv, OrderInv
  <2> QED
    BY <2>1, <2>2 DEF FrameWaits
<1>6. w \in Members /\ StageOf(w) = n - 2 /\ app.chain[w].kind = "wrap"
  BY <1>5 DEF InStage, Waits
<1>7. Documented!Innermost(w) /\ Documented!Around(w, i)
  <2>1. StageOf(i) = StageOf(w) + 1
    BY <1>2, <1>3, <1>6
  <2> QED
    BY <1>1, <1>2, <1>5, <1>6, <2>1, InnermostOne, AroundIsTheStageBefore
<1>8. ASSUME NEW j \in 1..(i - 1), kinds[j] = "post",
             \E v \in Members : Documented!Around(v, i) /\ Documented!Around(v, j)
      PROVE  Documented!Ran(j)
  <2>1. j \in Members /\ j < i /\ IsPost(j)
    BY <1>1, <1>2, <1>8, ChainShape DEF IsPost
  <2>2. PICK v \in Members : Documented!Around(v, i) /\ Documented!Around(v, j)
    BY <1>8
  <2>3. app.chain[v].kind = "wrap"
    BY <2>2 DEF Documented!Around
  <2>4. StageOf(j) = StageOf(i)
    BY <1>1, <1>2, <2>1, <2>2, <2>3, AroundIsTheStageBefore
  <2>5. j \in InStage(n - 1)
    BY <1>2, <2>1, <2>4 DEF InStage
  <2>6. Before(j, i)
    BY <1>2, <2>1 DEF Before, Rank, IsPost, IsMiddle
  <2>7. j \notin Top.left
    BY <1>1, <1>2, <2>1, <2>6, BeforeIsTotal
  <2>8. HasRun(j)
    BY <1>2, <2>1, <2>5, <2>7 DEF FrameTrail, Top
  <2> QED
    BY <1>1, <2>1, <2>8, Vocabulary
<1>9. UNCHANGED kinds
  BY OfTheApplication
<1>10. Documented!Log(i, "runs")
  BY <1>9 DEF Documented!Log, Documented!Event, Log
<1>11. kinds[i] = "post" /\ ~Documented!Ran(i) /\ Documented!Answered
  BY <1>1, <1>2, Vocabulary DEF IsPost
<1>12. \E v \in DOMAIN kinds : Documented!Innermost(v) /\ Documented!Around(v, i)
  BY <1>6, <1>7
<1> QED
  BY <1>2, <1>8, <1>10, <1>11, <1>12 DEF Documented!Post

\* A stage returns to the wrapping middleware that waits for it.
LEMMA ReturnFacts ==
    ASSUME Inv, Return, Len(stack) # 1
    PROVE  LET n == Len(stack)
               w == Middle(stack[n - 1].stage)
           IN /\ n \in Nat \ {0, 1} /\ DOMAIN stack = 1..n
              /\ w \in InStage(n - 2) /\ w \in Members /\ StageOf(w) = n - 2 /\ Waits(w) /\ HasAnswer
              /\ Top.left = {} /\ FrameTrail(n) /\ FrameWaits(n - 1)
<1> DEFINE n == Len(stack)
           w == Middle(stack[n - 1].stage)
<1>1. WellFormed /\ phase = "serving" /\ stack # << >> /\ Top.left = {}
  BY DEF Inv, AnalysisInv, GraphsInv, Return, Serving
<1>2. n \in Nat \ {0, 1} /\ DOMAIN stack = 1..n
  BY <1>1 DEF Inv, FramesInv
<1>3. n \in DOMAIN stack /\ n - 1 \in DOMAIN stack /\ n - 1 < n /\ (n - 1) - 1 = n - 2
  BY <1>2
<1>4. FrameTrail(n) /\ FrameTrail(n - 1) /\ FrameWaits(n - 1)
  BY <1>1, <1>3 DEF Inv, OrderInv
<1>5. PICK v \in InStage(n - 2) : Waits(v)
  BY <1>3, <1>4 DEF FrameWaits
<1>6. stack[n - 1].stage = n - 2
  BY <1>3, <1>4 DEF FrameTrail
<1>7. v \in Members /\ StageOf(v) = n - 2 /\ IsMiddle(v)
  BY <1>5 DEF InStage, Waits, IsMiddle
<1>8. \A u \in InStage(n - 2) : IsMiddle(u) => u = v
  BY <1>1, <1>7, OneMiddle DEF InStage
<1>9. w = v
  BY <1>5, <1>6, <1>7, <1>8 DEF Middle
<1>10. HasAnswer
  BY <1>1 DEF Inv, OrderInv
<1> QED
  BY <1>1, <1>2, <1>4, <1>5, <1>7, <1>9, <1>10

LEMMA ReturnCompletes ==
    ASSUME Inv, Return, Len(stack) # 1
    PROVE  \E w \in Members : Documented!Complete(w)
<1> DEFINE n == Len(stack)
           w == Middle(stack[n - 1].stage)
           kinds == [j \in Members |-> app.chain[j].kind]
<1>1. WellFormed /\ phase = "serving" /\ app' = app /\ Log(w, "completes")
  BY DEF Inv, AnalysisInv, GraphsInv, Return, Serving
<1>2. /\ n \in Nat \ {0, 1}
      /\ w \in Members /\ StageOf(w) = n - 2 /\ Waits(w) /\ HasAnswer
      /\ Top.left = {} /\ FrameTrail(n)
  BY ReturnFacts
<1> HIDE DEF w
<1>3. Documented!Innermost(w)
  BY <1>1, <1>2, InnermostOne
<1>4. ASSUME NEW i \in Members, Documented!Around(w, i), kinds[i] = "post"
      PROVE  Documented!Ran(i)
  <2>1. StageOf(i) = n - 1
    BY <1>1, <1>2, <1>4, AroundIsTheStageBefore DEF Waits
  <2>2. i \in InStage(n - 1) /\ i \notin stack[n].left /\ IsPost(i)
    BY <1>2, <1>4, <2>1 DEF InStage, IsPost, Top
  <2> QED
    BY <1>1, <1>2, <2>2, Vocabulary DEF FrameTrail
<1>5. UNCHANGED kinds
  BY <1>1, OfTheApplication
<1>6. Documented!Log(w, "completes")
  BY <1>1, <1>5 DEF Documented!Log, Documented!Event, Log
<1>7. Documented!Answered
  BY <1>1, <1>2, Vocabulary
<1> QED
  BY <1>2, <1>3, <1>4, <1>6, <1>7 DEF Documented!Complete

-----------------------------------------------------------------------------
(* The invariant is kept. *)

\* A call that is not one of Next.
LEMMA CallKeepsOrder ==
    ASSUME Inv, NEW i, Calling(i), UNCHANGED compileVars,
           NEW left, stack' = Called(i, left), NEW w, Log(i, w),
           \/ w = "runs" /\ left = Top.left \ {i} /\ app.chain[i].kind \in {"pre", "post"}
           \/ w = "answers" /\ left = Posts /\ ~IsPost(i)
    PROVE  OrderInv'
<1> PICK n : n = Len(stack)
  OBVIOUS
<1>1. /\ app' = app /\ phase' = "serving" /\ phase = "serving"
      /\ trail \in Seq(Events) /\ stack \in Seq(Frames)
  BY DEF compileVars, Calling, Serving, Inv, OrderInv, FramesInv
<1>2. /\ i \in Members /\ i \in Top.left /\ \A j \in Top.left : i = j \/ Before(i, j)
      /\ n \in DOMAIN stack /\ StageOf(i) = n - 1 /\ FrameTrail(n) /\ ~HasRun(i)
      /\ IsPost(i) <=> HasAnswer
  BY TurnFacts
<1>3. /\ trail' \in Seq(Events)
      /\ \A j, x : Did(j, x)' <=> Did(j, x) \/ (j = i /\ x = w)
  BY <1>1, <1>2, DidAfter
<1>4. /\ \A j : HasRun(j)' <=> HasRun(j) \/ j = i
      /\ HasAnswer' <=> HasAnswer \/ w = "answers"
      /\ \A v \in Members : Waits(v)' <=> Waits(v)
  <2>1. \A j : HasRun(j)' <=> HasRun(j) \/ j = i
    BY <1>3 DEF HasRun
  <2>2. HasAnswer' <=> HasAnswer \/ w = "answers"
    BY <1>1, <1>2, <1>3, OfTheApplication DEF HasAnswer
  <2>3. \A v \in Members : Waits(v)' <=> Waits(v)
    BY <1>1, <1>3 DEF Waits
  <2> QED
    BY <2>1, <2>2, <2>3
<1>5. /\ Len(stack') = n /\ DOMAIN stack' = DOMAIN stack /\ DOMAIN stack = 1..n /\ n \in Nat \ {0}
      /\ \A m \in DOMAIN stack : m # n => stack'[m] = stack[m]
      /\ stack'[n].stage = stack[n].stage /\ stack'[n].left = left
  <2>1. stack' = [stack EXCEPT ![n] = [stage |-> Top.stage, left |-> left, values |-> ValuesAfter(i)]]
    BY DEF Called
  <2> QED
    BY <1>1, <1>2, <2>1 DEF Top
<1>6. left \subseteq Top.left \ {i} /\ stack[n] = Top
  BY DEF Posts, IsPost, Top
<1>7. \A j : IsPost(j)' <=> IsPost(j)
  BY <1>1 DEF IsPost
<1>8. ASSUME NEW m \in DOMAIN stack, m # n
      PROVE  FrameTrail(m)' /\ FrameWaits(m)'
  <2>1. FrameTrail(m) /\ FrameWaits(m) /\ FrameOK(stack[m]) /\ m \in Nat
    BY <1>1, <1>2, <1>5, <1>8 DEF Inv, OrderInv, FramesInv
  <2>2. i \notin stack[m].left
    <3> SUFFICES ASSUME i \in stack[m].left
                 PROVE  FALSE
      OBVIOUS
    <3>1. StageOf(i) = m - 1
      BY <2>1 DEF FrameOK, FrameTrail, InStage
    <3> QED
      BY <1>2, <1>5, <1>8, <2>1, <3>1
  <2>3. FrameTrail(m)'
    BY <1>1, <1>4, <1>5, <1>7, <1>8, <2>1, <2>2, OfTheApplication DEF FrameTrail
  <2>4. FrameWaits(m)'
    BY <1>1, <1>4, <1>5, <1>7, <1>8, <2>1, OfTheApplication DEF FrameWaits, InStage
  <2> QED
    BY <2>3, <2>4
<1>9. FrameTrail(n)'
  <2>1. stack'[n].stage = n - 1
    BY <1>2, <1>5 DEF FrameTrail
  <2>2. \A j \in stack'[n].left : ~HasRun(j)'
    BY <1>2, <1>4, <1>5, <1>6 DEF FrameTrail
  <2>3. ASSUME NEW j \in InStage(n - 1), j \notin left, IsPost(j) \/ ~HasAnswer'
        PROVE  HasRun(j)'
    <3>1. CASE j \notin Top.left
      BY <1>2, <1>4, <1>6, <2>3, <3>1 DEF FrameTrail
    <3>2. CASE j = i
      BY <1>4, <3>2
    <3>3. CASE j \in Top.left /\ j # i
      BY <1>4, <2>3, <3>3 DEF Posts, IsPost
    <3> QED
      BY <3>1, <3>2, <3>3
  <2> QED
    BY <1>1, <1>5, <1>7, <2>1, <2>2, <2>3, OfTheApplication DEF FrameTrail
<1>10. (\A m \in DOMAIN stack : FrameTrail(m) /\ (m < Len(stack) => FrameWaits(m)))'
  <2>1. \A m \in DOMAIN stack' : m # n => FrameTrail(m)' /\ FrameWaits(m)'
    BY <1>5, <1>8
  <2> QED
    BY <1>5, <1>9, <2>1
<1>11. (\A v \in Members : Waits(v) => StageOf(v) + 1 < Len(stack))'
  BY <1>1, <1>4, <1>5, OfTheApplication DEF Inv, OrderInv
<1>12. Top' = stack'[n]
  BY <1>5 DEF Top
<1>13. ASSUME ~HasAnswer'
       PROVE  /\ stack' # << >>
              /\ \E j \in Top.left' : IsMiddle(j)'
              /\ \A j \in Members : StageOf(j) >= n => ~HasRun(j)'
  <2>1. w = "runs" /\ ~HasAnswer /\ left = Top.left \ {i} /\ app.chain[i].kind = "pre"
    BY <1>2, <1>4, <1>13 DEF IsPost
  <2>2. PICK m \in Top.left : IsMiddle(m)
    BY <1>1, <2>1 DEF Inv, OrderInv, Calling, Serving
  <2>3. m \in left
    BY <2>1, <2>2 DEF IsMiddle
  <2>4. \A j \in Members : StageOf(j) >= n => ~HasRun(j)
    BY <1>1, <2>1 DEF Inv, OrderInv
  <2>5. IsMiddle(m)' /\ m \in Top.left'
    BY <1>1, <1>5, <1>12, <2>2, <2>3 DEF IsMiddle
  <2>6. ASSUME NEW j \in Members, StageOf(j) >= n
        PROVE  ~HasRun(j)'
    BY <1>2, <1>4, <1>5, <2>4, <2>6
  <2>7. stack' # << >>
    BY <1>2, <1>5
  <2> QED
    BY <2>5, <2>6, <2>7
<1>14. ASSUME HasAnswer'
       PROVE  \A j \in Top.left' : IsPost(j)'
  <2>1. CASE w = "answers"
    BY <1>1, <1>5, <1>12, <2>1 DEF Posts, IsPost
  <2>2. CASE w # "answers"
    <3>1. HasAnswer /\ left \subseteq Top.left
      BY <1>4, <1>6, <1>14, <2>2
    <3>2. \A j \in Top.left : IsPost(j)
      BY <1>1, <3>1 DEF Inv, OrderInv, Calling, Serving
    <3> QED
      BY <1>5, <1>7, <1>12, <3>1, <3>2
  <2> QED
    BY <2>1, <2>2
<1>15. (\A j \in Members : Did(j, "completes") => HasRun(j))'
  BY <1>1, <1>3, <1>4, OfTheApplication DEF Inv, OrderInv
<1>16. trail' \in Seq(Events)'
  BY <1>1, <1>3, OfTheApplication DEF Events
<1>17. (~HasAnswer => /\ stack # << >>
                      /\ \E j \in Top.left : IsMiddle(j)
                      /\ \A j \in Members : StageOf(j) >= Len(stack) => ~HasRun(j))'
  BY <1>1, <1>5, <1>13, OfTheApplication
<1> QED
  BY <1>1, <1>10, <1>11, <1>14, <1>15, <1>16, <1>17 DEF OrderInv

\* A call of Next.
LEMMA CallNextKeepsOrder ==
    ASSUME Inv, NEW i, CallNext(i)
    PROVE  OrderInv'
<1> PICK n : n = Len(stack)
  OBVIOUS
<1> PICK left : left = Top.left \ {i}
  OBVIOUS
<1>1. /\ app' = app /\ phase' = "serving" /\ phase = "serving" /\ app.chain[i].kind = "wrap"
      /\ trail \in Seq(Events) /\ stack \in Seq(Frames) /\ Calling(i) /\ Log(i, "runs") /\ WellFormed
  BY DEF CallNext, compileVars, Calling, Serving, Inv, OrderInv, FramesInv, AnalysisInv, GraphsInv
<1>2. /\ i \in Members /\ i \in Top.left /\ \A j \in Top.left : i = j \/ Before(i, j)
      /\ n \in DOMAIN stack /\ StageOf(i) = n - 1 /\ FrameTrail(n) /\ ~HasRun(i) /\ ~HasAnswer
  BY <1>1, TurnFacts DEF IsPost
<1>3. /\ trail' \in Seq(Events)
      /\ \A j, x : Did(j, x)' <=> Did(j, x) \/ (j = i /\ x = "runs")
  BY <1>1, <1>2, DidAfter
<1>4. /\ \A j : HasRun(j)' <=> HasRun(j) \/ j = i
      /\ ~HasAnswer'
      /\ \A v \in Members : Waits(v)' <=> Waits(v) \/ v = i
  <2>1. \A j : HasRun(j)' <=> HasRun(j) \/ j = i
    BY <1>3 DEF HasRun
  <2>2. ~HasAnswer'
    BY <1>1, <1>2, <1>3, OfTheApplication DEF HasAnswer
  <2>3. ~Did(i, "completes")
    BY <1>2 DEF Inv, OrderInv
  <2>4. \A v \in Members : Waits(v)' <=> Waits(v) \/ v = i
    BY <1>1, <1>3, <2>3 DEF Waits
  <2> QED
    BY <2>1, <2>2, <2>4
<1>5. /\ DOMAIN stack = 1..n /\ n \in Nat \ {0} /\ stack[n] = Top
      /\ Len(stack') = n + 1 /\ DOMAIN stack' = 1..(n + 1)
      /\ \A m \in 1..(n - 1) : stack'[m] = stack[m]
      /\ stack'[n].stage = n - 1 /\ stack'[n].left = left
      /\ stack'[n + 1].stage = n /\ stack'[n + 1].left = InStage(n)
  <2> DEFINE below == [stack EXCEPT ![n] = [stage |-> Top.stage, left |-> left, values |-> ValuesAfter(i)]]
  <2>1. PICK fields : stack' = Append(below, Frame(Top.stage + 1, fields))
    BY DEF CallNext, Called
  <2>2. stack[n] = Top /\ Top.stage = n - 1 /\ n \in Nat \ {0} /\ DOMAIN stack = 1..n
    BY <1>1, <1>2 DEF Top, FrameTrail
  <2> DEFINE f == Frame(Top.stage + 1, fields)
  <2>3. f.stage = n /\ f.left = InStage(n)
    BY <2>2 DEF Frame
  <2>4. /\ Len(below) = n /\ DOMAIN below = 1..n /\ below[n].stage = n - 1 /\ below[n].left = left
        /\ \A m \in 1..(n - 1) : below[m] = stack[m]
    BY <1>1, <2>2
  <2>5. below \in Seq(Frames \cup {below[n]})
    BY <1>1, <2>2
  <2> HIDE DEF below, f
  <2>6. /\ Len(Append(below, f)) = n + 1 /\ DOMAIN Append(below, f) = 1..(n + 1)
        /\ \A m \in 1..n : Append(below, f)[m] = below[m]
        /\ Append(below, f)[n + 1] = f
    BY <2>2, <2>4, <2>5
  <2>7. stack' = Append(below, f)
    BY <2>1 DEF f
  <2> QED
    BY <2>2, <2>3, <2>4, <2>6, <2>7
<1>6. \A j : IsPost(j)' <=> IsPost(j)
  BY <1>1 DEF IsPost
<1>7. ASSUME NEW m \in 1..(n - 1)
      PROVE  FrameTrail(m)' /\ FrameWaits(m)'
  <2>1. FrameTrail(m) /\ FrameWaits(m) /\ FrameOK(stack[m]) /\ m \in Nat /\ m # n
    BY <1>1, <1>2, <1>5, <1>7 DEF Inv, OrderInv, FramesInv
  <2>2. i \notin stack[m].left
    <3> SUFFICES ASSUME i \in stack[m].left
                 PROVE  FALSE
      OBVIOUS
    <3>1. StageOf(i) = m - 1
      BY <2>1 DEF FrameOK, FrameTrail, InStage
    <3> QED
      BY <1>2, <1>5, <1>7, <2>1, <3>1
  <2>3. FrameTrail(m)'
    BY <1>1, <1>2, <1>4, <1>5, <1>6, <1>7, <2>1, <2>2, OfTheApplication DEF FrameTrail
  <2>4. FrameWaits(m)'
    BY <1>1, <1>4, <1>5, <1>6, <1>7, <2>1, OfTheApplication DEF FrameWaits, InStage
  <2> QED
    BY <2>3, <2>4
<1>8. FrameTrail(n)'
  <2>1. \A j \in left : ~HasRun(j)'
    BY <1>2, <1>4, <1>5 DEF FrameTrail
  <2>2. ASSUME NEW j \in InStage(n - 1), j \notin left
        PROVE  HasRun(j)'
    <3>1. j \notin Top.left \/ j = i
      BY <2>2
    <3> QED
      BY <1>2, <1>4, <1>5, <3>1 DEF FrameTrail
  <2> QED
    BY <1>1, <1>5, <2>1, <2>2, OfTheApplication DEF FrameTrail
<1>9. FrameWaits(n)'
  <2>1. ASSUME NEW j \in left
        PROVE  IsPost(j)
    <3>1. j \in Members /\ StageOf(j) = n - 1 /\ j # i /\ Before(i, j)
      <4>1. FrameOK(Top) /\ Top.stage = n - 1
        BY <1>1, <1>2, <1>5 DEF FrameTrail, Inv, FramesInv
      <4> QED
        BY <1>2, <2>1, <4>1 DEF FrameOK, InStage
    <3>2. ~IsMiddle(j)
      BY <1>1, <1>2, <3>1, OneMiddle DEF IsMiddle
    <3>3. app.chain[j].kind # "pre"
      BY <1>1, <3>1 DEF Before, Rank, IsMiddle
    <3> QED
      BY <1>1, <3>1, <3>2, <3>3, ChainShape DEF IsMiddle, IsPost, Kinds
  <2>2. i \in InStage(n - 1) /\ Waits(i)'
    BY <1>2, <1>4 DEF InStage
  <2> QED
    BY <1>1, <1>5, <1>6, <2>1, <2>2, OfTheApplication DEF FrameWaits
<1>10. \A j \in InStage(n) : ~HasRun(j)'
  <2>1. \A j \in Members : StageOf(j) >= n => ~HasRun(j)
    BY <1>1, <1>2 DEF Inv, OrderInv
  <2> QED
    BY <1>2, <1>4, <1>5, <2>1 DEF InStage
<1>11. FrameTrail(n + 1)'
  <2>1. (n + 1) - 1 = n
    BY <1>5
  <2> QED
    BY <1>1, <1>5, <1>10, <2>1, OfTheApplication DEF FrameTrail
<1>12. (\A m \in DOMAIN stack : FrameTrail(m) /\ (m < Len(stack) => FrameWaits(m)))'
  <2>1. \A m \in 1..(n + 1) : m \in 1..(n - 1) \/ m = n \/ m = n + 1
    BY <1>5
  <2>2. ~(n + 1 < n + 1)
    BY <1>5
  <2> QED
    BY <1>5, <1>7, <1>8, <1>9, <1>11, <2>1, <2>2
<1>13. (\A v \in Members : Waits(v) => StageOf(v) + 1 < Len(stack))'
  <2> SUFFICES ASSUME NEW v \in Members, Waits(v)'
               PROVE  StageOf(v) + 1 < n + 1
    BY <1>1, <1>5, OfTheApplication
  <2>1. CASE v = i
    BY <1>2, <1>5, <2>1
  <2>2. CASE v # i
    <3>1. StageOf(v) + 1 < n /\ StageOf(v) \in Nat
      BY <1>1, <1>4, <2>2, StageFacts DEF Inv, OrderInv
    <3> QED
      BY <1>5, <3>1
  <2> QED
    BY <2>1, <2>2
<1>14. (~HasAnswer => /\ stack # << >>
                      /\ \E j \in Top.left : IsMiddle(j)
                      /\ \A j \in Members : StageOf(j) >= Len(stack) => ~HasRun(j))'
  <2>1. Top' = stack'[n + 1]
    BY <1>5 DEF Top
  <2>2. PICK v \in Members : IsMiddle(v) /\ StageOf(v) = n
    <3>1. StageOf(i) + 1 = n
      BY <1>2, <1>5
    <3> QED
      BY <1>1, <1>2, <3>1, NextStageHasAMiddle
  <2>3. v \in Top.left' /\ IsMiddle(v)'
    BY <1>1, <1>5, <2>1, <2>2 DEF InStage, IsMiddle
  <2>4. ASSUME NEW j \in Members, StageOf(j) >= n + 1
        PROVE  ~HasRun(j)'
    <3>1. StageOf(j) >= n /\ StageOf(j) # n - 1
      BY <1>1, <1>5, <2>4, StageFacts
    <3>2. ~HasRun(j)
      BY <1>1, <1>2, <3>1 DEF Inv, OrderInv
    <3> QED
      BY <1>2, <1>4, <3>1, <3>2
  <2>5. stack' # << >>
    BY <1>5
  <2> QED
    BY <1>1, <1>5, <2>3, <2>4, <2>5, OfTheApplication
<1>15. (\A j \in Members : Did(j, "completes") => HasRun(j))'
  BY <1>1, <1>3, <1>4, OfTheApplication DEF Inv, OrderInv
<1>16. trail' \in Seq(Events)'
  BY <1>1, <1>3, OfTheApplication DEF Events
<1> QED
  BY <1>1, <1>4, <1>12, <1>13, <1>14, <1>15, <1>16 DEF OrderInv

LEMMA ReturnKeepsOrder ==
    ASSUME Inv, Return
    PROVE  OrderInv'
<1> PICK n : n = Len(stack)
  OBVIOUS
<1>1. /\ app' = app /\ phase = "serving" /\ stack # << >> /\ WellFormed
      /\ trail \in Seq(Events) /\ stack \in Seq(Frames)
      /\ stack' = SubSeq(stack, 1, n - 1)
  BY DEF Return, Serving, Inv, OrderInv, FramesInv, AnalysisInv, GraphsInv
<1>2. CASE n = 1
  <2>1. phase' = "answered" /\ trail' = trail
    BY <1>2 DEF Return
  <2>2. \A j, x : Did(j, x)' <=> Did(j, x)
    BY <2>1, DidKept
  <2>3. (\A j \in Members : Did(j, "completes") => HasRun(j))'
    BY <1>1, <2>2, OfTheApplication DEF Inv, OrderInv, HasRun
  <2>4. trail' \in Seq(Events)'
    BY <1>1, <2>1, OfTheApplication DEF Events
  <2> QED
    BY <2>1, <2>3, <2>4 DEF OrderInv
<1>3. CASE n # 1
  <2> PICK w : w = Middle(stack[n - 1].stage)
    OBVIOUS
  <2>1. /\ n \in Nat \ {0, 1} /\ DOMAIN stack = 1..n
        /\ w \in InStage(n - 2) /\ w \in Members /\ StageOf(w) = n - 2 /\ Waits(w) /\ HasAnswer
        /\ FrameWaits(n - 1)
    BY <1>3, ReturnFacts
  <2>2. phase' = "serving" /\ Log(w, "completes")
    BY <1>1, <1>3 DEF Return
  <2>3. /\ trail' \in Seq(Events)
        /\ \A j, x : Did(j, x)' <=> Did(j, x) \/ (j = w /\ x = "completes")
    BY <1>1, <2>1, <2>2, DidAfter
  <2>4. /\ \A j : HasRun(j)' <=> HasRun(j)
        /\ HasAnswer'
        /\ \A v \in Members : Waits(v)' <=> Waits(v) /\ v # w
        /\ \A j : IsPost(j)' <=> IsPost(j)
    <3>1. \A j : HasRun(j)' <=> HasRun(j)
      BY <2>3 DEF HasRun
    <3>2. HasAnswer'
      BY <1>1, <2>1, <2>3, OfTheApplication DEF HasAnswer
    <3>3. \A v \in Members : Waits(v)' <=> Waits(v) /\ v # w
      BY <1>1, <2>3 DEF Waits
    <3> QED
      BY <1>1, <3>1, <3>2, <3>3 DEF IsPost
  <2>5. Len(stack') = n - 1 /\ DOMAIN stack' = 1..(n - 1) /\ \A m \in 1..(n - 1) : stack'[m] = stack[m]
    BY <1>1, <2>1
  <2>6. ASSUME NEW m \in 1..(n - 1)
        PROVE  FrameTrail(m)' /\ (m < n - 1 => FrameWaits(m)')
    <3>1. FrameTrail(m) /\ FrameWaits(m)
      BY <1>1, <2>1, <2>6 DEF Inv, OrderInv
    <3>2. FrameTrail(m)'
      BY <1>1, <2>1, <2>4, <2>5, <2>6, <3>1, OfTheApplication DEF FrameTrail
    <3>3. ASSUME m < n - 1
          PROVE  FrameWaits(m)'
      <4>1. PICK v \in InStage(m - 1) : Waits(v)
        BY <3>1 DEF FrameWaits
      <4>2. v \in Members /\ StageOf(v) = m - 1
        BY <4>1 DEF InStage
      <4>3. v # w
        BY <2>1, <2>6, <3>3, <4>2
      <4>4. Waits(v)'
        BY <2>4, <4>1, <4>2, <4>3
      <4> QED
        BY <1>1, <2>4, <2>5, <3>1, <4>1, <4>4, OfTheApplication DEF FrameWaits
    <3> QED
      BY <3>2, <3>3
  <2>7. (\A m \in DOMAIN stack : FrameTrail(m) /\ (m < Len(stack) => FrameWaits(m)))'
    BY <2>5, <2>6
  <2>8. (\A v \in Members : Waits(v) => StageOf(v) + 1 < Len(stack))'
    <3> SUFFICES ASSUME NEW v \in Members, Waits(v)'
                 PROVE  StageOf(v) + 1 < n - 1
      BY <1>1, <2>5, OfTheApplication
    <3>1. Waits(v) /\ v # w /\ StageOf(v) \in Nat
      BY <1>1, <2>4, StageFacts
    <3>2. StageOf(v) + 1 < n
      BY <1>1, <3>1 DEF Inv, OrderInv
    <3>3. StageOf(v) # n - 2
      BY <1>1, <2>1, <3>1, OneMiddle DEF Waits, IsMiddle
    <3> QED
      BY <2>1, <3>1, <3>2, <3>3
  <2>9. \A i \in Top.left' : IsPost(i)'
    <3>1. Top' = stack[n - 1]
      BY <2>1, <2>5 DEF Top
    <3> QED
      BY <2>1, <2>4, <3>1 DEF FrameWaits
  <2>10. (\A j \in Members : Did(j, "completes") => HasRun(j))'
    BY <1>1, <2>1, <2>3, <2>4, OfTheApplication DEF Inv, OrderInv, HasRun, Waits
  <2>11. trail' \in Seq(Events)'
    BY <1>1, <2>3, OfTheApplication DEF Events
  <2> QED
    BY <2>2, <2>4, <2>7, <2>8, <2>9, <2>10, <2>11 DEF OrderInv
<1> QED
  BY <1>2, <1>3

LEMMA ReceiveKeepsOrder ==
    ASSUME Inv, Receive
    PROVE  OrderInv'
<1>1. /\ app' = app /\ phase' = "serving" /\ WellFormed /\ trail = << >> /\ trail' = trail
  BY DEF Receive, Inv, OrderInv, AnalysisInv, GraphsInv
<1>2. \A j, x : ~Did(j, x)'
  BY <1>1 DEF Did
<1>3. (\A i \in Members : ~HasRun(i) /\ ~Waits(i) /\ ~Did(i, "completes"))' /\ ~HasAnswer'
  BY <1>2 DEF HasRun, Waits, HasAnswer
<1>4. DOMAIN stack' = {1} /\ Len(stack') = 1 /\ stack'[1].stage = 0 /\ stack'[1].left = InStage(0)
  BY DEF Receive, Frame
<1>5. FrameTrail(1)'
  BY <1>1, <1>3, <1>4, OfTheApplication DEF FrameTrail, InStage
<1>6. (\A m \in DOMAIN stack : FrameTrail(m) /\ (m < Len(stack) => FrameWaits(m)))'
  BY <1>4, <1>5
<1>7. stack' # << >> /\ (\E i \in Top.left : IsMiddle(i))'
  <2>1. 1 \in InStage(0) /\ IsMiddle(1)
    BY <1>1, StageFacts, AppShape DEF InStage, IsMiddle
  <2>2. IsMiddle(1)' /\ 1 \in Top.left'
    BY <1>1, <1>4, <2>1 DEF IsMiddle, Top
  <2>3. stack' # << >>
    BY <1>4
  <2>4. (\E i \in Top.left : IsMiddle(i))'
    BY <2>2, Zenon
  <2> QED
    BY <2>3, <2>4
<1>8. trail' \in Seq(Events)'
  BY <1>1
<1> QED
  BY <1>1, <1>3, <1>6, <1>7, <1>8 DEF OrderInv

LEMMA OrderKept ==
    ASSUME OrderInv, app' = app, stack' = stack, trail' = trail,
           phase' = phase \/ (phase' # "serving" /\ phase \notin {"serving", "answered"})
    PROVE  OrderInv'
<1>1. \A j, x : Did(j, x)' <=> Did(j, x)
  BY DidKept
<1>2. /\ \A j : HasRun(j)' <=> HasRun(j)
      /\ \A j : Waits(j)' <=> Waits(j)
      /\ \A j : IsPost(j)' <=> IsPost(j)
      /\ HasAnswer' <=> HasAnswer
  BY <1>1, OfTheApplication DEF HasRun, Waits, IsPost, HasAnswer
<1>3. \A n : (FrameTrail(n)' <=> FrameTrail(n)) /\ (FrameWaits(n)' <=> FrameWaits(n))
  BY <1>2, OfTheApplication DEF FrameTrail, FrameWaits
<1>4. (\A j \in Members : Did(j, "completes") => HasRun(j))' /\ trail' \in Seq(Events)'
  BY <1>1, <1>2, OfTheApplication DEF OrderInv, Events
<1>5. phase' \notin {"serving", "answered"} => trail' = << >>
  BY DEF OrderInv
<1>6. CASE phase' # "serving"
  BY <1>4, <1>5, <1>6 DEF OrderInv
<1>7. CASE phase' = "serving"
  <2>1. phase = "serving"
    BY <1>7
  <2>2. (\A n \in DOMAIN stack : FrameTrail(n) /\ (n < Len(stack) => FrameWaits(n)))'
    BY <1>3, <2>1 DEF OrderInv
  <2>3. (\A w \in Members : Waits(w) => StageOf(w) + 1 < Len(stack))'
    BY <1>2, <2>1, OfTheApplication DEF OrderInv
  <2>4. (~HasAnswer => /\ stack # << >>
                       /\ \E i \in Top.left : IsMiddle(i)
                       /\ \A i \in Members : StageOf(i) >= Len(stack) => ~HasRun(i))'
    BY <1>2, <2>1, OfTheApplication DEF OrderInv, Top, IsMiddle
  <2>5. (HasAnswer /\ stack # << >> => \A i \in Top.left : IsPost(i))'
    BY <1>2, <2>1 DEF OrderInv, Top
  <2> QED
    BY <1>4, <1>5, <2>2, <2>3, <2>4, <2>5 DEF OrderInv
<1> QED
  BY <1>6, <1>7

-----------------------------------------------------------------------------
(* The refinement. *)

LEMMA CallStep ==
    ASSUME Inv, NEW i \in Members, Call(i)
    PROVE  OrderInv' /\ Documented!Next
<1>1. UNCHANGED compileVars /\ app' = app /\ Calling(i)
  BY CallsOnlyCall DEF compileVars, Call, Continue, EarlyReturn, Handle, CallNext, SkipNext, PostProcess
<1>2. CASE CallNext(i)
  <2>1. Log(i, "runs") /\ app.chain[i].kind = "wrap"
    BY <1>2 DEF CallNext
  <2>2. Documented!Enter(i)
    BY <1>1, <2>1, CallEnters DEF IsPost
  <2> QED
    BY <1>2, <2>2, CallNextKeepsOrder DEF Documented!Next
<1>3. CASE Continue(i)
  <2>1. Log(i, "runs") /\ app.chain[i].kind = "pre" /\ stack' = Called(i, Top.left \ {i})
    BY <1>3 DEF Continue
  <2>2. OrderInv'
    BY <1>1, <2>1, CallKeepsOrder
  <2>3. Documented!Enter(i)
    BY <1>1, <2>1, CallEnters DEF IsPost
  <2> QED
    BY <2>2, <2>3 DEF Documented!Next
<1>4. CASE EarlyReturn(i) \/ Handle(i) \/ SkipNext(i)
  <2>1. Log(i, "answers") /\ ~IsPost(i) /\ stack' = Called(i, Posts)
    BY <1>4 DEF EarlyReturn, Handle, SkipNext, IsPost
  <2>2. OrderInv'
    BY <1>1, <2>1, CallKeepsOrder
  <2>3. Documented!Enter(i)
    BY <1>1, <2>1, CallEnters
  <2> QED
    BY <2>2, <2>3 DEF Documented!Next
<1>5. CASE PostProcess(i)
  <2>1. Log(i, "runs") /\ app.chain[i].kind = "post" /\ stack' = Called(i, Top.left \ {i})
    BY <1>5 DEF PostProcess
  <2>2. OrderInv'
    BY <1>1, <2>1, CallKeepsOrder
  <2>3. Documented!Post(i)
    BY <1>1, <2>1, CallPosts DEF IsPost
  <2> QED
    BY <2>2, <2>3 DEF Documented!Next
<1> QED
  BY <1>2, <1>3, <1>4, <1>5 DEF Call

Abstract == <<[i \in Members |-> app.chain[i].kind], trail>>

LEMMA Simulation == Inv /\ [Next]_vars => OrderInv' /\ [Documented!Next]_Abstract
<1> SUFFICES ASSUME Inv, [Next]_vars
             PROVE  OrderInv' /\ [Documented!Next]_Abstract
  OBVIOUS
<1>1. ASSUME app' = app, trail' = trail
      PROVE  UNCHANGED Abstract
  BY <1>1, OfTheApplication DEF Abstract
<1>2. CASE Compile /\ UNCHANGED <<stack, trail>>
  <2>1. app' = app /\ phase' # "serving" /\ phase \notin {"serving", "answered"}
    BY <1>2 DEF Compile, Count, Combine, RejectGraph, CheckStage, Enforce, Codegen
  <2> QED
    BY <1>1, <1>2, <2>1, OrderKept DEF Inv
<1>3. CASE Receive
  <2>1. app' = app /\ trail' = trail
    BY <1>3 DEF Receive
  <2> QED
    BY <1>1, <1>3, <2>1, ReceiveKeepsOrder
<1>4. ASSUME NEW i \in Members, Call(i)
      PROVE  OrderInv' /\ [Documented!Next]_Abstract
  BY <1>4, CallStep
<1>5. CASE Return
  <2>1. CASE Len(stack) = 1
    <3>1. app' = app /\ trail' = trail
      BY <1>5, <2>1 DEF Return
    <3> QED
      BY <1>1, <1>5, <3>1, ReturnKeepsOrder
  <2>2. CASE Len(stack) # 1
    BY <1>5, <2>2, ReturnCompletes, ReturnKeepsOrder DEF Documented!Next
  <2> QED
    BY <2>1, <2>2
<1>6. CASE UNCHANGED vars
  <2>1. app' = app /\ trail' = trail /\ stack' = stack /\ phase' = phase
    BY <1>6 DEF vars, compileVars
  <2> QED
    BY <1>1, <2>1, OrderKept DEF Inv
<1> QED
  BY <1>2, <1>3, <1>4, <1>5, <1>6 DEF Next, Halt

LEMMA InvAlways == Spec => []Inv
<1>1. Init => OrderInv
  BY DEF Init, CompileInit, OrderInv, Did
<1>2. Inv /\ [Next]_vars => OrderInv'
  BY Simulation
<1> QED
  BY <1>1, <1>2, SafeAlways, PTL DEF Spec, Inv

\* The stages pavexc cuts a chain into, and the function generated for each,
\* run the middlewares and the handler in the documented order.
THEOREM OrderIsAsDocumented == Spec => RunsInDocumentedOrder
<1>1. Init => OrderInv /\ Documented!Init
  BY DEF Init, CompileInit, OrderInv, Documented!Init, Did
<1>2. Inv /\ [Next]_vars => [Documented!Next]_Abstract
  BY Simulation
<1> QED
  BY <1>1, <1>2, InvAlways, PTL DEF Spec, RunsInDocumentedOrder, Documented!Spec, Abstract

-----------------------------------------------------------------------------
\* The types of the analysis and of the code that is generated: stages and
\* members exist, and a variable holds a component or nothing.
THEOREM TypeCorrect == Spec => []TypeOK
<1>1. Inv /\ TypeInv => TypeOK
  <2> SUFFICES ASSUME Inv, TypeInv
               PROVE  TypeOK
    OBVIOUS
  <2>1. {0} \cup Comps = 0..Len(app.comps)
    BY AppShape DEF Comps, Inv, AnalysisInv, GraphsInv
  <2>2. ASSUME NEW n \in DOMAIN stack
        PROVE  stack[n] \in [stage : 0..LastStage, left : SUBSET Members, values : [Types -> 0..Len(app.comps)]]
    <3>1. stack[n] \in Frames /\ stack[n].stage \in 0..LastStage
      BY <2>2 DEF Inv, FramesInv, TypeInv
    <3> QED
      BY <2>1, <3>1 DEF Frames
  <2>3. \A n \in DOMAIN trail : trail[n] \in Events
    BY DEF Inv, OrderInv
  <2>4. /\ stage \in 0..LastStage /\ carried \in [Types -> Modes]
        /\ next \in [0..(LastStage - 1) -> [Types -> Modes]]
    BY DEF Inv, AnalysisInv, GraphsInv, Usage
  <2> QED
    BY <2>2, <2>3, <2>4 DEF TypeOK, TypeInv, Graph, Events
<1> QED
  BY <1>1, InvAlways, TypesAlways, PTL
=============================================================================
