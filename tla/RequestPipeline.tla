--------------------------- MODULE RequestPipeline ---------------------------
(***************************************************************************)
(* The code generated for a pipeline, serving one request: a function per  *)
(* stage, whose variables are the components it was given, and which calls *)
(* the members of the stage and, through Next, the function of the next    *)
(* stage.                                                                  *)
(***************************************************************************)
EXTENDS Pipeline

VARIABLES
    stack,   \* the stage functions that are running, the innermost last
    trail    \* what the members did, see ExecutionOrder

vars == <<compileVars, stack, trail>>

\* A running stage function: the members it has not called yet, and the value
\* each variable holds, 0 for none or for one that was moved.
Frame(k, values) == [stage |-> k, left |-> InStage(k), values |-> values]
Top == stack[Len(stack)]
Turn == CHOOSE i \in Top.left : \A j \in Top.left : i = j \/ Before(i, j)
Posts == {i \in Top.left : app.chain[i].kind = "post"}

\* What is left of the variables once member i was called: a value it takes is
\* gone, unless it was given a clone.
ValuesAfter(i) ==
    [t \in Types |-> IF graphs[i].inputs[t] = Owned /\ i \notin cloned[Top.stage][t]
                     THEN 0 ELSE Top.values[t]]
\* The value the graph of member i has for a type.
ValueIn(i, t) ==
    LET c == Get(app.chain[i].scope, t)
    IN IF c \in graphs[i].computes THEN c ELSE Top.values[t]

\* Member i was called, and `left' are still to be called.
Called(i, left) ==
    [stack EXCEPT ![Len(stack)] = [stage |-> Top.stage, left |-> left, values |-> ValuesAfter(i)]]
Log(i, w) == trail' = Append(trail, [member |-> i, what |-> w])

Init ==
    /\ CompileInit
    /\ stack = << >>
    /\ trail = << >>

\* The entrypoint is called with the singletons and the framework's types it
\* needs.
Receive ==
    /\ phase = "generated"
    /\ phase' = "serving"
    /\ stack' = << Frame(0, [t \in Types |-> IF Parameters(0)[t] = Absent THEN 0
                                             ELSE Get(app.chain[1].scope, t)]) >>
    /\ UNCHANGED <<app, stage, builtAt, carried, next, graphs, cloned, trail>>

Serving == phase = "serving" /\ stack # << >>
Calling(i) == Serving /\ Top.left # {} /\ i = Turn

\* A pre-processing middleware lets the request through.
Continue(i) ==
    /\ Calling(i) /\ app.chain[i].kind = "pre"
    /\ stack' = Called(i, Top.left \ {i})
    /\ Log(i, "runs")
    /\ UNCHANGED compileVars

\* A pre-processing middleware, or a component it needs that fails, answers:
\* what is left of the `incoming' block is skipped.
\* Mutant of EarlyReturn: so are the post-processing middlewares.
EarlyReturnSkippingPosts(i) ==
    /\ Calling(i) /\ app.chain[i].kind = "pre"
    /\ stack' = Called(i, {})
    /\ Log(i, "answers")
    /\ UNCHANGED compileVars
EarlyReturn(i) ==
    /\ Calling(i) /\ app.chain[i].kind = "pre"
    /\ stack' = Called(i, Posts)
    /\ Log(i, "answers")
    /\ UNCHANGED compileVars

\* The handler, or a component it needs that fails, answers.
Handle(i) ==
    /\ Calling(i) /\ app.chain[i].kind = "handler"
    /\ stack' = Called(i, Posts)
    /\ Log(i, "answers")
    /\ UNCHANGED compileVars

\* A wrapping middleware awaits its Next, whose fields become the variables of
\* the next stage.
CallNext(i) ==
    /\ Calling(i) /\ app.chain[i].kind = "wrap"
    /\ LET k == Top.stage
           fields == [t \in Types |-> IF next[k][t] = Absent THEN 0 ELSE ValueIn(i, t)]
       IN stack' = Append(Called(i, Top.left \ {i}), Frame(k + 1, fields))
    /\ Log(i, "runs")
    /\ UNCHANGED compileVars

\* A wrapping middleware answers without its Next; the one that does nothing
\* can only do so because a component fails.
SkipNext(i) ==
    /\ Calling(i) /\ app.chain[i].kind = "wrap"
    /\ i = 1 => graphs[i].computes # {}
    /\ stack' = Called(i, Posts)
    /\ Log(i, "answers")
    /\ UNCHANGED compileVars

PostProcess(i) ==
    /\ Calling(i) /\ app.chain[i].kind = "post"
    /\ stack' = Called(i, Top.left \ {i})
    /\ Log(i, "runs")
    /\ UNCHANGED compileVars

\* A stage returns: the middleware that awaited it, if any, completes.
Return ==
    /\ Serving /\ Top.left = {}
    /\ stack' = SubSeq(stack, 1, Len(stack) - 1)
    /\ IF Len(stack) = 1 THEN phase' = "answered" /\ UNCHANGED trail
       ELSE Log(Middle(stack[Len(stack) - 1].stage), "completes") /\ UNCHANGED phase
    /\ UNCHANGED <<app, stage, builtAt, carried, next, graphs, cloned>>

\* The compiler stopped, or the request was answered.
Halt == phase \in {"invalid", "rejected", "unreachable", "panicked", "answered"} /\ UNCHANGED vars

Call(i) ==
    Continue(i) \/ EarlyReturn(i) \/ Handle(i) \/ CallNext(i) \/ SkipNext(i) \/ PostProcess(i)
Next ==
    \/ Compile /\ UNCHANGED <<stack, trail>>
    \/ Receive
    \/ \E i \in Members : Call(i)
    \/ Return
    \/ Halt

Spec == Init /\ [][Next]_vars

-----------------------------------------------------------------------------
\* Types of the variables; a component is known by its number, 0 for none.
TypeOK ==
    /\ phase \in {"count", "combine", "check", "enforce", "generate", "generated", "serving",
                  "invalid", "rejected", "unreachable", "panicked", "answered"}
    /\ stage \in 0..LastStage
    /\ DOMAIN builtAt \subseteq Comps /\ \A c \in DOMAIN builtAt : builtAt[c] \in 0..LastStage
    /\ carried \in [Types -> Modes]
    /\ next \in [0..(LastStage - 1) -> [Types -> Modes]]
    /\ graphs \in [Members -> [computes : SUBSET Comps, inputs : [Types -> Modes]]]
    /\ cloned \in [0..LastStage -> [Types -> SUBSET Members]]
    /\ \A n \in DOMAIN stack :
          stack[n] \in [stage : 0..LastStage, left : SUBSET Members, values : [Types -> 0..Len(app.comps)]]
    /\ \A n \in DOMAIN trail :
          trail[n] \in [member : Members, what : {"runs", "answers", "completes"}]

\* Two members of one stage use a value after the first took it.
TakenThenUsed(i, j, t) ==
    /\ StageOf(i) = StageOf(j) /\ Before(i, j)
    /\ graphs[i].inputs[t] = Owned /\ graphs[j].inputs[t] # Absent
\* A value that may not be cloned is taken by a member of a stage and used by a
\* later one: the application is in error.
Conflict ==
    \E i, j \in Members : \E t \in Types :
        TakenThenUsed(i, j, t) /\ FromComponent(i, t) /\ MayNotBeCloned(i, t)

\* The steps of the analysis agree with each other: a component that is shared
\* is built by one graph only, every stage function has a variable for what its
\* members take, and only wrapping middlewares build for their own stage; none
\* of the panics that check it is reached.  The panic of the code that reports
\* conflicts is (ConflictIsReported), but by no application that is not in error.
AnalysesAgree == phase # "panicked" /\ (phase = "unreachable" => Conflict)

\* The comparison of the members of a stage tells the applications in error
\* from the others: what it rejects has a conflict, what it lets through has none.
RejectedForAConflict ==
    /\ phase = "rejected" => Conflict
    /\ phase \in {"enforce", "generate", "generated", "serving", "answered"} => ~Conflict

\* What the unreachable! of the reporting code says: a conflict has a second
\* member to be named in the message.
ConflictIsReported == phase # "unreachable"

\* A member is given a clone only if the value may be cloned and a later member
\* of its stage needs the value.
ClonedOnlyIfUsedLater ==
    \A k \in DOMAIN cloned : \A t \in Types : \A i \in cloned[k][t] :
        ~MayNotBeCloned(i, t) /\ \E j \in Members : TakenThenUsed(i, j, t)

\* No stage function uses a variable that an earlier call moved, whichever of
\* its members answer early: the generated code passes the borrow checker.
NoUseAfterMove ==
    Serving /\ Top.left # {} =>
        \A t \in Types : graphs[Turn].inputs[t] # Absent => Top.values[t] # 0

\* Whatever stage built it, the component a member is given for a type is the
\* one its own blueprint resolves the type to.
OwnInputs(i) == GraphOf(app.chain[i].scope, app.chain[i].takes, PrebuiltFor(StageOf(i))).inputs
GetsItsComponent ==
    Serving /\ Top.left # {} =>
        \A t \in Types : OwnInputs(Turn)[t] # Absent =>
            Top.values[t] \in {0, Get(app.chain[Turn].scope, t)}

\* The caller of the entrypoint is asked only for what exists before the
\* pipeline runs: singletons and the types the framework provides.
EntrypointTakesWhatExists ==
    phase \in {"generated", "serving", "answered"} =>
        \A t \in Types : Parameters(0)[t] # Absent =>
            LET c == Get(app.chain[Len(app.chain)].scope, t)
            IN c # 0 /\ app.comps[c].life \in {"singleton", "incoming"}

\* Next carries the strict minimum: what some member further down, or a
\* component its graph computes, takes, and by value only if one of them does.
NextIsMinimal ==
    phase \in {"generated", "serving", "answered"} =>
        \A k \in DOMAIN next : \A t \in Types :
            \/ next[k][t] = Absent
            \/ \E i \in Members :
                  /\ StageOf(i) > k /\ graphs[i].inputs[t] # Absent
                  /\ next[k][t] \in {app.chain[i].takes[t]} \cup {app.comps[c].takes[t] : c \in graphs[i].computes}

\* Stages, their functions and Next run the members in the documented order.
Documented == INSTANCE ExecutionOrder WITH kinds <- [i \in Members |-> app.chain[i].kind]
RunsInDocumentedOrder == Documented!Spec
=============================================================================
