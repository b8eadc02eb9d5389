------------------------------- MODULE Pipeline -------------------------------
(***************************************************************************)
(* RequestHandlerPipeline: how pavexc combines the call graphs of a        *)
(* handler and of the middlewares around it into one chain of stages,      *)
(* which components each stage hands to the next through `Next', and where *)
(* a value must be cloned because two members of a stage want it.          *)
(*                                                                         *)
(* One graph is taken as a whole here: what it builds, what it takes as    *)
(* input and how.  How it is ordered and borrow-checked is the subject of  *)
(* OrderedCallGraph.                                                       *)
(***************************************************************************)
EXTENDS Naturals, Sequences, FiniteSets, FiniteSetsExt

CONSTANT Apps    \* the applications under analysis, see IsApp

\* How a type is taken: not at all, by reference, by value.
Absent == 0
Shared == 1
Owned == 2
Modes == {Absent, Shared, Owned}
Kinds == {"pre", "wrap", "post", "handler"}
\* Of the request-scoped types, those the framework provides, like the head and
\* the raw body of the request, are "incoming": they exist before the pipeline runs.
Lifecycles == {"singleton", "incoming", "request", "transient"}
Given(life) == life \in {"singleton", "incoming"}

\* The members of the smallest set that contains `from' and, with x, Step(x).
Closure(from, Step(_), U) ==
    {x \in U : \A S \in SUBSET U : from \subseteq S /\ (\A y \in S : Step(y) \subseteq S) => x \in S}

\* The scope graph: a blueprint that is nested in another has it as its parent.
Ancestors(a, s) ==
    Closure({s}, LAMBDA x : IF a.parent[x] = 0 THEN {} ELSE {a.parent[x]}, DOMAIN a.parent)
\* The constructors of a type that are registered in a scope or around it.
Visible(a, s, t) == {c \in DOMAIN a.comps : a.comps[c].type = t /\ a.comps[c].scope \in Ancestors(a, s)}
Asked(takes) == {t \in DOMAIN takes : takes[t] # Absent}

\* What the component database knows.  Scopes are numbered so that a scope
\* comes after its parent, 0 standing for no scope.  The chain lists the
\* middlewares in registration order, the handler last.  What cannot be built
\* has been reported earlier (detect_missing_constructors).
IsApp(a) ==
    LET Scopes == DOMAIN a.parent
        Types == DOMAIN a.chain[1].takes
    IN
    /\ a.parent \in Seq(Nat) /\ \A s \in Scopes : a.parent[s] < s
    /\ a.chain # << >>
    /\ a.chain \in Seq([kind : Kinds, scope : Scopes, takes : [Types -> Modes]])
    /\ \A i \in DOMAIN a.chain :
          /\ a.chain[i].kind = "handler" <=> i = Len(a.chain)
          /\ \A j \in i..Len(a.chain) : a.chain[i].scope \in Ancestors(a, a.chain[j].scope)
          /\ \A t \in Asked(a.chain[i].takes) : Visible(a, a.chain[i].scope, t) # {}
    /\ a.comps \in Seq([type : Types, scope : Scopes, life : Lifecycles,
                        takes : [Types -> Modes], clonable : BOOLEAN])
    /\ \A c \in DOMAIN a.comps : \A t \in Asked(a.comps[c].takes) : Visible(a, a.comps[c].scope, t) # {}

ASSUME AppsAssumption == \A a \in Apps : IsApp(a)

VARIABLES
    app,      \* the application under analysis
    phase,    \* the step of the analysis, or its outcome
    stage,    \* the stage the step is at, the first one being 0
    builtAt,  \* request_scoped2built_at_stage_index: component -> stage
    carried,  \* state_accumulator: how each type is needed downstream
    next,     \* wrapping_id2next_state: stage -> the fields of its Next
    graphs,   \* id2ordered_call_graphs: member -> its graph
    cloned    \* type2cloning_indexes: stage -> the members given a clone, by type

compileVars == <<app, phase, stage, builtAt, carried, next, graphs, cloned>>

Members == DOMAIN app.chain
Types == DOMAIN app.chain[1].takes
Comps == DOMAIN app.comps
Nothing == [t \in Types |-> Absent]
Merged(F) == [t \in Types |-> Max({Absent} \cup {f[t] : f \in F})]

\* The chain of a handler: a middleware that does nothing, so that there is a
\* place for the state the first members share, in the scope of the handler.
Preceded(a, s) ==
    [parent |-> a.parent, comps |-> a.comps,
     chain |-> <<[kind |-> "wrap", scope |-> s, takes |-> [t \in DOMAIN a.chain[1].takes |-> Absent]]>> \o a.chain]
\* Mutant of WithNoop: in the root scope.
WithNoopAtRoot(a) == Preceded(a, 1)
WithNoop(a) == Preceded(a, a.chain[Len(a.chain)].scope)

-----------------------------------------------------------------------------
(* The graph of one member. *)

\* ConstructibleDb::get: the component for a type in the nearest scope that has
\* one, the last one inserted there; 0 if no scope has.
Get(scope, t) ==
    LET visible == Visible(app, scope, t)
        nearest == Max({app.comps[c].scope : c \in visible})
    IN IF visible = {} THEN 0 ELSE Max({c \in visible : app.comps[c].scope = nearest})

\* Whether the component of type t is computed in a graph rooted in a scope, or
\* an input of it, and what it takes if it is computed.
Computed(scope, t, prebuilt) ==
    LET c == Get(scope, t)
    IN c # 0 /\ c \notin prebuilt /\ ~Given(app.comps[c].life)
Requests(scope, t, prebuilt) ==
    IF Computed(scope, t, prebuilt) THEN app.comps[Get(scope, t)].takes ELSE Nothing

\* build_call_graph, from the root's scope: whatever the root and the
\* components it needs ask for is looked up there.
GraphOf(scope, takes, prebuilt) ==
    LET reached == Closure(Asked(takes), LAMBDA t : Asked(Requests(scope, t, prebuilt)), Types)
        asks == Merged({takes} \cup {Requests(scope, t, prebuilt) : t \in reached})
        computed == {t \in reached : Computed(scope, t, prebuilt)}
    IN [computes |-> {Get(scope, t) : t \in computed},
        inputs |-> [t \in Types |-> IF t \in computed THEN Absent ELSE asks[t]]]

\* extract_request_scoped_compute_nodes
RequestScoped(C) == {c \in C : app.comps[c].life = "request"}

-----------------------------------------------------------------------------
(* Stages. *)

IsMiddle(i) == app.chain[i].kind \in {"wrap", "handler"}
\* A member belongs to the stage of the first wrapping middleware, or handler,
\* that is not before it.
StageOf(i) == Cardinality({j \in Members : j < i /\ IsMiddle(j)})
LastStage == StageOf(Len(app.chain))
InStage(k) == {i \in Members : StageOf(i) = k}
Middle(k) == CHOOSE i \in InStage(k) : IsMiddle(i)

\* StageIds::invocation_order, as an order on the members of a stage.
Rank(i) == CASE app.chain[i].kind = "pre" -> 0 [] IsMiddle(i) -> 1 [] app.chain[i].kind = "post" -> 2
\* Mutant of Before: members run in registration order.
BeforeAsRegistered(i, j) == i < j
Before(i, j) == Rank(i) < Rank(j) \/ (Rank(i) = Rank(j) /\ i < j)
Latest(S) == CHOOSE i \in S : \A j \in S : i = j \/ Before(j, i)

-----------------------------------------------------------------------------
(* Where a request-scoped component is built. *)

Alone(i) == GraphOf(app.chain[i].scope, app.chain[i].takes, {})
UsersOf(c) == {i \in Members : c \in Alone(i).computes}
\* The stage that must build c if i is to have it: a wrapping middleware can do
\* so in its own graph, the others need the stage before to have done it.
\* Mutants of BuildIn: every member builds for its own stage; what is shared is
\* built at the entrypoint.
BuildInStage(i) == StageOf(i)
BuildInEntrypoint(i) == 0
BuildIn(i) == IF app.chain[i].kind = "wrap" THEN StageOf(i) ELSE StageOf(i) - 1
\* What the stages before stage k have built.
PrebuiltFor(k) == {c \in DOMAIN builtAt : builtAt[c] < k}

\* Mutant of Count: the stages are walked from their number.
CountFromNumber ==
    /\ phase = "count"
    /\ builtAt' = [c \in {d \in RequestScoped(Comps) : Cardinality(UsersOf(d)) > 1} |->
                      Min({BuildIn(i) : i \in UsersOf(c)})]
    /\ stage' = LastStage + 1
    /\ phase' = "combine"
    /\ UNCHANGED <<app, carried, next, graphs, cloned>>
Count ==
    /\ phase = "count"
    /\ builtAt' = [c \in {d \in RequestScoped(Comps) : Cardinality(UsersOf(d)) > 1} |->
                      Min({BuildIn(i) : i \in UsersOf(c)})]
    /\ stage' = LastStage
    /\ phase' = "combine"
    /\ UNCHANGED <<app, carried, next, graphs, cloned>>

-----------------------------------------------------------------------------
(* Combining the graphs, from the last stage to the first. *)

\* bind_next: a wrapping middleware also takes what its Next is made of, looked
\* up by type in its own scope.
Takes(i, fields) == IF app.chain[i].kind = "wrap" THEN Merged({app.chain[i].takes, fields}) ELSE app.chain[i].takes
Bound(i) == GraphOf(app.chain[i].scope,
                    Takes(i, IF stage = LastStage THEN Nothing ELSE next[stage]),
                    PrebuiltFor(stage))

\* Two consumers of one value in one graph, one of them by value, and the value
\* may not be cloned: the borrow checker may have to give up.
Contested(i) ==
    LET fields == IF app.chain[i].kind = "wrap" THEN next[stage] ELSE Nothing
        s == app.chain[i].scope
        Asks(t) == {c \in Bound(i).computes : app.comps[c].takes[t] # Absent}
        Uses(t) == Cardinality(Asks(t)) + (IF app.chain[i].takes[t] # Absent THEN 1 ELSE 0)
                                        + (IF fields[t] # Absent THEN 1 ELSE 0)
    IN \E t \in Types : /\ Uses(t) > 1
                        /\ Get(s, t) # 0 => ~app.comps[Get(s, t)].clonable
                        /\ Owned \in {app.chain[i].takes[t], fields[t]}
                                        \cup {app.comps[c].takes[t] : c \in Asks(t)}

\* What is passed down: the inputs of this stage and of those after it, without
\* what the stage before builds itself.
\* Mutant of Needed: the graphs of the members are those of the first pass.
NeededByAlone == Merged({carried} \cup {Bound(i).inputs : i \in InStage(stage)}
                                  \cup {Alone(i).inputs : i \in InStage(stage)})
Needed == Merged({carried} \cup {Bound(i).inputs : i \in InStage(stage)})
Kept(needed) ==
    [t \in Types |-> IF \E c \in DOMAIN builtAt : builtAt[c] = stage - 1 /\ app.comps[c].type = t
                     THEN Absent ELSE needed[t]]

\* The assertion that only a wrapping middleware builds for its own stage.
BuildsForStage(i) ==
    \E c \in DOMAIN builtAt : builtAt[c] = stage /\ c \in Alone(i).computes /\ app.chain[i].kind # "wrap"

Combine ==
    /\ phase = "combine"
    /\ graphs' = [i \in Members |-> IF StageOf(i) = stage THEN Bound(i) ELSE graphs[i]]
    /\ carried' = IF stage = 0 THEN Needed ELSE Kept(Needed)
    /\ next' = IF stage = 0 THEN next ELSE [next EXCEPT ![stage - 1] = Needed]
    /\ IF \E i \in InStage(stage) : BuildsForStage(i) THEN phase' = "panicked" /\ stage' = stage
       ELSE IF stage = 0 THEN phase' = "check" /\ stage' = LastStage
       ELSE phase' = "combine" /\ stage' = stage - 1
    /\ UNCHANGED <<app, builtAt, cloned>>

\* The borrow checker rejects the graph of a member of the stage.
RejectGraph ==
    /\ phase = "combine"
    /\ \E i \in InStage(stage) : Contested(i)
    /\ phase' = "invalid"
    /\ UNCHANGED <<app, stage, builtAt, carried, next, graphs, cloned>>

-----------------------------------------------------------------------------
(* Values that two members of a stage want. *)

FromComponent(i, t) == Get(app.chain[i].scope, t) # 0
Consumers(k, t) == {i \in InStage(k) : graphs[i].inputs[t] = Owned /\ FromComponent(i, t)}
\* Members that borrow the type and come after one that consumes it.
Borrowers(k, t) ==
    {i \in InStage(k) : graphs[i].inputs[t] = Shared /\ FromComponent(i, t)
                        /\ \E j \in Consumers(k, t) : Before(j, i)}
\* The last consumer can have the value itself, unless it is borrowed later.
\* Mutants of NeedClone: whether it is borrowed later is not looked at; the last
\* consumer is treated like the others.
NeedCloneIgnoringBorrows(k, t) ==
    IF Consumers(k, t) = {} THEN {} ELSE Consumers(k, t) \ {Latest(Consumers(k, t))}
NeedCloneAlways(k, t) == Consumers(k, t)
NeedClone(k, t) ==
    LET consumers == Consumers(k, t)
        borrowers == Borrowers(k, t)
    IN IF consumers = {} THEN {}
       ELSE IF borrowers = {} \/ Before(Latest(borrowers), Latest(consumers))
       THEN consumers \ {Latest(consumers)}
       ELSE consumers
MayNotBeCloned(i, t) == ~app.comps[Get(app.chain[i].scope, t)].clonable
Issues(k) == {t \in Types : \E i \in NeedClone(k, t) : MayNotBeCloned(i, t)}
\* The first consumer that cannot be given a clone, and who comes after it among
\* those the message can name.
FirstIssue(k, t) ==
    LET bad == {i \in NeedClone(k, t) : MayNotBeCloned(i, t)}
    IN CHOOSE i \in bad : \A j \in bad : i = j \/ Before(i, j)
Rivals(k, t) == {j \in Borrowers(k, t) \cup NeedClone(k, t) : Before(FirstIssue(k, t), j)}

CheckStage ==
    /\ phase = "check"
    /\ IF Issues(stage) = {}
       THEN /\ cloned' = [cloned EXCEPT ![stage] = [t \in Types |-> NeedClone(stage, t)]]
            /\ IF stage = 0 THEN phase' = "enforce" /\ stage' = 0
               ELSE phase' = "check" /\ stage' = stage - 1
       ELSE /\ \E t \in Issues(stage) :
                  phase' = IF Rivals(stage, t) = {} THEN "unreachable" ELSE "rejected"
            /\ UNCHANGED <<cloned, stage>>
    /\ UNCHANGED <<app, builtAt, carried, next, graphs>>

\* enforce_invariants: no request-scoped component is computed in two graphs.
Enforce ==
    /\ phase = "enforce"
    /\ phase' = IF \E c \in RequestScoped(Comps) :
                      Cardinality({i \in Members : c \in graphs[i].computes}) > 1
                THEN "panicked" ELSE "generate"
    /\ UNCHANGED <<app, stage, builtAt, carried, next, graphs, cloned>>

\* The parameters of the function generated for a stage.
Parameters(k) == IF k = 0 THEN graphs[1].inputs ELSE next[k - 1]
\* get_expr_for_type: a value can be passed or borrowed, a reference can only be
\* passed on as a reference.
Codegen ==
    /\ phase = "generate"
    /\ phase' = IF \A i \in Members : \A t \in Types : graphs[i].inputs[t] <= Parameters(StageOf(i))[t]
                THEN "generated" ELSE "panicked"
    /\ UNCHANGED <<app, stage, builtAt, carried, next, graphs, cloned>>

CompileInit ==
    /\ app \in {WithNoop(a) : a \in Apps}
    /\ phase = "count"
    /\ stage = 0
    /\ builtAt = [c \in {} |-> 0]
    /\ carried = Nothing
    /\ next = [k \in 0..(LastStage - 1) |-> Nothing]
    /\ graphs = [i \in Members |-> [computes |-> {}, inputs |-> Nothing]]
    /\ cloned = [k \in 0..LastStage |-> [t \in Types |-> {}]]

Compile == Count \/ Combine \/ RejectGraph \/ CheckStage \/ Enforce \/ Codegen
=============================================================================
