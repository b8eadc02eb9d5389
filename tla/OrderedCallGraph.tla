--------------------------- MODULE OrderedCallGraph ---------------------------
(***************************************************************************)
(* OrderedCallGraph::new on the graph of one root component: the graph is  *)
(* built, borrow-checked and ordered, or rejected with errors.             *)
(***************************************************************************)
EXTENDS CoreGraph, BorrowChecker, AssignOrder

vars == <<graphVars, phase, buildVars, checkVars, orderVars>>

OInit == Init /\ InitCheck /\ InitOrder

Next ==
    \/ Build /\ UNCHANGED <<checkVars, orderVars>>
    \/ Check /\ UNCHANGED <<buildVars, orderVars>>
    \/ Order /\ UNCHANGED <<buildVars, checkVars>>

\* The analysis is one sequential function that runs to its end.
Spec == OInit /\ [][Next]_vars /\ WF_vars(Next)

Ended == phase \in {"done", "rejected", "stuck", "panicked"}
Checked == phase \notin {"start", "build", "rewrite"}

TypeOK ==
    /\ \A n \in DOMAIN nodes : nodes[n] \in [comp : DOMAIN app.inputs \cup {0}, role : Roles]
    /\ \A e \in EdgesOf(graph) :
          e \in [from : Indices(graph), to : Indices(graph), mode : Borrows \cup {"move", "before"}]
    /\ Placed \subseteq Indices(graph)
    /\ \A n \in Placed : position[n] \in 0..(Cardinality(Placed) - 1)
    /\ processed \cup transformed \cup attached \cup seen \cup finished \cup discovered
          \subseteq DOMAIN nodes
    /\ Ended => todo = << >>

-----------------------------------------------------------------------------
\* Every input of a computation is provided by exactly one node, in the way it
\* is asked for: by the node of the component, by a clone of it if it is
\* consumed, or by a reference that is an input (core_graph.rs, clone insertion
\* in the three passes).
Provides(m, n, input) ==
    /\ nodes[m].comp = input.on
    /\ \E e \in EdgesOf(graph) :
          /\ e.from = m /\ e.to = n
          /\ CASE nodes[m].role = "clone" -> e.mode = "move" /\ input.mode = "move"
               [] nodes[m].role = "ref" -> e.mode = "move" /\ input.mode = "shared"
               [] nodes[m].role = "refmut" -> e.mode = "move" /\ input.mode # "move"
               [] OTHER -> e.mode = input.mode
InputsProvided ==
    Checked /\ phase # "rejected" =>
        \A n \in Indices(graph) : nodes[n].role = "compute" =>
            \A i \in DOMAIN app.inputs[nodes[n].comp] :
                \/ \E m \in Indices(graph) : nodes[m].role = "branch" /\ Consumes(graph, n, m)
                \/ Cardinality({m \in Indices(graph) :
                      Provides(m, n, app.inputs[nodes[n].comp][i])}) = 1

\* A component that may be invoked at most once per call is invoked by at most
\* one node, whatever was added to the graph (NodeDeduplicator).
InvokedAtMostOnce ==
    \A m, n \in Indices(graph) :
        /\ nodes[m].role = "compute" /\ nodes[n].role = "compute"
        /\ nodes[m].comp = nodes[n].comp
        /\ nodes[m].comp \in DOMAIN app.calls /\ app.calls[nodes[m].comp] = "one"
        => m = n

\* The assertions hold on the matchers of fallible nodes and on the number of
\* error observers, and there is a node to start the borrow check from.
NeverPanics == phase # "panicked"

-----------------------------------------------------------------------------
\* What may run in the same control flow: nodes that reach the same sink.
SameFlow(b, c) == Reach(graph, b) \cap Reach(graph, c) \cap Sinks(graph) # {}
Uses == {e \in EdgesOf(graph) : e.mode # "before"}
\* Passing on a `&mut' reborrows it.
MovesOut == {e \in EdgesOf(graph) :
                e.mode = "move" /\ ~IsCopy(e.from) /\ nodes[e.from].role # "refmut"}

\* A node is placed after what it depends on and, if it consumes a value, after
\* every node that borrows the value (assign_order.rs, order).
PlacedInOrder ==
    \A e \in EdgesOf(graph) : e.to \in Placed =>
        /\ e.from \in Placed
        /\ position[e.from] < position[e.to]
        /\ e.mode = "move" /\ ~IsCopy(e.from) =>
              \A u \in EdgesOf(graph) : u.from = e.from /\ u.mode \in Borrows =>
                  u.to \in Placed /\ position[u.to] < position[e.to]

\* In the order that was found every node has a place, and no use of a value
\* follows the node that consumes it in the same control flow: the promise of
\* OrderedCallGraph, for outputs that keep no reference.
NoUseAfterMove ==
    phase = "done" =>
        /\ Placed = Indices(graph)
        /\ \A m \in MovesOut : \A u \in Uses :
              u.from = m.from /\ u # m /\ SameFlow(u.to, m.to) => position[u.to] < position[m.to]

\* The values that n's output points into: what n borrows for as long as its
\* output lives, and what its inputs point into, if it keeps their lifetime.  A
\* clone, a `match' and a matcher hand on the references in what they are given.
HandsOn(n) ==
    nodes[n].role \in {"clone", "branch"}
        \/ \E c \in DOMAIN app.matchers : \E i \in DOMAIN app.matchers[c] : app.matchers[c][i] = nodes[n].comp
PointsInto ==
    LET after[k \in Nat] == [n \in Indices(graph) |->
            IF k = 0 THEN {}
            ELSE UNION { (IF e.mode = "shared" /\ ~HandsOn(n) THEN {e.from} ELSE {}) \cup after[k - 1][e.from] :
                         e \in {x \in Uses : x.to = n /\ (HandsOn(n) \/ nodes[x.from].comp \in app.holds[nodes[n].comp])} }]
    IN after[Cardinality(Indices(graph))]

\* A node that consumes a value, and what is built from its output, use nothing
\* that points into the value (move_while_borrowed.rs).
NoMoveBeforeDescendantUses ==
    phase = "done" =>
        \A m \in MovesOut : \A u \in Uses :
            m.from \in PointsInto[u.from] => u.to \notin Reach(graph, m.to)

\* The error observers of a fallible node run one after the other, after the
\* error was converted and before the response to it is.
ObserversRunInOrder ==
    phase = "done" =>
        \A h \in Indices(graph) :
            nodes[h].role = "compute" /\ nodes[h].comp \in app.errorHandlers =>
                \A r \in {e.to : e \in OutOf(graph, h)} :
                    \E f \in [DOMAIN app.observers -> Indices(graph)] :
                        \A i \in DOMAIN f :
                            /\ nodes[f[i]].comp = app.observers[i]
                            /\ position[f[i]] < position[r]
                            /\ \A j \in 1..(i - 1) : position[f[j]] < position[f[i]]
                            /\ \E e \in Into(graph, f[i]) : e.mode = "shared"

-----------------------------------------------------------------------------
(* A reference for the passes: which consumptions could be replaced by a   *)
(* clone so that an order exists at all.                                   *)

\* The graph with its clones folded back into the consumption they replaced.
Clones == {k \in Indices(graph) : nodes[k].role = "clone"}
Unfolded ==
    {e \in EdgesOf(graph) : e.from \notin Clones /\ e.to \notin Clones}
        \cup {Edge(CHOOSE a \in Indices(graph) : Edge(a, k, "shared") \in EdgesOf(graph),
                   CHOOSE c \in Indices(graph) : Edge(k, c, "move") \in EdgesOf(graph), "move") :
              k \in Clones}

\* b runs after a: because it depends on it, or because it consumes, and not by
\* cloning, what a uses or what a use of a points into.
After(cloned) ==
    {<<e.from, e.to>> : e \in Unfolded}
        \cup {<<p[1].to, p[2].to>> : p \in
                {q \in Unfolded \X (Unfolded \ cloned) :
                    /\ q[2].from \in {q[1].from} \cup PointsInto[q[1].from] /\ q[1] # q[2]
                    /\ q[1].mode # "before" /\ q[2].mode = "move" /\ ~IsCopy(q[2].from)
                    /\ SameFlow(q[1].to, q[2].to)}}
Acyclic(R) ==
    LET N == Indices(graph)
        left[k \in Nat] ==
            IF k = 0 THEN N
            ELSE LET S == left[k - 1] IN {n \in S : \E m \in S : <<m, n>> \in R}
    IN left[Cardinality(N)] = {}
MayClone == {e \in Unfolded : e.mode = "move" /\ Clonable(e.from)}
Possible(cloned) == Acyclic(After(cloned))

\* An application is rejected for its borrows only if no choice of clones would
\* have given an order (complex.rs: "prevent us from generating code").
RejectionJustified ==
    phase = "rejected" /\ errors # {} /\ (\A e \in EdgesOf(graph) : e.mode # "exclusive") =>
        \A cloned \in SUBSET MayClone : ~Possible(cloned)

\* Clones are inserted only if there is no order without one.
NoNeedlessClone ==
    phase = "done" /\ Clones # {} => ~Possible({})

\* The ordering gets stuck only on a graph that has no order.
StuckOnlyWithoutOrder ==
    phase = "stuck" => ~Possible({e \in MayClone : \E k \in Clones :
                                    Edge(e.from, k, "shared") \in EdgesOf(graph)
                                    /\ Edge(k, e.to, "move") \in EdgesOf(graph)})

\* The analysis comes to an end.
Terminates == <>Ended
\* order: "this should never happen!"
OrderNeverStuck == phase # "stuck"
=============================================================================
