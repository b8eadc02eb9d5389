------------------------------ MODULE CoreGraph ------------------------------
(***************************************************************************)
(* build_call_graph: from the inputs of the root component to the graph of *)
(* everything that must be built for it, with the transformers of every    *)
(* component (matchers, error handlers, conversions into a response), the  *)
(* error observers, and the rewriting of fallible nodes and of inputs that *)
(* are only borrowed.                                                      *)
(***************************************************************************)
EXTENDS CallGraph

VARIABLES
    agenda,      \* nodes_to_be_visited: a node and the edge to add on the visit
    processed,   \* nodes whose inputs were requested
    transformed, \* nodes whose transformers were added
    attached     \* nodes whose error observers were dealt with

buildVars == <<agenda, processed, transformed, attached>>

Visit(n, es) == [node |-> n, edges |-> es]

\* component_id2node, NodeDeduplicator and add_node_for_component: a component
\* that may be invoked at most once, or is an input, has at most one node.
RoleOf(c) == IF app.calls[c] = "none" THEN "input" ELSE "compute"
NodesOf(g, c) == {n \in DOMAIN g.nodes : g.nodes[n].comp = c}
\* Mutant of AddNode: only inputs are deduplicated.
AddNodeDeduplicatingInputs(g, c) ==
    IF app.calls[c] = "none" /\ NodesOf(g, c) # {} THEN g
    ELSE [g EXCEPT !.nodes = Append(@, Node(c, RoleOf(c)))]
AddNode(g, c) ==
    IF app.calls[c] # "many" /\ NodesOf(g, c) # {} THEN g
    ELSE [g EXCEPT !.nodes = Append(@, Node(c, RoleOf(c)))]
NodeFor(g, c) ==   \* in the graph AddNode returns
    IF app.calls[c] # "many" THEN CHOOSE n \in NodesOf(g, c) : TRUE ELSE Len(g.nodes)

Init ==
    /\ app \in Apps
    /\ nodes = << Node(app.root, RoleOf(app.root)) >>
    /\ edges = << >>
    /\ phase = "start"
    /\ agenda = << Visit(1, << >>) >>
    /\ processed = {}
    /\ transformed = {}
    /\ attached = {}

-----------------------------------------------------------------------------
\* The components a component needs, whatever their lifecycles, and those that
\* transform it: DependencyGraph.
Needs(a, c) ==
    IF a.calls[c] = "none" THEN {}
    ELSE {a.inputs[c][i].on : i \in DOMAIN a.inputs[c]}
ComesFrom(a, c) ==
    Needs(a, c) \cup {d \in DOMAIN a.inputs : \E i \in DOMAIN a.transformers[d] :
                                                  a.transformers[d][i].comp = c}
\* What c comes from in the end, c included.
Origins(a, c) == Within(c, LAMBDA d : ComesFrom(a, d), Cardinality(DOMAIN a.inputs))
Cyclic == \E c \in DOMAIN app.inputs : \E d \in ComesFrom(app, c) : c \in Origins(app, d)

\* What an Err matcher extracts, and what becomes of the error before a handler
\* or an observer is given it.
ErrMatchers(a) == {a.matchers[c][2] : c \in {d \in DOMAIN a.inputs : a.matchers[d] # << >>}}
ErrorValues(a) ==
    a.newErrors
        \cup {c \in DOMAIN a.inputs \ a.errorHandlers : ErrMatchers(a) \cap ComesFrom(a, c) # {}}

\* How the component database wires error observers, which assert_acyclic does
\* not look at (core_graph.rs adds their edges).  Each is registered once and
\* has no output; neither it nor the error it observes depends on the outcome
\* of an error handler (constructibles.rs: observers depend on nothing
\* fallible); an Err matcher is handed to what transforms it and to at most one
\* error handler, and to nothing else (components/db: no constructor).
IsWired(a) ==
    LET watchers == ToSet(a.observers) IN
    a.observers # << >> =>
        /\ \A i, j \in DOMAIN a.observers : a.observers[i] = a.observers[j] => i = j
        /\ \A c \in DOMAIN a.inputs : ComesFrom(a, c) \cap watchers = {}
        /\ \A c \in watchers \cup ErrorValues(a) : Origins(a, c) \cap a.errorHandlers = {}
        /\ ErrMatchers(a) \cap (watchers \cup ErrorValues(a)) = {} /\ watchers \cap ErrorValues(a) = {}
        /\ \A m \in ErrMatchers(a) :
              /\ \A c \in DOMAIN a.inputs : m \notin Needs(a, c)
              /\ \A i, j \in DOMAIN a.transformers[m] :
                    a.transformers[m][i].comp \in a.errorHandlers
                        /\ a.transformers[m][j].comp \in a.errorHandlers => i = j

ASSUME WiringAssumption == \A a \in Apps : IsWired(a)

\* assert_acyclic.
CheckAcyclic ==
    /\ phase = "start"
    /\ phase' = IF Cyclic THEN "rejected" ELSE "build"
    /\ UNCHANGED <<graphVars, buildVars>>

\* A node is taken off the agenda: its edge is added and, the first time, a
\* node for each of its inputs is put on the agenda.
VisitNode ==
    /\ phase = "build"
    /\ agenda # << >>
    /\ LET v == Last(agenda)
           Ask(acc, input) ==
               LET g == AddNode(acc.g, input.on)
                   n == NodeFor(g, input.on)
               IN [g |-> g, agenda |-> Insert(acc.agenda, Visit(n, <<Edge(n, v.node, input.mode)>>))]
           inputs == IF v.node \in processed \/ nodes[v.node].role # "compute" THEN << >>
                     ELSE app.inputs[nodes[v.node].comp]
       IN /\ \E linked \in {Accumulate(LAMBDA g, e : Link(g, e.from, e.to, e.mode), graph, v.edges)} :
             \E r \in {Accumulate(Ask, [g |-> linked, agenda |-> Front(agenda)], inputs)} :
                 SetGraph(r.g) /\ agenda' = r.agenda
          /\ processed' = processed \cup {v.node}
    /\ UNCHANGED <<app, phase, transformed, attached>>

\* The transformers of one node.
Transform(acc, n) ==
    Accumulate(LAMBDA a, t :
                LET g == AddNode(a.g, t.comp)
                    k == NodeFor(g, t.comp)
                IN [a EXCEPT !.g = g, !.agenda = Insert(@, Visit(k, <<Edge(n, k, t.mode)>>))],
             acc,
             IF n \in transformed \/ acc.g.nodes[n].role # "compute" THEN << >>
             ELSE app.transformers[acc.g.nodes[n].comp])

\* The node that turns the error given to handler h into a pavex::Error: a child
\* of the Err matcher above h, or the node above h itself.
NewErrorNodes(g, h) ==
    LET above == {e.from : e \in Into(g, h)}
        errs == {p \in above : \E c \in DOMAIN app.matchers :
                    app.matchers[c] # << >> /\ g.nodes[p].comp = app.matchers[c][2]}
    IN IF errs = {} THEN {p \in above : g.nodes[p].comp \in app.newErrors}
       ELSE (UNION {{e.to : e \in OutOf(g, p)} : p \in errs}) \ {h}

\* The error observers are inserted between an error handler and its child, one
\* after the other.
Chained(acc, h) ==
    LET Attach(a, o) ==
            LET added == AddNode(a.g, o)
                k == NodeFor(added, o)
                after == IF a.last = 0 THEN added ELSE Link(added, a.last, k, "before")
            IN [a EXCEPT !.g = Link(after, CHOOSE p \in NewErrorNodes(acc.g, h) : TRUE, k, "shared"),
                         !.agenda = Insert(@, Visit(k, << >>)), !.last = k]
    IN Accumulate(Attach, [acc EXCEPT !.last = 0], app.observers)
\* Mutant of Attached: nothing ties the last observer to the child.
AttachedLoosely(acc, h) == [Chained(acc, h) EXCEPT !.attached = @ \cup {h}]
Attached(acc, h) ==
    LET all == Chained(acc, h)
    IN [all EXCEPT !.g = Link(@, all.last, Outgoing(acc.g, h)[1].to, "before"),
                   !.attached = @ \cup {h}]

\* A handler whose neighbours are not there yet must wait.
IsHandler(g, n) == g.nodes[n].role = "compute" /\ g.nodes[n].comp \in app.errorHandlers
Waits(g, h) == OutOf(g, h) = {} \/ NewErrorNodes(g, h) = {}
\* Mutant of Observe: a handler that would have to wait is passed over for good.
ObserveOnce(acc, n) ==
    IF n \in acc.attached THEN acc
    ELSE IF IsHandler(acc.g, n) /\ ~Waits(acc.g, n) THEN Attached(acc, n)
    ELSE [acc EXCEPT !.attached = @ \cup {n}]
Observe(acc, n) ==
    IF n \in acc.attached \/ (IsHandler(acc.g, n) /\ Waits(acc.g, n)) THEN acc
    ELSE IF IsHandler(acc.g, n) THEN Attached(acc, n)
    ELSE [acc EXCEPT !.attached = @ \cup {n}]

\* One round of the fixed point, once the agenda is empty: transformers and
\* observers are added for the nodes that are there.
Expand ==
    /\ phase = "build"
    /\ agenda = << >>
    /\ \E t \in {Accumulate(Transform,
                          [g |-> graph, agenda |-> << >>, attached |-> attached, last |-> 0],
                          [i \in DOMAIN nodes |-> i])} :
       \E r \in {IF app.observers = << >> THEN t
                ELSE Accumulate(Observe, t, [i \in DOMAIN t.g.nodes |-> i])} :
          /\ SetGraph(r.g)
          /\ agenda' = r.agenda
          /\ attached' = r.attached
          /\ phase' = IF r.agenda = << >> /\ Len(r.g.nodes) = Len(nodes) THEN "rewrite" ELSE phase
    /\ transformed' = DOMAIN nodes
    /\ UNCHANGED <<app, processed>>

-----------------------------------------------------------------------------
\* inject_match_branching_nodes: a `match' between a fallible node and its
\* children, which are asserted to be its two matchers.
IsFallible(g, n) == g.nodes[n].role = "compute" /\ app.matchers[g.nodes[n].comp] # << >>
HasMatchers(g, n) ==
    LET kids == Tos(Outgoing(g, n))
    IN /\ Len(kids) = 2
       /\ \A k \in ToSet(kids) : /\ g.nodes[k].role = "compute"
                                 /\ g.nodes[k].comp \in ToSet(app.matchers[g.nodes[n].comp])
Branch(g, n) ==
    LET kids == Tos(Outgoing(g, n))
        k == Len(g.nodes) + 1
    IN IF ~IsFallible(g, n) THEN g
       ELSE [nodes |-> Append(g.nodes, Node(0, "branch")),
             edges |-> Replaced(g, OutOf(g, n),
                                Append([i \in DOMAIN kids |-> Edge(k, kids[i], "move")], Edge(n, k, "move")))]

\* take_references_as_inputs_if_they_suffice: an input that nobody consumes is
\* taken by reference, and the reference is what its users consume.
\* Mutant of TakeReference: the edges of the removed input stay.
TakeReferenceKeepingEdges(g, n) ==
    LET out == Outgoing(g, n)
        k == Len(g.nodes) + 1
    IN IF g.nodes[n].role # "input" \/ \E e \in OutOf(g, n) : e.mode = "move" THEN g
       ELSE [nodes |-> Append([g.nodes EXCEPT ![n].role = "removed"], Node(g.nodes[n].comp, "ref")),
             edges |-> g.edges \o [i \in DOMAIN out |-> Edge(k, out[i].to, "move")]]
TakeReference(g, n) ==
    LET out == Outgoing(g, n)
        role == IF \E e \in OutOf(g, n) : e.mode = "exclusive" THEN "refmut" ELSE "ref"
        k == Len(g.nodes) + 1
    IN IF g.nodes[n].role # "input" \/ \E e \in OutOf(g, n) : e.mode = "move" THEN g
       ELSE [nodes |-> Append([g.nodes EXCEPT ![n].role = "removed"], Node(g.nodes[n].comp, role)),
             edges |-> Replaced(g, OutOf(g, n),
                                [i \in DOMAIN out |-> Edge(k, out[i].to, "move")])]

\* The number enforce_invariants expects: each observer runs once per `match'.
Count(g, P(_)) == Cardinality({n \in Indices(g) : P(g.nodes[n])})
ObserversMatch(g) ==
    Count(g, LAMBDA x : x.comp \in ToSet(app.observers))
        = Count(g, LAMBDA x : x.role = "branch") * Len(app.observers)

Rewrite ==
    /\ phase = "rewrite"
    /\ \E branched \in {Accumulate(Branch, graph, Ascending(graph, Indices(graph)))} :
       \E final \in {Accumulate(TakeReference, branched, Ascending(branched, Sources(branched)))} :
          /\ SetGraph(final)
          /\ phase' = IF /\ \A n \in Indices(graph) : IsFallible(graph, n) => HasMatchers(graph, n)
                         /\ ObserversMatch(final)
                      THEN "multiple" ELSE "panicked"
    /\ UNCHANGED <<app, buildVars>>

Build == CheckAcyclic \/ VisitNode \/ Expand \/ Rewrite
=============================================================================
