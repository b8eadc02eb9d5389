------------------------------ MODULE CallGraph ------------------------------
(***************************************************************************)
(* The call graph of pavexc: who builds, borrows and consumes which value  *)
(* when a handler or a middleware is invoked.                              *)
(*                                                                         *)
(* It is a petgraph StableGraph: a node keeps its index for ever, edges    *)
(* are met newest first when the neighbours of a node are listed, and the  *)
(* external nodes are listed by index.  The passes over the graph follow   *)
(* these orders, so the model keeps them: an index is a position in        *)
(* `nodes', and `edges' lists the edges in the order they were added.      *)
(***************************************************************************)
EXTENDS Naturals, Sequences, FiniteSets, SequencesExt, Iteration

CONSTANT Apps    \* the applications under analysis, see IsApp

\* What the component database knows of the components one call graph can
\* hold.  A component stands for the type it outputs.
IsApp(a) ==
    LET Comp == DOMAIN a.inputs IN
    /\ IsFiniteSet(Comp) /\ a.root \in Comp
    /\ a.inputs \in [Comp -> Seq([on : Comp, mode : {"move", "shared", "exclusive"}])]
    /\ a.calls \in [Comp -> {"one", "many", "none"}]   \* NumberOfAllowedInvocations
    /\ a.clonable \subseteq Comp      \* constructors not marked NeverClone
    /\ a.copy \subseteq Comp          \* their output is Copy
    /\ a.holds \in [Comp -> SUBSET Comp]   \* inputs whose lifetime is tied to the output
    /\ a.transformers \in [Comp -> Seq([comp : Comp, mode : {"move", "shared"}])]
    /\ a.matchers \in [Comp -> Seq(Comp)]  \* <<Ok matcher, Err matcher>> of a fallible one
    /\ a.errorHandlers \subseteq Comp
    /\ a.newErrors \subseteq Comp     \* invocations of pavex::Error::new
    /\ a.observers \in Seq(Comp)

ASSUME AppsAssumption == \A a \in Apps : IsApp(a)

VARIABLES
    app,     \* the application under analysis
    nodes,   \* index -> its component and its role
    edges,   \* the edges, in the order they were added
    phase    \* the pass that runs, or the outcome

graphVars == <<app, nodes, edges>>

\* Roles: a computation; an input parameter, taken by value or by reference;
\* the `match' on a Result; a removed node.  A clone is the computation that
\* clones the output of its component.
Roles == {"compute", "input", "ref", "refmut", "branch", "clone", "removed"}
Node(c, r) == [comp |-> c, role |-> r]
Edge(a, b, m) == [from |-> a, to |-> b, mode |-> m]
Borrows == {"shared", "exclusive"}

Indices(g) == {n \in DOMAIN g.nodes : g.nodes[n].role # "removed"}

\* The elements of s that are in S, in the order of s.
Those(s, S) ==
    CHOOSE r \in {Accumulate(LAMBDA acc, x : IF x \in T THEN Append(acc, x) ELSE acc, << >>, s) :
                      T \in {S}} : TRUE
Ascending(g, S) == Those([n \in DOMAIN g.nodes |-> n], S)

EdgesOf(g) == ToSet(g.edges)
\* The edges into and out of a node; listed newest first.
Into(g, n) == {e \in EdgesOf(g) : e.to = n}
OutOf(g, n) == {e \in EdgesOf(g) : e.from = n}
Incoming(g, n) == Reverse(Those(g.edges, Into(g, n)))
Outgoing(g, n) == Reverse(Those(g.edges, OutOf(g, n)))
Sources(g) == {n \in Indices(g) : \A i \in DOMAIN g.edges : g.edges[i].to # n}
Sinks(g) == {n \in Indices(g) : \A i \in DOMAIN g.edges : g.edges[i].from # n}
Froms(es) == [i \in DOMAIN es |-> es[i].from]
Tos(es) == [i \in DOMAIN es |-> es[i].to]

Consumes(g, b, a) == Edge(a, b, "move") \in EdgesOf(g)
BorrowsFrom(g, b, a) == \E m \in Borrows : Edge(a, b, m) \in EdgesOf(g)

\* update_edge: there is at most one edge from a node to another.
Link(g, a, b, m) ==
    LET old == {i \in DOMAIN g.edges : g.edges[i].from = a /\ g.edges[i].to = b} IN
    [g EXCEPT !.edges =
        IF old = {} THEN Append(@, Edge(a, b, m))
        ELSE [i \in DOMAIN @ |-> IF i \in old THEN Edge(a, b, m) ELSE @[i]]]

\* What can be reached from n in at most k steps of Step, n included.
Within(n, Step(_), k) ==
    Accumulate(LAMBDA S, i : UNION {{m} \cup Step(m) : m \in S}, {n}, [i \in 1..k |-> i])
Reach(g, n) == Within(n, LAMBDA m : {e.to : e \in OutOf(g, m)}, Len(g.nodes))

\* IndexSet::insert.
Insert(s, x) == IF Contains(s, x) THEN s ELSE Append(s, x)

\* CopyChecker::is_copy and get_clone_component_id, seen from a node.
IsCopy(n) == nodes[n].role \in {"branch", "ref"} \/ (nodes[n].comp \in app.copy /\ nodes[n].role # "refmut")
Clonable(n) == nodes[n].role \in {"compute", "input", "ref", "refmut"} /\ nodes[n].comp \in app.clonable

\* The edges of g, some of them replaced by edges of a new node.
Replaced(g, old, new) == Those(g.edges, EdgesOf(g) \ old) \o new

\* A clone of node n for its consumer c: `Clone::clone' borrows n.
\* Mutant of WithClone: the consumer still consumes the original as well.
WithCloneKeepingMove(g, n, c) ==
    LET k == Len(g.nodes) + 1
    IN [nodes |-> Append(g.nodes, Node(g.nodes[n].comp, "clone")),
        edges |-> g.edges \o <<Edge(n, k, "shared"), Edge(k, c, "move")>>]
WithClone(g, n, c) ==
    LET k == Len(g.nodes) + 1
    IN [nodes |-> Append(g.nodes, Node(g.nodes[n].comp, "clone")),
        edges |-> Replaced(g, {e \in EdgesOf(g) : e.from = n /\ e.to = c},
                           <<Edge(n, k, "shared"), Edge(k, c, "move")>>)]

graph == [nodes |-> nodes, edges |-> edges]
SetGraph(g) == nodes' = g.nodes /\ edges' = g.edges
=============================================================================
