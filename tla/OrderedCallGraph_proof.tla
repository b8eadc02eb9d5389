------------------------ MODULE OrderedCallGraph_proof ------------------------
(***************************************************************************)
(* Proofs about OrderedCallGraph, for any set of applications: the order   *)
(* of the nodes, that the graph stays one graph through all passes, that   *)
(* it has no cycle when it is built, and that no value is used after the   *)
(* node that consumes it.                                                  *)
(***************************************************************************)
EXTENDS OrderedCallGraph, FiniteSetTheorems, TLAPS

\* The passes before the ordering, and those that place nodes.
Ordering == {"order", "done", "stuck"}

\* Positions are counted from 0, and no node has one before the ordering.
PositionInv ==
    /\ IsFiniteSet(Placed)
    /\ \A n \in Placed : position[n] \in 0..(Cardinality(Placed) - 1)
    /\ phase \notin Ordering => Placed = {}

OrderInv == PositionInv /\ PlacedInOrder

LEMMA OrderInvInit == OInit => OrderInv
<1> SUFFICES ASSUME OInit PROVE OrderInv
    OBVIOUS
<1>1. Placed = {}
    BY DEF OInit, InitOrder, Placed
<1>2. IsFiniteSet(Placed)
    BY <1>1, FS_EmptySet
<1> QED
    BY <1>1, <1>2 DEF OrderInv, PositionInv, PlacedInOrder

\* Before the ordering nothing is placed, whatever a pass does to the graph.
LEMMA NothingPlaced ==
    ASSUME OrderInv, phase \notin Ordering, UNCHANGED position
    PROVE  OrderInv'
<1>1. Placed = {} /\ IsFiniteSet(Placed) /\ Placed' = Placed
    BY DEF OrderInv, PositionInv, Placed
<1> QED
    BY <1>1 DEF OrderInv, PositionInv, PlacedInOrder, Placed

\* While the graph and the positions stay, so does their order.
LEMMA OrderKept ==
    ASSUME OrderInv, phase \in Ordering, phase' \in Ordering, UNCHANGED <<graphVars, position>>
    PROVE  OrderInv'
BY DEF OrderInv, PositionInv, PlacedInOrder, Placed, graphVars, graph, EdgesOf, IsCopy, Ordering

LEMMA BuildPhases == Build => phase \notin Ordering
BY DEF Build, CheckAcyclic, VisitNode, Expand, Rewrite, Ordering

LEMMA CheckPhases == Check => phase \notin Ordering
BY DEF Check, MultipleConsumers, Capture, StartMoves, Discover, Leave, StartComplex,
       Finish, Park, Clone, Report, EndOfRound, Complex, Ordering

\* A node that is placed goes after all the others.
LEMMA PlaceKeeps ==
    ASSUME OrderInv, NEW n \in DOMAIN nodes, Place(n)
    PROVE  OrderInv'
<1>1. /\ n \notin Placed /\ phase = "order" /\ phase' = "order"
      /\ ~IsBlocked(n) /\ UNCHANGED graphVars
      /\ position' = [m \in Placed \cup {n} |-> IF m = n THEN Cardinality(Placed) ELSE position[m]]
    BY DEF Place, Top
<1>2. /\ EdgesOf(graph)' = EdgesOf(graph)
      /\ \A a : IsCopy(a)' = IsCopy(a)
    BY <1>1 DEF graphVars, graph, EdgesOf, IsCopy
<1>3. Placed' = Placed \cup {n}
    BY <1>1 DEF Placed
<1>4. /\ IsFiniteSet(Placed) /\ Cardinality(Placed) \in Nat
      /\ IsFiniteSet(Placed') /\ Cardinality(Placed') = Cardinality(Placed) + 1
    BY <1>1, <1>3, FS_AddElement, FS_CardinalityType DEF OrderInv, PositionInv
<1>5. /\ position'[n] = Cardinality(Placed)
      /\ \A m \in Placed : position'[m] = position[m] /\ position'[m] \in 0..(Cardinality(Placed) - 1)
    BY <1>1 DEF OrderInv, PositionInv
<1>6. PositionInv'
  <2>1. \A m \in Placed' : position'[m] \in 0..(Cardinality(Placed') - 1)
    <3>1. Cardinality(Placed') - 1 = Cardinality(Placed)
        BY <1>4
    <3>2. \A m \in Placed : position'[m] \in 0..Cardinality(Placed)
        BY <1>4, <1>5
    <3>3. position'[n] \in 0..Cardinality(Placed)
        BY <1>4, <1>5
    <3> QED
        BY <3>1, <3>2, <3>3, <1>3
  <2>2. phase' \in Ordering
      BY <1>1 DEF Ordering
  <2> QED
      BY <1>4, <2>1, <2>2 DEF PositionInv
<1>7. PlacedInOrder'
  <2> SUFFICES ASSUME NEW e \in EdgesOf(graph), e.to \in Placed'
               PROVE  /\ e.from \in Placed'
                      /\ position'[e.from] < position'[e.to]
                      /\ e.mode = "move" /\ ~IsCopy(e.from) =>
                            \A u \in EdgesOf(graph) : u.from = e.from /\ u.mode \in Borrows =>
                                u.to \in Placed' /\ position'[u.to] < position'[e.to]
      BY <1>2 DEF PlacedInOrder
  <2>1. CASE e.to \in Placed
    <3>1. /\ e.from \in Placed
          /\ position[e.from] < position[e.to]
          /\ e.mode = "move" /\ ~IsCopy(e.from) =>
                \A u \in EdgesOf(graph) : u.from = e.from /\ u.mode \in Borrows =>
                    u.to \in Placed /\ position[u.to] < position[e.to]
        BY <2>1 DEF OrderInv, PlacedInOrder
    <3> QED
        BY <2>1, <3>1, <1>3, <1>5
  <2>2. CASE e.to = n
    <3>1. /\ e.from \in Placed
          /\ e.mode = "move" /\ ~IsCopy(e.from) =>
                \A u \in EdgesOf(graph) : u.from = e.from /\ u.mode \in Borrows => u.to \in Placed
        BY <1>1, <2>2 DEF IsBlocked, StillBorrowed
    <3>2. \A m \in Placed : position'[m] < position'[n]
        BY <1>4, <1>5
    <3> QED
        BY <2>2, <3>1, <3>2, <1>3
  <2> QED
      BY <1>3, <2>1, <2>2
<1> QED
    BY <1>6, <1>7 DEF OrderInv

LEMMA OrderInvNext == OrderInv /\ [Next]_vars => OrderInv'
<1> SUFFICES ASSUME OrderInv, [Next]_vars PROVE OrderInv'
    OBVIOUS
<1>1. CASE Build /\ UNCHANGED <<checkVars, orderVars>>
    BY <1>1, BuildPhases, NothingPlaced DEF orderVars
<1>2. CASE Check /\ UNCHANGED <<buildVars, orderVars>>
    BY <1>2, CheckPhases, NothingPlaced DEF orderVars
<1>3. CASE Order
  <2>1. CASE StartOrder
      BY <2>1, NothingPlaced DEF StartOrder, Ordering
  <2>2. ASSUME NEW n \in DOMAIN nodes, Skip(n) \/ DiscoverNode(n) \/ ParkNode(n)
        PROVE  OrderInv'
    <3>1. phase \in Ordering /\ phase' \in Ordering /\ UNCHANGED <<graphVars, position>>
        BY <2>2 DEF Skip, DiscoverNode, ParkNode, Top, Ordering
    <3> QED
        BY <3>1, OrderKept
  <2>3. ASSUME NEW n \in DOMAIN nodes, Place(n) PROVE OrderInv'
      BY <2>3, PlaceKeeps
  <2>4. CASE NextRound
    <3>1. phase \in Ordering /\ phase' \in Ordering /\ UNCHANGED <<graphVars, position>>
        BY <2>4 DEF NextRound, Ordering
    <3> QED
        BY <3>1, OrderKept
  <2> QED
      BY <1>3, <2>1, <2>2, <2>3, <2>4 DEF Order
<1>4. CASE UNCHANGED vars
  <2>1. UNCHANGED <<graphVars, position, phase>>
      BY <1>4 DEF vars, orderVars
  <2>2. CASE phase \in Ordering
      BY <2>1, <2>2, OrderKept
  <2>3. CASE phase \notin Ordering
      BY <2>1, <2>3, NothingPlaced
  <2> QED
      BY <2>2, <2>3
<1> QED
    BY <1>1, <1>2, <1>3, <1>4 DEF Next

\* In every application, whatever the order so far, a value exists when it is
\* used, and what consumes it comes after all that borrows it (assign_order.rs).
THEOREM PlacedInOrderHolds == Spec => []PlacedInOrder
<1>1. OrderInv => PlacedInOrder
    BY DEF OrderInv
<1> QED
    BY OrderInvInit, OrderInvNext, <1>1, PTL DEF Spec

-----------------------------------------------------------------------------
(* Sequences of edges and of nodes. *)

LEMMA SeqFacts ==
    ASSUME NEW T, NEW s \in Seq(T)
    PROVE  /\ Reverse(s) \in Seq(T) /\ Front(s) \in Seq(T)
           /\ s # << >> => Last(s) \in T /\ Head(s) \in T /\ Tail(s) \in Seq(T)
           /\ ToSet(s) \subseteq T
           /\ s # << >> => Reverse(s) # << >>
BY DEF Reverse, Last, Front, ToSet

LEMMA InsertFacts ==
    ASSUME NEW T, NEW s \in Seq(T), NEW x \in T
    PROVE  Insert(s, x) \in Seq(T)
BY DEF Insert

LEMMA ConcatFacts ==
    ASSUME NEW T, NEW s \in Seq(T), NEW t \in Seq(T)
    PROVE  s \o t \in Seq(T)
OBVIOUS

LEMMA SeqIn ==
    ASSUME NEW T, NEW U, NEW s \in Seq(T), \A i \in DOMAIN s : s[i] \in U
    PROVE  s \in Seq(U)
OBVIOUS

Keep(S, acc, x) == IF x \in S THEN Append(acc, x) ELSE acc
Kept == INSTANCE FoldFacts WITH Step <- Keep

LEMMA ThoseFacts ==
    ASSUME NEW T, NEW s \in Seq(T), NEW S
    PROVE  /\ Those(s, S) \in Seq(T \cap S)
           /\ \A i \in DOMAIN s : s[i] \in S => Those(s, S) # << >>
<1> DEFINE A == [i \in 0..Len(s) |->
                   {t \in Seq(T \cap S) : \A j \in 1..i : s[j] \in S => t # << >>}]
<1>1. << >> \in A[0]
    OBVIOUS
<1>2. ASSUME NEW i \in 1..Len(s), NEW a \in A[i - 1] PROVE Keep(S, a, s[i]) \in A[i]
  <2>1. /\ a \in Seq(T \cap S) /\ s[i] \in T /\ i \in 0..Len(s)
        /\ \A j \in 1..(i - 1) : s[j] \in S => a # << >>
      OBVIOUS
  <2>2. Keep(S, a, s[i]) \in Seq(T \cap S)
      BY <2>1 DEF Keep
  <2>3. ASSUME NEW j \in 1..i, s[j] \in S PROVE Keep(S, a, s[i]) # << >>
    <3>1. CASE s[i] \in S
        BY <2>1, <3>1 DEF Keep
    <3>2. CASE s[i] \notin S
      <4>1. j \in 1..(i - 1)
          BY <2>3, <3>2
      <4> QED
          BY <2>1, <2>3, <3>2, <4>1 DEF Keep
    <3> QED
        BY <3>1, <3>2
  <2> QED
      BY <2>1, <2>2, <2>3
<1>3. A[Len(s)] = {t \in Seq(T \cap S) : \A j \in 1..Len(s) : s[j] \in S => t # << >>}
    OBVIOUS
<1> HIDE DEF A
<1>4. Kept!Folded(S, << >>, s) \in A[Len(s)]
    BY <1>1, <1>2, Kept!FoldRuns
<1>5. Those(s, S) = Kept!Folded(S, << >>, s)
    BY DEF Those, Accumulate, Kept!Folded, Keep
<1> QED
    BY <1>3, <1>4, <1>5

-----------------------------------------------------------------------------
(* Graphs. *)

Comps == DOMAIN app.inputs
NodeSet == [comp : Comps \cup {0}, role : Roles]
EdgesBetween(N) == [from : N, to : N, mode : Borrows \cup {"move", "before"}]

\* NodeDeduplicator: one node for a component that is invoked once.
Once(g) ==
    \A m, n \in DOMAIN g.nodes :
        /\ g.nodes[m].role = "compute" /\ g.nodes[n].role = "compute"
        /\ g.nodes[m].comp = g.nodes[n].comp /\ app.calls[g.nodes[m].comp] = "one"
        => m = n

\* Edges join nodes that have not been removed.
Graphs ==
    { g \in [nodes : Seq(NodeSet), edges : Seq(EdgesBetween(Nat))] :
        /\ \A i \in DOMAIN g.edges : g.edges[i].from \in Indices(g) /\ g.edges[i].to \in Indices(g)
        /\ \A n \in DOMAIN g.nodes : g.nodes[n].role \in {"compute", "input"} => g.nodes[n].comp \in Comps
        /\ Once(g) }

LEMMA GraphFacts ==
    ASSUME NEW g \in Graphs
    PROVE  /\ g = [nodes |-> g.nodes, edges |-> g.edges]
           /\ Len(g.nodes) \in Nat /\ DOMAIN g.nodes = 1..Len(g.nodes)
           /\ Indices(g) \subseteq 1..Len(g.nodes) /\ Indices(g) \subseteq Nat
           /\ \A n \in DOMAIN g.nodes : g.nodes[n] \in NodeSet
           /\ g.edges \in Seq(EdgesBetween(Indices(g)))
           /\ EdgesOf(g) \subseteq EdgesBetween(Indices(g))
<1>1. g.edges \in Seq(EdgesBetween(Nat)) /\ g.nodes \in Seq(NodeSet)
    BY DEF Graphs
<1>2. \A i \in DOMAIN g.edges : g.edges[i] \in EdgesBetween(Indices(g))
  <2> SUFFICES ASSUME NEW i \in DOMAIN g.edges PROVE g.edges[i] \in EdgesBetween(Indices(g))
      OBVIOUS
  <2>1. g.edges[i] \in EdgesBetween(Nat)
      BY <1>1
  <2>2. g.edges[i].from \in Indices(g) /\ g.edges[i].to \in Indices(g)
      BY DEF Graphs
  <2> QED
      BY <2>1, <2>2 DEF EdgesBetween
<1> HIDE DEF EdgesBetween
<1>3. g.edges \in Seq(EdgesBetween(Indices(g)))
    BY <1>1, <1>2, SeqIn
<1>4. EdgesOf(g) \subseteq EdgesBetween(Indices(g))
    BY <1>2 DEF EdgesOf, ToSet
<1>5. g = [nodes |-> g.nodes, edges |-> g.edges]
    BY DEF Graphs
<1> QED
    BY <1>1, <1>3, <1>4, <1>5 DEF Indices

LEMMA EdgeLists ==
    ASSUME NEW g \in Graphs, NEW n, NEW S
    PROVE  /\ Ascending(g, S) \in Seq(Nat \cap S)
           /\ S \subseteq Indices(g) => Ascending(g, S) \in Seq(S)
           /\ S \cap Indices(g) # {} => Ascending(g, S) # << >>
           /\ OutOf(g, n) # {} => Outgoing(g, n) # << >>
           /\ Incoming(g, n) \in Seq(Into(g, n)) /\ Outgoing(g, n) \in Seq(OutOf(g, n))
           /\ Froms(Incoming(g, n)) \in Seq(Indices(g)) /\ Tos(Outgoing(g, n)) \in Seq(Indices(g))
<1>1. [i \in DOMAIN g.nodes |-> i] \in Seq(Nat)
    BY GraphFacts
<1>2. Ascending(g, S) \in Seq(Nat \cap S)
    BY <1>1, ThoseFacts DEF Ascending
<1>3. S \subseteq Indices(g) => Nat \cap S = S
    BY GraphFacts
<1>4. S \cap Indices(g) # {} => Ascending(g, S) # << >>
    BY <1>1, ThoseFacts DEF Ascending, Indices
<1>5. OutOf(g, n) # {} => Outgoing(g, n) # << >>
  <2>1. g.edges \in Seq(EdgesBetween(Indices(g)))
      BY GraphFacts
  <2> HIDE DEF EdgesBetween
  <2>2. OutOf(g, n) # {} => Those(g.edges, OutOf(g, n)) # << >>
      BY <2>1, ThoseFacts DEF OutOf, EdgesOf, ToSet
  <2>3. Those(g.edges, OutOf(g, n)) \in Seq(EdgesBetween(Indices(g)) \cap OutOf(g, n))
      BY <2>1, ThoseFacts
  <2> QED
      BY <2>2, <2>3, SeqFacts DEF Outgoing
<1>6. ASSUME NEW E \in SUBSET EdgesOf(g) PROVE Reverse(Those(g.edges, E)) \in Seq(E)
  <2>1. Those(g.edges, E) \in Seq(EdgesBetween(Indices(g)) \cap E)
      BY GraphFacts, ThoseFacts
  <2>2. EdgesBetween(Indices(g)) \cap E = E
      BY GraphFacts
  <2> HIDE DEF EdgesBetween
  <2> QED
      BY <2>1, <2>2, SeqFacts
<1>7. /\ Incoming(g, n) \in Seq(Into(g, n)) /\ Into(g, n) \subseteq EdgesBetween(Indices(g))
      /\ Outgoing(g, n) \in Seq(OutOf(g, n)) /\ OutOf(g, n) \subseteq EdgesBetween(Indices(g))
    BY <1>6, GraphFacts DEF Incoming, Outgoing, Into, OutOf
<1>8. Froms(Incoming(g, n)) \in Seq(Indices(g)) /\ Tos(Outgoing(g, n)) \in Seq(Indices(g))
  <2>1. ASSUME NEW s \in Seq(EdgesBetween(Indices(g)))
        PROVE  Froms(s) \in Seq(Indices(g)) /\ Tos(s) \in Seq(Indices(g))
    <3>1. \A i \in DOMAIN s : s[i] \in EdgesBetween(Indices(g))
        OBVIOUS
    <3>2. \A i \in DOMAIN s : s[i].from \in Indices(g) /\ s[i].to \in Indices(g)
        BY <3>1 DEF EdgesBetween
    <3>3. Len(s) \in Nat /\ DOMAIN s = 1..Len(s)
        OBVIOUS
    <3> QED
        BY <3>2, <3>3 DEF Froms, Tos
  <2>2. Incoming(g, n) \in Seq(EdgesBetween(Indices(g))) /\ Outgoing(g, n) \in Seq(EdgesBetween(Indices(g)))
      BY <1>7
  <2> QED
      BY <2>1, <2>2
<1> QED
    BY <1>2, <1>3, <1>4, <1>5, <1>7, <1>8

LEMMA LinkFacts ==
    ASSUME NEW g \in Graphs, NEW a \in Indices(g), NEW b \in Indices(g),
           NEW m \in Borrows \cup {"move", "before"}
    PROVE  Link(g, a, b, m) \in Graphs /\ Link(g, a, b, m).nodes = g.nodes
<1> DEFINE h == Link(g, a, b, m)
<1>1. /\ h = [nodes |-> g.nodes, edges |-> h.edges]
      /\ h.edges \in Seq(EdgesBetween(Indices(g)))
  <2>1. Edge(a, b, m) \in EdgesBetween(Indices(g)) /\ g.edges \in Seq(EdgesBetween(Indices(g)))
      BY GraphFacts DEF Edge, EdgesBetween
  <2>2. h = [nodes |-> g.nodes, edges |-> h.edges]
    <3>1. g = [nodes |-> g.nodes, edges |-> g.edges]
        BY GraphFacts
    <3> QED
        BY <3>1 DEF Link
  <2> HIDE DEF EdgesBetween
  <2>3. h.edges \in Seq(EdgesBetween(Indices(g)))
      BY <2>1 DEF Link, Graphs
  <2> QED
      BY <2>2, <2>3
<1> HIDE DEF h
<1>2. Indices(h) = Indices(g)
    BY <1>1 DEF Indices
<1>3. \A i \in DOMAIN h.edges : h.edges[i] \in EdgesBetween(Indices(g))
    BY <1>1
<1>4. h.edges \in Seq(EdgesBetween(Nat))
  <2>1. EdgesBetween(Indices(g)) \subseteq EdgesBetween(Nat)
      BY GraphFacts DEF EdgesBetween
  <2>2. \A i \in DOMAIN h.edges : h.edges[i] \in EdgesBetween(Nat)
      BY <1>3, <2>1
  <2> QED
      BY <1>1, <2>2, SeqIn
<1>5. h \in [nodes : Seq(NodeSet), edges : Seq(EdgesBetween(Nat))]
    BY <1>1, <1>4 DEF Graphs
<1>6. h.nodes = g.nodes
    BY <1>1
<1>7. Once(h)
    BY <1>6 DEF Once, Graphs
<1>8. h \in Graphs
    BY <1>2, <1>3, <1>5, <1>6, <1>7 DEF Graphs, EdgesBetween
<1> QED
    BY <1>6, <1>8 DEF h

\* A new node with the edges of another graph over the nodes there are.
LEMMA NewNode ==
    ASSUME NEW g \in Graphs, NEW x \in NodeSet, x.role \in {"branch", "clone", "ref", "refmut"},
           NEW es \in Seq(EdgesBetween(Indices(g) \cup {Len(g.nodes) + 1}))
    PROVE  /\ [nodes |-> Append(g.nodes, x), edges |-> es] \in Graphs
           /\ Indices([nodes |-> Append(g.nodes, x), edges |-> es]) = Indices(g) \cup {Len(g.nodes) + 1}
<1> DEFINE k == Len(g.nodes) + 1
           h == [nodes |-> Append(g.nodes, x), edges |-> es]
<1>1. /\ k \in Nat /\ k \notin DOMAIN g.nodes
      /\ Append(g.nodes, x) \in Seq(NodeSet) /\ DOMAIN h.nodes = DOMAIN g.nodes \cup {k}
      /\ h.nodes[k] = x /\ \A n \in DOMAIN g.nodes : h.nodes[n] = g.nodes[n]
    BY GraphFacts DEF Graphs
<1>2. Indices(h) = Indices(g) \cup {k}
    BY <1>1 DEF Indices
<1>3. \A i \in DOMAIN es : es[i] \in EdgesBetween(Indices(h)) /\ es[i] \in EdgesBetween(Nat)
  <2>1. EdgesBetween(Indices(h)) \subseteq EdgesBetween(Nat)
      BY <1>1, <1>2, GraphFacts DEF EdgesBetween
  <2>2. \A i \in DOMAIN es : es[i] \in EdgesBetween(Indices(g) \cup {k})
      OBVIOUS
  <2> HIDE DEF h, k
  <2> QED
      BY <1>2, <2>1, <2>2
<1>4. es \in Seq(EdgesBetween(Nat))
    BY <1>3, SeqIn
<1> HIDE DEF h, k
<1>5. h.edges = es /\ h \in [nodes : Seq(NodeSet), edges : Seq(EdgesBetween(Nat))]
    BY <1>1, <1>4 DEF h
<1>6. \A n \in DOMAIN h.nodes : h.nodes[n].role \in {"compute", "input"} => n # k
    BY <1>1
<1>7. Once(h)
    BY <1>1, <1>6 DEF Once, Graphs
<1>8. \A n \in DOMAIN h.nodes : h.nodes[n].role \in {"compute", "input"} => h.nodes[n].comp \in Comps
    BY <1>1, <1>6 DEF Graphs
<1>9. h \in Graphs
    BY <1>3, <1>5, <1>7, <1>8 DEF Graphs, EdgesBetween
<1> QED
    BY <1>2, <1>9 DEF h, k

LEMMA ReplacedFacts ==
    ASSUME NEW g \in Graphs, NEW old, NEW N, Indices(g) \subseteq N, NEW new \in Seq(EdgesBetween(N))
    PROVE  Replaced(g, old, new) \in Seq(EdgesBetween(N))
<1>1. Those(g.edges, EdgesOf(g) \ old) \in Seq(EdgesBetween(Indices(g)) \cap (EdgesOf(g) \ old))
    BY GraphFacts, ThoseFacts
<1>2. EdgesBetween(Indices(g)) \cap (EdgesOf(g) \ old) \subseteq EdgesBetween(N)
    BY DEF EdgesBetween
<1>3. Those(g.edges, EdgesOf(g) \ old) \in Seq(EdgesBetween(N))
    BY <1>1, <1>2
<1> QED
    BY <1>3, SeqFacts DEF Replaced

LEMMA WithCloneFacts ==
    ASSUME NEW g \in Graphs, NEW n \in Indices(g), NEW c \in Indices(g)
    PROVE  /\ WithClone(g, n, c) \in Graphs
           /\ Indices(g) \subseteq Indices(WithClone(g, n, c))
           /\ DOMAIN g.nodes \subseteq DOMAIN WithClone(g, n, c).nodes
<1> DEFINE k == Len(g.nodes) + 1
           N == Indices(g) \cup {k}
           old == {e \in EdgesOf(g) : e.from = n /\ e.to = c}
           new == <<Edge(n, k, "shared"), Edge(k, c, "move")>>
           x == Node(g.nodes[n].comp, "clone")
<1>1. new \in Seq(EdgesBetween(N))
    BY DEF Edge, EdgesBetween, Borrows
<1>2. Replaced(g, old, new) \in Seq(EdgesBetween(N))
  <2> HIDE DEF N, old, new
  <2>1. Indices(g) \subseteq N
      BY DEF N
  <2> QED
      BY <1>1, <2>1, ReplacedFacts
<1>3. x \in NodeSet /\ x.role = "clone"
    BY GraphFacts DEF Node, NodeSet, Roles, Indices
<1>4. WithClone(g, n, c) = [nodes |-> Append(g.nodes, x), edges |-> Replaced(g, old, new)]
    BY DEF WithClone
<1> HIDE DEF x, old, new
<1>5. WithClone(g, n, c) \in Graphs /\ Indices(WithClone(g, n, c)) = N
    BY <1>2, <1>3, <1>4, NewNode
<1>6. DOMAIN g.nodes \subseteq DOMAIN WithClone(g, n, c).nodes
    BY <1>4, GraphFacts DEF Graphs
<1> QED
    BY <1>5, <1>6

-----------------------------------------------------------------------------
(* Graphs that are being built: their nodes are components in their roles. *)

BuildGraphs ==
    { g \in Graphs : \A n \in DOMAIN g.nodes :
          g.nodes[n].comp \in Comps /\ g.nodes[n].role = RoleOf(g.nodes[n].comp) }
Visits(N) == [node : N, edges : Seq(EdgesBetween(N))]

LEMMA BuildGraphFacts ==
    ASSUME NEW g \in BuildGraphs
    PROVE  /\ g \in Graphs
           /\ Indices(g) = DOMAIN g.nodes /\ DOMAIN g.nodes = 1..Len(g.nodes) /\ Len(g.nodes) \in Nat
<1>1. g \in Graphs /\ \A n \in DOMAIN g.nodes : g.nodes[n].role = RoleOf(g.nodes[n].comp)
    BY DEF BuildGraphs
<1> QED
    BY <1>1, GraphFacts DEF Indices, RoleOf

\* A component is found, or added, where its users look for it.
LEMMA AddNodeFacts ==
    ASSUME IsApp(app), NEW g \in BuildGraphs, NEW c \in Comps
    PROVE  /\ AddNode(g, c) \in BuildGraphs
           /\ Indices(g) \subseteq Indices(AddNode(g, c))
           /\ NodeFor(AddNode(g, c), c) \in Indices(AddNode(g, c))
<1>1. CASE app.calls[c] # "many" /\ NodesOf(g, c) # {}
  <2>1. AddNode(g, c) = g
      BY <1>1 DEF AddNode
  <2>2. NodeFor(g, c) \in NodesOf(g, c)
      BY <1>1 DEF NodeFor
  <2> QED
      BY <2>1, <2>2, BuildGraphFacts DEF NodesOf
<1>2. CASE ~(app.calls[c] # "many" /\ NodesOf(g, c) # {})
  <2> DEFINE k == Len(g.nodes) + 1
             x == Node(c, RoleOf(c))
             h == [nodes |-> Append(g.nodes, x), edges |-> g.edges]
  <2>1. AddNode(g, c) = h
    <3>1. g = [nodes |-> g.nodes, edges |-> g.edges]
        BY BuildGraphFacts, GraphFacts
    <3> QED
        BY <1>2, <3>1 DEF AddNode
  <2>2. g.nodes \in Seq(NodeSet) /\ x \in NodeSet /\ x.comp = c /\ x.role = RoleOf(c) /\ RoleOf(c) # "removed"
      BY BuildGraphFacts DEF Graphs, Node, NodeSet, RoleOf, Roles
  <2>3. /\ k \in Nat /\ k \notin DOMAIN g.nodes
        /\ h.nodes \in Seq(NodeSet) /\ DOMAIN h.nodes = DOMAIN g.nodes \cup {k} /\ Len(h.nodes) = k
        /\ h.nodes[k] = x /\ \A n \in DOMAIN g.nodes : h.nodes[n] = g.nodes[n]
        /\ h.edges = g.edges
    <3> HIDE DEF x
    <3> QED
        BY <2>2, BuildGraphFacts
  <2> HIDE DEF h, k, x
  <2>4. Indices(h) = Indices(g) \cup {k}
      BY <2>2, <2>3 DEF Indices
  <2>5. \A n \in DOMAIN h.nodes : h.nodes[n].comp \in Comps /\ h.nodes[n].role = RoleOf(h.nodes[n].comp)
      BY <2>2, <2>3 DEF BuildGraphs
  <2>6. Once(h)
    <3> SUFFICES ASSUME NEW m \in DOMAIN h.nodes, NEW n \in DOMAIN h.nodes,
                        h.nodes[m].role = "compute", h.nodes[n].role = "compute",
                        h.nodes[m].comp = h.nodes[n].comp, app.calls[h.nodes[m].comp] = "one"
                 PROVE  m = n
        BY DEF Once
    <3>1. CASE m \in DOMAIN g.nodes /\ n \in DOMAIN g.nodes
      <4>1. Once(g)
          BY BuildGraphFacts DEF Graphs
      <4> QED
          BY <2>3, <3>1, <4>1 DEF Once
    <3>2. CASE m = k /\ n \in DOMAIN g.nodes
        BY <1>2, <2>2, <2>3, <3>2 DEF NodesOf
    <3>3. CASE n = k /\ m \in DOMAIN g.nodes
        BY <1>2, <2>2, <2>3, <3>3 DEF NodesOf
    <3> QED
        BY <2>3, <3>1, <3>2, <3>3
  <2>7. h \in [nodes : Seq(NodeSet), edges : Seq(EdgesBetween(Nat))]
    <3>1. g.edges \in Seq(EdgesBetween(Nat)) /\ h = [nodes |-> h.nodes, edges |-> h.edges]
        BY BuildGraphFacts DEF Graphs, h
    <3> QED
        BY <2>3, <3>1
  <2>8. h \in BuildGraphs
    <3>1. \A i \in DOMAIN g.edges : g.edges[i].from \in Indices(g) /\ g.edges[i].to \in Indices(g)
        BY BuildGraphFacts DEF Graphs
    <3>2. h \in Graphs
        BY <2>3, <2>4, <2>5, <2>6, <2>7, <3>1 DEF Graphs
    <3> QED
        BY <2>5, <3>2 DEF BuildGraphs
  <2>9. NodeFor(h, c) \in Indices(h)
    <3>1. k \in NodesOf(h, c) /\ NodesOf(h, c) \subseteq Indices(h)
        BY <2>2, <2>3, <2>8, BuildGraphFacts DEF NodesOf
    <3> QED
        BY <2>3, <2>4, <3>1 DEF NodeFor
  <2> QED
      BY <2>1, <2>4, <2>8, <2>9
<1> QED
    BY <1>1, <1>2

LEMMA VisitFacts ==
    ASSUME NEW N, NEW M, N \subseteq M, NEW s \in Seq(Visits(N))
    PROVE  /\ s \in Seq(Visits(M))
           /\ \A k \in M, es \in Seq(EdgesBetween(M)) : Insert(s, Visit(k, es)) \in Seq(Visits(M))
<1>1. EdgesBetween(N) \subseteq EdgesBetween(M)
    BY DEF EdgesBetween
<1> HIDE DEF EdgesBetween
<1>2. Seq(EdgesBetween(N)) \subseteq Seq(EdgesBetween(M))
    BY <1>1
<1>3. Visits(N) \subseteq Visits(M)
    BY <1>2 DEF Visits
<1>4. s \in Seq(Visits(M))
    BY <1>3
<1>5. ASSUME NEW k \in M, NEW es \in Seq(EdgesBetween(M)) PROVE Insert(s, Visit(k, es)) \in Seq(Visits(M))
  <2>1. Visit(k, es) \in Visits(M)
      BY DEF Visit, Visits
  <2> QED
      BY <1>4, <2>1, InsertFacts
<1> QED
    BY <1>4, <1>5

\* A graph and the agenda for it that grew from a graph with the nodes N.
Grown(a, N) ==
    /\ a.g \in BuildGraphs
    /\ N \subseteq Indices(a.g)
    /\ a.agenda \in Seq(Visits(Indices(a.g)))

\* One node is added for a component c and its visit is put on the agenda.
LEMMA PutOnAgenda ==
    ASSUME IsApp(app), NEW a, NEW N, Grown(a, N), NEW c \in Comps
    PROVE  LET h == AddNode(a.g, c)
               k == NodeFor(h, c)
           IN /\ h \in BuildGraphs
              /\ N \subseteq Indices(h) /\ Indices(a.g) \subseteq Indices(h) /\ k \in Indices(h)
              /\ \A es \in Seq(EdgesBetween(Indices(h))) :
                    Insert(a.agenda, Visit(k, es)) \in Seq(Visits(Indices(h)))
<1> DEFINE h == AddNode(a.g, c)
           k == NodeFor(h, c)
<1>1. h \in BuildGraphs /\ Indices(a.g) \subseteq Indices(h) /\ k \in Indices(h)
    BY AddNodeFacts DEF Grown
<1> HIDE DEF h, k
<1>2. \A es \in Seq(EdgesBetween(Indices(h))) :
          Insert(a.agenda, Visit(k, es)) \in Seq(Visits(Indices(h)))
    BY <1>1, VisitFacts DEF Grown
<1>3. N \subseteq Indices(h)
    BY <1>1 DEF Grown
<1> QED
    BY <1>1, <1>2, <1>3 DEF h, k

-----------------------------------------------------------------------------
(* The folds of build_call_graph, each the INSTANCE of its step. *)

LinkAll(p, g, e) == Link(g, e.from, e.to, e.mode)
Linked == INSTANCE FoldFacts WITH Step <- LinkAll

LEMMA LinkedFacts ==
    ASSUME NEW g \in BuildGraphs, NEW es \in Seq(EdgesBetween(Indices(g)))
    PROVE  /\ Linked!Folded(0, g, es) \in BuildGraphs
           /\ Linked!Folded(0, g, es).nodes = g.nodes
<1> DEFINE A == {h \in BuildGraphs : h.nodes = g.nodes}
<1>1. g \in A
    OBVIOUS
<1>2. ASSUME NEW h \in A, NEW e \in EdgesBetween(Indices(g)) PROVE LinkAll(0, h, e) \in A
  <2>1. Indices(h) = Indices(g) /\ h \in Graphs
      BY BuildGraphFacts DEF Indices
  <2>2. e.from \in Indices(h) /\ e.to \in Indices(h) /\ e.mode \in Borrows \cup {"move", "before"}
      BY <2>1 DEF EdgesBetween
  <2>3. LinkAll(0, h, e) \in Graphs /\ LinkAll(0, h, e).nodes = g.nodes
      BY <2>1, <2>2, LinkFacts DEF LinkAll
  <2> QED
      BY <2>3 DEF BuildGraphs
<1> HIDE DEF A, EdgesBetween
<1>3. Linked!Folded(0, g, es) \in A
    BY <1>1, <1>2, Linked!FoldStays
<1> QED
    BY <1>3 DEF A

\* VisitNode asks for one input of node n.
Ask(n, acc, input) ==
    LET g == AddNode(acc.g, input.on)
        k == NodeFor(g, input.on)
    IN [g |-> g, agenda |-> Insert(acc.agenda, Visit(k, <<Edge(k, n, input.mode)>>))]
Asked == INSTANCE FoldFacts WITH Step <- Ask

LEMMA AskedFacts ==
    ASSUME IsApp(app), NEW g \in BuildGraphs, NEW n \in Indices(g), NEW s \in Seq(Visits(Indices(g))),
           NEW ins \in Seq([on : Comps, mode : {"move", "shared", "exclusive"}])
    PROVE  Grown(Asked!Folded(n, [g |-> g, agenda |-> s], ins), Indices(g))
<1> DEFINE A == {a \in [g : BuildGraphs, agenda : Seq(Visits(Nat))] : Grown(a, Indices(g))}
           T == [on : Comps, mode : {"move", "shared", "exclusive"}]
<1>1. \A h \in BuildGraphs : Seq(Visits(Indices(h))) \subseteq Seq(Visits(Nat))
    BY VisitFacts, BuildGraphFacts, GraphFacts
<1>2. [g |-> g, agenda |-> s] \in A
    BY <1>1 DEF Grown
<1>3. ASSUME NEW a \in A, NEW x \in T PROVE Ask(n, a, x) \in A
  <2> DEFINE h == AddNode(a.g, x.on)
             k == NodeFor(h, x.on)
             es == <<Edge(k, n, x.mode)>>
  <2>1. /\ h \in BuildGraphs /\ Indices(g) \subseteq Indices(h) /\ k \in Indices(h)
        /\ \A fs \in Seq(EdgesBetween(Indices(h))) :
              Insert(a.agenda, Visit(k, fs)) \in Seq(Visits(Indices(h)))
      BY PutOnAgenda
  <2>2. es \in Seq(EdgesBetween(Indices(h)))
    <3>1. x.mode \in Borrows \cup {"move", "before"} /\ n \in Indices(h)
        BY <2>1 DEF Borrows
    <3> HIDE DEF h, k
    <3> QED
        BY <2>1, <3>1 DEF Edge, EdgesBetween
  <2>3. Ask(n, a, x) = [g |-> h, agenda |-> Insert(a.agenda, Visit(k, es))]
      BY DEF Ask
  <2> HIDE DEF h, k, es
  <2> QED
      BY <1>1, <2>1, <2>2, <2>3 DEF Grown
<1> HIDE DEF A, T
<1>4. Asked!Folded(n, [g |-> g, agenda |-> s], ins) \in A
    BY <1>2, <1>3, Asked!FoldStays DEF T
<1> QED
    BY <1>4 DEF A

\* What Expand accumulates.
Expansions(N) ==
    { a \in [g : BuildGraphs, agenda : Seq(Visits(Nat)), attached : SUBSET Nat, last : Nat] :
        /\ Grown(a, N)
        /\ a.attached \subseteq DOMAIN a.g.nodes }

\* One node is added with its visit, and nothing else changes.
LEMMA Expands ==
    ASSUME IsApp(app), NEW N, NEW a \in Expansions(N), NEW h \in BuildGraphs,
           Indices(a.g) \subseteq Indices(h), NEW s \in Seq(Visits(Indices(h))), NEW l \in Nat
    PROVE  [a EXCEPT !.g = h, !.agenda = s, !.last = l] \in Expansions(N)
<1>1. s \in Seq(Visits(Nat))
    BY VisitFacts, BuildGraphFacts, GraphFacts
<1>2. a.attached \subseteq DOMAIN h.nodes /\ N \subseteq Indices(h)
    BY BuildGraphFacts DEF Expansions, Grown
<1> QED
    BY <1>1, <1>2 DEF Expansions, Grown

\* One transformer of node n.
AddTransformer(n, a, t) ==
    LET g == AddNode(a.g, t.comp)
        k == NodeFor(g, t.comp)
    IN [a EXCEPT !.g = g, !.agenda = Insert(@, Visit(k, <<Edge(n, k, t.mode)>>))]
Transformers == INSTANCE FoldFacts WITH Step <- AddTransformer

LEMMA TransformersFacts ==
    ASSUME IsApp(app), NEW N, NEW n \in N, NEW a \in Expansions(N),
           NEW ts \in Seq([comp : Comps, mode : {"move", "shared"}])
    PROVE  Transformers!Folded(n, a, ts) \in Expansions(N)
<1> DEFINE T == [comp : Comps, mode : {"move", "shared"}]
<1>1. ASSUME NEW b \in Expansions(N), NEW t \in T PROVE AddTransformer(n, b, t) \in Expansions(N)
  <2> DEFINE h == AddNode(b.g, t.comp)
             k == NodeFor(h, t.comp)
             es == <<Edge(n, k, t.mode)>>
  <2>0. Grown(b, N) /\ t.comp \in Comps
      BY DEF Expansions
  <2>1. /\ h \in BuildGraphs /\ N \subseteq Indices(h) /\ Indices(b.g) \subseteq Indices(h) /\ k \in Indices(h)
        /\ \A fs \in Seq(EdgesBetween(Indices(h))) :
              Insert(b.agenda, Visit(k, fs)) \in Seq(Visits(Indices(h)))
      BY <2>0, PutOnAgenda
  <2>2. es \in Seq(EdgesBetween(Indices(h)))
    <3>1. t.mode \in Borrows \cup {"move", "before"} /\ n \in Indices(h)
        BY <2>1 DEF Borrows
    <3> HIDE DEF h, k
    <3> QED
        BY <2>1, <3>1 DEF Edge, EdgesBetween
  <2>3. AddTransformer(n, b, t) = [b EXCEPT !.g = h, !.agenda = Insert(b.agenda, Visit(k, es)), !.last = b.last]
      BY DEF AddTransformer, Expansions
  <2> HIDE DEF h, k, es
  <2>4. b.last \in Nat
      BY DEF Expansions
  <2>5. Insert(b.agenda, Visit(k, es)) \in Seq(Visits(Indices(h)))
      BY <2>1, <2>2
  <2>6. [b EXCEPT !.g = h, !.agenda = Insert(b.agenda, Visit(k, es)), !.last = b.last] \in Expansions(N)
      BY <2>1, <2>4, <2>5, Expands
  <2> QED
      BY <2>3, <2>6
<1> HIDE DEF T
<1> QED
    BY <1>1, Transformers!FoldStays DEF T

TransformNode(p, a, n) == Transform(a, n)
Transformed == INSTANCE FoldFacts WITH Step <- TransformNode

LEMMA TransformedFacts ==
    ASSUME IsApp(app), NEW N, NEW a \in Expansions(N), NEW s \in Seq(N)
    PROVE  Transformed!Folded(0, a, s) \in Expansions(N)
<1>1. ASSUME NEW b \in Expansions(N), NEW n \in N PROVE TransformNode(0, b, n) \in Expansions(N)
  <2> DEFINE ts == IF n \in transformed \/ b.g.nodes[n].role # "compute" THEN << >>
                   ELSE app.transformers[b.g.nodes[n].comp]
  <2>1. ts \in Seq([comp : Comps, mode : {"move", "shared"}])
    <3>1. b.g \in BuildGraphs /\ n \in DOMAIN b.g.nodes
        BY BuildGraphFacts DEF Expansions, Grown
    <3>2. b.g.nodes[n].comp \in Comps
        BY <3>1 DEF BuildGraphs
    <3> DEFINE T == [comp : Comps, mode : {"move", "shared"}]
    <3>3. app.transformers \in [Comps -> Seq(T)]
        BY DEF IsApp, Comps
    <3>4. ts = << >> \/ ts = app.transformers[b.g.nodes[n].comp]
        OBVIOUS
    <3> HIDE DEF T, ts
    <3>5. app.transformers[b.g.nodes[n].comp] \in Seq(T) /\ << >> \in Seq(T)
        BY <3>2, <3>3
    <3>6. ts \in Seq(T)
        BY <3>5, <3>4
    <3> QED
        BY <3>6 DEF T
  <2>2. Transform(b, n) = Transformers!Folded(n, b, ts)
      BY DEF Transform, Accumulate, Transformers!Folded, AddTransformer
  <2> HIDE DEF ts
  <2> QED
      BY <2>1, <2>2, TransformersFacts DEF TransformNode
<1> QED
    BY <1>1, Transformed!FoldStays

\* One observer, where e is the node of the error.
AttachOne(e, a, o) ==
    LET added == AddNode(a.g, o)
        k == NodeFor(added, o)
        after == IF a.last = 0 THEN added ELSE Link(added, a.last, k, "before")
    IN [a EXCEPT !.g = Link(after, e, k, "shared"), !.agenda = Insert(@, Visit(k, << >>)), !.last = k]
Chain == INSTANCE FoldFacts WITH Step <- AttachOne

\* Links join nodes that are there, as long as a graph is built.
LEMMA LinkBuilds ==
    ASSUME NEW g \in BuildGraphs, NEW a \in Indices(g), NEW b \in Indices(g), NEW m \in {"before", "shared"}
    PROVE  Link(g, a, b, m) \in BuildGraphs /\ Indices(Link(g, a, b, m)) = Indices(g)
<1>1. g \in Graphs /\ m \in Borrows \cup {"move", "before"}
    BY BuildGraphFacts DEF Borrows
<1>2. Link(g, a, b, m) \in Graphs /\ Link(g, a, b, m).nodes = g.nodes
    BY <1>1, LinkFacts
<1> QED
    BY <1>2 DEF BuildGraphs, Indices

\* A chain of observers ends in a node.
LEMMA ChainFacts ==
    ASSUME IsApp(app), NEW N, NEW e \in N, NEW a \in Expansions(N), a.last = 0,
           NEW os \in Seq(Comps), os # << >>
    PROVE  LET c == Chain!Folded(e, a, os) IN c \in Expansions(N) /\ c.last \in Indices(c.g)
<1> DEFINE A == {b \in Expansions(N) : b.last \in {0} \cup Indices(b.g)}
           B == {b \in Expansions(N) : b.last \in Indices(b.g)}
<1>1. a \in A /\ B \in SUBSET A
    OBVIOUS
<1>2. ASSUME NEW b \in A, NEW o \in Comps PROVE AttachOne(e, b, o) \in B
  <2> DEFINE h == AddNode(b.g, o)
             k == NodeFor(h, o)
             after == IF b.last = 0 THEN h ELSE Link(h, b.last, k, "before")
             g == Link(after, e, k, "shared")
             s == Insert(b.agenda, Visit(k, << >>))
  <2>1. /\ h \in BuildGraphs /\ N \subseteq Indices(h) /\ Indices(b.g) \subseteq Indices(h) /\ k \in Indices(h)
        /\ \A fs \in Seq(EdgesBetween(Indices(h))) :
              Insert(b.agenda, Visit(k, fs)) \in Seq(Visits(Indices(h)))
    <3>1. Grown(b, N)
        BY DEF Expansions
    <3> QED
        BY <3>1, PutOnAgenda
  <2>2. AttachOne(e, b, o) = [b EXCEPT !.g = g, !.agenda = s, !.last = k]
      BY DEF AttachOne
  <2>3. s \in Seq(Visits(Indices(h)))
    <3>1. << >> \in Seq(EdgesBetween(Indices(h)))
        OBVIOUS
    <3> HIDE DEF h, k
    <3> QED
        BY <2>1, <3>1
  <2> HIDE DEF h, k
  <2>4. after \in BuildGraphs /\ Indices(after) = Indices(h)
    <3>1. b.last = 0 \/ b.last \in Indices(h)
        BY <2>1
    <3> QED
        BY <2>1, <3>1, LinkBuilds
  <2> HIDE DEF after
  <2>5. g \in BuildGraphs /\ Indices(g) = Indices(h)
      BY <2>1, <2>4, LinkBuilds
  <2> HIDE DEF g, s
  <2>6. k \in Nat
      BY <2>1, BuildGraphFacts, GraphFacts
  <2>7. [b EXCEPT !.g = g, !.agenda = s, !.last = k] \in Expansions(N)
      BY <2>1, <2>3, <2>5, <2>6, Expands
  <2>8. LET c == [b EXCEPT !.g = g, !.agenda = s, !.last = k] IN c.g = g /\ c.last = k
      BY DEF Expansions
  <2> QED
      BY <2>1, <2>2, <2>5, <2>7, <2>8
<1> HIDE DEF A, B
<1>3. Chain!Folded(e, a, os) \in B
    BY <1>1, <1>2, Chain!FoldEnds
<1> QED
    BY <1>3 DEF B

\* The nodes around a handler are nodes of its graph.
LEMMA NewErrorNodesFacts ==
    ASSUME NEW g \in Graphs, NEW h
    PROVE  NewErrorNodes(g, h) \subseteq Indices(g)
<1>1. \A n : Into(g, n) \subseteq EdgesOf(g) /\ OutOf(g, n) \subseteq EdgesOf(g)
    BY DEF Into, OutOf
<1>2. \A e \in EdgesOf(g) : e.from \in Indices(g) /\ e.to \in Indices(g)
    BY GraphFacts DEF EdgesBetween
<1> QED
    BY <1>1, <1>2 DEF NewErrorNodes

ObserveNode(p, a, n) == Observe(a, n)
Observed == INSTANCE FoldFacts WITH Step <- ObserveNode

LEMMA AttachedFacts ==
    ASSUME IsApp(app), NEW N, NEW a \in Expansions(N), NEW n \in N,
           app.observers # << >>, ~Waits(a.g, n)
    PROVE  Attached(a, n) \in Expansions(N)
<1> DEFINE e == CHOOSE p \in NewErrorNodes(a.g, n) : TRUE
           b == [a EXCEPT !.last = 0]
           c == Chain!Folded(e, b, app.observers)
           t == Outgoing(a.g, n)[1].to
<1>1. a.g \in BuildGraphs /\ a.g \in Graphs /\ N \subseteq Indices(a.g) /\ Grown(a, N)
    BY BuildGraphFacts DEF Expansions, Grown
<1>2. e \in Indices(a.g)
    BY <1>1, NewErrorNodesFacts DEF Waits
<1>3. t \in Indices(a.g)
  <2>1. Outgoing(a.g, n) # << >> /\ Outgoing(a.g, n) \in Seq(OutOf(a.g, n))
      BY <1>1, EdgeLists DEF Waits
  <2>2. Outgoing(a.g, n)[1] \in EdgesOf(a.g)
      BY <2>1 DEF OutOf
  <2> QED
      BY <1>1, <2>2, GraphFacts DEF EdgesBetween
<1>4. b \in Expansions(Indices(a.g)) /\ b.last = 0
  <2>1. b = [g |-> a.g, agenda |-> a.agenda, attached |-> a.attached, last |-> 0]
      BY DEF Expansions
  <2> QED
      BY <1>1, <2>1 DEF Expansions, Grown
<1>5. Chained(a, n) = c
    BY DEF Chained, Accumulate, Chain!Folded, AttachOne
<1>6. app.observers \in Seq(Comps)
    BY DEF IsApp, Comps
<1> HIDE DEF b, e, t
<1>7. c \in Expansions(Indices(a.g)) /\ c.last \in Indices(c.g)
    BY <1>2, <1>4, <1>6, ChainFacts
<1> HIDE DEF c
<1>8. /\ c.g \in BuildGraphs /\ Indices(a.g) \subseteq Indices(c.g)
      /\ c.agenda \in Seq(Visits(Indices(c.g))) /\ c.attached \subseteq DOMAIN c.g.nodes
      /\ c \in [g : BuildGraphs, agenda : Seq(Visits(Nat)), attached : SUBSET Nat, last : Nat]
    BY <1>7 DEF Expansions, Grown
<1> DEFINE g == Link(c.g, c.last, t, "before")
<1>9. g \in BuildGraphs /\ Indices(g) = Indices(c.g)
    BY <1>3, <1>7, <1>8, LinkBuilds
<1>10. Attached(a, n) = [c EXCEPT !.g = g, !.attached = c.attached \cup {n}]
  <2>1. Attached(a, n) = [c EXCEPT !.g = Link(@, c.last, t, "before"), !.attached = @ \cup {n}]
      BY <1>5 DEF Attached, t
  <2> QED
      BY <2>1
<1> HIDE DEF g
<1>11. n \in Nat /\ n \in DOMAIN g.nodes /\ DOMAIN g.nodes = DOMAIN c.g.nodes
    BY <1>1, <1>8, <1>9, BuildGraphFacts
<1>12. N \subseteq Indices(g) /\ c.agenda \in Seq(Visits(Indices(g)))
    BY <1>1, <1>8, <1>9
<1> DEFINE d == [c EXCEPT !.g = g, !.attached = c.attached \cup {n}]
<1>13. /\ d \in [g : BuildGraphs, agenda : Seq(Visits(Nat)), attached : SUBSET Nat, last : Nat]
       /\ d.g = g /\ d.agenda = c.agenda /\ d.attached = c.attached \cup {n}
    BY <1>8, <1>9, <1>11
<1> HIDE DEF d
<1>14. d.attached \subseteq DOMAIN d.g.nodes
    BY <1>8, <1>11, <1>13
<1>15. Grown(d, N)
    BY <1>9, <1>12, <1>13 DEF Grown
<1>16. d \in Expansions(N)
    BY <1>13, <1>14, <1>15 DEF Expansions
<1> QED
    BY <1>10, <1>16 DEF d

LEMMA ObservedFacts ==
    ASSUME IsApp(app), app.observers # << >>, NEW N, NEW a \in Expansions(N), NEW s \in Seq(N)
    PROVE  Observed!Folded(0, a, s) \in Expansions(N)
<1>1. ASSUME NEW b \in Expansions(N), NEW n \in N PROVE ObserveNode(0, b, n) \in Expansions(N)
  <2>1. ~Waits(b.g, n) => Attached(b, n) \in Expansions(N)
      BY AttachedFacts
  <2>2. [b EXCEPT !.attached = @ \cup {n}] \in Expansions(N)
    <3>1. n \in DOMAIN b.g.nodes /\ n \in Nat
        BY BuildGraphFacts DEF Expansions, Grown
    <3> QED
        BY <3>1 DEF Expansions, Grown
  <2> QED
      BY <2>1, <2>2 DEF ObserveNode, Observe
<1> QED
    BY <1>1, Observed!FoldStays

-----------------------------------------------------------------------------
(* The rewriting of fallible nodes and of inputs. *)

BranchNode(p, g, n) == Branch(g, n)
Branched == INSTANCE FoldFacts WITH Step <- BranchNode

LEMMA BranchFacts ==
    ASSUME NEW g \in Graphs, NEW n \in Indices(g)
    PROVE  /\ Branch(g, n) \in Graphs
           /\ Indices(g) \subseteq Indices(Branch(g, n))
           /\ DOMAIN g.nodes \subseteq DOMAIN Branch(g, n).nodes
<1> DEFINE kids == Tos(Outgoing(g, n))
           k == Len(g.nodes) + 1
           N == Indices(g) \cup {k}
           new == Append([i \in DOMAIN kids |-> Edge(k, kids[i], "move")], Edge(n, k, "move"))
           x == Node(0, "branch")
<1>1. CASE ~IsFallible(g, n)
    BY <1>1 DEF Branch
<1>2. CASE IsFallible(g, n)
  <2>1. Branch(g, n) = [nodes |-> Append(g.nodes, x), edges |-> Replaced(g, OutOf(g, n), new)]
      BY <1>2 DEF Branch
  <2>2. kids \in Seq(Indices(g))
      BY EdgeLists
  <2> HIDE DEF kids
  <2>3. new \in Seq(EdgesBetween(N))
    <3>1. \A i \in DOMAIN kids : Edge(k, kids[i], "move") \in EdgesBetween(N)
        BY <2>2 DEF Edge, EdgesBetween
    <3>2. Edge(n, k, "move") \in EdgesBetween(N)
        BY DEF Edge, EdgesBetween
    <3> HIDE DEF EdgesBetween, k, N
    <3>3. [i \in DOMAIN kids |-> Edge(k, kids[i], "move")] \in Seq(EdgesBetween(N))
        BY <2>2, <3>1
    <3> QED
        BY <3>2, <3>3
  <2> HIDE DEF new
  <2>4. Replaced(g, OutOf(g, n), new) \in Seq(EdgesBetween(N))
    <3> HIDE DEF N
    <3>1. Indices(g) \subseteq N
        BY DEF N
    <3> QED
        BY <2>3, <3>1, ReplacedFacts
  <2>5. x \in NodeSet /\ x.role = "branch"
      BY DEF Node, NodeSet, Roles
  <2> HIDE DEF x
  <2>6. Branch(g, n) \in Graphs /\ Indices(Branch(g, n)) = N
      BY <2>1, <2>4, <2>5, NewNode
  <2>7. DOMAIN g.nodes \subseteq DOMAIN Branch(g, n).nodes
      BY <2>1, GraphFacts DEF Graphs
  <2> QED
      BY <2>6, <2>7
<1> QED
    BY <1>1, <1>2

LEMMA BranchedFacts ==
    ASSUME NEW g \in Graphs, NEW s \in Seq(Indices(g))
    PROVE  /\ Branched!Folded(0, g, s) \in Graphs
           /\ DOMAIN g.nodes \subseteq DOMAIN Branched!Folded(0, g, s).nodes
<1> DEFINE A == {h \in Graphs : Indices(g) \subseteq Indices(h) /\ DOMAIN g.nodes \subseteq DOMAIN h.nodes}
<1>1. g \in A
    OBVIOUS
<1>2. ASSUME NEW h \in A, NEW n \in Indices(g) PROVE BranchNode(0, h, n) \in A
    BY BranchFacts DEF BranchNode
<1> HIDE DEF A
<1>3. Branched!Folded(0, g, s) \in A
    BY <1>1, <1>2, Branched!FoldStays
<1> QED
    BY <1>3 DEF A

TakeOne(p, g, n) == TakeReference(g, n)
Taken == INSTANCE FoldFacts WITH Step <- TakeOne

\* The edges of an input that is removed are out of it.
LEMMA TakeReferenceFacts ==
    ASSUME NEW g \in Graphs, NEW n \in DOMAIN g.nodes, \A e \in EdgesOf(g) : e.to # n
    PROVE  /\ TakeReference(g, n) \in Graphs
           /\ DOMAIN g.nodes \subseteq DOMAIN TakeReference(g, n).nodes
           /\ \A e \in EdgesOf(TakeReference(g, n)) : \E f \in EdgesOf(g) : f.to = e.to
           /\ g.nodes[n].role = "input" /\ (\A e \in OutOf(g, n) : e.mode # "move") =>
                 Indices(TakeReference(g, n)) = (Indices(g) \ {n}) \cup {Len(g.nodes) + 1}
<1> DEFINE h == TakeReference(g, n)
<1>1. CASE g.nodes[n].role # "input" \/ \E e \in OutOf(g, n) : e.mode = "move"
  <2>1. h = g
      BY <1>1 DEF TakeReference
  <2> QED
      BY <1>1, <2>1
<1>2. CASE ~(g.nodes[n].role # "input" \/ \E e \in OutOf(g, n) : e.mode = "move")
  <2> DEFINE out == Outgoing(g, n)
             role == IF \E e \in OutOf(g, n) : e.mode = "exclusive" THEN "refmut" ELSE "ref"
             k == Len(g.nodes) + 1
             x == Node(g.nodes[n].comp, role)
             old == [g.nodes EXCEPT ![n].role = "removed"]
             new == [i \in DOMAIN out |-> Edge(k, out[i].to, "move")]
             N == (Indices(g) \ {n}) \cup {k}
             Target(e) == \E f \in EdgesOf(g) : f.to = e.to
             U == {e \in EdgesBetween(N) : Target(e)}
  <2>1. /\ h.nodes = Append(old, x)
        /\ h.edges = Those(g.edges, EdgesOf(g) \ OutOf(g, n)) \o new
        /\ h = [nodes |-> h.nodes, edges |-> h.edges]
      BY <1>2 DEF TakeReference, Replaced
  <2>2. x \in NodeSet /\ x.comp = g.nodes[n].comp /\ x.role \in {"ref", "refmut"}
    <3>1. role \in {"ref", "refmut"} /\ g.nodes[n].comp \in Comps \cup {0}
        BY GraphFacts DEF NodeSet
    <3> HIDE DEF role
    <3> QED
        BY <3>1 DEF Node, NodeSet, Roles
  <2>3. /\ old \in Seq(NodeSet) /\ DOMAIN old = DOMAIN g.nodes /\ Len(old) = Len(g.nodes)
        /\ old[n].role = "removed" /\ \A m \in DOMAIN g.nodes : m # n => old[m] = g.nodes[m]
    <3>1. g.nodes \in Seq(NodeSet) /\ g.nodes[n] \in NodeSet
        BY DEF Graphs
    <3>2. [g.nodes[n] EXCEPT !.role = "removed"] \in NodeSet
        BY <3>1 DEF NodeSet, Roles
    <3>3. [g.nodes[n] EXCEPT !.role = "removed"].role = "removed"
        BY <3>1 DEF NodeSet
    <3>4. old = [g.nodes EXCEPT ![n] = [g.nodes[n] EXCEPT !.role = "removed"]]
        OBVIOUS
    <3> HIDE DEF old
    <3> QED
        BY <3>1, <3>2, <3>3, <3>4
  <2> HIDE DEF x, old, h
  <2>4. /\ k \in Nat /\ k \notin DOMAIN g.nodes /\ Len(h.nodes) = k
        /\ h.nodes \in Seq(NodeSet) /\ DOMAIN h.nodes = DOMAIN g.nodes \cup {k}
        /\ h.nodes[k] = x /\ \A m \in DOMAIN g.nodes : h.nodes[m] = old[m]
      BY <2>1, <2>2, <2>3, GraphFacts
  <2> HIDE DEF k
  <2>5. Indices(h) = N
    <3>1. \A m \in DOMAIN h.nodes : h.nodes[m].role # "removed" <=> m \in N
        BY <2>2, <2>3, <2>4 DEF Indices
    <3>2. N \subseteq DOMAIN h.nodes
        BY <2>4 DEF Indices
    <3> QED
        BY <3>1, <3>2 DEF Indices
  <2>6. Those(g.edges, EdgesOf(g) \ OutOf(g, n)) \in Seq(U)
    <3>1. \A e \in EdgesBetween(Indices(g)) \cap (EdgesOf(g) \ OutOf(g, n)) : e \in U
        BY DEF EdgesBetween, OutOf
    <3> DEFINE V == EdgesBetween(Indices(g)) \cap (EdgesOf(g) \ OutOf(g, n))
    <3>2. Those(g.edges, EdgesOf(g) \ OutOf(g, n)) \in Seq(V)
        BY GraphFacts, ThoseFacts
    <3>3. V \subseteq U
        BY <3>1
    <3> HIDE DEF U, V
    <3> QED
        BY <3>2, <3>3
  <2>7. new \in Seq(U)
    <3>1. out \in Seq(OutOf(g, n))
        BY EdgeLists
    <3> HIDE DEF out
    <3>2. ASSUME NEW i \in DOMAIN out PROVE Edge(k, out[i].to, "move") \in U
      <4>1. out[i] \in EdgesOf(g)
          BY <3>1 DEF OutOf
      <4>2. out[i].to \in Indices(g) /\ out[i].to # n
          BY <4>1, GraphFacts DEF EdgesBetween
      <4>3. Edge(k, out[i].to, "move") \in EdgesBetween(N) /\ Edge(k, out[i].to, "move").to = out[i].to
          BY <4>2 DEF Edge, EdgesBetween
      <4> QED
          BY <4>1, <4>3
    <3> HIDE DEF U
    <3> QED
        BY <3>1, <3>2
  <2> HIDE DEF new
  <2>8. h.edges \in Seq(U)
    <3> HIDE DEF U
    <3> QED
        BY <2>1, <2>6, <2>7
  <2>9. \A i \in DOMAIN h.edges : h.edges[i] \in U
    <3> HIDE DEF U
    <3> QED
        BY <2>8
  <2>10. h.edges \in Seq(EdgesBetween(Nat))
    <3>1. U \subseteq EdgesBetween(Nat)
        BY <2>4, GraphFacts DEF EdgesBetween
    <3> HIDE DEF U
    <3> QED
        BY <2>8, <3>1
  <2>11. \A i \in DOMAIN h.edges : h.edges[i].from \in Indices(h) /\ h.edges[i].to \in Indices(h)
      BY <2>5, <2>9 DEF EdgesBetween
  <2>12. \A m \in DOMAIN h.nodes :
            h.nodes[m].role \in {"compute", "input"} => m \in DOMAIN g.nodes /\ h.nodes[m] = g.nodes[m]
      BY <2>2, <2>3, <2>4
  <2>13. Once(h)
      BY <2>12 DEF Once, Graphs
  <2>14. h \in Graphs
    <3>1. h \in [nodes : Seq(NodeSet), edges : Seq(EdgesBetween(Nat))]
        BY <2>1, <2>4, <2>10
    <3>2. \A m \in DOMAIN h.nodes : h.nodes[m].role \in {"compute", "input"} => h.nodes[m].comp \in Comps
        BY <2>12 DEF Graphs
    <3> QED
        BY <2>11, <2>13, <3>1, <3>2 DEF Graphs
  <2>15. \A e \in EdgesOf(h) : \E f \in EdgesOf(g) : f.to = e.to
      BY <2>9 DEF EdgesOf, ToSet
  <2> QED
      BY <2>4, <2>5, <2>14, <2>15 DEF h, k
<1> QED
    BY <1>1, <1>2

LEMMA TakenFacts ==
    ASSUME NEW g \in Graphs, NEW s \in Seq(Sources(g))
    PROVE  /\ Taken!Folded(0, g, s) \in Graphs
           /\ DOMAIN g.nodes \subseteq DOMAIN Taken!Folded(0, g, s).nodes
<1> DEFINE A == {h \in Graphs : /\ DOMAIN g.nodes \subseteq DOMAIN h.nodes
                                /\ \A e \in EdgesOf(h) : e.to \notin Sources(g)}
<1>1. g \in A
    BY DEF Sources, EdgesOf, ToSet
<1>2. ASSUME NEW h \in A, NEW n \in Sources(g) PROVE TakeOne(0, h, n) \in A
  <2>1. n \in DOMAIN h.nodes /\ \A e \in EdgesOf(h) : e.to # n
      BY DEF Sources, Indices
  <2>2. /\ TakeOne(0, h, n) \in Graphs
        /\ DOMAIN h.nodes \subseteq DOMAIN TakeOne(0, h, n).nodes
        /\ \A e \in EdgesOf(TakeOne(0, h, n)) : \E f \in EdgesOf(h) : f.to = e.to
      BY <2>1, TakeReferenceFacts DEF TakeOne
  <2> QED
      BY <2>2
<1> HIDE DEF A
<1>3. Taken!Folded(0, g, s) \in A
    BY <1>1, <1>2, Taken!FoldStays
<1> QED
    BY <1>3 DEF A

-----------------------------------------------------------------------------
(* The folds of the borrow checker. *)

\* What may be added to a graph: its nodes stay.
Larger(g) == {h \in Graphs : Indices(g) \subseteq Indices(h) /\ DOMAIN g.nodes \subseteq DOMAIN h.nodes}
Reports == SUBSET (Nat \X Nat)

LEMMA LargerFacts ==
    ASSUME NEW g \in Graphs, NEW h \in Larger(g)
    PROVE  /\ g \in Larger(g)
           /\ Larger(h) \subseteq Larger(g)
           /\ \A n \in Indices(h), c \in Indices(h) : WithClone(h, n, c) \in Larger(g)
BY WithCloneFacts DEF Larger

CloneFor(n, h, c) == WithClone(h, n, c)
Cloned == INSTANCE FoldFacts WITH Step <- CloneFor

LEMMA ClonedFacts ==
    ASSUME NEW g \in Graphs, NEW n \in Indices(g), NEW s \in Seq(Indices(g))
    PROVE  Cloned!Folded(n, g, s) \in Larger(g)
<1>1. ASSUME NEW h \in Larger(g), NEW c \in Indices(g) PROVE CloneFor(n, h, c) \in Larger(g)
  <2>1. n \in Indices(h) /\ c \in Indices(h)
      BY DEF Larger
  <2> QED
      BY <2>1, LargerFacts DEF CloneFor
<1>2. g \in Larger(g)
    BY DEF Larger
<1> QED
    BY <1>1, <1>2, Cloned!FoldStays

MoreClones(gn, acc, sink) ==
    LET left == Rivals(gn[1], gn[2], sink) \ ToSet(acc)
    IN IF Cardinality(left) <= 1 THEN acc ELSE acc \o Front(Ascending(gn[1], left))
MoreFor == INSTANCE FoldFacts WITH Step <- MoreClones

LEMMA RivalsFacts ==
    ASSUME NEW g \in Graphs, NEW n, NEW s
    PROVE  Rivals(g, n, s) \subseteq Indices(g)
<1>1. \A e \in EdgesOf(g) : e.to \in Indices(g)
    BY GraphFacts DEF EdgesBetween
<1> QED
    BY <1>1 DEF Rivals, Consumers, OutOf

LEMMA GetClonesFacts ==
    ASSUME NEW g \in Graphs, NEW n
    PROVE  GetClones(g, n) \in Seq(Indices(g))
<1>1. GetClones(g, n) = MoreFor!Folded(<<g, n>>, << >>, Ascending(g, Sinks(g)))
    BY DEF GetClones, Accumulate, MoreFor!Folded, MoreClones
<1>2. ASSUME NEW a \in Seq(Indices(g)), NEW s \in Nat PROVE MoreClones(<<g, n>>, a, s) \in Seq(Indices(g))
  <2> DEFINE left == Rivals(g, n, s) \ ToSet(a)
  <2>1. left \subseteq Indices(g)
      BY RivalsFacts
  <2>2. MoreClones(<<g, n>>, a, s) = IF Cardinality(left) <= 1 THEN a ELSE a \o Front(Ascending(g, left))
      BY DEF MoreClones
  <2> HIDE DEF left
  <2>3. Ascending(g, left) \in Seq(Indices(g))
    <3>1. Ascending(g, left) \in Seq(left)
        BY <2>1, EdgeLists
    <3> QED
        BY <2>1, <3>1
  <2>4. Front(Ascending(g, left)) \in Seq(Indices(g))
      BY <2>3, SeqFacts
  <2>5. a \o Front(Ascending(g, left)) \in Seq(Indices(g))
      BY <2>4, ConcatFacts
  <2> QED
      BY <2>2, <2>5
<1>3. Ascending(g, Sinks(g)) \in Seq(Nat) /\ << >> \in Seq(Indices(g))
  <2>1. Ascending(g, Sinks(g)) \in Seq(Nat \cap Sinks(g))
      BY EdgeLists
  <2> QED
      BY <2>1
<1>4. MoreFor!Folded(<<g, n>>, << >>, Ascending(g, Sinks(g))) \in Seq(Indices(g))
    BY <1>2, <1>3, MoreFor!FoldStays
<1> QED
    BY <1>1, <1>4

CheckNode(p, a, n) == CheckConsumers(a, n)
Consumed == INSTANCE FoldFacts WITH Step <- CheckNode

LEMMA ConsumedFacts ==
    ASSUME NEW g \in Graphs, NEW r \in Reports, NEW s \in Seq(Indices(g))
    PROVE  LET c == Consumed!Folded(0, [g |-> g, errors |-> r], s)
           IN c.g \in Larger(g) /\ c.errors \in Reports
<1> DEFINE A == [g : Larger(g), errors : Reports]
<1>1. [g |-> g, errors |-> r] \in A
    BY DEF Larger
<1>2. ASSUME NEW a \in A, NEW n \in Indices(g) PROVE CheckNode(0, a, n) \in A
  <2> DEFINE rivals == UNION {Rivals(a.g, n, x) : x \in Sinks(a.g)}
             h == Cloned!Folded(n, a.g, GetClones(a.g, n))
  <2>1. a.g \in Graphs /\ n \in Indices(a.g) /\ a.g \in Larger(g)
      BY DEF Larger
  <2>2. h \in Larger(g)
    <3>1. h \in Larger(a.g)
        BY <2>1, GetClonesFacts, ClonedFacts
    <3> QED
        BY <2>1, <3>1, LargerFacts
  <2>3. h = Accumulate(LAMBDA x, c : WithClone(x, n, c), a.g, GetClones(a.g, n))
      BY DEF Accumulate, Cloned!Folded, CloneFor
  <2>4. {<<n, c>> : c \in rivals} \in Reports
    <3>1. rivals \subseteq Nat /\ n \in Nat
        BY <2>1, RivalsFacts, GraphFacts
    <3> HIDE DEF rivals
    <3>2. \A c \in rivals : <<n, c>> \in Nat \X Nat
        BY <3>1
    <3>3. {<<n, c>> : c \in rivals} \subseteq Nat \X Nat
        BY <3>2
    <3> QED
        BY <3>3 DEF Reports
  <2>5. CheckConsumers(a, n) \in {a, [a EXCEPT !.g = h], [a EXCEPT !.errors = @ \cup {<<n, c>> : c \in rivals}]}
      BY <2>3 DEF CheckConsumers
  <2> HIDE DEF h, rivals
  <2>6. [a EXCEPT !.g = h] \in A
      BY <2>2
  <2>7. [a EXCEPT !.errors = @ \cup {<<n, c>> : c \in rivals}] \in A
      BY <2>4 DEF Reports
  <2> QED
      BY <2>5, <2>6, <2>7 DEF CheckNode
<1> HIDE DEF A
<1>3. Consumed!Folded(0, [g |-> g, errors |-> r], s) \in A
    BY <1>1, <1>2, Consumed!FoldStays
<1> QED
    BY <1>3 DEF A

CheckEdge(p, a, e) == CheckMove(a, e)
Moved == INSTANCE FoldFacts WITH Step <- CheckEdge

LEMMA MovedFacts ==
    ASSUME NEW g \in Graphs, NEW r \in Reports, NEW s \in Seq(EdgesBetween(Indices(g)))
    PROVE  LET c == Moved!Folded(0, [g |-> g, errors |-> r], s)
           IN c.g \in Larger(g) /\ c.errors \in Reports
<1> DEFINE A == [g : Larger(g), errors : Reports]
<1>1. [g |-> g, errors |-> r] \in A
    BY DEF Larger
<1>2. ASSUME NEW a \in A, NEW e \in EdgesBetween(Indices(g)) PROVE CheckEdge(0, a, e) \in A
  <2>1. /\ a.g \in Larger(g) /\ e.from \in Indices(a.g) /\ e.to \in Indices(a.g)
        /\ e.from \in Nat /\ e.to \in Nat
      BY GraphFacts DEF Larger, EdgesBetween
  <2>2. WithClone(a.g, e.from, e.to) \in Larger(g)
      BY <2>1, LargerFacts
  <2>3. CheckMove(a, e) \in {a, [a EXCEPT !.g = WithClone(a.g, e.from, e.to)],
                             [a EXCEPT !.errors = a.errors \cup {<<e.from, e.to>>}]}
      BY DEF CheckMove
  <2>4. [a EXCEPT !.g = WithClone(a.g, e.from, e.to)] \in A
      BY <2>2
  <2>5. [a EXCEPT !.errors = a.errors \cup {<<e.from, e.to>>}] \in A
      BY <2>1 DEF Reports
  <2> QED
      BY <2>3, <2>4, <2>5 DEF CheckEdge
<1> HIDE DEF A, EdgesBetween
<1>3. Moved!Folded(0, [g |-> g, errors |-> r], s) \in A
    BY <1>1, <1>2, Moved!FoldStays
<1> QED
    BY <1>3 DEF A

InsertNext(p, s, x) == Insert(s, x)
Inserted == INSTANCE FoldFacts WITH Step <- InsertNext

LEMMA ExtendedFacts ==
    ASSUME NEW T, NEW s \in Seq(T), NEW t \in Seq(T)
    PROVE  Extended(s, t) \in Seq(T)
<1>1. \A a \in Seq(T), x \in T : InsertNext(0, a, x) \in Seq(T)
    BY InsertFacts DEF InsertNext
<1>2. Inserted!Folded(0, s, t) \in Seq(T)
    BY <1>1, Inserted!FoldStays
<1>3. Extended(s, t) = Inserted!Folded(0, s, t)
    BY DEF Extended, Accumulate, Inserted!Folded, InsertNext
<1> QED
    BY <1>2, <1>3

-----------------------------------------------------------------------------
(* The invariant: the graph is one of Graphs, and what the passes keep are *)
(* nodes of it.                                                            *)

Building == {"start", "build", "rewrite"}
Walking == {"captures", "moves", "complex"}

Named == processed \cup transformed \cup attached \cup seen \cup finished \cup discovered

GraphInv ==
    /\ IsApp(app)
    /\ graph \in Graphs
    /\ errors \in Reports
    /\ Named \subseteq DOMAIN nodes
    /\ \A s \in {todo, parked, stack, blocked} : s \in Seq(Indices(graph))
    /\ Placed \subseteq Indices(graph)
    /\ phase \notin Walking => todo = << >>
    /\ phase \in Building =>
          /\ graph \in BuildGraphs
          /\ agenda \in Seq(Visits(Indices(graph)))
          /\ parked = << >> /\ stack = << >> /\ blocked = << >> /\ Placed = {}

\* The state that is reached with the graph h.
LEMMA NextGraph ==
    ASSUME GraphInv, UNCHANGED app, NEW h \in Graphs, SetGraph(h)
    PROVE  /\ graph' = h /\ nodes' = h.nodes /\ Indices(graph)' = Indices(h)
           /\ Graphs' = Graphs /\ BuildGraphs' = BuildGraphs
           /\ IsApp(app)'
<1>1. h = [nodes |-> h.nodes, edges |-> h.edges]
    BY GraphFacts
<1>2. graph' = h /\ nodes' = h.nodes
    BY <1>1 DEF SetGraph, graph
<1>3. Graphs' = Graphs
    BY DEF Graphs, NodeSet, Comps, Once
<1>4. BuildGraphs' = BuildGraphs
    BY <1>3 DEF BuildGraphs, Comps, RoleOf
<1>5. IsApp(app)'
    BY DEF GraphInv, IsApp
<1> QED
    BY <1>2, <1>3, <1>4, <1>5 DEF Indices

LEMMA SameGraph ==
    ASSUME GraphInv, UNCHANGED graphVars
    PROVE  /\ SetGraph(graph) /\ graph \in Larger(graph) /\ UNCHANGED app
           /\ graph' = graph /\ Indices(graph)' = Indices(graph)
BY DEF GraphInv, SetGraph, graph, graphVars, Larger, Indices

\* A step of build_call_graph.
LEMMA BuildStep ==
    ASSUME GraphInv, phase \in Building, UNCHANGED <<app, checkVars, orderVars>>,
           NEW h \in Graphs, SetGraph(h), DOMAIN nodes \subseteq DOMAIN h.nodes,
           (processed \cup transformed \cup attached)' \subseteq DOMAIN h.nodes,
           phase' \notin Walking,
           phase' \in Building => h \in BuildGraphs /\ agenda' \in Seq(Visits(Indices(h)))
    PROVE  GraphInv'
<1>1. /\ graph' = h /\ nodes' = h.nodes /\ Indices(graph)' = Indices(h)
      /\ Graphs' = Graphs /\ BuildGraphs' = BuildGraphs /\ IsApp(app)'
    BY NextGraph
<1>2. /\ UNCHANGED <<todo, seen, finished, parked, errors, stack, discovered, blocked, Placed>>
      /\ todo = << >> /\ parked = << >> /\ stack = << >> /\ blocked = << >> /\ Placed = {}
    BY DEF GraphInv, checkVars, orderVars, Placed, Building, Walking
<1>3. Named' \subseteq DOMAIN h.nodes
    BY <1>2 DEF GraphInv, Named
<1>4. \A s \in {todo', parked', stack', blocked'} : s \in Seq(Indices(h))
  <2>1. todo' = << >> /\ parked' = << >> /\ stack' = << >> /\ blocked' = << >>
      BY <1>2
  <2>2. << >> \in Seq(Indices(h))
      OBVIOUS
  <2> QED
      BY <2>1, <2>2
<1>5. errors' \in Reports /\ Reports' = Reports
    BY <1>2 DEF GraphInv, Reports
<1> QED
    BY <1>1, <1>2, <1>3, <1>4, <1>5 DEF GraphInv, Visits, EdgesBetween, Borrows

\* A step of the borrow checker.
LEMMA CheckStep ==
    ASSUME GraphInv, UNCHANGED <<app, buildVars, orderVars>>,
           NEW h \in Larger(graph), SetGraph(h),
           phase' \notin Building, phase' \notin Walking => todo' = << >>,
           errors' \in Reports,
           (seen \cup finished)' \subseteq DOMAIN h.nodes,
           todo' \in Seq(Indices(h)), parked' \in Seq(Indices(h))
    PROVE  GraphInv'
<1>1. h \in Graphs /\ Indices(graph) \subseteq Indices(h) /\ DOMAIN graph.nodes \subseteq DOMAIN h.nodes
    BY DEF Larger
<1>2. /\ graph' = h /\ nodes' = h.nodes /\ Indices(graph)' = Indices(h)
      /\ Graphs' = Graphs /\ IsApp(app)'
    BY <1>1, NextGraph
<1>3. UNCHANGED <<processed, transformed, attached, stack, discovered, blocked, Placed>>
    BY DEF buildVars, orderVars, Placed
<1>4. Named' \subseteq DOMAIN h.nodes
  <2>1. DOMAIN graph.nodes = DOMAIN nodes
      BY DEF graph
  <2> QED
      BY <1>1, <1>3, <2>1 DEF GraphInv, Named
<1>5. stack' \in Seq(Indices(h)) /\ blocked' \in Seq(Indices(h)) /\ Placed' \subseteq Indices(h)
    BY <1>1, <1>3 DEF GraphInv
<1>6. Reports' = Reports
    BY DEF Reports
<1> QED
    BY <1>1, <1>2, <1>4, <1>5, <1>6 DEF GraphInv

\* A step of the ordering.
LEMMA OrderStep ==
    ASSUME GraphInv, UNCHANGED <<graphVars, buildVars, checkVars>>,
           phase \notin Walking, phase' \notin Walking, phase' \notin Building,
           discovered' \subseteq DOMAIN nodes,
           stack' \in Seq(Indices(graph)), blocked' \in Seq(Indices(graph)),
           Placed' \subseteq Indices(graph)
    PROVE  GraphInv'
<1>1. /\ graph' = graph /\ nodes' = nodes /\ Indices(graph)' = Indices(graph)
      /\ Graphs' = Graphs /\ IsApp(app)'
    BY SameGraph, NextGraph DEF GraphInv, graphVars
<1>2. UNCHANGED <<processed, transformed, attached, todo, seen, finished, parked, errors>>
    BY DEF buildVars, checkVars
<1>3. Named' \subseteq DOMAIN nodes
    BY <1>2 DEF GraphInv, Named
<1>4. Reports' = Reports
    BY DEF Reports
<1> QED
    BY <1>1, <1>2, <1>3, <1>4 DEF GraphInv

LEMMA GraphInvInit == OInit => GraphInv
<1> SUFFICES ASSUME OInit PROVE GraphInv
    OBVIOUS
<1> DEFINE x == Node(app.root, RoleOf(app.root))
<1>1. IsApp(app) /\ app.root \in Comps
    BY AppsAssumption DEF OInit, Init, IsApp, Comps
<1>2. /\ nodes = <<x>> /\ edges = << >> /\ graph = [nodes |-> <<x>>, edges |-> << >>]
      /\ x \in NodeSet /\ x.comp = app.root /\ x.role = RoleOf(app.root) /\ x.role # "removed"
    BY <1>1 DEF OInit, Init, graph, Node, NodeSet, RoleOf, Roles
<1> HIDE DEF x
<1>3. graph.nodes = <<x>> /\ graph.edges = << >> /\ DOMAIN graph.nodes = {1} /\ Indices(graph) = {1}
    BY <1>2 DEF Indices
<1>4. Once(graph)
    BY <1>3 DEF Once
<1>5. graph \in Graphs
  <2>1. graph \in [nodes : Seq(NodeSet), edges : Seq(EdgesBetween(Nat))]
      BY <1>2
  <2>2. \A n \in DOMAIN graph.nodes : graph.nodes[n].comp \in Comps
      BY <1>1, <1>2, <1>3
  <2> QED
      BY <1>3, <1>4, <2>1, <2>2 DEF Graphs
<1>6. graph \in BuildGraphs
    BY <1>1, <1>2, <1>3, <1>5 DEF BuildGraphs
<1>7. agenda \in Seq(Visits(Indices(graph)))
  <2>1. agenda = <<Visit(1, << >>)>>
      BY DEF OInit, Init
  <2>2. Visit(1, << >>) \in Visits(Indices(graph))
      BY <1>3 DEF Visit, Visits
  <2> QED
      BY <2>1, <2>2
<1>8. /\ todo = << >> /\ parked = << >> /\ stack = << >> /\ blocked = << >> /\ Placed = {}
      /\ Named = {} /\ errors = {}
    BY DEF OInit, Init, InitCheck, InitOrder, Placed, Named
<1> QED
    BY <1>1, <1>5, <1>6, <1>7, <1>8 DEF GraphInv, Reports

LEMMA CheckAcyclicKeeps ==
    ASSUME GraphInv, CheckAcyclic, UNCHANGED <<checkVars, orderVars>>
    PROVE  GraphInv'
<1>1. /\ phase \in Building /\ phase' \notin Walking /\ UNCHANGED graphVars
      /\ UNCHANGED <<app, agenda, processed, transformed, attached>>
    BY DEF CheckAcyclic, Building, Walking, buildVars, graphVars
<1>2. graph \in Graphs /\ graph \in BuildGraphs /\ agenda \in Seq(Visits(Indices(graph)))
    BY <1>1 DEF GraphInv
<1>3. SetGraph(graph) /\ DOMAIN graph.nodes = DOMAIN nodes
    BY <1>1, SameGraph DEF graph
<1>4. (processed \cup transformed \cup attached)' \subseteq DOMAIN graph.nodes
    BY <1>1, <1>3 DEF GraphInv, Named
<1> QED
    BY <1>1, <1>2, <1>3, <1>4, BuildStep

LEMMA VisitNodeKeeps ==
    ASSUME GraphInv, VisitNode, UNCHANGED <<checkVars, orderVars>>
    PROVE  GraphInv'
<1> DEFINE v == Last(agenda)
           ins == IF v.node \in processed \/ nodes[v.node].role # "compute" THEN << >>
                  ELSE app.inputs[nodes[v.node].comp]
           linked == Linked!Folded(0, graph, v.edges)
           r == Asked!Folded(v.node, [g |-> linked, agenda |-> Front(agenda)], ins)
<1>1. /\ phase \in Building /\ phase' = phase /\ phase' \notin Walking /\ agenda # << >>
      /\ UNCHANGED <<app, transformed, attached>> /\ processed' = processed \cup {v.node}
    BY DEF VisitNode, Building, Walking
<1>2. graph \in BuildGraphs /\ agenda \in Seq(Visits(Indices(graph))) /\ IsApp(app)
    BY <1>1 DEF GraphInv
<1>3. SetGraph(r.g) /\ agenda' = r.agenda
  <2>1. PICK l \in {Accumulate(LAMBDA g, e : Link(g, e.from, e.to, e.mode), graph, v.edges)} :
             \E t \in {Asked!Folded(v.node, [g |-> l, agenda |-> Front(agenda)], ins)} :
                SetGraph(t.g) /\ agenda' = t.agenda
      BY DEF VisitNode, Accumulate, Asked!Folded, Ask
  <2>2. l = linked
      BY <2>1 DEF Accumulate, Linked!Folded, LinkAll
  <2> HIDE DEF linked, v, ins
  <2> QED
      BY <2>1, <2>2
<1>4. v \in Visits(Indices(graph)) /\ Front(agenda) \in Seq(Visits(Indices(graph)))
    BY <1>1, <1>2, SeqFacts
<1>5. v.node \in Indices(graph) /\ v.edges \in Seq(EdgesBetween(Indices(graph)))
    BY <1>4 DEF Visits
<1>6. ins \in Seq([on : Comps, mode : {"move", "shared", "exclusive"}])
  <2> DEFINE T == [on : Comps, mode : {"move", "shared", "exclusive"}]
  <2>1. app.inputs \in [Comps -> Seq(T)]
      BY <1>2 DEF IsApp, Comps
  <2>2. nodes[v.node].comp \in Comps
      BY <1>2, <1>5, BuildGraphFacts DEF BuildGraphs, graph
  <2>3. ins = << >> \/ ins = app.inputs[nodes[v.node].comp]
      OBVIOUS
  <2> HIDE DEF T, ins, v
  <2>4. app.inputs[nodes[v.node].comp] \in Seq(T) /\ << >> \in Seq(T)
      BY <2>1, <2>2
  <2>5. ins \in Seq(T)
      BY <2>3, <2>4
  <2> QED
      BY <2>5 DEF T
<1> HIDE DEF v, ins
<1>7. linked \in BuildGraphs /\ linked.nodes = graph.nodes /\ Indices(linked) = Indices(graph)
    BY <1>2, <1>5, LinkedFacts DEF Indices
<1> HIDE DEF linked
<1>8. Grown(r, Indices(linked))
    BY <1>2, <1>4, <1>5, <1>6, <1>7, AskedFacts
<1> HIDE DEF r
<1>9. /\ r.g \in BuildGraphs /\ r.g \in Graphs /\ Indices(graph) \subseteq Indices(r.g)
      /\ Indices(graph) = DOMAIN nodes /\ Indices(r.g) = DOMAIN r.g.nodes
      /\ agenda' \in Seq(Visits(Indices(r.g)))
    BY <1>2, <1>3, <1>7, <1>8, BuildGraphFacts DEF Grown, graph
<1>10. (processed \cup transformed \cup attached)' \subseteq DOMAIN r.g.nodes
    BY <1>1, <1>5, <1>9 DEF GraphInv, Named
<1> QED
    BY <1>1, <1>3, <1>9, <1>10, BuildStep

LEMMA ExpandKeeps ==
    ASSUME GraphInv, Expand, UNCHANGED <<checkVars, orderVars>>
    PROVE  GraphInv'
<1> DEFINE a == [g |-> graph, agenda |-> << >>, attached |-> attached, last |-> 0]
           N == Indices(graph)
           t == Transformed!Folded(0, a, [i \in DOMAIN nodes |-> i])
           r == IF app.observers = << >> THEN t
                ELSE Observed!Folded(0, t, [i \in DOMAIN t.g.nodes |-> i])
<1>1. /\ phase \in Building /\ phase' \notin Walking
      /\ UNCHANGED <<app, processed>> /\ transformed' = DOMAIN nodes
    BY DEF Expand, Building, Walking
<1>2. /\ graph \in BuildGraphs /\ graph \in Graphs /\ IsApp(app) /\ graph.nodes = nodes
      /\ N = DOMAIN nodes /\ attached \subseteq DOMAIN nodes /\ DOMAIN nodes = 1..Len(nodes) /\ Len(nodes) \in Nat
    BY <1>1, BuildGraphFacts DEF GraphInv, Named, graph
<1>3. SetGraph(r.g) /\ agenda' = r.agenda /\ attached' = r.attached
  <2>1. PICK u \in {Accumulate(Transform, a, [i \in DOMAIN nodes |-> i])} :
            \E w \in {IF app.observers = << >> THEN u
                      ELSE Observed!Folded(0, u, [i \in DOMAIN u.g.nodes |-> i])} :
                SetGraph(w.g) /\ agenda' = w.agenda /\ attached' = w.attached
      BY DEF Expand, Accumulate, Observed!Folded, ObserveNode
  <2>2. u = t
      BY <2>1 DEF Accumulate, Transformed!Folded, TransformNode
  <2> HIDE DEF t, a
  <2> QED
      BY <2>1, <2>2
<1>4. a \in Expansions(N)
  <2>1. << >> \in Seq(Visits(Nat)) /\ << >> \in Seq(Visits(N))
      OBVIOUS
  <2>2. attached \in SUBSET Nat
      BY <1>2
  <2> QED
      BY <1>2, <2>1, <2>2 DEF Expansions, Grown
<1>5. [i \in DOMAIN nodes |-> i] \in Seq(N)
    BY <1>2
<1> HIDE DEF a
<1>6. t \in Expansions(N)
    BY <1>2, <1>4, <1>5, TransformedFacts
<1> HIDE DEF t
<1>7. r \in Expansions(N)
  <2> DEFINE s == [i \in DOMAIN t.g.nodes |-> i]
             M == Indices(t.g)
  <2>1. t.g \in BuildGraphs /\ M = DOMAIN t.g.nodes /\ N \subseteq M
      BY <1>6, BuildGraphFacts DEF Expansions, Grown
  <2>2. s \in Seq(M)
      BY <2>1, BuildGraphFacts
  <2>3. t \in Expansions(M)
      BY <1>6 DEF Expansions, Grown
  <2> HIDE DEF M, s
  <2>4. app.observers # << >> => Observed!Folded(0, t, s) \in Expansions(M)
      BY <1>2, <2>2, <2>3, ObservedFacts
  <2>5. Expansions(M) \subseteq Expansions(N)
      BY <2>1 DEF Expansions, Grown
  <2> QED
      BY <1>6, <2>4, <2>5 DEF s
<1> HIDE DEF r
<1>8. /\ r.g \in BuildGraphs /\ r.g \in Graphs /\ DOMAIN nodes \subseteq DOMAIN r.g.nodes
      /\ r.agenda \in Seq(Visits(Indices(r.g))) /\ r.attached \subseteq DOMAIN r.g.nodes
    BY <1>2, <1>7, BuildGraphFacts DEF Expansions, Grown
<1>9. (processed \cup transformed \cup attached)' \subseteq DOMAIN r.g.nodes
    BY <1>1, <1>3, <1>8 DEF GraphInv, Named
<1> QED
    BY <1>1, <1>3, <1>8, <1>9, BuildStep

LEMMA RewriteKeeps ==
    ASSUME GraphInv, Rewrite, UNCHANGED <<checkVars, orderVars>>
    PROVE  GraphInv'
<1> DEFINE b == Branched!Folded(0, graph, Ascending(graph, Indices(graph)))
           f == Taken!Folded(0, b, Ascending(b, Sources(b)))
<1>1. /\ phase \in Building /\ phase' \notin Walking /\ phase' \notin Building
      /\ UNCHANGED <<app, processed, transformed, attached>>
    BY DEF Rewrite, Building, Walking, buildVars
<1>2. SetGraph(f)
  <2>1. PICK c \in {Accumulate(Branch, graph, Ascending(graph, Indices(graph)))} :
            \E d \in {Taken!Folded(0, c, Ascending(c, Sources(c)))} : SetGraph(d)
      BY DEF Rewrite, Accumulate, Taken!Folded, TakeOne
  <2>2. c = b
      BY <2>1 DEF Accumulate, Branched!Folded, BranchNode
  <2> HIDE DEF b
  <2> QED
      BY <2>1, <2>2
<1>3. graph \in Graphs /\ graph.nodes = nodes
    BY DEF GraphInv, graph
<1>4. b \in Graphs /\ DOMAIN nodes \subseteq DOMAIN b.nodes
    BY <1>3, EdgeLists, BranchedFacts
<1> HIDE DEF b
<1>5. Ascending(b, Sources(b)) \in Seq(Sources(b))
    BY <1>4, EdgeLists DEF Sources
<1>6. f \in Graphs /\ DOMAIN nodes \subseteq DOMAIN f.nodes
    BY <1>4, <1>5, TakenFacts
<1> HIDE DEF f
<1>7. (processed \cup transformed \cup attached)' \subseteq DOMAIN f.nodes
    BY <1>1, <1>6 DEF GraphInv, Named
<1> QED
    BY <1>1, <1>2, <1>6, <1>7, BuildStep

-----------------------------------------------------------------------------
(* The steps of the borrow checker. *)

LEMMA WalkFacts ==
    ASSUME GraphInv
    PROVE  /\ graph \in Graphs /\ graph \in Larger(graph) /\ graph.nodes = nodes
           /\ Indices(graph) \subseteq DOMAIN nodes
           /\ seen \cup finished \subseteq DOMAIN nodes
           /\ todo \in Seq(Indices(graph)) /\ parked \in Seq(Indices(graph))
           /\ todo # << >> => /\ Last(todo) \in Indices(graph) /\ Head(todo) \in Indices(graph)
                             /\ Front(todo) \in Seq(Indices(graph)) /\ Tail(todo) \in Seq(Indices(graph))
           /\ errors \in Reports
<1>1. todo \in Seq(Indices(graph)) /\ parked \in Seq(Indices(graph)) /\ graph \in Graphs
    BY DEF GraphInv
<1>2. todo # << >> => /\ Last(todo) \in Indices(graph) /\ Head(todo) \in Indices(graph)
                     /\ Front(todo) \in Seq(Indices(graph)) /\ Tail(todo) \in Seq(Indices(graph))
    BY <1>1, SeqFacts
<1> QED
    BY <1>1, <1>2 DEF GraphInv, Larger, Named, graph, Indices

LEMMA NeighboursFacts ==
    ASSUME NEW g \in Graphs, NEW n, NEW S
    PROVE  /\ Those(Froms(Incoming(g, n)), S) \in Seq(Indices(g))
           /\ Those(Tos(Outgoing(g, n)), S) \in Seq(Indices(g))
<1>1. Froms(Incoming(g, n)) \in Seq(Indices(g)) /\ Tos(Outgoing(g, n)) \in Seq(Indices(g))
    BY EdgeLists
<1>2. \A s \in Seq(Indices(g)) : Those(s, S) \in Seq(Indices(g) \cap S)
    BY ThoseFacts
<1> QED
    BY <1>1, <1>2

LEMMA AscendingFacts ==
    ASSUME NEW g \in Graphs
    PROVE  Ascending(g, Sources(g)) \in Seq(Indices(g)) /\ Ascending(g, Sinks(g)) \in Seq(Indices(g))
<1>1. Sources(g) \subseteq Indices(g) /\ Sinks(g) \subseteq Indices(g)
    BY DEF Sources, Sinks
<1>2. Ascending(g, Sources(g)) \in Seq(Sources(g)) /\ Ascending(g, Sinks(g)) \in Seq(Sinks(g))
    BY <1>1, EdgeLists
<1> QED
    BY <1>1, <1>2

LEMMA MultipleConsumersKeeps ==
    ASSUME GraphInv, MultipleConsumers, UNCHANGED <<buildVars, orderVars>>
    PROVE  GraphInv'
<1> DEFINE r == Consumed!Folded(0, [g |-> graph, errors |-> errors], Ascending(graph, Indices(graph)))
<1>1. /\ SetGraph(r.g) /\ errors' = r.errors /\ todo' = Ascending(r.g, Sources(r.g))
      /\ phase' = "captures" /\ UNCHANGED <<app, seen, finished, parked>>
    BY DEF MultipleConsumers, Accumulate, Consumed!Folded, CheckNode, workVars
<1>2. r.g \in Larger(graph) /\ r.errors \in Reports
    BY WalkFacts, EdgeLists, ConsumedFacts
<1> HIDE DEF r
<1>3. /\ r.g \in Graphs /\ DOMAIN nodes \subseteq DOMAIN r.g.nodes /\ Indices(graph) \subseteq Indices(r.g)
    BY <1>2, WalkFacts DEF Larger
<1>4. todo' \in Seq(Indices(r.g)) /\ parked' \in Seq(Indices(r.g))
    BY <1>1, <1>3, AscendingFacts, WalkFacts
<1>5. (seen \cup finished)' \subseteq DOMAIN r.g.nodes
    BY <1>1, <1>3, WalkFacts
<1>6. phase' \notin Building /\ phase' \in Walking
    BY <1>1 DEF Building, Walking
<1> QED
    BY <1>1, <1>2, <1>4, <1>5, <1>6, CheckStep

\* The steps that only move between the nodes of the graph.
LEMMA WalkStep ==
    ASSUME GraphInv, UNCHANGED <<graphVars, buildVars, orderVars>>,
           phase' \notin Building, phase' \notin Walking => todo' = << >>,
           errors' \in Reports, (seen \cup finished)' \subseteq DOMAIN nodes,
           todo' \in Seq(Indices(graph)), parked' \in Seq(Indices(graph))
    PROVE  GraphInv'
BY SameGraph, WalkFacts, CheckStep

LEMMA CaptureKeeps ==
    ASSUME GraphInv, Capture \/ Discover, UNCHANGED <<buildVars, orderVars>>
    PROVE  GraphInv'
<1>1. /\ UNCHANGED <<graphVars, phase, finished, parked, errors>> /\ phase \in Walking /\ todo # << >>
      /\ phase' \notin Building
    BY DEF Capture, Discover, Walking, Building
<1>2. \E n \in Indices(graph), s \in Seq(Indices(graph)) :
          seen' = seen \cup {n} /\ todo' = s \o Those(Tos(Outgoing(graph, n)), DOMAIN nodes \ seen')
    BY <1>1, WalkFacts DEF Capture, Discover
<1>3. todo' \in Seq(Indices(graph)) /\ seen' \subseteq DOMAIN nodes
    BY <1>2, WalkFacts, NeighboursFacts, ConcatFacts
<1> QED
    BY <1>1, <1>3, WalkFacts, WalkStep

LEMMA StartsKeep ==
    ASSUME GraphInv, StartMoves \/ StartComplex, UNCHANGED <<buildVars, orderVars>>
    PROVE  GraphInv'
<1>1. /\ UNCHANGED <<graphVars, parked, errors>> /\ todo = << >> /\ phase' \notin Building
      /\ phase' \notin Walking => todo' = << >>
      /\ seen' \subseteq seen /\ finished' \subseteq finished
  <2>1. CASE StartMoves
      BY <2>1 DEF StartMoves, Walking, Building
  <2>2. CASE StartComplex
      BY <2>2 DEF StartComplex, Walking, Building
  <2> QED
      BY <2>1, <2>2
<1>2. \/ todo' = todo
      \/ todo' = Ascending(graph, Sinks(graph))
      \/ Sources(graph) # {} /\ todo' = <<Ascending(graph, Sources(graph))[1]>>
  <2>1. CASE StartMoves
      BY <2>1 DEF StartMoves
  <2>2. CASE StartComplex
      BY <2>2 DEF StartComplex
  <2> QED
      BY <2>1, <2>2
<1>3. Sources(graph) # {} => <<Ascending(graph, Sources(graph))[1]>> \in Seq(Indices(graph))
  <2> SUFFICES ASSUME Sources(graph) # {}
               PROVE  Ascending(graph, Sources(graph))[1] \in Indices(graph)
      OBVIOUS
  <2>1. Sources(graph) \cap Indices(graph) # {}
      BY DEF Sources
  <2>2. Ascending(graph, Sources(graph)) # << >> /\ Ascending(graph, Sources(graph)) \in Seq(Indices(graph))
      BY <2>1, WalkFacts, EdgeLists, AscendingFacts
  <2> QED
      BY <2>2
<1>4. todo' \in Seq(Indices(graph))
    BY <1>2, <1>3, WalkFacts, AscendingFacts
<1> QED
    BY <1>1, <1>4, WalkFacts, WalkStep

LEMMA LeaveKeeps ==
    ASSUME GraphInv, Leave, UNCHANGED <<buildVars, orderVars>>
    PROVE  GraphInv'
<1> DEFINE n == Last(todo)
           r == Moved!Folded(0, [g |-> graph, errors |-> errors], Incoming(graph, n))
<1>1. /\ phase \in Walking /\ phase' = phase /\ phase' \notin Building
      /\ todo # << >> /\ todo' = Front(todo) /\ UNCHANGED <<seen, parked>>
    BY DEF Leave, Walking, Building
<1>2. \/ UNCHANGED <<graphVars, finished, errors>>
      \/ SetGraph(r.g) /\ errors' = r.errors /\ finished' = finished \cup {n} /\ UNCHANGED app
    BY DEF Leave, Accumulate, Moved!Folded, CheckEdge
<1>3. Incoming(graph, n) \in Seq(EdgesBetween(Indices(graph)))
  <2>1. Incoming(graph, n) \in Seq(Into(graph, n)) /\ Into(graph, n) \subseteq EdgesBetween(Indices(graph))
      BY WalkFacts, EdgeLists, GraphFacts DEF Into
  <2> HIDE DEF EdgesBetween
  <2> QED
      BY <2>1
<1>4. r.g \in Larger(graph) /\ r.errors \in Reports
    BY <1>3, WalkFacts, MovedFacts
<1>5. n \in DOMAIN nodes /\ todo' \in Seq(Indices(graph)) /\ parked' \in Seq(Indices(graph))
    BY <1>1, WalkFacts
<1> HIDE DEF n, r
<1>6. CASE UNCHANGED <<graphVars, finished, errors>>
    BY <1>1, <1>5, <1>6, WalkFacts, WalkStep
<1>7. CASE SetGraph(r.g) /\ errors' = r.errors /\ finished' = finished \cup {n} /\ UNCHANGED app
  <2>1. Indices(graph) \subseteq Indices(r.g) /\ DOMAIN nodes \subseteq DOMAIN r.g.nodes
      BY <1>4, WalkFacts DEF Larger
  <2>2. todo' \in Seq(Indices(r.g)) /\ parked' \in Seq(Indices(r.g))
      BY <1>5, <2>1
  <2>3. (seen \cup finished)' \subseteq DOMAIN r.g.nodes
      BY <1>1, <1>5, <1>7, <2>1, WalkFacts
  <2> QED
      BY <1>1, <1>4, <1>7, <2>2, <2>3, CheckStep
<1> QED
    BY <1>2, <1>6, <1>7

\* What the rounds of complex_borrow_check put on their lists.
LEMMA ComplexFacts ==
    ASSUME GraphInv, NEW n, Complex(n), NEW B
    PROVE  /\ n \in Indices(graph) /\ phase = "complex"
           /\ Insert(parked, n) \in Seq(Indices(graph))
           /\ Extended(Front(todo), Freed(n, B)) \in Seq(Indices(graph))
<1>1. n \in Indices(graph) /\ phase = "complex" /\ Front(todo) \in Seq(Indices(graph))
    BY WalkFacts DEF Complex
<1>2. Freed(n, B) \in Seq(Indices(graph))
    BY WalkFacts, NeighboursFacts DEF Freed
<1> QED
    BY <1>1, <1>2, WalkFacts, InsertFacts, ExtendedFacts

LEMMA FixpointFacts ==
    ASSUME NEW T, NEW s \in Seq(T), NEW t \in Seq(T), NEW u, Fixpoint(s, t, u), phase \in Walking,
           parked \in Seq(T)
    PROVE  /\ todo' \in Seq(T)
           /\ parked' = << >> \/ parked' = parked
           /\ phase' \notin Building /\ (phase' \notin Walking => todo' = << >>)
<1>1. Extended(s, t) \in Seq(T) /\ << >> \in Seq(T)
    BY ExtendedFacts
<1> QED
    BY <1>1 DEF Fixpoint, Walking, Building

LEMMA RoundsKeep ==
    ASSUME GraphInv, NEW n \in DOMAIN nodes, Finish(n) \/ Park(n) \/ Report(n),
           UNCHANGED <<buildVars, orderVars>>
    PROVE  GraphInv'
<1>1. /\ Complex(n) /\ UNCHANGED <<graphVars, phase, seen>>
      /\ finished' \subseteq finished \cup {n}
      /\ parked' \in {parked, Insert(parked, n)}
      /\ \E B : todo' = Extended(Front(todo), Freed(n, B))
    BY DEF Finish, Park, Report
<1>2. todo' \in Seq(Indices(graph)) /\ parked' \in Seq(Indices(graph)) /\ n \in Indices(graph) /\ phase = "complex"
    BY <1>1, ComplexFacts, WalkFacts
<1>3. errors' \in Reports
  <2>1. BlockedOn(n, finished) \subseteq Nat /\ n \in Nat
    <3>1. \A e \in EdgesOf(graph) : e.from \in Nat
        BY WalkFacts, GraphFacts DEF EdgesBetween
    <3> QED
        BY <1>2, <3>1, WalkFacts, GraphFacts DEF BlockedOn, Into
  <2>2. \A a \in BlockedOn(n, finished) : <<a, n>> \in Nat \X Nat
      BY <2>1
  <2>3. {<<a, n>> : a \in BlockedOn(n, finished)} \subseteq Nat \X Nat
      BY <2>2
  <2>4. errors' = errors \/ errors' = errors \cup {<<a, n>> : a \in BlockedOn(n, finished)}
      BY DEF Finish, Park, Report
  <2> QED
      BY <2>3, <2>4, WalkFacts DEF Reports
<1>4. phase' \notin Building /\ phase' \in Walking
    BY <1>1, <1>2 DEF Building, Walking
<1>5. (seen \cup finished)' \subseteq DOMAIN nodes
    BY <1>1, WalkFacts
<1> QED
    BY <1>1, <1>2, <1>3, <1>4, <1>5, WalkStep

LEMMA CloneKeeps ==
    ASSUME GraphInv, NEW n \in DOMAIN nodes, Clone(n), UNCHANGED <<buildVars, orderVars>>
    PROVE  GraphInv'
<1> DEFINE B == BlockedOn(n, finished)
           candidates == Those(Froms(Incoming(graph, n)), {a \in B : Clonable(a)})
           h == IF candidates = << >> THEN graph ELSE WithClone(graph, candidates[1], n)
           freed == unblocked \/ candidates # << >>
           rest == Extended(Front(todo), Freed(n, B))
<1>1. /\ Complex(n) /\ SetGraph(h) /\ UNCHANGED <<app, seen, finished, errors>>
      /\ IF freed THEN Fixpoint(rest, Insert(parked, n), freed)
         ELSE todo' = rest /\ parked' = Insert(parked, n) /\ UNCHANGED phase
    BY DEF Clone
<1>2. /\ n \in Indices(graph) /\ phase = "complex" /\ rest \in Seq(Indices(graph))
      /\ Insert(parked, n) \in Seq(Indices(graph))
    BY <1>1, ComplexFacts
<1>3. candidates \in Seq(Indices(graph))
    BY WalkFacts, NeighboursFacts
<1> HIDE DEF candidates, rest, freed
<1>4. h \in Larger(graph)
  <2>1. candidates # << >> => candidates[1] \in Indices(graph)
      BY <1>3
  <2> QED
      BY <1>2, <2>1, WalkFacts, LargerFacts
<1> HIDE DEF h
<1>5. Indices(graph) \subseteq Indices(h) /\ DOMAIN nodes \subseteq DOMAIN h.nodes
    BY <1>4, WalkFacts DEF Larger
<1>6. /\ todo' \in Seq(Indices(graph)) /\ parked' \in Seq(Indices(graph))
      /\ phase' \notin Building /\ (phase' \notin Walking => todo' = << >>)
  <2>1. phase \in Walking /\ phase \notin Building /\ << >> \in Seq(Indices(graph))
      BY <1>2 DEF Walking, Building
  <2>2. CASE freed
    <3>1. Fixpoint(rest, Insert(parked, n), freed)
        BY <1>1, <2>2
    <3> QED
        BY <1>2, <2>1, <3>1, WalkFacts, FixpointFacts
  <2>3. CASE ~freed
      BY <1>1, <1>2, <2>1, <2>3
  <2> QED
      BY <2>2, <2>3
<1>7. todo' \in Seq(Indices(h)) /\ parked' \in Seq(Indices(h))
    BY <1>5, <1>6
<1>8. (seen \cup finished)' \subseteq DOMAIN h.nodes
    BY <1>1, <1>5, WalkFacts
<1> QED
    BY <1>1, <1>4, <1>6, <1>7, <1>8, WalkFacts, CheckStep

LEMMA EndOfRoundKeeps ==
    ASSUME GraphInv, EndOfRound, UNCHANGED <<buildVars, orderVars>>
    PROVE  GraphInv'
<1>1. /\ phase \in Walking /\ Fixpoint(<< >>, parked, unblocked)
      /\ UNCHANGED <<graphVars, seen, finished, errors>>
    BY DEF EndOfRound, Walking
<1>2. << >> \in Seq(Indices(graph))
    OBVIOUS
<1>3. /\ todo' \in Seq(Indices(graph)) /\ parked' \in Seq(Indices(graph))
      /\ phase' \notin Building /\ (phase' \notin Walking => todo' = << >>)
    BY <1>1, <1>2, WalkFacts, FixpointFacts
<1> QED
    BY <1>1, <1>3, WalkFacts, WalkStep

-----------------------------------------------------------------------------
(* The steps of the ordering. *)

LEMMA OrderKeeps ==
    ASSUME GraphInv, Order, UNCHANGED <<buildVars, checkVars>>
    PROVE  GraphInv'
<1>1. /\ graph \in Graphs /\ Named \subseteq DOMAIN nodes /\ Placed \subseteq Indices(graph)
      /\ stack \in Seq(Indices(graph)) /\ blocked \in Seq(Indices(graph)) /\ << >> \in Seq(Indices(graph))
      /\ stack # << >> => Last(stack) \in Indices(graph) /\ Front(stack) \in Seq(Indices(graph))
  <2>1. stack \in Seq(Indices(graph))
      BY DEF GraphInv
  <2> QED
      BY <2>1, SeqFacts DEF GraphInv
<1>2. /\ UNCHANGED graphVars
      /\ phase \notin Walking /\ phase' \notin Walking /\ phase' \notin Building
    BY DEF Order, StartOrder, Skip, DiscoverNode, Place, ParkNode, NextRound, Top, Walking, Building
<1>3. CASE StartOrder
    BY <1>1, <1>2, <1>3, AscendingFacts, OrderStep DEF StartOrder, Placed, Named
<1>4. ASSUME NEW n \in DOMAIN nodes, Skip(n) \/ DiscoverNode(n) \/ Place(n) \/ ParkNode(n)
      PROVE  GraphInv'
  <2>1. n \in Indices(graph) /\ n = Last(stack) /\ Front(stack) \in Seq(Indices(graph))
      BY <1>1, <1>4 DEF Skip, DiscoverNode, Place, ParkNode, Top
  <2>2. discovered' \subseteq DOMAIN nodes
      BY <1>1, <1>4 DEF Skip, DiscoverNode, Place, ParkNode, Named
  <2>3. Placed' \subseteq Indices(graph)
      BY <1>1, <1>4, <2>1 DEF Skip, DiscoverNode, Place, ParkNode, Placed
  <2>4. stack' \in Seq(Indices(graph))
    <3>1. stack \o Those(Froms(Incoming(graph, n)), DOMAIN nodes \ Placed) \in Seq(Indices(graph))
        BY <1>1, NeighboursFacts, ConcatFacts
    <3> QED
        BY <1>4, <2>1, <3>1 DEF Skip, DiscoverNode, Place, ParkNode
  <2>5. blocked' \in Seq(Indices(graph))
      BY <1>1, <1>4, <2>1, InsertFacts DEF Skip, DiscoverNode, Place, ParkNode
  <2> QED
      BY <1>2, <2>2, <2>3, <2>4, <2>5, OrderStep
<1>5. CASE NextRound
    BY <1>1, <1>2, <1>5, OrderStep DEF NextRound, Placed, Named
<1> QED
    BY <1>3, <1>4, <1>5 DEF Order

LEMMA GraphInvNext == GraphInv /\ [Next]_vars => GraphInv'
<1> SUFFICES ASSUME GraphInv, [Next]_vars PROVE GraphInv'
    OBVIOUS
<1>1. CASE Build /\ UNCHANGED <<checkVars, orderVars>>
    BY <1>1, CheckAcyclicKeeps, VisitNodeKeeps, ExpandKeeps, RewriteKeeps DEF Build
<1>2. CASE Check /\ UNCHANGED <<buildVars, orderVars>>
    BY <1>2, MultipleConsumersKeeps, CaptureKeeps, StartsKeep, LeaveKeeps, RoundsKeep, CloneKeeps,
       EndOfRoundKeeps DEF Check
<1>3. CASE Order /\ UNCHANGED <<buildVars, checkVars>>
    BY <1>3, OrderKeeps
<1>4. CASE UNCHANGED vars
  <2>1. UNCHANGED <<graphVars, phase, buildVars, checkVars, orderVars>>
      BY <1>4 DEF vars
  <2>2. CASE phase \in Building
    <3>1. /\ graph \in Graphs /\ SetGraph(graph) /\ DOMAIN nodes = DOMAIN graph.nodes
          /\ graph \in BuildGraphs /\ agenda' \in Seq(Visits(Indices(graph)))
        BY <2>1, <2>2, WalkFacts, SameGraph DEF GraphInv, buildVars
    <3>2. (processed \cup transformed \cup attached)' \subseteq DOMAIN graph.nodes
        BY <2>1, <3>1 DEF GraphInv, Named, buildVars
    <3>3. phase' \notin Walking
        BY <2>1, <2>2 DEF Building, Walking
    <3> QED
        BY <2>1, <2>2, <3>1, <3>2, <3>3, SameGraph, BuildStep
  <2>3. CASE phase \notin Building
    <3>1. UNCHANGED <<todo, parked, seen, finished, errors>>
        BY <2>1 DEF checkVars
    <3>2. phase' \notin Walking => todo' = << >>
        BY <2>1, <3>1 DEF GraphInv
    <3> QED
        BY <2>1, <2>3, <3>1, <3>2, WalkFacts, WalkStep
  <2> QED
      BY <2>2, <2>3
<1> QED
    BY <1>1, <1>2, <1>3, <1>4 DEF Next

-----------------------------------------------------------------------------
(* Reachability. *)

\* C holds what the edges lead to from its elements.
Closed(C, E) == \A e \in E : e.from \in C => e.to \in C

\* u[i] is what the edges E between the nodes N lead to from n in i steps.
Spreads(u, N, E, n, k) ==
    /\ n \in N /\ u[0] = {n}
    /\ \A e \in E : e.from \in N /\ e.to \in N
    /\ \A i \in 1..k : u[i - 1] \subseteq N =>
           u[i] = u[i - 1] \cup {e.to : e \in {x \in E : x.from \in u[i - 1]}}

\* Where the edges lead in k steps, at least as many as there are nodes: nothing
\* is left to be found after that.
LEMMA Saturates ==
    ASSUME NEW N, IsFiniteSet(N), NEW k \in Nat, Cardinality(N) <= k,
           NEW n, NEW E, NEW u, Spreads(u, N, E, n, k)
    PROVE  /\ u[k] \subseteq N /\ n \in u[k] /\ Closed(u[k], E)
           /\ \A C : n \in C /\ Closed(C, E) => u[k] \subseteq C
<1> DEFINE Next1(i) == u[i - 1] \cup {e.to : e \in {x \in E : x.from \in u[i - 1]}}
           S == {i \in 0..k : /\ u[i] \subseteq N /\ n \in u[i]
                              /\ Closed(u[i], E) \/ Cardinality(u[i]) > i}
<1>1. \A D \in SUBSET N : IsFiniteSet(D) /\ Cardinality(D) \in Nat /\ Cardinality(D) <= k
    BY FS_Subset, FS_CardinalityType
<1>2. 0 \in S
  <2>1. Cardinality(u[0]) > 0
      BY FS_Singleton DEF Spreads
  <2>2. u[0] \subseteq N /\ n \in u[0] /\ 0 \in 0..k
      BY DEF Spreads
  <2> QED
      BY <2>1, <2>2
<1>3. ASSUME NEW i \in 1..k, i - 1 \in S PROVE i \in S
  <2>1. /\ u[i - 1] \subseteq N /\ n \in u[i - 1] /\ i \in 0..k
        /\ Closed(u[i - 1], E) \/ Cardinality(u[i - 1]) > i - 1
      BY <1>3
  <2>2. u[i] = Next1(i)
      BY <2>1 DEF Spreads
  <2>3. u[i - 1] \subseteq u[i] /\ u[i] \subseteq N
      BY <2>1, <2>2 DEF Spreads
  <2>4. CASE Closed(u[i - 1], E)
    <3>1. u[i] = u[i - 1]
        BY <2>2, <2>4 DEF Closed
    <3> QED
        BY <2>1, <2>4, <3>1
  <2>5. CASE ~Closed(u[i - 1], E)
    <3>1. PICK x : x \in u[i] /\ x \notin u[i - 1]
        BY <2>2, <2>5 DEF Closed
    <3>2. Cardinality(u[i - 1] \cup {x}) = Cardinality(u[i - 1]) + 1
        BY <1>1, <2>1, <3>1, FS_AddElement
    <3>3. Cardinality(u[i - 1] \cup {x}) <= Cardinality(u[i])
        BY <1>1, <2>3, <3>1, FS_Subset
    <3>4. Cardinality(u[i - 1]) \in Nat /\ Cardinality(u[i]) \in Nat /\ Cardinality(u[i - 1]) > i - 1
        BY <1>1, <2>1, <2>3, <2>5
    <3>5. Cardinality(u[i]) > i
        BY <3>2, <3>3, <3>4
    <3> QED
        BY <2>1, <2>3, <3>5
  <2> QED
      BY <2>4, <2>5
<1> HIDE DEF S
<1>4. \A i \in 0..k : i \in S
    BY <1>2, <1>3, Kept!UpTo
<1>5. k \in S /\ k \in 0..k
    BY <1>4
<1>6. ~(Cardinality(u[k]) > k)
    BY <1>1, <1>5 DEF S
<1>7. ASSUME NEW C, n \in C, Closed(C, E) PROVE u[k] \subseteq C
  <2> DEFINE T == {i \in 0..k : u[i] \subseteq C}
  <2>1. 0 \in T
      BY <1>7 DEF Spreads
  <2>2. ASSUME NEW i \in 1..k, i - 1 \in T PROVE i \in T
    <3>1. u[i - 1] \subseteq N /\ i \in 0..k
      <4>1. i - 1 \in S
          BY <1>4
      <4> QED
          BY <4>1 DEF S
    <3>2. u[i] = Next1(i)
        BY <3>1 DEF Spreads
    <3> QED
        BY <1>7, <2>2, <3>1, <3>2 DEF Closed
  <2> HIDE DEF T
  <2>3. \A i \in 0..k : i \in T
      BY <2>1, <2>2, Kept!UpTo
  <2> QED
      BY <1>5, <2>3 DEF T
<1> QED
    BY <1>5, <1>6, <1>7 DEF S

ReachMore(g, S, i) == UNION {{m} \cup {e.to : e \in OutOf(g, m)} : m \in S}
Reached == INSTANCE FoldFacts WITH Step <- ReachMore

\* Reach is the least set that holds n and what its edges lead to.
LEMMA ReachFacts ==
    ASSUME NEW g \in Graphs, NEW n \in Indices(g)
    PROVE  /\ n \in Reach(g, n) /\ Reach(g, n) \subseteq Indices(g)
           /\ \A e \in EdgesOf(g) : e.from \in Reach(g, n) => e.to \in Reach(g, n)
           /\ \A C : n \in C /\ (\A e \in EdgesOf(g) : e.from \in C => e.to \in C) => Reach(g, n) \subseteq C
<1> DEFINE k == Len(g.nodes)
           s == [i \in 1..k |-> i]
<1>1. k \in Nat /\ Len(s) = k /\ Indices(g) \subseteq 1..k
    BY GraphFacts
<1>2. IsFiniteSet(Indices(g)) /\ Cardinality(Indices(g)) <= k
  <2> HIDE DEF k
  <2>1. IsFiniteSet(1..k) /\ Cardinality(1..k) = k
      BY <1>1, FS_Interval
  <2> QED
      BY <1>1, <2>1, FS_Subset
<1>3. \A e \in EdgesOf(g) : e.from \in Indices(g) /\ e.to \in Indices(g)
    BY GraphFacts DEF EdgesBetween
<1>5. Reach(g, n) = Reached!Folded(g, {n}, s)
    BY DEF Reach, Within, Accumulate, Reached!Folded, ReachMore
<1>6. PICK u : Reached!IsTrace(g, {n}, s, k, u) /\ Reached!Folded(g, {n}, s) = u[k]
  <2> HIDE DEF s
  <2>1. Len(s) \in Nat
      BY <1>1
  <2> QED
      BY <1>1, <2>1, Reached!FoldHasTrace
<1>7. ASSUME NEW S, NEW i PROVE ReachMore(g, S, i) = S \cup {e.to : e \in {x \in EdgesOf(g) : x.from \in S}}
    BY DEF ReachMore, OutOf
<1>8. u[0] = {n} /\ \A i \in 1..k : u[i] = ReachMore(g, u[i - 1], s[i])
    BY <1>6 DEF Reached!IsTrace
<1>9. Spreads(u, Indices(g), EdgesOf(g), n, k)
    BY <1>3, <1>7, <1>8 DEF Spreads
<1> HIDE DEF k, s
<1>10. /\ u[k] \subseteq Indices(g) /\ n \in u[k] /\ Closed(u[k], EdgesOf(g))
       /\ \A C : n \in C /\ Closed(C, EdgesOf(g)) => u[k] \subseteq C
    BY <1>1, <1>2, <1>9, Saturates
<1> QED
    BY <1>5, <1>6, <1>10 DEF Closed

\* What n leads to leads no further than n.
LEMMA ReachTrans ==
    ASSUME NEW g \in Graphs, NEW n \in Indices(g), NEW m \in Reach(g, n)
    PROVE  m \in Indices(g) /\ Reach(g, m) \subseteq Reach(g, n)
BY ReachFacts

LEMMA ReachEdge ==
    ASSUME NEW g \in Graphs, NEW e \in EdgesOf(g)
    PROVE  /\ e.from \in Indices(g) /\ e.to \in Indices(g)
           /\ e.to \in Reach(g, e.from)
<1>1. e.from \in Indices(g) /\ e.to \in Indices(g)
    BY GraphFacts DEF EdgesBetween
<1> QED
    BY <1>1, ReachFacts

\* Those drops nothing that is in S.
LEMMA ThoseAll ==
    ASSUME NEW T, NEW s \in Seq(T), NEW S
    PROVE  ToSet(Those(s, S)) = ToSet(s) \cap S
<1> DEFINE A == [i \in 0..Len(s) |-> {t \in Seq(T) : \A j \in 1..i : s[j] \in S => s[j] \in ToSet(t)}]
<1>1. << >> \in A[0]
    OBVIOUS
<1>2. ASSUME NEW i \in 1..Len(s), NEW a \in A[i - 1] PROVE Keep(S, a, s[i]) \in A[i]
  <2>1. /\ a \in Seq(T) /\ s[i] \in T /\ i \in 0..Len(s)
        /\ \A j \in 1..(i - 1) : s[j] \in S => s[j] \in ToSet(a)
      OBVIOUS
  <2>2. ToSet(Append(a, s[i])) = ToSet(a) \cup {s[i]}
    <3>1. /\ DOMAIN Append(a, s[i]) = DOMAIN a \cup {Len(a) + 1}
          /\ Append(a, s[i])[Len(a) + 1] = s[i]
          /\ \A j \in DOMAIN a : Append(a, s[i])[j] = a[j]
        BY <2>1
    <3> QED
        BY <3>1 DEF ToSet
  <2>3. Keep(S, a, s[i]) \in Seq(T)
      BY <2>1 DEF Keep
  <2>4. ASSUME NEW j \in 1..i, s[j] \in S PROVE s[j] \in ToSet(Keep(S, a, s[i]))
    <3>1. CASE j = i
        BY <2>2, <2>4, <3>1 DEF Keep
    <3>2. CASE j # i
      <4>1. j \in 1..(i - 1)
          BY <3>2
      <4> QED
          BY <2>1, <2>2, <2>4, <4>1 DEF Keep
    <3> QED
        BY <3>1, <3>2
  <2> QED
      BY <2>1, <2>3, <2>4
<1>3. A[Len(s)] = {t \in Seq(T) : \A j \in 1..Len(s) : s[j] \in S => s[j] \in ToSet(t)}
    OBVIOUS
<1> HIDE DEF A
<1>4. Kept!Folded(S, << >>, s) \in A[Len(s)]
    BY <1>1, <1>2, Kept!FoldRuns
<1>5. Those(s, S) = Kept!Folded(S, << >>, s)
    BY DEF Those, Accumulate, Kept!Folded, Keep
<1>6. ToSet(s) \cap S \subseteq ToSet(Those(s, S))
    BY <1>3, <1>4, <1>5 DEF ToSet
<1>7. Those(s, S) \in Seq(ToSet(s) \cap S)
  <2>1. s \in Seq(ToSet(s))
      BY DEF ToSet
  <2> QED
      BY <2>1, ThoseFacts
<1>8. ToSet(Those(s, S)) \subseteq ToSet(s) \cap S
    BY <1>7, SeqFacts
<1> QED
    BY <1>6, <1>8

LEMMA ConcatSet ==
    ASSUME NEW T, NEW s \in Seq(T), NEW t \in Seq(T)
    PROVE  ToSet(s \o t) = ToSet(s) \cup ToSet(t)
<1>1. ToSet(s \o t) \subseteq ToSet(s) \cup ToSet(t)
    BY DEF ToSet
<1>2. ASSUME NEW i \in DOMAIN s PROVE s[i] \in ToSet(s \o t)
  <2>1. i \in DOMAIN (s \o t) /\ (s \o t)[i] = s[i]
      OBVIOUS
  <2> QED
      BY <2>1 DEF ToSet
<1>3. ASSUME NEW i \in DOMAIN t PROVE t[i] \in ToSet(s \o t)
  <2>1. Len(s) + i \in DOMAIN (s \o t) /\ (s \o t)[Len(s) + i] = t[i]
      OBVIOUS
  <2> QED
      BY <2>1 DEF ToSet
<1> QED
    BY <1>1, <1>2, <1>3 DEF ToSet

\* Every node of S is listed.
LEMMA AscendingAll ==
    ASSUME NEW g \in Graphs, NEW S \in SUBSET Indices(g)
    PROVE  ToSet(Ascending(g, S)) = S
<1> DEFINE s == [i \in DOMAIN g.nodes |-> i]
<1>1. s \in Seq(Nat) /\ ToSet(s) = DOMAIN g.nodes
    BY GraphFacts DEF ToSet
<1>2. S \subseteq DOMAIN g.nodes
    BY DEF Indices
<1>3. Ascending(g, S) = Those(s, S)
    BY DEF Ascending
<1> HIDE DEF s
<1>4. ToSet(Those(s, S)) = ToSet(s) \cap S
    BY <1>1, ThoseAll
<1> QED
    BY <1>1, <1>2, <1>3, <1>4

LEMMA ReplacedEdges ==
    ASSUME NEW g \in Graphs, NEW old, NEW N, Indices(g) \subseteq N, NEW new \in Seq(EdgesBetween(N))
    PROVE  ToSet(Replaced(g, old, new)) = (EdgesOf(g) \ old) \cup ToSet(new)
<1>1. g.edges \in Seq(EdgesBetween(Indices(g))) /\ EdgesBetween(Indices(g)) \subseteq EdgesBetween(N)
    BY GraphFacts DEF EdgesBetween
<1> HIDE DEF EdgesBetween
<1>2. g.edges \in Seq(EdgesBetween(N))
    BY <1>1
<1>3. ToSet(Those(g.edges, EdgesOf(g) \ old)) = EdgesOf(g) \ old
    BY <1>2, ThoseAll DEF EdgesOf
<1>4. Those(g.edges, EdgesOf(g) \ old) \in Seq(EdgesBetween(N))
  <2>1. Those(g.edges, EdgesOf(g) \ old) \in Seq(EdgesBetween(N) \cap (EdgesOf(g) \ old))
      BY <1>2, ThoseFacts
  <2> QED
      BY <2>1
<1>5. ToSet(Those(g.edges, EdgesOf(g) \ old) \o new) = ToSet(Those(g.edges, EdgesOf(g) \ old)) \cup ToSet(new)
    BY <1>4, ConcatSet
<1> QED
    BY <1>3, <1>5 DEF Replaced

\* The graph with a clone, edge by edge and node by node.
LEMMA WithCloneEdges ==
    ASSUME NEW g \in Graphs, NEW n \in Indices(g), NEW c \in Indices(g)
    PROVE  LET k == Len(g.nodes) + 1
               h == WithClone(g, n, c)
           IN /\ h \in Graphs /\ Indices(h) = Indices(g) \cup {k} /\ k \notin DOMAIN g.nodes
              /\ \A m \in DOMAIN g.nodes : h.nodes[m] = g.nodes[m]
              /\ DOMAIN h.nodes = DOMAIN g.nodes \cup {k}
              /\ EdgesOf(h) = (EdgesOf(g) \ {e \in EdgesOf(g) : e.from = n /\ e.to = c})
                                  \cup {Edge(n, k, "shared"), Edge(k, c, "move")}
<1> DEFINE k == Len(g.nodes) + 1
           h == WithClone(g, n, c)
           N == Indices(g) \cup {k}
           old == {e \in EdgesOf(g) : e.from = n /\ e.to = c}
           new == <<Edge(n, k, "shared"), Edge(k, c, "move")>>
           x == Node(g.nodes[n].comp, "clone")
<1>1. new \in Seq(EdgesBetween(N)) /\ ToSet(new) = {Edge(n, k, "shared"), Edge(k, c, "move")}
  <2>1. Edge(n, k, "shared") \in EdgesBetween(N) /\ Edge(k, c, "move") \in EdgesBetween(N)
      BY DEF Edge, EdgesBetween, Borrows
  <2>2. \A a, b : ToSet(<<a, b>>) = {a, b}
      BY DEF ToSet
  <2> QED
      BY <2>1, <2>2
<1>2. h = [nodes |-> Append(g.nodes, x), edges |-> Replaced(g, old, new)]
    BY DEF WithClone
<1>3. x \in NodeSet /\ x.role = "clone"
    BY GraphFacts DEF Node, NodeSet, Roles, Indices
<1>4. Indices(g) \subseteq N
    OBVIOUS
<1> HIDE DEF x, old, new, h, N
<1>5. Replaced(g, old, new) \in Seq(EdgesBetween(N))
    BY <1>1, <1>4, ReplacedFacts
<1>6. ToSet(Replaced(g, old, new)) = (EdgesOf(g) \ old) \cup ToSet(new)
    BY <1>1, <1>4, ReplacedEdges
<1>7. h \in Graphs /\ Indices(h) = N
    BY <1>2, <1>3, <1>5, NewNode DEF N
<1>8. k \notin DOMAIN g.nodes /\ DOMAIN h.nodes = DOMAIN g.nodes \cup {k}
      /\ \A m \in DOMAIN g.nodes : h.nodes[m] = g.nodes[m]
    BY <1>2, <1>3, GraphFacts DEF Graphs
<1>9. EdgesOf(h) = (EdgesOf(g) \ old) \cup {Edge(n, k, "shared"), Edge(k, c, "move")}
    BY <1>1, <1>2, <1>6 DEF EdgesOf
<1> QED
    BY <1>7, <1>8, <1>9 DEF N, h, old

-----------------------------------------------------------------------------
(* Clones: what they leave of who reaches, and who consumes, what. *)

\* Everything leads to a sink: going up the edges from the sinks, one meets every
\* node.
Grounded(g) ==
    \A C : Sinks(g) \subseteq C /\ (\A e \in EdgesOf(g) : e.to \in C => e.from \in C) => Indices(g) \subseteq C

\* The nodes that n, if it is no sink, leads to.
Below(g, n) == {c \in Reach(g, n) : n \notin Sinks(g)}

\* What g becomes by clones for nodes that their original leads to.
Clonings(g) ==
    { h \in Larger(g) :
        /\ Grounded(g) => Grounded(h)
        /\ \A m \in DOMAIN g.nodes : h.nodes[m] = g.nodes[m]
        /\ \A a, b \in Indices(g) : b \in Reach(h, a) <=> b \in Reach(g, a)
        /\ Sinks(h) \subseteq Sinks(g)
        /\ \A m \in Indices(g) : Consumers(h, m) \subseteq Consumers(g, m)
        /\ \A m \in Indices(h) \ Indices(g) : \A b, c \in Consumers(h, m) : b = c }

LEMMA OldIndices ==
    ASSUME NEW g \in Graphs, NEW h \in Clonings(g)
    PROVE  /\ h \in Graphs /\ Indices(g) \subseteq Indices(h)
           /\ \A m \in Indices(h) : m \in DOMAIN g.nodes => m \in Indices(g)
BY DEF Clonings, Larger, Indices

\* Sinks and consumers, read off the edges.
LEMMA SinksAndConsumers ==
    ASSUME NEW g \in Graphs
    PROVE  /\ \A n : n \in Sinks(g) <=> n \in Indices(g) /\ \A e \in EdgesOf(g) : e.from # n
           /\ \A n, c : c \in Consumers(g, n) <=> \E e \in EdgesOf(g) : e.from = n /\ e.to = c /\ e.mode = "move"
           /\ \A n : Consumers(g, n) \subseteq Indices(g)
<1>1. \A n : n \in Sinks(g) <=> n \in Indices(g) /\ \A e \in EdgesOf(g) : e.from # n
    BY DEF Sinks, EdgesOf, ToSet
<1>2. \A n, c : c \in Consumers(g, n) <=> \E e \in EdgesOf(g) : e.from = n /\ e.to = c /\ e.mode = "move"
    BY DEF Consumers, OutOf
<1>3. \A e \in EdgesOf(g) : e.to \in Indices(g)
    BY ReachEdge
<1> QED
    BY <1>1, <1>2, <1>3

LEMMA BelowEdge ==
    ASSUME NEW g \in Graphs, NEW e \in EdgesOf(g)
    PROVE  e.from \in Indices(g) /\ e.to \in Below(g, e.from)
BY ReachEdge, SinksAndConsumers DEF Below

LEMMA CloneReaches ==
    ASSUME NEW g \in Graphs, NEW n \in Indices(g), NEW c \in Below(g, n)
    PROVE  LET h == WithClone(g, n, c) IN
           /\ h \in Clonings(g)
           /\ Consumers(h, n) = Consumers(g, n) \ {c}
<1> DEFINE k == Len(g.nodes) + 1
           h == WithClone(g, n, c)
<1>1. c \in Indices(g) /\ c \in Reach(g, n) /\ n \notin Sinks(g)
    BY ReachFacts DEF Below
<1>2. /\ h \in Graphs /\ Indices(h) = Indices(g) \cup {k} /\ k \notin DOMAIN g.nodes
      /\ \A m \in DOMAIN g.nodes : h.nodes[m] = g.nodes[m]
      /\ DOMAIN h.nodes = DOMAIN g.nodes \cup {k}
      /\ EdgesOf(h) = (EdgesOf(g) \ {e \in EdgesOf(g) : e.from = n /\ e.to = c})
                          \cup {Edge(n, k, "shared"), Edge(k, c, "move")}
    BY <1>1, WithCloneEdges
<1>3. /\ Edge(n, k, "shared").from = n /\ Edge(n, k, "shared").to = k /\ Edge(n, k, "shared").mode = "shared"
      /\ Edge(k, c, "move").from = k /\ Edge(k, c, "move").to = c /\ Edge(k, c, "move").mode = "move"
    BY DEF Edge
<1>4. k \notin Indices(g)
    BY <1>2 DEF Indices
<1> HIDE DEF k, h
<1>5. \A e \in EdgesOf(h) : \/ e \in EdgesOf(g) /\ ~(e.from = n /\ e.to = c)
                            \/ e = Edge(n, k, "shared") \/ e = Edge(k, c, "move")
    BY <1>2
<1>6. /\ \A e \in EdgesOf(g) : (e.from = n /\ e.to = c) \/ e \in EdgesOf(h)
      /\ Edge(n, k, "shared") \in EdgesOf(h) /\ Edge(k, c, "move") \in EdgesOf(h)
    BY <1>2
<1>7. h \in Larger(g)
    BY <1>2 DEF Larger
<1>8. ASSUME NEW a \in Indices(g), NEW b \in Indices(g) PROVE b \in Reach(h, a) <=> b \in Reach(g, a)
  <2>1. a \in Indices(h)
      BY <1>2
  <2>2. Reach(g, a) \subseteq Reach(h, a)
    <3>1. \A e \in EdgesOf(h) : e.from \in Reach(h, a) => e.to \in Reach(h, a)
        BY <1>2, <2>1, ReachFacts
    <3>2. n \in Reach(h, a) => k \in Reach(h, a) /\ c \in Reach(h, a)
        BY <1>3, <1>6, <3>1
    <3>3. \A e \in EdgesOf(g) : e.from \in Reach(h, a) => e.to \in Reach(h, a)
        BY <1>6, <3>1, <3>2
    <3>4. a \in Reach(h, a)
        BY <1>2, <2>1, ReachFacts
    <3> QED
        BY <3>3, <3>4, ReachFacts
  <2>3. Reach(h, a) \subseteq Reach(g, a) \cup {k}
    <3> DEFINE D == {x \in Reach(g, a) \cup {k} : x = k => n \in Reach(g, a)}
    <3>1. a \in Reach(g, a) /\ k \notin Reach(g, a)
        BY <1>4, ReachFacts
    <3>2. n \in Reach(g, a) => c \in Reach(g, a)
        BY <1>1, ReachTrans
    <3>3. \A e \in EdgesOf(g) : e.from \in Reach(g, a) => e.to \in Reach(g, a)
        BY ReachFacts
    <3>4. ASSUME NEW e \in EdgesOf(h), e.from \in D PROVE e.to \in D
      <4>1. CASE e \in EdgesOf(g)
        <5>1. e.from # k
            BY <1>4, <4>1, ReachEdge
        <5> QED
            BY <3>1, <3>3, <3>4, <4>1, <5>1
      <4>2. CASE e = Edge(n, k, "shared")
          BY <1>3, <1>4, <3>4, <4>2
      <4>3. CASE e = Edge(k, c, "move")
          BY <1>3, <1>4, <1>1, <3>2, <3>4, <4>3
      <4> QED
          BY <1>5, <4>1, <4>2, <4>3
    <3>5. a \in D
        BY <3>1
    <3> HIDE DEF D
    <3>6. Reach(h, a) \subseteq D
        BY <1>2, <2>1, <3>4, <3>5, ReachFacts
    <3> QED
        BY <3>6 DEF D
  <2> QED
      BY <1>4, <2>2, <2>3
<1>9. Sinks(h) \subseteq Sinks(g)
  <2> SUFFICES ASSUME NEW s \in Sinks(h) PROVE s \in Sinks(g)
      OBVIOUS
  <2>1. s \in Indices(h) /\ \A e \in EdgesOf(h) : e.from # s
      BY <1>2, SinksAndConsumers
  <2>2. s # n /\ s # k
      BY <1>3, <1>6, <2>1
  <2>3. \A e \in EdgesOf(g) : e.from # s
      BY <1>6, <2>1, <2>2
  <2> QED
      BY <1>2, <2>1, <2>2, <2>3, SinksAndConsumers
<1>10. ASSUME NEW m \in Indices(g) PROVE Consumers(h, m) \subseteq Consumers(g, m)
  <2> SUFFICES ASSUME NEW e \in EdgesOf(h), e.from = m, e.mode = "move"
               PROVE  e.to \in Consumers(g, m)
      BY <1>2, SinksAndConsumers
  <2>1. e \in EdgesOf(g)
      BY <1>3, <1>4, <1>5
  <2> QED
      BY <2>1, SinksAndConsumers
<1>11. ASSUME NEW m \in Indices(h) \ Indices(g), NEW b \in Consumers(h, m) PROVE b = c
  <2>1. m = k
      BY <1>2, <1>11
  <2>2. PICK e \in EdgesOf(h) : e.from = k /\ e.to = b /\ e.mode = "move"
      BY <1>2, <2>1, SinksAndConsumers
  <2>3. e \notin EdgesOf(g)
      BY <1>4, <2>2, ReachEdge
  <2> QED
      BY <1>3, <1>5, <2>2, <2>3
<1>12. Consumers(h, n) = Consumers(g, n) \ {c}
  <2>1. ASSUME NEW b, b \in Consumers(h, n) PROVE b \in Consumers(g, n) /\ b # c
    <3>1. PICK e \in EdgesOf(h) : e.from = n /\ e.to = b /\ e.mode = "move"
        BY <1>2, <2>1, SinksAndConsumers
    <3>2. e \in EdgesOf(g) /\ ~(e.from = n /\ e.to = c)
        BY <1>3, <1>4, <1>5, <3>1
    <3> QED
        BY <3>1, <3>2, SinksAndConsumers
  <2>2. ASSUME NEW b, b \in Consumers(g, n), b # c PROVE b \in Consumers(h, n)
    <3>1. PICK e \in EdgesOf(g) : e.from = n /\ e.to = b /\ e.mode = "move"
        BY <2>2, SinksAndConsumers
    <3>2. e \in EdgesOf(h)
        BY <1>6, <2>2, <3>1
    <3> QED
        BY <1>2, <3>1, <3>2, SinksAndConsumers
  <2> QED
      BY <2>1, <2>2
<1>13. Grounded(g) => Grounded(h)
  <2> SUFFICES ASSUME Grounded(g), NEW C, Sinks(h) \subseteq C,
                      \A e \in EdgesOf(h) : e.to \in C => e.from \in C
               PROVE  Indices(h) \subseteq C
      BY DEF Grounded
  <2>1. c \in C => k \in C /\ n \in C
      BY <1>3, <1>6
  <2>2. \A e \in EdgesOf(g) : e.to \in C => e.from \in C
      BY <1>6, <2>1
  <2>3. Sinks(g) \subseteq C
    <3> SUFFICES ASSUME NEW s \in Sinks(g) PROVE s \in C
        OBVIOUS
    <3>1. s \in Indices(g) /\ s # n /\ \A e \in EdgesOf(g) : e.from # s
        BY <1>1, SinksAndConsumers
    <3>2. s \in Indices(h) /\ \A e \in EdgesOf(h) : e.from # s
        BY <1>2, <1>3, <1>4, <1>5, <3>1
    <3> QED
        BY <1>2, <3>2, SinksAndConsumers
  <2>4. Indices(g) \subseteq C
      BY <2>2, <2>3 DEF Grounded
  <2> QED
      BY <1>1, <1>2, <2>1, <2>4
<1>14. h \in Clonings(g)
    BY <1>2, <1>7, <1>8, <1>9, <1>10, <1>11, <1>13 DEF Clonings
<1> QED
    BY <1>12, <1>14 DEF h

LEMMA CloningsFacts ==
    ASSUME NEW g \in Graphs
    PROVE  /\ g \in Clonings(g)
           /\ \A h \in Clonings(g) : Clonings(h) \subseteq Clonings(g)
           /\ \A h \in Clonings(g) : \A n \in Indices(g) : \A c \in Below(g, n) :
                 /\ c \in Indices(g) /\ WithClone(h, n, c) \in Clonings(g)
                 /\ Consumers(WithClone(h, n, c), n) = Consumers(h, n) \ {c}
<1>1. g \in Clonings(g)
    BY DEF Clonings, Larger
<1>2. ASSUME NEW h \in Clonings(g), NEW f \in Clonings(h) PROVE f \in Clonings(g)
  <2>1. h \in Graphs /\ h \in Larger(g) /\ f \in Larger(h)
      BY DEF Clonings, Larger
  <2>2. f \in Larger(g)
      BY <2>1, LargerFacts
  <2>3. DOMAIN g.nodes \subseteq DOMAIN h.nodes /\ Indices(g) \subseteq Indices(h)
      BY <2>1 DEF Larger
  <2>4. \A m \in DOMAIN g.nodes : f.nodes[m] = g.nodes[m]
      BY <2>3 DEF Clonings
  <2>5. \A a, b \in Indices(g) : b \in Reach(f, a) <=> b \in Reach(g, a)
      BY <2>3 DEF Clonings
  <2>6. Sinks(f) \subseteq Sinks(g) /\ \A m \in Indices(g) : Consumers(f, m) \subseteq Consumers(g, m)
      BY <2>3 DEF Clonings
  <2>7. ASSUME NEW m \in Indices(f) \ Indices(g), NEW b \in Consumers(f, m), NEW c \in Consumers(f, m)
        PROVE  b = c
    <3>1. CASE m \in Indices(h)
      <4>1. b \in Consumers(h, m) /\ c \in Consumers(h, m)
          BY <3>1 DEF Clonings
      <4> QED
          BY <3>1, <4>1 DEF Clonings
    <3>2. CASE m \notin Indices(h)
        BY <3>2 DEF Clonings
    <3> QED
        BY <3>1, <3>2
  <2>8. Grounded(g) => Grounded(f)
      BY DEF Clonings
  <2> QED
      BY <2>2, <2>4, <2>5, <2>6, <2>7, <2>8 DEF Clonings
<1>3. ASSUME NEW h \in Clonings(g), NEW n \in Indices(g), NEW c \in Below(g, n)
      PROVE  /\ c \in Indices(g) /\ WithClone(h, n, c) \in Clonings(g)
             /\ Consumers(WithClone(h, n, c), n) = Consumers(h, n) \ {c}
  <2>1. c \in Indices(g) /\ c \in Reach(g, n) /\ n \notin Sinks(g)
      BY ReachFacts DEF Below
  <2>2. h \in Graphs /\ n \in Indices(h) /\ c \in Below(h, n)
      BY <2>1 DEF Clonings, Larger, Below
  <2> QED
      BY <1>2, <2>1, <2>2, CloneReaches
<1> QED
    BY <1>1, <1>2, <1>3

\* The output of n is neither copied nor reborrowed when it is passed on.
Consumable(g, n) ==
    g.nodes[n].role \notin {"branch", "ref", "refmut"} /\ g.nodes[n].comp \notin app.copy
ExclusiveAt(g, n) ==
    Consumable(g, n) =>
        \A b, c \in Consumers(g, n) : b # c => Reach(g, b) \cap Reach(g, c) \cap Sinks(g) = {}
\* Two nodes that consume the same value never run in the same control flow.
Exclusive(g) == \A n \in Indices(g) : ExclusiveAt(g, n)

\* Clones take consumers away and give a new node one.
LEMMA ExclusiveKept ==
    ASSUME NEW g \in Graphs, NEW h \in Clonings(g)
    PROVE  /\ \A n \in Indices(g) : ExclusiveAt(g, n) => ExclusiveAt(h, n)
           /\ (\A n \in Indices(g) : ExclusiveAt(h, n)) => Exclusive(h)
<1>1. h \in Graphs /\ Indices(g) \subseteq Indices(h)
    BY OldIndices
<1>2. ASSUME NEW n \in Indices(g), ExclusiveAt(g, n) PROVE ExclusiveAt(h, n)
  <2> SUFFICES ASSUME Consumable(h, n), NEW b \in Consumers(h, n), NEW c \in Consumers(h, n), b # c,
                      NEW s \in Reach(h, b), s \in Reach(h, c), s \in Sinks(h)
               PROVE  FALSE
      BY DEF ExclusiveAt
  <2>1. b \in Consumers(g, n) /\ c \in Consumers(g, n) /\ s \in Sinks(g)
      BY DEF Clonings
  <2>2. b \in Indices(g) /\ c \in Indices(g) /\ s \in Indices(g)
      BY <2>1, SinksAndConsumers
  <2>3. s \in Reach(g, b) /\ s \in Reach(g, c)
      BY <2>2 DEF Clonings
  <2>4. h.nodes[n] = g.nodes[n]
      BY DEF Clonings, Indices
  <2> QED
      BY <1>2, <2>1, <2>3, <2>4 DEF ExclusiveAt, Consumable
<1>3. ASSUME NEW n \in Indices(h) \ Indices(g) PROVE ExclusiveAt(h, n)
    BY DEF Clonings, ExclusiveAt
<1> QED
    BY <1>2, <1>3 DEF Exclusive

LEMMA ExclusiveStays ==
    ASSUME NEW g \in Graphs, NEW h \in Clonings(g), Exclusive(g)
    PROVE  Exclusive(h)
BY ExclusiveKept DEF Exclusive

-----------------------------------------------------------------------------
(* multiple_consumers: of the nodes that compete for a value one at most   *)
(* is left.                                                                *)

\* A set of two is no smaller than two.
LEMMA AtMostOne ==
    ASSUME NEW S, IsFiniteSet(S), ~(Cardinality(S) > 1), NEW b \in S, NEW c \in S
    PROVE  b = c
<1> SUFFICES ASSUME b # c PROVE FALSE
    OBVIOUS
<1>1. IsFiniteSet({b, c}) /\ Cardinality({b, c}) = 2
  <2>1. IsFiniteSet({b}) /\ Cardinality({b}) = 1
      BY FS_Singleton
  <2>2. IsFiniteSet({b} \cup {c}) /\ Cardinality({b} \cup {c}) = Cardinality({b}) + 1
      BY <2>1, FS_AddElement
  <2>3. {b} \cup {c} = {b, c}
      OBVIOUS
  <2> QED
      BY <2>1, <2>2, <2>3
<1>2. Cardinality({b, c}) <= Cardinality(S) /\ Cardinality(S) \in Nat
    BY FS_Subset, FS_CardinalityType
<1> QED
    BY <1>1, <1>2

\* The competitors for the output of n that may run before the sink s.
Competing(g, n, s) == {c \in Consumers(g, n) : s \in Reach(g, c)}

LEMMA RivalsAre ==
    ASSUME NEW g \in Graphs, NEW n, NEW s
    PROVE  /\ IsFiniteSet(Competing(g, n, s)) /\ IsFiniteSet(Rivals(g, n, s))
           /\ Rivals(g, n, s) \subseteq Competing(g, n, s)
           /\ \A b, c \in Competing(g, n, s) : b # c => Rivals(g, n, s) = Competing(g, n, s)
<1>1. IsFiniteSet(Indices(g))
  <2>1. Len(g.nodes) \in Nat /\ Indices(g) \subseteq 1..Len(g.nodes)
      BY GraphFacts
  <2>2. \A k \in Nat : IsFiniteSet(1..k)
      BY FS_Interval
  <2> QED
      BY <2>1, <2>2, FS_Subset
<1>2. Competing(g, n, s) \subseteq Indices(g)
    BY SinksAndConsumers DEF Competing
<1>3. IsFiniteSet(Competing(g, n, s))
    BY <1>1, <1>2, FS_Subset
<1>4. Rivals(g, n, s) = IF Cardinality(Competing(g, n, s)) > 1 THEN Competing(g, n, s) ELSE {}
    BY DEF Rivals, Competing
<1>5. \A b, c \in Competing(g, n, s) : b # c => Cardinality(Competing(g, n, s)) > 1
    BY <1>3, AtMostOne
<1>6. IsFiniteSet({})
    BY FS_EmptySet
<1> QED
    BY <1>3, <1>4, <1>5, <1>6

\* All but one of the rivals before each sink get a clone.
LEMMA GetClonesLeave ==
    ASSUME NEW g \in Graphs, NEW n
    PROVE  LET cs == GetClones(g, n) IN
           /\ cs \in Seq(Consumers(g, n))
           /\ \A s \in Sinks(g) : \A b, c \in Competing(g, n, s) \ ToSet(cs) : b = c
<1> DEFINE sinks == Ascending(g, Sinks(g))
           A == [i \in 0..Len(sinks) |->
                   {cs \in Seq(Consumers(g, n)) :
                       \A j \in 1..i : \A b, c \in Rivals(g, n, sinks[j]) \ ToSet(cs) : b = c}]
<1>1. GetClones(g, n) = MoreFor!Folded(<<g, n>>, << >>, sinks)
    BY DEF GetClones, Accumulate, MoreFor!Folded, MoreClones
<1>2. Sinks(g) \subseteq Indices(g)
    BY DEF Sinks
<1>3. sinks \in Seq(Sinks(g)) /\ ToSet(sinks) = Sinks(g) /\ Len(sinks) \in Nat
  <2>1. sinks \in Seq(Sinks(g))
      BY <1>2, EdgeLists
  <2>2. ToSet(sinks) = Sinks(g)
      BY <1>2, AscendingAll
  <2> QED
      BY <2>1, <2>2
<1> HIDE DEF sinks
<1>4. << >> \in A[0]
    BY <1>3
<1>5. ASSUME NEW i \in 1..Len(sinks), NEW cs \in A[i - 1]
      PROVE  MoreClones(<<g, n>>, cs, sinks[i]) \in A[i]
  <2> DEFINE left == Rivals(g, n, sinks[i]) \ ToSet(cs)
             more == Front(Ascending(g, left))
             next == MoreClones(<<g, n>>, cs, sinks[i])
  <2>1. /\ i \in 0..Len(sinks) /\ i - 1 \in 0..Len(sinks) /\ cs \in Seq(Consumers(g, n))
        /\ \A j \in 1..(i - 1) : \A b, c \in Rivals(g, n, sinks[j]) \ ToSet(cs) : b = c
      BY <1>3
  <2>2. next = IF Cardinality(left) <= 1 THEN cs ELSE cs \o more
      BY DEF MoreClones
  <2>3. left \subseteq Consumers(g, n) /\ left \subseteq Indices(g) /\ IsFiniteSet(left) /\ Cardinality(left) \in Nat
    <3>1. left \subseteq Rivals(g, n, sinks[i]) /\ IsFiniteSet(Rivals(g, n, sinks[i]))
        BY RivalsAre
    <3>2. left \subseteq Competing(g, n, sinks[i])
        BY <3>1, RivalsAre
    <3>3. IsFiniteSet(left) /\ Cardinality(left) \in Nat
        BY <3>1, FS_Subset, FS_CardinalityType
    <3> QED
        BY <3>2, <3>3, SinksAndConsumers DEF Competing
  <2> HIDE DEF left, next
  <2>4. more \in Seq(Consumers(g, n)) /\ \A b, c \in left \ ToSet(more) : b = c
    <3> DEFINE s == Ascending(g, left)
    <3>1. s \in Seq(left) /\ ToSet(s) = left
        BY <2>3, EdgeLists, AscendingAll
    <3> HIDE DEF s
    <3>2. Front(s) \in Seq(left)
        BY <3>1, SeqFacts
    <3>3. Front(s) \in Seq(Consumers(g, n))
        BY <2>3, <3>2
    <3>4. \A i1 \in DOMAIN s : i1 # Len(s) => s[i1] \in ToSet(Front(s))
      <4>1. /\ Front(s) = [j \in 1..(Len(s) - 1) |-> s[j]]
            /\ Len(s) \in Nat /\ DOMAIN s = 1..Len(s)
          BY <3>1 DEF Front
      <4> QED
          BY <4>1 DEF ToSet
    <3>5. \A b \in left \ ToSet(Front(s)) : b = s[Len(s)]
        BY <3>1, <3>4 DEF ToSet
    <3> QED
        BY <3>3, <3>5 DEF s
  <2> HIDE DEF more
  <2>5. next \in Seq(Consumers(g, n)) /\ ToSet(cs) \subseteq ToSet(next)
    <3>1. cs \o more \in Seq(Consumers(g, n)) /\ ToSet(cs \o more) = ToSet(cs) \cup ToSet(more)
        BY <2>1, <2>4, ConcatFacts, ConcatSet
    <3> QED
        BY <2>1, <2>2, <3>1
  <2>6. \A b, c \in Rivals(g, n, sinks[i]) \ ToSet(next) : b = c
    <3>1. CASE Cardinality(left) <= 1
      <4>1. \A b, c \in left : b = c
        <5>1. ~(Cardinality(left) > 1)
            BY <2>3, <3>1
        <5> QED
            BY <2>3, <5>1, AtMostOne
      <4>2. next = cs
          BY <2>2, <3>1
      <4> QED
          BY <4>1, <4>2 DEF left
    <3>2. CASE ~(Cardinality(left) <= 1)
      <4>1. ToSet(next) = ToSet(cs) \cup ToSet(more)
          BY <2>1, <2>2, <2>4, <3>2, ConcatSet
      <4>2. Rivals(g, n, sinks[i]) \ ToSet(next) = left \ ToSet(more)
          BY <4>1 DEF left
      <4> QED
          BY <2>4, <4>2
    <3> QED
        BY <3>1, <3>2
  <2>7. ASSUME NEW j \in 1..i PROVE \A b, c \in Rivals(g, n, sinks[j]) \ ToSet(next) : b = c
    <3>1. CASE j = i
        BY <2>6, <3>1
    <3>2. CASE j # i
      <4>1. j \in 1..(i - 1)
          BY <3>2
      <4> QED
          BY <2>1, <2>5, <4>1
    <3> QED
        BY <3>1, <3>2
  <2>8. next \in A[i]
      BY <2>1, <2>5, <2>7
  <2> QED
      BY <2>8 DEF next
<1>6. A[Len(sinks)] = {cs \in Seq(Consumers(g, n)) :
                          \A j \in 1..Len(sinks) : \A b, c \in Rivals(g, n, sinks[j]) \ ToSet(cs) : b = c}
    BY <1>3
<1> HIDE DEF A
<1>7. GetClones(g, n) \in A[Len(sinks)]
    BY <1>1, <1>3, <1>4, <1>5, MoreFor!FoldRuns
<1>8. ASSUME NEW s \in Sinks(g), NEW b \in Competing(g, n, s) \ ToSet(GetClones(g, n)),
             NEW c \in Competing(g, n, s) \ ToSet(GetClones(g, n)), b # c
      PROVE  FALSE
  <2>1. PICK j \in 1..Len(sinks) : sinks[j] = s
      BY <1>3 DEF ToSet
  <2>2. Rivals(g, n, s) = Competing(g, n, s)
      BY <1>8, RivalsAre
  <2> QED
      BY <1>6, <1>7, <1>8, <2>1, <2>2
<1> QED
    BY <1>6, <1>7, <1>8

\* After the clones for n nothing competes for its output.
LEMMA ClonedExclusive ==
    ASSUME NEW g \in Graphs, NEW n \in Indices(g)
    PROVE  LET h == Cloned!Folded(n, g, GetClones(g, n))
           IN h \in Clonings(g) /\ ExclusiveAt(h, n)
<1> DEFINE cs == GetClones(g, n)
           A == [i \in 0..Len(cs) |->
                   {h \in Clonings(g) : \A j \in 1..i : cs[j] \notin Consumers(h, n)}]
           f == Cloned!Folded(n, g, cs)
<1>1. /\ cs \in Seq(Consumers(g, n))
      /\ \A s \in Sinks(g) : \A b, c \in Competing(g, n, s) \ ToSet(cs) : b = c
    BY GetClonesLeave
<1> HIDE DEF cs
<1>2. g \in A[0]
    BY <1>1, CloningsFacts
<1>3. ASSUME NEW i \in 1..Len(cs), NEW h \in A[i - 1] PROVE CloneFor(n, h, cs[i]) \in A[i]
  <2>1. /\ h \in Clonings(g) /\ i \in 0..Len(cs) /\ i - 1 \in 0..Len(cs) /\ cs[i] \in Consumers(g, n)
        /\ \A j \in 1..(i - 1) : cs[j] \notin Consumers(h, n)
      BY <1>1
  <2>2. cs[i] \in Below(g, n)
      BY <2>1, SinksAndConsumers, BelowEdge
  <2>3. /\ WithClone(h, n, cs[i]) \in Clonings(g)
        /\ Consumers(WithClone(h, n, cs[i]), n) = Consumers(h, n) \ {cs[i]}
      BY <2>1, <2>2, CloningsFacts
  <2>4. \A j \in 1..i : cs[j] \notin Consumers(WithClone(h, n, cs[i]), n)
      BY <2>1, <2>3
  <2> QED
      BY <2>1, <2>3, <2>4 DEF CloneFor
<1>4. A[Len(cs)] = {h \in Clonings(g) : \A j \in 1..Len(cs) : cs[j] \notin Consumers(h, n)}
    BY <1>1
<1> HIDE DEF A
<1>5. f \in A[Len(cs)]
    BY <1>1, <1>2, <1>3, Cloned!FoldRuns
<1> HIDE DEF f
<1>6. f \in Clonings(g) /\ Consumers(f, n) \subseteq Consumers(g, n) \ ToSet(cs)
    BY <1>1, <1>4, <1>5 DEF Clonings, ToSet
<1>7. ExclusiveAt(f, n)
  <2> SUFFICES ASSUME NEW b \in Consumers(f, n), NEW c \in Consumers(f, n), b # c,
                      NEW s \in Reach(f, b), s \in Reach(f, c), s \in Sinks(f)
               PROVE  FALSE
      BY DEF ExclusiveAt
  <2>1. s \in Sinks(g) /\ s \in Indices(g) /\ b \in Consumers(g, n) /\ c \in Consumers(g, n)
      BY <1>6, SinksAndConsumers DEF Clonings
  <2>2. b \in Indices(g) /\ c \in Indices(g)
      BY <2>1, SinksAndConsumers
  <2>3. s \in Reach(g, b) /\ s \in Reach(g, c)
      BY <1>6, <2>1, <2>2 DEF Clonings
  <2>4. b \in Competing(g, n, s) \ ToSet(cs) /\ c \in Competing(g, n, s) \ ToSet(cs)
      BY <1>6, <2>1, <2>3 DEF Competing
  <2> QED
      BY <1>1, <2>1, <2>4
<1> QED
    BY <1>6, <1>7 DEF f, cs

\* Where there is no rival there is nothing to clone.
LEMMA NoRivals ==
    ASSUME NEW g \in Graphs, NEW n, UNION {Rivals(g, n, s) : s \in Sinks(g)} = {}
    PROVE  ExclusiveAt(g, n)
<1> SUFFICES ASSUME NEW b \in Consumers(g, n), NEW c \in Consumers(g, n), b # c,
                    NEW s \in Reach(g, b), s \in Reach(g, c), s \in Sinks(g)
             PROVE  FALSE
    BY DEF ExclusiveAt
<1>1. b \in Competing(g, n, s) /\ c \in Competing(g, n, s)
    BY DEF Competing
<1>2. Rivals(g, n, s) = Competing(g, n, s)
    BY <1>1, RivalsAre
<1> QED
    BY <1>1, <1>2

LEMMA ConsumedExclusive ==
    ASSUME GraphInv
    PROVE  LET r == Consumed!Folded(0, [g |-> graph, errors |-> errors], Ascending(graph, Indices(graph)))
           IN r.g \in Clonings(graph) /\ (r.errors = {} => Exclusive(r.g))
<1> DEFINE s == Ascending(graph, Indices(graph))
           base == [g |-> graph, errors |-> errors]
           T == [g : Clonings(graph), errors : Reports]
           A == [i \in 0..Len(s) |->
                   {a \in T : a.errors = {} => \A j \in 1..i : ExclusiveAt(a.g, s[j])}]
           r == Consumed!Folded(0, base, s)
<1>1. graph \in Graphs /\ graph.nodes = nodes /\ errors \in Reports
    BY WalkFacts
<1>2. s \in Seq(Indices(graph)) /\ ToSet(s) = Indices(graph) /\ Len(s) \in Nat
  <2>1. s \in Seq(Indices(graph)) /\ ToSet(s) = Indices(graph)
      BY <1>1, EdgeLists, AscendingAll
  <2> QED
      BY <2>1
<1> HIDE DEF s
<1>3. base \in A[0]
  <2>1. base \in T
      BY <1>1, CloningsFacts
  <2> HIDE DEF T, base
  <2> QED
      BY <1>2, <2>1
<1>4. ASSUME NEW i \in 1..Len(s), NEW a \in A[i - 1] PROVE CheckNode(0, a, s[i]) \in A[i]
  <2> DEFINE n == s[i]
             rivals == UNION {Rivals(a.g, n, x) : x \in Sinks(a.g)}
             h == Cloned!Folded(n, a.g, GetClones(a.g, n))
             next == CheckConsumers(a, n)
  <2> SUFFICES next \in A[i]
      BY DEF CheckNode
  <2>1. /\ a \in T /\ a.errors = {} => \A j \in 1..(i - 1) : ExclusiveAt(a.g, s[j])
        /\ i \in 0..Len(s) /\ i - 1 \in 0..Len(s)
        /\ n \in Indices(graph)
      BY <1>2
  <2>2. /\ a.g \in Clonings(graph) /\ a.errors \in Reports
        /\ a.g \in Graphs /\ n \in Indices(a.g) /\ a.g.nodes[n] = nodes[n]
      BY <1>1, <2>1 DEF Clonings, Larger, Indices
  <2>3. h = Accumulate(LAMBDA x, c : WithClone(x, n, c), a.g, GetClones(a.g, n))
      BY DEF Accumulate, Cloned!Folded, CloneFor
  <2>4. \/ next = a /\ (rivals = {} \/ IsCopy(n) \/ nodes[n].role = "refmut")
        \/ next = [a EXCEPT !.g = h]
        \/ next = [a EXCEPT !.errors = @ \cup {<<n, c>> : c \in rivals}] /\ rivals # {}
      BY <2>3 DEF CheckConsumers
  <2>5. h \in Clonings(a.g) /\ ExclusiveAt(h, n)
      BY <2>2, ClonedExclusive
  <2>6. rivals \subseteq Nat /\ n \in Nat
      BY <2>2, RivalsFacts, GraphFacts
  <2> HIDE DEF h, rivals, next
  <2>7. ASSUME NEW j \in 1..i, j # i PROVE j \in 1..(i - 1) /\ s[j] \in Indices(graph)
      BY <1>2, <2>7
  <2>8. CASE next = a /\ (rivals = {} \/ IsCopy(n) \/ nodes[n].role = "refmut")
    <3>1. ExclusiveAt(a.g, n)
      <4>1. CASE rivals = {}
          BY <2>2, <4>1, NoRivals DEF rivals
      <4>2. CASE IsCopy(n) \/ nodes[n].role = "refmut"
          BY <2>2, <4>2 DEF ExclusiveAt, Consumable, IsCopy
      <4> QED
          BY <2>8, <4>1, <4>2
    <3>2. a.errors = {} => \A j \in 1..i : ExclusiveAt(a.g, s[j])
        BY <2>1, <2>7, <3>1
    <3> HIDE DEF T, n
    <3> QED
        BY <2>1, <2>8, <3>2
  <2>9. CASE next = [a EXCEPT !.g = h]
    <3>1. h \in Clonings(graph)
        BY <1>1, <2>2, <2>5, CloningsFacts
    <3>2. \A m \in Indices(graph) : ExclusiveAt(a.g, m) => ExclusiveAt(h, m)
        BY <2>2, <2>5, ExclusiveKept DEF Clonings, Larger
    <3>3. a.errors = {} => \A j \in 1..i : ExclusiveAt(h, s[j])
        BY <2>1, <2>5, <2>7, <3>2
    <3>4. next \in T /\ next.g = h /\ next.errors = a.errors
        BY <2>1, <2>9, <3>1
    <3> HIDE DEF T, n
    <3> QED
        BY <2>1, <3>3, <3>4
  <2>10. CASE next = [a EXCEPT !.errors = @ \cup {<<n, c>> : c \in rivals}] /\ rivals # {}
    <3>1. {<<n, c>> : c \in rivals} \in Reports /\ {<<n, c>> : c \in rivals} # {}
      <4>1. \A c \in rivals : <<n, c>> \in Nat \X Nat
          BY <2>6
      <4>2. {<<n, c>> : c \in rivals} \subseteq Nat \X Nat
          BY <4>1
      <4> QED
          BY <2>10, <4>2 DEF Reports
    <3>2. next \in T /\ next.errors # {}
        BY <2>1, <2>10, <3>1 DEF Reports
    <3> HIDE DEF T, n
    <3> QED
        BY <2>1, <3>2
  <2> HIDE DEF A, T, n
  <2> QED
      BY <2>4, <2>8, <2>9, <2>10
<1>5. A[Len(s)] = {a \in T : a.errors = {} => \A j \in 1..Len(s) : ExclusiveAt(a.g, s[j])}
    BY <1>2
<1> HIDE DEF A, base
<1>6. r \in A[Len(s)]
    BY <1>2, <1>3, <1>4, Consumed!FoldRuns
<1>7. r.g \in Clonings(graph)
    BY <1>5, <1>6
<1>8. r.errors = {} => \A n \in Indices(graph) : ExclusiveAt(r.g, n)
  <2> HIDE DEF T, r
  <2> SUFFICES ASSUME r.errors = {}, NEW n \in Indices(graph) PROVE ExclusiveAt(r.g, n)
      OBVIOUS
  <2>1. PICK j \in 1..Len(s) : s[j] = n
      BY <1>2 DEF ToSet
  <2> QED
      BY <1>5, <1>6, <2>1
<1>9. r.errors = {} => Exclusive(r.g)
  <2> HIDE DEF r
  <2> QED
      BY <1>1, <1>7, <1>8, ExclusiveKept
<1> QED
    BY <1>7, <1>9 DEF r, base, s

LEMMA MovedClonings ==
    ASSUME GraphInv, NEW n
    PROVE  LET r == Moved!Folded(0, [g |-> graph, errors |-> errors], Incoming(graph, n))
           IN r.g \in Clonings(graph) /\ errors \subseteq r.errors
<1> DEFINE base == [g |-> graph, errors |-> errors]
           R == {r \in Reports : errors \subseteq r}
           A == [g : Clonings(graph), errors : R]
<1>1. graph \in Graphs /\ errors \in Reports
    BY WalkFacts
<1>2. Incoming(graph, n) \in Seq(Into(graph, n))
    BY <1>1, EdgeLists
<1>3. base \in A
    BY <1>1, CloningsFacts
<1>4. ASSUME NEW a \in A, NEW e \in Into(graph, n) PROVE CheckEdge(0, a, e) \in A
  <2>1. e \in EdgesOf(graph) /\ a.g \in Clonings(graph) /\ a.errors \in R
      BY DEF Into
  <2>2. e.from \in Indices(graph) /\ e.to \in Below(graph, e.from)
      BY <1>1, <2>1, BelowEdge
  <2>3. WithClone(a.g, e.from, e.to) \in Clonings(graph)
      BY <1>1, <2>1, <2>2, CloningsFacts
  <2>4. e.from \in Nat /\ e.to \in Nat
      BY <1>1, <2>1, ReachEdge, GraphFacts
  <2>5. a.errors \cup {<<e.from, e.to>>} \in R
      BY <2>1, <2>4 DEF Reports
  <2>6. CheckMove(a, e) \in {a, [a EXCEPT !.g = WithClone(a.g, e.from, e.to)],
                             [a EXCEPT !.errors = a.errors \cup {<<e.from, e.to>>}]}
      BY DEF CheckMove
  <2> HIDE DEF R
  <2>7. [a EXCEPT !.g = WithClone(a.g, e.from, e.to)] \in A
      BY <2>3
  <2>8. [a EXCEPT !.errors = a.errors \cup {<<e.from, e.to>>}] \in A
      BY <2>5
  <2> QED
      BY <2>6, <2>7, <2>8 DEF CheckEdge
<1> HIDE DEF A, base
<1>5. Moved!Folded(0, base, Incoming(graph, n)) \in A
    BY <1>2, <1>3, <1>4, Moved!FoldStays
<1> QED
    BY <1>5 DEF A, base

-----------------------------------------------------------------------------
(* The invariant: everything leads to a sink; while no error is reported the *)
(* values are consumed by one node per control flow; and an order is only    *)
(* looked for without errors.                                                *)

Settled == {"accepted", "order", "done", "stuck"}
Compared == Walking \cup Settled

ExclusiveInv ==
    /\ phase \in {"multiple"} \cup Compared => Grounded(graph)
    /\ phase \in Compared /\ errors = {} => Exclusive(graph)
    /\ phase \in Settled => errors = {}

\* A step that clones, reports, or neither.
LEMMA ExclusiveStep ==
    ASSUME GraphInv, ExclusiveInv, phase \in Compared, UNCHANGED app,
           NEW h \in Clonings(graph), SetGraph(h), errors \subseteq errors',
           phase' \in Settled => errors' = {}
    PROVE  ExclusiveInv'
<1>1. graph \in Graphs /\ h \in Graphs
    BY WalkFacts, OldIndices
<1>2. graph' = h
    BY <1>1, NextGraph
<1>3. errors' = {} => Exclusive(h)
    BY <1>1, ExclusiveStays DEF ExclusiveInv
<1>4. Exclusive(h) => Exclusive(graph)'
    BY <1>2 DEF Exclusive, ExclusiveAt, Consumable
<1>5. Grounded(h) /\ (Grounded(h) => Grounded(graph)')
    BY <1>2 DEF Clonings, ExclusiveInv, Grounded
<1> QED
    BY <1>3, <1>4, <1>5 DEF ExclusiveInv

LEMMA SameExclusive ==
    ASSUME GraphInv, ExclusiveInv, phase \in Compared, UNCHANGED graphVars,
           errors \subseteq errors', phase' \in Settled => errors' = {}
    PROVE  ExclusiveInv'
<1>1. graph \in Graphs
    BY WalkFacts
<1>2. SetGraph(graph) /\ graph \in Clonings(graph) /\ UNCHANGED app
    BY <1>1, SameGraph, CloningsFacts
<1> QED
    BY <1>2, ExclusiveStep

\* An order is looked for only when nothing was reported.
LEMMA FixpointSettles ==
    ASSUME NEW s, NEW t, NEW u, Fixpoint(s, t, u), phase = "complex", UNCHANGED errors
    PROVE  phase' \in Settled => errors' = {}
BY DEF Fixpoint, Settled

LEMMA CheckExclusive ==
    ASSUME GraphInv, ExclusiveInv, Check
    PROVE  ExclusiveInv'
<1>1. CASE MultipleConsumers
  <2> DEFINE r == Consumed!Folded(0, [g |-> graph, errors |-> errors], Ascending(graph, Indices(graph)))
  <2>1. SetGraph(r.g) /\ errors' = r.errors /\ phase' = "captures" /\ UNCHANGED app
      BY <1>1 DEF MultipleConsumers, Accumulate, Consumed!Folded, CheckNode
  <2>2. r.g \in Clonings(graph) /\ (r.errors = {} => Exclusive(r.g))
      BY ConsumedExclusive
  <2>3. r.g \in Graphs /\ Grounded(graph)
      BY <1>1, <2>2, OldIndices, WalkFacts DEF ExclusiveInv, MultipleConsumers
  <2> HIDE DEF r
  <2>4. graph' = r.g
      BY <2>1, <2>3, NextGraph
  <2>5. Exclusive(r.g) => Exclusive(graph)'
      BY <2>1, <2>4 DEF Exclusive, ExclusiveAt, Consumable
  <2>6. Grounded(graph)'
      BY <2>2, <2>3, <2>4 DEF Clonings, Grounded
  <2> QED
      BY <2>1, <2>2, <2>5, <2>6 DEF ExclusiveInv, Settled
<1>2. CASE Capture \/ StartMoves \/ Discover \/ StartComplex
  <2>1. UNCHANGED <<graphVars, errors>> /\ phase \in Compared /\ phase' \notin Settled
      BY <1>2 DEF Capture, StartMoves, Discover, StartComplex, Compared, Walking, Settled
  <2> QED
      BY <2>1, SameExclusive
<1>3. CASE Leave
  <2> DEFINE r == Moved!Folded(0, [g |-> graph, errors |-> errors], Incoming(graph, Last(todo)))
  <2>1. /\ phase \in Compared /\ phase' \notin Settled
        /\ \/ UNCHANGED <<graphVars, errors>>
           \/ SetGraph(r.g) /\ errors' = r.errors /\ UNCHANGED app
      BY <1>3 DEF Leave, Accumulate, Moved!Folded, CheckEdge, Compared, Walking, Settled
  <2>2. r.g \in Clonings(graph) /\ errors \subseteq r.errors
      BY MovedClonings
  <2> HIDE DEF r
  <2> QED
      BY <2>1, <2>2, SameExclusive, ExclusiveStep
<1>4. ASSUME NEW n \in DOMAIN nodes, Finish(n) \/ Park(n) \/ Report(n) PROVE ExclusiveInv'
  <2>1. UNCHANGED graphVars /\ errors \subseteq errors' /\ phase \in Compared /\ phase' \notin Settled
      BY <1>4 DEF Finish, Park, Report, Complex, Compared, Walking, Settled
  <2> QED
      BY <2>1, SameExclusive
<1>5. ASSUME NEW n \in DOMAIN nodes, Clone(n) PROVE ExclusiveInv'
  <2> DEFINE candidates == Those(Froms(Incoming(graph, n)), {a \in BlockedOn(n, finished) : Clonable(a)})
             h == IF candidates = << >> THEN graph ELSE WithClone(graph, candidates[1], n)
  <2>1. SetGraph(h) /\ UNCHANGED <<app, errors>> /\ phase = "complex" /\ phase \in Compared
      BY <1>5 DEF Clone, Complex, Compared, Walking
  <2>2. phase' \in Settled => errors' = {}
    <3>1. phase' = phase \/ \E s, t, u : Fixpoint(s, t, u)
        BY <1>5 DEF Clone
    <3> QED
        BY <2>1, <3>1, FixpointSettles DEF Settled
  <2>3. graph \in Graphs
      BY WalkFacts
  <2>4. candidates # << >> => candidates[1] \in Indices(graph) /\ n \in Below(graph, candidates[1])
    <3>1. candidates \in Seq(Nat \cap BlockedOn(n, finished))
      <4>1. Froms(Incoming(graph, n)) \in Seq(Nat)
        <5>1. Froms(Incoming(graph, n)) \in Seq(Indices(graph)) /\ Indices(graph) \subseteq Nat
            BY <2>3, EdgeLists, GraphFacts
        <5> QED
            BY <5>1
      <4> DEFINE S == {a \in BlockedOn(n, finished) : Clonable(a)}
      <4>2. S \subseteq BlockedOn(n, finished)
          OBVIOUS
      <4> HIDE DEF S
      <4>3. Those(Froms(Incoming(graph, n)), S) \in Seq(Nat \cap S)
          BY <4>1, ThoseFacts
      <4>4. Those(Froms(Incoming(graph, n)), S) \in Seq(Nat \cap BlockedOn(n, finished))
          BY <4>2, <4>3
      <4> QED
          BY <4>4 DEF S
    <3> HIDE DEF candidates
    <3>2. candidates # << >> => candidates[1] \in BlockedOn(n, finished)
        BY <3>1
    <3>3. \A a \in BlockedOn(n, finished) : \E e \in EdgesOf(graph) : e.from = a /\ e.to = n
        BY DEF BlockedOn, Into
    <3> QED
        BY <2>3, <3>2, <3>3, BelowEdge
  <2> HIDE DEF candidates
  <2>5. h \in Clonings(graph)
      BY <2>3, <2>4, CloningsFacts
  <2> HIDE DEF h
  <2> QED
      BY <2>1, <2>2, <2>5, ExclusiveStep
<1>6. CASE EndOfRound
  <2>1. /\ UNCHANGED <<graphVars, errors>> /\ phase = "complex" /\ phase \in Compared
        /\ Fixpoint(<< >>, parked, unblocked)
      BY <1>6 DEF EndOfRound, Compared, Walking
  <2>2. phase' \in Settled => errors' = {}
      BY <2>1, FixpointSettles
  <2> QED
      BY <2>1, <2>2, SameExclusive
<1> QED
    BY <1>1, <1>2, <1>3, <1>4, <1>5, <1>6 DEF Check

-----------------------------------------------------------------------------
(* assign_order: what leads to a sink is placed in the end. *)

LEMMA StackFacts ==
    ASSUME NEW T, NEW s \in Seq(T)
    PROVE  /\ s # << >> => ToSet(s) = ToSet(Front(s)) \cup {Last(s)}
           /\ \A x \in T : ToSet(Insert(s, x)) = ToSet(s) \cup {x}
<1>1. ASSUME s # << >> PROVE ToSet(s) = ToSet(Front(s)) \cup {Last(s)}
  <2>1. /\ Front(s) = [j \in 1..(Len(s) - 1) |-> s[j]] /\ Last(s) = s[Len(s)]
        /\ Len(s) \in Nat \ {0} /\ DOMAIN s = 1..Len(s)
      BY <1>1 DEF Front, Last
  <2>2. DOMAIN s = 1..(Len(s) - 1) \cup {Len(s)}
      BY <2>1
  <2> QED
      BY <2>1, <2>2 DEF ToSet
<1>2. ASSUME NEW x \in T PROVE ToSet(Insert(s, x)) = ToSet(s) \cup {x}
  <2>1. /\ DOMAIN Append(s, x) = DOMAIN s \cup {Len(s) + 1}
        /\ Append(s, x)[Len(s) + 1] = x
        /\ \A j \in DOMAIN s : Append(s, x)[j] = s[j]
      OBVIOUS
  <2>2. ToSet(Append(s, x)) = ToSet(s) \cup {x}
      BY <2>1 DEF ToSet
  <2> QED
      BY <2>2 DEF Insert, Contains, ToSet
<1> QED
    BY <1>1, <1>2

\* No sink is lost sight of, nor is a node whose dependencies were looked at.
SinksInv ==
    /\ phase \notin Ordering => discovered = {}
    /\ phase \in {"order", "done"} =>
          /\ Sinks(graph) \subseteq ToSet(stack) \cup discovered \cup Placed
          /\ discovered \subseteq ToSet(stack) \cup ToSet(blocked) \cup Placed
    /\ phase = "done" => stack = << >> /\ blocked = << >>

LEMMA SinksInvInit == OInit => SinksInv
BY DEF OInit, Init, InitOrder, SinksInv, Ordering

LEMMA SinksInvNext == GraphInv /\ SinksInv /\ [Next]_vars => SinksInv'
<1> SUFFICES ASSUME GraphInv, SinksInv, [Next]_vars PROVE SinksInv'
    OBVIOUS
<1>1. CASE (Build \/ Check) /\ UNCHANGED orderVars
  <2>1. phase \notin Ordering /\ phase' \notin Ordering
    <3>1. CASE Build
        BY <3>1 DEF Build, CheckAcyclic, VisitNode, Expand, Rewrite, Ordering
    <3>2. CASE Check
        BY <3>2 DEF Check, MultipleConsumers, Capture, StartMoves, Discover, Leave, StartComplex,
                    Finish, Park, Clone, Report, EndOfRound, Complex, Fixpoint, Ordering
    <3> QED
        BY <1>1, <3>1, <3>2
  <2> QED
      BY <1>1, <2>1 DEF SinksInv, orderVars, Ordering
<1>2. CASE Order
  <2>1. UNCHANGED graphVars /\ Sinks(graph)' = Sinks(graph)
      BY <1>2 DEF Order, StartOrder, Skip, DiscoverNode, Place, ParkNode, NextRound, Top,
                  graphVars, graph, Sinks, Indices
  <2>2. stack \in Seq(Indices(graph)) /\ blocked \in Seq(Indices(graph))
      BY DEF GraphInv
  <2>3. stack # << >> => ToSet(stack) = ToSet(Front(stack)) \cup {Last(stack)}
      BY <2>2, StackFacts
  <2>4. ToSet(<< >>) = {}
      BY DEF ToSet
  <2>5. CASE StartOrder
    <3>1. graph \in Graphs /\ Sinks(graph) \subseteq Indices(graph)
        BY DEF GraphInv, Sinks
    <3>2. ToSet(stack') = Sinks(graph)
        BY <2>5, <3>1, AscendingAll DEF StartOrder
    <3> QED
        BY <2>1, <2>5, <3>2 DEF StartOrder, SinksInv, Ordering
  <2>6. ASSUME NEW n \in DOMAIN nodes, Skip(n) PROVE SinksInv'
      BY <2>1, <2>3, <2>6 DEF Skip, Top, SinksInv, Ordering, Placed
  <2>7. ASSUME NEW n \in DOMAIN nodes, DiscoverNode(n) PROVE SinksInv'
    <3>1. n \in ToSet(stack) /\ ToSet(stack) \subseteq ToSet(stack')
      <4> DEFINE more == Those(Froms(Incoming(graph, n)), DOMAIN nodes \ Placed)
      <4>1. more \in Seq(Indices(graph))
          BY NeighboursFacts DEF GraphInv
      <4> HIDE DEF more
      <4>2. ToSet(stack \o more) = ToSet(stack) \cup ToSet(more)
          BY <2>2, <4>1, ConcatSet
      <4> QED
          BY <2>3, <2>7, <4>2 DEF DiscoverNode, Top, more
    <3> QED
        BY <2>1, <2>7, <3>1 DEF DiscoverNode, Top, SinksInv, Ordering, Placed
  <2>8. ASSUME NEW n \in DOMAIN nodes, Place(n) PROVE SinksInv'
    <3>1. Placed' = Placed \cup {n}
        BY <2>8 DEF Place, Placed
    <3> QED
        BY <2>1, <2>3, <2>8, <3>1 DEF Place, Top, SinksInv, Ordering
  <2>9. ASSUME NEW n \in DOMAIN nodes, ParkNode(n) PROVE SinksInv'
    <3>1. n \in Indices(graph)
        BY <2>2, <2>9, SeqFacts DEF ParkNode, Top
    <3>2. ToSet(blocked') = ToSet(blocked) \cup {n}
        BY <2>2, <2>9, <3>1, StackFacts DEF ParkNode
    <3> QED
        BY <2>1, <2>3, <2>9, <3>2 DEF ParkNode, Top, SinksInv, Ordering, Placed
  <2>10. CASE NextRound
      BY <2>1, <2>4, <2>10 DEF NextRound, SinksInv, Ordering, Placed
  <2> QED
      BY <1>2, <2>5, <2>6, <2>7, <2>8, <2>9, <2>10 DEF Order
<1>3. CASE UNCHANGED vars
    BY <1>3 DEF vars, graphVars, orderVars, SinksInv, Ordering, Placed, graph, Sinks, Indices
<1> QED
    BY <1>1, <1>2, <1>3 DEF Next

LEMMA AllArePlaced ==
    ASSUME GraphInv, OrderInv, ExclusiveInv, SinksInv, phase = "done"
    PROVE  Placed = Indices(graph)
<1>1. Sinks(graph) \subseteq Placed
  <2>1. ToSet(<< >>) = {}
      BY DEF ToSet
  <2> QED
      BY <2>1 DEF SinksInv
<1>2. \A e \in EdgesOf(graph) : e.to \in Placed => e.from \in Placed
    BY DEF OrderInv, PlacedInOrder
<1>3. Indices(graph) \subseteq Placed
    BY <1>1, <1>2 DEF ExclusiveInv, Compared, Settled, Grounded
<1> QED
    BY <1>3 DEF GraphInv

\* Once the order is complete, a value is used before the node that consumes it
\* in the same control flow.
LEMMA UsedBefore ==
    ASSUME GraphInv, OrderInv, ExclusiveInv, SinksInv, phase = "done",
           NEW m \in MovesOut, NEW u \in Uses, u.from = m.from, u # m, SameFlow(u.to, m.to)
    PROVE  u.to \in Placed /\ m.to \in Placed /\ position[u.to] < position[m.to]
<1>1. /\ graph \in Graphs /\ m \in EdgesOf(graph) /\ u \in EdgesOf(graph)
      /\ m.mode = "move" /\ ~IsCopy(m.from) /\ nodes[m.from].role # "refmut" /\ u.mode # "before"
    BY DEF GraphInv, MovesOut, Uses
<1>2. /\ m.from \in Indices(graph) /\ m.to \in Indices(graph) /\ u.to \in Indices(graph)
    BY <1>1, ReachEdge
<1>3. m.to \in Placed /\ u.to \in Placed
    BY <1>2, AllArePlaced
<1>4. \A e \in EdgesOf(graph) : e = [from |-> e.from, to |-> e.to, mode |-> e.mode] /\ e.mode \in Borrows \cup {"move", "before"}
  <2>1. EdgesOf(graph) \subseteq EdgesBetween(Indices(graph))
      BY <1>1, GraphFacts
  <2> QED
      BY <2>1 DEF EdgesBetween
<1>5. CASE u.mode \in Borrows
    BY <1>1, <1>3, <1>5 DEF OrderInv, PlacedInOrder
<1>6. CASE u.mode \notin Borrows
  <2>1. u.mode = "move"
      BY <1>1, <1>4, <1>6
  <2>2. u.to # m.to
      BY <1>1, <1>4, <2>1
  <2>3. m.to \in Consumers(graph, m.from) /\ u.to \in Consumers(graph, m.from)
      BY <1>1, <2>1, SinksAndConsumers
  <2>4. graph.nodes = nodes
      BY DEF graph
  <2>5. Consumable(graph, m.from)
      BY <1>1, <2>4 DEF Consumable, IsCopy
  <2>6. Exclusive(graph)
      BY DEF ExclusiveInv, Compared, Settled
  <2> QED
      BY <1>2, <2>2, <2>3, <2>5, <2>6 DEF Exclusive, ExclusiveAt, SameFlow
<1> QED
    BY <1>3, <1>5, <1>6

-----------------------------------------------------------------------------
(* What a component comes from. *)

OriginsMore(p, S, i) == UNION {{m} \cup ComesFrom(app, m) : m \in S}
Traced == INSTANCE FoldFacts WITH Step <- OriginsMore

LEMMA ComesFromFacts ==
    ASSUME IsApp(app), NEW c \in Comps
    PROVE  ComesFrom(app, c) \subseteq Comps
<1> DEFINE T == [on : Comps, mode : {"move", "shared", "exclusive"}]
<1>1. app.inputs[c] \in Seq(T)
    BY DEF IsApp, Comps
<1>2. \A i \in DOMAIN app.inputs[c] : app.inputs[c][i] \in T
  <2> HIDE DEF T
  <2> QED
      BY <1>1
<1>3. \A i \in DOMAIN app.inputs[c] : app.inputs[c][i].on \in Comps
    BY <1>2
<1> QED
    BY <1>3 DEF ComesFrom, Needs, Comps

\* Origins is the least set that holds c and what its elements come from.
LEMMA OriginsFacts ==
    ASSUME IsApp(app), NEW c \in Comps
    PROVE  /\ c \in Origins(app, c) /\ Origins(app, c) \subseteq Comps
           /\ \A d \in Origins(app, c) : ComesFrom(app, d) \subseteq Origins(app, c)
           /\ \A C : c \in C /\ (\A d \in C : d \in Comps => ComesFrom(app, d) \subseteq C) =>
                  Origins(app, c) \subseteq C
<1> DEFINE k == Cardinality(Comps)
           s == [i \in 1..k |-> i]
           E == {e \in [from : Comps, to : Comps] : e.to \in ComesFrom(app, e.from)}
<1>1. IsFiniteSet(Comps) /\ k \in Nat
    BY FS_CardinalityType DEF IsApp, Comps
<1>2. Origins(app, c) = Traced!Folded(0, {c}, s)
    BY DEF Origins, Within, Accumulate, Traced!Folded, OriginsMore, Comps
<1>3. Len(s) = k
    BY <1>1
<1>4. PICK u : Traced!IsTrace(0, {c}, s, k, u) /\ Traced!Folded(0, {c}, s) = u[k]
  <2> HIDE DEF s
  <2> QED
      BY <1>1, <1>3, Traced!FoldHasTrace
<1>5. ASSUME NEW S \in SUBSET Comps, NEW i
      PROVE  OriginsMore(0, S, i) = S \cup {e.to : e \in {x \in E : x.from \in S}}
  <2>1. \A m \in S : \A d \in ComesFrom(app, m) : [from |-> m, to |-> d] \in E
      BY ComesFromFacts
  <2>2. ASSUME NEW m \in S, NEW d \in ComesFrom(app, m) PROVE d \in {e.to : e \in {x \in E : x.from \in S}}
    <3>1. [from |-> m, to |-> d] \in E /\ [from |-> m, to |-> d].from = m /\ [from |-> m, to |-> d].to = d
        BY <2>1
    <3> HIDE DEF E
    <3>2. \E e \in E : e.from = m /\ e.to = d
        BY <3>1
    <3> QED
        BY <3>2
  <2> DEFINE X == {e.to : e \in {x \in E : x.from \in S}}
  <2>3. \A x \in X : \E m \in S : x \in ComesFrom(app, m)
      OBVIOUS
  <2> HIDE DEF E, X
  <2>4. OriginsMore(0, S, i) = S \cup X
      BY <2>2, <2>3 DEF OriginsMore, X
  <2> QED
      BY <2>4 DEF X
<1>6. u[0] = {c} /\ \A i \in 1..k : u[i] = OriginsMore(0, u[i - 1], s[i])
    BY <1>4 DEF Traced!IsTrace
<1>7. Spreads(u, Comps, E, c, k)
  <2>1. \A e \in E : e.from \in Comps /\ e.to \in Comps
      OBVIOUS
  <2> HIDE DEF E
  <2> QED
      BY <1>5, <1>6, <2>1 DEF Spreads
<1> HIDE DEF s
<1>8. /\ u[k] \subseteq Comps /\ c \in u[k] /\ Closed(u[k], E)
      /\ \A C : c \in C /\ Closed(C, E) => u[k] \subseteq C
  <2> HIDE DEF E, k
  <2>1. Cardinality(Comps) <= k
      BY <1>1 DEF k
  <2> QED
      BY <1>1, <1>7, <2>1, Saturates
<1>9. ASSUME NEW d \in Comps, NEW b \in ComesFrom(app, d) PROVE [from |-> d, to |-> b] \in E
    BY ComesFromFacts
<1>10. ASSUME NEW C, \A d \in C : d \in Comps => ComesFrom(app, d) \subseteq C PROVE Closed(C, E)
    BY <1>10 DEF Closed
<1>11. ASSUME NEW d \in u[k] PROVE ComesFrom(app, d) \subseteq u[k]
  <2> HIDE DEF E, k
  <2> SUFFICES ASSUME NEW b \in ComesFrom(app, d) PROVE b \in u[k]
      OBVIOUS
  <2>1. d \in Comps
      BY <1>8
  <2>2. [from |-> d, to |-> b] \in E
      BY <1>9, <2>1
  <2>3. [from |-> d, to |-> b].from = d /\ [from |-> d, to |-> b].to = b
      OBVIOUS
  <2> QED
      BY <1>8, <2>2, <2>3 DEF Closed
<1> HIDE DEF E, k
<1> QED
    BY <1>2, <1>4, <1>8, <1>10, <1>11

\* Without a cycle, what something comes from comes from less.
LEMMA OriginsGrow ==
    ASSUME IsApp(app), ~Cyclic, NEW c \in Comps, NEW d \in ComesFrom(app, c)
    PROVE  /\ d \in Comps /\ Origins(app, d) \subseteq Origins(app, c)
           /\ Cardinality(Origins(app, c)) \in 1..Cardinality(Comps)
           /\ Cardinality(Origins(app, d)) \in 1..Cardinality(Comps)
           /\ Cardinality(Origins(app, d)) < Cardinality(Origins(app, c))
<1>1. d \in Comps
    BY ComesFromFacts
<1>2. Origins(app, d) \subseteq Origins(app, c)
  <2>1. d \in Origins(app, c)
      BY OriginsFacts
  <2> QED
      BY <1>1, <2>1, OriginsFacts
<1>3. c \in Origins(app, c) /\ c \notin Origins(app, d)
    BY OriginsFacts DEF Cyclic, Comps
<1>4. IsFiniteSet(Comps)
    BY DEF IsApp, Comps
<1>5. \A b \in Comps : /\ IsFiniteSet(Origins(app, b))
                       /\ Cardinality(Origins(app, b)) \in 1..Cardinality(Comps)
  <2> SUFFICES ASSUME NEW b \in Comps
               PROVE  /\ IsFiniteSet(Origins(app, b))
                      /\ Cardinality(Origins(app, b)) \in 1..Cardinality(Comps)
      OBVIOUS
  <2>1. b \in Origins(app, b) /\ Origins(app, b) \subseteq Comps
      BY OriginsFacts
  <2>2. /\ IsFiniteSet(Origins(app, b)) /\ Cardinality(Origins(app, b)) <= Cardinality(Comps)
        /\ Cardinality(Origins(app, b)) \in Nat /\ Cardinality(Comps) \in Nat
      BY <1>4, <2>1, FS_Subset, FS_CardinalityType
  <2>3. Cardinality(Origins(app, b)) # 0
      BY <2>1, <2>2, FS_EmptySet
  <2> QED
      BY <2>2, <2>3
<1>6. Cardinality(Origins(app, d)) < Cardinality(Origins(app, c))
  <2>1. Cardinality(Origins(app, d)) <= Cardinality(Origins(app, c))
        /\ (Cardinality(Origins(app, d)) = Cardinality(Origins(app, c)) => Origins(app, d) = Origins(app, c))
      BY <1>2, <1>5, FS_Subset
  <2> QED
      BY <1>1, <1>3, <1>5, <2>1
<1> QED
    BY <1>1, <1>2, <1>5, <1>6

-----------------------------------------------------------------------------
(* A rank for every component that falls along the edges of the graph that *)
(* is built: first what depends on no error handler, then the observers in *)
(* their order, then what depends on a handler.                            *)

Watchers == ToSet(app.observers)
Late(c) == Origins(app, c) \cap app.errorHandlers # {}
Left(c) == Cardinality(Comps) - Cardinality(Origins(app, c))
Turn(c) == CHOOSE i \in DOMAIN app.observers : app.observers[i] = c
CompRank(c) ==
    IF c \in Watchers THEN Cardinality(Comps) + Len(app.observers) - Turn(c)
    ELSE IF Late(c) THEN Left(c)
    ELSE Cardinality(Comps) + Len(app.observers) + Left(c)

\* The components an edge may join.
Tied(c, d) ==
    \/ c \in ComesFrom(app, d)
    \/ c \in ErrorValues(app) /\ d \in Watchers
    \/ \E i \in DOMAIN app.observers : i > 1 /\ c = app.observers[i - 1] /\ d = app.observers[i]
    \/ app.observers # << >> /\ c = Last(app.observers) /\ d \notin Watchers /\ Late(d)

LEMMA LeftFacts ==
    ASSUME IsApp(app), NEW c \in Comps
    PROVE  Cardinality(Comps) \in Nat /\ Left(c) \in 0..(Cardinality(Comps) - 1)
<1>1. IsFiniteSet(Comps) /\ Cardinality(Comps) \in Nat
    BY FS_CardinalityType DEF IsApp, Comps
<1>2. c \in Origins(app, c) /\ Origins(app, c) \subseteq Comps
    BY OriginsFacts
<1>3. /\ IsFiniteSet(Origins(app, c)) /\ Cardinality(Origins(app, c)) <= Cardinality(Comps)
      /\ Cardinality(Origins(app, c)) \in Nat
    BY <1>1, <1>2, FS_Subset, FS_CardinalityType
<1>4. Cardinality(Origins(app, c)) # 0
    BY <1>2, <1>3, FS_EmptySet
<1> QED
    BY <1>1, <1>3, <1>4 DEF Left

LEMMA WatcherFacts ==
    ASSUME IsApp(app), IsWired(app)
    PROVE  /\ Len(app.observers) \in Nat /\ DOMAIN app.observers = 1..Len(app.observers)
           /\ \A i \in DOMAIN app.observers : /\ app.observers[i] \in Watchers
                                              /\ Turn(app.observers[i]) = i
           /\ Watchers \subseteq Comps
           /\ app.observers = << >> <=> Watchers = {}
           /\ app.observers # << >> => Last(app.observers) = app.observers[Len(app.observers)]
           /\ \A c \in Comps : ComesFrom(app, c) \cap Watchers = {}
           /\ \A c \in Watchers \cup (IF Watchers = {} THEN {} ELSE ErrorValues(app)) : ~Late(c)
           /\ Watchers \cap ErrorValues(app) = {}
<1>1. app.observers \in Seq(Comps)
    BY DEF IsApp, Comps
<1>2. Len(app.observers) \in Nat /\ DOMAIN app.observers = 1..Len(app.observers)
    BY <1>1
<1>3. Watchers \subseteq Comps /\ \A i \in DOMAIN app.observers : app.observers[i] \in Watchers
    BY <1>1 DEF Watchers, ToSet
<1>4. app.observers = << >> <=> Watchers = {}
  <2>1. app.observers = << >> => Watchers = {}
      BY DEF Watchers, ToSet
  <2>2. app.observers # << >> => 1 \in DOMAIN app.observers
      BY <1>1, <1>2
  <2> QED
      BY <1>3, <2>1, <2>2
<1>5. \A i \in DOMAIN app.observers : Turn(app.observers[i]) = i
  <2> SUFFICES ASSUME NEW i \in DOMAIN app.observers PROVE Turn(app.observers[i]) = i
      OBVIOUS
  <2>1. \A j \in DOMAIN app.observers : app.observers[i] = app.observers[j] => i = j
      BY <1>3, <1>4 DEF IsWired
  <2> QED
      BY <2>1 DEF Turn
<1>6. \A c \in Comps : ComesFrom(app, c) \cap Watchers = {}
    BY <1>4 DEF IsWired, Comps, Watchers
<1>7. \A c \in Watchers \cup (IF Watchers = {} THEN {} ELSE ErrorValues(app)) : ~Late(c)
    BY <1>4 DEF IsWired, Watchers, Late
<1>8. Watchers \cap ErrorValues(app) = {}
    BY <1>4 DEF IsWired, Watchers
<1> QED
    BY <1>1, <1>2, <1>3, <1>4, <1>5, <1>6, <1>7, <1>8 DEF Last

LEMMA TiedRanks ==
    ASSUME IsApp(app), IsWired(app), ~Cyclic, NEW c \in Comps, NEW d \in Comps, Tied(c, d)
    PROVE  CompRank(c) \in Nat /\ CompRank(d) \in Nat /\ CompRank(d) < CompRank(c)
<1> DEFINE m == Cardinality(Comps)
           l == Len(app.observers)
<1>1. /\ m \in Nat /\ l \in Nat /\ Left(c) \in 0..(m - 1) /\ Left(d) \in 0..(m - 1)
    BY LeftFacts, WatcherFacts
<1>2. ASSUME NEW w \in Watchers
      PROVE  /\ Turn(w) \in 1..l /\ CompRank(w) = m + l - Turn(w)
             /\ app.observers[Turn(w)] = w /\ ~Late(w)
  <2>1. PICK i \in DOMAIN app.observers : app.observers[i] = w
      BY DEF Watchers, ToSet
  <2>2. Turn(w) = i /\ i \in 1..l
      BY <2>1, WatcherFacts
  <2> QED
      BY <2>1, <2>2, WatcherFacts DEF CompRank
<1>3. \A b \in {c, d} : b \notin Watchers => CompRank(b) = IF Late(b) THEN Left(b) ELSE m + l + Left(b)
    BY DEF CompRank
<1> HIDE DEF m, l
<1>4. CASE c \in ComesFrom(app, d)
  <2>1. c \notin Watchers
      BY <1>4, WatcherFacts
  <2>2. Origins(app, c) \subseteq Origins(app, d) /\ Left(d) < Left(c)
    <3>1. /\ Cardinality(Comps) \in Nat
          /\ Cardinality(Origins(app, d)) \in 1..Cardinality(Comps)
          /\ Cardinality(Origins(app, c)) \in 1..Cardinality(Comps)
          /\ Cardinality(Origins(app, c)) < Cardinality(Origins(app, d))
          /\ Origins(app, c) \subseteq Origins(app, d)
        BY <1>1, <1>4, OriginsGrow DEF m
    <3> QED
        BY <3>1 DEF Left
  <2>3. Late(c) => Late(d)
      BY <2>2 DEF Late
  <2>4. CASE d \in Watchers
      BY <1>1, <1>2, <1>3, <2>1, <2>3, <2>4
  <2>5. CASE d \notin Watchers
      BY <1>1, <1>3, <2>1, <2>2, <2>3, <2>5
  <2> QED
      BY <2>4, <2>5
<1>5. CASE c \in ErrorValues(app) /\ d \in Watchers
  <2>1. c \notin Watchers /\ ~Late(c)
      BY <1>5, WatcherFacts
  <2> QED
      BY <1>1, <1>2, <1>3, <1>5, <2>1
<1>6. CASE \E i \in DOMAIN app.observers : i > 1 /\ c = app.observers[i - 1] /\ d = app.observers[i]
  <2>1. PICK i \in DOMAIN app.observers : i > 1 /\ c = app.observers[i - 1] /\ d = app.observers[i]
      BY <1>6
  <2>2. i \in 1..l /\ i - 1 \in DOMAIN app.observers
      BY <2>1, WatcherFacts DEF l
  <2>3. Turn(d) = i /\ Turn(c) = i - 1 /\ c \in Watchers /\ d \in Watchers
      BY <2>1, <2>2, WatcherFacts
  <2> QED
      BY <1>1, <1>2, <2>2, <2>3
<1>7. CASE app.observers # << >> /\ c = Last(app.observers) /\ d \notin Watchers /\ Late(d)
  <2>1. Len(app.observers) \in DOMAIN app.observers /\ c = app.observers[Len(app.observers)]
      BY <1>7, WatcherFacts
  <2>2. c \in Watchers
      BY <2>1, WatcherFacts
  <2>3. CompRank(d) = Left(d)
      BY <1>3, <1>7
  <2> QED
      BY <1>1, <1>2, <2>2, <2>3
<1> QED
    BY <1>4, <1>5, <1>6, <1>7 DEF Tied

-----------------------------------------------------------------------------
(* How the graph is wired while it is built: its edges and those that are  *)
(* on the agenda.                                                          *)

Pending(s) == UNION {ToSet(v.edges) : v \in ToSet(s)}
Links(g, s) == EdgesOf(g) \cup Pending(s)

TiedIn(g, e) == Tied(g.nodes[e.from].comp, g.nodes[e.to].comp)
\* An edge that hands the error of an Err matcher to an error handler.
HandsError(g, e) ==
    /\ app.observers # << >>
    /\ g.nodes[e.from].comp \in ErrMatchers(app)
    /\ g.nodes[e.to].comp \in app.errorHandlers
Plain(g, e) == TiedIn(g, e) /\ ~HandsError(g, e)

\* A matcher hands its error to one handler, once its node is in D.
WiredBy(g, E, D) ==
    /\ \A e \in E : e.from \in DOMAIN g.nodes /\ e.to \in DOMAIN g.nodes /\ TiedIn(g, e)
    /\ \A e \in E : HandsError(g, e) =>
          /\ e.from \in D
          /\ \A f \in E : HandsError(g, f) /\ f.from = e.from => f.to = e.to

Wired(g, s, D) ==
    /\ g \in BuildGraphs
    /\ s \in Seq(Visits(Indices(g)))
    /\ WiredBy(g, Links(g, s), D)

\* h is g with more nodes.
Adds(g, h) ==
    /\ DOMAIN g.nodes \subseteq DOMAIN h.nodes
    /\ \A n \in DOMAIN g.nodes : h.nodes[n] = g.nodes[n]

LEMMA AddsTrans ==
    ASSUME NEW f, NEW g, NEW h, Adds(f, g), Adds(g, h)
    PROVE  Adds(f, h)
BY DEF Adds

\* More nodes and more edges that hand no error to a handler.
LEMMA WiredMore ==
    ASSUME NEW g, NEW h, Adds(g, h), NEW E, NEW D, WiredBy(g, E, D),
           NEW F, \A e \in F : e \in E \/ (e.from \in DOMAIN h.nodes /\ e.to \in DOMAIN h.nodes /\ Plain(h, e))
    PROVE  WiredBy(h, F, D)
<1>1. \A e \in E : /\ e.from \in DOMAIN h.nodes /\ e.to \in DOMAIN h.nodes /\ TiedIn(h, e)
                   /\ HandsError(h, e) <=> HandsError(g, e)
    BY DEF WiredBy, Adds, TiedIn, HandsError
<1>2. \A e \in F : e.from \in DOMAIN h.nodes /\ e.to \in DOMAIN h.nodes /\ TiedIn(h, e)
    BY <1>1 DEF Plain
<1>3. \A e \in F : HandsError(h, e) => e \in E /\ HandsError(g, e)
    BY <1>1 DEF Plain
<1>4. ASSUME NEW e \in F, HandsError(h, e)
      PROVE  e.from \in D /\ \A f \in F : HandsError(h, f) /\ f.from = e.from => f.to = e.to
    BY <1>3, <1>4 DEF WiredBy
<1> QED
    BY <1>2, <1>4 DEF WiredBy

\* What AddNode returns, node by node.
LEMMA AddNodeIs ==
    ASSUME IsApp(app), NEW g \in BuildGraphs, NEW c \in Comps
    PROVE  LET h == AddNode(g, c)
               k == NodeFor(h, c)
           IN /\ h \in BuildGraphs /\ Adds(g, h) /\ EdgesOf(h) = EdgesOf(g)
              /\ k \in DOMAIN h.nodes /\ k \in Indices(h) /\ h.nodes[k].comp = c
<1> DEFINE h == AddNode(g, c)
           k == NodeFor(h, c)
<1>1. h \in BuildGraphs /\ k \in Indices(h)
    BY AddNodeFacts
<1>2. h = g \/ h = [g EXCEPT !.nodes = Append(@, Node(c, RoleOf(c)))]
    BY DEF AddNode
<1>3. /\ g = [nodes |-> g.nodes, edges |-> g.edges] /\ g.nodes \in Seq(NodeSet)
    BY BuildGraphFacts, GraphFacts DEF Graphs
<1>4. Adds(g, h) /\ h.edges = g.edges
  <2>1. CASE h = g
      BY <2>1 DEF Adds
  <2>2. CASE h = [g EXCEPT !.nodes = Append(@, Node(c, RoleOf(c)))]
    <3>1. h.nodes = Append(g.nodes, Node(c, RoleOf(c))) /\ h.edges = g.edges
        BY <1>3, <2>2
    <3> HIDE DEF h
    <3> QED
        BY <1>3, <3>1 DEF Adds
  <2> QED
      BY <1>2, <2>1, <2>2
<1>5. h.nodes[k].comp = c
  <2>1. CASE app.calls[c] # "many" /\ NodesOf(g, c) # {}
    <3>1. h = g
        BY <2>1 DEF AddNode
    <3>2. k \in NodesOf(h, c)
        BY <2>1, <3>1 DEF NodeFor
    <3> QED
        BY <3>2 DEF NodesOf
  <2>2. CASE ~(app.calls[c] # "many" /\ NodesOf(g, c) # {})
    <3>1. h.nodes = Append(g.nodes, Node(c, RoleOf(c)))
        BY <1>3, <2>2 DEF AddNode
    <3>2. Len(h.nodes) \in DOMAIN h.nodes /\ h.nodes[Len(h.nodes)].comp = c
      <4> HIDE DEF h
      <4>1. Len(h.nodes) = Len(g.nodes) + 1 /\ h.nodes[Len(h.nodes)] = Node(c, RoleOf(c))
            /\ Len(h.nodes) \in DOMAIN h.nodes
          BY <1>3, <3>1
      <4> QED
          BY <4>1 DEF Node
    <3>3. k \in NodesOf(h, c) \/ k = Len(h.nodes)
      <4> HIDE DEF h
      <4> QED
          BY <3>2 DEF NodeFor, NodesOf
    <3> QED
        BY <3>2, <3>3 DEF NodesOf
  <2> QED
      BY <2>1, <2>2
<1> HIDE DEF h, k
<1>6. k \in DOMAIN h.nodes
    BY <1>1 DEF Indices
<1> QED
    BY <1>1, <1>4, <1>5, <1>6 DEF h, k, EdgesOf

LEMMA LinkEdges ==
    ASSUME NEW g \in Graphs, NEW a, NEW b, NEW m
    PROVE  EdgesOf(Link(g, a, b, m)) \subseteq EdgesOf(g) \cup {Edge(a, b, m)}
<1> DEFINE es == Link(g, a, b, m).edges
           old == {i \in DOMAIN g.edges : g.edges[i].from = a /\ g.edges[i].to = b}
<1>1. g = [nodes |-> g.nodes, edges |-> g.edges] /\ g.edges \in Seq(EdgesBetween(Nat))
    BY GraphFacts DEF Graphs
<1>2. es = IF old = {} THEN Append(g.edges, Edge(a, b, m))
           ELSE [i \in DOMAIN g.edges |-> IF i \in old THEN Edge(a, b, m) ELSE g.edges[i]]
    BY <1>1 DEF Link
<1> HIDE DEF es, old, EdgesBetween
<1>3. \A i \in DOMAIN es : es[i] = Edge(a, b, m) \/ (i \in DOMAIN g.edges /\ es[i] = g.edges[i])
    BY <1>1, <1>2
<1>4. \A i \in DOMAIN es : es[i] \in EdgesOf(g) \cup {Edge(a, b, m)}
    BY <1>3 DEF EdgesOf, ToSet
<1> QED
    BY <1>4 DEF EdgesOf, ToSet, es

LEMMA LinkedEdges ==
    ASSUME NEW g \in BuildGraphs, NEW es \in Seq(EdgesBetween(Indices(g)))
    PROVE  EdgesOf(Linked!Folded(0, g, es)) \subseteq EdgesOf(g) \cup ToSet(es)
<1> DEFINE A == {h \in BuildGraphs : h.nodes = g.nodes /\ EdgesOf(h) \subseteq EdgesOf(g) \cup ToSet(es)}
           T == ToSet(es)
<1>1. g \in A
    OBVIOUS
<1>2. T \subseteq EdgesBetween(Indices(g)) /\ es \in Seq(T)
  <2>1. T \subseteq EdgesBetween(Indices(g))
      BY SeqFacts
  <2> QED
      BY <2>1 DEF ToSet
<1>3. ASSUME NEW h \in A, NEW e \in T PROVE LinkAll(0, h, e) \in A
  <2>1. Indices(h) = Indices(g) /\ h \in Graphs
      BY BuildGraphFacts DEF Indices
  <2>2. /\ e.from \in Indices(h) /\ e.to \in Indices(h) /\ e.mode \in Borrows \cup {"move", "before"}
        /\ Edge(e.from, e.to, e.mode) = e
      BY <1>2, <2>1 DEF EdgesBetween, Edge
  <2>3. LinkAll(0, h, e) \in Graphs /\ LinkAll(0, h, e).nodes = g.nodes
      BY <2>1, <2>2, LinkFacts DEF LinkAll
  <2>4. EdgesOf(LinkAll(0, h, e)) \subseteq EdgesOf(h) \cup {e}
      BY <2>1, <2>2, LinkEdges DEF LinkAll
  <2> QED
      BY <2>3, <2>4 DEF BuildGraphs
<1> HIDE DEF A, T
<1>4. Linked!Folded(0, g, es) \in A
    BY <1>1, <1>2, <1>3, Linked!FoldStays
<1> QED
    BY <1>4 DEF A

\* Putting a visit on the agenda, and taking it off.
LEMMA PendingFacts ==
    ASSUME NEW N, NEW s \in Seq(Visits(N))
    PROVE  /\ \A v \in Visits(N) : Pending(Insert(s, v)) = Pending(s) \cup ToSet(v.edges)
           /\ s # << >> => Pending(s) = Pending(Front(s)) \cup ToSet(Last(s).edges)
           /\ \A e \in Pending(s) : e \in EdgesBetween(N)
<1>1. \A v \in Visits(N) : Pending(Insert(s, v)) = Pending(s) \cup ToSet(v.edges)
  <2> SUFFICES ASSUME NEW v \in Visits(N) PROVE Pending(Insert(s, v)) = Pending(s) \cup ToSet(v.edges)
      OBVIOUS
  <2>1. ToSet(Insert(s, v)) = ToSet(s) \cup {v}
      BY StackFacts
  <2> QED
      BY <2>1 DEF Pending
<1>2. s # << >> => Pending(s) = Pending(Front(s)) \cup ToSet(Last(s).edges)
  <2>1. s # << >> => ToSet(s) = ToSet(Front(s)) \cup {Last(s)}
      BY StackFacts
  <2> QED
      BY <2>1 DEF Pending
<1>3. ASSUME NEW e \in Pending(s) PROVE e \in EdgesBetween(N)
  <2>1. PICK v \in ToSet(s) : e \in ToSet(v.edges)
      BY DEF Pending
  <2>2. v \in Visits(N)
      BY SeqFacts
  <2>3. v.edges \in Seq(EdgesBetween(N))
      BY <2>2 DEF Visits
  <2> HIDE DEF EdgesBetween
  <2> QED
      BY <2>1, <2>3, SeqFacts
<1> QED
    BY <1>1, <1>2, <1>3

\* A node for component c is found or added, and its visit put on the agenda.
LEMMA AddVisit ==
    ASSUME IsApp(app), NEW g, NEW s, NEW D, Wired(g, s, D), NEW c \in Comps,
           NEW es \in Seq(EdgesBetween(Indices(AddNode(g, c)))),
           \A e \in ToSet(es) : Plain(AddNode(g, c), e)
    PROVE  LET h == AddNode(g, c)
           IN Wired(h, Insert(s, Visit(NodeFor(h, c), es)), D) /\ Adds(g, h)
<1> DEFINE h == AddNode(g, c)
           k == NodeFor(h, c)
           v == Visit(k, es)
<1>1. /\ h \in BuildGraphs /\ Adds(g, h) /\ EdgesOf(h) = EdgesOf(g) /\ k \in Indices(h)
      /\ g \in BuildGraphs /\ s \in Seq(Visits(Indices(g))) /\ WiredBy(g, Links(g, s), D)
    BY AddNodeIs DEF Wired
<1>2. Indices(g) \subseteq Indices(h) /\ Indices(h) = DOMAIN h.nodes
    BY <1>1, BuildGraphFacts DEF Adds
<1>3. v \in Visits(Indices(h)) /\ v.edges = es
    BY <1>1 DEF Visit, Visits
<1>4. \A e \in ToSet(es) : e.from \in DOMAIN h.nodes /\ e.to \in DOMAIN h.nodes /\ Plain(h, e)
  <2>1. ToSet(es) \subseteq EdgesBetween(Indices(h))
      BY SeqFacts
  <2> QED
      BY <1>2, <2>1 DEF EdgesBetween
<1> HIDE DEF h, k, v
<1>5. s \in Seq(Visits(Indices(h))) /\ Insert(s, v) \in Seq(Visits(Indices(h)))
  <2>1. s \in Seq(Visits(Indices(h)))
      BY <1>1, <1>2, VisitFacts
  <2> QED
      BY <1>3, <2>1, InsertFacts
<1>6. Links(h, Insert(s, v)) = Links(g, s) \cup ToSet(es)
  <2>1. Pending(Insert(s, v)) = Pending(s) \cup ToSet(es)
      BY <1>3, <1>5, PendingFacts
  <2> QED
      BY <1>1, <2>1 DEF Links
<1>7. WiredBy(h, Links(h, Insert(s, v)), D)
    BY <1>1, <1>4, <1>6, WiredMore
<1> QED
    BY <1>1, <1>5, <1>7 DEF Wired, h, v, k

\* What a visit asks for.
LEMMA AskedWired ==
    ASSUME IsApp(app), IsWired(app), NEW g, NEW s, NEW D, Wired(g, s, D), NEW n \in DOMAIN g.nodes,
           NEW c \in Comps, g.nodes[n].comp = c, app.calls[c] # "none",
           NEW ins, ins = app.inputs[c] \/ ins = << >>
    PROVE  LET a == Asked!Folded(n, [g |-> g, agenda |-> s], ins)
           IN Wired(a.g, a.agenda, D) /\ Adds(g, a.g)
<1> DEFINE A == {a \in [g : BuildGraphs, agenda : Seq(Visits(Nat))] : Wired(a.g, a.agenda, D) /\ Adds(g, a.g)}
           I == [on : Comps, mode : {"move", "shared", "exclusive"}]
           T == {x \in I : x.on \in Needs(app, c)}
<1>1. ins \in Seq(T)
  <2>1. app.inputs[c] \in Seq(I)
      BY DEF IsApp, Comps
  <2>2. \A i \in DOMAIN app.inputs[c] : app.inputs[c][i].on \in Needs(app, c)
      BY DEF Needs
  <2> HIDE DEF I
  <2>3. \A i \in DOMAIN app.inputs[c] : app.inputs[c][i] \in T
      BY <2>1, <2>2
  <2> HIDE DEF T
  <2>4. app.inputs[c] \in Seq(T)
      BY <2>1, <2>3, SeqIn
  <2>5. << >> \in Seq(T)
      OBVIOUS
  <2> QED
      BY <2>4, <2>5
<1>2. \A h \in BuildGraphs : Seq(Visits(Indices(h))) \subseteq Seq(Visits(Nat))
    BY VisitFacts, BuildGraphFacts, GraphFacts
<1>3. [g |-> g, agenda |-> s] \in A
    BY <1>2 DEF Wired, Adds
<1>4. ASSUME NEW a \in A, NEW x \in T PROVE Ask(n, a, x) \in A
  <2> DEFINE h == AddNode(a.g, x.on)
             k == NodeFor(h, x.on)
             e == Edge(k, n, x.mode)
             t == Insert(a.agenda, Visit(k, <<e>>))
  <2>1. Wired(a.g, a.agenda, D) /\ Adds(g, a.g) /\ a.g \in BuildGraphs /\ x.on \in Comps
      BY DEF Wired
  <2>2. h \in BuildGraphs /\ Adds(a.g, h) /\ k \in Indices(h) /\ k \in DOMAIN h.nodes /\ h.nodes[k].comp = x.on
      BY <2>1, AddNodeIs
  <2>3. n \in Indices(h) /\ h.nodes[n].comp = c
      BY <2>1, <2>2, BuildGraphFacts DEF Adds
  <2>4. Ask(n, a, x) = [g |-> h, agenda |-> t]
      BY DEF Ask
  <2> HIDE DEF h, k
  <2>5. e \in EdgesBetween(Indices(h)) /\ e.from = k /\ e.to = n
      BY <2>2, <2>3 DEF Edge, EdgesBetween, Borrows
  <2>6. Plain(h, e)
    <3>1. x.on \in ComesFrom(app, c)
        BY DEF ComesFrom
    <3>2. app.observers # << >> => x.on \notin ErrMatchers(app)
        BY DEF IsWired, Comps
    <3> QED
        BY <2>2, <2>3, <2>5, <3>1, <3>2 DEF Plain, TiedIn, Tied, HandsError
  <2>7. <<e>> \in Seq(EdgesBetween(Indices(h))) /\ ToSet(<<e>>) = {e}
    <3> HIDE DEF EdgesBetween, e
    <3> QED
        BY <2>5 DEF ToSet
  <2>8. Wired(h, t, D)
      BY <2>1, <2>6, <2>7, AddVisit DEF h, k
  <2>9. t \in Seq(Visits(Nat)) /\ Adds(g, h)
      BY <1>2, <2>1, <2>2, <2>8, AddsTrans DEF Wired
  <2> HIDE DEF t
  <2> QED
      BY <2>2, <2>4, <2>8, <2>9
<1> HIDE DEF A, T
<1>5. Asked!Folded(n, [g |-> g, agenda |-> s], ins) \in A
    BY <1>1, <1>3, <1>4, Asked!FoldStays
<1> QED
    BY <1>5 DEF A

\* The edge of a visit is added.
LEMMA LinkedWired ==
    ASSUME NEW g, NEW s, NEW D, Wired(g, s, D), s # << >>
    PROVE  Wired(Linked!Folded(0, g, Last(s).edges), Front(s), D)
           /\ Linked!Folded(0, g, Last(s).edges).nodes = g.nodes
<1> DEFINE h == Linked!Folded(0, g, Last(s).edges)
<1>1. g \in BuildGraphs /\ s \in Seq(Visits(Indices(g))) /\ WiredBy(g, Links(g, s), D)
    BY DEF Wired
<1>2. Last(s) \in Visits(Indices(g)) /\ Front(s) \in Seq(Visits(Indices(g)))
    BY <1>1, SeqFacts
<1>3. Last(s).edges \in Seq(EdgesBetween(Indices(g)))
    BY <1>2 DEF Visits
<1>4. h \in BuildGraphs /\ h.nodes = g.nodes /\ EdgesOf(h) \subseteq EdgesOf(g) \cup ToSet(Last(s).edges)
    BY <1>1, <1>3, LinkedFacts, LinkedEdges
<1> HIDE DEF h
<1>5. Links(h, Front(s)) \subseteq Links(g, s)
  <2>1. Pending(s) = Pending(Front(s)) \cup ToSet(Last(s).edges)
      BY <1>1, PendingFacts
  <2> QED
      BY <1>4, <2>1 DEF Links
<1>6. Adds(g, h) /\ Indices(h) = Indices(g)
    BY <1>4 DEF Adds, Indices
<1>7. WiredBy(h, Links(h, Front(s)), D)
    BY <1>1, <1>5, <1>6, WiredMore
<1> QED
    BY <1>2, <1>4, <1>6, <1>7 DEF Wired, h

-----------------------------------------------------------------------------
(* The transformers, which may hand an error to its handler. *)

LEMMA TransformersWired ==
    ASSUME IsApp(app), IsWired(app), NEW N, NEW n \in N, NEW D, n \notin D,
           NEW a \in Expansions(N), Wired(a.g, a.agenda, D)
    PROVE  LET b == Transformers!Folded(n, a, app.transformers[a.g.nodes[n].comp])
           IN b \in Expansions(N) /\ Wired(b.g, b.agenda, D \cup {n}) /\ Adds(a.g, b.g)
<1> DEFINE c == a.g.nodes[n].comp
           ts == app.transformers[c]
           T == [comp : Comps, mode : {"move", "shared"}]
           ToHandler(j) == ts[j].comp \in app.errorHandlers
           A == [i \in 0..Len(ts) |->
                   {b \in Expansions(N) :
                      /\ Wired(b.g, b.agenda, D \cup {n}) /\ Adds(a.g, b.g)
                      /\ (\A j \in 1..i : ~ToHandler(j)) =>
                             \A e \in Links(b.g, b.agenda) : HandsError(b.g, e) => e.from # n}]
           r == Transformers!Folded(n, a, ts)
<1>1. a.g \in BuildGraphs /\ n \in DOMAIN a.g.nodes /\ c \in Comps
  <2>1. a.g \in BuildGraphs /\ N \subseteq Indices(a.g)
      BY DEF Expansions, Grown
  <2> QED
      BY <2>1, BuildGraphFacts DEF BuildGraphs
<1>2. ts \in Seq(T) /\ Len(ts) \in Nat /\ DOMAIN ts = 1..Len(ts)
  <2>1. ts \in Seq(T)
      BY <1>1 DEF IsApp, Comps
  <2> HIDE DEF T, ts
  <2> QED
      BY <2>1
<1>3. a \in A[0]
  <2>1. Wired(a.g, a.agenda, D \cup {n})
      BY DEF Wired, WiredBy
  <2>2. \A e \in Links(a.g, a.agenda) : HandsError(a.g, e) => e.from # n
      BY DEF Wired, WiredBy
  <2>3. 0 \in 0..Len(ts) /\ Adds(a.g, a.g)
      BY <1>2 DEF Adds
  <2> HIDE DEF ts
  <2> QED
      BY <2>1, <2>2, <2>3
<1>4. ASSUME NEW i \in 1..Len(ts), NEW b \in A[i - 1] PROVE AddTransformer(n, b, ts[i]) \in A[i]
  <2> DEFINE t == ts[i]
             h == AddNode(b.g, t.comp)
             k == NodeFor(h, t.comp)
             e == Edge(n, k, t.mode)
             v == Visit(k, <<e>>)
             s == Insert(b.agenda, v)
             d == AddTransformer(n, b, t)
  <2>1. /\ i \in 0..Len(ts) /\ i - 1 \in 0..Len(ts) /\ b \in Expansions(N)
        /\ Wired(b.g, b.agenda, D \cup {n}) /\ Adds(a.g, b.g) /\ b.g \in BuildGraphs
        /\ (\A j \in 1..(i - 1) : ~ToHandler(j)) =>
               \A x \in Links(b.g, b.agenda) : HandsError(b.g, x) => x.from # n
    <3> HIDE DEF ts
    <3> QED
        BY <1>2 DEF Wired
  <2> HIDE DEF A, r
  <2>2. t \in T /\ i \in DOMAIN ts
    <3> HIDE DEF T, ts
    <3> QED
        BY <1>2
  <2>3. /\ h \in BuildGraphs /\ Adds(b.g, h) /\ EdgesOf(h) = EdgesOf(b.g)
        /\ k \in Indices(h) /\ k \in DOMAIN h.nodes /\ h.nodes[k].comp = t.comp
    <3>1. t.comp \in Comps
        BY <2>2
    <3> HIDE DEF t
    <3> QED
        BY <2>1, <3>1, AddNodeIs
  <2>4. Indices(b.g) \subseteq Indices(h) /\ Indices(h) = DOMAIN h.nodes /\ n \in Indices(h)
        /\ h.nodes[n].comp = c /\ h \in BuildGraphs
    <3> HIDE DEF h, t, ts
    <3> QED
        BY <1>1, <2>1, <2>3, BuildGraphFacts DEF Adds
  <2>5. d = [b EXCEPT !.g = h, !.agenda = s, !.last = b.last]
      BY <2>1 DEF AddTransformer, Expansions
  <2>6. c \in ComesFrom(app, t.comp)
      BY <1>1, <2>2 DEF ComesFrom, Comps
  <2>7. t.comp \in Comps /\ t.mode \in {"move", "shared"}
      BY <2>2
  <2> HIDE DEF h, k, T, t, ts, c
  <2>8. e \in EdgesBetween(Indices(h)) /\ e.from = n /\ e.to = k /\ <<e>> \in Seq(EdgesBetween(Indices(h)))
    <3>1. e \in EdgesBetween(Indices(h)) /\ e.from = n /\ e.to = k
        BY <2>3, <2>4, <2>7 DEF Edge, EdgesBetween, Borrows
    <3> HIDE DEF EdgesBetween
    <3> QED
        BY <3>1
  <2>9. TiedIn(h, e)
      BY <2>3, <2>4, <2>6, <2>8 DEF TiedIn, Tied
  <2> HIDE DEF e
  <2>10. /\ b.agenda \in Seq(Visits(Indices(h))) /\ s \in Seq(Visits(Indices(h)))
         /\ Links(h, s) = Links(b.g, b.agenda) \cup {e}
    <3>1. b.agenda \in Seq(Visits(Indices(h)))
        BY <2>1, <2>4, VisitFacts DEF Wired
    <3>2. v \in Visits(Indices(h)) /\ v.edges = <<e>> /\ ToSet(<<e>>) = {e}
        BY <2>3, <2>8 DEF Visit, Visits, ToSet
    <3> HIDE DEF v
    <3>3. Pending(s) = Pending(b.agenda) \cup {e}
        BY <3>1, <3>2, PendingFacts
    <3> QED
        BY <2>3, <3>1, <3>2, <3>3, InsertFacts DEF Links
  <2> HIDE DEF s, v
  <2>11. d \in Expansions(N) /\ d.g = h /\ d.agenda = s /\ Adds(a.g, h)
    <3>1. b.last \in Nat
        BY <2>1 DEF Expansions
    <3> HIDE DEF d
    <3>2. d \in Expansions(N)
      <4>1. b \in Expansions(N) /\ h \in BuildGraphs /\ Indices(b.g) \subseteq Indices(h)
            /\ s \in Seq(Visits(Indices(h)))
          BY <2>1, <2>3, <2>4, <2>10
      <4>2. [b EXCEPT !.g = h, !.agenda = s, !.last = b.last] \in Expansions(N)
          BY <3>1, <4>1, Expands
      <4> QED
          BY <2>5, <4>2
    <3>3. d.g = h /\ d.agenda = s
        BY <2>1, <2>5 DEF Expansions
    <3> QED
        BY <2>1, <2>3, <3>2, <3>3, AddsTrans
  <2> HIDE DEF d
  <2>12. WiredBy(b.g, Links(b.g, b.agenda), D \cup {n})
      BY <2>1 DEF Wired
  <2>13. \A x \in Links(b.g, b.agenda) : HandsError(h, x) <=> HandsError(b.g, x)
      BY <2>3, <2>12 DEF WiredBy, Adds, HandsError
  <2>14. WiredBy(h, Links(h, s), D \cup {n})
    <3>1. CASE ~HandsError(h, e)
        BY <2>3, <2>4, <2>8, <2>9, <2>10, <2>12, <3>1, WiredMore DEF Plain
    <3>2. CASE HandsError(h, e)
      <4>1. app.observers # << >> /\ c \in ErrMatchers(app) /\ t.comp \in app.errorHandlers
          BY <2>3, <2>4, <2>8, <3>2 DEF HandsError
      <4>2. \A j \in 1..(i - 1) : ~ToHandler(j)
        <5>1. \A j \in DOMAIN ts : ToHandler(j) => j = i
            BY <2>2, <4>1 DEF IsWired, ts, t
        <5> QED
            BY <1>2, <5>1
      <4>3. \A x \in Links(b.g, b.agenda) : HandsError(h, x) => x.from # n
          BY <2>1, <2>13, <4>2
      <4>4. \A x \in Links(h, s) : x.from \in DOMAIN h.nodes /\ x.to \in DOMAIN h.nodes /\ TiedIn(h, x)
          BY <2>3, <2>4, <2>8, <2>9, <2>10, <2>12 DEF WiredBy, Adds, TiedIn
      <4>5. ASSUME NEW x \in Links(h, s), HandsError(h, x)
            PROVE  x.from \in D \cup {n} /\ \A y \in Links(h, s) : HandsError(h, y) /\ y.from = x.from => y.to = x.to
        <5>1. CASE x = e
            BY <2>8, <2>10, <4>3, <5>1
        <5>2. CASE x # e
          <6>1. x \in Links(b.g, b.agenda) /\ x.from # n /\ x.from \in D \cup {n}
              BY <2>10, <2>12, <2>13, <4>3, <4>5, <5>2 DEF WiredBy
          <6>2. ASSUME NEW y \in Links(h, s), HandsError(h, y), y.from = x.from PROVE y.to = x.to
            <7>1. y # e /\ y \in Links(b.g, b.agenda)
                BY <2>8, <2>10, <6>1, <6>2
            <7> QED
                BY <2>12, <2>13, <4>5, <6>1, <6>2, <7>1 DEF WiredBy
          <6> QED
              BY <6>1, <6>2
        <5> QED
            BY <5>1, <5>2
      <4> QED
          BY <4>4, <4>5 DEF WiredBy
    <3> QED
        BY <3>1, <3>2
  <2>15. (\A j \in 1..i : ~ToHandler(j)) => \A x \in Links(h, s) : HandsError(h, x) => x.from # n
    <3> SUFFICES ASSUME \A j \in 1..i : ~ToHandler(j), NEW x \in Links(h, s), HandsError(h, x) PROVE x.from # n
        OBVIOUS
    <3>1. i \in 1..i /\ t.comp \notin app.errorHandlers
        BY <1>2 DEF t
    <3>2. x # e
        BY <2>3, <2>8, <3>1 DEF HandsError
    <3>3. \A j \in 1..(i - 1) : ~ToHandler(j)
        BY <1>2
    <3> QED
        BY <2>1, <2>10, <2>13, <3>2, <3>3
  <2>16. Wired(h, s, D \cup {n})
      BY <2>3, <2>10, <2>14 DEF Wired
  <2> HIDE DEF ToHandler
  <2>17. d \in A[i]
      BY <2>1, <2>11, <2>15, <2>16 DEF A
  <2> QED
      BY <2>17 DEF d, t
<1>5. A[Len(ts)] \subseteq {b \in Expansions(N) : Wired(b.g, b.agenda, D \cup {n}) /\ Adds(a.g, b.g)}
  <2> HIDE DEF ts
  <2> QED
      BY <1>2
<1> HIDE DEF A, ts, T
<1>6. r \in A[Len(ts)]
    BY <1>2, <1>3, <1>4, Transformers!FoldRuns
<1> QED
    BY <1>5, <1>6 DEF ts

LEMMA NoTransformers ==
    ASSUME NEW n, NEW b
    PROVE  Transformers!Folded(n, b, << >>) = b
<1> DEFINE A == {b}
           T == {}
<1>1. b \in A /\ << >> \in Seq(T) /\ \A x \in A, y \in T : AddTransformer(n, x, y) \in A
    OBVIOUS
<1>2. \A x \in A : x = b
    OBVIOUS
<1> HIDE DEF A, T
<1>3. Transformers!Folded(n, b, << >>) \in A
    BY <1>1, Transformers!FoldStays
<1> QED
    BY <1>2, <1>3

LEMMA TransformedWired ==
    ASSUME IsApp(app), IsWired(app), Wired(graph, << >>, transformed), attached \in SUBSET Indices(graph)
    PROVE  LET a == [g |-> graph, agenda |-> << >>, attached |-> attached, last |-> 0]
               t == Transformed!Folded(0, a, [i \in DOMAIN nodes |-> i])
           IN t \in Expansions(Indices(graph)) /\ Wired(t.g, t.agenda, transformed \cup DOMAIN nodes)
<1> DEFINE a == [g |-> graph, agenda |-> << >>, attached |-> attached, last |-> 0]
           N == Indices(graph)
           s == [i \in DOMAIN nodes |-> i]
           A == [i \in 0..Len(s) |->
                   {b \in Expansions(N) : /\ Wired(b.g, b.agenda, transformed \cup 1..i)
                                          /\ Adds(graph, b.g)}]
           t == Transformed!Folded(0, a, s)
<1>1. /\ graph \in BuildGraphs /\ N = DOMAIN nodes /\ graph.nodes = nodes
      /\ DOMAIN nodes = 1..Len(nodes) /\ Len(nodes) \in Nat /\ N \subseteq Nat
    BY BuildGraphFacts, GraphFacts DEF Wired, graph
<1>2. s \in Seq(N) /\ Len(s) = Len(nodes) /\ \A i \in 1..Len(s) : s[i] = i /\ i \in N
    BY <1>1
<1> HIDE DEF s
<1>3. a \in A[0]
  <2>1. << >> \in Seq(Visits(Nat)) /\ << >> \in Seq(Visits(N))
      OBVIOUS
  <2>2. a \in Expansions(N)
      BY <1>1, <2>1 DEF Expansions, Grown
  <2>3. transformed \cup 1..0 = transformed /\ 0 \in 0..Len(s)
      BY <1>1, <1>2
  <2>4. Wired(a.g, a.agenda, transformed \cup 1..0) /\ Adds(graph, a.g)
      BY <2>3 DEF Adds
  <2> HIDE DEF a, N
  <2> QED
      BY <2>2, <2>3, <2>4
<1>4. ASSUME NEW i \in 1..Len(s), NEW b \in A[i - 1] PROVE TransformNode(0, b, s[i]) \in A[i]
  <2>1. /\ i \in 0..Len(s) /\ i - 1 \in 0..Len(s) /\ b \in Expansions(N)
        /\ Wired(b.g, b.agenda, transformed \cup 1..(i - 1)) /\ Adds(graph, b.g)
      BY <1>1, <1>2
  <2>2. s[i] = i /\ i \in N /\ transformed \cup 1..i = (transformed \cup 1..(i - 1)) \cup {i}
      BY <1>1, <1>2
  <2> DEFINE D == transformed \cup 1..(i - 1)
  <2>3. CASE i \in transformed \/ b.g.nodes[i].role # "compute"
    <3>1. Transform(b, i) = Transformers!Folded(i, b, << >>)
        BY <2>3 DEF Transform, Accumulate, Transformers!Folded, AddTransformer
    <3>2. Transformers!Folded(i, b, << >>) = b
      <4> HIDE DEF A, N, s
      <4> QED
          BY NoTransformers
    <3>3. Wired(b.g, b.agenda, transformed \cup 1..i)
        BY <2>1, <2>2 DEF Wired, WiredBy
    <3> QED
        BY <2>1, <2>2, <3>1, <3>2, <3>3 DEF TransformNode
  <2>4. CASE ~(i \in transformed \/ b.g.nodes[i].role # "compute")
    <3>1. Transform(b, i) = Transformers!Folded(i, b, app.transformers[b.g.nodes[i].comp])
        BY <2>4 DEF Transform, Accumulate, Transformers!Folded, AddTransformer
    <3>2. i \notin D
        BY <1>1, <2>4
    <3> DEFINE c == Transformers!Folded(i, b, app.transformers[b.g.nodes[i].comp])
    <3>3. c \in Expansions(N) /\ Wired(c.g, c.agenda, D \cup {i}) /\ Adds(b.g, c.g)
      <4> HIDE DEF D, N, A
      <4> QED
          BY <2>1, <2>2, <3>2, TransformersWired DEF D
    <3> HIDE DEF c
    <3>4. Adds(graph, c.g)
        BY <2>1, <3>3, AddsTrans
    <3> QED
        BY <2>1, <2>2, <3>1, <3>3, <3>4 DEF TransformNode, c
  <2> QED
      BY <2>3, <2>4
<1>5. A[Len(s)] = {b \in Expansions(N) : /\ Wired(b.g, b.agenda, transformed \cup 1..Len(s))
                                         /\ Adds(graph, b.g)}
    BY <1>1, <1>2
<1> HIDE DEF A, a
<1>6. t \in A[Len(s)]
    BY <1>2, <1>3, <1>4, Transformed!FoldRuns
<1> HIDE DEF t
<1>7. t \in Expansions(N) /\ Wired(t.g, t.agenda, transformed \cup DOMAIN nodes)
    BY <1>1, <1>2, <1>5, <1>6
<1> QED
    BY <1>7 DEF t, a, s

-----------------------------------------------------------------------------
(* The observers, between an error and the response to it. *)

\* What the observers of handler h are given is an error value, and what comes
\* after them depends on the handler.
LEMMA HandlerNeighbours ==
    ASSUME IsApp(app), IsWired(app), app.observers # << >>,
           NEW g, NEW s, NEW D, Wired(g, s, D), NEW h, IsHandler(g, h), h \in DOMAIN g.nodes
    PROVE  /\ \A p \in NewErrorNodes(g, h) :
                  p \in DOMAIN g.nodes /\ g.nodes[p].comp \in ErrorValues(app)
           /\ \A e \in OutOf(g, h) :
                  /\ e.to \in DOMAIN g.nodes
                  /\ Late(g.nodes[e.to].comp) /\ g.nodes[e.to].comp \notin Watchers
<1> DEFINE CompAt(n) == g.nodes[n].comp
<1>1. g \in BuildGraphs /\ WiredBy(g, Links(g, s), D) /\ EdgesOf(g) \subseteq Links(g, s)
    BY DEF Wired, Links
<1>2. /\ \A n \in DOMAIN g.nodes : CompAt(n) \in Comps
      /\ \A e \in EdgesOf(g) : e.from \in DOMAIN g.nodes /\ e.to \in DOMAIN g.nodes /\ Tied(CompAt(e.from), CompAt(e.to))
      /\ CompAt(h) \in app.errorHandlers
    BY <1>1 DEF WiredBy, TiedIn, BuildGraphs, IsHandler
<1>3. /\ ErrMatchers(app) \cap (Watchers \cup ErrorValues(app)) = {}
      /\ \A c \in Watchers \cup ErrorValues(app) : ~Late(c)
      /\ Watchers # {} /\ Last(app.observers) \in Watchers
      /\ \A i \in DOMAIN app.observers : i > 1 => app.observers[i - 1] \in Watchers
  <2>1. ErrMatchers(app) \cap (Watchers \cup ErrorValues(app)) = {}
      BY DEF IsWired, Watchers
  <2>2. Watchers # {} /\ \A c \in Watchers \cup ErrorValues(app) : ~Late(c)
      BY WatcherFacts
  <2>3. Last(app.observers) \in Watchers
    <3>1. Len(app.observers) \in DOMAIN app.observers
        BY WatcherFacts, <2>2
    <3> QED
        BY <3>1, WatcherFacts
  <2>4. \A i \in DOMAIN app.observers : i > 1 => i - 1 \in DOMAIN app.observers
      BY WatcherFacts
  <2> QED
      BY <2>1, <2>2, <2>3, <2>4, WatcherFacts
<1> HIDE DEF CompAt
<1>4. ASSUME NEW e \in EdgesOf(g), CompAt(e.from) \notin Watchers \cup ErrorValues(app)
      PROVE  CompAt(e.from) \in ComesFrom(app, CompAt(e.to))
    BY <1>2, <1>3, <1>4 DEF Tied
<1>5. ASSUME NEW p \in NewErrorNodes(g, h) PROVE p \in DOMAIN g.nodes /\ CompAt(p) \in ErrorValues(app)
  <2> DEFINE above == {e.from : e \in Into(g, h)}
             errs == {q \in above : \E c \in DOMAIN app.matchers :
                         app.matchers[c] # << >> /\ CompAt(q) = app.matchers[c][2]}
  <2>1. \/ errs = {} /\ p \in above /\ CompAt(p) \in app.newErrors
        \/ p \in (UNION {{e.to : e \in OutOf(g, q)} : q \in errs}) \ {h}
      BY <1>5 DEF NewErrorNodes, CompAt
  <2>2. CASE errs = {} /\ p \in above /\ CompAt(p) \in app.newErrors
      BY <1>2, <2>2 DEF Into, ErrorValues
  <2>3. CASE p \in (UNION {{e.to : e \in OutOf(g, q)} : q \in errs}) \ {h}
    <3>1. PICK q \in errs : p \in {e.to : e \in OutOf(g, q)}
        BY <2>3
    <3>2. PICK e \in OutOf(g, q) : e.to = p
        BY <3>1
    <3>3. PICK f \in Into(g, h) : f.from = q
        BY <3>1
    <3>4. /\ e \in EdgesOf(g) /\ e.from = q /\ e.to = p /\ p # h
          /\ f \in EdgesOf(g) /\ f.from = q /\ f.to = h
      <4> HIDE DEF above, errs
      <4>1. p # h
          BY <2>3
      <4> QED
          BY <3>2, <3>3, <4>1 DEF Into, OutOf
    <3>5. CompAt(q) \in ErrMatchers(app)
      <4>1. DOMAIN app.matchers = DOMAIN app.inputs
          BY DEF IsApp
      <4> QED
          BY <3>1, <4>1 DEF ErrMatchers
    <3>6. CompAt(q) \in ComesFrom(app, CompAt(p)) /\ CompAt(p) \in Comps /\ p \in DOMAIN g.nodes
        BY <1>2, <1>3, <1>4, <3>4, <3>5
    <3>7. CompAt(p) \notin app.errorHandlers
      <4> SUFFICES ASSUME CompAt(p) \in app.errorHandlers PROVE FALSE
          OBVIOUS
      <4>1. HandsError(g, e) /\ HandsError(g, f)
          BY <1>2, <3>4, <3>5 DEF HandsError, CompAt
      <4>2. e \in Links(g, s) /\ f \in Links(g, s)
          BY <1>1, <3>4
      <4> QED
          BY <1>1, <3>4, <4>1, <4>2 DEF WiredBy
    <3> QED
        BY <3>5, <3>6, <3>7 DEF ErrorValues, Comps
  <2> QED
      BY <2>1, <2>2, <2>3
<1>6. ASSUME NEW e \in OutOf(g, h)
      PROVE  e.to \in DOMAIN g.nodes /\ Late(CompAt(e.to)) /\ CompAt(e.to) \notin Watchers
  <2>1. e \in EdgesOf(g) /\ e.from = h
      BY DEF OutOf
  <2>2. CompAt(h) \in Comps /\ CompAt(e.to) \in Comps /\ e.to \in DOMAIN g.nodes
      BY <1>2, <2>1
  <2>3. Late(CompAt(h))
    <3>1. CompAt(h) \in Origins(app, CompAt(h))
        BY <2>2, OriginsFacts
    <3> QED
        BY <1>2, <3>1 DEF Late
  <2>4. CompAt(h) \in ComesFrom(app, CompAt(e.to))
      BY <1>3, <1>4, <2>1, <2>3
  <2>5. CompAt(h) \in Origins(app, CompAt(e.to))
    <3>1. CompAt(e.to) \in Origins(app, CompAt(e.to))
        BY <2>2, OriginsFacts
    <3> QED
        BY <2>2, <2>4, <3>1, OriginsFacts
  <2>6. Late(CompAt(e.to))
      BY <1>2, <2>5 DEF Late
  <2> QED
      BY <1>3, <2>2, <2>6
<1> QED
    BY <1>5, <1>6 DEF CompAt

LEMMA WiredLink ==
    ASSUME NEW g, NEW s, NEW D, Wired(g, s, D), NEW a \in DOMAIN g.nodes, NEW b \in DOMAIN g.nodes,
           NEW m \in {"before", "shared"}, Plain(g, Edge(a, b, m))
    PROVE  Wired(Link(g, a, b, m), s, D) /\ Link(g, a, b, m).nodes = g.nodes
<1> DEFINE h == Link(g, a, b, m)
           e == Edge(a, b, m)
<1>1. g \in BuildGraphs /\ g \in Graphs /\ s \in Seq(Visits(Indices(g))) /\ WiredBy(g, Links(g, s), D)
      /\ a \in Indices(g) /\ b \in Indices(g)
    BY BuildGraphFacts DEF Wired
<1>2. h \in BuildGraphs /\ Indices(h) = Indices(g)
    BY <1>1, LinkBuilds
<1>3. h.nodes = g.nodes
    BY <1>1, LinkFacts DEF Borrows
<1>4. EdgesOf(h) \subseteq EdgesOf(g) \cup {e}
    BY <1>1, LinkEdges
<1>5. e.from = a /\ e.to = b /\ Plain(g, e)
    BY DEF Edge
<1> HIDE DEF h, e
<1>6. Links(h, s) \subseteq Links(g, s) \cup {e}
    BY <1>4 DEF Links
<1>7. Adds(g, h) /\ Plain(h, e) /\ e.from \in DOMAIN h.nodes /\ e.to \in DOMAIN h.nodes
    BY <1>3, <1>5 DEF Adds, Plain, TiedIn, HandsError
<1>8. WiredBy(h, Links(h, s), D)
    BY <1>1, <1>6, <1>7, WiredMore
<1> QED
    BY <1>1, <1>2, <1>3, <1>8 DEF Wired, h

\* A chain of observers of the error of node e.
LEMMA ChainWired ==
    ASSUME IsApp(app), IsWired(app), app.observers # << >>,
           NEW N, NEW e \in N, NEW D, NEW a \in Expansions(N), Wired(a.g, a.agenda, D), a.last = 0,
           a.g.nodes[e].comp \in ErrorValues(app)
    PROVE  LET c == Chain!Folded(e, a, app.observers)
           IN /\ c \in Expansions(N) /\ Wired(c.g, c.agenda, D) /\ Adds(a.g, c.g)
              /\ c.last \in DOMAIN c.g.nodes /\ c.g.nodes[c.last].comp = Last(app.observers)
<1> DEFINE os == app.observers
           A == [i \in 0..Len(os) |->
                   {b \in Expansions(N) :
                      /\ Wired(b.g, b.agenda, D) /\ Adds(a.g, b.g)
                      /\ i = 0 => b.last = 0
                      /\ i > 0 => b.last \in DOMAIN b.g.nodes /\ b.g.nodes[b.last].comp = os[i]}]
           c == Chain!Folded(e, a, os)
<1>1. /\ os \in Seq(Comps) /\ Len(os) \in Nat /\ Len(os) > 0 /\ DOMAIN os = 1..Len(os)
      /\ Last(os) = os[Len(os)]
  <2>1. os \in Seq(Comps)
      BY DEF IsApp, Comps
  <2> HIDE DEF os
  <2>2. os # << >>
      BY DEF os
  <2> QED
      BY <2>1, <2>2 DEF Last
<1>2. \A i \in DOMAIN os : os[i] \in Comps /\ os[i] \in Watchers
    BY <1>1, WatcherFacts
<1>3. \A w \in Watchers \cup ErrorValues(app) : w \notin ErrMatchers(app)
    BY DEF IsWired, Watchers
<1>4. e \in DOMAIN a.g.nodes
    BY BuildGraphFacts DEF Expansions, Grown
<1>5. \A i \in DOMAIN os : i > 1 => Tied(os[i - 1], os[i])
    BY DEF Tied
<1>6. a \in A[0]
  <2>1. Adds(a.g, a.g) /\ 0 \in 0..Len(os)
      BY <1>1 DEF Adds
  <2> HIDE DEF os
  <2> QED
      BY <2>1
<1>7. \A i \in 1..Len(os) : i \in 0..Len(os) /\ i - 1 \in 0..Len(os)
    BY <1>1
<1> HIDE DEF os
<1>8. ASSUME NEW i \in 1..Len(os), NEW b \in A[i - 1] PROVE AttachOne(e, b, os[i]) \in A[i]
  <2> DEFINE o == os[i]
             h == AddNode(b.g, o)
             k == NodeFor(h, o)
             s == Insert(b.agenda, Visit(k, << >>))
             after == IF b.last = 0 THEN h ELSE Link(h, b.last, k, "before")
             g == Link(after, e, k, "shared")
             d == AttachOne(e, b, o)
  <2>1. /\ i \in 0..Len(os) /\ b \in Expansions(N) /\ Wired(b.g, b.agenda, D) /\ Adds(a.g, b.g)
        /\ i - 1 = 0 => b.last = 0
        /\ i - 1 > 0 => b.last \in DOMAIN b.g.nodes /\ b.g.nodes[b.last].comp = os[i - 1]
      BY <1>7
  <2> HIDE DEF A
  <2>2. o \in Comps /\ o \in Watchers /\ i \in DOMAIN os /\ (i > 1 => Tied(os[i - 1], o))
      BY <1>1, <1>2, <1>5
  <2>3. d = [b EXCEPT !.g = g, !.agenda = s, !.last = k]
      BY DEF AttachOne
  <2> HIDE DEF o, d
  <2>4. /\ h \in BuildGraphs /\ Adds(b.g, h) /\ k \in DOMAIN h.nodes /\ h.nodes[k].comp = o
        /\ Indices(b.g) \subseteq Indices(h) /\ k \in Nat /\ Indices(h) = DOMAIN h.nodes
    <3>1. b.g \in BuildGraphs
        BY <2>1 DEF Wired
    <3>2. h \in BuildGraphs /\ Adds(b.g, h) /\ k \in DOMAIN h.nodes /\ k \in Indices(h) /\ h.nodes[k].comp = o
        BY <2>2, <3>1, AddNodeIs
    <3> HIDE DEF h, k
    <3> QED
        BY <3>1, <3>2, BuildGraphFacts, GraphFacts DEF Adds
  <2>5. Wired(h, s, D)
    <3>1. << >> \in Seq(EdgesBetween(Indices(h))) /\ ToSet(<< >>) = {}
        BY DEF ToSet
    <3> QED
        BY <2>1, <2>2, <3>1, AddVisit
  <2>6. /\ e \in DOMAIN h.nodes /\ h.nodes[e].comp \in ErrorValues(app)
        /\ i > 1 => b.last \in DOMAIN h.nodes /\ h.nodes[b.last].comp = os[i - 1]
        /\ i > 1 <=> b.last # 0
    <3>1. i > 1 => b.last # 0
        BY <2>1, BuildGraphFacts DEF Wired
    <3> HIDE DEF h
    <3> QED
        BY <1>1, <1>4, <2>1, <2>4, <3>1 DEF Adds
  <2> HIDE DEF h, k, s
  <2>7. Wired(after, s, D) /\ after.nodes = h.nodes
    <3>1. CASE b.last = 0
        BY <2>5, <3>1
    <3>2. CASE b.last # 0
      <4>1. i > 1 /\ i - 1 \in DOMAIN os /\ b.last \in DOMAIN h.nodes /\ h.nodes[b.last].comp = os[i - 1]
          BY <1>1, <2>1, <2>6, <3>2
      <4>2. Plain(h, Edge(b.last, k, "before"))
          BY <1>2, <1>3, <2>2, <2>4, <4>1 DEF Plain, TiedIn, HandsError, Edge
      <4> QED
          BY <2>4, <2>5, <3>2, <4>1, <4>2, WiredLink
    <3> QED
        BY <3>1, <3>2
  <2> HIDE DEF after
  <2>8. Wired(g, s, D) /\ g.nodes = h.nodes
    <3>1. Plain(after, Edge(e, k, "shared"))
        BY <1>3, <2>2, <2>4, <2>6, <2>7 DEF Plain, TiedIn, Tied, HandsError, Edge
    <3> QED
        BY <2>4, <2>6, <2>7, <3>1, WiredLink
  <2>9. Adds(a.g, g) /\ g.nodes[k].comp = o /\ k \in DOMAIN g.nodes
      BY <2>1, <2>4, <2>8 DEF Adds
  <2> HIDE DEF g
  <2>10. d \in Expansions(N) /\ d.g = g /\ d.agenda = s /\ d.last = k
    <3>1. g \in BuildGraphs /\ s \in Seq(Visits(Indices(g))) /\ Indices(b.g) \subseteq Indices(g)
        BY <2>4, <2>8, BuildGraphFacts DEF Wired
    <3>2. [b EXCEPT !.g = g, !.agenda = s, !.last = k] \in Expansions(N)
        BY <2>1, <2>4, <3>1, Expands
    <3>3. LET x == [b EXCEPT !.g = g, !.agenda = s, !.last = k] IN x.g = g /\ x.agenda = s /\ x.last = k
        BY <2>1 DEF Expansions
    <3> QED
        BY <2>3, <3>2, <3>3
  <2>11. d \in A[i]
      BY <2>1, <2>8, <2>9, <2>10 DEF A, o
  <2> QED
      BY <2>11 DEF d, o
<1>9. A[Len(os)] = {b \in Expansions(N) :
                      /\ Wired(b.g, b.agenda, D) /\ Adds(a.g, b.g)
                      /\ Len(os) = 0 => b.last = 0
                      /\ Len(os) > 0 => b.last \in DOMAIN b.g.nodes /\ b.g.nodes[b.last].comp = os[Len(os)]}
    BY <1>1
<1> HIDE DEF A
<1>10. c \in A[Len(os)]
    BY <1>1, <1>6, <1>8, Chain!FoldRuns
<1> HIDE DEF c
<1>11. /\ c \in Expansions(N) /\ Wired(c.g, c.agenda, D) /\ Adds(a.g, c.g)
       /\ c.last \in DOMAIN c.g.nodes /\ c.g.nodes[c.last].comp = Last(os)
    BY <1>1, <1>9, <1>10
<1> QED
    BY <1>11 DEF c, os

LEMMA AttachedWired ==
    ASSUME IsApp(app), IsWired(app), app.observers # << >>,
           NEW N, NEW n \in N, NEW D, NEW a \in Expansions(N), Wired(a.g, a.agenda, D),
           IsHandler(a.g, n), ~Waits(a.g, n)
    PROVE  Wired(Attached(a, n).g, Attached(a, n).agenda, D) /\ Adds(a.g, Attached(a, n).g)
<1> DEFINE e == CHOOSE p \in NewErrorNodes(a.g, n) : TRUE
           b == [a EXCEPT !.last = 0]
           c == Chain!Folded(e, b, app.observers)
           x == Outgoing(a.g, n)[1]
           t == x.to
           d == Attached(a, n)
           g == Link(c.g, c.last, t, "before")
<1>1. a.g \in BuildGraphs /\ a.g \in Graphs /\ Indices(a.g) = DOMAIN a.g.nodes /\ n \in DOMAIN a.g.nodes
    BY BuildGraphFacts DEF Expansions, Grown
<1>2. e \in NewErrorNodes(a.g, n)
    BY DEF Waits
<1>3. e \in DOMAIN a.g.nodes /\ a.g.nodes[e].comp \in ErrorValues(app)
  <2> HIDE DEF e
  <2> QED
      BY <1>1, <1>2, HandlerNeighbours
<1>4. x \in OutOf(a.g, n)
  <2>1. Outgoing(a.g, n) # << >> /\ Outgoing(a.g, n) \in Seq(OutOf(a.g, n))
      BY <1>1, EdgeLists DEF Waits
  <2> QED
      BY <2>1
<1>5. t \in DOMAIN a.g.nodes /\ Late(a.g.nodes[t].comp) /\ a.g.nodes[t].comp \notin Watchers
  <2> HIDE DEF x
  <2> QED
      BY <1>1, <1>4, HandlerNeighbours
<1>6. b \in Expansions(Indices(a.g)) /\ b.last = 0 /\ b.g = a.g /\ b.agenda = a.agenda
  <2>1. b = [g |-> a.g, agenda |-> a.agenda, attached |-> a.attached, last |-> 0]
      BY DEF Expansions
  <2> QED
      BY <1>1, <2>1 DEF Expansions, Grown
<1>7. Chained(a, n) = c
    BY DEF Chained, Accumulate, Chain!Folded, AttachOne
<1> HIDE DEF b, e, t, x
<1>8. /\ c \in Expansions(Indices(a.g)) /\ Wired(c.g, c.agenda, D) /\ Adds(a.g, c.g)
      /\ c.last \in DOMAIN c.g.nodes /\ c.g.nodes[c.last].comp = Last(app.observers)
    BY <1>1, <1>3, <1>6, ChainWired
<1> HIDE DEF c
<1>9. d.g = g /\ d.agenda = c.agenda
  <2>1. d = [c EXCEPT !.g = Link(@, c.last, t, "before"), !.attached = @ \cup {n}]
      BY <1>7 DEF Attached, t, x
  <2>2. c \in [g : BuildGraphs, agenda : Seq(Visits(Nat)), attached : SUBSET Nat, last : Nat]
      BY <1>8 DEF Expansions
  <2> HIDE DEF d
  <2> QED
      BY <2>1, <2>2
<1>10. Plain(c.g, Edge(c.last, t, "before")) /\ t \in DOMAIN c.g.nodes
  <2>1. t \in DOMAIN c.g.nodes /\ c.g.nodes[t] = a.g.nodes[t]
      BY <1>5, <1>8 DEF Adds
  <2>2. Last(app.observers) \in Watchers
    <3>1. Watchers # {} /\ DOMAIN app.observers = 1..Len(app.observers) /\ Len(app.observers) \in Nat
          /\ Last(app.observers) = app.observers[Len(app.observers)]
          /\ \A i \in DOMAIN app.observers : app.observers[i] \in Watchers
        BY WatcherFacts
    <3>2. Len(app.observers) \in DOMAIN app.observers
      <4>1. DOMAIN app.observers # {}
          BY <3>1 DEF Watchers, ToSet
      <4> QED
          BY <3>1, <4>1
    <3> QED
        BY <3>1, <3>2
  <2>3. Last(app.observers) \notin ErrMatchers(app)
      BY <2>2 DEF IsWired, Watchers
  <2> QED
      BY <1>5, <1>8, <2>1, <2>3 DEF Plain, TiedIn, Tied, HandsError, Edge
<1>11. Wired(g, c.agenda, D) /\ g.nodes = c.g.nodes
    BY <1>8, <1>10, WiredLink
<1>12. Adds(a.g, g)
    BY <1>8, <1>11 DEF Adds
<1> HIDE DEF g, d
<1> QED
    BY <1>9, <1>11, <1>12 DEF d

LEMMA ObservedWired ==
    ASSUME IsApp(app), IsWired(app), app.observers # << >>,
           NEW N, NEW D, NEW a \in Expansions(N), Wired(a.g, a.agenda, D), NEW s \in Seq(N)
    PROVE  LET r == Observed!Folded(0, a, s) IN Wired(r.g, r.agenda, D)
<1> DEFINE A == {b \in Expansions(N) : Wired(b.g, b.agenda, D)}
<1>1. ASSUME NEW b \in A, NEW n \in N PROVE ObserveNode(0, b, n) \in A
  <2>1. b \in Expansions(N) /\ Wired(b.g, b.agenda, D)
      OBVIOUS
  <2> HIDE DEF A
  <2>2. CASE n \in b.attached \/ (IsHandler(b.g, n) /\ Waits(b.g, n))
      BY <2>1, <2>2 DEF ObserveNode, Observe, A
  <2>3. CASE ~(n \in b.attached \/ (IsHandler(b.g, n) /\ Waits(b.g, n))) /\ IsHandler(b.g, n)
    <3>1. Attached(b, n) \in Expansions(N)
        BY <2>1, <2>3, AttachedFacts
    <3>2. Wired(Attached(b, n).g, Attached(b, n).agenda, D)
        BY <2>1, <2>3, AttachedWired
    <3> QED
        BY <2>3, <3>1, <3>2 DEF ObserveNode, Observe, A
  <2>4. CASE ~(n \in b.attached \/ (IsHandler(b.g, n) /\ Waits(b.g, n))) /\ ~IsHandler(b.g, n)
    <3> DEFINE d == [b EXCEPT !.attached = @ \cup {n}]
    <3>1. n \in DOMAIN b.g.nodes /\ n \in Nat
        BY <2>1, BuildGraphFacts DEF Expansions, Grown
    <3>2. d \in Expansions(N) /\ d.g = b.g /\ d.agenda = b.agenda
        BY <2>1, <3>1 DEF Expansions, Grown
    <3>3. ObserveNode(0, b, n) = d
        BY <2>4 DEF ObserveNode, Observe
    <3> HIDE DEF d
    <3> QED
        BY <2>1, <3>2, <3>3 DEF A
  <2> QED
      BY <2>2, <2>3, <2>4
<1>2. a \in A
    OBVIOUS
<1> HIDE DEF A
<1>3. Observed!Folded(0, a, s) \in A
    BY <1>1, <1>2, Observed!FoldStays
<1> QED
    BY <1>3 DEF A

\* While the graph is built its edges, and those that are still to be added, join
\* components that are tied.
WiredInv ==
    /\ IsWired(app)
    /\ phase \in Building => Wired(graph, agenda, transformed)
    /\ phase \in Building \ {"start"} => ~Cyclic

LEMMA WiredInvInit == OInit => GraphInv /\ WiredInv
<1> SUFFICES ASSUME OInit PROVE GraphInv /\ WiredInv
    OBVIOUS
<1>1. GraphInv
    BY GraphInvInit
<1>2. phase = "start" /\ IsWired(app) /\ edges = << >> /\ agenda = << Visit(1, << >>) >>
    BY WiringAssumption DEF OInit, Init
<1>3. graph \in BuildGraphs /\ agenda \in Seq(Visits(Indices(graph)))
    BY <1>1, <1>2 DEF GraphInv, Building
<1>4. EdgesOf(graph) = {}
    BY <1>2 DEF EdgesOf, graph, ToSet
<1>5. Pending(agenda) = {}
  <2>1. ToSet(agenda) = {Visit(1, << >>)}
      BY <1>2 DEF ToSet
  <2>2. ToSet(Visit(1, << >>).edges) = {}
      BY DEF Visit, ToSet
  <2> QED
      BY <2>1, <2>2 DEF Pending
<1>6. Wired(graph, agenda, transformed)
    BY <1>3, <1>4, <1>5 DEF Wired, WiredBy, Links
<1> QED
    BY <1>1, <1>2, <1>6 DEF WiredInv

\* How a graph is wired depends on nothing that a step changes but the graph.
LEMMA NextWired ==
    ASSUME GraphInv, UNCHANGED app, NEW h, NEW s, NEW D, Wired(h, s, D),
           SetGraph(h), agenda' = s, transformed' = D
    PROVE  Wired(graph, agenda, transformed)' /\ IsWired(app)' = IsWired(app) /\ Cyclic' = Cyclic
<1>1. h \in BuildGraphs /\ h \in Graphs /\ s \in Seq(Visits(Indices(h))) /\ WiredBy(h, Links(h, s), D)
    BY BuildGraphFacts DEF Wired
<1>2. graph' = h /\ BuildGraphs' = BuildGraphs /\ IsWired(app)' = IsWired(app) /\ Cyclic' = Cyclic
    BY <1>1, NextGraph DEF Cyclic
<1>3. Links(h, s) = Links(graph, agenda)'
    BY <1>2 DEF Links
<1>4. \A c, d : Tied(c, d)' <=> Tied(c, d)
    BY DEF Tied, Late, Watchers
<1>5. WiredBy(graph, Links(graph, agenda), transformed)'
    BY <1>1, <1>2, <1>3, <1>4 DEF WiredBy, TiedIn, HandsError
<1>6. (agenda \in Seq(Visits(Indices(graph))))'
    BY <1>1, <1>2
<1> QED
    BY <1>1, <1>2, <1>5, <1>6 DEF Wired

LEMMA VisitNodeWires ==
    ASSUME GraphInv, WiredInv, VisitNode
    PROVE  WiredInv'
<1> DEFINE v == Last(agenda)
           ins == IF v.node \in processed \/ nodes[v.node].role # "compute" THEN << >>
                  ELSE app.inputs[nodes[v.node].comp]
           linked == Linked!Folded(0, graph, v.edges)
           r == Asked!Folded(v.node, [g |-> linked, agenda |-> Front(agenda)], ins)
           c == nodes[v.node].comp
<1>1. /\ phase = "build" /\ phase' = phase /\ agenda # << >> /\ UNCHANGED <<app, transformed>>
    BY DEF VisitNode
<1>2. /\ graph \in BuildGraphs /\ agenda \in Seq(Visits(Indices(graph))) /\ IsApp(app)
      /\ IsWired(app) /\ Wired(graph, agenda, transformed) /\ ~Cyclic
    BY <1>1 DEF GraphInv, WiredInv, Building
<1>3. SetGraph(r.g) /\ agenda' = r.agenda
  <2>1. PICK l \in {Accumulate(LAMBDA g, e : Link(g, e.from, e.to, e.mode), graph, v.edges)} :
             \E t \in {Asked!Folded(v.node, [g |-> l, agenda |-> Front(agenda)], ins)} :
                SetGraph(t.g) /\ agenda' = t.agenda
      BY DEF VisitNode, Accumulate, Asked!Folded, Ask
  <2>2. l = linked
      BY <2>1 DEF Accumulate, Linked!Folded, LinkAll
  <2> HIDE DEF linked, v, ins
  <2> QED
      BY <2>1, <2>2
<1>4. Wired(linked, Front(agenda), transformed) /\ linked.nodes = nodes
    BY <1>1, <1>2, LinkedWired DEF graph
<1>5. v.node \in DOMAIN nodes
  <2>1. v \in Visits(Indices(graph))
      BY <1>1, <1>2, SeqFacts
  <2> HIDE DEF v
  <2> QED
      BY <2>1 DEF Visits, Indices, graph
<1>6. c \in Comps /\ (nodes[v.node].role = "compute" => app.calls[c] # "none")
  <2> HIDE DEF v
  <2> QED
      BY <1>2, <1>5 DEF BuildGraphs, graph, RoleOf
<1>7. ins = app.inputs[c] \/ ins = << >>
    OBVIOUS
<1>8. Wired(r.g, r.agenda, transformed)
  <2>1. CASE ins # << >>
    <3>1. nodes[v.node].role = "compute"
        BY <2>1
    <3>2. app.calls[c] # "none"
        BY <1>6, <3>1
    <3> HIDE DEF linked, ins, v, c
    <3>3. v.node \in DOMAIN linked.nodes /\ linked.nodes[v.node].comp = c
        BY <1>4, <1>5 DEF c
    <3> QED
        BY <1>2, <1>4, <1>6, <1>7, <3>2, <3>3, AskedWired
  <2>2. CASE ins = << >>
    <3> DEFINE b == [g |-> linked, agenda |-> Front(agenda)]
               A == {b}
               T == {}
    <3>1. b \in A /\ << >> \in Seq(T) /\ \A x \in A, y \in T : Ask(v.node, x, y) \in A
        OBVIOUS
    <3>2. \A x \in A : x = b
        OBVIOUS
    <3> HIDE DEF A, T
    <3>3. Asked!Folded(v.node, b, << >>) \in A
      <4> HIDE DEF b, v
      <4> QED
          BY <3>1, Asked!FoldStays
    <3>4. r = b
      <4> HIDE DEF b
      <4> QED
          BY <2>2, <3>2, <3>3 DEF b
    <3> HIDE DEF r
    <3> QED
        BY <1>4, <3>4
  <2> QED
      BY <2>1, <2>2
<1> HIDE DEF r
<1>9. Wired(graph, agenda, transformed)' /\ IsWired(app)' = IsWired(app) /\ Cyclic' = Cyclic
    BY <1>1, <1>3, <1>8, NextWired
<1> QED
    BY <1>1, <1>2, <1>9 DEF WiredInv

LEMMA ExpandWires ==
    ASSUME GraphInv, WiredInv, Expand
    PROVE  WiredInv'
<1> DEFINE a == [g |-> graph, agenda |-> << >>, attached |-> attached, last |-> 0]
           N == Indices(graph)
           D == DOMAIN nodes
           t == Transformed!Folded(0, a, [i \in DOMAIN nodes |-> i])
           r == IF app.observers = << >> THEN t
                ELSE Observed!Folded(0, t, [i \in DOMAIN t.g.nodes |-> i])
<1>1. phase = "build" /\ agenda = << >> /\ UNCHANGED app /\ transformed' = D
    BY DEF Expand
<1>2. /\ graph \in BuildGraphs /\ graph \in Graphs /\ IsApp(app) /\ N = D
      /\ attached \subseteq D /\ transformed \subseteq D
      /\ IsWired(app) /\ Wired(graph, << >>, transformed) /\ ~Cyclic
    BY <1>1, BuildGraphFacts DEF GraphInv, WiredInv, Building, Named, graph
<1>3. SetGraph(r.g) /\ agenda' = r.agenda
  <2>1. PICK u \in {Accumulate(Transform, a, [i \in DOMAIN nodes |-> i])} :
            \E w \in {IF app.observers = << >> THEN u
                      ELSE Observed!Folded(0, u, [i \in DOMAIN u.g.nodes |-> i])} :
                SetGraph(w.g) /\ agenda' = w.agenda
      BY DEF Expand, Accumulate, Observed!Folded, ObserveNode
  <2>2. u = t
      BY <2>1 DEF Accumulate, Transformed!Folded, TransformNode
  <2> HIDE DEF t, a
  <2> QED
      BY <2>1, <2>2
<1>4. t \in Expansions(N) /\ Wired(t.g, t.agenda, D)
  <2>1. transformed \cup DOMAIN nodes = D /\ attached \in SUBSET Indices(graph)
      BY <1>2
  <2> HIDE DEF D
  <2> QED
      BY <1>2, <2>1, TransformedWired
<1> HIDE DEF t
<1>5. Wired(r.g, r.agenda, D)
  <2> DEFINE s == [i \in DOMAIN t.g.nodes |-> i]
             M == Indices(t.g)
  <2>1. t.g \in BuildGraphs /\ M = DOMAIN t.g.nodes
      BY <1>4, BuildGraphFacts DEF Expansions, Grown
  <2>2. s \in Seq(M)
      BY <2>1, BuildGraphFacts
  <2>3. t \in Expansions(M)
      BY <1>4 DEF Expansions, Grown
  <2> HIDE DEF M, s, D, N
  <2>4. app.observers # << >> => Wired(Observed!Folded(0, t, s).g, Observed!Folded(0, t, s).agenda, D)
      BY <1>2, <1>4, <2>2, <2>3, ObservedWired
  <2> QED
      BY <1>4, <2>4 DEF s
<1> HIDE DEF r
<1>6. Wired(graph, agenda, transformed)' /\ IsWired(app)' = IsWired(app) /\ Cyclic' = Cyclic
    BY <1>1, <1>3, <1>5, NextWired
<1> QED
    BY <1>1, <1>2, <1>6 DEF WiredInv

LEMMA WiredInvNext == GraphInv /\ WiredInv /\ [Next]_vars => WiredInv'
<1> SUFFICES ASSUME GraphInv, WiredInv, [Next]_vars PROVE WiredInv'
    OBVIOUS
<1>1. CASE VisitNode
    BY <1>1, VisitNodeWires
<1>2. CASE Expand
    BY <1>2, ExpandWires
<1>3. CASE CheckAcyclic
  <2>1. /\ phase = "start" /\ phase' \in {"rejected", "build"} /\ (phase' = "build" => ~Cyclic)
        /\ UNCHANGED <<graphVars, buildVars>>
      BY <1>3 DEF CheckAcyclic
  <2>2. Wired(graph, agenda, transformed) /\ graph \in Graphs
      BY <2>1, BuildGraphFacts DEF WiredInv, Building, Wired
  <2>3. SetGraph(graph) /\ UNCHANGED app /\ agenda' = agenda /\ transformed' = transformed
      BY <2>1 DEF SetGraph, graph, graphVars, buildVars
  <2>4. Wired(graph, agenda, transformed)' /\ IsWired(app)' = IsWired(app) /\ Cyclic' = Cyclic
      BY <2>2, <2>3, NextWired
  <2> QED
      BY <2>1, <2>4 DEF WiredInv, Building
<1>4. CASE UNCHANGED vars
  <2>1. UNCHANGED <<app, nodes, edges, phase, agenda, transformed>>
      BY <1>4 DEF vars, graphVars, buildVars
  <2>2. SetGraph(graph) /\ UNCHANGED app /\ agenda' = agenda /\ transformed' = transformed
      BY <2>1 DEF SetGraph, graph
  <2>3. phase \in Building => Wired(graph, agenda, transformed)' /\ Cyclic' = Cyclic
      BY <2>2, NextWired DEF WiredInv
  <2>4. IsWired(app)'
      BY <2>1 DEF WiredInv
  <2> QED
      BY <2>1, <2>3, <2>4 DEF WiredInv, Building
<1>5. CASE phase' \notin Building /\ UNCHANGED app
    BY <1>5 DEF WiredInv
<1>6. \/ VisitNode \/ Expand \/ CheckAcyclic \/ UNCHANGED vars
      \/ phase' \notin Building /\ UNCHANGED app
  <2>1. CASE Build
      BY <2>1 DEF Build, Rewrite, Building
  <2>2. CASE Check /\ UNCHANGED <<buildVars, orderVars>>
    <3>1. MultipleConsumers \/ Capture \/ StartMoves \/ Discover => phase' \notin Building /\ UNCHANGED app
        BY DEF MultipleConsumers, Capture, StartMoves, Discover, graphVars, Building
    <3>2. Leave \/ StartComplex => phase' \notin Building /\ UNCHANGED app
        BY DEF Leave, StartComplex, graphVars, Building
    <3>3. \A n \in DOMAIN nodes : Finish(n) \/ Park(n) \/ Report(n) => phase' \notin Building /\ UNCHANGED app
        BY DEF Finish, Park, Report, Complex, graphVars, Building
    <3>4. \A n \in DOMAIN nodes : Clone(n) => phase' \notin Building /\ UNCHANGED app
        BY DEF Clone, Complex, Fixpoint, Building
    <3>5. EndOfRound => phase' \notin Building /\ UNCHANGED app
        BY DEF EndOfRound, Fixpoint, graphVars, Building
    <3> QED
        BY <2>2, <3>1, <3>2, <3>3, <3>4, <3>5 DEF Check
  <2>3. CASE Order /\ UNCHANGED <<buildVars, checkVars>>
    <3>1. StartOrder \/ NextRound => phase' \notin Building /\ UNCHANGED app
        BY DEF StartOrder, NextRound, graphVars, Building
    <3>2. \A n \in DOMAIN nodes : Skip(n) \/ DiscoverNode(n) \/ Place(n) \/ ParkNode(n) =>
              phase' \notin Building /\ UNCHANGED app
        BY DEF Skip, DiscoverNode, Place, ParkNode, Top, graphVars, Building
    <3> QED
        BY <2>3, <3>1, <3>2 DEF Order
  <2> QED
      BY <2>1, <2>2, <2>3 DEF Next
<1> QED
    BY <1>1, <1>2, <1>3, <1>4, <1>5, <1>6

-----------------------------------------------------------------------------
(* Everything leads to a sink in the graph that is built, and still does when *)
(* it is rewritten.                                                          *)

LEMMA LeastExists ==
    ASSUME NEW S \in SUBSET Nat, S # {}
    PROVE  \E m \in S : \A k \in S : ~(k < m)
<1> SUFFICES ASSUME \A m \in S : \E k \in S : k < m PROVE FALSE
    OBVIOUS
<1>1. PICK n : n \in S
    OBVIOUS
<1> DEFINE T == {i \in 0..n : \A j \in 0..i : j \notin S}
<1>2. 0 \in T
  <2>1. 0 \notin S /\ n \in Nat
      BY <1>1
  <2> QED
      BY <2>1
<1>3. ASSUME NEW i \in 1..n, i - 1 \in T PROVE i \in T
  <2>1. n \in Nat /\ i \in 0..n /\ \A j \in 0..(i - 1) : j \notin S
      BY <1>1, <1>3
  <2>2. i \notin S
    <3> SUFFICES ASSUME i \in S PROVE FALSE
        OBVIOUS
    <3>1. PICK k \in S : k < i
        OBVIOUS
    <3>2. k \in 0..(i - 1)
        BY <2>1, <3>1
    <3> QED
        BY <2>1, <3>2
  <2>3. \A j \in 0..i : j = i \/ j \in 0..(i - 1)
      BY <2>1
  <2> QED
      BY <2>1, <2>2, <2>3
<1>4. \A i \in 0..n : i \in T
  <2> HIDE DEF T
  <2>1. n \in Nat
      BY <1>1
  <2> QED
      BY <1>2, <1>3, <2>1, Kept!UpTo
<1>5. n \in 0..n
    BY <1>1
<1> QED
    BY <1>1, <1>4, <1>5

LEMMA WiredGrounded ==
    ASSUME IsApp(app), IsWired(app), ~Cyclic, NEW g, NEW s, NEW D, Wired(g, s, D)
    PROVE  Grounded(g)
<1> SUFFICES ASSUME NEW C, Sinks(g) \subseteq C, \A e \in EdgesOf(g) : e.to \in C => e.from \in C,
                    NEW x \in Indices(g) \ C
             PROVE  FALSE
    BY DEF Grounded
<1> DEFINE Rank(n) == CompRank(g.nodes[n].comp)
           S == {k \in Nat : \E n \in Indices(g) \ C : Rank(n) = k}
<1>1. g \in BuildGraphs /\ g \in Graphs /\ WiredBy(g, Links(g, s), D) /\ EdgesOf(g) \subseteq Links(g, s)
    BY BuildGraphFacts DEF Wired, Links
<1>2. ASSUME NEW e \in EdgesOf(g)
      PROVE  Rank(e.from) \in Nat /\ Rank(e.to) \in Nat /\ Rank(e.to) < Rank(e.from)
  <2>1. /\ e.from \in DOMAIN g.nodes /\ e.to \in DOMAIN g.nodes
        /\ Tied(g.nodes[e.from].comp, g.nodes[e.to].comp)
      BY <1>1 DEF WiredBy, TiedIn
  <2>2. g.nodes[e.from].comp \in Comps /\ g.nodes[e.to].comp \in Comps
      BY <1>1, <2>1 DEF BuildGraphs
  <2> QED
      BY <2>1, <2>2, TiedRanks
<1> HIDE DEF Rank
<1>3. ASSUME NEW n \in Indices(g) \ C
      PROVE  Rank(n) \in Nat /\ \E m \in Indices(g) \ C : Rank(m) \in Nat /\ Rank(m) < Rank(n)
  <2>1. PICK e \in EdgesOf(g) : e.from = n
      BY <1>1, SinksAndConsumers
  <2>2. e.to \in Indices(g) \ C
      BY <1>1, <2>1, ReachEdge
  <2> QED
      BY <1>2, <2>1, <2>2
<1>4. Rank(x) \in S /\ S \in SUBSET Nat
    BY <1>3
<1>5. PICK m \in S : \A k \in S : ~(k < m)
  <2> HIDE DEF S
  <2> QED
      BY <1>4, LeastExists
<1>6. PICK n \in Indices(g) \ C : Rank(n) = m
    BY <1>5
<1>7. PICK l \in Indices(g) \ C : Rank(l) \in Nat /\ Rank(l) < Rank(n)
    BY <1>3
<1>8. Rank(l) \in S
    BY <1>7
<1> QED
    BY <1>5, <1>6, <1>7, <1>8

LEMMA AppendSet ==
    ASSUME NEW T, NEW s \in Seq(T), NEW x \in T
    PROVE  ToSet(Append(s, x)) = ToSet(s) \cup {x}
<1>1. /\ DOMAIN Append(s, x) = DOMAIN s \cup {Len(s) + 1}
      /\ Append(s, x)[Len(s) + 1] = x
      /\ \A j \in DOMAIN s : Append(s, x)[j] = s[j]
    OBVIOUS
<1> QED
    BY <1>1 DEF ToSet

\* Every edge out of n is listed.
LEMMA OutgoingAll ==
    ASSUME NEW g \in Graphs, NEW n
    PROVE  ToSet(Outgoing(g, n)) = OutOf(g, n)
<1> DEFINE es == Those(g.edges, OutOf(g, n))
           T == EdgesBetween(Indices(g))
           S == OutOf(g, n)
<1>1. g.edges \in Seq(T) /\ S \subseteq ToSet(g.edges)
    BY GraphFacts DEF OutOf, EdgesOf
<1> HIDE DEF T, S
<1>2. ToSet(Those(g.edges, S)) = ToSet(g.edges) \cap S
    BY <1>1, ThoseAll
<1>3. Those(g.edges, S) \in Seq(T \cap S)
    BY <1>1, ThoseFacts
<1>4. ToSet(es) = OutOf(g, n) /\ es \in Seq(T \cap S)
    BY <1>1, <1>2, <1>3 DEF S
<1> HIDE DEF es
<1>5. ToSet(Reverse(es)) = ToSet(es)
  <2>1. /\ DOMAIN Reverse(es) = DOMAIN es /\ DOMAIN es = 1..Len(es) /\ Len(es) \in Nat
        /\ \A i \in DOMAIN es : Reverse(es)[i] = es[(Len(es) - i) + 1]
      BY <1>4 DEF Reverse
  <2>2. \A i \in DOMAIN es : (Len(es) - i) + 1 \in DOMAIN es /\ (Len(es) - ((Len(es) - i) + 1)) + 1 = i
      BY <2>1
  <2> QED
      BY <2>1, <2>2 DEF ToSet
<1> QED
    BY <1>4, <1>5 DEF Outgoing, es

LEMMA BranchGrounded ==
    ASSUME NEW g \in Graphs, Grounded(g), NEW n \in Indices(g)
    PROVE  Grounded(Branch(g, n))
<1> DEFINE kids == Tos(Outgoing(g, n))
           k == Len(g.nodes) + 1
           h == Branch(g, n)
           new == Append([i \in DOMAIN kids |-> Edge(k, kids[i], "move")], Edge(n, k, "move"))
           x == Node(0, "branch")
           N == Indices(g) \cup {k}
<1>1. CASE ~IsFallible(g, n)
    BY <1>1 DEF Branch
<1>2. CASE IsFallible(g, n)
  <2>1. h = [nodes |-> Append(g.nodes, x), edges |-> Replaced(g, OutOf(g, n), new)]
      BY <1>2 DEF Branch
  <2>2. kids \in Seq(Indices(g)) /\ ToSet(kids) = {e.to : e \in OutOf(g, n)}
    <3>1. Outgoing(g, n) \in Seq(OutOf(g, n)) /\ kids \in Seq(Indices(g))
        BY EdgeLists
    <3>2. ToSet(Outgoing(g, n)) = OutOf(g, n)
        BY OutgoingAll
    <3> QED
        BY <3>1, <3>2 DEF Tos, ToSet
  <2> HIDE DEF kids
  <2>3. new \in Seq(EdgesBetween(N)) /\ ToSet(new) = {Edge(n, k, "move")} \cup {Edge(k, c, "move") : c \in ToSet(kids)}
    <3> DEFINE ks == [i \in DOMAIN kids |-> Edge(k, kids[i], "move")]
    <3>1. \A i \in DOMAIN kids : kids[i] \in Indices(g) /\ Edge(k, kids[i], "move") \in EdgesBetween(N)
        BY <2>2 DEF Edge, EdgesBetween
    <3>2. Edge(n, k, "move") \in EdgesBetween(N)
        BY DEF Edge, EdgesBetween
    <3> HIDE DEF EdgesBetween, k, N
    <3>3. ks \in Seq(EdgesBetween(N)) /\ ToSet(ks) = {Edge(k, c, "move") : c \in ToSet(kids)}
        BY <2>2, <3>1 DEF ToSet
    <3> HIDE DEF ks
    <3>4. new \in Seq(EdgesBetween(N))
        BY <3>2, <3>3 DEF ks
    <3>5. ToSet(Append(ks, Edge(n, k, "move"))) = ToSet(ks) \cup {Edge(n, k, "move")}
        BY <3>2, <3>3, AppendSet
    <3> QED
        BY <3>3, <3>4, <3>5 DEF ks
  <2> HIDE DEF new
  <2>4. Indices(g) \subseteq N
      OBVIOUS
  <2> HIDE DEF N, h
  <2>5. ToSet(Replaced(g, OutOf(g, n), new)) = (EdgesOf(g) \ OutOf(g, n)) \cup ToSet(new)
      BY <2>3, <2>4, ReplacedEdges
  <2>6. EdgesOf(h) = (EdgesOf(g) \ OutOf(g, n)) \cup ToSet(new)
      BY <2>1, <2>5 DEF EdgesOf
  <2>7. h \in Graphs /\ Indices(h) = Indices(g) \cup {k} /\ k \notin Indices(g)
    <3>1. x \in NodeSet /\ x.role = "branch"
        BY DEF Node, NodeSet, Roles
    <3>2. Replaced(g, OutOf(g, n), new) \in Seq(EdgesBetween(N))
        BY <2>3, <2>4, ReplacedFacts
    <3>3. k \notin Indices(g)
        BY GraphFacts
    <3>4. /\ [nodes |-> Append(g.nodes, x), edges |-> Replaced(g, OutOf(g, n), new)] \in Graphs
          /\ Indices([nodes |-> Append(g.nodes, x), edges |-> Replaced(g, OutOf(g, n), new)]) = Indices(g) \cup {k}
      <4> HIDE DEF x
      <4> QED
          BY <3>1, <3>2, NewNode DEF N
    <3> QED
        BY <2>1, <3>3, <3>4
  <2>8. /\ \A c : Edge(k, c, "move").from = k /\ Edge(k, c, "move").to = c
        /\ Edge(n, k, "move").from = n /\ Edge(n, k, "move").to = k
      BY DEF Edge
  <2> HIDE DEF k, x
  <2>9. /\ \A e \in EdgesOf(g) : e.from # n => e \in EdgesOf(h)
        /\ \A e \in EdgesOf(g) : e.from = n => Edge(k, e.to, "move") \in EdgesOf(h)
        /\ Edge(n, k, "move") \in EdgesOf(h)
      BY <2>2, <2>3, <2>6 DEF OutOf
  <2>10. ASSUME NEW e \in EdgesOf(h), e.from # n, e.from # k PROVE e \in EdgesOf(g)
      BY <2>3, <2>6, <2>8, <2>10
  <2>11. ASSUME NEW e \in EdgesOf(h), e.from = k PROVE \E f \in EdgesOf(g) : f.from = n
    <3>1. e \notin EdgesOf(g)
        BY <2>7, <2>11, ReachEdge
    <3>2. e # Edge(n, k, "move")
        BY <2>7, <2>8, <2>11
    <3>3. PICK c \in ToSet(kids) : e = Edge(k, c, "move")
        BY <2>3, <2>6, <3>1, <3>2
    <3> QED
        BY <2>2, <3>3 DEF OutOf
  <2> SUFFICES ASSUME NEW C, Sinks(h) \subseteq C, \A e \in EdgesOf(h) : e.to \in C => e.from \in C
               PROVE  Indices(h) \subseteq C
      BY DEF Grounded, h
  <2>12. k \in C => n \in C
      BY <2>8, <2>9
  <2>13. \A e \in EdgesOf(g) : e.to \in C => e.from \in C
      BY <2>8, <2>9, <2>12
  <2>14. (\A e \in EdgesOf(g) : e.from # n) => k \in C
    <3> SUFFICES ASSUME \A e \in EdgesOf(g) : e.from # n PROVE k \in C
        OBVIOUS
    <3>1. \A e \in EdgesOf(h) : e.from # k
        BY <2>11
    <3> QED
        BY <2>7, <3>1, SinksAndConsumers
  <2>15. Sinks(g) \subseteq C
    <3> SUFFICES ASSUME NEW s \in Sinks(g) PROVE s \in C
        OBVIOUS
    <3>1. s \in Indices(g) /\ \A e \in EdgesOf(g) : e.from # s
        BY SinksAndConsumers
    <3>2. CASE s = n
        BY <2>12, <2>14, <3>1, <3>2
    <3>3. CASE s # n
      <4>1. s \in Indices(h) /\ \A e \in EdgesOf(h) : e.from # s
          BY <2>7, <2>10, <3>1, <3>3
      <4> QED
          BY <2>7, <4>1, SinksAndConsumers
    <3> QED
        BY <3>2, <3>3
  <2>16. Indices(g) \subseteq C
      BY <2>13, <2>15 DEF Grounded
  <2>17. k \in C
    <3>1. CASE \E e \in EdgesOf(g) : e.from = n
      <4>1. PICK e \in EdgesOf(g) : e.from = n
          BY <3>1
      <4>2. e.to \in C
          BY <2>16, ReachEdge
      <4> QED
          BY <2>8, <2>9, <4>1, <4>2
    <3> QED
        BY <2>14, <3>1
  <2> QED
      BY <2>7, <2>16, <2>17
<1> QED
    BY <1>1, <1>2

\* What is taken by reference instead of by value is a source: no path is lost.
LEMMA TakeReferenceGrounded ==
    ASSUME NEW g \in Graphs, Grounded(g), NEW n \in DOMAIN g.nodes, \A e \in EdgesOf(g) : e.to # n
    PROVE  Grounded(TakeReference(g, n))
<1> DEFINE h == TakeReference(g, n)
           out == Outgoing(g, n)
           k == Len(g.nodes) + 1
           new == [i \in DOMAIN out |-> Edge(k, out[i].to, "move")]
           N == Indices(g) \cup {k}
<1>1. CASE g.nodes[n].role # "input" \/ \E e \in OutOf(g, n) : e.mode = "move"
    BY <1>1 DEF TakeReference
<1>2. CASE g.nodes[n].role = "input" /\ \A e \in OutOf(g, n) : e.mode # "move"
  <2>1. h.edges = Replaced(g, OutOf(g, n), new)
      BY <1>2 DEF TakeReference
  <2>2. h \in Graphs /\ Indices(h) = (Indices(g) \ {n}) \cup {k}
      BY <1>2, TakeReferenceFacts
  <2>3. k \notin Indices(g) /\ n \in Indices(g) /\ n # k
    <3>1. Len(g.nodes) \in Nat /\ DOMAIN g.nodes = 1..Len(g.nodes) /\ Indices(g) \subseteq DOMAIN g.nodes
        BY GraphFacts DEF Indices
    <3>2. n \in Indices(g)
        BY <1>2 DEF Indices
    <3> QED
        BY <3>1, <3>2
  <2>4. out \in Seq(OutOf(g, n)) /\ ToSet(out) = OutOf(g, n)
    <3>1. Outgoing(g, n) \in Seq(OutOf(g, n))
        BY EdgeLists
    <3> QED
        BY <3>1, OutgoingAll
  <2> HIDE DEF out, h
  <2>5. new \in Seq(EdgesBetween(N)) /\ ToSet(new) = {Edge(k, e.to, "move") : e \in ToSet(out)}
    <3>1. \A i \in DOMAIN out : Edge(k, out[i].to, "move") \in EdgesBetween(N)
      <4>1. \A i \in DOMAIN out : out[i] \in EdgesOf(g)
          BY <2>4 DEF OutOf
      <4>2. \A i \in DOMAIN out : out[i].to \in Indices(g)
          BY <4>1, ReachEdge
      <4> QED
          BY <4>2 DEF Edge, EdgesBetween
    <3> HIDE DEF EdgesBetween, k, N
    <3> QED
        BY <2>4, <3>1 DEF ToSet
  <2> HIDE DEF new
  <2>6. Indices(g) \subseteq N
      OBVIOUS
  <2> HIDE DEF N
  <2>7. EdgesOf(h) = (EdgesOf(g) \ OutOf(g, n)) \cup ToSet(new)
    <3>1. ToSet(Replaced(g, OutOf(g, n), new)) = (EdgesOf(g) \ OutOf(g, n)) \cup ToSet(new)
        BY <2>5, <2>6, ReplacedEdges
    <3> QED
        BY <2>1, <3>1 DEF EdgesOf
  <2>8. \A c : Edge(k, c, "move").from = k /\ Edge(k, c, "move").to = c
      BY DEF Edge
  <2> HIDE DEF k
  <2>9. /\ \A e \in EdgesOf(g) : e.from # n => e \in EdgesOf(h)
        /\ \A e \in EdgesOf(g) : e.from = n => Edge(k, e.to, "move") \in EdgesOf(h)
      BY <2>4, <2>5, <2>7 DEF OutOf
  <2>10. \A e \in EdgesOf(h) : e.from # k => e \in EdgesOf(g) /\ e.from # n
      BY <2>5, <2>7, <2>8 DEF OutOf
  <2>11. ASSUME NEW e \in EdgesOf(h), e.from = k PROVE \E f \in EdgesOf(g) : f.from = n
    <3>1. e \notin EdgesOf(g)
        BY <2>3, <2>11, ReachEdge
    <3>2. PICK f \in ToSet(out) : e = Edge(k, f.to, "move")
        BY <2>5, <2>7, <3>1
    <3> QED
        BY <2>4, <3>2 DEF OutOf
  <2> SUFFICES ASSUME NEW C, Sinks(h) \subseteq C, \A e \in EdgesOf(h) : e.to \in C => e.from \in C
               PROVE  Indices(h) \subseteq C
      BY DEF Grounded, h
  <2> DEFINE Cn == C \cup {n}
  <2>12. ASSUME NEW e \in EdgesOf(g), e.to \in Cn PROVE e.from \in Cn
    <3>1. e.to \in C
        BY <2>12
    <3> QED
        BY <2>9, <3>1
  <2>13. Sinks(g) \subseteq Cn
    <3> SUFFICES ASSUME NEW s \in Sinks(g), s # n PROVE s \in C
        OBVIOUS
    <3>1. s \in Indices(g) /\ \A e \in EdgesOf(g) : e.from # s
        BY SinksAndConsumers
    <3>2. s \in Indices(h) /\ \A e \in EdgesOf(h) : e.from # s
        BY <2>2, <2>3, <2>10, <3>1
    <3> QED
        BY <2>2, <3>2, SinksAndConsumers
  <2>14. Indices(g) \subseteq Cn
      BY <2>12, <2>13 DEF Grounded
  <2>15. k \in C
    <3>1. CASE \E e \in EdgesOf(g) : e.from = n
      <4>1. PICK e \in EdgesOf(g) : e.from = n
          BY <3>1
      <4>2. e.to \in C
          BY <2>14, ReachEdge
      <4> QED
          BY <2>8, <2>9, <4>1, <4>2
    <3>2. CASE \A e \in EdgesOf(g) : e.from # n
      <4>1. \A e \in EdgesOf(h) : e.from # k
          BY <2>11, <3>2
      <4> QED
          BY <2>2, <4>1, SinksAndConsumers
    <3> QED
        BY <3>1, <3>2
  <2> QED
      BY <2>2, <2>14, <2>15
<1> QED
    BY <1>1, <1>2

LEMMA BranchedGrounded ==
    ASSUME NEW g \in Graphs, Grounded(g), NEW s \in Seq(Indices(g))
    PROVE  Grounded(Branched!Folded(0, g, s))
<1> DEFINE A == {h \in Graphs : Grounded(h) /\ Indices(g) \subseteq Indices(h)}
<1>1. g \in A
    OBVIOUS
<1>2. ASSUME NEW h \in A, NEW n \in Indices(g) PROVE BranchNode(0, h, n) \in A
  <2>1. h \in Graphs /\ Grounded(h) /\ n \in Indices(h)
      OBVIOUS
  <2> QED
      BY <2>1, BranchFacts, BranchGrounded DEF BranchNode
<1> HIDE DEF A
<1>3. Branched!Folded(0, g, s) \in A
    BY <1>1, <1>2, Branched!FoldStays
<1> QED
    BY <1>3 DEF A

LEMMA TakenGrounded ==
    ASSUME NEW g \in Graphs, Grounded(g), NEW s \in Seq(Sources(g))
    PROVE  Grounded(Taken!Folded(0, g, s))
<1> DEFINE A == {h \in Graphs : /\ Grounded(h)
                                /\ DOMAIN g.nodes \subseteq DOMAIN h.nodes
                                /\ \A e \in EdgesOf(h) : e.to \notin Sources(g)}
<1>1. g \in A
    BY DEF Sources, EdgesOf, ToSet
<1>2. ASSUME NEW h \in A, NEW n \in Sources(g) PROVE TakeOne(0, h, n) \in A
  <2>1. h \in Graphs /\ Grounded(h) /\ n \in DOMAIN h.nodes /\ \A e \in EdgesOf(h) : e.to # n
      BY DEF Sources, Indices
  <2>2. /\ TakeOne(0, h, n) \in Graphs
        /\ DOMAIN h.nodes \subseteq DOMAIN TakeOne(0, h, n).nodes
        /\ \A e \in EdgesOf(TakeOne(0, h, n)) : \E f \in EdgesOf(h) : f.to = e.to
      BY <2>1, TakeReferenceFacts DEF TakeOne
  <2>3. Grounded(TakeOne(0, h, n))
      BY <2>1, TakeReferenceGrounded DEF TakeOne
  <2> QED
      BY <2>2, <2>3
<1> HIDE DEF A
<1>3. Taken!Folded(0, g, s) \in A
    BY <1>1, <1>2, Taken!FoldStays
<1> QED
    BY <1>3 DEF A

LEMMA RewriteGrounded ==
    ASSUME GraphInv, WiredInv, Rewrite
    PROVE  Grounded(graph)'
<1> DEFINE b == Branched!Folded(0, graph, Ascending(graph, Indices(graph)))
           f == Taken!Folded(0, b, Ascending(b, Sources(b)))
<1>1. phase = "rewrite" /\ phase \in Building \ {"start"}
    BY DEF Rewrite, Building
<1>2. SetGraph(f)
  <2>1. PICK c \in {Accumulate(Branch, graph, Ascending(graph, Indices(graph)))} :
            \E d \in {Taken!Folded(0, c, Ascending(c, Sources(c)))} : SetGraph(d)
      BY DEF Rewrite, Accumulate, Taken!Folded, TakeOne
  <2>2. c = b
      BY <2>1 DEF Accumulate, Branched!Folded, BranchNode
  <2> HIDE DEF b
  <2> QED
      BY <2>1, <2>2
<1>3. graph \in Graphs /\ IsApp(app)
    BY DEF GraphInv
<1>4. Grounded(graph)
    BY <1>1, <1>3, WiredGrounded DEF WiredInv
<1>5. b \in Graphs /\ Grounded(b)
    BY <1>3, <1>4, EdgeLists, BranchedFacts, BranchedGrounded
<1> HIDE DEF b
<1>6. Ascending(b, Sources(b)) \in Seq(Sources(b))
    BY <1>5, EdgeLists DEF Sources
<1>7. f \in Graphs /\ Grounded(f)
    BY <1>5, <1>6, TakenFacts, TakenGrounded
<1> HIDE DEF f
<1>8. graph' = f
    BY <1>2, <1>7, GraphFacts DEF SetGraph, graph
<1> QED
    BY <1>7, <1>8 DEF Grounded, Sinks, Indices, EdgesOf

LEMMA ExclusiveInvInit == OInit => ExclusiveInv
BY DEF OInit, Init, ExclusiveInv, Compared, Walking, Settled

LEMMA ExclusiveInvNext == GraphInv /\ WiredInv /\ ExclusiveInv /\ [Next]_vars => ExclusiveInv'
<1> SUFFICES ASSUME GraphInv, WiredInv, ExclusiveInv, [Next]_vars PROVE ExclusiveInv'
    OBVIOUS
<1>1. CASE Build
  <2>1. CASE Rewrite
    <3>1. phase' \in {"multiple", "panicked"}
        BY <2>1 DEF Rewrite
    <3>2. Grounded(graph)'
        BY <2>1, RewriteGrounded
    <3> QED
        BY <3>1, <3>2 DEF ExclusiveInv, Compared, Walking, Settled
  <2>2. CASE CheckAcyclic \/ VisitNode \/ Expand
    <3>1. phase' \in {"start", "rejected", "build", "rewrite"}
        BY <2>2 DEF CheckAcyclic, VisitNode, Expand
    <3> QED
        BY <3>1 DEF ExclusiveInv, Compared, Walking, Settled
  <2> QED
      BY <1>1, <2>1, <2>2 DEF Build
<1>2. CASE Check
    BY <1>2, CheckExclusive
<1>3. CASE Order /\ UNCHANGED checkVars
  <2>1. UNCHANGED <<graphVars, errors>> /\ phase \in Settled
      BY <1>3 DEF Order, StartOrder, Skip, DiscoverNode, Place, ParkNode, NextRound, Top, checkVars, Settled
  <2> QED
      BY <2>1, SameExclusive DEF ExclusiveInv, Compared
<1>4. CASE UNCHANGED vars
  <2>1. UNCHANGED <<graphVars, phase, errors>>
      BY <1>4 DEF vars, checkVars
  <2>2. CASE phase \in Compared
      BY <2>1, <2>2, SameExclusive DEF ExclusiveInv
  <2>3. CASE phase \notin Compared
    <3>1. graph' = graph /\ phase' = phase
        BY <2>1 DEF graphVars, graph
    <3> QED
        BY <2>3, <3>1 DEF ExclusiveInv, Compared
  <2> QED
      BY <2>2, <2>3
<1> QED
    BY <1>1, <1>2, <1>3, <1>4 DEF Next

-----------------------------------------------------------------------------
(* Theorems about the whole analysis. *)

LEMMA Invariants == Spec => [](GraphInv /\ OrderInv)
<1>1. OInit => GraphInv /\ OrderInv
    BY GraphInvInit, OrderInvInit
<1>2. (GraphInv /\ OrderInv) /\ [Next]_vars => (GraphInv /\ OrderInv)'
    BY GraphInvNext, OrderInvNext
<1> QED
    BY <1>1, <1>2, PTL DEF Spec

LEMMA FlowInvariants == Spec => [](GraphInv /\ OrderInv /\ WiredInv /\ ExclusiveInv /\ SinksInv)
<1>1. OInit => WiredInv /\ ExclusiveInv /\ SinksInv
    BY WiredInvInit, ExclusiveInvInit, SinksInvInit
<1>2. GraphInv /\ (WiredInv /\ ExclusiveInv /\ SinksInv) /\ [Next]_vars => (WiredInv /\ ExclusiveInv /\ SinksInv)'
    BY WiredInvNext, ExclusiveInvNext, SinksInvNext
<1> QED
    BY <1>1, <1>2, Invariants, PTL DEF Spec

\* In every application, whatever is inserted, cloned or removed, the edges of
\* the graph join nodes that are there, and the work lists of the passes hold
\* such nodes only: no index into the StableGraph is ever stale.
THEOREM TypeCorrect == Spec => []TypeOK
<1>1. GraphInv /\ OrderInv => TypeOK
  <2> SUFFICES ASSUME GraphInv, OrderInv PROVE TypeOK
      OBVIOUS
  <2>1. graph \in Graphs /\ graph.nodes = nodes
      BY WalkFacts
  <2>2. \A n \in DOMAIN nodes : nodes[n] \in [comp : DOMAIN app.inputs \cup {0}, role : Roles]
      BY <2>1, GraphFacts DEF NodeSet, Comps
  <2>3. \A e \in EdgesOf(graph) :
            e \in [from : Indices(graph), to : Indices(graph), mode : Borrows \cup {"move", "before"}]
      BY <2>1, GraphFacts DEF EdgesBetween
  <2>4. Ended => todo = << >>
      BY DEF GraphInv, Ended, Walking
  <2> QED
      BY <2>2, <2>3, <2>4 DEF TypeOK, GraphInv, OrderInv, PositionInv, Named
<1> QED
    BY <1>1, Invariants, PTL

\* In every application a component that may be invoked at most once is invoked
\* by one node at most, however often it is asked for (NodeDeduplicator).
THEOREM InvokedOnce == Spec => []InvokedAtMostOnce
<1>1. GraphInv => InvokedAtMostOnce
  <2> SUFFICES ASSUME GraphInv PROVE InvokedAtMostOnce
      OBVIOUS
  <2>1. graph \in Graphs /\ graph.nodes = nodes
      BY WalkFacts
  <2>2. Once(graph)
      BY <2>1 DEF Graphs
  <2> QED
      BY <2>1, <2>2 DEF Once, InvokedAtMostOnce, Indices
<1> QED
    BY <1>1, Invariants, PTL

\* In every application whose analysis ends in an order, each node of the graph
\* has a place in it, and whoever uses a value - by reference or by another
\* move - comes before the node that consumes it in the same control flow: the
\* promise of the borrow checker and of OrderedCallGraph.
THEOREM NothingUsedAfterMove == Spec => []NoUseAfterMove
<1>1. GraphInv /\ OrderInv /\ ExclusiveInv /\ SinksInv => NoUseAfterMove
  <2> SUFFICES ASSUME GraphInv, OrderInv, ExclusiveInv, SinksInv, phase = "done"
               PROVE  /\ Placed = Indices(graph)
                      /\ \A m \in MovesOut : \A u \in Uses :
                            u.from = m.from /\ u # m /\ SameFlow(u.to, m.to) => position[u.to] < position[m.to]
      BY DEF NoUseAfterMove
  <2> QED
      BY AllArePlaced, UsedBefore
<1> QED
    BY <1>1, FlowInvariants, PTL
=============================================================================
