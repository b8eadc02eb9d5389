----------------------------- MODULE AssignOrder -----------------------------
(***************************************************************************)
(* OrderedCallGraph::order: the position of every node in the generated    *)
(* function.  A node is placed once the nodes it depends on are, and, if   *)
(* it consumes a value, once everything that borrows the value is.         *)
(***************************************************************************)
EXTENDS CallGraph

VARIABLES
    stack,       \* nodes_to_visit
    discovered,  \* nodes whose dependencies were put on the stack
    blocked,     \* parked_nodes
    nPlaced,     \* n_finished_nodes: nodes with a position at the last fixpoint
    position     \* node_id2position

orderVars == <<stack, discovered, blocked, nPlaced, position>>

InitOrder ==
    /\ stack = << >>
    /\ discovered = {}
    /\ blocked = << >>
    /\ nPlaced = 0
    /\ position = << >>

Placed == DOMAIN position

\* A node waits for what it depends on and, if it consumes a value, for the
\* nodes that borrow the value.
StillBorrowed(a) ==
    \E e \in EdgesOf(graph) : e.from = a /\ e.mode \in Borrows /\ e.to \notin Placed
\* Mutants of IsBlocked: the borrows are not looked at; a Copy value counts as
\* moved.
IsBlockedOnInputs(n) ==
    \E e \in EdgesOf(graph) : e.to = n /\ e.from \notin Placed
IsBlockedOnCopies(n) ==
    \E e \in EdgesOf(graph) :
        e.to = n /\ (e.from \notin Placed \/ (e.mode = "move" /\ StillBorrowed(e.from)))
IsBlocked(n) ==
    \E e \in EdgesOf(graph) :
        /\ e.to = n
        /\ \/ e.from \notin Placed
           \/ e.mode = "move" /\ StillBorrowed(e.from) /\ ~IsCopy(e.from)

StartOrder ==
    /\ phase = "accepted"
    /\ phase' = "order"
    /\ stack' = Ascending(graph, Sinks(graph))
    /\ UNCHANGED <<graphVars, discovered, blocked, nPlaced, position>>

Top(n) == phase = "order" /\ stack # << >> /\ n = Last(stack)

Skip(n) ==
    /\ Top(n)
    /\ n \in Placed
    /\ stack' = Front(stack)
    /\ UNCHANGED <<graphVars, phase, discovered, blocked, nPlaced, position>>

DiscoverNode(n) ==
    /\ Top(n)
    /\ n \notin Placed \cup discovered
    /\ discovered' = discovered \cup {n}
    /\ stack' = stack \o Those(Froms(Incoming(graph, n)), DOMAIN nodes \ Placed)
    /\ UNCHANGED <<graphVars, phase, blocked, nPlaced, position>>

Place(n) ==
    /\ Top(n)
    /\ n \in discovered \ Placed
    /\ ~IsBlocked(n)
    /\ position' = [m \in Placed \cup {n} |-> IF m = n THEN Cardinality(Placed) ELSE position[m]]
    /\ stack' = Front(stack)
    /\ UNCHANGED <<graphVars, phase, discovered, blocked, nPlaced>>

ParkNode(n) ==
    /\ Top(n)
    /\ n \in discovered \ Placed
    /\ IsBlocked(n)
    /\ blocked' = Insert(blocked, n)
    /\ stack' = Front(stack)
    /\ UNCHANGED <<graphVars, phase, discovered, nPlaced, position>>

\* Mutant of NextRound: a round that placed no node is followed by another.
NextRoundForever ==
    /\ phase = "order"
    /\ stack = << >>
    /\ phase' = IF blocked = << >> THEN "done" ELSE phase
    /\ nPlaced' = Cardinality(Placed)
    /\ stack' = blocked
    /\ blocked' = << >>
    /\ UNCHANGED <<graphVars, discovered, position>>
\* The stack is empty: a round that placed no node is the `unreachable!'.
NextRound ==
    /\ phase = "order"
    /\ stack = << >>
    /\ phase' = IF blocked = << >> THEN "done"
                ELSE IF Cardinality(Placed) = nPlaced THEN "stuck" ELSE phase
    /\ nPlaced' = Cardinality(Placed)
    /\ stack' = blocked
    /\ blocked' = << >>
    /\ UNCHANGED <<graphVars, discovered, position>>

Order ==
    \/ StartOrder
    \/ \E n \in DOMAIN nodes : Skip(n) \/ DiscoverNode(n) \/ Place(n) \/ ParkNode(n)
    \/ NextRound
=============================================================================
