---------------------------- MODULE BorrowChecker ----------------------------
(***************************************************************************)
(* OrderedCallGraph::borrow_check: three passes that look for values that  *)
(* are consumed while they are still needed, add clones where they may and *)
(* report an error where they may not.                                     *)
(***************************************************************************)
EXTENDS CallGraph

VARIABLES
    todo,       \* the nodes a pass still has to visit, in its order
    seen,       \* nodes a pass has discovered
    finished,   \* nodes a pass is done with
    parked,     \* complex_borrow_check: nodes to try again
    captured,   \* node2captured_nodes
    borrowed,   \* node2borrows
    strategy,   \* strategy_on_block
    unblocked,  \* unblocked_any_node
    nParked,    \* n_parked_nodes; empty before the first round
    errors      \* the consumptions an error was reported for

checkVars == <<todo, seen, finished, parked, captured, borrowed, strategy,
               unblocked, nParked, errors>>
workVars == <<seen, finished, parked, captured, borrowed, strategy, unblocked, nParked>>

InitCheck ==
    /\ todo = << >>
    /\ seen = {}
    /\ finished = {}
    /\ parked = << >>
    /\ captured = << >>
    /\ borrowed = << >>
    /\ strategy = "park"
    /\ unblocked = FALSE
    /\ nParked = << >>
    /\ errors = {}

-----------------------------------------------------------------------------
(* multiple_consumers: a value consumed by several nodes that may run in   *)
(* the same control flow, those that reach the same sink.                  *)

Consumers(g, n) == {e.to : e \in {x \in OutOf(g, n) : x.mode = "move"}}
\* Mutant of Rivals: two consumers do not compete.
RivalsOfThree(g, n, sink) ==
    LET rivals == {c \in Consumers(g, n) : sink \in Reach(g, c)}
    IN IF Cardinality(rivals) > 2 THEN rivals ELSE {}
Rivals(g, n, sink) ==
    LET rivals == {c \in Consumers(g, n) : sink \in Reach(g, c)}
    IN IF Cardinality(rivals) > 1 THEN rivals ELSE {}

\* In every competing set, all but the last consumer get a clone.
GetClones(g, n) ==
    LET More(acc, sink) ==
            LET left == Rivals(g, n, sink) \ ToSet(acc)
            IN IF Cardinality(left) <= 1 THEN acc ELSE acc \o Front(Ascending(g, left))
    IN Accumulate(More, << >>, Ascending(g, Sinks(g)))

CheckConsumers(acc, n) ==
    LET g == acc.g
        rivals == UNION {Rivals(g, n, s) : s \in Sinks(g)}
    IN IF rivals = {} \/ IsCopy(n) \/ nodes[n].role = "refmut" THEN acc
       ELSE IF Clonable(n)
       THEN [acc EXCEPT !.g = Accumulate(LAMBDA h, c : WithClone(h, n, c), g, GetClones(g, n))]
       ELSE [acc EXCEPT !.errors = @ \cup {<<n, c>> : c \in rivals}]

MultipleConsumers ==
    /\ phase = "multiple"
    /\ \E r \in {Accumulate(CheckConsumers, [g |-> graph, errors |-> errors],
                          Ascending(graph, Indices(graph)))} :
          /\ SetGraph(r.g)
          /\ errors' = r.errors
          /\ todo' = Ascending(r.g, Sources(r.g))
    /\ phase' = "captures"
    /\ UNCHANGED <<app, workVars>>

-----------------------------------------------------------------------------
(* move_while_borrowed, forward pass: the references a node's output keeps. *)

\* Whether the output of b keeps a reference to its input a, and whether b
\* keeps what a keeps.  Types are compared: an input taken by reference has
\* another type, and `match' nodes and matchers are no callables.
KeepsAll(b, a) ==
    /\ nodes[a].role \notin {"ref", "refmut", "branch"}
    /\ \/ nodes[b].role = "clone"
       \/ nodes[b].role = "compute" /\ nodes[a].comp \in app.holds[nodes[b].comp]
Keeps(b, a) == KeepsAll(b, a) /\ nodes[b].role = "compute" /\ Edge(a, b, "shared") \in EdgesOf(graph)
CapturedBy(n) == IF n \in DOMAIN captured THEN captured[n] ELSE {}

Capture ==
    /\ phase = "captures"
    /\ todo # << >>
    /\ LET n == Head(todo)
           deps == {e.from : e \in {x \in Into(graph, n) : x.mode # "before"}}
           held == CapturedBy(n)
                   \cup UNION {CapturedBy(a) : a \in {d \in deps : KeepsAll(n, d)}}
                   \cup {a \in deps : Keeps(n, a)}
       IN /\ seen' = seen \cup {n}
          /\ captured' = [m \in DOMAIN captured \cup {n} |->
                             IF m = n THEN held ELSE captured[m]]
          /\ todo' = Tail(todo) \o Those(Tos(Outgoing(graph, n)), DOMAIN nodes \ seen')
    /\ UNCHANGED <<graphVars, phase, finished, parked, borrowed, strategy, unblocked, nParked, errors>>

\* The backward pass starts from the first source, which is unwrapped.
StartMoves ==
    /\ phase = "captures"
    /\ todo = << >>
    /\ IF Sources(graph) = {} THEN phase' = "panicked" /\ UNCHANGED todo
       ELSE phase' = "moves" /\ todo' = << Ascending(graph, Sources(graph))[1] >>
    /\ seen' = {}
    /\ UNCHANGED <<graphVars, finished, parked, captured, borrowed, strategy, unblocked, nParked, errors>>

-----------------------------------------------------------------------------
(* move_while_borrowed, backward pass: a depth-first search in post-order, *)
(* so that the nodes that depend on a node come before it.                 *)

Discover ==
    /\ phase = "moves"
    /\ todo # << >>
    /\ Last(todo) \notin seen
    /\ seen' = seen \cup {Last(todo)}
    /\ todo' = todo \o Those(Tos(Outgoing(graph, Last(todo))), DOMAIN nodes \ seen')
    /\ UNCHANGED <<graphVars, phase, finished, parked, captured, borrowed, strategy,
                   unblocked, nParked, errors>>

BorrowedFrom(m) == IF m \in DOMAIN borrowed THEN borrowed[m] ELSE {}
BorrowedLater(n) == UNION {BorrowedFrom(e.to) : e \in OutOf(graph, n)}
\* Mutant of SharedNow: only what the node itself borrows.
SharedNowDirectly(n) == {e.from : e \in {x \in Into(graph, n) : x.mode = "shared"}}
SharedNow(n) ==
    UNION {CapturedBy(e.from) : e \in Into(graph, n)}
        \cup {e.from : e \in {x \in Into(graph, n) : x.mode = "shared"}}
MutablyNow(n) == {e.from : e \in {x \in Into(graph, n) : x.mode = "exclusive"}}

\* try_clone, or the error for a mutable borrow: one edge into n.
CheckMove(acc, e) ==
    IF e.from \notin SharedNow(e.to) \cup BorrowedLater(e.to) THEN acc
    ELSE IF e.mode = "exclusive" THEN [acc EXCEPT !.errors = @ \cup {<<e.from, e.to>>}]
    ELSE IF e.mode # "move" \/ IsCopy(e.from) THEN acc
    ELSE IF Clonable(e.from) THEN [acc EXCEPT !.g = WithClone(@, e.from, e.to)]
    ELSE [acc EXCEPT !.errors = @ \cup {<<e.from, e.to>>}]

Leave ==
    /\ phase = "moves"
    /\ todo # << >>
    /\ Last(todo) \in seen
    /\ todo' = Front(todo)
    /\ LET n == Last(todo) IN
       \E r \in {Accumulate(CheckMove, [g |-> graph, errors |-> errors], Incoming(graph, n))} :
          IF n \in finished THEN UNCHANGED <<graphVars, borrowed, finished, errors>>
          ELSE /\ SetGraph(r.g)
               /\ errors' = r.errors
               /\ borrowed' = [m \in DOMAIN borrowed \cup {n} |->
                     IF m = n THEN SharedNow(n) \cup MutablyNow(n) \cup BorrowedLater(n)
                     ELSE borrowed[m]]
               /\ finished' = finished \cup {n}
               /\ UNCHANGED app
    /\ UNCHANGED <<phase, seen, parked, captured, strategy, unblocked, nParked>>

\* borrow_check: the subtle violations are looked for if there is no obvious one.
StartComplex ==
    /\ phase = "moves"
    /\ todo = << >>
    /\ IF errors # {} THEN phase' = "rejected" /\ UNCHANGED <<todo, finished>>
       ELSE phase' = "complex" /\ todo' = Ascending(graph, Sinks(graph)) /\ finished' = {}
    /\ UNCHANGED <<graphVars, seen, parked, captured, borrowed, strategy, unblocked, nParked, errors>>

-----------------------------------------------------------------------------
(* complex_borrow_check: from the sinks upwards, a node is done when none  *)
(* of its inputs is consumed by it and borrowed by a node not yet done.    *)

\* OwnershipRelationships: the borrows of finished nodes have been removed.
\* Mutant of IsBorrowed: the borrows of finished nodes are not removed.
IsBorrowedForever(a, done) == \E c \in Indices(graph) : BorrowsFrom(graph, c, a)
IsBorrowed(a, done) == \E c \in Indices(graph) \ done : BorrowsFrom(graph, c, a)
\* Mutant of BlockedOn: a Copy value counts as moved.
BlockedOnCopies(b, done) ==
    {e.from : e \in {x \in Into(graph, b) :
        Consumes(graph, b, x.from) /\ IsBorrowed(x.from, done)}}
BlockedOn(b, done) ==
    {e.from : e \in {x \in Into(graph, b) :
        Consumes(graph, b, x.from) /\ IsBorrowed(x.from, done) /\ ~IsCopy(x.from)}}
ParkedNodes == ToSet(parked)

\* The nodes above n that may be visited next.
Freed(n, blocked) ==
    Those(Froms(Incoming(graph, n)), DOMAIN nodes \ (blocked \cup finished \cup ParkedNodes))
Extended(s, t) == Accumulate(Insert, s, t)

Complex(n) ==
    /\ phase = "complex"
    /\ todo # << >>
    /\ n = Last(todo)

Finish(n) ==
    /\ Complex(n)
    /\ BlockedOn(n, finished) = {}
    /\ finished' = finished \cup {n}
    /\ todo' = Extended(Front(todo), Freed(n, {}))
    /\ UNCHANGED <<graphVars, phase, seen, parked, captured, borrowed, strategy, unblocked, nParked, errors>>

Park(n) ==
    /\ Complex(n)
    /\ strategy = "park"
    /\ BlockedOn(n, finished) # {}
    /\ parked' = Insert(parked, n)
    /\ todo' = Extended(Front(todo), Freed(n, BlockedOn(n, finished)))
    /\ UNCHANGED <<graphVars, phase, seen, finished, captured, borrowed, strategy, unblocked, nParked, errors>>

\* What happens when there is nothing left to visit, or a clone was added.
Fixpoint(rest, waiting, freed) ==
    IF waiting = << >> \/ (<<Len(waiting)>> = nParked /\ strategy = "error")
    THEN /\ phase' = IF errors = {} THEN "accepted" ELSE "rejected"
         /\ todo' = << >>
         /\ UNCHANGED <<parked, strategy, nParked>>
    ELSE /\ strategy' = IF <<Len(waiting)>> # nParked THEN strategy
                        ELSE IF strategy = "park" THEN "clone"
                        ELSE IF freed THEN "park" ELSE "error"
         /\ nParked' = <<Len(waiting)>>
         /\ todo' = Extended(rest, waiting)
         /\ parked' = << >>
         /\ UNCHANGED phase

\* The first input that may be cloned is; the visit of the others is cut short
\* once a clone was ever added.
Clone(n) ==
    /\ Complex(n)
    /\ strategy = "clone"
    /\ BlockedOn(n, finished) # {}
    /\ LET blocked == BlockedOn(n, finished)
           candidates == Those(Froms(Incoming(graph, n)), {a \in blocked : Clonable(a)})
           freed == unblocked \/ candidates # << >>
           rest == Extended(Front(todo), Freed(n, blocked))
       IN /\ SetGraph(IF candidates = << >> THEN graph ELSE WithClone(graph, candidates[1], n))
          /\ unblocked' = freed
          /\ IF freed THEN Fixpoint(rest, Insert(parked, n), freed)
             ELSE todo' = rest /\ parked' = Insert(parked, n) /\ UNCHANGED <<phase, strategy, nParked>>
    /\ UNCHANGED <<app, seen, finished, captured, borrowed, errors>>

Report(n) ==
    /\ Complex(n)
    /\ strategy = "error"
    /\ BlockedOn(n, finished) # {}
    /\ errors' = errors \cup {<<a, n>> : a \in BlockedOn(n, finished)}
    /\ todo' = Extended(Front(todo), Freed(n, BlockedOn(n, finished)))
    /\ UNCHANGED <<graphVars, phase, seen, finished, parked, captured, borrowed, strategy, unblocked, nParked>>

EndOfRound ==
    /\ phase = "complex"
    /\ todo = << >>
    /\ Fixpoint(<< >>, parked, unblocked)
    /\ UNCHANGED <<graphVars, seen, finished, captured, borrowed, unblocked, errors>>

Check ==
    \/ MultipleConsumers \/ Capture \/ StartMoves \/ Discover \/ Leave \/ StartComplex
    \/ \E n \in DOMAIN nodes : Finish(n) \/ Park(n) \/ Clone(n) \/ Report(n)
    \/ EndOfRound
=============================================================================
