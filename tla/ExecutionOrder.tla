--------------------------- MODULE ExecutionOrder ---------------------------
(***************************************************************************)
(* The order in which the middlewares and the handler of a request run, as *)
(* a user of the framework is told it is: by walking the list in which     *)
(* they were registered.  There are no stages here.                        *)
(*                                                                         *)
(* Pre-processing and wrapping middlewares and the handler run in the      *)
(* order of registration, until one of them answers.  On the way out, the  *)
(* wrapping middlewares that are open complete, the innermost first, each  *)
(* after the post-processing middlewares registered after it and before    *)
(* the next one have run, in the order of registration.                    *)
(***************************************************************************)
EXTENDS Naturals, Sequences

VARIABLES
    kinds,   \* what was registered, in order; the first is a wrapping middleware
    trail    \* what happened: a member runs, answers early, or completes

Event(i, w) == [member |-> i, what |-> w]
Did(i, w) == \E n \in DOMAIN trail : trail[n] = Event(i, w)
Ran(i) == \E w \in {"runs", "answers"} : Did(i, w)

Inward(i) == kinds[i] # "post"
Answered == \E i \in DOMAIN kinds : Did(i, "answers")
Open(w) == kinds[w] = "wrap" /\ Did(w, "runs") /\ ~Did(w, "completes")
Innermost(w) == Open(w) /\ \A v \in DOMAIN kinds : v > w => ~Open(v)
\* The wrapping middleware around a member.
Around(w, i) == kinds[w] = "wrap" /\ w < i /\ \A v \in (w + 1)..(i - 1) : kinds[v] # "wrap"

Log(i, w) == trail' = Append(trail, Event(i, w)) /\ UNCHANGED kinds

\* On the way in, a member calls the rest or answers itself; the handler can
\* only answer.
Enter(i) ==
    /\ Inward(i) /\ ~Ran(i) /\ ~Answered
    /\ \A j \in 1..(i - 1) : Inward(j) => Ran(j)
    /\ \/ kinds[i] # "handler" /\ Log(i, "runs")
       \/ Log(i, "answers")

\* On the way out.
Post(i) ==
    /\ kinds[i] = "post" /\ ~Ran(i) /\ Answered
    /\ \E w \in DOMAIN kinds : Innermost(w) /\ Around(w, i)
    /\ \A j \in 1..(i - 1) : kinds[j] = "post" /\ (\E w \in DOMAIN kinds : Around(w, i) /\ Around(w, j)) => Ran(j)
    /\ Log(i, "runs")

Complete(w) ==
    /\ Innermost(w) /\ Answered
    /\ \A i \in DOMAIN kinds : kinds[i] = "post" /\ Around(w, i) => Ran(i)
    /\ Log(w, "completes")

Init == trail = << >>
Next == \E i \in DOMAIN kinds : Enter(i) \/ Post(i) \/ Complete(i)
Spec == Init /\ [][Next]_<<kinds, trail>>
=============================================================================
