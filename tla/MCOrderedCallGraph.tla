-------------------------- MODULE MCOrderedCallGraph --------------------------
(* Families of applications for TLC. *)
EXTENDS OrderedCallGraph, TLC

In(c, m) == [on |-> c, mode |-> m]
To(c, m) == [comp |-> c, mode |-> m]

\* An application where f[c][d] is how component c takes component d.
App(f, clonable) ==
    LET C == DOMAIN f IN
    [root |-> 1,
     inputs |-> [c \in C |->
        LET ds == SelectSeq([i \in 1..Cardinality(C) |-> i], LAMBDA d : f[c][d] # "none")
        IN [i \in DOMAIN ds |-> In(ds[i], f[c][ds[i]])]],
     calls |-> [c \in C |-> "one"],
     clonable |-> clonable, copy |-> {}, holds |-> [c \in C |-> {}],
     transformers |-> [c \in C |-> << >>], matchers |-> [c \in C |-> << >>],
     errorHandlers |-> {}, newErrors |-> {}, observers |-> << >>]

\* Components 1..n, where only the pairs in w are related.
Ways(n, w) ==
    [c \in 1..n |-> [d \in 1..n |-> IF <<c, d>> \in DOMAIN w THEN w[<<c, d>>] ELSE "none"]]
Modes == {"none", "move", "shared"}
Used(f, D) == \A d \in D : \E c \in DOMAIN f : f[c][d] # "none"

\* A handler and up to three constructors, each taking any of the later ones.
Small ==
    { App(f, k) : f \in {g \in {Ways(4, w) : w \in [{p \in (1..4) \X (1..4) : p[1] < p[2]} -> Modes]} :
                           Used(g, 2..4)},
                  k \in {{}, {4}, {2, 3, 4}} }

\* Two values (4 and 5) shared by two constructors and the handler.
Crossing ==
    { App(f, k) : f \in {g \in {Ways(5, w @@ (<<1, 2>> :> "move") @@ (<<1, 3>> :> "move")) :
                                  w \in [{<<1, 4>>, <<2, 3>>, <<2, 4>>, <<2, 5>>, <<3, 4>>, <<3, 5>>} -> Modes]} :
                           Used(g, 4..5)},
                  k \in {{}, {4}} }

\* Inputs that are prebuilt, transient, Copy or mutably borrowed, and cycles.
Kinds ==
    LET Full(w) == Ways(4, w @@ (<<1, 2>> :> "move"))
        Pairs == {<<1, 3>>, <<1, 4>>, <<2, 3>>, <<2, 4>>, <<3, 4>>, <<4, 2>>}
        Fs == {Full(w) : w \in {v \in [Pairs -> Modes \cup {"exclusive"}] :
                  /\ v[<<2, 4>>] \in {"move", "shared"} /\ v[<<4, 2>>] \in {"none", "shared"}
                  /\ v[<<2, 3>>] # "exclusive" /\ v[<<3, 4>>] \in {"none", "shared"}
                  /\ v[<<1, 3>>] # "none"}}
        Mutable(f) == {d \in 3..4 : f[1][d] = "exclusive"}
    IN { [App(f, k) EXCEPT !.calls[4] = n, !.copy = p] :
            f \in {g \in Fs : Mutable(g) = {}}, k \in {{}, {3, 4}},
            n \in {"one", "none", "many"}, p \in {{}, {4}} }
       \cup { [App(f, {}) EXCEPT !.calls[4] = n, !.copy = p] :
            f \in {g \in Fs : Mutable(g) # {}}, n \in {"one", "none"}, p \in {{}, {4}} }

\* A handler (1) that needs the output (2) of a fallible constructor (3); the
\* Err matcher (4), Error::new (5), the error handler (6), the conversions of
\* the two responses (7, 9) and the error observers (8, 12) need a value (10)
\* that needs another (11).
Failing ==
    LET Pairs == {<<1, 10>>, <<3, 10>>, <<3, 11>>, <<6, 10>>, <<8, 10>>}
        Fs == {Ways(12, w @@ (<<1, 2>> :> "move") @@ (<<2, 3>> :> "move") @@ (<<10, 11>> :> "shared")) :
                  w \in {v \in [Pairs -> Modes] : v[<<8, 10>>] # "move" /\ v[<<6, 10>>] # "move" /\ v[<<3, 11>>] # "shared"}}
        Err(direct, obs) ==
            IF obs = << >> /\ direct THEN << To(6, "shared") >>
            ELSE IF direct THEN << To(5, "move"), To(6, "shared") >> ELSE << To(5, "move") >>
    IN { [App(f, k) EXCEPT
            !.transformers[1] = << To(9, "move") >>, !.transformers[3] = << To(4, "move") >>,
            !.transformers[4] = Err(direct, obs),
            !.transformers[5] = IF direct THEN << >> ELSE << To(6, "shared") >>,
            !.transformers[6] = << To(7, "move") >>,
            !.matchers[3] = << 2, 4 >>, !.errorHandlers = {6}, !.newErrors = {5},
            !.observers = obs, !.calls[8] = "many", !.calls[12] = "many", !.calls[10] = n] :
        f \in Fs, k \in {{}, {10, 11}}, n \in {"one", "none"}, direct \in BOOLEAN,
        obs \in {<< >>, << 8, 12 >>} }

\* Constructors whose outputs keep a reference to some of their inputs, of which
\* one may be Copy or prebuilt.
Holding ==
    { [App(f, k) EXCEPT !.holds = [c \in 1..4 |-> IF c \in h THEN {d \in 2..4 : f[c][d] # "none"} ELSE {}],
                        !.calls[4] = n] :
        f \in {g \in {Ways(4, w) : w \in [{p \in (1..4) \X (1..4) : p[1] < p[2]} -> Modes]} : Used(g, 2..4)},
        h \in {{2}, {3}, {2, 3}}, k \in {{}, {4}}, n \in {"one", "none"} }

Analysed == Small \cup Crossing \cup Kinds \cup Failing \cup Holding

\* handler(a: A, b: &B, c: C), with C(b: B): the depth-first search starts at A.
Uncovered == { App([c \in 1..4 |-> [d \in 1..4 |->
                 CASE <<c, d>> \in {<<1, 2>>, <<1, 4>>, <<4, 3>>} -> "move"
                   [] <<c, d>> = <<1, 3>> -> "shared"
                   [] OTHER -> "none"]], k) : k \in {{}, {3}} }
====
