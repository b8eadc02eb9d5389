-------------------------- MODULE MCRequestPipeline --------------------------
(* Families of applications for TLC: two types, up to four middlewares. *)
EXTENDS RequestPipeline, TLC

Member(k, s, a, b) == [kind |-> k, scope |-> s, takes |-> <<a, b>>]
Comp(t, s, l, f, c) == [type |-> t, scope |-> s, life |-> l, takes |-> f, clonable |-> c]
Middlewares == {"pre", "wrap", "post"}

\* One blueprint.  Three middlewares of any kind and the handler share a
\* component in any way; it is built from another, which two of them also take
\* unless it is a singleton.
Flat ==
    { [parent |-> <<0>>,
       chain |-> <<Member(kinds[1], 1, a[1], 0), Member(kinds[2], 1, a[2], l[4]),
                   Member(kinds[3], 1, a[3], 0), Member("handler", 1, a[4], l[4])>>,
       comps |-> <<Comp(1, 1, "request", <<0, l[2]>>, l[3]), Comp(2, 1, l[1], <<0, 0>>, l[5])>>] :
        kinds \in [1..3 -> Middlewares], a \in [1..4 -> Modes],
        l \in {<<"request", Owned, TRUE, Shared, TRUE>>, <<"transient", Owned, FALSE, Shared, TRUE>>,
               <<"singleton", Shared, FALSE, Absent, TRUE>>,
               <<"incoming", Owned, TRUE, Shared, FALSE>>, <<"incoming", Shared, FALSE, Owned, TRUE>>} }

\* One blueprint.  Four middlewares and the handler share a component.
Long ==
    { [parent |-> <<0>>,
       chain |-> [i \in 1..5 |-> Member(IF i = 5 THEN "handler" ELSE kinds[i], 1, a[i], 0)],
       comps |-> <<Comp(1, 1, "request", <<0, 0>>, c)>>] :
        kinds \in [1..4 -> Middlewares], a \in [1..5 -> {Shared, Owned}], c \in BOOLEAN }

\* A blueprint nested in another; each has two middlewares.
Two(kinds, a, b, comps) ==
    [parent |-> <<0, 1>>,
     chain |-> [i \in 1..5 |-> Member(IF i = 5 THEN "handler" ELSE kinds[i], IF i < 3 THEN 1 ELSE 2, a[i], b[i])],
     comps |-> comps]
Users(a, s) == {i \in DOMAIN a.chain : a.chain[i].scope = s /\ a.chain[i].takes[1] # Absent}
\* At most one member of blueprint s takes the first type, or its first
\* middleware is a wrapping one.
HasPlace(a, s) == Cardinality(Users(a, s)) < 2 \/ a.chain[2 * s - 1].kind = "wrap"

\* The first component is the nested blueprint's, and is built from the second,
\* the outer one's.
Dependent ==
    { Two(kinds, <<0, 0>> \o a, b \o <<0, 0>>,
          <<Comp(1, 2, "request", <<0, Shared>>, FALSE), Comp(2, 1, "request", <<0, 0>>, TRUE)>>) :
        kinds \in [1..4 -> Middlewares], a \in [1..3 -> Modes], b \in {<<0, 0, Shared>>, <<0, Shared, 0>>} }
\* The nested blueprint's component needs nothing.
Private ==
    { Two(kinds, <<0, 0>> \o a, [i \in 1..5 |-> Absent], <<Comp(1, 2, "request", <<0, 0>>, FALSE)>>) :
        kinds \in [1..4 -> Middlewares], a \in [1..3 -> Modes] }
\* Both have a constructor for the same type.
Overridden ==
    { Two(kinds, a, [i \in 1..5 |-> Absent],
          <<Comp(1, 1, "request", <<0, 0>>, TRUE), Comp(1, 2, "request", <<0, 0>>, TRUE)>>) :
        kinds \in [1..4 -> Middlewares], a \in [1..5 -> {Absent, Shared}] }

Nested ==
    Private \cup {a \in Dependent : HasPlace(a, 2)} \cup {a \in Overridden : HasPlace(a, 1) /\ HasPlace(a, 2)}

\* Two pre-processing middlewares and the handler; no component may be cloned.
Takers ==
    { [parent |-> <<0>>,
       chain |-> <<Member("pre", 1, a[1], 0), Member("pre", 1, a[2], 0), Member("handler", 1, a[3], 0)>>,
       comps |-> <<Comp(1, 1, l, <<0, 0>>, FALSE)>>] :
        a \in [1..3 -> Modes], l \in {"request", "incoming"} }

Families == Flat \cup Long \cup Nested
=============================================================================
