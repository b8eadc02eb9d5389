------------------------------ MODULE MCRouting ------------------------------
(* Families of applications for TLC: up to three blueprints. *)
EXTENDS Routing, TLC

Par == "{}"
Path(segs) == [segs |-> segs, tail |-> NoTail]
Rest(segs, tail) == [segs |-> segs, tail |-> tail]
GET == {"GET"}
POST == {"POST"}
ANY == WellKnown
ANY_WITH_EXTENSIONS == AllMethods
Optional(choices) == {<< >>} \cup {<<c>> : c \in choices}
Fallback(has, h) == IF has THEN <<FallbackTo(h)>> ELSE << >>

\* A blueprint y nested next to x, before or after it, or in it.
Tree(place, root, x, y, toX, toY) ==
    ("root" :> (root \o (CASE place = "inside" -> <<toX>>
                           [] place = "before" -> <<toY, toX>>
                           [] place = "after" -> <<toX, toY>>))) @@
    ("x" :> (IF place = "inside" THEN Append(x, toY) ELSE x)) @@ ("y" :> y)
Places == {"inside", "before", "after"}

\* Prefixes, fallbacks, and routes that overlap.
Overlapping ==
    { Tree(p, r, Fallback(f[1], "fx") \o x, y \o Fallback(f[2], "fy"), Nest("x", q[1], NoDomain), Nest("y", q[2], NoDomain)) :
        p \in Places, f \in BOOLEAN \X BOOLEAN, q \in {<< >>, <<"a">>} \X {<< >>, <<"a">>, <<"b">>},
        r \in Optional({RouteAt(Path(<<Par>>), GET, "r"), RouteAt(Path(<<"a", "b">>), GET, "r")}),
        x \in Optional({RouteAt(Path(<<Par>>), GET, "x"), RouteAt(Path(<<"b">>), GET, "x"), RouteAt(Path(<<"b">>), ANY_WITH_EXTENSIONS, "x")}),
        y \in Optional({RouteAt(Path(<<"b">>), POST, "y"), RouteAt(Path(<<Par>>), POST, "y"), RouteAt(Path(<<"">>), GET, "y")}) }

\* Domain guards that match one host, the subdomains, and all below.
Only == Path(<<"dev", "api">>)
Sub == Path(<<"dev", Par>>)
Below == Rest(<<"dev">>, "")
Guarded ==
    { Tree(p, r, Fallback(f[1], "fx") \o x, Fallback(f[2], "fy") \o y, Nest("x", << >>, d[1]), Nest("y", q, d[2])) :
        p \in Places, f \in BOOLEAN \X BOOLEAN, q \in {<< >>, <<"a">>},
        d \in {Only, Sub, NoDomain} \X {Only, Sub, Below, NoDomain},
        r \in Optional({RouteAt(Path(<<"a">>), GET, "r"), FallbackTo("fr")}), x \in Optional({RouteAt(Path(<<"a">>), GET, "x")}),
        y \in Optional({RouteAt(Path(<<"a">>), POST, "y"), RouteAt(Path(<<Par>>), GET, "y")}) }

\* Registrations of one path in any order, by the top-level blueprint, next to a
\* blueprint with a fallback.
Registrations ==
    {RouteAt(Path(<<"a">>), GET, "h"), RouteAt(Path(<<"a">>), POST, "k"), RouteAt(Path(<<"a">>), ANY, "h"), RouteAt(Path(<<"a">>), ANY_WITH_EXTENSIONS, "h"),
     RouteAt(Path(<<"a">>), {"LOCK"}, "k"), RouteAt(Path(<<Par>>), GET, "k"), RouteAt(Rest(<< >>, "a"), GET, "h"),
     RouteAt(Rest(<< >>, "ab"), GET, "k")}
Orders ==
    { ("root" :> (r \o <<Nest("x", <<"a">>, NoDomain)>>)) @@ ("x" :> (<<FallbackTo("fx")>> \o x)) :
        r \in [1..3 -> Registrations], x \in Optional({RouteAt(Path(<<"b">>), GET, "x")}) }

\* Prefixes and domains that are refused, prefixes that end in a parameter, and a
\* path whose routes are grouped with different others.
Odd ==
    { ("root" :> <<Nest("x", q, NoDomain)>>) @@ ("x" :> (Fallback(f, "fx") \o <<RouteAt(Path(<<"b">>), GET, "x")>>)) :
        q \in {<<"a", "">>, <<Par>>, <<Par, "b">>}, f \in BOOLEAN } \cup
    { ("root" :> <<RouteAt(Path(<<Par, "b">>), GET, "h"), RouteAt(Path(<<"a", "b">>), GET, "h"), Nest("x", << >>, NoDomain)>>) @@
      ("x" :> <<FallbackTo("fx"), RouteAt(Path(<<"a", Par>>), GET, "x"), RouteAt(Path(<<"a", "b">>), POST, "x")>>) } \cup
    { ("root" :> <<Nest("x", << >>, Path(<<"dev", "">>))>>) @@ ("x" :> <<RouteAt(Path(<<"b">>), GET, "x")>>) }

Families == Overlapping \cup Guarded \cup Orders \cup Odd
Asked ==
    [host : {<<"dev", "api">>}, method : {"GET", "POST", "LOCK"},
     path : {<<"">>, <<"a">>, <<"b">>, <<"ab">>, <<"a", "">>, <<"a", "b">>, <<"b", "b">>, <<"ab", "b">>}] \cup
    [host : {<<"dev", "api", "a">>, <<"dev", "b">>, << >>}, method : {"GET", "POST"}, path : {<<"a">>, <<"a", "b">>}]
Shorter == {<<"a", "ab">>, <<"a", "a{}">>, <<"a", "ab{}">>, <<"ab", "ab{}">>}
=============================================================================
