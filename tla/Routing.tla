------------------------------- MODULE Routing -------------------------------
(***************************************************************************)
(* Routing in pavexc: how the blueprints of an application, nested in each *)
(* other under prefixes and domains, become a list of components, how the  *)
(* router is built from that list (or refused), and how the generated      *)
(* server picks the handler, or the fallback, that answers a request.      *)
(*                                                                         *)
(* A path is the sequence of its segments: "/a/" is <<"a", "">>.  In a     *)
(* pattern a segment may be a parameter, whose name is left out, and the   *)
(* pattern may end in a catch-all, glued to the start of a segment:        *)
(* "/a{*rest}" has the tail "a", "/a/{*rest}" the tail "".                 *)
(* A domain guard is a pattern for hosts, a host being the sequence of its *)
(* labels from the top-level domain down (DomainGuard::matchit_pattern).   *)
(***************************************************************************)
EXTENDS Integers, Sequences, FiniteSets, FiniteSetsExt, SequencesExt, Iteration

CONSTANTS
    Apps,        \* applications: what each blueprint registers, in order
    Root,        \* the top-level blueprint
    Param,       \* a segment that is a parameter
    Begins,      \* <<s, t>>: segment t begins with s, and is longer
    WellKnown,   \* METHODS
    Extensions,  \* other methods
    Requests     \* [host, path, method]; an empty host if there is none

NoTail == "none"
NoDomain == [segs |-> << >>, tail |-> NoTail]
AllMethods == WellKnown \cup Extensions    \* MethodGuard::Any

\* What a blueprint can register.
RouteAt(path, methods, h) == [kind |-> "route", path |-> path, methods |-> methods, callable |-> h]
FallbackTo(h) == [kind |-> "fallback", callable |-> h]
Nest(bp, prefix, domain) == [kind |-> "nest", bp |-> bp, prefix |-> prefix, domain |-> domain]
Entries(bp, kind) == Accumulate(LAMBDA acc, e : IF e.kind = kind THEN Append(acc, e) ELSE acc, << >>, bp)

Patterns == [segs : Seq(STRING), tail : STRING \cup {NoTail}]
IsEntry(a, e) ==
    \/ /\ e.kind = "route" /\ e = RouteAt(e.path, e.methods, e.callable)
       /\ e.path \in Patterns /\ e.methods \in SUBSET AllMethods
    \/ e.kind = "fallback" /\ e = FallbackTo(e.callable)
    \/ /\ e.kind = "nest" /\ e = Nest(e.bp, e.prefix, e.domain)
       /\ e.bp \in DOMAIN a \ {Root} /\ e.prefix \in Seq(STRING) /\ e.domain \in Patterns
\* Where a blueprint is nested: another blueprint, and the place in it.
Sites(a, b) ==
    UNION {{[in |-> c, at |-> k] : k \in {j \in DOMAIN a[c] : a[c][j].kind = "nest" /\ a[c][j].bp = b}} : c \in DOMAIN a}
\* A blueprint owns those that are nested in it: each but the top-level one is
\* nested exactly once, and they form a tree.
IsApp(a) ==
    /\ IsFiniteSet(DOMAIN a) /\ Root \in DOMAIN a
    /\ \A b \in DOMAIN a : /\ a[b] \in Seq(ToSet(a[b]))
                           /\ \A k \in DOMAIN a[b] : IsEntry(a, a[b][k])
    /\ \A b \in DOMAIN a \ {Root} : \E s \in Sites(a, b) : Sites(a, b) = {s}
    /\ \E depth \in [DOMAIN a -> 0..Cardinality(DOMAIN a)] :
          \A b \in DOMAIN a \ {Root} : \A s \in Sites(a, b) : depth[s.in] < depth[b]
ASSUME RoutingAssumption ==
    /\ \A a \in Apps : IsApp(a)
    /\ \A r \in Requests : r.host \in Seq(STRING) /\ r.path \in Seq(STRING) /\ r.method \in AllMethods
ASSUME BeginsAssumption ==
    /\ \A x \in Begins : x = <<x[1], x[2]>> /\ x[1] # x[2]
    /\ \A x, y \in Begins : x[2] = y[1] => <<x[1], y[2]>> \in Begins
    /\ \A x, y \in Begins : x[2] = y[2] => x[1] = y[1] \/ <<x[1], y[1]>> \in Begins \/ <<y[1], x[1]>> \in Begins

VARIABLES
    app,      \* the blueprints
    phase,    \* "blueprint", "serving", "rejected", "panicked"
    queue,    \* processing_queue, a stack
    comps,    \* the request handlers and fallbacks, by id
    errors,   \* a diagnostic has been emitted
    router,   \* the router of the generated server
    request,  \* the latest request
    answer    \* the id of the component that answered it, 0 before the first
vars == <<app, phase, queue, comps, errors, router, request, answer>>

-----------------------------------------------------------------------------
(* matchit *)

StartsWith(s, t) == (t = "" /\ s # "") \/ <<t, s>> \in Begins
Fits(want, seg) == want = seg \/ (want = Param /\ seg # "")
Matches(p, path) ==
    LET n == Len(p.segs) IN
    /\ n <= Len(path)
    /\ \A i \in 1..n : Fits(p.segs[i], path[i])
    /\ IF p.tail = NoTail THEN Len(path) = n
       ELSE /\ Len(path) > n
            /\ StartsWith(path[n + 1], p.tail) \/ (path[n + 1] = p.tail /\ Len(path) > n + 1)

\* Where patterns that match the same path differ first, a literal comes before
\* a glued catch-all (the longer one first), that before a parameter, and that
\* before a catch-all.
Rank(p, i) ==
    IF i <= Len(p.segs) THEN (IF p.segs[i] = Param THEN 1 ELSE 3)
    ELSE IF p.tail \in {"", NoTail} THEN 0 ELSE 2
SameRanks(p, q, n) == \A j \in 1..n : Rank(p, j) = Rank(q, j)
Before(p, q) ==
    \/ \E i \in 1..(Len(p.segs) + 1) : Rank(p, i) > Rank(q, i) /\ SameRanks(p, q, i - 1)
    \/ <<q.tail, p.tail>> \in Begins /\ SameRanks(p, q, Len(p.segs) + 1)
Hits(patterns, path) == {p \in patterns : Matches(p, path)}
At(patterns, path) ==
    CHOOSE p \in Hits(patterns, path) : \A q \in Hits(patterns, path) : ~Before(q, p)

\* A parameter and a catch-all cannot take the same place.
SamePlace(p, q) ==
    LET n == Len(p.segs) + 1 IN
    p.tail = "" /\ n <= Len(q.segs) /\ q.segs[n] = Param /\ SubSeq(q.segs, 1, n - 1) = p.segs
InsertFails(p, q) == p = q \/ SamePlace(p, q) \/ SamePlace(q, p)

-----------------------------------------------------------------------------
(* process_blueprint *)

Item(bp, chain, prefix, domain) == [bp |-> bp, chain |-> chain, prefix |-> prefix, domain |-> domain]
Join(prefix, path) == [path EXCEPT !.segs = prefix \o path.segs]

\* The scope of a blueprint is the chain of blueprints it is nested in; one
\* scope descends from another if it continues its chain.
Registered(item) ==
    LET bp == app[item.bp]
        Handler(e) == [kind |-> "route", chain |-> item.chain, domain |-> item.domain, callable |-> e.callable,
                       path |-> Join(item.prefix, e.path), methods |-> e.methods]
        Fallback(e) == [kind |-> "fallback", chain |-> item.chain, domain |-> item.domain,
                        callable |-> e.callable, prefix |-> item.prefix]
        routes == Entries(bp, "route")
        fallbacks == Entries(bp, "fallback")
    IN  [i \in DOMAIN routes |-> Handler(routes[i])] \o
        (IF fallbacks # << >> THEN <<Fallback(Last(fallbacks))>>
         ELSE IF item.bp = Root THEN <<Fallback(FallbackTo("default_fallback"))>> ELSE << >>)

\* process_nesting_constraints: a prefix cannot end with a slash, and a domain
\* guard must be valid.
BadPrefix(prefix) == prefix # << >> /\ Last(prefix) = ""
\* DomainGuard::new; an empty label stands for whatever is refused.
BadDomain(guard) == "" \in ToSet(guard.segs)
\* A nested blueprint as it is when its turn comes.
Nested(item, e) ==
    Item(e.bp, Append(item.chain, e.bp), item.prefix \o e.prefix,
         IF e.domain = NoDomain THEN item.domain ELSE e.domain)
Pushed(item) ==
    LET nests == Entries(app[item.bp], "nest") IN [i \in DOMAIN nests |-> Nested(item, nests[i])]
\* The constraints under which a blueprint was nested.
SiteOf(b) == CHOOSE s \in Sites(app, b) : TRUE
NestOf(b) == app[SiteOf(b).in][SiteOf(b).at]

ProcessBlueprint ==
    /\ phase = "blueprint" /\ queue # << >>
    /\ LET item == Last(queue) IN
       IF item.bp # Root /\ (BadPrefix(NestOf(item.bp).prefix) \/ BadDomain(NestOf(item.bp).domain))
       THEN queue' = Front(queue) /\ errors' = TRUE /\ UNCHANGED comps
       ELSE /\ comps' = comps \o Registered(item)
            /\ queue' = Front(queue) \o Pushed(item)
            /\ UNCHANGED errors
    /\ UNCHANGED <<app, phase, router, request, answer>>

-----------------------------------------------------------------------------
(* Router::new *)

Ids == DOMAIN comps
Routes(ids) == {i \in ids : comps[i].kind = "route"}
Fallbacks(ids) == {i \in ids : comps[i].kind = "fallback"}
InOrder(Add(_, _), base, ids) ==
    Accumulate(LAMBDA acc, i : IF i \in ids THEN Add(acc, i) ELSE acc, base, [i \in Ids |-> i])

\* Mutant: the outermost one's.
FallbackOfOutermost(chain) ==
    LET around == {i \in Fallbacks(Ids) : IsPrefix(comps[i].chain, chain)} IN
    CHOOSE i \in around : \A j \in around : IsPrefix(comps[i].chain, comps[j].chain)
\* find_fallback_id: of the blueprints around a scope that have a fallback, the
\* innermost one's.
FallbackOf(chain) ==
    LET around == {i \in Fallbacks(Ids) : IsPrefix(comps[i].chain, chain)} IN
    CHOOSE i \in around : \A j \in around : IsPrefix(comps[j].chain, comps[i].chain)
\* find_common_ancestor
CommonAncestor(ids) == LongestCommonPrefix({comps[i].chain : i \in ids})

\* detect_method_conflicts, detect_path_conflicts
MethodConflict(ids) ==
    \E i, j \in Routes(ids) :
        /\ comps[i].path = comps[j].path /\ comps[i].callable # comps[j].callable
        /\ comps[i].methods \cap comps[j].methods \cap WellKnown # {}
PathConflict(ids) ==
    \E i, j \in Routes(ids) : comps[i].path # comps[j].path /\ InsertFails(comps[i].path, comps[j].path)

\* assign_fallbacks.  The catch-all of a prefix replaces the end of the prefix
\* if that is a parameter, but leaves the brace that opens it, and matchit
\* refuses what comes out.
Prefixed(ids) == {i \in Fallbacks(ids) : comps[i].prefix # << >>}
Unroutable(ids) == \E i \in Prefixed(ids) : Last(comps[i].prefix) = Param
CatchAll(prefix) == [segs |-> Front(prefix), tail |-> Last(prefix)]
\* Its catch-all is already there: a route's, or that of an earlier fallback.
Taken(ids, i) ==
    \/ CatchAll(comps[i].prefix) \in {comps[j].path : j \in Routes(ids)}
    \/ \E j \in Prefixed(ids) : j < i /\ comps[j].prefix = comps[i].prefix
PathFallbacks(ids) == {i \in Prefixed(ids) : ~Taken(ids, i)}
CatchAlls(ids) == {CatchAll(comps[i].prefix) : i \in PathFallbacks(ids)}
FallbackAt(ids, p) == CHOOSE i \in PathFallbacks(ids) : CatchAll(comps[i].prefix) = p

\* The path of a route, looked up as if it were that of a request: a segment of
\* its own stands for the parameter of a catch-all and what it is glued to.
AsRequest(p) == IF p.tail = NoTail THEN p.segs ELSE Append(p.segs, p.tail \o Param)
AmbiguousFallback(ids) ==
    \E i \in Routes(ids) :
        LET path == AsRequest(comps[i].path)
            byPath == FallbackAt(ids, At(CatchAlls(ids), path))
            byScope == FallbackOf(comps[i].chain)
        IN  /\ Hits(CatchAlls(ids), path) # {}
            /\ ~IsPrefix(comps[byPath].chain, comps[byScope].chain)

\* check_method_not_allowed_fallbacks
Grouped(ids) ==
    LET Add(groups, i) ==
            LET known == {g[1] : g \in groups}
                path == AsRequest(comps[i].path)
                leader == IF Hits(known, path) # {} THEN At(known, path) ELSE comps[i].path
            IN  groups \cup {<<leader, FallbackOf(comps[i].chain)>>}
    IN  InOrder(Add, {}, {i \in Routes(ids) : comps[i].methods # AllMethods})
MethodFallbackConflict(ids) == \E g, h \in Grouped(ids) : g[1] = h[1] /\ g[2] # h[2]

\* The leaf routers.
With(leaves, path, leaf) == [p \in DOMAIN leaves \cup {path} |-> IF p = path THEN leaf ELSE leaves[p]]
\* Mutant: the router of a path that is already there is kept.
AddRouteOnce(leaves, i) ==
    LET c == comps[i] IN
    IF c.methods = AllMethods /\ c.path \in DOMAIN leaves THEN leaves
    ELSE With(leaves, c.path,
              IF c.methods = AllMethods THEN [handlers |-> {}, fallback |-> i]
              ELSE IF c.path \in DOMAIN leaves THEN [leaves[c.path] EXCEPT !.handlers = @ \cup {i}]
              ELSE [handlers |-> {i}, fallback |-> FallbackOf(c.chain)])
AddRoute(leaves, i) ==
    LET c == comps[i] IN
    With(leaves, c.path,
         IF c.methods = AllMethods THEN [handlers |-> {}, fallback |-> i]
         ELSE IF c.path \in DOMAIN leaves THEN [leaves[c.path] EXCEPT !.handlers = @ \cup {i}]
         ELSE [handlers |-> {i}, fallback |-> FallbackOf(c.chain)])
AddFallback(leaves, i) == With(leaves, CatchAll(comps[i].prefix), [handlers |-> {}, fallback |-> i])
PathRouter(ids) ==
    [leaves |-> InOrder(AddFallback, InOrder(AddRoute, << >>, Routes(ids)), PathFallbacks(ids)),
     root |-> FallbackOf(CommonAncestor(ids))]

\* is_domain_based
DomainBased == \E i \in Routes(Ids) : comps[i].domain # NoDomain
Mixed == DomainBased /\ \E i \in Routes(Ids) : comps[i].domain = NoDomain
\* domain2components; a router that is domain agnostic has a single entry.
Domains == IF DomainBased THEN {comps[i].domain : i \in Ids} \ {NoDomain} ELSE {NoDomain}
Of(d) == IF DomainBased THEN {i \in Ids : comps[i].domain = d} ELSE Ids

\* detect_domain_conflicts, also for guards of blueprints without handlers.
DomainConflict ==
    LET guards == {NestOf(b).domain : b \in DOMAIN app \ {Root}} \ {NoDomain} IN
    DomainBased /\ \E g, h \in guards : g # h /\ InsertFails(g, h)

Conflict(d) == MethodConflict(Of(d)) \/ PathConflict(Of(d))
Panics(d) == ~Conflict(d) /\ Unroutable(Of(d))
Fails(d) ==
    \/ Conflict(d)
    \/ ~Unroutable(Of(d)) /\ (AmbiguousFallback(Of(d)) \/ MethodFallbackConflict(Of(d)))
\* Mutant: of the fallbacks without a domain, the first is kept.
NewRouterKeepingFirst ==
    [domainBased |-> DomainBased,
     routers |-> [d \in Domains |-> PathRouter(Of(d))],
     root |-> Min({i \in Fallbacks(Ids) : comps[i].domain = NoDomain})]
NewRouter ==
    [domainBased |-> DomainBased,
     routers |-> [d \in Domains |-> PathRouter(Of(d))],
     root |-> Max({i \in Fallbacks(Ids) : comps[i].domain = NoDomain})]

Built(outcome) == phase' = outcome /\ UNCHANGED <<app, queue, comps, errors, request, answer>>
RejectApp ==
    /\ phase = "blueprint" /\ queue = << >>
    /\ \/ Mixed
       \/ \E d \in Domains : Fails(d)
       \/ (errors \/ DomainConflict) /\ \A d \in Domains : ~Panics(d)
    /\ Built("rejected") /\ UNCHANGED router
PanicInsteadOfApp ==
    /\ phase = "blueprint" /\ queue = << >>
    /\ ~Mixed /\ \E d \in Domains : Panics(d)
    /\ Built("panicked") /\ UNCHANGED router
BuildRouter ==
    /\ phase = "blueprint" /\ queue = << >>
    /\ ~errors /\ ~Mixed /\ ~DomainConflict /\ \A d \in Domains : ~Fails(d) /\ ~Panics(d)
    /\ router' = NewRouter
    /\ Built("serving")

-----------------------------------------------------------------------------
(* The generated server: Router::route *)

RouteByPath(r, path, method) ==
    LET patterns == DOMAIN r.leaves
        leaf == r.leaves[At(patterns, path)]
        allowed == {i \in leaf.handlers : method \in comps[i].methods}
    IN  IF Hits(patterns, path) = {} THEN r.root
        ELSE IF allowed = {} THEN leaf.fallback ELSE Min(allowed)
Route(req) ==
    IF ~router.domainBased THEN RouteByPath(router.routers[NoDomain], req.path, req.method)
    ELSE IF Hits(DOMAIN router.routers, req.host) = {} THEN router.root
    ELSE RouteByPath(router.routers[At(DOMAIN router.routers, req.host)], req.path, req.method)

Serve(req) ==
    /\ phase = "serving"
    /\ request' = req /\ answer' = Route(req)
    /\ UNCHANGED <<app, phase, queue, comps, errors, router>>

Init ==
    /\ app \in Apps /\ phase = "blueprint" /\ comps = << >> /\ errors = FALSE
    /\ queue = <<Item(Root, <<Root>>, << >>, NoDomain)>>
    /\ router = << >> /\ request = << >> /\ answer = 0
Next ==
    \/ ProcessBlueprint
    \/ RejectApp
    \/ PanicInsteadOfApp
    \/ BuildRouter
    \/ \E req \in Requests : Serve(req)
Spec == Init /\ [][Next]_vars

-----------------------------------------------------------------------------
(* What the blueprints declare, read off their tree. *)

\* A blueprint is around those nested in it, their paths begin with its prefix,
\* and its domain is theirs unless they have a closer one.
PlaceOf[b \in DOMAIN app] ==
    IF b = Root THEN [chain |-> <<Root>>, prefix |-> << >>, domain |-> NoDomain]
    ELSE LET around == PlaceOf[SiteOf(b).in]
             nest == NestOf(b)
         IN  [chain |-> Append(around.chain, b), prefix |-> around.prefix \o nest.prefix,
              domain |-> IF nest.domain = NoDomain THEN around.domain ELSE nest.domain]
ChainTo(b) == PlaceOf[b].chain
PrefixOf(b) == PlaceOf[b].prefix
DomainOf(b) == PlaceOf[b].domain

Declared(b) ==
    {[in |-> b, path |-> Join(PrefixOf(b), e.path), methods |-> e.methods, callable |-> e.callable] :
        e \in ToSet(Entries(app[b], "route"))}
HasFallback(b) == b = Root \/ Entries(app[b], "fallback") # << >>
Closest(patterns) == {p \in patterns : \A q \in patterns : ~Before(q, p)}
\* Blueprints that have a say in the request: those for the guard that is the
\* closest match for the host, of the guards there is anything for.
Speaks(b) == HasFallback(b) \/ Entries(app[b], "route") # << >>
GuardsHit == {g \in {DomainOf(b) : b \in {c \in DOMAIN app : Speaks(c)}} \ {NoDomain} : Matches(g, request.host)}
Concerned(b) == ~router.domainBased \/ DomainOf(b) \in Closest(GuardsHit)
Present == {b \in DOMAIN app : Speaks(b) /\ Concerned(b)}

RoutesHit == {d \in UNION {Declared(b) : b \in Present} : Matches(d.path, request.path)}
BestHits == {d \in RoutesHit : d.path \in Closest({e.path : e \in RoutesHit})}
\* The blueprints whose fallback claims the path by their prefix.
Claimants ==
    {b \in Present : HasFallback(b) /\ PrefixOf(b) # << >> /\ Matches(CatchAll(PrefixOf(b)), request.path)}
\* The catch-all of a prefix may be a closer match than a route's parameter.
Outranked == \E b \in Claimants : \A d \in BestHits : Before(CatchAll(PrefixOf(b)), d.path)
\* The innermost blueprint with a fallback around all of these.
Encloses(c, b) == IsPrefix(ChainTo(c), ChainTo(b))
Innermost(bs) ==
    LET common == {c \in DOMAIN app : HasFallback(c) /\ \A b \in bs : Encloses(c, b)} IN
    CHOOSE c \in common : \A e \in common : Encloses(e, c)

Answered == phase = "serving" /\ answer # 0
AnsweredBy(kind) == comps[answer].kind = kind
AnsweredIn(b) == comps[answer].chain = ChainTo(b)

\* A request whose path and method fit a route is answered by that route's
\* handler, if the route was registered for the closest guard that matches the
\* host and no other route is a closer match for the path, however deep in the
\* blueprints and in whatever order it was registered; unless the prefix of a
\* blueprint with a fallback is a closer match.  All other requests are answered
\* by a fallback.
RequestsReachTheirHandlers ==
    Answered =>
        LET fit == {d \in BestHits : request.method \in d.methods} IN
        IF fit # {} /\ ~Outranked
        THEN AnsweredBy("route") /\ comps[answer].callable \in {d.callable : d \in fit}
        ELSE AnsweredBy("fallback")

\* A request that no handler answers is answered by the fallback that is
\* closest.  If only the method did not fit, that is the one around a route with
\* the path (check_method_not_allowed_fallbacks is to make sure that it is the
\* same for all of them, but groups routes by what a growing router returns for
\* their paths, so that a closer match registered in between hides one); if
\* prefixes claim the path, that of the longest prefix, and of the outermost
\* blueprint with it; otherwise the one around all that is known of the domain.
\* Requests for other domains go to a fallback that is not tied to any, and not
\* to one around it: the innermost of those nested in each other.
MissesGetTheClosestFallback ==
    Answered /\ AnsweredBy("fallback") =>
        LET claims == {b \in Claimants : CatchAll(PrefixOf(b)) \in Closest({CatchAll(PrefixOf(c)) : c \in Claimants})}
        IN
        IF Present = {}
        THEN LET free == {b \in DOMAIN app : DomainOf(b) = NoDomain /\ HasFallback(b)}
             IN \E b \in free : AnsweredIn(b) /\ \A c \in free : Encloses(b, c) => c = b
        ELSE IF BestHits # {} /\ ~Outranked
        THEN \E d \in BestHits : d.methods # AllMethods /\ AnsweredIn(Innermost({d.in}))
        ELSE IF claims # {}
        THEN \E b \in claims : AnsweredIn(b) /\ \A c \in claims : Encloses(c, b) => c = b
        ELSE AnsweredIn(Innermost(Present))
=============================================================================
