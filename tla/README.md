# Pavex in TLA+

Models, model-checking runs and machine-checked proofs for
[Pavex](../src/README.md), a Rust web framework: its sessions and its HTTP
server, the core of its compiler (call graphs, middleware pipelines, routing),
and the stateful parts of its command line tools. Every definition is translated
from the code; `PROJECT.json` ("map") names the lines it stands for.

Contents: [the system](#the-system) · [the modules](#the-modules) ·
[runs](#the-runs) · [what the runs found](#where-code-and-words-disagree) ·
[proofs](#the-proofs) · [what is left out](#what-is-not-modelled) ·
[plan](#plan) · [how to run](#how-to-run).

## The system

Pavex has a run-time half, linked into every application, and a compile-time
half, which turns a blueprint into the source of a server. The run-time half
and the command line tools hold state that several actors share. The compiler
is a single thread, but a long one: passes rewrite graphs that later passes
take for granted, and what it emits then runs for every request. In both a model
checker sees more than a test: interleavings in one, the combinations of
registrations in the other.

| Component (under `src/libs/`) | State it keeps | Operations | Hard behaviour | What makes it correct |
|---|---|---|---|---|
| `pavex_session` (`session_.rs`, `middleware.rs`, `incoming.rs`) | per request: id (existing, to be renamed, new), server state in a cell, client state, invalidation flag; in the browser: a cookie | load, insert, remove, clear, delete, invalidate, cycle_id, client-side methods, sync, finalize | requests of one browser overlap at every store call; records expire under them; clients go away; loads race | ids given up stay dead; finalized changes are stored; cookie and store agree; the internal assertions hold |
| `pavex_session` (`store_.rs`) | the contract of a storage backend | create, update, update_ttl, load, delete, change_id, delete_expired | error variants decide what `sync` does next | an expired record is indistinguishable from none |
| `pavex_session_memory_store` | a map behind a mutex, with stale entries | the same | expiry without removal | it keeps the contract |
| `pavex_session_sqlx` | a table | the same, in SQL | conditional upserts, time zones, boundaries | it keeps the contract |
| `pavex/src/server` | acceptor, workers, bounded channels, open connections | shutdown (graceful, forced), await, accept, dispatch, restart, serve | threads, full queues, crashes, two timers, racing callers | connections are refused only by everybody; a graceful shutdown in time cuts nothing; every call returns |
| `pavex/src/request/body` | none | extract with a size limit | declared against real length | nothing above the limit is buffered |
| `pavex_cli` state file, on `pavex_cli_flock` | one TOML file | get and set two fields | several processes, advisory locks, kill | updates are atomic |
| `pavex_cli` compiler installation | a binary on disk | check, download, chmod | several processes, kill between steps | what is executed is complete |
| `persist_if_changed`, `pavexc` persistence | generated files | write only what differs | kill between truncate and write | unchanged content keeps its mtime |
| `pavexc` rustdoc cache | an SQLite database | get, insert, evict | several compiler processes | a hit is what would be computed |
| `pavexc` call graphs (`analyses/call_graph`) | a graph per handler or middleware, nodes parked by each pass, what outputs keep borrowed | build, add transformers, error observers and matches; three borrow checks that add clones; order | each pass is a fixed point whose outcome depends on the order of visits; a clone too few does not compile, one too many is silent | the order respects moves and borrows; clones and rejections only if there is no other way; the analysis ends |
| `pavexc` pipelines (`analyses/processing_pipeline`) | which stage builds what, what each stage passes down, which members get clones | count, combine, check, enforce, generate; the generated functions | values shared by graphs that were each checked alone; early answers | nothing is used after a move; middlewares run in the documented order; `Next` carries the minimum |
| `pavexc` routing (`analyses/user_components`, `codegen/router.rs`) | components in registration order, scopes, a router per domain | process blueprints, assign fallbacks, detect conflicts, build the router; dispatch a request | nesting, prefixes and domains interact; three lookups must agree on a fallback | a request gets the handler registered for it, or else the closest fallback |
| `pavexc` other analyses and code generation | component databases, generated source | resolution of types and paths, validation, printing | – | – |
| macros, attribute parser, diagnostics, shell, clients, test tooling | none | conversions | – | – |

Interactions. A request handler gets a `Session` built by `IncomingSession`
from the cookie the browser sent. It calls the `SessionStore`, which wraps a
backend, at every load and sync. `finalize_session`, a post-processing
middleware, calls `Session::finalize` and attaches the cookie. Handlers run as
tasks inside a worker thread of the server; a worker drops them when it is cut
short or when the connection goes away, which is how a request ends between two
store calls. The acceptor thread feeds the workers through one bounded channel
each and is itself commanded through a bounded channel by any clone of
`ServerHandle`. The application that a worker runs is what the compiler
generated: `route` picks the pipeline of a handler or a fallback, whose first
stage calls the next through `Next`. A pipeline combines the call graphs of its
members, and each is ordered and borrow-checked on its own. Separate processes of the command line tool share
`~/.pavex/state.toml` under `flock`.

Every hazard found while reading is in `PROJECT.json` ("hazards"), at the line
where it bites, with the properties that cover it.

## The modules

```
SessionStorage        what a backend promises
   ^ implements (TLC run memory_store, theorem BackendImplementsContract)
MemoryStoreSpec       the in-memory backend, called by anybody
   | extends
MemoryStore           one operator per operation of the backend
   ^ extends
Session               requests, their sessions, the browser   <- MCSession

Server                acceptor, workers, callers of ServerHandle

CallGraph             nodes, edges, clones
   ^ extended by CoreGraph (construction), BorrowChecker, AssignOrder
OrderedCallGraph      the three in sequence                   <- MCOrderedCallGraph

ExecutionOrder        the order of middlewares a user is told
   ^ implements (TLC run pipeline, theorem OrderIsAsDocumented)
RequestPipeline       the generated functions serving a request <- MCRequestPipeline
   | extends
Pipeline              the analysis that generates them

Routing               blueprints, router, dispatch            <- MCRouting
StateFile             processes that share state.toml

Iteration             loops over lists, for CallGraph and Routing

MemoryStore_proof, Session_proof, Server_proof,
FoldFacts <- OrderedCallGraph_proof, Routing_proof,
RequestPipeline_proof <- DocumentedOrder_proof
```

**MemoryStore** (`pavex_session_memory_store/src/lib.rs`). `records` is the
HashMap. The backend locks it for the whole of every operation, so every
operation is one atomic operator that takes the outcome it returns and is
enabled for exactly that outcome. A record is the set of keys it holds, values
being opaque to sessions and store alike, and the time it has left. The code
compares a deadline with the clock; `Elapse` takes a unit from every record
instead, and a record at zero is stale: still in the map, ignored by every
operation. `DeleteExpired` removes all stale records or any batch of them,
the map having no order.

**SessionStorage** (`pavex_session/src/store_.rs`) is the contract of the
trait: only live records exist, and the last reply is observable.
**MemoryStoreSpec** lets anybody call the in-memory backend with anything and
refines it with `live <- [id \in Ids |-> Loaded(id)]`.

**Session** (`pavex_session/src/session_.rs`, `middleware.rs`). One variable
per field of the Rust struct, indexed by request: `id`, `server` (the
`OnceCell`; `NotLoaded` is the empty cell), `client`, `invalidated`; `pc` says
where the processing of a request stands, `loads` holds answers of the store
that a racing load has yet to put into the cell, `jar` is the browser's cookie,
`response` what finalize returned. `dirty` and `retired` are history: they are
written and never read by an action, except that `retired` forgets an id that
is drawn again.

| Action | Code |
|---|---|
| `Arrive` | `IncomingSession::extract`, `Session::new` |
| `StartLoad`, `FinishLoad`, `LoadFails` | `force_load` before and after its await; several may be in flight through `&self` methods |
| `Insert`, `Remove`, `Clear`, `DeleteState`, `Invalidate`, `CycleId` | the `&mut self` methods, after their load |
| `ClientInsert`, `ClientRemove`, `ClientClear` | `ClientSessionStateMut` |
| `Sync`, `Finalize` | `sync` called by the handler, or by `finalize`: one store call, and what follows it if it is the last |
| `CreateRenamed` | the second store call of a `sync` that renames |
| `Deliver` | `finalize_session` attaches the cookie; the response arrives |
| `Abandon` | the request's future is dropped at an await point |
| `ForgetCookie`, `TimePasses`, `CollectExpired` | the browser, the clock, a clean-up task |

`SessionId::random` is taken to return an id unknown to store, browser and
requests in progress; an id that everybody forgot may be drawn again, so that a
few ids stand for endlessly many.

**Server** (`pavex/src/server`). The acceptor and its listener tasks share one
single-threaded runtime, so nothing is accepted while the acceptor dispatches
or shuts down; workers and callers interleave with each of its steps. `Connect`
is a client together with the accept task of a listener; `TakeAccepted`,
`DispatchSucceeds`, `DispatchFails`, `GiveUp` are the arms of the dispatch loop,
one worker per step, with `next_worker` where the code leaves it;
`ReceiveCommand`, `FinishShutdown`, `ShutdownTimesOut` are
`Acceptor::shutdown`; `TakeConnection`, `StartDraining`, `Drained`,
`DrainTimesOut`, `ForcedStop` are `Worker::run`. Telling and ending are two
steps. The acceptor notifies its caller (`Notify`) and leaves; only `Exit` drops
the command channel, with the commands in it, the listeners and the connection in
hand. A worker signals that it has stopped (`Signal`), and `EndThread` drops its
inbox and its tasks; in between other threads run on. The acceptor may also leave
without a shutdown: a listener's task fails (`ListenerFails`), or the panic on a
worker that cannot be restarted (`RestartFails`). `Crash` starts to unwind a
worker's thread, which can happen when the application's `Clone` panics in the
event loop or a new thread gets no runtime; what the worker has goes with
`EndThread`. What a connection does while it is open is one step, `Close`. Its
client then reads "closed" if the connection came to an end of its own, "cut" if
a worker that stopped dropped it, "dropped" if it was refused or went with the
acceptor or with a worker that crashed. Clients connect again after "closed" and
"dropped", so that connections never stop coming. `refusals` and `expired` are
history.

**CallGraph**, **CoreGraph**, **BorrowChecker**, **AssignOrder**,
**OrderedCallGraph** (`analyses/call_graph`). An application is what the
component database knows of one root component: what each component takes and
how (by value, `&`, `&mut`), how often it may be invoked, whether it is `Copy` or
may be cloned, which inputs its output keeps a reference to, its transformers and
matchers, the error handlers and observers. `phase` is the pass that is running:

| Phase | Module | Code |
|---|---|---|
| `start`, `build`, `rewrite` | CoreGraph | `build_call_graph`: `CheckAcyclic`, one `VisitNode` per node of the work list, one `Expand` per round of the fixed point that adds transformers and error observers, `Rewrite` with `match` nodes and references as inputs |
| `multiple`, `captures`, `moves`, `complex` | BorrowChecker | `multiple_consumers`; the two searches of `move_while_borrowed`, one node per step; `complex_borrow_check`, which parks nodes until a round frees none, then clones or reports |
| `order` | AssignOrder | `OrderedCallGraph::order`, the depth-first walk that parks blocked nodes |
| `done`, `rejected`, `stuck`, `panicked` | – | the outcomes; `stuck` is the `unreachable!` of the ordering |

petgraph's operations are external: edges keep the order in which petgraph lists
them, because the passes depend on it.

**Pipeline** (`processing_pipeline/pipeline.rs`) takes a graph as a whole, a
function of its root (`GraphOf`): what it computes, what it takes as input and
how. Singletons and the request-scoped types the framework provides
(`framework_items.rs`: the head of the request, its raw body, path parameters and so
on; life `"incoming"`) are inputs wherever they are used. Actions are the steps of
`RequestHandlerPipeline::new`: `Count` decides
which stage builds what members share, `Combine` goes from the last stage to the
first and collects what must be passed down, `CheckStage` finds the members of a
stage that need a clone, `Enforce` and `Codegen` are the assertions that follow;
`RejectGraph` is a graph the borrow checker refuses. `WithNoop` is the wrapping
middleware that does nothing and that the component database puts first.
**RequestPipeline** (`processing_pipeline/codegen.rs`) runs the generated stage
functions for one request: `stack` holds the functions that are running with
their variables, a variable being empty once moved. Every member that can answer
early may do so. **ExecutionOrder** knows no stages: it walks the list of
middlewares as they were registered.

**Routing** (`user_components/blueprint.rs`, `router.rs`, `scope_graph.rs`,
`codegen/router.rs`). A path is the sequence of its segments, and a pattern may
have parameters and a catch-all glued to its last segment; a domain guard is such
a pattern for hosts, read from the top-level domain down as the generated code
does; a scope is the chain of blueprints it is nested in. `ProcessBlueprint` takes
one blueprint off the stack as `process_blueprint` does, so that ids come out in its order (the
fallback of a blueprint after its routes, blueprints nested last first).
`RejectApp`, `PanicInsteadOfApp` and `BuildRouter` are the outcomes of
`Router::new`, and `Serve` is the generated `route`. matchit is external: which
patterns it refuses next to each other and which one it prefers (`InsertFails`,
`Before`). The reference the properties compare with is read off the tree of
blueprints (`ChainTo`, `PrefixOf`, `DomainOf`, `Claimants`), without ids, scopes
or routers.

**StateFile** (`pavex_cli/src/state.rs`, `pavex_cli_flock/src/lib.rs`).
Processes open (truncating, to update), lock, read, write and unlock; the file
position left by the read decides whether what is written parses.

## The runs

| Run | What it shows | Bounds |
|---|---|---|
| `memory_store` | the in-memory backend implements the contract (`ImplementsContract`) | 3 ids: a rename between two and a bystander; 1 key: empty and non-empty states; time-to-live of 2: fresh, ageing, stale; batches of 1 and 2: less and more than what is stale |
| `session_concurrent` | `NoPanic`, `RetiredIdsStayDead`, `ChangesAreStored`, `FailuresAreExplained` with two overlapping requests, expiry and clients that go away | 4 ids: each request may hold an old and a new one; time-to-live 1, so that every record may expire at once; handlers do not remove keys or call `sync` (both covered below) |
| `session_sequential` | `FinalizeSucceeds`, `CookieNamesLiveSession`, `NoOrphanRecords` for requests one after the other, without faults | 2 keys and a client key: states that shrink without becoming empty; an unbounded number of requests |
| `session_methods` | `TypeOK`, `InvalidatedIsMarked` with every method, explicit syncs, failing backends and all other faults | one session with two racing loads: one that sets the cell and one that comes too late |
| `server` | `TypeOK`, `RefusedOnlyByAll`, `GracefulServes`, `ReturnedMeansStopped`, and under fairness `ShutdownReturns`, `WorkersStop`, `NothingIsStuck`; no deadlock | 2 workers with inboxes of 1 (15 in the code) and 3 clients: inboxes full while the third connection is in hand; 2 callers and a command channel of 1 (32): one command executed, one queued, one sender blocked. Workers may crash, the acceptor may fail in both ways |
| `call_graph` | safety of the order (`PlacedInOrder`, `NoUseAfterMove`, `NoMoveBeforeDescendantUses`, `ObserversRunInOrder`), exactness of the checks against a reference that tries all sets of clones (`RejectionJustified`, `NoNeedlessClone`, `StuckOnlyWithoutOrder`), the shape of the graph (`InputsProvided`, `InvokedAtMostOnce`), and `Terminates` | about 10,000 applications in five families: all ways to relate a handler and three constructors; two values that cross between two constructors; prebuilt, transient, `Copy`, `&mut`, cycles; a fallible constructor with error handler and two observers; outputs that keep references. At most one stalemate each, see the endless loop below |
| `pipeline` | `AnalysesAgree`, `NoUseAfterMove`, `RejectedForAConflict`, `ClonedOnlyIfUsedLater`, `GetsItsComponent`, `EntrypointTakesWhatExists`, `NextIsMinimal`, and the refinement `RunsInDocumentedOrder`; no deadlock before an outcome | 21,960 applications: three middlewares of any kinds and two components, one built from the other, which is built too, a singleton, or the framework's; four middlewares and one component; a blueprint nested in another. One request, with every early answer. `HasPlace` leaves out nested applications that hit *The outer blueprint's component* or *Built twice* below |
| `routing` | `RequestsReachTheirHandlers`, `MissesGetTheClosestFallback` | 9,648 trees of up to three blueprints: prefixes, fallbacks and overlapping routes; guards for one host, for its siblings and for all below; three registrations of one path in any order; a closer match between two routes that hides one of them from the check of fallbacks; prefixes and guards that are refused. Two well-known methods and one that is not, hosts that match one guard, two or none, paths that hit, miss, and extend a prefix without a slash |
| `session_sync`, `order_stuck`, `pipeline_unreachable`, `state_file` | the disagreements below | the smallest instance that shows them |

Every property of a passing run has a mutant: a plausible bug in a mapped
definition (a dropped guard, a missing reset, a swapped order) for which TLC
finds that property violated under the same configuration.

Configuration of sessions. The runs use `NeverSkip`, `Reject` and
`OnStateLoadsAndChanges`, the defaults. A threshold of `MaxTtl + 1` stands for `None`, which always extends.

Symmetry is used for requests and ids in the runs without liveness: no
definition names one of them.

Fairness is assumed in `Server` and `OrderedCallGraph`. The latter is one
sequential function, which runs on. In `Server` it is assumed only of what the operating system and
tokio schedule: the acceptor, each worker, a sender that waits for room, and
the two timers. Nothing is assumed of clients, callers, failures, or connections
(a handler may never finish). It excludes a handler that blocks its worker's
thread for ever.

## Where code and words disagree

Each of these is a run whose property TLC finds violated.

- **A second sync panics** (`session_sync`). A new session that inserts and
  calls `sync` is `NewlyGenerated`, `Unchanged` and not empty when `finalize`
  syncs again, and the assertion at `session_.rs:538` fails.
- **A valid handler panics the compiler** (`order_stuck`). The search for values
  that are moved and borrowed later starts at the first source of the graph only
  (`move_while_borrowed.rs:169`) and never sees what only other sources reach.
  For `handler(a: A, b: &B, c: C)` with `C(b: B)` no check objects, no clone is
  added, and the ordering ends in `unreachable!`.
- **A conflict that cannot be reported** (`pipeline_unreachable`). Two members of a
  stage take a value that may not be cloned, and nobody borrows it later. The last
  of them was taken off the list of those that need a clone, so that the message
  about the other one, which names the next user, finds none and stops at an
  `unreachable!` (`pipeline.rs:565`). Applications that come to this are in error, as
  `AnalysesAgree` says; `RejectedForAConflict` is about those that are told so.
- **An update of the state file forgets the rest** (`state_file`). The file is
  truncated when it is opened for an update (`pavex_cli_flock/src/lib.rs:209`),
  before the lock and before the read. In this version only
  `set_activation_key` is called by a command; `set_current_toolchain` is public
  and has no caller.

Others came up while modelling. No run is kept for them, and where they would
falsify a property the configuration or the definitions leave the case out, as
said.

- *A removed key comes back.* `remove_raw` on a loaded state (`session_.rs:354`)
  removes in place and leaves the state `Unchanged`; `sync` has nothing to write.
  The handlers of `session_concurrent` do not remove keys.
- *Writing to a missing record fails.* With `MissingServerState::Allow` an
  insertion leaves the session `Existing` and `Changed`, `sync` calls `update`,
  and the store answers `UnknownId`. The runs use `Reject`.
- *Not round robin.* `next_worker` advances only when a worker refuses
  (`server_handle.rs:303`), so one worker is filled up before the next is used,
  whatever `server.rs:49` says. Nothing is stated about the order of workers.
- *The acceptor may panic, and then nobody stops the workers.* `Acceptor::run`
  "must not panic" (`server_handle.rs:176`), but does when a worker's thread cannot
  be spawned again (`:323`); then, and when a listener's task fails, the workers
  wait for ever on closed inboxes (`worker.rs:246`). `WorkersStop` is stated of
  shutdowns only; that callers return and queues empty is checked in these cases
  too.
- *An endless loop.* The flag that a clone was added (`complex.rs:223`) is never
  reset; a second stalemate that no clone resolves makes the check go round for
  ever. The applications of `call_graph` have one stalemate at most.
- *The outer blueprint's component.* The fields of `Next` are looked up where a
  wrapping middleware is registered (`pipeline.rs:706`). If only an outer wrapping
  middleware is there to build what a nested pre-processing middleware and the
  handler share, and both blueprints have a constructor for it, the nested one's
  is passed over, although `nesting.rs:131` gives it precedence. `HasPlace`
  requires a nested wrapping middleware in that case.
- *Built twice.* If the component passed down depends on one that is also built
  elsewhere, the assertion at `pipeline.rs:820` fails. `HasPlace` again.
- *A prefix that ends in a parameter.* With a fallback in the blueprint, one
  character too few is cut off the prefix (`router.rs:570`), the brace left over
  escapes the next one, and the `unreachable!` below is reached. The model
  has it as `PanicInsteadOfApp`.
- *Unknown hosts may get a nested fallback.* Every fallback without a domain
  overwrites the one for unknown hosts (`router.rs:243`), and that of a nested blueprint
  comes later than that of the top-level one, which the guide names
  (`domain_guards.md:62-63`). The second property of `routing` asks for what the code
  does: a fallback of a blueprint around no other that has one.
- *Prefixes without a slash.* The catch-all of prefix `/api` is `/api{*...}`:
  it takes `/apidocs` from a route `/{page}` of another blueprint. The first
  property of `routing` says so in its exception (`Outranked`). A blueprint without prefix
  of its own, nested in one with a prefix but no fallback, answers all misses of
  that prefix by its own fallback.
- *Two handlers for one custom method.* Conflicts are looked for among the nine
  well-known methods only (`router.rs:439`), so that both are accepted and the first
  one answers. The property allows any that fits.
- *A refusal that depends on the order.* To compare the fallbacks of the methods of
  a path, patterns are looked up as if they were paths (`router.rs:713`): `/{x}` and
  `/a`, in this order and with different fallbacks, are refused, and accepted the
  other way round. It also hides what should be refused. Take `GET /{x}/b` and `GET /a/b` in one
  blueprint, then `GET /a/{x}` and `POST /a/b` in one that is nested in it with its own
  fallback: the second route is grouped with the first, which it matches, but the
  fourth with the third, by now the closer match. Each group has one fallback,
  and `/a/b`, with two, is accepted; its other methods get that of the route
  registered first. `Grouped` models both, and the second property of `routing` asks for
  the fallback around *a* route with the path.

## The proofs

All theorems hold for every value of the constants that satisfies the named
assumptions (`MaxTtlAssumption`, `NoRecordAssumption`, `BatchSizesAssumption`,
`SessionAssumption`, `ServerAssumption`, `AppsAssumption` of call graphs and of
pipelines, `WiringAssumption` of error observers in call graphs, `RoutingAssumption`
and `BeginsAssumption` of blueprints and paths).

- `MemoryStore_proof!BackendImplementsContract`: `Spec => ImplementsContract`.
  Step simulation: under the type invariant every operation maps to the
  operation of the contract with the same reply, and collecting stale records
  maps to a stutter. `StoreTypeCorrect` is the invariant.
- `Session_proof!TypeCorrect` and `InvalidatedSafe`: the type invariant, with
  "a rename goes to another id", and "an invalidated session is marked for
  deletion", which is inductive because only the load that sets the cell may
  invalidate and nothing leaves `MarkedForDeletion` while the flag is up.
- `Session_proof!RetiredStayDead` and `NeverPanics`: under `NoManualSync`
  (handlers do not call `sync`, which the documentation calls unnecessary,
  and the configuration is `Reject`), `RetiredIdsStayDead` and `NoPanic`.
  Neither is inductive. The strengthening (`RetiredInv`) relates requests to
  each other: an id a request has drawn is, until that request is answered,
  neither retired nor in the browser nor known to another request
  (`NewIdsAreOwned`); the cookie of a response names that id
  (`ResponseNamesNewId`); a new session is never in the state that only a load
  produces (`NewIsNeverLoaded`), and one that came with a cookie is never found
  to be without a record (`MissingIsRejected`); between the two store calls of a
  rename the old id has no record (`RenameInProgress`). Without `NoManualSync`
  the theorem about panics is false, as `session_sync` shows.
- `Session_proof!ChangesStored`: `ChangesAreStored`, if handlers do not remove keys
  (the defect above); nothing else is assumed, so that it covers explicit syncs,
  every configuration and every fault. A session with unsaved changes is in the
  state `Changed` (`DirtyIsChanged`), and the last call of `sync` then writes the whole
  state or fails.
- `Session_proof!FailuresExplained`: `FailuresAreExplained`, under `NoManualSync`
  and with a backend that answers. To `RetiredInv` it adds that no record is stored
  under an id that a session has yet to save itself under (`NewIsNotStored`).
- `Session_proof!FinalizeNeverFails`, `CookieIsLive` and
  `NothingIsOrphaned`: `FinalizeSucceeds`, `CookieNamesLiveSession` and
  `NoOrphanRecords` under `Undisturbed`, the setting of `session_sequential` with any
  ids, keys and handlers: one request at a time, no faults, `NeverSkip`, and handlers
  that neither sync nor delete the state of a session they keep. Each of these
  is needed: two requests that rotate leave one cookie dangling, expiry takes the
  record, `SkipIfEmpty` stores none, and a deleted state loses the record of a
  session whose cookie stays. `SequentialInv` follows one request through the store
  and says which record there is at each point; `SessionOfJar` ties the session in
  progress to the cookie and `AnswerFits` the answer under way to the record.
- `Server_proof!TypeCorrect`: types and capacities, with "what is dispatched is
  a connection, and nothing is in hand while accepting" (`HandInv`).
- `Server_proof!EveryWorkerIsTried`: the action property `RefusedOnlyByAll`. The
  invariant (`SearchInv`) counts backwards from `next_worker`, modulo the number
  of workers: the `tries` workers before it have refused. After `NWorkers` tries
  these are all.
- `Server_proof!ReturnsAfterStop` and `GracefulServesAll`: the invariants
  `ReturnedMeansStopped` and `GracefulServes`, from `StopInv`: there is one
  shutdown, and once it has begun, or the acceptor has ended, the acceptor holds no
  connection (`OneShutdown`); every worker that runs is told what the command asks
  for and drains only then, with an empty inbox, and what it has left when it
  signals is left for force or for want of time (`ToldByTheCommand`); an acceptor
  that leaves a graceful shutdown in time has seen every worker signal or crash, and
  nobody is told anything after (`GracefulWaits`); each queued or open connection is
  with some worker, and a dead worker has none (`ConnsAreSomewhere`); connections
  are cut by force or by a timeout (`CutForAReason`).
- `OrderedCallGraph_proof!PlacedInOrderHolds`: whatever graph the earlier passes
  hand over, no node is placed before what it depends on, nor before a node that
  borrows what it consumes. `PositionInv` counts positions from 0 without gaps.
- `OrderedCallGraph_proof!TypeCorrect` and `InvokedOnce`: `TypeOK` and
  `InvokedAtMostOnce`, for every application. The code keeps node indices across
  passes that add and remove nodes; `GraphInv` says that all of them (agenda, work
  lists, visited sets, positions) are nodes of the graph, and `Graphs` that edges
  join nodes which have not been removed. The only removal, of an input that is
  taken by reference, happens when no pass holds an index, and no edge leads to
  the input then or will (`TakenFacts`). While the graph is built its nodes are
  components in their roles (`BuildGraphs`), so that looking a component up finds its
  one node (`AddNodeFacts`); later only clones, matches and references are added,
  which invoke nothing. An error handler's observers are attached to nodes that
  exist because it waits for them (`ChainFacts`, `AttachedFacts`).
- `OrderedCallGraph_proof!NothingUsedAfterMove`: `NoUseAfterMove`, for every
  application: an order, once found, has every node, and who uses a value comes
  before the node that consumes it. Three invariants lead there, one per phase.
  `WiredInv`: every edge of the graph under construction, and every edge still on
  the agenda, joins a component to one that comes from it, or an error to its
  observer, or an observer to the handler that waits for it; by `CompRank` (how
  many components one comes from, observers between errors and handlers) it goes
  downwards. So everything leads to a sink (`Grounded`), and the rewriting of fallible
  nodes and of borrowed inputs, and each clone, keep that. `ExclusiveInv`: unless
  something was reported, two nodes that consume one value are on branches
  that exclude each other; it is about reachability in the graph at hand, which a
  clone changes nowhere but at the clone (`Clonings`). `SinksInv`: the depth-first walk
  loses no sink, and no node whose dependencies it put off. With `PlacedInOrder`
  a finished order has therefore every node (`AllArePlaced`), and of two users of a
  consumed value one borrows it, or they exclude each other (`UsedBefore`).
- `RequestPipeline_proof!GivesUpForAReason` and `ClonesWhenNeeded`: rejections
  and clones are caused by a value that one member takes and a later member of the
  stage uses, and every such value that may not be cloned stops the analysis. The
  invariant (`ConflictInv`) carries what `CheckStage` decided, and `NoConflictLeft`
  that what it lets through is free of conflicts.
- `RequestPipeline_proof!NothingUsedAfterMove`: the generated functions use no
  variable that was moved, whatever members answer early. It spans the whole
  analysis: inputs of graphs stay what `Combine` found, clones what `CheckStage`
  decided, parameters what `Codegen` checked (`AnalysisInv`), and a variable is
  empty only if it was never a parameter or a member that has been called took it
  (`FramesInv`). The key lemma, `UseIsSafe`, joins them: if a member that was called
  took the value and the next one uses it, then the former had a clone.
- `RequestPipeline_proof!NextCarriesTheMinimum`: what `Combine` accumulates goes
  back, stage by stage, to a member further down that takes it (`MinimalInv`).
- `RequestPipeline_proof!CallerHasWhatExists`: `EntrypointTakesWhatExists`. `noop`
  wraps at stage 0, so that whatever is built per request has a stage inside the
  generated code, and its caller is asked for singletons and the framework's types only.
- `RequestPipeline_proof!PanicsHaveTwoReasons`: whatever the application, the
  assertions of `combine_call_graphs` hold and code generation finds a variable for
  each input; if the compiler panics, `enforce_invariants` has found a component that
  two members build, or the report of a conflict has nobody to name. The argument is
  about stages: a shared component is built at the first stage that uses it
  (`PlacesInv`), which is no later than the stage of any component that needs it, so
  that what a stage is asked to pass down is there when it starts (`ReadyFor`,
  `FieldsInv`).
- `RequestPipeline_proof!PanicsOnlyForAConflict`: `AnalysesAgree` under `OneView`: the
  members of a chain see the same constructors. Then a component that two members
  compute would be one that both use, and has one owner (`ComputedOnce`). Without
  `OneView` it is false: a nested blueprint with constructors of its own can hit *Built
  twice* above. Blueprints may nest and wrap each other as they like, as long as no
  member is inside a constructor's blueprint that another is outside of. The theorem
  does not exclude the `unreachable!` of `pipeline_unreachable`, which needs no nesting:
  it says that an application must be in error to meet it.
- `DocumentedOrder_proof!TypeCorrect`: `TypeOK` of the analysis and of the stack of
  running functions.
- `DocumentedOrder_proof!OrderIsAsDocumented`: `Spec => RunsInDocumentedOrder`, a
  step simulation. `OrderInv` says what the stack of running functions means in
  terms of the trail: the stages below the top one have called their wrapping
  middleware and not yet their post-processing ones, and so on.
- `Routing_proof!RequestsAreAnsweredRight`: `RequestsReachTheirHandlers`, for every
  tree of blueprints, whatever they register and in whatever order. `BuildInv` says
  that the components are those of the blueprints that were processed, each with
  the chain, prefix and domain of its blueprint, and that a blueprint that was not is
  on the stack or inside one that is, so that none is forgotten (`Processed`).
  `ServingInv` says that the router is that of these components. A path router then has
  a leaf for each route's path and for each catch-all of a fallback that no route
  took, and no other; a leaf's handlers are those of its path (`IsLeaf`,
  `RouterFacts`). Of the patterns that match one path, exactly one is before the rest
  (`OneClosest`), if no two of them are refused next to each other, so that matchit's answer is
  the closest declared route or the closest claim (`LeafTaken`, `AnsweredByPath`).
- `Routing_proof!MissesAreAnsweredRight`: `MissesGetTheClosestFallback`. It adds
  `OuterFirst`: an outer blueprint has registered its fallback before any that is nested
  in it registers anything. The first of several fallbacks for one catch-all is
  therefore that of the outermost of their blueprints, and the fallback by scope is
  that of the innermost blueprint around (`FallbackIsInnermost`). `OuterBefore` says the
  same of the list of components, of which the last fallback without a domain is
  therefore around no other. A catch-all tells its prefix
  (`CatchAllTells`), and that lookups by path and by scope agree comes from the check
  for ambiguous fallbacks.

Nearly every step of `OrderedCallGraph` folds over lists that the code loops over.
`Routing` folds over components.
`FoldFacts` proves, by induction and for any step (its CONSTANT `Step`), that a fold
stays in a set its steps stay in (`FoldStays`), ends where they lead (`FoldEnds`) or
follows them from one set to the next (`FoldRuns`). `OrderedCallGraph_proof` and
`Routing_proof` instantiate it with the step of each loop, whose first argument carries
what else the step depends on.

The only assumption about applications of pipelines is `AppsAssumption`: scopes form
a tree, members come from ever deeper scopes, and
what is asked for has a constructor. All applications means any number of
middlewares, components, types and blueprints.

`WiringAssumption` says how applications with error observers are put together. The
code asserts that the dependencies of components have no cycle
(`assert_acyclic`), but adds the edges of observers later and to a graph it does not check
again. That these close no cycle rests on the component database: an observer
depends on nothing fallible (`error_observers_cannot_depend_on_fallible_components`,
`constructibles.rs:466`), it has no output that could be injected, the matchers of a
fallible component are registered once and the one for errors is no constructor
(`register_matchers`, `components/db/mod.rs:509`), and a fallible component has one
error handler. `call_graph` evaluates the assumption on all its applications. Nothing
is assumed of applications without observers.

`RoutingAssumption` says what an application is: a finite tree of blueprints, each but the
top one nested exactly once, that register routes, fallbacks and blueprints. A
blueprint is moved into the one it is nested in, so that Rust leaves no other shape.
`BeginsAssumption` says of the relation "begins with" among segments what is true of
text: nothing begins with itself (the text must be longer), the relation is transitive, and
of two beginnings of one text one begins with the other.

Only model-checked:

- liveness (`ShutdownReturns`, `WorkersStop`, `NothingIsStuck` of `Server`,
  `Terminates` of `OrderedCallGraph`): fairness is beyond the prover;
- the exactness of the borrow checks (`RejectionJustified`, `NoNeedlessClone`,
  `StuckOnlyWithoutOrder`), `NoMoveBeforeDescendantUses` and
  `ObserversRunInOrder` of `OrderedCallGraph`, which are about reachability over whole
  graphs; the first two are false in general (the endless loop and the search from
  one source above). `InputsProvided` and `NeverPanics` need more of an application
  than `IsApp` states: matchers, handlers and observers that fit each other, as those
  of the run do;
- `GetsItsComponent` of `RequestPipeline`: it is false in general (*The outer
  blueprint's component*), and where every member sees the same constructors there is
  nothing to mistake.

## What is not modelled

- Values, cookies' encryption and attributes, (de)serialization: the data is
  opaque to the protocol. `Max-Age` is `ForgetCookie` at any time.
- TLS, HTTP and the kernel's accept queue: a connection is accepted, queued,
  open, ended.
- Filesystems without locks (the code skips locking on NFS).
- In the compiler: generic types, names and paths of types, wording of
  diagnostics, validation of attributes, imports and annotations; in pipelines, mutable
  references and references held by outputs (modelled in the call graphs); in
  routing, the characters of domain guards, names of parameters (guards that
  differ only in these are one guard) and malformed paths.
- The Postgres backend, the installation of the compiler, `persist_if_changed`,
  body limits and the rustdoc cache. Their hazards are SQL semantics, file systems
  and one SQLite transaction per call; see the plan.
- Code generation but for stages and the router, macros, rustdoc queries,
  diagnostics, command line parsing, documentation and test tooling, examples: no
  shared state, and their correctness is that of their output. They make up most of
  the repository's lines (generated SDKs and clients, type definitions,
  printers, UI test applications), so that the modelled part is a small share of
  the lines although it is the part with the decisions.

## Plan

Done: storage contract and in-memory backend; sessions; server; state file; call
graphs and borrow checking; pipelines and their execution; routing.

Next:

1. Proofs: of `OrderedCallGraph`, that observers run in order.
2. `PostgresStore`: each SQL statement as an operator, against
   `SessionStorage`; `create` on a live id answers `Ok` without writing.
3. `Install`: concurrent and interrupted installations of one compiler binary;
   `persist_if_changed` as the writer of generated files. What does hold of the
   state file.
4. The checks on registrations in `constructibles.rs`: missing, wrong and
   overlapping constructors, against `Visible` and `Get` of `Pipeline`.

## How to run

In this directory: `tlc -workers 2 -config Server.cfg Server` checks one run
(module and configuration of each are in `PROJECT.json`), `tlapm
Session_proof.tla` checks the proofs of a module.
