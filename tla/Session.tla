------------------------------ MODULE Session ------------------------------
(***************************************************************************)
(* HTTP sessions (pavex_session) on top of the in-memory backend.          *)
(*                                                                         *)
(* Several requests of one browser are handled at the same time.  Each     *)
(* request owns a Session object: it is built from the cookie the browser  *)
(* sent, the request handler works on it, and the finalize_session         *)
(* middleware syncs it with the store and answers with a cookie, which     *)
(* reaches the browser later.  Every store call is an await point, hence   *)
(* an action: calls of concurrent requests, the expiry of records and a    *)
(* client that goes away interleave with them.                             *)
(*                                                                         *)
(* SessionId::random is taken to return an id that nobody knows: neither   *)
(* the store, nor the browser, nor a request in progress.  An id everybody *)
(* has forgotten may be drawn again, which keeps Ids finite.               *)
(***************************************************************************)
EXTENDS MemoryStore

CONSTANTS
    Requests,             \* requests that may be in progress at the same time
    ClientKeys,           \* keys of the client-side state
    NoId,                 \* the old id of a session that has none
    NoCookie,             \* the browser has no session cookie
    MaxLoads,             \* concurrent loads of one session (&self methods)
    \* The session configuration (config/state.rs).
    ServerStateCreation,  \* "NeverSkip" or "SkipIfEmpty"
    MissingServerState,   \* "Reject" or "Allow"
    ExtendTtl,            \* "OnStateLoadsAndChanges" or "OnStateChanges"
    ExtendBelow,          \* threshold in units; MaxTtl + 1 stands for None
    \* What a run lets happen.
    Ops,                  \* the Session methods the request handlers use
    Faults                \* what the environment may do

Cookies == [id : Ids, client : SUBSET ClientKeys]

AllOps == {"insert", "remove", "clear", "delete", "cycle_id", "invalidate",
           "client_insert", "client_remove", "client_clear", "sync"}
AllFaults == {"expiry", "backend", "disconnect", "forget"}

ASSUME SessionAssumption ==
    /\ NoId \notin Ids
    /\ NoCookie \notin Cookies
    /\ MaxLoads \in Nat
    /\ ServerStateCreation \in {"NeverSkip", "SkipIfEmpty"}
    /\ MissingServerState \in {"Reject", "Allow"}
    /\ ExtendTtl \in {"OnStateLoadsAndChanges", "OnStateChanges"}
    /\ ExtendBelow \in 0..(MaxTtl + 1)
    /\ Ops \subseteq AllOps
    /\ Faults \subseteq AllFaults

VARIABLES
    jar,          \* the session cookie in the browser
    pc,           \* where the processing of a request stands
    id,           \* CurrentSessionId: kind, old id, new id
    server,       \* ServerState in its OnceCell: "NotLoaded" is the empty cell
    client,       \* ClientState: what the handler sees, and whether it wrote it
    invalidated,  \* InvalidationFlag
    loads,        \* what store.load returned to loads that have yet to set the cell
    response,     \* what finalize returned
    dirty,        \* history: the handler has changed the server-side state
    retired       \* history: ids given up by a rotation or an invalidation

session == <<id, server, client, invalidated>>
history == <<dirty, retired>>
vars == <<records, jar, pc, session, loads, response, history>>

---------------------------------------------------------------------------
(* The Session object.                                                     *)

ServerTags == {"NotLoaded", "Unchanged", "DoesNotExist", "MarkedForDeletion",
               "Changed"}

ServerState(tag, state, ttl) == [tag |-> tag, state |-> state, ttl |-> ttl]
NotLoaded         == ServerState("NotLoaded", {}, 0)
DoesNotExist      == ServerState("DoesNotExist", {}, 0)
MarkedForDeletion == ServerState("MarkedForDeletion", {}, 0)
Unchanged(state, ttl) == ServerState("Unchanged", state, ttl)
Changed(state)        == ServerState("Changed", state, 0)

Existing(i)           == [kind |-> "Existing", old |-> i, new |-> i]
ToBeRenamed(old, new) == [kind |-> "ToBeRenamed", old |-> old, new |-> new]
NewlyGenerated(i)     == [kind |-> "NewlyGenerated", old |-> NoId, new |-> i]
NoSession             == [kind |-> "None", old |-> NoId, new |-> NoId]

IsNew(r)    == id[r].kind = "NewlyGenerated"
IsLoaded(r) == server[r].tag # "NotLoaded"

\* The ids somebody knows.
KnownIds ==
    {i \in Ids : \/ IsStored(i)
                 \/ jar # NoCookie /\ jar.id = i
                 \/ \E r \in Requests : i \in {id[r].old, id[r].new}}

NoResponse   == [kind |-> "None", cookie |-> NoCookie]
SetCookie(c) == [kind |-> "SetCookie", cookie |-> c]
Removal      == [kind |-> "Removal", cookie |-> NoCookie]
Failure      == [kind |-> "Failure", cookie |-> NoCookie]

---------------------------------------------------------------------------
(* A request arrives, and its handler works on the session.                *)

Init ==
    /\ StoreInit
    /\ jar = NoCookie
    /\ pc = [r \in Requests |-> "idle"]
    /\ id = [r \in Requests |-> NoSession]
    /\ server = [r \in Requests |-> NotLoaded]
    /\ client = [r \in Requests |-> [state |-> {}, updated |-> FALSE]]
    /\ invalidated = [r \in Requests |-> FALSE]
    /\ loads = [r \in Requests |-> {}]
    /\ response = [r \in Requests |-> NoResponse]
    /\ dirty = [r \in Requests |-> FALSE]
    /\ retired = {}

\* IncomingSession::extract and Session::new: the cookie the browser sends
\* makes the session a continuation of an existing one.
Arrive(r) ==
    /\ pc[r] = "idle"
    /\ pc' = [pc EXCEPT ![r] = "handling"]
    /\ IF jar = NoCookie
       THEN \E i \in Ids \ KnownIds :
               /\ id' = [id EXCEPT ![r] = NewlyGenerated(i)]
               /\ server' = [server EXCEPT ![r] = DoesNotExist]
               /\ client' = [client EXCEPT ![r] = [state |-> {}, updated |-> FALSE]]
               /\ retired' = retired \ {i}
       ELSE /\ id' = [id EXCEPT ![r] = Existing(jar.id)]
            /\ server' = [server EXCEPT ![r] = NotLoaded]
            /\ client' = [client EXCEPT ![r] = [state |-> jar.client, updated |-> FALSE]]
            /\ UNCHANGED retired
    /\ UNCHANGED <<records, jar, invalidated, loads, response, dirty>>

\* force_load, up to the answer of the store.  The methods that only borrow
\* the session (get, is_empty, force_load) may have several loads in flight.
StartLoad(r) ==
    /\ pc[r] = "handling"
    /\ ~IsNew(r)
    /\ ~IsLoaded(r)
    /\ Cardinality(loads[r]) < MaxLoads
    /\ loads' = [loads EXCEPT ![r] = @ \cup {Loaded(id[r].old)}]
    /\ UNCHANGED <<records, jar, pc, session, response, history>>

\* Mutant of FinishLoad: the session is invalidated before it is known whether
\* this load sets the cell.
FinishLoadInvalidatingFirst(r) ==
    /\ pc[r] = "handling"
    /\ \E found \in loads[r] :
          /\ loads' = [loads EXCEPT ![r] = @ \ {found}]
          /\ LET rejects == found = NoRecord /\ MissingServerState = "Reject" IN
             /\ server' = [server EXCEPT ![r] =
                              IF IsLoaded(r) THEN @
                              ELSE IF rejects THEN MarkedForDeletion
                              ELSE IF found = NoRecord THEN DoesNotExist
                              ELSE Unchanged(found.state, found.life)]
             /\ invalidated' = [invalidated EXCEPT ![r] = @ \/ rejects]
          /\ UNCHANGED <<records, jar, pc, id, client, response, history>>

\* force_load, from the answer of the store: the first load to get here sets
\* the cell, and only that one may invalidate the session.
FinishLoad(r) ==
    /\ pc[r] = "handling"
    /\ \E found \in loads[r] :
          /\ loads' = [loads EXCEPT ![r] = @ \ {found}]
          /\ LET rejects == found = NoRecord /\ MissingServerState = "Reject" IN
             IF IsLoaded(r)
             THEN UNCHANGED <<server, invalidated>>
             ELSE /\ server' = [server EXCEPT ![r] =
                                  IF rejects THEN MarkedForDeletion
                                  ELSE IF found = NoRecord THEN DoesNotExist
                                  ELSE Unchanged(found.state, found.life)]
                  /\ invalidated' = [invalidated EXCEPT ![r] = @ \/ rejects]
          /\ UNCHANGED <<records, jar, pc, id, client, response, history>>

\* The backend fails to answer: the operation that wanted the state fails.
LoadFails(r) ==
    /\ "backend" \in Faults
    /\ pc[r] = "handling"
    /\ \E found \in loads[r] : loads' = [loads EXCEPT ![r] = @ \ {found}]
    /\ UNCHANGED <<records, jar, pc, session, response, history>>

\* A method that borrows the session mutably: no load can be in flight.
Handles(r, op) ==
    /\ op \in Ops
    /\ pc[r] = "handling"
    /\ loads[r] = {}
    /\ UNCHANGED <<records, jar, pc, loads, response>>

\* The server-side state changes, and with it whether it holds changes that
\* the handler made and that the store does not know of.
SetServer(r, state, isDirty) ==
    /\ server' = [server EXCEPT ![r] = state]
    /\ dirty' = [dirty EXCEPT ![r] = isDirty]
    /\ UNCHANGED <<id, client, retired>>

\* insert_raw, after force_load_mut.
Insert(r, k) ==
    /\ Handles(r, "insert")
    /\ server[r].tag \in {"Unchanged", "Changed", "DoesNotExist"}
    /\ SetServer(r, Changed(server[r].state \cup {k}), TRUE)
    /\ UNCHANGED invalidated

\* remove_raw, after force_load_mut: the key leaves the state, and the state
\* stays Unchanged or Changed as it was.
Remove(r, k) ==
    /\ Handles(r, "remove")
    /\ server[r].tag \in {"Unchanged", "Changed"}
    /\ k \in server[r].state
    /\ SetServer(r, [server[r] EXCEPT !.state = @ \ {k}], TRUE)
    /\ UNCHANGED invalidated

\* clear, after force_load_mut.
Clear(r) ==
    /\ Handles(r, "clear")
    /\ server[r].tag \in {"Unchanged", "Changed"}
    /\ server[r].state # {}
    /\ SetServer(r, Changed({}), TRUE)
    /\ UNCHANGED invalidated

\* delete: the record goes, the session stays.
DeleteState(r) ==
    /\ Handles(r, "delete")
    /\ SetServer(r, MarkedForDeletion, FALSE)
    /\ UNCHANGED invalidated

\* invalidate: the whole session goes.
Invalidate(r) ==
    /\ Handles(r, "invalidate")
    /\ invalidated' = [invalidated EXCEPT ![r] = TRUE]
    /\ SetServer(r, MarkedForDeletion, FALSE)

\* Mutant of CycleId: the new id is not compared with the old one.
CycleIdUnchecked(r) ==
    /\ Handles(r, "cycle_id")
    /\ \E new \in (Ids \ KnownIds) \cup ({id[r].old} \ {NoId}) :
          /\ id' = [id EXCEPT ![r] = IF IsNew(r) THEN NewlyGenerated(new)
                                                 ELSE ToBeRenamed(@.old, new)]
          /\ retired' = retired \ {new}
    /\ UNCHANGED <<server, client, invalidated, dirty>>

\* cycle_id: nothing reaches the store yet.
CycleId(r) ==
    /\ Handles(r, "cycle_id")
    /\ \E new \in Ids \ KnownIds :
          /\ id' = [id EXCEPT ![r] = IF IsNew(r) THEN NewlyGenerated(new)
                                                 ELSE ToBeRenamed(@.old, new)]
          /\ retired' = retired \ {new}
    /\ UNCHANGED <<server, client, invalidated, dirty>>

SetClient(r, state) ==
    /\ ~invalidated[r]
    /\ client' = [client EXCEPT ![r] = [state |-> state, updated |-> TRUE]]
    /\ UNCHANGED <<id, server, invalidated, history>>

\* ClientSessionStateMut::insert_raw: any insertion counts as an update.
ClientInsert(r, k) ==
    /\ Handles(r, "client_insert")
    /\ SetClient(r, client[r].state \cup {k})

\* ClientSessionStateMut::remove_raw.
ClientRemove(r, k) ==
    /\ Handles(r, "client_remove")
    /\ k \in client[r].state
    /\ SetClient(r, client[r].state \ {k})

\* ClientSessionStateMut::clear.
ClientClear(r) ==
    /\ Handles(r, "client_clear")
    /\ client[r].state # {}
    /\ SetClient(r, {})

HandlerStep(r) ==
    \/ StartLoad(r) \/ FinishLoad(r) \/ LoadFails(r)
    \/ \E k \in Keys : Insert(r, k) \/ Remove(r, k)
    \/ Clear(r) \/ DeleteState(r) \/ Invalidate(r) \/ CycleId(r)
    \/ \E k \in ClientKeys : ClientInsert(r, k) \/ ClientRemove(r, k)
    \/ ClientClear(r)

---------------------------------------------------------------------------
(* Session::sync.  Its calls to the store, each with the way it ends:      *)
(*   "Synced"      the call was the last one and it succeeded              *)
(*   "Failed"      sync returns an error                                   *)
(*   "Panicked"    an assertion of the code does not hold                  *)
(*   "MustCreate"  a second call follows: create, under the new id         *)

CallResults == {"Ok", "DuplicateId", "UnknownId", "Other"}
SyncResults == {"Synced", "Failed", "Panicked", "MustCreate"}

\* Any backend may fail with an error of its own; it has then done nothing.
BackendError(out) ==
    /\ "backend" \in Faults
    /\ out = "Other"
    /\ UNCHANGED records

TryCreate(i, state, out) == Create(i, state, MaxTtl, out) \/ BackendError(out)
TryUpdate(i, state, out) == Update(i, state, MaxTtl, out) \/ BackendError(out)
TryUpdateTtl(i, out)     == UpdateTtl(i, MaxTtl, out) \/ BackendError(out)
TryDelete(i, out)        == Delete(i, out) \/ BackendError(out)
TryChangeId(i, j, out)   == ChangeId(i, j, out) \/ BackendError(out)

OkOrFailed(out) == IF out = "Ok" THEN "Synced" ELSE "Failed"

\* Mutant of CreateIfEmpty: only sessions that came with a cookie count as
\* having a client side.
CreateIfEmptyForKnownClients(r) ==
    ~IsNew(r) /\ ServerStateCreation = "NeverSkip"

CreateIfEmpty(r) ==
    /\ ~IsNew(r) \/ client[r].updated
    /\ ServerStateCreation = "NeverSkip"

\* The ttl compared with the threshold is the one read when the state was
\* loaded.
MustExtend(r) ==
    ExtendTtl = "OnStateLoadsAndChanges" /\ server[r].ttl < ExtendBelow

NoCall(res) == res = "Synced" /\ UNCHANGED records

SyncDoesNotExist(r, res) ==
    /\ server[r].tag = "DoesNotExist"
    /\ IF CreateIfEmpty(r) /\ id[r].kind # "ToBeRenamed"
       THEN \E out \in CallResults :
               TryCreate(id[r].new, {}, out) /\ res = OkOrFailed(out)
       ELSE NoCall(res)

SyncNotLoaded(r, res) ==
    /\ server[r].tag = "NotLoaded"
    /\ \/ id[r].kind = "Existing" /\ NoCall(res)
       \/ /\ id[r].kind = "ToBeRenamed"
          /\ \E out \in CallResults :
                TryChangeId(id[r].old, id[r].new, out) /\ res = OkOrFailed(out)
       \/ IsNew(r) /\ res = "Panicked" /\ UNCHANGED records

\* A new session whose loaded state is not empty fails the integrity check,
\* once its record has been created.
SyncUnchanged(r, res) ==
    /\ server[r].tag = "Unchanged"
    /\ \/ /\ id[r].kind = "Existing"
          /\ IF MustExtend(r)
             THEN \E out \in CallResults :
                     TryUpdateTtl(id[r].old, out) /\ res = OkOrFailed(out)
             ELSE NoCall(res)
       \/ /\ id[r].kind = "ToBeRenamed"
          /\ \E out \in CallResults :
                /\ TryChangeId(id[r].old, id[r].new, out)
                /\ res = IF out = "UnknownId" THEN "MustCreate" ELSE OkOrFailed(out)
       \/ /\ IsNew(r)
          /\ \E out \in CallResults :
                /\ IF CreateIfEmpty(r) THEN TryCreate(id[r].new, {}, out)
                                       ELSE out = "Ok" /\ UNCHANGED records
                /\ res = IF out = "Ok" /\ server[r].state # {} THEN "Panicked"
                                                               ELSE OkOrFailed(out)

SyncMarked(r, res) ==
    /\ server[r].tag = "MarkedForDeletion"
    /\ IF IsNew(r)
       THEN NoCall(res)
       ELSE \E out \in CallResults :
               /\ TryDelete(id[r].old, out)
               /\ res = IF out = "UnknownId" THEN "Synced" ELSE OkOrFailed(out)

\* Mutant of SyncChanged: a record that has gone is written again, under
\* whatever id the session has.
SyncChangedUpserting(r, res) ==
    /\ server[r].tag = "Changed"
    /\ \E out \in CallResults :
          \/ /\ id[r].kind = "Existing"
             /\ TryUpdate(id[r].old, server[r].state, out)
             /\ res = IF out = "UnknownId" THEN "MustCreate" ELSE OkOrFailed(out)
          \/ /\ id[r].kind = "ToBeRenamed"
             /\ TryDelete(id[r].old, out)
             /\ res = IF out \in {"Ok", "UnknownId"} THEN "MustCreate" ELSE "Failed"
          \/ /\ IsNew(r)
             /\ TryCreate(id[r].new, server[r].state, out)
             /\ res = OkOrFailed(out)

\* Mutant of SyncChanged: a rename moves the record and forgets the changes.
SyncChangedMovingOnly(r, res) ==
    /\ server[r].tag = "Changed"
    /\ \E out \in CallResults :
          \/ /\ id[r].kind = "Existing"
             /\ TryUpdate(id[r].old, server[r].state, out)
             /\ res = OkOrFailed(out)
          \/ /\ id[r].kind = "ToBeRenamed"
             /\ TryChangeId(id[r].old, id[r].new, out)
             /\ res = IF out = "UnknownId" THEN "MustCreate" ELSE OkOrFailed(out)
          \/ /\ IsNew(r)
             /\ TryCreate(id[r].new, server[r].state, out)
             /\ res = OkOrFailed(out)

\* Mutant of SyncChanged: a rename leaves the record under the old id.
SyncChangedCopying(r, res) ==
    /\ server[r].tag = "Changed"
    /\ \E out \in CallResults :
          \/ /\ id[r].kind = "Existing"
             /\ TryUpdate(id[r].old, server[r].state, out)
             /\ res = OkOrFailed(out)
          \/ /\ id[r].kind # "Existing"
             /\ TryCreate(id[r].new, server[r].state, out)
             /\ res = OkOrFailed(out)

SyncChanged(r, res) ==
    /\ server[r].tag = "Changed"
    /\ \E out \in CallResults :
          \/ /\ id[r].kind = "Existing"
             /\ TryUpdate(id[r].old, server[r].state, out)
             /\ res = OkOrFailed(out)
          \/ /\ id[r].kind = "ToBeRenamed"
             /\ TryDelete(id[r].old, out)
             /\ res = IF out \in {"Ok", "UnknownId"} THEN "MustCreate" ELSE "Failed"
          \/ /\ IsNew(r)
             /\ TryCreate(id[r].new, server[r].state, out)
             /\ res = OkOrFailed(out)

SyncCall(r, res) ==
    \/ SyncDoesNotExist(r, res) \/ SyncNotLoaded(r, res) \/ SyncUnchanged(r, res)
    \/ SyncMarked(r, res) \/ SyncChanged(r, res)

---------------------------------------------------------------------------
(* What follows the calls: the state the session is left in, and, when     *)
(* sync was called by finalize, the response.                              *)

\* Mutant of Settled: a deleted state stays marked although the session goes on.
SettledKeepingMark(r) ==
    CASE server[r].tag = "Changed" -> Unchanged(server[r].state, MaxTtl)
      [] server[r].tag = "DoesNotExist" ->
            IF CreateIfEmpty(r) THEN Unchanged({}, MaxTtl) ELSE DoesNotExist
      [] OTHER -> server[r]

\* The in-memory state after a successful sync.
Settled(r) ==
    CASE server[r].tag = "Changed" -> Unchanged(server[r].state, MaxTtl)
      [] server[r].tag = "MarkedForDeletion" ->
            IF invalidated[r] THEN MarkedForDeletion ELSE DoesNotExist
      [] server[r].tag = "DoesNotExist" ->
            IF CreateIfEmpty(r) THEN Unchanged({}, MaxTtl) ELSE DoesNotExist
      [] OTHER -> server[r]

\* Mutant of CookieFor: the cookie keeps the id the browser sent.
CookieForOldId(r) ==
    IF invalidated[r]
    THEN IF IsNew(r) THEN NoResponse ELSE Removal
    ELSE IF client[r].state = {} /\ IsNew(r) /\ Settled(r).tag = "DoesNotExist"
         THEN NoResponse
         ELSE SetCookie([id |-> IF IsNew(r) THEN id[r].new ELSE id[r].old,
                         client |-> client[r].state])

\* finalize, once the state is settled.
CookieFor(r) ==
    IF invalidated[r]
    THEN IF IsNew(r) THEN NoResponse ELSE Removal
    ELSE IF client[r].state = {} /\ IsNew(r) /\ Settled(r).tag = "DoesNotExist"
         THEN NoResponse
         ELSE SetCookie([id |-> id[r].new, client |-> client[r].state])

\* finalize asserts that a session in use is neither changed nor marked.
FinalizePanics(r) ==
    ~invalidated[r] /\ Settled(r).tag \in {"MarkedForDeletion", "Changed"}

GivesUpOldId(r) ==
    id[r].kind = "ToBeRenamed" \/ (invalidated[r] /\ ~IsNew(r))

\* `caller` is who called sync: "handler" or "finalize".
AfterSync(r, res, caller) ==
    \/ /\ res = "Synced"
       /\ server' = [server EXCEPT ![r] = Settled(r)]
       /\ dirty' = [dirty EXCEPT ![r] = FALSE]
       /\ retired' = retired \cup (IF GivesUpOldId(r) THEN {id[r].old} ELSE {})
       /\ pc' = [pc EXCEPT ![r] = IF caller = "handler" THEN "handling"
                                  ELSE IF FinalizePanics(r) THEN "panicked"
                                  ELSE "responding"]
       /\ response' = [response EXCEPT ![r] =
                          IF caller = "finalize" THEN CookieFor(r) ELSE @]
    \/ /\ res = "Failed"
       /\ pc' = [pc EXCEPT ![r] = IF caller = "finalize" THEN "responding"
                                                           ELSE "handling"]
       /\ response' = [response EXCEPT ![r] =
                          IF caller = "finalize" THEN Failure ELSE @]
       /\ UNCHANGED <<server, history>>
    \/ /\ res = "Panicked"
       /\ pc' = [pc EXCEPT ![r] = "panicked"]
       /\ UNCHANGED <<server, response, history>>
    \/ /\ res = "MustCreate"
       /\ pc' = [pc EXCEPT ![r] = IF caller = "finalize" THEN "finalize_create"
                                                           ELSE "sync_create"]
       /\ UNCHANGED <<server, response, history>>

\* Session::sync called by the request handler.
Sync(r) ==
    /\ "sync" \in Ops
    /\ pc[r] = "handling"
    /\ loads[r] = {}
    /\ \E res \in SyncResults : SyncCall(r, res) /\ AfterSync(r, res, "handler")
    /\ UNCHANGED <<jar, id, client, invalidated, loads>>

\* Session::finalize called by the finalize_session middleware.
Finalize(r) ==
    /\ pc[r] = "handling"
    /\ loads[r] = {}
    /\ \E res \in SyncResults : SyncCall(r, res) /\ AfterSync(r, res, "finalize")
    /\ UNCHANGED <<jar, id, client, invalidated, loads>>

\* The second call of sync: the state is written under the new id.
CreateRenamed(r) ==
    /\ pc[r] \in {"sync_create", "finalize_create"}
    /\ \E out \in CallResults :
          /\ TryCreate(id[r].new, server[r].state, out)
          /\ AfterSync(r, OkOrFailed(out),
                       IF pc[r] = "finalize_create" THEN "finalize" ELSE "handler")
    /\ UNCHANGED <<jar, id, client, invalidated, loads>>

---------------------------------------------------------------------------
(* The end of a request, and the environment.                              *)

Forget(r) ==
    /\ pc' = [pc EXCEPT ![r] = "idle"]
    /\ id' = [id EXCEPT ![r] = NoSession]
    /\ server' = [server EXCEPT ![r] = NotLoaded]
    /\ client' = [client EXCEPT ![r] = [state |-> {}, updated |-> FALSE]]
    /\ invalidated' = [invalidated EXCEPT ![r] = FALSE]
    /\ loads' = [loads EXCEPT ![r] = {}]
    /\ response' = [response EXCEPT ![r] = NoResponse]
    /\ dirty' = [dirty EXCEPT ![r] = FALSE]
    /\ UNCHANGED <<records, retired>>

\* finalize_session attaches the cookie, if any, and the response reaches the
\* browser.  An error response carries no session cookie.
Deliver(r) ==
    /\ pc[r] = "responding"
    /\ jar' = CASE response[r].kind = "SetCookie" -> response[r].cookie
                [] response[r].kind = "Removal"   -> NoCookie
                [] OTHER                          -> jar
    /\ Forget(r)

\* The client goes away, or the task panicked: the future that processes the
\* request is dropped at the await point it has reached.
Abandon(r) ==
    /\ \/ pc[r] = "panicked"
       \/ pc[r] # "idle" /\ "disconnect" \in Faults
    /\ Forget(r)
    /\ UNCHANGED jar

\* The browser drops the cookie: it was closed, or Max-Age has passed.
ForgetCookie ==
    /\ "forget" \in Faults
    /\ jar' = NoCookie
    /\ UNCHANGED <<records, pc, session, loads, response, history>>

TimePasses ==
    /\ "expiry" \in Faults
    /\ Elapse
    /\ UNCHANGED <<jar, pc, session, loads, response, history>>

CollectExpired ==
    /\ DeleteExpired(1)
    /\ UNCHANGED <<jar, pc, session, loads, response, history>>

Next ==
    \/ \E r \in Requests :
          \/ Arrive(r) \/ HandlerStep(r)
          \/ Sync(r) \/ Finalize(r) \/ CreateRenamed(r)
          \/ Deliver(r) \/ Abandon(r)
    \/ ForgetCookie \/ TimePasses \/ CollectExpired

Spec == Init /\ [][Next]_vars

---------------------------------------------------------------------------
(* Properties.                                                             *)

SessionIds ==
    [kind : {"None", "Existing", "ToBeRenamed", "NewlyGenerated"},
     old : Ids \cup {NoId}, new : Ids \cup {NoId}]

\* An idle request has no session; a rename goes to another id (session_.rs,
\* the internal invariant of CurrentSessionId::ToBeRenamed).
IdOK(r) ==
    \/ pc[r] = "idle" /\ id[r] = NoSession
    \/ /\ pc[r] # "idle"
       /\ id[r].new \in Ids
       /\ \/ id[r].kind = "Existing" /\ id[r].old = id[r].new
          \/ id[r].kind = "ToBeRenamed" /\ id[r].old \in Ids \ {id[r].new}
          \/ id[r].kind = "NewlyGenerated" /\ id[r].old = NoId

ServerStates == [tag : ServerTags, state : SUBSET Keys, ttl : 0..MaxTtl]
ClientStates == [state : SUBSET ClientKeys, updated : BOOLEAN]
Responses == [kind : {"None", "SetCookie", "Removal", "Failure"},
              cookie : Cookies \cup {NoCookie}]

PCs == {"idle", "handling", "sync_create", "finalize_create", "responding",
        "panicked"}

\* The type invariant of pavex_session's state, of the records in the store
\* and of the browser's cookie.
TypeOK ==
    /\ StoreTypeOK
    /\ jar \in Cookies \cup {NoCookie}
    /\ pc \in [Requests -> PCs]
    /\ id \in [Requests -> SessionIds]
    /\ \A r \in Requests : IdOK(r)
    /\ server \in [Requests -> ServerStates]
    /\ client \in [Requests -> ClientStates]
    /\ invalidated \in [Requests -> BOOLEAN]
    /\ loads \in [Requests -> SUBSET (Records \cup {NoRecord})]
    /\ response \in [Requests -> Responses]
    /\ dirty \in [Requests -> BOOLEAN]
    /\ retired \subseteq Ids

\* A session that has been invalidated is marked for deletion, whoever
\* invalidated it (the handler, or one of several loads that race) and
\* whatever the handler does next: nothing can be written to it any more
\* (the internal invariant of Session's `invalidated` field).
InvalidatedIsMarked ==
    \A r \in Requests : invalidated[r] => server[r].tag = "MarkedForDeletion"

\* The code's assertions hold: sync never sees a new session whose state is
\* not loaded, nor an unsaved one that claims to be unchanged; finalize never
\* sees a changed or marked state after a sync (unreachable! and assert! in
\* sync and finalize).
NoPanic == \A r \in Requests : pc[r] # "panicked"

\* Once a request has completed a rotation or a logout, no concurrent request
\* that still works with the old id can bring a record back under it: a
\* stolen or late cookie with that id stays useless (sync, all branches).
RetiredIdsStayDead == \A i \in retired : ~IsFresh(i)

Synced(r) ==
    /\ pc[r] \in {"handling", "finalize_create"}
    /\ pc'[r] = "responding"
    /\ response'[r] # Failure

\* When finalize succeeds, every change the handler made to the server-side
\* state is in the store, under the id the browser is told: "sync the
\* in-memory representation of the server-side state with the store" (sync).
ChangesAreStored ==
    [][\A r \in Requests :
          Synced(r) /\ dirty[r] =>
             /\ IsFresh(id[r].new)'
             /\ records'[id[r].new].state = server[r].state]_vars

\* finalize fails for one reason only: the record the session continues has
\* gone in the meantime.  New ids never collide, and a failed rename of a
\* loaded state is repaired (sync, the error branches).
FailuresAreExplained ==
    [][\A r \in Requests :
          pc'[r] = "responding" /\ response'[r] = Failure /\ pc[r] # "responding" =>
             ~IsNew(r) /\ ~IsFresh(id[r].old)]_vars

Quiet == \A r \in Requests : pc[r] = "idle"

\* Between two requests, the cookie in the browser names a session whose
\* record is in the store: rotations, logouts and changes never leave the
\* browser with an id that has been given up (finalize and sync together).
CookieNamesLiveSession == Quiet /\ jar # NoCookie => IsFresh(jar.id)

\* Between two requests, the store holds no record that the browser cannot
\* name: a rotation, a logout or an unused session leaves nothing behind.
NoOrphanRecords ==
    Quiet => \A i \in Ids : IsFresh(i) => jar # NoCookie /\ jar.id = i

\* finalize never fails.
FinalizeSucceeds == \A r \in Requests : response[r] # Failure
===========================================================================
