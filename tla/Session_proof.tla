--------------------------- MODULE Session_proof ---------------------------
(***************************************************************************)
(* Proofs about Session, for any number of requests, ids, keys and units   *)
(* of time.                                                                *)
(***************************************************************************)
EXTENDS Session, TLAPS

---------------------------------------------------------------------------
(* Types.                                                                  *)

\* Every operation of the store keeps its map well typed.
LEMMA StoreCalls ==
    ASSUME StoreTypeOK, NEW i \in Ids, NEW j \in Ids, NEW state \in SUBSET Keys,
           NEW out,
           \/ TryCreate(i, state, out) \/ TryUpdate(i, state, out)
           \/ TryUpdateTtl(i, out) \/ TryDelete(i, out) \/ TryChangeId(i, j, out)
    PROVE  StoreTypeOK'
<1> USE MaxTtlAssumption, NoRecordAssumption DEF StoreTypeOK, Records
<1>1. CASE BackendError(out)
    BY <1>1 DEF BackendError
<1>2. CASE Create(i, state, MaxTtl, out) \/ Update(i, state, MaxTtl, out)
    BY <1>2 DEF Create, Update, NewRecord
<1>3. CASE UpdateTtl(i, MaxTtl, out)
    BY <1>3 DEF UpdateTtl, IsFresh, IsStored
<1>4. CASE Delete(i, out)
    BY <1>4 DEF Delete
<1>5. CASE ChangeId(i, j, out)
    BY <1>5 DEF ChangeId, IsFresh, IsStored
<1> QED
    BY <1>1, <1>2, <1>3, <1>4, <1>5
       DEF TryCreate, TryUpdate, TryUpdateTtl, TryDelete, TryChangeId

\* Time and the collection of expired records keep the map well typed too.
LEMMA StoreBackground ==
    ASSUME StoreTypeOK, Elapse \/ DeleteExpired(1)
    PROVE  StoreTypeOK'
<1> USE MaxTtlAssumption, NoRecordAssumption DEF StoreTypeOK, Records
<1>1. CASE Elapse
    BY <1>1 DEF Elapse, IsFresh, IsStored
<1>2. CASE DeleteExpired(1)
    BY <1>2 DEF DeleteExpired
<1> QED
    BY <1>1, <1>2

\* The calls of sync keep the map well typed.
LEMMA SyncCallType ==
    ASSUME TypeOK, NEW r \in Requests, pc[r] = "handling", NEW res,
           SyncCall(r, res)
    PROVE  StoreTypeOK'
<1> USE SessionAssumption
<1>0. /\ StoreTypeOK
      /\ id[r].new \in Ids
      /\ ~IsNew(r) => id[r].old \in Ids
      /\ server[r].state \in SUBSET Keys
    BY DEF TypeOK, IdOK, IsNew, ServerStates
<1>1. CASE SyncDoesNotExist(r, res)
    BY <1>0, <1>1, StoreCalls, {} \in SUBSET Keys DEF SyncDoesNotExist, NoCall, StoreTypeOK
<1>2. CASE SyncNotLoaded(r, res)
    BY <1>0, <1>2, StoreCalls DEF SyncNotLoaded, NoCall, IsNew, StoreTypeOK
<1>3. CASE SyncUnchanged(r, res)
    BY <1>0, <1>3, StoreCalls, {} \in SUBSET Keys DEF SyncUnchanged, NoCall, IsNew, StoreTypeOK
<1>4. CASE SyncMarked(r, res)
    BY <1>0, <1>4, StoreCalls DEF SyncMarked, NoCall, StoreTypeOK
<1>5. CASE SyncChanged(r, res)
    BY <1>0, <1>5, StoreCalls DEF SyncChanged, IsNew, StoreTypeOK
<1> QED
    BY <1>1, <1>2, <1>3, <1>4, <1>5 DEF SyncCall

\* The session a successful sync settles on, and the response, are well typed.
LEMMA SettledType ==
    ASSUME TypeOK, NEW r \in Requests, pc[r] # "idle"
    PROVE  /\ Settled(r) \in ServerStates
           /\ CookieFor(r) \in Responses
<1>1. /\ id[r].new \in Ids
      /\ client[r].state \in SUBSET ClientKeys
      /\ server[r] \in ServerStates
      /\ server[r].state \in SUBSET Keys
    BY DEF TypeOK, IdOK, ServerStates, ClientStates
<1>2. Settled(r) \in ServerStates
  <2> USE <1>1, MaxTtlAssumption DEF ServerStates, ServerTags
  <2>1. CASE server[r].tag = "Changed"
      BY <2>1 DEF Settled, Unchanged, ServerState
  <2>2. CASE server[r].tag = "MarkedForDeletion"
      BY <2>2 DEF Settled, MarkedForDeletion, DoesNotExist, ServerState
  <2>3. CASE server[r].tag = "DoesNotExist"
      BY <2>3 DEF Settled, DoesNotExist, Unchanged, ServerState
  <2>4. CASE server[r].tag \notin {"Changed", "MarkedForDeletion", "DoesNotExist"}
      BY <2>4 DEF Settled
  <2> QED
      BY <2>1, <2>2, <2>3, <2>4
<1>3. CookieFor(r) \in Responses
    BY <1>1 DEF CookieFor, Responses, NoResponse, Removal, SetCookie, Cookies
<1> QED
    BY <1>2, <1>3

\* What follows the calls of sync keeps the types.
LEMMA AfterSyncType ==
    ASSUME TypeOK, NEW r \in Requests, pc[r] # "idle", NEW res, NEW caller,
           AfterSync(r, res, caller), StoreTypeOK',
           UNCHANGED <<jar, id, client, invalidated, loads>>
    PROVE  TypeOK'
<1> USE DEF TypeOK, PCs
<1>0. /\ Settled(r) \in ServerStates
      /\ CookieFor(r) \in Responses
    BY SettledType
<1>1. Failure \in Responses
    BY DEF Failure, Responses
<1>2. /\ pc' \in [Requests -> PCs]
      /\ server' \in [Requests -> ServerStates]
      /\ response' \in [Requests -> Responses]
      /\ dirty' \in [Requests -> BOOLEAN]
  <2>1. pc' \in [Requests -> PCs]
      BY DEF AfterSync
  <2>2. server' \in [Requests -> ServerStates]
      BY <1>0 DEF AfterSync
  <2>3. response' \in [Requests -> Responses]
      BY <1>0, <1>1 DEF AfterSync
  <2>4. dirty' \in [Requests -> BOOLEAN]
      BY DEF AfterSync, history
  <2> QED
      BY <2>1, <2>2, <2>3, <2>4
<1>3. \A q \in Requests : pc'[q] = "idle" <=> pc[q] = "idle"
    BY DEF AfterSync
<1>4. \A q \in Requests : IdOK(q)'
    BY <1>3 DEF IdOK, NoSession
<1>5. retired' \subseteq Ids
  <2>1. GivesUpOldId(r) => id[r].old \in Ids
      BY DEF GivesUpOldId, IdOK, IsNew
  <2> QED
      BY <2>1 DEF AfterSync, history
<1> QED
    BY <1>2, <1>4, <1>5

\* A step of the request handler keeps the types.
LEMMA HandlerType ==
    ASSUME TypeOK, NEW r \in Requests, HandlerStep(r)
    PROVE  TypeOK'
<1> USE SessionAssumption, MaxTtlAssumption, NoRecordAssumption
    DEF TypeOK, StoreTypeOK, session, history
<1>1. CASE StartLoad(r)
  <2>1. id[r].old \in Ids
      BY <1>1 DEF StartLoad, IdOK, IsNew
  <2>2. Loaded(id[r].old) \in Records \cup {NoRecord}
      BY <2>1 DEF Loaded
  <2> QED
      BY <1>1, <2>2 DEF StartLoad, IdOK, NoSession
<1>2. CASE FinishLoad(r)
  <2>1. PICK found \in loads[r] :
          /\ loads' = [loads EXCEPT ![r] = @ \ {found}]
          /\ LET rejects == found = NoRecord /\ MissingServerState = "Reject" IN
             IF IsLoaded(r)
             THEN UNCHANGED <<server, invalidated>>
             ELSE /\ server' = [server EXCEPT ![r] =
                                  IF rejects THEN MarkedForDeletion
                                  ELSE IF found = NoRecord THEN DoesNotExist
                                  ELSE Unchanged(found.state, found.life)]
                  /\ invalidated' = [invalidated EXCEPT ![r] = @ \/ rejects]
      BY <1>2, Zenon DEF FinishLoad
  <2>2. UNCHANGED <<records, jar, pc, id, client, response, dirty, retired>>
      BY <1>2 DEF FinishLoad
  <2>3. /\ MarkedForDeletion \in ServerStates
        /\ DoesNotExist \in ServerStates
        /\ found # NoRecord => Unchanged(found.state, found.life) \in ServerStates
      BY <2>1 DEF MarkedForDeletion, DoesNotExist, Unchanged, ServerState, ServerStates,
                  ServerTags, Records
  <2>4. server' \in [Requests -> ServerStates]
      BY <2>1, <2>3
  <2>5. invalidated' \in [Requests -> BOOLEAN] /\ loads' \in [Requests -> SUBSET (Records \cup {NoRecord})]
      BY <2>1
  <2> QED
      BY <2>2, <2>4, <2>5 DEF IdOK, NoSession
<1>3. CASE LoadFails(r)
    BY <1>3 DEF LoadFails, IdOK, NoSession
<1>4. CASE \/ \E k \in Keys : Insert(r, k) \/ Remove(r, k)
           \/ Clear(r) \/ DeleteState(r) \/ Invalidate(r)
  <2>1. server[r] \in ServerStates
      OBVIOUS
  <2>2. PICK state \in ServerStates :
          /\ server' = [server EXCEPT ![r] = state]
          /\ dirty' \in [Requests -> BOOLEAN]
          /\ UNCHANGED <<id, client, retired>>
    <3>1. ASSUME NEW k \in Keys, Insert(r, k)
          PROVE  /\ Changed(server[r].state \cup {k}) \in ServerStates
                 /\ server' = [server EXCEPT ![r] = Changed(server[r].state \cup {k})]
                 /\ dirty' \in [Requests -> BOOLEAN]
                 /\ UNCHANGED <<id, client, retired>>
        BY <2>1, <3>1 DEF Insert, Changed, SetServer, ServerStates, ServerTags, ServerState
    <3>2. ASSUME NEW k \in Keys, Remove(r, k)
          PROVE  /\ [server[r] EXCEPT !.state = @ \ {k}] \in ServerStates
                 /\ server' = [server EXCEPT ![r] = [server[r] EXCEPT !.state = @ \ {k}]]
                 /\ dirty' \in [Requests -> BOOLEAN]
                 /\ UNCHANGED <<id, client, retired>>
        BY <2>1, <3>2 DEF Remove, SetServer, ServerStates, ServerTags, ServerState
    <3>3. ASSUME Clear(r)
          PROVE  /\ Changed({}) \in ServerStates
                 /\ server' = [server EXCEPT ![r] = Changed({})]
                 /\ dirty' \in [Requests -> BOOLEAN]
                 /\ UNCHANGED <<id, client, retired>>
        BY <2>1, <3>3 DEF Clear, Changed, SetServer, ServerStates, ServerTags, ServerState
    <3>4. ASSUME DeleteState(r) \/ Invalidate(r)
          PROVE  /\ MarkedForDeletion \in ServerStates
                 /\ server' = [server EXCEPT ![r] = MarkedForDeletion]
                 /\ dirty' \in [Requests -> BOOLEAN]
                 /\ UNCHANGED <<id, client, retired>>
      <4>1. MarkedForDeletion \in ServerStates
          BY MaxTtlAssumption
             DEF MarkedForDeletion, ServerStates, ServerTags, ServerState
      <4>2. SetServer(r, MarkedForDeletion, FALSE)
          BY <3>4 DEF DeleteState, Invalidate
      <4> QED
          BY <4>1, <4>2 DEF SetServer
    <3>5. CASE \E k \in Keys : Insert(r, k)
        BY <3>1, <3>5
    <3>6. CASE \E k \in Keys : Remove(r, k)
        BY <3>2, <3>6
    <3> QED
        BY <1>4, <3>3, <3>4, <3>5, <3>6
  <2>3. invalidated' \in [Requests -> BOOLEAN] /\ \E op \in AllOps : Handles(r, op)
      BY <1>4 DEF Insert, Remove, Clear, DeleteState, Invalidate, AllOps
  <2> QED
      BY <2>2, <2>3 DEF Handles, IdOK, NoSession
<1>5. CASE CycleId(r)
  <2>1. PICK new \in Ids \ KnownIds :
          /\ id' = [id EXCEPT ![r] = IF IsNew(r) THEN NewlyGenerated(new)
                                                 ELSE ToBeRenamed(id[r].old, new)]
          /\ retired' = retired \ {new}
      BY <1>5 DEF CycleId
  <2>2. id[r].old # new /\ pc[r] = "handling" /\ UNCHANGED pc
      BY <1>5, <2>1 DEF KnownIds, CycleId, Handles
  <2>3. id' \in [Requests -> SessionIds]
      BY <2>1 DEF SessionIds, NewlyGenerated, ToBeRenamed
  <2>4. \A q \in Requests : IdOK(q)'
      BY <2>1, <2>2 DEF IdOK, NewlyGenerated, ToBeRenamed, NoSession, IsNew
  <2> QED
      BY <1>5, <2>1, <2>3, <2>4 DEF CycleId, Handles
<1>6. CASE (\E k \in ClientKeys : ClientInsert(r, k) \/ ClientRemove(r, k)) \/ ClientClear(r)
  <2>1. client[r].state \in SUBSET ClientKeys
      BY DEF ClientStates
  <2>2. PICK state \in SUBSET ClientKeys : SetClient(r, state)
      BY <1>6, <2>1 DEF ClientInsert, ClientRemove, ClientClear
  <2>3. \E op \in AllOps : Handles(r, op)
      BY <1>6 DEF ClientInsert, ClientRemove, ClientClear, AllOps
  <2> QED
      BY <2>2, <2>3 DEF SetClient, Handles, ClientStates, IdOK, NoSession
<1> QED
    BY <1>1, <1>2, <1>3, <1>4, <1>5, <1>6 DEF HandlerStep

\* The type invariant is inductive.
LEMMA TypeInit == Init => TypeOK
<1> USE SessionAssumption
<1> SUFFICES ASSUME Init PROVE TypeOK
    OBVIOUS
<1>2. StoreTypeOK
    BY DEF Init, StoreInit, StoreTypeOK
<1>3. /\ NotLoaded \in ServerStates
      /\ NoResponse \in Responses
      /\ [state |-> {}, updated |-> FALSE] \in ClientStates
      /\ NoSession \in SessionIds
    BY MaxTtlAssumption
       DEF NotLoaded, ServerState, ServerStates, ServerTags, NoResponse, Responses,
           ClientStates, NoSession, SessionIds
<1> QED
    BY <1>2, <1>3 DEF Init, TypeOK, IdOK, PCs

LEMMA TypeStep ==
    ASSUME TypeOK, [Next]_vars
    PROVE  TypeOK'
<1> USE SessionAssumption
<1>1. ASSUME NEW r \in Requests, Arrive(r)
      PROVE  TypeOK'
  <2>1. CASE jar = NoCookie
    <3>1. PICK i \in Ids \ KnownIds :
            /\ id' = [id EXCEPT ![r] = NewlyGenerated(i)]
            /\ server' = [server EXCEPT ![r] = DoesNotExist]
            /\ client' = [client EXCEPT ![r] = [state |-> {}, updated |-> FALSE]]
            /\ retired' = retired \ {i}
        BY <1>1, <2>1 DEF Arrive
    <3>2. NewlyGenerated(i) \in SessionIds /\ DoesNotExist \in ServerStates
          /\ [state |-> {}, updated |-> FALSE] \in ClientStates
        BY MaxTtlAssumption
           DEF NewlyGenerated, SessionIds, DoesNotExist, ServerState, ServerStates,
               ServerTags, ClientStates
    <3>3. \A q \in Requests : IdOK(q)'
        BY <1>1, <3>1 DEF Arrive, TypeOK, IdOK, NewlyGenerated, NoSession
    <3> QED
        BY <1>1, <3>1, <3>2, <3>3 DEF Arrive, TypeOK, StoreTypeOK, PCs
  <2>2. CASE jar # NoCookie
    <3>1. jar \in Cookies
        BY <2>2 DEF TypeOK
    <3>2. /\ id' = [id EXCEPT ![r] = Existing(jar.id)]
          /\ server' = [server EXCEPT ![r] = NotLoaded]
          /\ client' = [client EXCEPT ![r] = [state |-> jar.client, updated |-> FALSE]]
          /\ UNCHANGED retired
        BY <1>1, <2>2 DEF Arrive
    <3>3. Existing(jar.id) \in SessionIds /\ NotLoaded \in ServerStates
          /\ [state |-> jar.client, updated |-> FALSE] \in ClientStates
        BY <3>1, MaxTtlAssumption
           DEF Existing, SessionIds, NotLoaded, ServerState, ServerStates, ServerTags,
               ClientStates, Cookies
    <3>4. \A q \in Requests : IdOK(q)'
        BY <1>1, <3>1, <3>2 DEF Arrive, TypeOK, IdOK, Existing, NoSession, Cookies
    <3> QED
        BY <1>1, <3>2, <3>3, <3>4 DEF Arrive, TypeOK, StoreTypeOK, PCs
  <2> QED
      BY <2>1, <2>2
<1>2. ASSUME NEW r \in Requests, HandlerStep(r)
      PROVE  TypeOK'
    BY <1>2, HandlerType
<1>3. ASSUME NEW r \in Requests, Sync(r) \/ Finalize(r)
      PROVE  TypeOK'
  <2>1. PICK res \in SyncResults, caller \in {"handler", "finalize"} :
          /\ pc[r] = "handling"
          /\ SyncCall(r, res)
          /\ AfterSync(r, res, caller)
          /\ UNCHANGED <<jar, id, client, invalidated, loads>>
      BY <1>3 DEF Sync, Finalize
  <2>2. StoreTypeOK'
      BY <2>1, SyncCallType
  <2> QED
      BY <2>1, <2>2, AfterSyncType
<1>4. ASSUME NEW r \in Requests, CreateRenamed(r)
      PROVE  TypeOK'
  <2>1. PICK out \in CallResults, caller \in {"handler", "finalize"} :
          /\ TryCreate(id[r].new, server[r].state, out)
          /\ AfterSync(r, OkOrFailed(out), caller)
      BY <1>4 DEF CreateRenamed
  <2>2. id[r].new \in Ids /\ server[r].state \in SUBSET Keys /\ pc[r] # "idle"
      BY <1>4 DEF CreateRenamed, TypeOK, IdOK, ServerStates
  <2>3. StoreTypeOK'
      BY <2>1, <2>2, StoreCalls DEF TypeOK
  <2> QED
      BY <1>4, <2>1, <2>2, <2>3, AfterSyncType DEF CreateRenamed
<1>5. ASSUME NEW r \in Requests, Deliver(r) \/ Abandon(r)
      PROVE  TypeOK'
  <2>1. jar' \in Cookies \cup {NoCookie}
    <3>1. response[r].cookie \in Cookies \cup {NoCookie}
        BY DEF TypeOK, Responses
    <3>2. CASE Deliver(r)
        BY <3>1, <3>2 DEF Deliver, TypeOK
    <3>3. CASE Abandon(r)
        BY <3>3 DEF Abandon, TypeOK
    <3> QED
        BY <1>5, <3>2, <3>3
  <2>2. Forget(r)
      BY <1>5 DEF Deliver, Abandon
  <2>3. /\ NotLoaded \in ServerStates
        /\ NoResponse \in Responses
        /\ [state |-> {}, updated |-> FALSE] \in ClientStates
        /\ NoSession \in SessionIds
      BY MaxTtlAssumption
         DEF NotLoaded, ServerState, ServerStates, ServerTags, NoResponse, Responses,
             ClientStates, NoSession, SessionIds
  <2>4. \A q \in Requests : IdOK(q)'
      BY <2>2 DEF Forget, TypeOK, IdOK, NoSession
  <2> QED
      BY <2>1, <2>2, <2>3, <2>4 DEF Forget, TypeOK, StoreTypeOK, PCs
<1>6. CASE ForgetCookie
    BY <1>6 DEF ForgetCookie, TypeOK, StoreTypeOK, session, history, IdOK
<1>7. CASE TimePasses \/ CollectExpired
  <2>1. StoreTypeOK'
      BY <1>7, StoreBackground DEF TimePasses, CollectExpired, TypeOK
  <2> QED
      BY <1>7, <2>1 DEF TimePasses, CollectExpired, TypeOK, session, history, IdOK
<1>8. CASE UNCHANGED vars
    BY <1>8 DEF vars, TypeOK, StoreTypeOK, session, history, IdOK
<1> QED
    BY <1>1, <1>2, <1>3, <1>4, <1>5, <1>6, <1>7, <1>8 DEF Next

\* Every state the sessions, the store and the browser can reach is well typed;
\* in particular a session is never renamed to the id it has.
THEOREM TypeCorrect == Spec => []TypeOK
<1> QED
    BY TypeInit, TypeStep, PTL DEF Spec

---------------------------------------------------------------------------
(* The inductive invariants.                                               *)

\* A request that is not in progress has not invalidated anything.
IdleIsClean == \A r \in Requests : pc[r] = "idle" => ~invalidated[r]

\* What follows holds for handlers that leave it to the middleware to sync,
\* and for a configuration that rejects a session without a record.
NoManualSync == "sync" \notin Ops /\ MissingServerState = "Reject"

\* A session that came with a cookie is never found to have no record: it is
\* marked for deletion instead.
MissingIsRejected ==
    \A r \in Requests :
        pc[r] = "handling" /\ ~IsNew(r) => server[r].tag # "DoesNotExist"

\* The state of a new session is known without a load, and has to be saved if
\* it is not empty.
NewIsNeverLoaded ==
    \A r \in Requests :
        pc[r] = "handling" /\ IsNew(r) =>
            server[r].tag \in {"DoesNotExist", "MarkedForDeletion", "Changed"}

\* Between the two calls of a rename, the old id has no record.
RenameInProgress ==
    \A r \in Requests :
        /\ pc[r] # "sync_create"
        /\ pc[r] = "finalize_create" =>
              /\ id[r].kind = "ToBeRenamed"
              /\ server[r].tag \in {"Changed", "Unchanged"}
              /\ ~IsFresh(id[r].old)

\* The cookie a response sets names the new id of its own session.
ResponseNamesNewId ==
    \A r \in Requests :
        response[r].kind = "SetCookie" =>
            /\ pc[r] = "responding"
            /\ response[r].cookie # NoCookie
            /\ response[r].cookie.id = id[r].new

\* Until its request is answered, a newly drawn id is nobody else's.
OwnsNewId(r) ==
    pc[r] \in {"handling", "finalize_create"} /\ id[r].kind # "Existing" =>
        /\ id[r].new \notin retired
        /\ jar = NoCookie \/ jar.id # id[r].new
        /\ \A q \in Requests \ {r} : id[r].new \notin {id[q].old, id[q].new}

NewIdsAreOwned == \A r \in Requests : OwnsNewId(r)

IdsInv ==
    /\ MissingIsRejected
    /\ NewIsNeverLoaded
    /\ RenameInProgress
    /\ ResponseNamesNewId
    /\ NewIdsAreOwned
    /\ RetiredIdsStayDead
    /\ NoPanic

RetiredInv == TypeOK /\ InvalidatedIsMarked /\ IdleIsClean /\ IdsInv

---------------------------------------------------------------------------
(* An invalidated session stays marked for deletion.                       *)

\* The handler invalidates a session only together with marking it, and never
\* takes the mark away.
LEMMA InvalidatedHandler ==
    ASSUME TypeOK, InvalidatedIsMarked, IdleIsClean, NEW r \in Requests,
           HandlerStep(r)
    PROVE  InvalidatedIsMarked' /\ IdleIsClean'
<1> USE DEF InvalidatedIsMarked, IdleIsClean
<1>0. /\ server \in [Requests -> ServerStates]
      /\ invalidated \in [Requests -> BOOLEAN]
    BY DEF TypeOK
<1>1. CASE StartLoad(r) \/ LoadFails(r)
    BY <1>1 DEF StartLoad, LoadFails, session
<1>2. CASE FinishLoad(r)
    BY <1>0, <1>2 DEF FinishLoad, IsLoaded, MarkedForDeletion, ServerState
<1>3. CASE \E k \in Keys : Insert(r, k)
    BY <1>0, <1>3 DEF Insert, SetServer, Handles
<1>4. CASE \E k \in Keys : Remove(r, k)
    BY <1>0, <1>4 DEF Remove, SetServer, Handles
<1>5. CASE Clear(r)
    BY <1>0, <1>5 DEF Clear, SetServer, Handles
<1>6. CASE DeleteState(r)
    BY <1>0, <1>6 DEF DeleteState, SetServer, MarkedForDeletion, ServerState, Handles
<1>7. CASE Invalidate(r)
    BY <1>0, <1>7 DEF Invalidate, SetServer, MarkedForDeletion, ServerState, Handles
<1>8. CASE CycleId(r)
    BY <1>8 DEF CycleId, Handles
<1>9. CASE (\E k \in ClientKeys : ClientInsert(r, k) \/ ClientRemove(r, k)) \/ ClientClear(r)
    BY <1>9 DEF ClientInsert, ClientRemove, ClientClear, SetClient, Handles
<1> QED
    BY <1>1, <1>2, <1>3, <1>4, <1>5, <1>6, <1>7, <1>8, <1>9 DEF HandlerStep

\* A sync that succeeds leaves the mark on an invalidated session.
LEMMA InvalidatedAfterSync ==
    ASSUME TypeOK, InvalidatedIsMarked, IdleIsClean, NEW r \in Requests,
           pc[r] # "idle", NEW res, NEW caller, AfterSync(r, res, caller),
           UNCHANGED invalidated
    PROVE  InvalidatedIsMarked' /\ IdleIsClean'
<1> USE DEF InvalidatedIsMarked, IdleIsClean
<1>1. invalidated[r] => Settled(r).tag = "MarkedForDeletion"
    BY DEF Settled, MarkedForDeletion, ServerState
<1>2. server \in [Requests -> ServerStates] /\ pc \in [Requests -> PCs]
    BY DEF TypeOK
<1> QED
    BY <1>1, <1>2 DEF AfterSync

LEMMA InvalidatedStep ==
    ASSUME TypeOK, InvalidatedIsMarked, IdleIsClean, [Next]_vars
    PROVE  InvalidatedIsMarked' /\ IdleIsClean'
<1>0. /\ server \in [Requests -> ServerStates]
      /\ invalidated \in [Requests -> BOOLEAN]
      /\ pc \in [Requests -> PCs]
    BY DEF TypeOK
<1>1. ASSUME NEW r \in Requests, Arrive(r)
      PROVE  InvalidatedIsMarked' /\ IdleIsClean'
  <2>1. /\ pc[r] = "idle" /\ UNCHANGED invalidated
        /\ pc' = [pc EXCEPT ![r] = "handling"]
        /\ \A q \in Requests \ {r} : server'[q] = server[q]
      BY <1>0, <1>1 DEF Arrive
  <2> QED
      BY <1>0, <2>1 DEF InvalidatedIsMarked, IdleIsClean
<1>2. ASSUME NEW r \in Requests, HandlerStep(r)
      PROVE  InvalidatedIsMarked' /\ IdleIsClean'
    BY <1>2, InvalidatedHandler
<1>3. ASSUME NEW r \in Requests, Sync(r) \/ Finalize(r) \/ CreateRenamed(r)
      PROVE  InvalidatedIsMarked' /\ IdleIsClean'
  <2>1. PICK res, caller : AfterSync(r, res, caller)
      BY <1>3 DEF Sync, Finalize, CreateRenamed
  <2>2. pc[r] # "idle" /\ UNCHANGED invalidated
      BY <1>3 DEF Sync, Finalize, CreateRenamed
  <2> QED
      BY <2>1, <2>2, InvalidatedAfterSync
<1>4. ASSUME NEW r \in Requests, Deliver(r) \/ Abandon(r)
      PROVE  InvalidatedIsMarked' /\ IdleIsClean'
    BY <1>0, <1>4 DEF Deliver, Abandon, Forget, InvalidatedIsMarked, IdleIsClean
<1>5. CASE ForgetCookie \/ TimePasses \/ CollectExpired \/ UNCHANGED vars
    BY <1>5 DEF ForgetCookie, TimePasses, CollectExpired, vars, session,
                InvalidatedIsMarked, IdleIsClean
<1> QED
    BY <1>1, <1>2, <1>3, <1>4, <1>5 DEF Next

\* An invalidated session is marked for deletion at all times, for every way to
\* interleave the loads, the handler's operations and the calls of sync (the
\* internal invariant of Session's `invalidated` field).
THEOREM InvalidatedSafe == Spec => []InvalidatedIsMarked
<1>1. Init => InvalidatedIsMarked /\ IdleIsClean
    BY DEF Init, InvalidatedIsMarked, IdleIsClean
<1>2. InvalidatedIsMarked /\ IdleIsClean /\ TypeOK /\ [Next]_vars
      => (InvalidatedIsMarked /\ IdleIsClean)'
    BY InvalidatedStep
<1> QED
    BY <1>1, <1>2, TypeCorrect, PTL DEF Spec

---------------------------------------------------------------------------
(* Which ids the store calls can bring to life.                            *)

\* Only create and change_id make an id live, and only the one they are given.
LEMMA CallsRevive ==
    ASSUME StoreTypeOK, NEW i \in Ids, NEW j \in Ids, NEW state, NEW out, NEW k \in Ids
    PROVE  /\ TryCreate(i, state, out) => (IsFresh(k)' => IsFresh(k) \/ k = i)
           /\ TryUpdate(i, state, out) => (IsFresh(k)' => IsFresh(k))
           /\ TryUpdateTtl(i, out) => (IsFresh(k)' => IsFresh(k))
           /\ TryDelete(i, out) => (IsFresh(k)' => IsFresh(k))
           /\ TryChangeId(i, j, out) => (IsFresh(k)' => IsFresh(k) \/ k = j)
<1> USE DEF StoreTypeOK, BackendError, IsFresh, IsStored
<1>1. TryCreate(i, state, out) => (IsFresh(k)' => IsFresh(k) \/ k = i)
    BY DEF TryCreate, Create
<1>2. TryUpdate(i, state, out) => (IsFresh(k)' => IsFresh(k))
    BY DEF TryUpdate, Update
<1>3. TryUpdateTtl(i, out) => (IsFresh(k)' => IsFresh(k))
    BY DEF TryUpdateTtl, UpdateTtl
<1>4. TryDelete(i, out) => (IsFresh(k)' => IsFresh(k))
    BY DEF TryDelete, Delete
<1>5. TryChangeId(i, j, out) => (IsFresh(k)' => IsFresh(k) \/ k = j)
    BY DEF TryChangeId, ChangeId
<1> QED
    BY <1>1, <1>2, <1>3, <1>4, <1>5

\* A delete or a rename that the caller takes for done leaves no live record
\* under the old id.
LEMMA CallsRetire ==
    ASSUME StoreTypeOK, NEW i \in Ids, NEW j \in Ids, NEW out \in {"Ok", "UnknownId"}
    PROVE  /\ TryDelete(i, out) => ~IsFresh(i)'
           /\ TryChangeId(i, j, out) /\ i # j => ~IsFresh(i)'
<1> USE DEF StoreTypeOK, BackendError, IsFresh, IsStored
<1>1. TryDelete(i, out) => ~IsFresh(i)'
    BY DEF TryDelete, Delete
<1>2. TryChangeId(i, j, out) /\ i # j => ~IsFresh(i)'
    BY DEF TryChangeId, ChangeId
<1> QED
    BY <1>1, <1>2

\* Time and the collection of expired records revive nothing.
LEMMA BackgroundRevives ==
    ASSUME StoreTypeOK, Elapse \/ DeleteExpired(1), NEW k \in Ids
    PROVE  IsFresh(k)' => IsFresh(k)
BY NoRecordAssumption DEF StoreTypeOK, Elapse, DeleteExpired, IsFresh, IsStored, IsStale

\* What the calls of one sync do to the ids: a session that keeps its id
\* revives nothing, one with a new id at most that id, and the old id is dead
\* when the session has given it up.
LEMMA SyncCallIds ==
    ASSUME TypeOK, NoManualSync, InvalidatedIsMarked, MissingIsRejected,
           NewIsNeverLoaded, NEW r \in Requests, pc[r] = "handling",
           NEW res \in SyncResults, SyncCall(r, res), UNCHANGED id
    PROVE  /\ \A k \in Ids : IsFresh(k)' =>
                 IsFresh(k) \/ (k = id[r].new /\ id[r].kind # "Existing")
           /\ res = "Synced" /\ GivesUpOldId(r) => ~IsFresh(id[r].old)'
           /\ res = "MustCreate" => /\ id[r].kind = "ToBeRenamed"
                                    /\ server[r].tag \in {"Changed", "Unchanged"}
                                    /\ ~IsFresh(id[r].old)'
           /\ res # "Panicked"
<1> DEFINE Goal == /\ \A k \in Ids : IsFresh(k)' =>
                         IsFresh(k) \/ (k = id[r].new /\ id[r].kind # "Existing")
                   /\ res = "Synced" /\ GivesUpOldId(r) => ~IsFresh(id[r].old)'
                   /\ res = "MustCreate" => /\ id[r].kind = "ToBeRenamed"
                                            /\ server[r].tag \in {"Changed", "Unchanged"}
                                            /\ ~IsFresh(id[r].old)'
                   /\ res # "Panicked"
<1>0. /\ StoreTypeOK
      /\ id' = id
      /\ id[r].new \in Ids
      /\ id[r].kind \in {"Existing", "ToBeRenamed", "NewlyGenerated"}
      /\ ~IsNew(r) => id[r].old \in Ids
      /\ id[r].kind = "ToBeRenamed" => id[r].old # id[r].new
      /\ invalidated[r] => server[r].tag = "MarkedForDeletion"
      /\ ~IsNew(r) => server[r].tag # "DoesNotExist"
      /\ IsNew(r) => server[r].tag \in {"DoesNotExist", "MarkedForDeletion", "Changed"}
    BY DEF TypeOK, IdOK, IsNew, InvalidatedIsMarked, MissingIsRejected, NewIsNeverLoaded
<1>1. ASSUME UNCHANGED records
      PROVE  \A k \in Ids : IsFresh(k)' = IsFresh(k)
    BY <1>1 DEF IsFresh, IsStored
<1>2. CASE SyncDoesNotExist(r, res)
  <2>1. IsNew(r) /\ ~GivesUpOldId(r)
      BY <1>0, <1>2 DEF SyncDoesNotExist, GivesUpOldId, IsNew
  <2>2. res \in {"Synced", "Failed"}
      BY <1>2 DEF SyncDoesNotExist, NoCall, OkOrFailed
  <2>3. (\E out : TryCreate(id[r].new, {}, out)) \/ UNCHANGED records
      BY <1>2 DEF SyncDoesNotExist, NoCall
  <2>4. \A k \in Ids : IsFresh(k)' => IsFresh(k) \/ k = id[r].new
      BY <1>0, <1>1, <2>3, CallsRevive
  <2> QED
      BY <2>1, <2>2, <2>4 DEF IsNew
<1>3. CASE SyncNotLoaded(r, res)
  <2>1. ~IsNew(r) /\ ~invalidated[r]
      BY <1>0, <1>3 DEF SyncNotLoaded
  <2>2. CASE id[r].kind = "Existing"
      BY <1>1, <1>3, <2>1, <2>2 DEF SyncNotLoaded, NoCall, GivesUpOldId, IsNew
  <2>3. CASE id[r].kind = "ToBeRenamed"
    <3>1. PICK out \in CallResults :
            TryChangeId(id[r].old, id[r].new, out) /\ res = OkOrFailed(out)
        BY <1>3, <2>1, <2>3 DEF SyncNotLoaded
    <3>2. \A k \in Ids : IsFresh(k)' => IsFresh(k) \/ k = id[r].new
        BY <1>0, <2>1, <3>1, CallsRevive
    <3>3. out = "Ok" => ~IsFresh(id[r].old)'
        BY <1>0, <2>1, <2>3, <3>1, CallsRetire
    <3> QED
        BY <2>3, <3>1, <3>2, <3>3 DEF OkOrFailed
  <2> QED
      BY <1>0, <2>1, <2>2, <2>3 DEF IsNew
<1>4. CASE SyncUnchanged(r, res)
  <2>1. ~IsNew(r) /\ ~invalidated[r]
      BY <1>0, <1>4 DEF SyncUnchanged
  <2>2. CASE id[r].kind = "Existing"
    <3>1. res \in {"Synced", "Failed"} /\ ~GivesUpOldId(r)
        BY <1>4, <2>1, <2>2 DEF SyncUnchanged, NoCall, OkOrFailed, GivesUpOldId, IsNew
    <3>2. (\E out : TryUpdateTtl(id[r].old, out)) \/ UNCHANGED records
        BY <1>4, <2>1, <2>2 DEF SyncUnchanged, NoCall, IsNew
    <3>3. \A k \in Ids : IsFresh(k)' => IsFresh(k)
        BY <1>0, <1>1, <2>1, <3>2, CallsRevive
    <3> QED
        BY <3>1, <3>3
  <2>3. CASE id[r].kind = "ToBeRenamed"
    <3>1. PICK out \in CallResults :
            /\ TryChangeId(id[r].old, id[r].new, out)
            /\ res = IF out = "UnknownId" THEN "MustCreate" ELSE OkOrFailed(out)
        BY <1>4, <2>1, <2>3 DEF SyncUnchanged
    <3>2. \A k \in Ids : IsFresh(k)' => IsFresh(k) \/ k = id[r].new
        BY <1>0, <2>1, <3>1, CallsRevive
    <3>3. out \in {"Ok", "UnknownId"} => ~IsFresh(id[r].old)'
        BY <1>0, <2>1, <2>3, <3>1, CallsRetire
    <3>4. server[r].tag = "Unchanged"
        BY <1>4 DEF SyncUnchanged
    <3> QED
        BY <2>3, <3>1, <3>2, <3>3, <3>4 DEF OkOrFailed
  <2> QED
      BY <1>0, <2>1, <2>2, <2>3 DEF IsNew
<1>5. CASE SyncMarked(r, res)
  <2>1. CASE IsNew(r)
      BY <1>1, <1>5, <2>1 DEF SyncMarked, NoCall, GivesUpOldId, IsNew
  <2>2. CASE ~IsNew(r)
    <3>1. PICK out \in CallResults :
            /\ TryDelete(id[r].old, out)
            /\ res = IF out = "UnknownId" THEN "Synced" ELSE OkOrFailed(out)
        BY <1>5, <2>2 DEF SyncMarked
    <3>2. \A k \in Ids : IsFresh(k)' => IsFresh(k)
        BY <1>0, <2>2, <3>1, CallsRevive
    <3>3. out \in {"Ok", "UnknownId"} => ~IsFresh(id[r].old)'
        BY <1>0, <2>2, <3>1, CallsRetire
    <3> QED
        BY <3>1, <3>2, <3>3 DEF OkOrFailed
  <2> QED
      BY <2>1, <2>2
<1>6. CASE SyncChanged(r, res)
  <2>1. ~invalidated[r] /\ server[r].tag = "Changed"
      BY <1>0, <1>6 DEF SyncChanged
  <2>2. PICK out \in CallResults :
          \/ /\ id[r].kind = "Existing"
             /\ TryUpdate(id[r].old, server[r].state, out)
             /\ res = OkOrFailed(out)
          \/ /\ id[r].kind = "ToBeRenamed"
             /\ TryDelete(id[r].old, out)
             /\ res = IF out \in {"Ok", "UnknownId"} THEN "MustCreate" ELSE "Failed"
          \/ /\ IsNew(r)
             /\ TryCreate(id[r].new, server[r].state, out)
             /\ res = OkOrFailed(out)
      BY <1>6 DEF SyncChanged
  <2>3. CASE id[r].kind = "Existing"
    <3>1. \A k \in Ids : IsFresh(k)' => IsFresh(k)
        BY <1>0, <2>2, <2>3, CallsRevive DEF IsNew
    <3> QED
        BY <2>1, <2>2, <2>3, <3>1 DEF OkOrFailed, GivesUpOldId, IsNew
  <2>4. CASE id[r].kind = "ToBeRenamed"
    <3>1. \A k \in Ids : IsFresh(k)' => IsFresh(k)
        BY <1>0, <2>2, <2>4, CallsRevive DEF IsNew
    <3>2. out \in {"Ok", "UnknownId"} => ~IsFresh(id[r].old)'
        BY <1>0, <2>2, <2>4, CallsRetire DEF IsNew
    <3> QED
        BY <2>1, <2>2, <2>4, <3>1, <3>2 DEF IsNew
  <2>5. CASE IsNew(r)
    <3>1. \A k \in Ids : IsFresh(k)' => IsFresh(k) \/ k = id[r].new
        BY <1>0, <2>2, <2>5, CallsRevive DEF IsNew
    <3> QED
        BY <2>1, <2>2, <2>5, <3>1 DEF OkOrFailed, GivesUpOldId, IsNew
  <2> QED
      BY <1>0, <2>3, <2>4, <2>5 DEF IsNew
<1> QED
    BY <1>2, <1>3, <1>4, <1>5, <1>6 DEF SyncCall

---------------------------------------------------------------------------
(* An id that has been given up stays dead, and no assertion fails.        *)

\* A new request knows either the browser's id or one that nobody knows.
LEMMA IdsArrive ==
    ASSUME NoManualSync, RetiredInv, NEW r \in Requests, Arrive(r)
    PROVE  IdsInv'
<1>0. /\ TypeOK /\ IdsInv
      /\ pc[r] = "idle" /\ pc' = [pc EXCEPT ![r] = "handling"]
      /\ pc \in [Requests -> PCs]
      /\ id \in [Requests -> SessionIds]
      /\ server \in [Requests -> ServerStates]
      /\ UNCHANGED <<records, jar, response>>
    BY DEF RetiredInv, Arrive, TypeOK
<1>1. CASE jar = NoCookie
  <2>1. PICK i \in Ids \ KnownIds :
          /\ id' = [id EXCEPT ![r] = NewlyGenerated(i)]
          /\ server' = [server EXCEPT ![r] = DoesNotExist]
          /\ retired' = retired \ {i}
      BY <1>1 DEF Arrive
  <2>2. /\ IsNew(r)' /\ id'[r].new = i /\ id'[r].old = NoId
        /\ server'[r].tag = "DoesNotExist"
        /\ \A q \in Requests \ {r} : /\ id'[q] = id[q] /\ server'[q] = server[q]
                                      /\ pc'[q] = pc[q]
      BY <1>0, <2>1 DEF NewlyGenerated, IsNew, DoesNotExist, ServerState
  <2>3. \A q \in Requests : i \notin {id[q].old, id[q].new}
      BY <2>1 DEF KnownIds
  <2>4. MissingIsRejected' /\ NewIsNeverLoaded'
      BY <1>0, <2>2 DEF IdsInv, MissingIsRejected, NewIsNeverLoaded, IsNew
  <2>5. RenameInProgress' /\ NoPanic'
      BY <1>0, <2>2 DEF IdsInv, RenameInProgress, NoPanic, IsFresh, IsStored
  <2>6. ResponseNamesNewId'
      BY <1>0, <2>2 DEF IdsInv, ResponseNamesNewId
  <2>7. NewIdsAreOwned'
    <3>1. OwnsNewId(r)'
      <4>1. \A q \in Requests \ {r} : i \notin {id'[q].old, id'[q].new}
          BY <2>2, <2>3
      <4> QED
          BY <1>0, <1>1, <2>1, <2>2, <4>1 DEF OwnsNewId
    <3>2. ASSUME NEW q \in Requests \ {r}
          PROVE  OwnsNewId(q)'
      <4>1. pc[q] # "idle" => id[q].new \in Ids
          BY <1>0 DEF TypeOK, IdOK
      <4>2. OwnsNewId(q) /\ id[q].new # i
          BY <1>0, <2>3 DEF IdsInv, NewIdsAreOwned
      <4>3. pc[q] # "idle" => id[q].new \notin {id'[r].old, id'[r].new}
          BY <2>2, <4>1, <4>2, SessionAssumption
      <4>4. \A k \in retired' : k \in retired
          BY <2>1
      <4> QED
          BY <1>0, <2>2, <4>2, <4>3, <4>4 DEF OwnsNewId
    <3> QED
        BY <3>1, <3>2 DEF NewIdsAreOwned
  <2>8. RetiredIdsStayDead'
      BY <1>0, <2>1 DEF IdsInv, RetiredIdsStayDead, IsFresh, IsStored
  <2> QED
      BY <2>4, <2>5, <2>6, <2>7, <2>8 DEF IdsInv
<1>2. CASE jar # NoCookie
  <2>1. /\ id' = [id EXCEPT ![r] = Existing(jar.id)]
        /\ server' = [server EXCEPT ![r] = NotLoaded]
        /\ UNCHANGED retired
      BY <1>2 DEF Arrive
  <2>2. /\ ~IsNew(r)' /\ id'[r] = Existing(jar.id)
        /\ server'[r].tag = "NotLoaded"
        /\ \A q \in Requests \ {r} : /\ id'[q] = id[q] /\ server'[q] = server[q]
                                      /\ pc'[q] = pc[q]
      BY <1>0, <2>1 DEF Existing, IsNew, NotLoaded, ServerState
  <2>3. MissingIsRejected' /\ NewIsNeverLoaded'
      BY <1>0, <2>2 DEF IdsInv, MissingIsRejected, NewIsNeverLoaded, IsNew
  <2>4. RenameInProgress' /\ NoPanic'
      BY <1>0, <2>2 DEF IdsInv, RenameInProgress, NoPanic, IsFresh, IsStored
  <2>5. ResponseNamesNewId'
      BY <1>0, <2>2 DEF IdsInv, ResponseNamesNewId
  <2>6. NewIdsAreOwned'
      BY <1>0, <1>2, <2>1, <2>2 DEF IdsInv, NewIdsAreOwned, OwnsNewId, Existing
  <2>7. RetiredIdsStayDead'
      BY <1>0, <2>1 DEF IdsInv, RetiredIdsStayDead, IsFresh, IsStored
  <2> QED
      BY <2>3, <2>4, <2>5, <2>6, <2>7 DEF IdsInv
<1> QED
    BY <1>1, <1>2

\* A step of the handler touches neither the store nor the browser; the one
\* that draws an id draws one that nobody knows.
LEMMA IdsHandler ==
    ASSUME NoManualSync, RetiredInv, NEW r \in Requests, HandlerStep(r)
    PROVE  IdsInv'
<1>0. /\ TypeOK /\ IdsInv
      /\ id \in [Requests -> SessionIds]
      /\ server \in [Requests -> ServerStates]
    BY DEF RetiredInv, TypeOK
<1>1. /\ pc[r] = "handling"
      /\ UNCHANGED <<records, jar, pc, response>>
    BY DEF HandlerStep, StartLoad, FinishLoad, LoadFails, Insert, Remove, Clear,
           DeleteState, Invalidate, CycleId, ClientInsert, ClientRemove, ClientClear,
           Handles
<1>2. ASSUME UNCHANGED <<id, retired>>,
             \A q \in Requests \ {r} : server'[q] = server[q],
             \/ UNCHANGED server
             \/ server'[r].tag \in {"Changed", "MarkedForDeletion"}
             \/ ~IsNew(r) /\ server'[r].tag # "DoesNotExist"
             \/ server'[r].tag = server[r].tag
      PROVE  IdsInv'
  <2>1. MissingIsRejected' /\ NewIsNeverLoaded'
      BY <1>0, <1>1, <1>2 DEF IdsInv, MissingIsRejected, NewIsNeverLoaded, IsNew
  <2>2. RenameInProgress' /\ NoPanic'
      BY <1>0, <1>1, <1>2 DEF IdsInv, RenameInProgress, NoPanic, IsFresh, IsStored
  <2>3. ResponseNamesNewId' /\ NewIdsAreOwned'
      BY <1>0, <1>1, <1>2 DEF IdsInv, ResponseNamesNewId, NewIdsAreOwned, OwnsNewId
  <2>4. RetiredIdsStayDead'
      BY <1>0, <1>1, <1>2 DEF IdsInv, RetiredIdsStayDead, IsFresh, IsStored
  <2> QED
      BY <2>1, <2>2, <2>3, <2>4 DEF IdsInv
<1>3. CASE StartLoad(r) \/ LoadFails(r)
    BY <1>2, <1>3 DEF StartLoad, LoadFails, session, history
<1>4. CASE FinishLoad(r)
  <2>1. UNCHANGED <<id, retired>>
      BY <1>4 DEF FinishLoad, history
  <2>2. CASE UNCHANGED server
      BY <1>2, <2>1, <2>2
  <2>3. CASE ~UNCHANGED server
    <3>1. /\ \A q \in Requests \ {r} : server'[q] = server[q]
          /\ server'[r].tag \in {"MarkedForDeletion", "Unchanged"}
          /\ server[r].tag = "NotLoaded"
        BY <1>0, <1>4, <2>3
           DEF FinishLoad, IsLoaded, NoManualSync, MarkedForDeletion, Unchanged, ServerState
    <3>2. ~IsNew(r)
        BY <1>0, <1>1, <3>1 DEF IdsInv, NewIsNeverLoaded
    <3> QED
        BY <1>2, <2>1, <3>1, <3>2
  <2> QED
      BY <2>2, <2>3
<1>5. CASE \/ \E k \in Keys : Insert(r, k) \/ Remove(r, k)
           \/ Clear(r) \/ DeleteState(r) \/ Invalidate(r)
  <2>1. PICK state, isDirty :
          /\ SetServer(r, state, isDirty)
          /\ state.tag \in {"Changed", "MarkedForDeletion", server[r].tag}
    <3>1. ASSUME NEW k \in Keys, Insert(r, k)
          PROVE  /\ SetServer(r, Changed(server[r].state \cup {k}), TRUE)
                 /\ Changed(server[r].state \cup {k}).tag = "Changed"
        BY <3>1 DEF Insert, Changed, ServerState
    <3>2. ASSUME NEW k \in Keys, Remove(r, k)
          PROVE  /\ SetServer(r, [server[r] EXCEPT !.state = @ \ {k}], TRUE)
                 /\ [server[r] EXCEPT !.state = @ \ {k}].tag = server[r].tag
      <4>1. server[r] \in ServerStates
          BY <1>0
      <4> QED
          BY <3>2, <4>1 DEF Remove, ServerStates
    <3>3. ASSUME Clear(r)
          PROVE  SetServer(r, Changed({}), TRUE) /\ Changed({}).tag = "Changed"
        BY <3>3 DEF Clear, Changed, ServerState
    <3>4. ASSUME DeleteState(r) \/ Invalidate(r)
          PROVE  /\ SetServer(r, MarkedForDeletion, FALSE)
                 /\ MarkedForDeletion.tag = "MarkedForDeletion"
        BY <3>4 DEF DeleteState, Invalidate, MarkedForDeletion, ServerState
    <3>5. CASE \E k \in Keys : Insert(r, k)
        BY <3>1, <3>5
    <3>6. CASE \E k \in Keys : Remove(r, k)
        BY <3>2, <3>6
    <3> QED
        BY <1>5, <3>3, <3>4, <3>5, <3>6
  <2> QED
      BY <1>0, <1>2, <2>1 DEF SetServer
<1>6. CASE CycleId(r)
  <2>1. PICK new \in Ids \ KnownIds :
          /\ id' = [id EXCEPT ![r] = IF IsNew(r) THEN NewlyGenerated(new)
                                                 ELSE ToBeRenamed(id[r].old, new)]
          /\ retired' = retired \ {new}
          /\ UNCHANGED server
      BY <1>6 DEF CycleId
  <2>2. /\ id'[r].kind = "NewlyGenerated" <=> id[r].kind = "NewlyGenerated"
        /\ id'[r].new = new
        /\ id'[r].old = IF IsNew(r) THEN NoId ELSE id[r].old
        /\ \A q \in Requests \ {r} : id'[q] = id[q]
      BY <1>0, <2>1 DEF IsNew, NewlyGenerated, ToBeRenamed
  <2>3. /\ \A q \in Requests : new \notin {id[q].old, id[q].new}
        /\ jar = NoCookie \/ jar.id # new
      BY <2>1 DEF KnownIds
  <2>4. MissingIsRejected' /\ NewIsNeverLoaded'
    <3>1. ASSUME NEW q \in Requests
          PROVE  id'[q].kind = "NewlyGenerated" <=> id[q].kind = "NewlyGenerated"
        BY <2>2
    <3> QED
        BY <1>0, <1>1, <2>1, <3>1 DEF IdsInv, MissingIsRejected, NewIsNeverLoaded, IsNew
  <2>5. RenameInProgress' /\ NoPanic'
      BY <1>0, <1>1, <2>1, <2>2 DEF IdsInv, RenameInProgress, NoPanic, IsFresh, IsStored
  <2>6. ResponseNamesNewId'
      BY <1>0, <1>1, <2>2 DEF IdsInv, ResponseNamesNewId
  <2>7. NewIdsAreOwned'
    <3>1. OwnsNewId(r)'
      <4>1. \A q \in Requests \ {r} : new \notin {id'[q].old, id'[q].new}
          BY <2>2, <2>3
      <4> QED
          BY <1>1, <2>1, <2>2, <2>3, <4>1 DEF OwnsNewId
    <3>2. ASSUME NEW q \in Requests \ {r}
          PROVE  OwnsNewId(q)'
      <4>1. pc[q] # "idle" => id[q].new \in Ids
          BY <1>0 DEF TypeOK, IdOK
      <4>2. OwnsNewId(q) /\ id[q].new # new
          BY <1>0, <2>3 DEF IdsInv, NewIdsAreOwned
      <4>3. id'[r].old \in {NoId, id[r].old} /\ id'[r].new = new
          BY <2>2
      <4>4. \A k \in retired' : k \in retired
          BY <2>1
      <4> QED
          BY <1>1, <2>2, <4>1, <4>2, <4>3, <4>4, SessionAssumption DEF OwnsNewId
    <3> QED
        BY <3>1, <3>2 DEF NewIdsAreOwned
  <2>8. RetiredIdsStayDead'
      BY <1>0, <1>1, <2>1 DEF IdsInv, RetiredIdsStayDead, IsFresh, IsStored
  <2> QED
      BY <2>4, <2>5, <2>6, <2>7, <2>8 DEF IdsInv
<1>7. CASE (\E k \in ClientKeys : ClientInsert(r, k) \/ ClientRemove(r, k)) \/ ClientClear(r)
    BY <1>2, <1>7 DEF ClientInsert, ClientRemove, ClientClear, SetClient, history
<1> QED
    BY <1>3, <1>4, <1>5, <1>6, <1>7 DEF HandlerStep

\* Settling a session never fails finalize's integrity check.
LEMMA SettledIsClean ==
    ASSUME TypeOK, NEW r \in Requests
    PROVE  ~FinalizePanics(r)
<1>1. server[r].tag \in ServerTags
    BY DEF TypeOK, ServerStates
<1> QED
    BY <1>1 DEF FinalizePanics, Settled, ServerTags, Unchanged, DoesNotExist,
                MarkedForDeletion, ServerState

\* The end of a finalize, given what its last call did to the store.
LEMMA IdsAfterFinalize ==
    ASSUME NoManualSync, RetiredInv, NEW r \in Requests,
           pc[r] \in {"handling", "finalize_create"},
           NEW res, AfterSync(r, res, "finalize"),
           UNCHANGED <<jar, id, client, invalidated, loads>>,
           \A k \in Ids : IsFresh(k)' =>
               IsFresh(k) \/ (k = id[r].new /\ id[r].kind # "Existing"),
           res = "Synced" /\ GivesUpOldId(r) => ~IsFresh(id[r].old)',
           res = "MustCreate" => /\ id[r].kind = "ToBeRenamed"
                                 /\ server[r].tag \in {"Changed", "Unchanged"}
                                 /\ ~IsFresh(id[r].old)',
           res # "Panicked"
    PROVE  IdsInv'
<1>0. /\ TypeOK /\ IdsInv
      /\ pc \in [Requests -> PCs]
      /\ id \in [Requests -> SessionIds]
      /\ server \in [Requests -> ServerStates]
      /\ response \in [Requests -> Responses]
      /\ \A q \in Requests : OwnsNewId(q)
      /\ \A q \in Requests : ~IsNew(q) /\ pc[q] # "idle" => id[q].old \in Ids
      /\ id[r].new \in Ids
      /\ retired \subseteq Ids
    BY DEF RetiredInv, TypeOK, IdsInv, NewIdsAreOwned, IdOK, IsNew
<1>1. res \in {"Synced", "Failed", "MustCreate"} /\ ~FinalizePanics(r)
    BY <1>0, SettledIsClean DEF AfterSync
<1>2. /\ pc'[r] = IF res = "MustCreate" THEN "finalize_create" ELSE "responding"
      /\ res = "MustCreate" => UNCHANGED <<server, response>>
      /\ \A q \in Requests \ {r} : /\ pc'[q] = pc[q]
                                    /\ server'[q] = server[q]
                                    /\ response'[q] = response[q]
      /\ response'[r].kind = "SetCookie" =>
            res = "MustCreate" \/ response'[r] = CookieFor(r)
    BY <1>0, <1>1 DEF AfterSync, Failure
<1>3. \A k \in retired' :
          \/ k \in retired
          \/ res = "Synced" /\ GivesUpOldId(r) /\ k = id[r].old
  <2>1. CASE res = "Synced"
    <3>1. retired' = retired \cup (IF GivesUpOldId(r) THEN {id[r].old} ELSE {})
        BY <2>1 DEF AfterSync
    <3>2. CASE GivesUpOldId(r)
        BY <2>1, <3>1, <3>2
    <3>3. CASE ~GivesUpOldId(r)
        BY <3>1, <3>3
    <3> QED
        BY <3>2, <3>3
  <2>2. CASE res # "Synced"
    <3>1. UNCHANGED retired
        BY <2>2 DEF AfterSync, history
    <3> QED
        BY <3>1
  <2> QED
      BY <2>1, <2>2
<1>4. MissingIsRejected' /\ NewIsNeverLoaded'
    BY <1>0, <1>2 DEF IdsInv, MissingIsRejected, NewIsNeverLoaded, IsNew
<1>5. RenameInProgress'
  <2>1. ASSUME NEW q \in Requests \ {r}, pc[q] = "finalize_create"
        PROVE  ~IsFresh(id[q].old)'
    <3>1. /\ id[q].kind = "ToBeRenamed"
          /\ ~IsFresh(id[q].old)
        BY <1>0, <2>1 DEF IdsInv, RenameInProgress
    <3>2. id[q].old \in Ids
        BY <1>0, <2>1, <3>1 DEF IsNew
    <3>3. ~(id[q].old = id[r].new /\ id[r].kind # "Existing")
        BY <1>0 DEF OwnsNewId
    <3>4. (\A k \in Ids : IsFresh(k)' =>
               IsFresh(k) \/ (k = id[r].new /\ id[r].kind # "Existing"))
          /\ id' = id
        OBVIOUS
    <3> QED
        BY <3>1, <3>2, <3>3, <3>4 DEF IsFresh, IsStored
  <2>2. res = "MustCreate" => /\ id'[r].kind = "ToBeRenamed"
                              /\ server'[r].tag \in {"Changed", "Unchanged"}
                              /\ ~IsFresh(id[r].old)'
      BY <1>2
  <2>3. \A q \in Requests : pc'[q] # "sync_create"
      BY <1>0, <1>2 DEF IdsInv, RenameInProgress
  <2>4. ASSUME NEW q \in Requests \ {r}, pc'[q] = "finalize_create"
        PROVE  /\ id'[q].kind = "ToBeRenamed"
               /\ server'[q].tag \in {"Changed", "Unchanged"}
               /\ ~IsFresh(id[q].old)'
      BY <1>0, <1>2, <2>1, <2>4 DEF IdsInv, RenameInProgress
  <2>5. pc'[r] = "finalize_create" => res = "MustCreate"
      BY <1>2
  <2> QED
      BY <2>2, <2>3, <2>4, <2>5 DEF RenameInProgress
<1>6. ResponseNamesNewId'
  <2>1. ASSUME response'[r].kind = "SetCookie"
        PROVE  /\ pc'[r] = "responding"
               /\ response'[r].cookie # NoCookie
               /\ response'[r].cookie.id = id'[r].new
    <3>1. res # "MustCreate" /\ response'[r] = CookieFor(r)
        BY <1>0, <1>2, <2>1 DEF IdsInv, ResponseNamesNewId
    <3>2. CookieFor(r) = SetCookie([id |-> id[r].new, client |-> client[r].state])
        BY <2>1, <3>1 DEF CookieFor, NoResponse, Removal
    <3>3. [id |-> id[r].new, client |-> client[r].state] \in Cookies
        BY <1>0 DEF Cookies, TypeOK, ClientStates
    <3> QED
        BY <1>2, <3>1, <3>2, <3>3, SessionAssumption DEF SetCookie
  <2> QED
      BY <1>0, <1>2, <2>1 DEF IdsInv, ResponseNamesNewId
<1>7. NewIdsAreOwned'
  <2>1. OwnsNewId(r)'
      BY <1>0, <1>2, <1>3 DEF OwnsNewId
  <2>2. ASSUME NEW q \in Requests \ {r}
        PROVE  OwnsNewId(q)'
      BY <1>0, <1>2, <1>3 DEF OwnsNewId
  <2> QED
      BY <2>1, <2>2 DEF NewIdsAreOwned
<1>8. RetiredIdsStayDead'
  <2>1. ASSUME NEW k \in retired
        PROVE  ~IsFresh(k)'
    <3>1. ~IsFresh(k) /\ k \in Ids
        BY <1>0 DEF IdsInv, RetiredIdsStayDead
    <3>2. ~(k = id[r].new /\ id[r].kind # "Existing")
        BY <1>0 DEF OwnsNewId
    <3> QED
        BY <3>1, <3>2
  <2>2. res = "Synced" /\ GivesUpOldId(r) => \A k : k = id[r].old => ~IsFresh(k)'
      BY DEF IsFresh, IsStored
  <2> QED
      BY <1>3, <2>1, <2>2 DEF RetiredIdsStayDead
<1>9. NoPanic'
    BY <1>0, <1>2 DEF IdsInv, NoPanic
<1> QED
    BY <1>4, <1>5, <1>6, <1>7, <1>8, <1>9 DEF IdsInv

LEMMA IdsFinalize ==
    ASSUME NoManualSync, RetiredInv, NEW r \in Requests, Finalize(r)
    PROVE  IdsInv'
<1>1. PICK res \in SyncResults :
        /\ SyncCall(r, res)
        /\ AfterSync(r, res, "finalize")
    BY DEF Finalize
<1>2. /\ TypeOK /\ InvalidatedIsMarked /\ MissingIsRejected /\ NewIsNeverLoaded
      /\ pc[r] = "handling"
      /\ UNCHANGED <<jar, id, client, invalidated, loads>>
    BY DEF RetiredInv, IdsInv, Finalize
<1> QED
    BY <1>1, <1>2, SyncCallIds, IdsAfterFinalize

\* The create that ends a rename leaves the old id dead.
LEMMA IdsCreateRenamed ==
    ASSUME NoManualSync, RetiredInv, NEW r \in Requests, CreateRenamed(r)
    PROVE  IdsInv'
<1>1. /\ TypeOK /\ StoreTypeOK /\ RenameInProgress
      /\ UNCHANGED <<jar, id, client, invalidated, loads>>
    BY DEF RetiredInv, TypeOK, IdsInv, CreateRenamed
<1>2. /\ pc[r] = "finalize_create"
      /\ id[r].kind = "ToBeRenamed"
      /\ ~IsFresh(id[r].old)
    BY <1>1 DEF CreateRenamed, RenameInProgress
<1>3. PICK out \in CallResults :
        /\ TryCreate(id[r].new, server[r].state, out)
        /\ AfterSync(r, OkOrFailed(out), "finalize")
    BY <1>2 DEF CreateRenamed
<1>4. id[r].new \in Ids /\ id[r].old \in Ids /\ id[r].old # id[r].new
    BY <1>1, <1>2 DEF TypeOK, IdOK
<1>5. \A k \in Ids : IsFresh(k)' => IsFresh(k) \/ k = id[r].new
    BY <1>1, <1>3, <1>4, CallsRevive
<1>6. ~IsFresh(id[r].old)'
    BY <1>1, <1>2, <1>4, <1>5 DEF IsFresh, IsStored
<1>7. OkOrFailed(out) \in {"Synced", "Failed"}
    BY DEF OkOrFailed
<1> QED
    BY <1>1, <1>2, <1>3, <1>5, <1>6, <1>7, IdsAfterFinalize

\* A request that ends hands its new id to the browser, or to nobody.
LEMMA IdsForget ==
    ASSUME NoManualSync, RetiredInv, NEW r \in Requests, Deliver(r) \/ Abandon(r)
    PROVE  IdsInv'
<1>0. /\ TypeOK /\ IdsInv
      /\ \A q \in Requests : OwnsNewId(q)
      /\ \A q \in Requests : pc[q] # "idle" => id[q].new \in Ids
    BY DEF RetiredInv, TypeOK, IdsInv, NewIdsAreOwned, IdOK
<1>1. /\ pc'[r] = "idle" /\ id'[r] = NoSession
      /\ response'[r] = NoResponse
      /\ \A q \in Requests \ {r} : /\ pc'[q] = pc[q]
                                    /\ id'[q] = id[q]
                                    /\ server'[q] = server[q]
                                    /\ response'[q] = response[q]
      /\ UNCHANGED <<records, retired>>
  <2>1. Forget(r)
      BY DEF Deliver, Abandon
  <2> QED
      BY <1>0, <2>1 DEF Forget, TypeOK
<1>2. jar' \in {jar, NoCookie} \/ jar'.id = id[r].new
  <2>1. CASE Deliver(r) /\ response[r].kind = "SetCookie"
      BY <1>0, <2>1 DEF Deliver, IdsInv, ResponseNamesNewId
  <2>2. CASE Deliver(r) /\ response[r].kind # "SetCookie"
      BY <2>2 DEF Deliver
  <2>3. CASE Abandon(r)
      BY <2>3 DEF Abandon
  <2> QED
      BY <2>1, <2>2, <2>3
<1>3. MissingIsRejected' /\ NewIsNeverLoaded'
    BY <1>0, <1>1 DEF IdsInv, MissingIsRejected, NewIsNeverLoaded, IsNew
<1>4. RenameInProgress' /\ NoPanic'
    BY <1>0, <1>1 DEF IdsInv, RenameInProgress, NoPanic, IsFresh, IsStored
<1>5. ResponseNamesNewId'
    BY <1>0, <1>1 DEF IdsInv, ResponseNamesNewId, NoResponse
<1>6. NewIdsAreOwned'
  <2>1. OwnsNewId(r)'
      BY <1>1 DEF OwnsNewId
  <2>2. ASSUME NEW q \in Requests \ {r}
        PROVE  OwnsNewId(q)'
    <3>1. ASSUME pc[q] \in {"handling", "finalize_create"}, id[q].kind # "Existing"
          PROVE  /\ id[q].new \notin {NoId, id[r].new}
                 /\ jar = NoCookie \/ jar.id # id[q].new
        BY <1>0, <3>1, SessionAssumption DEF OwnsNewId
    <3>2. ASSUME pc[q] \in {"handling", "finalize_create"}, id[q].kind # "Existing"
          PROVE  jar' = NoCookie \/ jar'.id # id[q].new
        BY <1>2, <3>1, <3>2
    <3> QED
        BY <1>0, <1>1, <3>1, <3>2 DEF OwnsNewId, NoSession
  <2> QED
      BY <2>1, <2>2 DEF NewIdsAreOwned
<1>7. RetiredIdsStayDead'
    BY <1>0, <1>1 DEF IdsInv, RetiredIdsStayDead, IsFresh, IsStored
<1> QED
    BY <1>3, <1>4, <1>5, <1>6, <1>7 DEF IdsInv

\* The environment revives no record and hands out no id.
LEMMA IdsEnvironment ==
    ASSUME RetiredInv, ForgetCookie \/ TimePasses \/ CollectExpired \/ UNCHANGED vars
    PROVE  IdsInv'
<1>1. /\ IdsInv
      /\ UNCHANGED <<pc, id, server, response, retired>>
      /\ jar' \in {jar, NoCookie}
    BY DEF RetiredInv, ForgetCookie, TimePasses, CollectExpired, vars, session, history
<1>2. ASSUME NEW k \in Ids PROVE IsFresh(k)' => IsFresh(k)
  <2>1. CASE UNCHANGED records
      BY <2>1 DEF IsFresh, IsStored
  <2>2. CASE Elapse \/ DeleteExpired(1)
      BY <2>2, BackgroundRevives DEF RetiredInv, TypeOK
  <2> QED
      BY <2>1, <2>2 DEF ForgetCookie, TimePasses, CollectExpired, vars
<1>3. MissingIsRejected' /\ NewIsNeverLoaded' /\ NoPanic' /\ ResponseNamesNewId'
    BY <1>1 DEF IdsInv, MissingIsRejected, NewIsNeverLoaded, NoPanic,
                ResponseNamesNewId, IsNew
<1>4. RenameInProgress'
  <2>1. ASSUME NEW q \in Requests, pc[q] = "finalize_create"
        PROVE  ~IsFresh(id[q].old)'
    <3>1. ~IsFresh(id[q].old) /\ id[q].old \in Ids
        BY <1>1, <2>1 DEF RetiredInv, TypeOK, IdOK, IdsInv, RenameInProgress
    <3> QED
        BY <1>1, <1>2, <3>1 DEF IsFresh, IsStored
  <2> QED
      BY <1>1, <2>1 DEF IdsInv, RenameInProgress
<1>5. NewIdsAreOwned'
    BY <1>1 DEF IdsInv, NewIdsAreOwned, OwnsNewId
<1>6. RetiredIdsStayDead'
  <2>1. retired \subseteq Ids
      BY DEF RetiredInv, TypeOK
  <2> QED
      BY <1>1, <1>2, <2>1 DEF IdsInv, RetiredIdsStayDead
<1> QED
    BY <1>3, <1>4, <1>5, <1>6 DEF IdsInv

LEMMA IdsInit == Init => IdsInv
BY DEF Init, IdsInv, MissingIsRejected, NewIsNeverLoaded, RenameInProgress,
       ResponseNamesNewId, NewIdsAreOwned, OwnsNewId, RetiredIdsStayDead, NoPanic,
       NoResponse

LEMMA IdsStep ==
    ASSUME NoManualSync, RetiredInv, [Next]_vars
    PROVE  IdsInv'
<1>1. ASSUME NEW r \in Requests
      PROVE  ~Sync(r)
    BY DEF Sync, NoManualSync
<1> QED
    BY <1>1, IdsArrive, IdsHandler, IdsFinalize, IdsCreateRenamed, IdsForget,
       IdsEnvironment DEF Next

LEMMA RetiredInvHolds == NoManualSync => (Spec => []RetiredInv)
<1> SUFFICES ASSUME NoManualSync PROVE Spec => []RetiredInv
    OBVIOUS
<1>1. Init => RetiredInv
    BY TypeInit, IdsInit DEF RetiredInv, Init, InvalidatedIsMarked, IdleIsClean
<1>2. RetiredInv /\ [Next]_vars => RetiredInv'
    BY TypeStep, InvalidatedStep, IdsStep DEF RetiredInv
<1> QED
    BY <1>1, <1>2, PTL DEF Spec

\* Once a request has completed a rotation or a logout, the id it has given up
\* stays without a record for as long as nobody draws it again: whatever the
\* other requests that still hold it do, fail to do or abandon half-way, and
\* however records expire (sync and finalize, every branch).
THEOREM RetiredStayDead == NoManualSync => (Spec => []RetiredIdsStayDead)
<1>1. RetiredInv => RetiredIdsStayDead
    BY DEF RetiredInv, IdsInv
<1> QED
    BY <1>1, RetiredInvHolds, PTL

\* No interleaving makes one of the assertions of sync and finalize fail, if
\* handlers leave it to the middleware to sync.
THEOREM NeverPanics == NoManualSync => (Spec => []NoPanic)
<1>1. RetiredInv => NoPanic
    BY DEF RetiredInv, IdsInv
<1> QED
    BY <1>1, RetiredInvHolds, PTL

---------------------------------------------------------------------------
(* What an answer says about the store.                                    *)

\* A request is answered by the last call of its own finalize.
LEMMA AnsweredByFinalize ==
    ASSUME TypeOK, [Next]_vars, NEW r \in Requests,
           pc[r] # "responding", pc'[r] = "responding"
    PROVE  /\ UNCHANGED id
           /\ \/ /\ pc[r] = "handling"
                 /\ \E res \in SyncResults : SyncCall(r, res) /\ AfterSync(r, res, "finalize")
              \/ /\ pc[r] = "finalize_create"
                 /\ \E out \in CallResults :
                       /\ TryCreate(id[r].new, server[r].state, out)
                       /\ AfterSync(r, OkOrFailed(out), "finalize")
<1>0. pc \in [Requests -> PCs]
    BY DEF TypeOK
<1>1. PICK q \in Requests :
        \/ Arrive(q) \/ HandlerStep(q) \/ Sync(q) \/ Finalize(q) \/ CreateRenamed(q)
        \/ Deliver(q) \/ Abandon(q)
    BY DEF Next, vars, ForgetCookie, TimePasses, CollectExpired
<1>2. CASE Arrive(q) \/ Deliver(q) \/ Abandon(q)
    BY <1>0, <1>2 DEF Arrive, Deliver, Abandon, Forget
<1>3. CASE HandlerStep(q)
    BY <1>3 DEF HandlerStep, StartLoad, FinishLoad, LoadFails, Insert, Remove, Clear,
           DeleteState, Invalidate, CycleId, ClientInsert, ClientRemove, ClientClear,
           Handles
<1>4. CASE Sync(q)
    BY <1>0, <1>4 DEF Sync, AfterSync
<1>5. CASE Finalize(q)
  <2>1. q = r
      BY <1>0, <1>5 DEF Finalize, AfterSync
  <2> QED
      BY <1>5, <2>1 DEF Finalize
<1>6. CASE CreateRenamed(q)
  <2>1. PICK out \in CallResults :
          /\ TryCreate(id[q].new, server[q].state, out)
          /\ AfterSync(q, OkOrFailed(out),
                       IF pc[q] = "finalize_create" THEN "finalize" ELSE "handler")
      BY <1>6 DEF CreateRenamed
  <2>2. q = r /\ pc[q] = "finalize_create"
      BY <1>0, <1>6, <2>1 DEF CreateRenamed, AfterSync
  <2> QED
      BY <1>6, <2>1, <2>2 DEF CreateRenamed
<1> QED
    BY <1>1, <1>2, <1>3, <1>4, <1>5, <1>6

\* Unsaved changes are marked as such, as long as handlers do not remove keys
\* (remove_raw leaves a state that was loaded unchanged).
DirtyIsChanged ==
    \A r \in Requests : dirty[r] => pc[r] # "idle" /\ server[r].tag = "Changed"

LEMMA DirtyStep ==
    ASSUME "remove" \notin Ops, TypeOK, DirtyIsChanged, [Next]_vars
    PROVE  DirtyIsChanged'
<1> USE DEF DirtyIsChanged
<1>0. /\ pc \in [Requests -> PCs]
      /\ server \in [Requests -> ServerStates]
      /\ dirty \in [Requests -> BOOLEAN]
    BY DEF TypeOK
<1>1. ASSUME NEW r \in Requests, Arrive(r)
      PROVE  DirtyIsChanged'
  <2>1. /\ pc[r] = "idle" /\ UNCHANGED dirty
        /\ pc' = [pc EXCEPT ![r] = "handling"]
        /\ \A q \in Requests \ {r} : server'[q] = server[q]
      BY <1>0, <1>1 DEF Arrive
  <2> QED
      BY <1>0, <2>1
<1>2. ASSUME NEW r \in Requests, HandlerStep(r)
      PROVE  DirtyIsChanged'
  <2>1. CASE StartLoad(r) \/ LoadFails(r)
      BY <2>1 DEF StartLoad, LoadFails, session, history
  <2>2. CASE FinishLoad(r)
    <3>1. UNCHANGED <<pc, dirty>>
        BY <2>2 DEF FinishLoad, history
    <3>2. UNCHANGED server \/ server[r].tag = "NotLoaded"
        BY <2>2 DEF FinishLoad, IsLoaded
    <3>3. \A q \in Requests \ {r} : server'[q] = server[q]
        BY <1>0, <2>2 DEF FinishLoad
    <3> QED
        BY <3>1, <3>2, <3>3
  <2>3. CASE \E k \in Keys : Insert(r, k)
      BY <1>0, <2>3 DEF Insert, SetServer, Handles, Changed, ServerState
  <2>4. CASE \E k \in Keys : Remove(r, k)
      BY <2>4 DEF Remove, Handles
  <2>5. CASE Clear(r)
      BY <1>0, <2>5 DEF Clear, SetServer, Handles, Changed, ServerState
  <2>6. CASE DeleteState(r) \/ Invalidate(r)
      BY <1>0, <2>6 DEF DeleteState, Invalidate, SetServer, Handles
  <2>7. CASE CycleId(r)
      BY <2>7 DEF CycleId, Handles
  <2>8. CASE (\E k \in ClientKeys : ClientInsert(r, k) \/ ClientRemove(r, k)) \/ ClientClear(r)
      BY <2>8 DEF ClientInsert, ClientRemove, ClientClear, SetClient, Handles, history
  <2> QED
      BY <1>2, <2>1, <2>2, <2>3, <2>4, <2>5, <2>6, <2>7, <2>8 DEF HandlerStep
<1>3. ASSUME NEW r \in Requests, Sync(r) \/ Finalize(r) \/ CreateRenamed(r)
      PROVE  DirtyIsChanged'
  <2>1. PICK res, caller : AfterSync(r, res, caller)
      BY <1>3 DEF Sync, Finalize, CreateRenamed
  <2> QED
      BY <1>0, <2>1 DEF AfterSync, history
<1>4. ASSUME NEW r \in Requests, Deliver(r) \/ Abandon(r)
      PROVE  DirtyIsChanged'
    BY <1>0, <1>4 DEF Deliver, Abandon, Forget
<1>5. CASE ForgetCookie \/ TimePasses \/ CollectExpired \/ UNCHANGED vars
    BY <1>5 DEF ForgetCookie, TimePasses, CollectExpired, vars, session, history
<1> QED
    BY <1>1, <1>2, <1>3, <1>4, <1>5 DEF Next

\* A create or an update that succeeds stores the state it is given.
LEMMA CallsStore ==
    ASSUME StoreTypeOK, NEW i \in Ids, NEW state \in SUBSET Keys,
           TryCreate(i, state, "Ok") \/ TryUpdate(i, state, "Ok")
    PROVE  IsFresh(i)' /\ records'[i].state = state
<1>1. records' = [records EXCEPT ![i] = NewRecord(state, MaxTtl)]
    BY DEF TryCreate, TryUpdate, BackendError, Create, Update
<1>2. NewRecord(state, MaxTtl) \in Records
    BY MaxTtlAssumption DEF NewRecord, Records
<1> QED
    BY <1>1, <1>2, MaxTtlAssumption, NoRecordAssumption
       DEF StoreTypeOK, IsFresh, IsStored, NewRecord

\* finalize succeeds only with its last call.
LEMMA SyncedStores ==
    ASSUME TypeOK, DirtyIsChanged, [Next]_vars, NEW r \in Requests, Synced(r), dirty[r]
    PROVE  /\ IsFresh(id[r].new)'
           /\ records'[id[r].new].state = server[r].state
<1>1. /\ server[r].tag = "Changed"
      /\ id[r].new \in Ids
      /\ id[r].kind = "Existing" => id[r].old = id[r].new
      /\ server[r].state \in SUBSET Keys
      /\ StoreTypeOK
      /\ response \in [Requests -> Responses]
    BY DEF Synced, DirtyIsChanged, TypeOK, IdOK, ServerStates
<1>2. /\ UNCHANGED id
      /\ \/ /\ pc[r] = "handling"
            /\ \E res \in SyncResults : SyncCall(r, res) /\ AfterSync(r, res, "finalize")
         \/ /\ pc[r] = "finalize_create"
            /\ \E out \in CallResults :
                  /\ TryCreate(id[r].new, server[r].state, out)
                  /\ AfterSync(r, OkOrFailed(out), "finalize")
    BY AnsweredByFinalize DEF Synced
<1>3. ASSUME NEW res, AfterSync(r, res, "finalize")
      PROVE  res = "Synced"
    BY <1>1, <1>3 DEF AfterSync, Synced, TypeOK
<1>4. \/ TryCreate(id[r].new, server[r].state, "Ok")
      \/ TryUpdate(id[r].new, server[r].state, "Ok")
  <2>1. CASE pc[r] = "handling"
    <3>1. SyncCall(r, "Synced")
        BY <1>2, <1>3, <2>1
    <3>2. SyncChanged(r, "Synced")
        BY <1>1, <3>1 DEF SyncCall, SyncDoesNotExist, SyncNotLoaded, SyncUnchanged, SyncMarked
    <3> QED
        BY <1>1, <3>2 DEF SyncChanged, OkOrFailed
  <2>2. CASE pc[r] = "finalize_create"
    <3>1. PICK out \in CallResults :
            /\ TryCreate(id[r].new, server[r].state, out)
            /\ AfterSync(r, OkOrFailed(out), "finalize")
        BY <1>2, <2>2
    <3>2. out = "Ok"
        BY <1>3, <3>1 DEF OkOrFailed
    <3> QED
        BY <3>1, <3>2
  <2> QED
      BY <1>2, <2>1, <2>2
<1>5. \A k : k = id[r].new => IsFresh(k)' /\ records'[k].state = server[r].state
    BY <1>1, <1>4, CallsStore
<1> QED
    BY <1>2, <1>5 DEF IsFresh, IsStored

\* When finalize succeeds, the changes the handler made are in the store under
\* the id the browser is told.  This holds for every configuration and fault,
\* and for handlers that sync in between, but not for those that remove keys:
\* remove_raw leaves a loaded state Unchanged, so the removal is not written.
THEOREM ChangesStored == "remove" \notin Ops => (Spec => ChangesAreStored)
<1> SUFFICES ASSUME "remove" \notin Ops PROVE Spec => ChangesAreStored
    OBVIOUS
<1>1. Init => DirtyIsChanged
    BY DEF Init, DirtyIsChanged
<1>2. TypeOK /\ DirtyIsChanged /\ [Next]_vars => DirtyIsChanged'
    BY DirtyStep
<1>3. TypeOK /\ DirtyIsChanged /\ [Next]_vars
      => [\A r \in Requests :
             Synced(r) /\ dirty[r] =>
                /\ IsFresh(id[r].new)'
                /\ records'[id[r].new].state = server[r].state]_vars
    BY SyncedStores
<1> QED
    BY <1>1, <1>2, <1>3, TypeCorrect, PTL DEF Spec, ChangesAreStored

---------------------------------------------------------------------------
(* What a failed finalize says about the store.                            *)

\* No record is stored under an id that a session is yet to save itself under.
NewIsNotStored ==
    \A r \in Requests :
        pc[r] \in {"handling", "finalize_create"} /\ id[r].kind # "Existing" =>
            ~IsFresh(id[r].new)

\* The first of two calls leaves the new id free for the second.
LEMMA FirstCallLeavesNewId ==
    ASSUME TypeOK, NEW r \in Requests, pc[r] = "handling", ~IsFresh(id[r].new),
           SyncCall(r, "MustCreate")
    PROVE  \A k : k = id[r].new => ~IsFresh(k)'
<1>1. id[r].old \in Ids \/ IsNew(r)
    BY DEF TypeOK, IdOK, IsNew
<1>2. PICK out \in {"Ok", "UnknownId"} :
        /\ ~IsNew(r)
        /\ \/ TryDelete(id[r].old, out)
           \/ TryChangeId(id[r].old, id[r].new, out) /\ out = "UnknownId"
  <2>1. ~SyncDoesNotExist(r, "MustCreate")
      BY DEF SyncDoesNotExist, NoCall, OkOrFailed
  <2>2. ~SyncNotLoaded(r, "MustCreate")
      BY DEF SyncNotLoaded, NoCall, OkOrFailed
  <2>3. ~SyncMarked(r, "MustCreate")
      BY DEF SyncMarked, NoCall, OkOrFailed
  <2>4. CASE SyncUnchanged(r, "MustCreate")
      BY <2>4 DEF SyncUnchanged, NoCall, OkOrFailed, IsNew
  <2>5. CASE SyncChanged(r, "MustCreate")
      BY <2>5 DEF SyncChanged, OkOrFailed, IsNew
  <2> QED
      BY <2>1, <2>2, <2>3, <2>4, <2>5 DEF SyncCall
<1>3. records' = [records EXCEPT ![id[r].old] = NoRecord]
    BY <1>2 DEF TryDelete, TryChangeId, Delete, ChangeId, BackendError
<1> QED
    BY <1>1, <1>2, <1>3 DEF TypeOK, StoreTypeOK, IsFresh, IsStored

LEMMA NotStoredFinalize ==
    ASSUME NoManualSync, RetiredInv, NewIsNotStored, NEW r \in Requests,
           Finalize(r) \/ CreateRenamed(r)
    PROVE  NewIsNotStored'
<1>0. /\ TypeOK /\ IdsInv
      /\ pc \in [Requests -> PCs]
      /\ \A q \in Requests : OwnsNewId(q)
      /\ \A q \in Requests : pc[q] # "idle" => id[q].new \in Ids
      /\ UNCHANGED id
    BY DEF RetiredInv, TypeOK, IdOK, IdsInv, NewIdsAreOwned, Finalize, CreateRenamed
<1>1. ASSUME \A k \in Ids : IsFresh(k)' =>
                 IsFresh(k) \/ (k = id[r].new /\ id[r].kind # "Existing"),
             \A q \in Requests \ {r} : pc'[q] = pc[q],
             pc'[r] \in {"handling", "finalize_create"} =>
                 \A k : k = id[r].new => ~IsFresh(k)'
      PROVE  NewIsNotStored'
  <2>1. ASSUME NEW q \in Requests \ {r}, pc[q] \in {"handling", "finalize_create"},
               id[q].kind # "Existing"
        PROVE  ~IsFresh(id[q].new)'
    <3>1. ~IsFresh(id[q].new) /\ id[q].new \in Ids /\ id[q].new # id[r].new
        BY <1>0, <2>1 DEF NewIsNotStored, OwnsNewId
    <3> QED
        BY <1>0, <1>1, <3>1 DEF IsFresh, IsStored
  <2> QED
      BY <1>0, <1>1, <2>1 DEF NewIsNotStored, IsFresh, IsStored
<1>2. CASE Finalize(r)
  <2>1. PICK res \in SyncResults : SyncCall(r, res) /\ AfterSync(r, res, "finalize")
      BY <1>2 DEF Finalize
  <2>2. pc[r] = "handling"
      BY <1>2 DEF Finalize
  <2>3. \A k \in Ids : IsFresh(k)' =>
            IsFresh(k) \/ (k = id[r].new /\ id[r].kind # "Existing")
      BY <1>0, <2>1, <2>2, SyncCallIds DEF RetiredInv, IdsInv
  <2>4. res = "MustCreate" => id[r].kind = "ToBeRenamed"
      BY <1>0, <2>1, <2>2, SyncCallIds DEF RetiredInv, IdsInv
  <2>5. pc'[r] \in {"handling", "finalize_create"} => res = "MustCreate"
      BY <1>0, <2>1 DEF AfterSync
  <2>6. res = "MustCreate" => \A k : k = id[r].new => ~IsFresh(k)'
      BY <1>0, <2>1, <2>2, <2>4, FirstCallLeavesNewId DEF NewIsNotStored
  <2>7. \A q \in Requests \ {r} : pc'[q] = pc[q]
      BY <1>0, <2>1 DEF AfterSync
  <2> QED
      BY <1>1, <2>3, <2>5, <2>6, <2>7
<1>3. CASE CreateRenamed(r)
  <2>1. pc[r] = "finalize_create" /\ id[r].kind = "ToBeRenamed"
      BY <1>0, <1>3 DEF CreateRenamed, IdsInv, RenameInProgress
  <2>2. PICK out \in CallResults :
          /\ TryCreate(id[r].new, server[r].state, out)
          /\ AfterSync(r, OkOrFailed(out), "finalize")
      BY <1>3, <2>1 DEF CreateRenamed
  <2>3. \A k \in Ids : IsFresh(k)' => IsFresh(k) \/ k = id[r].new
      BY <1>0, <2>1, <2>2, CallsRevive DEF TypeOK
  <2>4. pc'[r] \notin {"handling", "finalize_create"}
      BY <1>0, <2>2 DEF AfterSync, OkOrFailed
  <2>5. \A q \in Requests \ {r} : pc'[q] = pc[q]
      BY <1>0, <2>2 DEF AfterSync
  <2> QED
      BY <1>1, <2>1, <2>3, <2>4, <2>5
<1> QED
    BY <1>2, <1>3

LEMMA NotStoredStep ==
    ASSUME NoManualSync, RetiredInv, NewIsNotStored, [Next]_vars
    PROVE  NewIsNotStored'
<1>0. /\ pc \in [Requests -> PCs]
      /\ id \in [Requests -> SessionIds]
    BY DEF RetiredInv, TypeOK
<1>1. ASSUME NEW r \in Requests, Arrive(r)
      PROVE  NewIsNotStored'
  <2>1. /\ UNCHANGED records
        /\ \A q \in Requests \ {r} : pc'[q] = pc[q] /\ id'[q] = id[q]
      BY <1>0, <1>1 DEF Arrive
  <2>2. id'[r].kind # "Existing" => ~IsFresh(id'[r].new)
      BY <1>0, <1>1 DEF Arrive, KnownIds, Existing, NewlyGenerated, IsFresh
  <2> QED
      BY <2>1, <2>2 DEF NewIsNotStored, IsFresh, IsStored
<1>2. ASSUME NEW r \in Requests, HandlerStep(r)
      PROVE  NewIsNotStored'
  <2>1. UNCHANGED <<records, pc>>
      BY <1>2 DEF HandlerStep, StartLoad, FinishLoad, LoadFails, Insert, Remove, Clear,
             DeleteState, Invalidate, CycleId, ClientInsert, ClientRemove, ClientClear,
             Handles
  <2>2. CASE CycleId(r)
    <3>1. /\ \A q \in Requests \ {r} : id'[q] = id[q]
          /\ ~IsFresh(id'[r].new)
        BY <1>0, <2>2 DEF CycleId, KnownIds, NewlyGenerated, ToBeRenamed, IsFresh
    <3> QED
        BY <2>1, <3>1 DEF NewIsNotStored, IsFresh, IsStored
  <2>3. CASE ~CycleId(r)
    <3>1. UNCHANGED id
        BY <1>2, <2>3 DEF HandlerStep, StartLoad, FinishLoad, LoadFails, Insert, Remove,
               Clear, DeleteState, Invalidate, ClientInsert, ClientRemove, ClientClear,
               SetServer, SetClient, session
    <3> QED
        BY <2>1, <3>1 DEF NewIsNotStored, IsFresh, IsStored
  <2> QED
      BY <2>2, <2>3
<1>3. ASSUME NEW r \in Requests
      PROVE  ~Sync(r)
    BY DEF Sync, NoManualSync
<1>4. ASSUME NEW r \in Requests, Deliver(r) \/ Abandon(r)
      PROVE  NewIsNotStored'
  <2>1. /\ UNCHANGED records
        /\ pc'[r] = "idle"
        /\ \A q \in Requests \ {r} : pc'[q] = pc[q] /\ id'[q] = id[q]
      BY <1>0, <1>4 DEF Deliver, Abandon, Forget
  <2> QED
      BY <2>1 DEF NewIsNotStored, IsFresh, IsStored
<1>5. CASE ForgetCookie \/ TimePasses \/ CollectExpired \/ UNCHANGED vars
  <2>1. UNCHANGED <<pc, id>>
      BY <1>5 DEF ForgetCookie, TimePasses, CollectExpired, vars, session
  <2>2. ASSUME NEW k \in Ids, ~IsFresh(k)
        PROVE  ~IsFresh(k)'
    <3>1. CASE UNCHANGED records
        BY <2>2, <3>1 DEF IsFresh, IsStored
    <3>2. CASE Elapse \/ DeleteExpired(1)
        BY <2>2, <3>2, BackgroundRevives DEF RetiredInv, TypeOK
    <3> QED
        BY <1>5, <3>1, <3>2 DEF ForgetCookie, TimePasses, CollectExpired, vars
  <2>3. \A q \in Requests : pc[q] # "idle" => id[q].new \in Ids
      BY DEF RetiredInv, TypeOK, IdOK
  <2> QED
      BY <2>1, <2>2, <2>3 DEF NewIsNotStored, IsFresh, IsStored
<1> QED
    BY <1>1, <1>2, <1>3, <1>4, <1>5, NotStoredFinalize DEF Next

\* The calls that can fail, with a store that answers: those that need the
\* record of the id the session had.
LEMMA CallsFail ==
    ASSUME "backend" \notin Faults, NEW i, NEW j, NEW state, NEW out
    PROVE  /\ TryCreate(i, state, out) /\ ~IsFresh(i) => out = "Ok"
           /\ TryUpdate(i, state, out) /\ IsFresh(i) => out = "Ok"
           /\ TryUpdateTtl(i, out) /\ IsFresh(i) => out = "Ok"
           /\ TryDelete(i, out) => out \in {"Ok", "UnknownId"}
           /\ TryChangeId(i, j, out) /\ ~IsFresh(j) =>
                 \/ out = "Ok"
                 \/ out = "UnknownId" /\ ~IsFresh(i)
BY DEF TryCreate, TryUpdate, TryUpdateTtl, TryDelete, TryChangeId, BackendError,
       Create, Update, UpdateTtl, Delete, ChangeId

LEMMA FailedForLostRecord ==
    ASSUME NoManualSync, "backend" \notin Faults, RetiredInv, NewIsNotStored,
           [Next]_vars, NEW r \in Requests,
           pc'[r] = "responding", response'[r] = Failure, pc[r] # "responding"
    PROVE  ~IsNew(r) /\ ~IsFresh(id[r].old)
<1>0. /\ TypeOK /\ IdsInv
      /\ response \in [Requests -> Responses]
    BY DEF RetiredInv, TypeOK
<1>1. \/ /\ pc[r] = "handling"
         /\ \E res \in SyncResults : SyncCall(r, res) /\ AfterSync(r, res, "finalize")
      \/ /\ pc[r] = "finalize_create"
         /\ \E out \in CallResults :
               /\ TryCreate(id[r].new, server[r].state, out)
               /\ AfterSync(r, OkOrFailed(out), "finalize")
    BY <1>0, AnsweredByFinalize
<1>2. ASSUME NEW res, AfterSync(r, res, "finalize")
      PROVE  res = "Failed"
  <2>1. CookieFor(r) # Failure
      BY DEF CookieFor, NoResponse, Removal, SetCookie, Failure
  <2>2. pc \in [Requests -> PCs]
      BY <1>0 DEF TypeOK
  <2> QED
      BY <1>0, <1>2, <2>1, <2>2 DEF AfterSync
<1>3. /\ id[r].kind \in {"Existing", "ToBeRenamed", "NewlyGenerated"}
      /\ pc[r] \in {"handling", "finalize_create"} /\ id[r].kind # "Existing" =>
            ~IsFresh(id[r].new)
      /\ pc[r] = "handling" /\ server[r].tag = "DoesNotExist" => IsNew(r)
      /\ pc[r] = "handling" /\ IsNew(r) =>
            server[r].tag \in {"DoesNotExist", "MarkedForDeletion", "Changed"}
    BY <1>0, <1>1 DEF TypeOK, IdOK, NewIsNotStored, IdsInv, MissingIsRejected,
                      NewIsNeverLoaded
<1>4. CASE pc[r] = "finalize_create"
    BY <1>0, <1>1, <1>2, <1>3, <1>4, CallsFail DEF IdsInv, RenameInProgress, OkOrFailed
<1>5. CASE pc[r] = "handling"
  <2>0. SyncCall(r, "Failed")
      BY <1>1, <1>2, <1>5
  <2>1. ~SyncDoesNotExist(r, "Failed")
      BY <1>3, <1>5, CallsFail DEF SyncDoesNotExist, NoCall, IsNew, OkOrFailed
  <2>2. CASE SyncNotLoaded(r, "Failed")
      BY <1>3, <1>5, <2>2, CallsFail DEF SyncNotLoaded, NoCall, IsNew, OkOrFailed
  <2>3. CASE SyncUnchanged(r, "Failed")
    <3>1. ~IsNew(r)
        BY <1>3, <1>5, <2>3 DEF SyncUnchanged
    <3>2. CASE id[r].kind = "Existing"
        BY <2>3, <3>1, <3>2, CallsFail DEF SyncUnchanged, NoCall, IsNew, OkOrFailed
    <3>3. CASE id[r].kind = "ToBeRenamed"
        BY <1>3, <1>5, <2>3, <3>1, <3>3, CallsFail DEF SyncUnchanged, OkOrFailed
    <3> QED
        BY <1>3, <3>1, <3>2, <3>3 DEF IsNew
  <2>4. ~SyncMarked(r, "Failed")
      BY CallsFail DEF SyncMarked, NoCall, OkOrFailed
  <2>5. CASE SyncChanged(r, "Failed")
    <3>1. ~IsNew(r)
        BY <1>3, <1>5, <2>5, CallsFail DEF SyncChanged, IsNew, OkOrFailed
    <3> QED
        BY <2>5, <3>1, CallsFail DEF SyncChanged, IsNew, OkOrFailed
  <2> QED
      BY <2>0, <2>1, <2>2, <2>3, <2>4, <2>5 DEF SyncCall
<1> QED
    BY <1>1, <1>4, <1>5

\* With a store that answers, finalize fails for one reason only: the record
\* of the session it continues has gone.  A new id is never taken when its
\* record is created or moved there, however requests interleave.
THEOREM FailuresExplained ==
    NoManualSync /\ "backend" \notin Faults => (Spec => FailuresAreExplained)
<1> SUFFICES ASSUME NoManualSync, "backend" \notin Faults
             PROVE  Spec => FailuresAreExplained
    OBVIOUS
<1>1. Init => NewIsNotStored
    BY DEF Init, NewIsNotStored
<1>2. RetiredInv /\ NewIsNotStored /\ [Next]_vars => NewIsNotStored'
    BY NotStoredStep
<1>3. RetiredInv /\ NewIsNotStored /\ [Next]_vars
      => [\A r \in Requests :
             pc'[r] = "responding" /\ response'[r] = Failure /\ pc[r] # "responding" =>
                ~IsNew(r) /\ ~IsFresh(id[r].old)]_vars
    BY FailedForLostRecord
<1> QED
    BY <1>1, <1>2, <1>3, RetiredInvHolds, PTL DEF Spec, FailuresAreExplained

-----------------------------------------------------------------------------
(* When nothing interferes: the browser sends one request at a time, the   *)
(* store answers, records do not expire.  What is left to go wrong is the  *)
(* code itself: the order of the calls of sync, the id the cookie is       *)
(* given, what happens to the old record.                                  *)

\* One request at a time, in a world without faults.  Handlers leave it to the
\* middleware to sync and do not delete the state of a session they keep; an
\* empty state is stored too, so that every cookie has a record.
Undisturbed ==
    /\ Requests # {} /\ \A q, r \in Requests : q = r
    /\ Faults = {}
    /\ "sync" \notin Ops /\ "delete" \notin Ops
    /\ ServerStateCreation = "NeverSkip"

Live   == {i \in Ids : IsFresh(i)}
JarIds == IF jar = NoCookie THEN {} ELSE {jar.id}

\* The session in progress is the one of the cookie, or the browser has none.
\* Nothing but an invalidation marks it for deletion.
SessionOfJar(r) ==
    /\ invalidated[r] <=> server[r].tag = "MarkedForDeletion"
    /\ IsNew(r) => /\ jar = NoCookie
                   /\ server[r].tag \in {"DoesNotExist", "MarkedForDeletion", "Changed"}
                   /\ client[r].updated \/ client[r].state = {}
    /\ ~IsNew(r) => /\ jar # NoCookie
                    /\ id[r].old = jar.id
                    /\ server[r].tag # "DoesNotExist"

\* The answer under way will leave the browser with the id of the one record
\* there is, or without a cookie when there is none.
AnswerFits(r) ==
    \/ /\ response[r].kind = "SetCookie"
       /\ response[r].cookie # NoCookie
       /\ Live = {response[r].cookie.id}
    \/ response[r].kind = "Removal" /\ Live = {}
    \/ response[r].kind = "None" /\ Live = {} /\ jar = NoCookie

SequentialInv ==
    \A r \in Requests :
        /\ pc[r] \in {"idle", "handling", "finalize_create", "responding"}
        /\ NoRecord \notin loads[r]
        /\ pc[r] \in {"idle", "handling"} => Live = JarIds
        /\ pc[r] \in {"handling", "finalize_create"} => SessionOfJar(r)
        /\ pc[r] = "finalize_create" => /\ Live = {}
                                        /\ id[r].kind = "ToBeRenamed"
                                        /\ server[r].tag = "Changed"
        /\ response[r].kind # "None" => pc[r] = "responding"
        /\ pc[r] = "responding" => AnswerFits(r)

---------------------------------------------------------------------------
(* The calls to the store.                                                 *)

\* Without faults, what a call returns and which records there are afterwards
\* depends only on which records there were.
LEMMA CallsLive ==
    ASSUME Faults = {}, StoreTypeOK,
           NEW i \in Ids, NEW j \in Ids, NEW state \in SUBSET Keys, NEW out
    PROVE  /\ TryCreate(i, state, out) /\ Live = {} => out = "Ok" /\ Live' = {i}
           /\ TryUpdate(i, state, out) /\ Live = {i} => out = "Ok" /\ Live' = {i}
           /\ TryUpdateTtl(i, out) /\ Live = {i} => out = "Ok" /\ Live' = {i}
           /\ TryDelete(i, out) /\ Live = {i} => out = "Ok" /\ Live' = {}
           /\ TryChangeId(i, j, out) /\ Live = {i} /\ i # j => out = "Ok" /\ Live' = {j}
<1> USE MaxTtlAssumption, NoRecordAssumption DEF StoreTypeOK, Records
<1>0. ~BackendError(out)
    BY DEF BackendError
<1>1. TryCreate(i, state, out) /\ Live = {} => out = "Ok" /\ Live' = {i}
    BY <1>0 DEF TryCreate, Create, NewRecord, Live, IsFresh, IsStored
<1>2. TryUpdate(i, state, out) /\ Live = {i} => out = "Ok" /\ Live' = {i}
    BY <1>0 DEF TryUpdate, Update, NewRecord, Live, IsFresh, IsStored
<1>3. TryUpdateTtl(i, out) /\ Live = {i} => out = "Ok" /\ Live' = {i}
    BY <1>0 DEF TryUpdateTtl, UpdateTtl, Live, IsFresh, IsStored
<1>4. TryDelete(i, out) /\ Live = {i} => out = "Ok" /\ Live' = {}
    BY <1>0 DEF TryDelete, Delete, Live, IsFresh, IsStored
<1>5. TryChangeId(i, j, out) /\ Live = {i} /\ i # j => out = "Ok" /\ Live' = {j}
    BY <1>0 DEF TryChangeId, ChangeId, Live, IsFresh, IsStored
<1> QED
    BY <1>1, <1>2, <1>3, <1>4, <1>5

---------------------------------------------------------------------------
(* The end of a request.                                                   *)

\* What SequentialInv says of a request that is being handled.
LEMMA HandlingFacts ==
    ASSUME TypeOK, SequentialInv, NEW r \in Requests, pc[r] = "handling"
    PROVE  /\ SessionOfJar(r)
           /\ Live = JarIds
           /\ id[r].new \in Ids
           /\ id[r].kind \in {"Existing", "ToBeRenamed", "NewlyGenerated"}
           /\ IsNew(r) => Live = {}
           /\ ~IsNew(r) => id[r].old \in Ids /\ Live = {id[r].old}
           /\ id[r].kind = "Existing" => id[r].old = id[r].new
           /\ id[r].kind = "ToBeRenamed" => id[r].old # id[r].new
           /\ server[r].state \in SUBSET Keys
           /\ server[r].tag \in ServerTags
<1>1. SessionOfJar(r) /\ Live = JarIds
    BY DEF SequentialInv
<1>2. /\ id[r].new \in Ids
      /\ id[r].kind \in {"Existing", "ToBeRenamed", "NewlyGenerated"}
      /\ ~IsNew(r) => id[r].old \in Ids
      /\ id[r].kind = "Existing" => id[r].old = id[r].new
      /\ id[r].kind = "ToBeRenamed" => id[r].old # id[r].new
      /\ server[r].state \in SUBSET Keys
      /\ server[r].tag \in ServerTags
    BY DEF TypeOK, IdOK, IsNew, ServerStates
<1>3. IsNew(r) => Live = {}
    BY <1>1 DEF SessionOfJar, JarIds
<1>4. ~IsNew(r) => Live = {id[r].old}
    BY <1>1 DEF SessionOfJar, JarIds
<1> QED
    BY <1>1, <1>2, <1>3, <1>4

\* The calls of sync: none fails, and they leave exactly the record of the
\* session, under its new id, if the session has one.
LEMMA SyncCallLive ==
    ASSUME Undisturbed, TypeOK, SequentialInv, NEW r \in Requests,
           pc[r] = "handling", NEW res \in SyncResults, SyncCall(r, res)
    PROVE  /\ res \in {"Synced", "MustCreate"}
           /\ res = "MustCreate" => /\ id[r].kind = "ToBeRenamed"
                                    /\ server[r].tag = "Changed"
                                    /\ Live' = {}
           /\ res = "Synced" =>
                 Live' = IF \/ invalidated[r]
                            \/ server[r].tag = "DoesNotExist" /\ ~CreateIfEmpty(r)
                         THEN {} ELSE {id[r].new}
<1>0. /\ StoreTypeOK
      /\ SessionOfJar(r)
      /\ id[r].new \in Ids
      /\ id[r].kind \in {"Existing", "ToBeRenamed", "NewlyGenerated"}
      /\ IsNew(r) => Live = {}
      /\ ~IsNew(r) => id[r].old \in Ids /\ Live = {id[r].old}
      /\ id[r].kind = "Existing" => id[r].old = id[r].new
      /\ id[r].kind = "ToBeRenamed" => id[r].old # id[r].new
      /\ server[r].state \in SUBSET Keys
      /\ Faults = {}
    BY HandlingFacts DEF TypeOK, Undisturbed
<1>1. UNCHANGED records => Live' = Live
    BY DEF Live, IsFresh, IsStored
<1>2. CASE SyncDoesNotExist(r, res)
  <2>1. IsNew(r) /\ ~invalidated[r] /\ Live = {}
      BY <1>0, <1>2 DEF SyncDoesNotExist, SessionOfJar
  <2>2. CASE CreateIfEmpty(r)
    <3>1. PICK out \in CallResults : TryCreate(id[r].new, {}, out) /\ res = OkOrFailed(out)
        BY <1>2, <2>1, <2>2 DEF SyncDoesNotExist, IsNew
    <3>2. out = "Ok" /\ Live' = {id[r].new}
        BY <1>0, <2>1, <3>1, CallsLive, {} \in SUBSET Keys
    <3> QED
        BY <2>1, <2>2, <3>1, <3>2 DEF OkOrFailed
  <2>3. CASE ~CreateIfEmpty(r)
      BY <1>1, <1>2, <2>1, <2>3 DEF SyncDoesNotExist, NoCall
  <2> QED
      BY <2>2, <2>3
<1>3. CASE SyncNotLoaded(r, res)
  <2>1. ~IsNew(r) /\ ~invalidated[r] /\ server[r].tag = "NotLoaded"
      BY <1>0, <1>3 DEF SyncNotLoaded, SessionOfJar
  <2>2. CASE id[r].kind = "Existing"
      BY <1>0, <1>1, <1>3, <2>1, <2>2 DEF SyncNotLoaded, NoCall
  <2>3. CASE id[r].kind = "ToBeRenamed"
    <3>1. PICK out \in CallResults :
            TryChangeId(id[r].old, id[r].new, out) /\ res = OkOrFailed(out)
        BY <1>3, <2>1, <2>3 DEF SyncNotLoaded
    <3>2. out = "Ok" /\ Live' = {id[r].new}
        BY <1>0, <2>1, <2>3, <3>1, CallsLive, {} \in SUBSET Keys
    <3> QED
        BY <2>1, <3>1, <3>2 DEF OkOrFailed
  <2> QED
      BY <1>0, <2>1, <2>2, <2>3 DEF IsNew
<1>4. CASE SyncUnchanged(r, res)
  <2>1. ~IsNew(r) /\ ~invalidated[r] /\ server[r].tag = "Unchanged"
      BY <1>0, <1>4 DEF SyncUnchanged, SessionOfJar
  <2>2. CASE id[r].kind = "Existing" /\ MustExtend(r)
    <3>1. PICK out \in CallResults : TryUpdateTtl(id[r].old, out) /\ res = OkOrFailed(out)
        BY <1>4, <2>1, <2>2 DEF SyncUnchanged, IsNew
    <3>2. out = "Ok" /\ Live' = Live
        BY <1>0, <2>1, <3>1, CallsLive, {} \in SUBSET Keys
    <3> QED
        BY <1>0, <2>1, <2>2, <3>1, <3>2 DEF OkOrFailed
  <2>3. CASE id[r].kind = "Existing" /\ ~MustExtend(r)
      BY <1>0, <1>1, <1>4, <2>1, <2>3 DEF SyncUnchanged, NoCall
  <2>4. CASE id[r].kind = "ToBeRenamed"
    <3>1. PICK out \in CallResults :
            /\ TryChangeId(id[r].old, id[r].new, out)
            /\ res = IF out = "UnknownId" THEN "MustCreate" ELSE OkOrFailed(out)
        BY <1>4, <2>1, <2>4 DEF SyncUnchanged
    <3>2. out = "Ok" /\ Live' = {id[r].new}
        BY <1>0, <2>1, <2>4, <3>1, CallsLive, {} \in SUBSET Keys
    <3> QED
        BY <2>1, <3>1, <3>2 DEF OkOrFailed
  <2> QED
      BY <1>0, <2>1, <2>2, <2>3, <2>4 DEF IsNew
<1>5. CASE SyncMarked(r, res)
  <2>1. invalidated[r]
      BY <1>0, <1>5 DEF SyncMarked, SessionOfJar
  <2>2. CASE IsNew(r)
      BY <1>0, <1>1, <1>5, <2>1, <2>2 DEF SyncMarked, NoCall
  <2>3. CASE ~IsNew(r)
    <3>1. PICK out \in CallResults :
            /\ TryDelete(id[r].old, out)
            /\ res = IF out = "UnknownId" THEN "Synced" ELSE OkOrFailed(out)
        BY <1>5, <2>3 DEF SyncMarked
    <3>2. out = "Ok" /\ Live' = {}
        BY <1>0, <2>3, <3>1, CallsLive, {} \in SUBSET Keys
    <3> QED
        BY <2>1, <3>1, <3>2 DEF OkOrFailed
  <2> QED
      BY <2>2, <2>3
<1>6. CASE SyncChanged(r, res)
  <2>1. ~invalidated[r] /\ server[r].tag = "Changed"
      BY <1>0, <1>6 DEF SyncChanged, SessionOfJar
  <2>2. PICK out \in CallResults :
          \/ /\ id[r].kind = "Existing"
             /\ TryUpdate(id[r].old, server[r].state, out)
             /\ res = OkOrFailed(out)
          \/ /\ id[r].kind = "ToBeRenamed"
             /\ TryDelete(id[r].old, out)
             /\ res = IF out \in {"Ok", "UnknownId"} THEN "MustCreate" ELSE "Failed"
          \/ /\ IsNew(r)
             /\ TryCreate(id[r].new, server[r].state, out)
             /\ res = OkOrFailed(out)
      BY <1>6 DEF SyncChanged
  <2>3. CASE id[r].kind = "Existing"
    <3>1. out = "Ok" /\ Live' = Live
        BY <1>0, <2>2, <2>3, CallsLive DEF IsNew
    <3> QED
        BY <1>0, <2>1, <2>2, <2>3, <3>1 DEF IsNew, OkOrFailed
  <2>4. CASE id[r].kind = "ToBeRenamed"
    <3>1. out = "Ok" /\ Live' = {}
        BY <1>0, <2>2, <2>4, CallsLive DEF IsNew
    <3> QED
        BY <2>1, <2>2, <2>4, <3>1 DEF IsNew
  <2>5. CASE IsNew(r)
    <3>1. out = "Ok" /\ Live' = {id[r].new}
        BY <1>0, <2>2, <2>5, CallsLive DEF IsNew
    <3> QED
        BY <2>1, <2>2, <2>5, <3>1 DEF IsNew, OkOrFailed
  <2> QED
      BY <1>0, <2>3, <2>4, <2>5 DEF IsNew
<1> QED
    BY <1>2, <1>3, <1>4, <1>5, <1>6 DEF SyncCall

\* The answer finalize gives fits the records its calls have left.
LEMMA CookieFits ==
    ASSUME Undisturbed, TypeOK, NEW r \in Requests, pc[r] # "idle", SessionOfJar(r),
           Live' = IF \/ invalidated[r]
                      \/ server[r].tag = "DoesNotExist" /\ ~CreateIfEmpty(r)
                   THEN {} ELSE {id[r].new},
           response'[r] = CookieFor(r), UNCHANGED jar
    PROVE  AnswerFits(r)'
<1>1. id[r].new \in Ids /\ client[r].state \in SUBSET ClientKeys /\ server[r].tag \in ServerTags
    BY DEF TypeOK, IdOK, ClientStates, ServerStates
<1>2. CASE invalidated[r]
  <2>1. Live' = {} /\ (IsNew(r) => jar' = NoCookie)
      BY <1>2 DEF SessionOfJar
  <2>2. response'[r] = IF IsNew(r) THEN NoResponse ELSE Removal
      BY <1>2 DEF CookieFor
  <2> QED
      BY <2>1, <2>2 DEF AnswerFits, NoResponse, Removal
<1>3. CASE ~invalidated[r] /\ server[r].tag = "DoesNotExist" /\ ~CreateIfEmpty(r)
  <2>1. IsNew(r) /\ client[r].state = {} /\ jar' = NoCookie
      BY <1>3 DEF SessionOfJar, CreateIfEmpty, Undisturbed
  <2>2. Settled(r) = DoesNotExist
      BY <1>3 DEF Settled
  <2>3. response'[r] = NoResponse
      BY <1>3, <2>1, <2>2 DEF CookieFor, DoesNotExist, ServerState
  <2>4. Live' = {}
      BY <1>3
  <2> QED
      BY <2>1, <2>3, <2>4 DEF AnswerFits, NoResponse
<1>4. CASE /\ ~invalidated[r]
           /\ ~(server[r].tag = "DoesNotExist" /\ ~CreateIfEmpty(r))
  <2>1. server[r].tag \in {"NotLoaded", "Unchanged", "Changed"}
        \/ (server[r].tag = "DoesNotExist" /\ CreateIfEmpty(r))
      BY <1>1, <1>4 DEF SessionOfJar, ServerTags
  <2>2. Settled(r).tag # "DoesNotExist"
      BY <2>1 DEF Settled, Unchanged, ServerState
  <2>3. response'[r] = SetCookie([id |-> id[r].new, client |-> client[r].state])
      BY <1>4, <2>2 DEF CookieFor
  <2>4. [id |-> id[r].new, client |-> client[r].state] \in Cookies
      BY <1>1 DEF Cookies
  <2>5. Live' = {id[r].new}
      BY <1>4
  <2> QED
      BY <2>3, <2>4, <2>5, SessionAssumption DEF AnswerFits, SetCookie
<1> QED
    BY <1>2, <1>3, <1>4

---------------------------------------------------------------------------
(* Every step keeps the browser and the store in agreement.                *)

LEMMA SequentialInit ==
    ASSUME Init
    PROVE  SequentialInv
<1>1. /\ Live = {}
      /\ JarIds = {}
    BY NoRecordAssumption DEF Init, StoreInit, Live, JarIds, IsFresh, IsStored
<1> QED
    BY <1>1 DEF Init, SequentialInv, NoResponse

LEMMA SequentialArrive ==
    ASSUME Undisturbed, TypeOK, IdleIsClean, SequentialInv, NEW r \in Requests, Arrive(r)
    PROVE  SequentialInv'
<1>1. /\ pc[r] = "idle" /\ pc'[r] = "handling"
      /\ UNCHANGED <<records, jar, invalidated, loads, response>>
      /\ ~invalidated[r]
      /\ response[r].kind = "None"
    BY DEF Arrive, TypeOK, IdleIsClean, SequentialInv
<1>2. Live' = Live /\ JarIds' = JarIds
    BY <1>1 DEF Live, JarIds, IsFresh, IsStored
<1>3. CASE jar = NoCookie
  <2>1. PICK i \in Ids \ KnownIds :
          /\ id' = [id EXCEPT ![r] = NewlyGenerated(i)]
          /\ server' = [server EXCEPT ![r] = DoesNotExist]
          /\ client' = [client EXCEPT ![r] = [state |-> {}, updated |-> FALSE]]
      BY <1>3 DEF Arrive
  <2>2. /\ IsNew(r)'
        /\ server'[r].tag = "DoesNotExist"
        /\ client'[r].state = {}
      BY <2>1 DEF TypeOK, IsNew, NewlyGenerated, DoesNotExist, ServerState
  <2>3. SessionOfJar(r)'
      BY <1>1, <1>3, <2>2 DEF SessionOfJar
  <2> QED
      BY <1>1, <1>2, <2>3 DEF SequentialInv, Undisturbed
<1>4. CASE jar # NoCookie
  <2>1. /\ id' = [id EXCEPT ![r] = Existing(jar.id)]
        /\ server' = [server EXCEPT ![r] = NotLoaded]
      BY <1>4 DEF Arrive
  <2>2. /\ ~IsNew(r)' /\ id'[r].old = jar.id
        /\ server'[r].tag = "NotLoaded"
      BY <2>1 DEF TypeOK, IsNew, Existing, NotLoaded, ServerState
  <2>3. SessionOfJar(r)'
      BY <1>1, <1>4, <2>2 DEF SessionOfJar
  <2> QED
      BY <1>1, <1>2, <2>3 DEF SequentialInv, Undisturbed
<1> QED
    BY <1>3, <1>4

LEMMA SequentialHandler ==
    ASSUME Undisturbed, TypeOK, SequentialInv, NEW r \in Requests, HandlerStep(r)
    PROVE  SequentialInv'
<1>1. /\ pc[r] = "handling"
      /\ UNCHANGED <<records, jar, pc, response>>
    BY DEF HandlerStep, StartLoad, FinishLoad, LoadFails, Insert, Remove, Clear,
           DeleteState, Invalidate, CycleId, ClientInsert, ClientRemove, ClientClear,
           Handles
<1>2. /\ SessionOfJar(r)
      /\ Live = JarIds
      /\ NoRecord \notin loads[r]
      /\ ~IsNew(r) => Live = {id[r].old}
      /\ server \in [Requests -> ServerStates]
      /\ id \in [Requests -> SessionIds]
      /\ invalidated \in [Requests -> BOOLEAN]
      /\ client \in [Requests -> ClientStates]
      /\ loads \in [Requests -> SUBSET (Records \cup {NoRecord})]
    BY <1>1, HandlingFacts DEF SequentialInv, TypeOK
<1>3. ASSUME SessionOfJar(r)', NoRecord \notin loads'[r]
      PROVE  SequentialInv'
  <2>1. Live' = Live /\ JarIds' = JarIds
      BY <1>1 DEF Live, JarIds, IsFresh, IsStored
  <2> QED
      BY <1>1, <1>2, <1>3, <2>1 DEF SequentialInv, Undisturbed
<1>4. CASE StartLoad(r)
  <2>1. /\ ~IsNew(r)
        /\ loads'[r] = loads[r] \cup {Loaded(id[r].old)}
        /\ UNCHANGED session
      BY <1>2, <1>4 DEF StartLoad
  <2>2. Loaded(id[r].old) # NoRecord
      BY <1>2, <2>1 DEF Live, Loaded, IsFresh, IsStored
  <2> QED
      BY <1>1, <1>2, <1>3, <2>1, <2>2 DEF session, SessionOfJar, IsNew
<1>5. CASE FinishLoad(r)
  <2>1. PICK found \in loads[r] :
          /\ loads' = [loads EXCEPT ![r] = @ \ {found}]
          /\ LET rejects == found = NoRecord /\ MissingServerState = "Reject" IN
             IF IsLoaded(r)
             THEN UNCHANGED <<server, invalidated>>
             ELSE /\ server' = [server EXCEPT ![r] =
                                  IF rejects THEN MarkedForDeletion
                                  ELSE IF found = NoRecord THEN DoesNotExist
                                  ELSE Unchanged(found.state, found.life)]
                  /\ invalidated' = [invalidated EXCEPT ![r] = @ \/ rejects]
      BY <1>5, Zenon DEF FinishLoad
  <2>2. found # NoRecord /\ NoRecord \notin loads'[r]
      BY <1>2, <2>1
  <2>3. UNCHANGED <<id, client>>
      BY <1>5 DEF FinishLoad
  <2>4. CASE IsLoaded(r)
      BY <1>1, <1>2, <1>3, <2>1, <2>2, <2>3, <2>4 DEF SessionOfJar, IsNew
  <2>5. CASE ~IsLoaded(r)
    <3>1. server'[r].tag = "Unchanged"
        BY <1>2, <2>1, <2>2, <2>5 DEF Unchanged, ServerState
    <3>2. invalidated'[r] = invalidated[r]
        BY <1>2, <2>1, <2>2, <2>5
    <3>3. server[r].tag = "NotLoaded"
        BY <2>5 DEF IsLoaded
    <3>4. SessionOfJar(r)'
        BY <1>1, <1>2, <2>3, <3>1, <3>2, <3>3 DEF SessionOfJar, IsNew
    <3> QED
        BY <1>3, <2>2, <3>4
  <2> QED
      BY <2>4, <2>5
<1>6. CASE LoadFails(r)
    BY <1>6 DEF LoadFails, Undisturbed
<1>7. CASE (\E k \in Keys : Insert(r, k) \/ Remove(r, k)) \/ Clear(r)
  <2>1. /\ server[r].tag \in {"Unchanged", "Changed", "DoesNotExist"}
        /\ server'[r].tag \in {"Changed", server[r].tag}
        /\ UNCHANGED <<id, client, invalidated, loads>>
    <3>1. ASSUME NEW k \in Keys, Insert(r, k)
          PROVE  /\ server[r].tag \in {"Unchanged", "Changed", "DoesNotExist"}
                 /\ server'[r].tag \in {"Changed", server[r].tag}
                 /\ UNCHANGED <<id, client, invalidated, loads>>
        BY <1>2, <3>1 DEF Insert, SetServer, Handles, Changed, ServerState
    <3>2. ASSUME NEW k \in Keys, Remove(r, k)
          PROVE  /\ server[r].tag \in {"Unchanged", "Changed", "DoesNotExist"}
                 /\ server'[r].tag \in {"Changed", server[r].tag}
                 /\ UNCHANGED <<id, client, invalidated, loads>>
      <4>1. server[r] \in ServerStates
          BY <1>2
      <4> QED
          BY <1>2, <3>2, <4>1 DEF Remove, SetServer, Handles, ServerStates
    <3>3. ASSUME Clear(r)
          PROVE  /\ server[r].tag \in {"Unchanged", "Changed", "DoesNotExist"}
                 /\ server'[r].tag \in {"Changed", server[r].tag}
                 /\ UNCHANGED <<id, client, invalidated, loads>>
        BY <1>2, <3>3 DEF Clear, SetServer, Handles, Changed, ServerState
    <3> QED
        BY <1>7, <3>1, <3>2, <3>3
  <2>2. SessionOfJar(r)'
      BY <1>1, <1>2, <2>1 DEF SessionOfJar, IsNew
  <2> QED
      BY <1>2, <1>3, <2>1, <2>2
<1>8. CASE DeleteState(r)
    BY <1>8 DEF DeleteState, Handles, Undisturbed
<1>9. CASE Invalidate(r)
  <2>1. /\ server'[r].tag = "MarkedForDeletion" /\ invalidated'[r]
        /\ UNCHANGED <<id, client, loads>>
      BY <1>2, <1>9 DEF Invalidate, Handles, SetServer, MarkedForDeletion, ServerState
  <2> QED
      BY <1>1, <1>2, <1>3, <2>1 DEF SessionOfJar, IsNew
<1>10. CASE CycleId(r)
  <2>1. /\ IsNew(r)' <=> IsNew(r)
        /\ ~IsNew(r) => id'[r].old = id[r].old
        /\ UNCHANGED <<server, client, invalidated, loads>>
      BY <1>2, <1>10 DEF CycleId, Handles, IsNew, NewlyGenerated, ToBeRenamed
  <2> QED
      BY <1>1, <1>2, <1>3, <2>1 DEF SessionOfJar
<1>11. CASE (\E k \in ClientKeys : ClientInsert(r, k) \/ ClientRemove(r, k)) \/ ClientClear(r)
  <2>1. /\ client'[r].updated
        /\ UNCHANGED <<id, server, invalidated, loads>>
      BY <1>2, <1>11 DEF ClientInsert, ClientRemove, ClientClear, SetClient, Handles
  <2> QED
      BY <1>1, <1>2, <1>3, <2>1 DEF SessionOfJar, IsNew
<1> QED
    BY <1>4, <1>5, <1>6, <1>7, <1>8, <1>9, <1>10, <1>11 DEF HandlerStep

\* The end of a finalize that does not fail.
LEMMA SequentialAnswer ==
    ASSUME Undisturbed, TypeOK, SequentialInv, NEW r \in Requests,
           pc[r] \in {"handling", "finalize_create"},
           NEW res \in {"Synced", "MustCreate"}, AfterSync(r, res, "finalize"),
           UNCHANGED <<jar, id, client, invalidated, loads>>,
           res = "MustCreate" => /\ id[r].kind = "ToBeRenamed"
                                 /\ server[r].tag = "Changed"
                                 /\ Live' = {},
           res = "Synced" => Live' = IF \/ invalidated[r]
                                        \/ server[r].tag = "DoesNotExist" /\ ~CreateIfEmpty(r)
                                     THEN {} ELSE {id[r].new}
    PROVE  SequentialInv'
<1>1. /\ SessionOfJar(r)
      /\ NoRecord \notin loads'[r]
      /\ pc \in [Requests -> PCs]
      /\ response \in [Requests -> Responses]
      /\ response[r].kind = "None"
    BY DEF SequentialInv, TypeOK
<1>2. CASE res = "Synced"
  <2>1. pc'[r] = "responding" /\ response'[r] = CookieFor(r)
      BY <1>1, <1>2, SettledIsClean DEF AfterSync
  <2>2. AnswerFits(r)'
      BY <1>1, <1>2, <2>1, CookieFits
  <2> QED
      BY <1>1, <2>1, <2>2 DEF SequentialInv, Undisturbed
<1>3. CASE res = "MustCreate"
  <2>1. /\ pc'[r] = "finalize_create"
        /\ UNCHANGED <<server, response>>
      BY <1>1, <1>3 DEF AfterSync
  <2>2. SessionOfJar(r)'
      BY <1>1, <2>1 DEF SessionOfJar, IsNew
  <2>3. /\ pc'[r] \in {"idle", "handling", "finalize_create", "responding"}
        /\ pc'[r] \notin {"idle", "handling", "responding"}
        /\ response'[r].kind = "None"
        /\ id'[r].kind = "ToBeRenamed" /\ server'[r].tag = "Changed" /\ Live' = {}
      BY <1>1, <1>3, <2>1
  <2> QED
      BY <1>1, <2>2, <2>3 DEF SequentialInv, Undisturbed
<1> QED
    BY <1>2, <1>3

LEMMA SequentialSync ==
    ASSUME Undisturbed, TypeOK, SequentialInv, NEW r \in Requests,
           Finalize(r) \/ CreateRenamed(r)
    PROVE  SequentialInv'
<1>1. CASE Finalize(r)
  <2>1. PICK res \in SyncResults :
          SyncCall(r, res) /\ AfterSync(r, res, "finalize")
      BY <1>1 DEF Finalize
  <2>2. /\ pc[r] = "handling"
        /\ UNCHANGED <<jar, id, client, invalidated, loads>>
      BY <1>1 DEF Finalize
  <2> QED
      BY <2>1, <2>2, SyncCallLive, SequentialAnswer
<1>2. CASE CreateRenamed(r)
  <2>1. /\ pc[r] = "finalize_create" /\ SessionOfJar(r)
        /\ Live = {} /\ id[r].kind = "ToBeRenamed" /\ server[r].tag = "Changed"
        /\ UNCHANGED <<jar, id, client, invalidated, loads>>
      BY <1>2 DEF CreateRenamed, SequentialInv
  <2>2. PICK out \in CallResults :
          /\ TryCreate(id[r].new, server[r].state, out)
          /\ AfterSync(r, OkOrFailed(out), "finalize")
      BY <1>2, <2>1 DEF CreateRenamed
  <2>3. id[r].new \in Ids /\ server[r].state \in SUBSET Keys /\ StoreTypeOK /\ Faults = {}
      BY <2>1 DEF TypeOK, IdOK, ServerStates, Undisturbed
  <2>4. out = "Ok" /\ Live' = {id[r].new}
      BY <2>1, <2>2, <2>3, CallsLive
  <2>5. OkOrFailed(out) = "Synced" /\ ~invalidated[r]
      BY <2>1, <2>4 DEF OkOrFailed, SessionOfJar
  <2> QED
      BY <2>1, <2>2, <2>4, <2>5, SequentialAnswer
<1> QED
    BY <1>1, <1>2

LEMMA SequentialDeliver ==
    ASSUME Undisturbed, TypeOK, SequentialInv, NEW r \in Requests, Deliver(r)
    PROVE  SequentialInv'
<1>1. /\ pc'[r] = "idle" /\ response'[r] = NoResponse /\ loads'[r] = {}
      /\ UNCHANGED records
      /\ AnswerFits(r)
    BY DEF Deliver, Forget, TypeOK, SequentialInv
<1>2. Live' = Live
    BY <1>1 DEF Live, IsFresh, IsStored
<1>3. jar' = CASE response[r].kind = "SetCookie" -> response[r].cookie
               [] response[r].kind = "Removal"   -> NoCookie
               [] OTHER                          -> jar
    BY DEF Deliver
<1>4. Live = JarIds'
    BY <1>1, <1>3 DEF AnswerFits, JarIds
<1> QED
    BY <1>1, <1>2, <1>4 DEF SequentialInv, Undisturbed, NoResponse

LEMMA SequentialStep ==
    ASSUME Undisturbed, TypeOK, IdleIsClean, SequentialInv, [Next]_vars
    PROVE  SequentialInv'
<1>1. ASSUME NEW r \in Requests
      PROVE  ~Sync(r) /\ ~Abandon(r)
    BY DEF Sync, Abandon, Undisturbed, SequentialInv
<1>2. ~ForgetCookie /\ ~TimePasses
    BY DEF ForgetCookie, TimePasses, Undisturbed
<1>3. CASE UNCHANGED vars
  <2>1. Live' = Live /\ JarIds' = JarIds
      BY <1>3 DEF vars, Live, JarIds, IsFresh, IsStored
  <2>2. UNCHANGED <<jar, pc, id, server, client, invalidated, loads, response>>
      BY <1>3 DEF vars, session
  <2> QED
      BY <2>1, <2>2 DEF SequentialInv, SessionOfJar, AnswerFits, IsNew
<1>4. CASE CollectExpired
  <2>1. UNCHANGED <<jar, pc, id, server, client, invalidated, loads, response>>
      BY <1>4 DEF CollectExpired, session
  <2>2. Live' = Live
      BY <1>4 DEF CollectExpired, DeleteExpired, Live, IsFresh, IsStored, IsStale
  <2>3. JarIds' = JarIds
      BY <2>1 DEF JarIds
  <2> QED
      BY <2>1, <2>2, <2>3 DEF SequentialInv, SessionOfJar, AnswerFits, IsNew
<1> QED
    BY <1>1, <1>2, <1>3, <1>4, SequentialArrive, SequentialHandler, SequentialSync,
       SequentialDeliver DEF Next

LEMMA SequentialInvHolds == Undisturbed => (Spec => []SequentialInv)
<1> SUFFICES ASSUME Undisturbed PROVE Spec => []SequentialInv
    OBVIOUS
<1>1. Init => SequentialInv /\ InvalidatedIsMarked /\ IdleIsClean
    BY SequentialInit DEF Init, InvalidatedIsMarked, IdleIsClean
<1>2. SequentialInv /\ InvalidatedIsMarked /\ IdleIsClean /\ TypeOK /\ [Next]_vars
      => (SequentialInv /\ InvalidatedIsMarked /\ IdleIsClean)'
    BY SequentialStep, InvalidatedStep
<1> QED
    BY <1>1, <1>2, TypeCorrect, PTL DEF Spec

---------------------------------------------------------------------------
(* The theorems.                                                           *)

\* When nothing interferes no request is answered with an error: no call of
\* sync is made for a record that is not there or an id that is taken.
THEOREM FinalizeNeverFails == Undisturbed => (Spec => []FinalizeSucceeds)
<1>1. SequentialInv => FinalizeSucceeds
    BY DEF SequentialInv, AnswerFits, FinalizeSucceeds, Failure
<1> QED
    BY <1>1, SequentialInvHolds, PTL

\* Between two requests the cookie in the browser names a record in the store,
\* whatever the handlers did: finalize puts into the cookie the id under which
\* its last call left the record.
THEOREM CookieIsLive == Undisturbed => (Spec => []CookieNamesLiveSession)
<1> SUFFICES ASSUME Undisturbed PROVE Spec => []CookieNamesLiveSession
    OBVIOUS
<1>1. SequentialInv => CookieNamesLiveSession
  <2> SUFFICES ASSUME SequentialInv, Quiet, jar # NoCookie
               PROVE  IsFresh(jar.id)
      BY DEF CookieNamesLiveSession
  <2>1. Live = JarIds
      BY DEF Undisturbed, Quiet, SequentialInv
  <2> QED
      BY <2>1 DEF Live, JarIds
<1> QED
    BY <1>1, SequentialInvHolds, PTL

\* Between two requests there is no record but the one the cookie names: a
\* rotation or a logout leaves nothing behind under the id it gives up.
THEOREM NothingIsOrphaned == Undisturbed => (Spec => []NoOrphanRecords)
<1> SUFFICES ASSUME Undisturbed PROVE Spec => []NoOrphanRecords
    OBVIOUS
<1>1. SequentialInv => NoOrphanRecords
  <2> SUFFICES ASSUME SequentialInv, Quiet,
                      NEW i \in Ids, IsFresh(i)
               PROVE  jar # NoCookie /\ jar.id = i
      BY DEF NoOrphanRecords
  <2>1. Live = JarIds
      BY DEF Undisturbed, Quiet, SequentialInv
  <2> QED
      BY <2>1 DEF Live, JarIds
<1> QED
    BY <1>1, SequentialInvHolds, PTL
===========================================================================
