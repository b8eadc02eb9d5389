------------------------- MODULE MemoryStore_proof -------------------------
(***************************************************************************)
(* The in-memory backend implements the contract of the storage trait, for *)
(* any set of ids and keys, any time-to-live and any batch sizes.          *)
(***************************************************************************)
EXTENDS MemoryStoreSpec, TLAPS

\* What a caller can see of the map.
Live == [id \in Ids |-> Loaded(id)]

\* Reading Live is reading a record that is fresh.
LEMMA LiveIsFresh ==
    ASSUME StoreTypeOK, NEW i \in Ids
    PROVE  /\ IsFresh(i) => Live[i] = records[i] /\ Live[i] # NoRecord
           /\ ~IsFresh(i) => Live[i] = NoRecord
BY DEF Live, Loaded, IsFresh, IsStored

\* Writing a record that has time left is seen by callers as it is.
LEMMA WriteIsSeen ==
    ASSUME StoreTypeOK, NEW i \in Ids, NEW rec \in Records, rec.life > 0,
           records' = [records EXCEPT ![i] = rec]
    PROVE  Live' = [Live EXCEPT ![i] = rec]
<1>1. Loaded(i)' = rec
    BY NoRecordAssumption DEF StoreTypeOK, Loaded, IsFresh, IsStored
<1>2. \A k \in Ids \ {i} : Loaded(k)' = Loaded(k)
    BY DEF StoreTypeOK, Loaded, IsFresh, IsStored
<1> QED
    BY <1>1, <1>2 DEF Live

\* So is taking a record away; when it was stale, nobody sees a difference.
LEMMA RemovalIsSeen ==
    ASSUME StoreTypeOK, NEW i \in Ids, records' = [records EXCEPT ![i] = NoRecord]
    PROVE  Live' = [Live EXCEPT ![i] = NoRecord]
<1>1. Loaded(i)' = NoRecord
    BY DEF StoreTypeOK, Loaded, IsFresh, IsStored
<1>2. \A k \in Ids \ {i} : Loaded(k)' = Loaded(k)
    BY DEF StoreTypeOK, Loaded, IsFresh, IsStored
<1> QED
    BY <1>1, <1>2 DEF Live

LEMMA StaleRemovalIsNotSeen ==
    ASSUME StoreTypeOK, NEW i \in Ids, records' = [records EXCEPT ![i] = NoRecord],
           ~IsFresh(i)
    PROVE  UNCHANGED Live
<1>1. Live[i] = NoRecord
    BY LiveIsFresh
<1> QED
    BY <1>1, RemovalIsSeen DEF Live

LEMMA NothingIsSeen ==
    ASSUME UNCHANGED records
    PROVE  UNCHANGED Live
BY DEF Live, Loaded, IsFresh, IsStored

\* The records stay well typed, whichever operation is called.
LEMMA StoreTypeStep ==
    ASSUME StoreTypeOK, [Next]_svars
    PROVE  StoreTypeOK'
<1> USE MaxTtlAssumption, NoRecordAssumption DEF StoreTypeOK, Records
<1>1. ASSUME NEW id \in Ids, NEW state \in SUBSET Keys, NEW ttl \in 1..MaxTtl,
             CallCreate(id, state, ttl) \/ CallUpdate(id, state, ttl)
      PROVE  StoreTypeOK'
    BY <1>1 DEF CallCreate, CallUpdate, Create, Update, NewRecord
<1>2. ASSUME NEW id \in Ids, NEW ttl \in 1..MaxTtl, CallUpdateTtl(id, ttl)
      PROVE  StoreTypeOK'
    BY <1>2 DEF CallUpdateTtl, UpdateTtl, IsFresh, IsStored
<1>3. ASSUME NEW id \in Ids, CallLoad(id) \/ CallDelete(id)
      PROVE  StoreTypeOK'
    BY <1>3 DEF CallLoad, CallDelete, Delete
<1>4. ASSUME NEW old \in Ids, NEW new \in Ids, CallChangeId(old, new)
      PROVE  StoreTypeOK'
    BY <1>4 DEF CallChangeId, ChangeId, IsFresh, IsStored
<1>5. CASE CollectExpired
    BY <1>5 DEF CollectExpired, DeleteExpired
<1>6. CASE TimePasses
    BY <1>6 DEF TimePasses, Elapse, IsFresh, IsStored
<1>7. CASE UNCHANGED svars
    BY <1>7 DEF svars
<1> QED
    BY <1>1, <1>2, <1>3, <1>4, <1>5, <1>6, <1>7 DEF Next

---------------------------------------------------------------------------
(* Each operation of the backend is the operation of the contract.         *)

LEMMA CreateRefines ==
    ASSUME StoreTypeOK, NEW id \in Ids, NEW state \in SUBSET Keys,
           NEW ttl \in 1..MaxTtl, CallCreate(id, state, ttl)
    PROVE  Contract!Create(id, state, ttl)
<1> USE DEF Contract!Create, Contract!Exists, Contract!Reply, Contract!Put
<1>1. PICK out \in Outcomes :
        Create(id, state, ttl, out) /\ Reply("create", id, out, NoRecord)
    BY DEF CallCreate
<1>2. CASE IsFresh(id)
  <2>1. out = "DuplicateId" /\ UNCHANGED records
      BY <1>1, <1>2 DEF Create
  <2> QED
      BY <1>1, <1>2, <2>1, LiveIsFresh, NothingIsSeen DEF Reply, Live
<1>3. CASE ~IsFresh(id)
  <2>1. out = "Ok" /\ records' = [records EXCEPT ![id] = NewRecord(state, ttl)]
      BY <1>1, <1>3 DEF Create
  <2>2. NewRecord(state, ttl) \in Records /\ NewRecord(state, ttl).life > 0
      BY MaxTtlAssumption DEF NewRecord, Records
  <2>3. Live' = [Live EXCEPT ![id] = NewRecord(state, ttl)]
      BY <2>1, <2>2, WriteIsSeen
  <2> QED
      BY <1>1, <1>3, <2>1, <2>3, LiveIsFresh DEF Reply, Live, NewRecord
<1> QED
    BY <1>2, <1>3

LEMMA UpdateRefines ==
    ASSUME StoreTypeOK, NEW id \in Ids, NEW state \in SUBSET Keys,
           NEW ttl \in 1..MaxTtl, CallUpdate(id, state, ttl)
    PROVE  Contract!Update(id, state, ttl)
<1> USE DEF Contract!Update, Contract!Exists, Contract!Reply, Contract!Put
<1>1. PICK out \in Outcomes :
        Update(id, state, ttl, out) /\ Reply("update", id, out, NoRecord)
    BY DEF CallUpdate
<1>2. CASE ~IsFresh(id)
  <2>1. out = "UnknownId" /\ UNCHANGED records
      BY <1>1, <1>2 DEF Update
  <2> QED
      BY <1>1, <1>2, <2>1, LiveIsFresh, NothingIsSeen DEF Reply, Live
<1>3. CASE IsFresh(id)
  <2>1. out = "Ok" /\ records' = [records EXCEPT ![id] = NewRecord(state, ttl)]
      BY <1>1, <1>3 DEF Update
  <2>2. NewRecord(state, ttl) \in Records /\ NewRecord(state, ttl).life > 0
      BY MaxTtlAssumption DEF NewRecord, Records
  <2>3. Live' = [Live EXCEPT ![id] = NewRecord(state, ttl)]
      BY <2>1, <2>2, WriteIsSeen
  <2> QED
      BY <1>1, <1>3, <2>1, <2>3, LiveIsFresh DEF Reply, Live, NewRecord
<1> QED
    BY <1>2, <1>3

LEMMA UpdateTtlRefines ==
    ASSUME StoreTypeOK, NEW id \in Ids, NEW ttl \in 1..MaxTtl, CallUpdateTtl(id, ttl)
    PROVE  Contract!UpdateTtl(id, ttl)
<1> USE DEF Contract!UpdateTtl, Contract!Exists, Contract!Reply, Contract!Put
<1>1. PICK out \in Outcomes :
        UpdateTtl(id, ttl, out) /\ Reply("update_ttl", id, out, NoRecord)
    BY DEF CallUpdateTtl
<1>2. CASE ~IsFresh(id)
  <2>1. out = "UnknownId" /\ UNCHANGED records
      BY <1>1, <1>2 DEF UpdateTtl
  <2> QED
      BY <1>1, <1>2, <2>1, LiveIsFresh, NothingIsSeen DEF Reply, Live
<1>3. CASE IsFresh(id)
  <2> DEFINE rec == [state |-> records[id].state, life |-> ttl]
  <2>1. records[id] \in Records
      BY <1>3 DEF StoreTypeOK, IsFresh, IsStored
  <2>2. out = "Ok" /\ records' = [records EXCEPT ![id] = rec]
      BY <1>1, <1>3, <2>1 DEF UpdateTtl, Records
  <2>3. rec \in Records /\ rec.life > 0
      BY <2>1, MaxTtlAssumption DEF Records
  <2>4. Live' = [Live EXCEPT ![id] = rec]
      BY <2>2, <2>3, WriteIsSeen
  <2> QED
      BY <1>1, <1>3, <2>2, <2>4, LiveIsFresh DEF Reply, Live
<1> QED
    BY <1>2, <1>3

LEMMA LoadRefines ==
    ASSUME NEW id \in Ids, CallLoad(id)
    PROVE  Contract!Load(id)
BY NothingIsSeen DEF CallLoad, Reply, Contract!Load, Contract!Reply, Live

LEMMA DeleteRefines ==
    ASSUME StoreTypeOK, NEW id \in Ids, CallDelete(id)
    PROVE  Contract!Delete(id)
<1> USE DEF Contract!Delete, Contract!Exists, Contract!Reply
<1>1. PICK out \in Outcomes : Delete(id, out) /\ Reply("delete", id, out, NoRecord)
    BY DEF CallDelete
<1>2. records' = [records EXCEPT ![id] = NoRecord]
    BY <1>1 DEF Delete
<1>3. CASE ~IsFresh(id)
    BY <1>1, <1>2, <1>3, LiveIsFresh, StaleRemovalIsNotSeen DEF Delete, Reply, Live
<1>4. CASE IsFresh(id)
    BY <1>1, <1>2, <1>4, LiveIsFresh, RemovalIsSeen DEF Delete, Reply, Live
<1> QED
    BY <1>3, <1>4

LEMMA ChangeIdRefines ==
    ASSUME StoreTypeOK, NEW old \in Ids, NEW new \in Ids, CallChangeId(old, new)
    PROVE  Contract!ChangeId(old, new)
<1> USE DEF Contract!ChangeId, Contract!Exists, Contract!Reply
<1>1. PICK out \in Outcomes :
        ChangeId(old, new, out) /\ Reply("change_id", old, out, NoRecord)
    BY DEF CallChangeId
<1>2. CASE IsFresh(new)
  <2>1. out = "DuplicateId" /\ UNCHANGED records
      BY <1>1, <1>2 DEF ChangeId
  <2> QED
      BY <1>1, <1>2, <2>1, LiveIsFresh, NothingIsSeen DEF Reply, Live
<1>3. CASE ~IsFresh(new) /\ ~IsFresh(old)
  <2>1. out = "UnknownId" /\ records' = [records EXCEPT ![old] = NoRecord]
      BY <1>1, <1>3 DEF ChangeId
  <2> QED
      BY <1>1, <1>3, <2>1, LiveIsFresh, StaleRemovalIsNotSeen DEF Reply, Live
<1>4. CASE ~IsFresh(new) /\ IsFresh(old)
  <2>1. /\ out = "Ok"
        /\ records' = [records EXCEPT ![old] = NoRecord, ![new] = records[old]]
        /\ old # new
      BY <1>1, <1>4 DEF ChangeId
  <2>2. /\ Loaded(old)' = NoRecord
        /\ Loaded(new)' = records[old]
        /\ \A k \in Ids \ {old, new} : Loaded(k)' = Loaded(k)
      BY <1>4, <2>1 DEF StoreTypeOK, Loaded, IsFresh, IsStored
  <2>3. Live' = [Live EXCEPT ![old] = NoRecord, ![new] = records[old]]
      BY <2>1, <2>2 DEF Live
  <2> QED
      BY <1>1, <1>4, <2>1, <2>3, LiveIsFresh DEF Reply, Live
<1> QED
    BY <1>2, <1>3, <1>4

LEMMA ElapseRefines ==
    ASSUME StoreTypeOK, TimePasses
    PROVE  Contract!Elapse
<1>1. ASSUME NEW k \in Ids
      PROVE  Loaded(k)' = IF Live[k] # NoRecord /\ Live[k].life > 1
                          THEN [Live[k] EXCEPT !.life = @ - 1]
                          ELSE NoRecord
  <2>1. CASE IsFresh(k)
    <3>1. /\ records[k] \in Records /\ records[k].life \in Nat \ {0}
          /\ Live[k] = records[k] /\ Live[k] # NoRecord
        BY <2>1, LiveIsFresh, MaxTtlAssumption DEF StoreTypeOK, IsFresh, IsStored, Records
    <3>2. records'[k] = [records[k] EXCEPT !.life = @ - 1]
        BY <2>1 DEF TimePasses, Elapse
    <3>3. records'[k].life = records[k].life - 1 /\ records'[k] # NoRecord
        BY <3>1, <3>2, NoRecordAssumption, MaxTtlAssumption DEF Records
    <3> QED
        BY <3>1, <3>2, <3>3 DEF Loaded, IsFresh, IsStored
  <2>2. CASE ~IsFresh(k)
    <3>1. records'[k] = records[k] /\ Live[k] = NoRecord
        BY <2>2, LiveIsFresh DEF TimePasses, Elapse
    <3> QED
        BY <2>2, <3>1 DEF Loaded, IsFresh, IsStored
  <2> QED
      BY <2>1, <2>2
<1> QED
    BY <1>1 DEF TimePasses, Contract!Elapse, Contract!Exists, Live

LEMMA CollectRefines ==
    ASSUME StoreTypeOK, CollectExpired
    PROVE  UNCHANGED <<Live, reply>>
<1>1. PICK victims \in SUBSET {i \in Ids : IsStale(i)} :
        records' = [i \in Ids |-> IF i \in victims THEN NoRecord ELSE records[i]]
    BY DEF CollectExpired, DeleteExpired
<1>2. \A k \in Ids : Loaded(k)' = Loaded(k)
    BY <1>1 DEF Loaded, IsFresh, IsStored, IsStale
<1> QED
    BY <1>2 DEF Live, CollectExpired

---------------------------------------------------------------------------

\* The records of the backend are well typed at all times; in particular no
\* operation leaves a record with more time than it was given.
THEOREM StoreTypeCorrect == Spec => []StoreTypeOK
<1>1. Init => StoreTypeOK
    BY DEF Init, StoreInit, StoreTypeOK
<1> QED
    BY <1>1, StoreTypeStep, PTL DEF Spec

\* No caller can tell the in-memory backend from the contract of the trait:
\* not by the stale entries it keeps, overwrites, drops as a side effect of a
\* failed call or collects in batches (every method of InMemorySessionStore).
THEOREM BackendImplementsContract == Spec => ImplementsContract
<1>1. Init => Contract!Init
    BY DEF Init, StoreInit, Contract!Init, Loaded, IsFresh, IsStored
<1>2. ASSUME StoreTypeOK, [Next]_svars
      PROVE  [Contract!Next]_(Contract!vars)
  <2> USE DEF Contract!Next
  <2>1. ASSUME NEW id \in Ids, NEW state \in SUBSET Keys, NEW ttl \in 1..MaxTtl,
               CallCreate(id, state, ttl) \/ CallUpdate(id, state, ttl)
        PROVE  Contract!Next
      BY <1>2, <2>1, CreateRefines, UpdateRefines
  <2>2. ASSUME NEW id \in Ids, NEW ttl \in 1..MaxTtl, CallUpdateTtl(id, ttl)
        PROVE  Contract!Next
      BY <1>2, <2>2, UpdateTtlRefines
  <2>3. ASSUME NEW id \in Ids, CallLoad(id) \/ CallDelete(id)
        PROVE  Contract!Next
      BY <1>2, <2>3, LoadRefines, DeleteRefines
  <2>4. ASSUME NEW old \in Ids, NEW new \in Ids, CallChangeId(old, new)
        PROVE  Contract!Next
      BY <1>2, <2>4, ChangeIdRefines
  <2>5. CASE CollectExpired
      BY <1>2, <2>5, CollectRefines DEF Contract!vars, Live
  <2>6. CASE TimePasses
      BY <1>2, <2>6, ElapseRefines
  <2>7. CASE UNCHANGED svars
      BY <2>7, NothingIsSeen DEF svars, Contract!vars, Live
  <2> QED
      BY <1>2, <2>1, <2>2, <2>3, <2>4, <2>5, <2>6, <2>7 DEF Next
<1> QED
    BY <1>1, <1>2, StoreTypeCorrect, PTL DEF Spec, ImplementsContract, Contract!Spec
===========================================================================
