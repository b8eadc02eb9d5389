---------------------------- MODULE MemoryStore ----------------------------
(***************************************************************************)
(* The in-memory session storage backend (pavex_session_memory_store).     *)
(*                                                                         *)
(* The backend is a HashMap behind a mutex: every operation of the         *)
(* SessionStorageBackend trait locks the map for its whole duration, so    *)
(* every operation is one atomic action here.  An operation takes, besides *)
(* its arguments, the outcome it returns: the action is enabled exactly    *)
(* for the outcome the code computes.                                      *)
(*                                                                         *)
(* Time.  The code stores a deadline and compares it with the clock.  The  *)
(* model stores the time a record has left, in units, and Elapse lets one  *)
(* unit go by for all records at once.  A record whose deadline has passed *)
(* (life = 0) is stale: it stays in the map until an operation removes or  *)
(* overwrites it, and every operation treats it as absent.                 *)
(***************************************************************************)
EXTENDS Naturals, FiniteSets

CONSTANTS
    Ids,       \* session ids
    Keys,      \* keys of the server-side state
    MaxTtl,    \* time-to-live of a fresh record, in units
    NoRecord   \* stands for "no record is stored against this id"

\* The state of a session is the set of keys it holds: which value a key has
\* is never looked at by the store nor by the session machinery.
Records == [state : SUBSET Keys, life : 0..MaxTtl]

ASSUME MaxTtlAssumption == MaxTtl \in Nat \ {0}
ASSUME NoRecordAssumption == NoRecord \notin Records

VARIABLE
    records    \* the HashMap: session id -> record

StoreTypeOK == records \in [Ids -> Records \cup {NoRecord}]

StoreInit == records = [i \in Ids |-> NoRecord]

---------------------------------------------------------------------------
(* What a lookup finds.                                                    *)

IsStored(i) == records[i] # NoRecord

IsStale(i) == IsStored(i) /\ records[i].life = 0

\* get_mut_if_fresh: a record counts only until its deadline.
IsFresh(i) == IsStored(i) /\ records[i].life > 0

\* What `load` returns: the state and the time left, or nothing.
Loaded(i) == IF IsFresh(i) THEN records[i] ELSE NoRecord

NewRecord(state, ttl) == [state |-> state, life |-> ttl]

---------------------------------------------------------------------------
(* The operations of the trait.                                            *)

\* A stale record under the same id is silently overwritten.
Create(i, state, ttl, outcome) ==
    \/ /\ outcome = "DuplicateId"
       /\ IsFresh(i)
       /\ UNCHANGED records
    \/ /\ outcome = "Ok"
       /\ ~IsFresh(i)
       /\ records' = [records EXCEPT ![i] = NewRecord(state, ttl)]

Update(i, state, ttl, outcome) ==
    \/ /\ outcome = "UnknownId"
       /\ ~IsFresh(i)
       /\ UNCHANGED records
    \/ /\ outcome = "Ok"
       /\ IsFresh(i)
       /\ records' = [records EXCEPT ![i] = NewRecord(state, ttl)]

UpdateTtl(i, ttl, outcome) ==
    \/ /\ outcome = "UnknownId"
       /\ ~IsFresh(i)
       /\ UNCHANGED records
    \/ /\ outcome = "Ok"
       /\ IsFresh(i)
       /\ records' = [records EXCEPT ![i] = [@ EXCEPT !.life = ttl]]

\* The entry goes away even when it is reported as unknown because stale.
Delete(i, outcome) ==
    /\ outcome = IF IsFresh(i) THEN "Ok" ELSE "UnknownId"
    /\ records' = [records EXCEPT ![i] = NoRecord]

\* Mutant of ChangeId: the target is overwritten without a look at it.
ChangeIdOverwriting(old, new, outcome) ==
    \/ /\ outcome = "UnknownId"
       /\ ~IsFresh(old)
       /\ records' = [records EXCEPT ![old] = NoRecord]
    \/ /\ outcome = "Ok"
       /\ IsFresh(old)
       /\ records' = [records EXCEPT ![old] = NoRecord, ![new] = records[old]]

\* The target is checked first; a stale source is dropped; the record keeps
\* its deadline when it moves.
ChangeId(old, new, outcome) ==
    \/ /\ outcome = "DuplicateId"
       /\ IsFresh(new)
       /\ UNCHANGED records
    \/ /\ outcome = "UnknownId"
       /\ ~IsFresh(new)
       /\ ~IsFresh(old)
       /\ records' = [records EXCEPT ![old] = NoRecord]
    \/ /\ outcome = "Ok"
       /\ ~IsFresh(new)
       /\ IsFresh(old)
       /\ records' = [records EXCEPT ![old] = NoRecord, ![new] = records[old]]

\* The stale records one call removes: all of them, or as many as the batch
\* allows, in the arbitrary order of the map.
DeleteExpired(batch) ==
    \E victims \in SUBSET {i \in Ids : IsStale(i)} :
        /\ \/ victims = {i \in Ids : IsStale(i)}
           \/ Cardinality(victims) = batch
        /\ Cardinality(victims) <= batch
        /\ records' = [i \in Ids |-> IF i \in victims THEN NoRecord
                                                        ELSE records[i]]

\* One unit of time goes by.
Elapse ==
    records' = [i \in Ids |->
                  IF IsFresh(i) THEN [records[i] EXCEPT !.life = @ - 1]
                                 ELSE records[i]]
===========================================================================
