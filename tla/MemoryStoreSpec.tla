-------------------------- MODULE MemoryStoreSpec --------------------------
(***************************************************************************)
(* The in-memory backend as a system of its own: any caller may invoke any *)
(* operation of the trait with any arguments, in any order, while time     *)
(* passes and expired records are collected in batches.                    *)
(* `reply` records what the last call returned, so that the whole backend  *)
(* can be compared with the contract of SessionStorage.                    *)
(***************************************************************************)
EXTENDS MemoryStore

CONSTANT BatchSizes   \* the batch sizes delete_expired is called with

ASSUME BatchSizesAssumption == BatchSizes \subseteq Nat \ {0}

VARIABLE reply

svars == <<records, reply>>

Outcomes == {"Ok", "DuplicateId", "UnknownId"}

Reply(op, id, outcome, found) ==
    reply' = [op |-> op, id |-> id, outcome |-> outcome, found |-> found]

Init == /\ StoreInit
        /\ reply = [op |-> "none"]

---------------------------------------------------------------------------

CallCreate(id, state, ttl) ==
    \E out \in Outcomes :
        Create(id, state, ttl, out) /\ Reply("create", id, out, NoRecord)

CallUpdate(id, state, ttl) ==
    \E out \in Outcomes :
        Update(id, state, ttl, out) /\ Reply("update", id, out, NoRecord)

CallUpdateTtl(id, ttl) ==
    \E out \in Outcomes :
        UpdateTtl(id, ttl, out) /\ Reply("update_ttl", id, out, NoRecord)

CallLoad(id) ==
    /\ Reply("load", id, "Ok", Loaded(id))
    /\ UNCHANGED records

CallDelete(id) ==
    \E out \in Outcomes :
        Delete(id, out) /\ Reply("delete", id, out, NoRecord)

CallChangeId(old, new) ==
    \E out \in Outcomes :
        ChangeId(old, new, out) /\ Reply("change_id", old, out, NoRecord)

CollectExpired ==
    /\ \E batch \in BatchSizes : DeleteExpired(batch)
    /\ UNCHANGED reply

TimePasses == Elapse /\ UNCHANGED reply

Next ==
    \/ \E id \in Ids, state \in SUBSET Keys, ttl \in 1..MaxTtl :
          \/ CallCreate(id, state, ttl)
          \/ CallUpdate(id, state, ttl)
    \/ \E id \in Ids, ttl \in 1..MaxTtl : CallUpdateTtl(id, ttl)
    \/ \E id \in Ids : CallLoad(id) \/ CallDelete(id)
    \/ \E old, new \in Ids : CallChangeId(old, new)
    \/ CollectExpired
    \/ TimePasses

Spec == Init /\ [][Next]_svars

---------------------------------------------------------------------------
(* Properties.                                                             *)

\* Only the part of the map that has not expired is visible to callers.
Contract == INSTANCE SessionStorage
                WITH live <- [id \in Ids |-> Loaded(id)]

\* The in-memory backend keeps the contract of the trait: stale entries,
\* overwriting them, dropping them as a side effect of a failed call and
\* collecting them in batches cannot be noticed by any caller.
ImplementsContract == Contract!Spec
===========================================================================
