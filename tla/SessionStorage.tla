--------------------------- MODULE SessionStorage ---------------------------
(***************************************************************************)
(* What a session storage backend promises to pavex_session: the contract  *)
(* of the SessionStorageBackend trait, with none of a backend's own        *)
(* bookkeeping.  Only live records exist.  A record disappears at the very *)
(* moment its time is over; there is nothing stale to collect.             *)
(*                                                                         *)
(* `reply` is what the last call returned to its caller.                   *)
(***************************************************************************)
EXTENDS Naturals

CONSTANTS Ids, Keys, MaxTtl, NoRecord

VARIABLES
    live,      \* session id -> its live record, or NoRecord
    reply      \* the last reply: operation, id, outcome, record found

vars == <<live, reply>>

LiveRecords == [state : SUBSET Keys, life : 1..MaxTtl]

Reply(op, id, outcome, found) ==
    reply' = [op |-> op, id |-> id, outcome |-> outcome, found |-> found]

Exists(id) == live[id] # NoRecord

Put(id, state, ttl) ==
    live' = [live EXCEPT ![id] = [state |-> state, life |-> ttl]]

Init == /\ live = [id \in Ids |-> NoRecord]
        /\ reply = [op |-> "none"]

---------------------------------------------------------------------------

Create(id, state, ttl) ==
    IF Exists(id)
    THEN /\ Reply("create", id, "DuplicateId", NoRecord)
         /\ UNCHANGED live
    ELSE /\ Reply("create", id, "Ok", NoRecord)
         /\ Put(id, state, ttl)

Update(id, state, ttl) ==
    IF Exists(id)
    THEN /\ Reply("update", id, "Ok", NoRecord)
         /\ Put(id, state, ttl)
    ELSE /\ Reply("update", id, "UnknownId", NoRecord)
         /\ UNCHANGED live

\* It leaves the session state unchanged.
UpdateTtl(id, ttl) ==
    IF Exists(id)
    THEN /\ Reply("update_ttl", id, "Ok", NoRecord)
         /\ Put(id, live[id].state, ttl)
    ELSE /\ Reply("update_ttl", id, "UnknownId", NoRecord)
         /\ UNCHANGED live

Load(id) ==
    /\ Reply("load", id, "Ok", live[id])
    /\ UNCHANGED live

Delete(id) ==
    IF Exists(id)
    THEN /\ Reply("delete", id, "Ok", NoRecord)
         /\ live' = [live EXCEPT ![id] = NoRecord]
    ELSE /\ Reply("delete", id, "UnknownId", NoRecord)
         /\ UNCHANGED live

\* State and remaining time move from one id to the other; a live record is
\* never overwritten.
ChangeId(old, new) ==
    IF Exists(new)
    THEN /\ Reply("change_id", old, "DuplicateId", NoRecord)
         /\ UNCHANGED live
    ELSE IF Exists(old)
    THEN /\ Reply("change_id", old, "Ok", NoRecord)
         /\ live' = [live EXCEPT ![old] = NoRecord, ![new] = live[old]]
    ELSE /\ Reply("change_id", old, "UnknownId", NoRecord)
         /\ UNCHANGED live

\* Time goes by: a record that has used up its time is gone.
Elapse ==
    /\ live' = [id \in Ids |->
                  IF Exists(id) /\ live[id].life > 1
                  THEN [live[id] EXCEPT !.life = @ - 1]
                  ELSE NoRecord]
    /\ UNCHANGED reply

\* delete_expired has no action of its own: nobody can tell that it ran.
Next ==
    \/ \E id \in Ids, state \in SUBSET Keys, ttl \in 1..MaxTtl :
          \/ Create(id, state, ttl)
          \/ Update(id, state, ttl)
    \/ \E id \in Ids, ttl \in 1..MaxTtl : UpdateTtl(id, ttl)
    \/ \E id \in Ids : Load(id) \/ Delete(id)
    \/ \E old, new \in Ids : ChangeId(old, new)
    \/ Elapse

Spec == Init /\ [][Next]_vars
===========================================================================
