----------------------------- MODULE StateFile -----------------------------
(***************************************************************************)
(* The state file of the pavex command line tool (pavex_cli::state, on top *)
(* of the file locks of pavex_cli_flock).                                  *)
(*                                                                         *)
(* Several processes read and update one TOML document with two optional   *)
(* fields.  A process opens the file, takes an advisory lock, shared to    *)
(* read and exclusive to update, reads the document, perhaps writes it,    *)
(* and releases the lock; other processes run in between, and a process    *)
(* may die at any point.                                                   *)
(*                                                                         *)
(* A write goes where the read has left the file position: at the start    *)
(* only if the file was empty.  Written after an earlier document, or      *)
(* after the hole that a truncation left, the text repeats keys or begins  *)
(* with NUL bytes, and no longer parses: the file is then Corrupt.         *)
(***************************************************************************)
EXTENDS Naturals

CONSTANTS
    Procs,        \* processes of the tool
    Versions,     \* toolchain versions
    Keys,         \* activation keys
    Unset,        \* an optional field without a value
    Corrupt,      \* a content that does not parse
    Faults        \* what may happen to a process: "kill"

Documents == [toolchain : Versions \cup {Unset}, activation_key : Keys \cup {Unset}]

\* No file, and a file without content, read as StateInner::default().
Empty == [toolchain |-> Unset, activation_key |-> Unset]

Updates == [field : {"toolchain"}, value : Versions]
              \cup [field : {"activation_key"}, value : Keys]
Reading == [field |-> "none", value |-> Unset]

VARIABLES
    file,      \* the content of state.toml: a document, or Corrupt
    op,        \* process -> what it is about to do
    pc,        \* process -> where it stands
    seen,      \* process -> what it has read under its lock
    result,    \* process -> how its last call ended
    saved      \* history: what the updates so far amount to

vars == <<file, op, pc, seen, result, saved>>

Init ==
    /\ file = Empty
    /\ op = [p \in Procs |-> Reading]
    /\ pc = [p \in Procs |-> "idle"]
    /\ seen = [p \in Procs |-> Empty]
    /\ result = [p \in Procs |-> "none"]
    /\ saved = Empty

Updating(p) == op[p] # Reading
Locked(p) == pc[p] \in {"locked", "read"}

\* open_ro_shared_create: the file is created if need be, and left alone.
OpenToRead(p) ==
    /\ pc[p] = "idle"
    /\ pc' = [pc EXCEPT ![p] = "opened"]
    /\ op' = [op EXCEPT ![p] = Reading]
    /\ UNCHANGED <<file, seen, result, saved>>

\* open_rw_exclusive_create: the file is opened, and truncated, before the
\* lock is asked for.
OpenToUpdate(p, update) ==
    /\ pc[p] = "idle"
    /\ pc' = [pc EXCEPT ![p] = "opened"]
    /\ op' = [op EXCEPT ![p] = update]
    /\ file' = Empty
    /\ UNCHANGED <<seen, result, saved>>

\* acquire: it blocks while another process holds a lock that conflicts.
Lock(p) ==
    /\ pc[p] = "opened"
    /\ \A q \in Procs : Locked(q) => ~Updating(p) /\ ~Updating(q)
    /\ pc' = [pc EXCEPT ![p] = "locked"]
    /\ UNCHANGED <<file, op, seen, result, saved>>

\* The lock goes when the call returns and the FileLock is dropped.
Return(p, outcome) ==
    /\ pc' = [pc EXCEPT ![p] = "idle"]
    /\ result' = [result EXCEPT ![p] = outcome]

\* _read: a document that does not parse ends the call, an update included.
Read(p) ==
    /\ pc[p] = "locked"
    /\ IF file = Corrupt
       THEN /\ Return(p, "CannotParse")
            /\ UNCHANGED seen
       ELSE /\ seen' = [seen EXCEPT ![p] = file]
            /\ pc' = [pc EXCEPT ![p] = "read"]
            /\ UNCHANGED result
    /\ UNCHANGED <<file, op, saved>>

Updated(document, update) == [document EXCEPT ![update.field] = update.value]

\* set_activation_key always writes; set_current_toolchain only writes if
\* there is something to change.
Finish(p) ==
    /\ pc[p] = "read"
    /\ IF Updating(p) /\ ~(op[p].field = "toolchain" /\ seen[p].toolchain = op[p].value)
       THEN /\ file' = IF seen[p] = Empty THEN Updated(seen[p], op[p]) ELSE Corrupt
            /\ saved' = Updated(saved, op[p])
       ELSE UNCHANGED <<file, saved>>
    /\ Return(p, "Ok")
    /\ UNCHANGED <<op, seen>>

\* The process is killed; the kernel releases its lock.
Kill(p) ==
    /\ "kill" \in Faults
    /\ pc[p] # "idle"
    /\ Return(p, "killed")
    /\ UNCHANGED <<file, op, seen, saved>>

Next ==
    \E p \in Procs :
        \/ OpenToRead(p)
        \/ \E update \in Updates : OpenToUpdate(p, update)
        \/ Lock(p) \/ Read(p) \/ Finish(p) \/ Kill(p)

Spec == Init /\ [][Next]_vars

---------------------------------------------------------------------------
(* Properties.                                                             *)

\* "Use this when you need to read the current state and update it
\* atomically" (read_for_update): an update that succeeds changes its own
\* field, and what earlier updates have set stays in the file.
UpdatesAreAtomic ==
    [][\A p \in Procs :
          Updating(p) /\ pc[p] = "read" /\ pc'[p] = "idle" /\ result'[p] = "Ok"
             => file' = Updated(saved, op[p])]_vars
=============================================================================
