------------------------------- MODULE Server -------------------------------
(***************************************************************************)
(* The HTTP server (pavex::server): an acceptor thread, worker threads,    *)
(* and callers that hold a ServerHandle.                                   *)
(*                                                                         *)
(* The acceptor takes commands from a bounded channel and connections from *)
(* its listeners, and offers each connection to the workers in turn.  A    *)
(* worker has a bounded inbox of connections and an unbounded one for the  *)
(* shutdown command; it serves the connections it took as local tasks.     *)
(*                                                                         *)
(* The acceptor and its listener tasks share one single-threaded runtime:  *)
(* while the acceptor dispatches or shuts down no listener runs.  Workers  *)
(* and callers are threads of their own and interleave with every step.    *)
(* What a worker finds in its inboxes is looked at in the order of the     *)
(* code: the shutdown command first.                                       *)
(***************************************************************************)
EXTENDS Naturals, Sequences, FiniteSets

CONSTANTS
    Conns,            \* clients, each with at most one connection at a time
    Callers,          \* holders of a clone of the ServerHandle
    Listeners,        \* the sockets the server listens to
    NWorkers,         \* worker threads
    QueueLength,      \* capacity of a worker's inbox (15 in the code)
    CommandCapacity,  \* capacity of the command channel (32 in the code)
    NoConn,           \* a listener without an accepted connection
    NoCommand,        \* no shutdown has been received
    Faults            \* what may go wrong: "crash", "listener", "restart"

ASSUME ServerAssumption ==
    /\ NWorkers \in Nat \ {0}
    /\ QueueLength \in Nat \ {0}
    /\ CommandCapacity \in Nat \ {0}
    /\ NoConn \notin Conns
    /\ NoCommand \notin [caller : Callers, mode : {"Graceful", "Forced"}]
    /\ Faults \subseteq {"crash", "listener", "restart"}

Workers == 0..(NWorkers - 1)
Modes == {"Graceful", "Forced"}
Commands == [caller : Callers, mode : Modes]

VARIABLES
    calls,        \* caller -> where its call stands
    commands,     \* command_inbox: who asks for a shutdown, and how
    acceptor,     \* what the acceptor thread is doing
    executing,    \* the shutdown the acceptor executes, or has executed
    accepted,     \* listener -> the connection its task returned, not yet taken
    inHand,       \* the connection the acceptor is dispatching
    tries,        \* how many workers it has offered that connection to
    next_worker,  \* the worker it turns to next
    thread,       \* worker -> state of its thread
    inbox,        \* worker -> connection_inbox
    told,         \* worker -> the content of shutdown_inbox
    open,         \* worker -> the connections it is serving
    conn,         \* the connection of a client, or what became of it
    refusals,     \* history: how each worker refused the connection in hand
    expired       \* history: the timeout of a graceful shutdown has passed

acceptorVars == <<acceptor, executing, accepted, inHand, tries, next_worker>>
workerVars == <<thread, inbox, told, open>>
history == <<refusals, expired>>
vars == <<calls, commands, acceptorVars, workerVars, conn, history>>

Elements(s) == {s[i] : i \in 1..Len(s)}
InboxOf(w) == Elements(inbox[w])

Become(cs, status) ==
    conn' = [c \in Conns |-> IF c \in cs THEN status ELSE conn[c]]

NoneAccepted == [l \in Listeners |-> NoConn]
Accepted == {accepted[l] : l \in Listeners}

NoRefusals == [w \in Workers |-> "none"]

Init ==
    /\ calls = [k \in Callers |-> "idle"]
    /\ commands = <<>>
    /\ acceptor = "accepting"
    /\ executing = NoCommand
    /\ accepted = NoneAccepted
    /\ inHand = NoConn
    /\ tries = 0
    /\ next_worker = 0
    /\ thread = [w \in Workers |-> "running"]
    /\ inbox = [w \in Workers |-> <<>>]
    /\ told = [w \in Workers |-> "nothing"]
    /\ open = [w \in Workers |-> {}]
    /\ conn = [c \in Conns |-> "closed"]
    /\ refusals = NoRefusals
    /\ expired = FALSE

---------------------------------------------------------------------------
(* The callers of ServerHandle::shutdown, and those that await the handle. *)

Call(k) ==
    /\ calls[k] = "idle"
    /\ calls' = [calls EXCEPT ![k] = "sending"]
    /\ UNCHANGED <<commands, acceptorVars, workerVars, conn, history>>

\* send().await: it waits for room in the channel.  It fails if the acceptor
\* has ended, and then there is nothing left to do; an acceptor that is about
\* to end still lets it in.
Send(k, mode) ==
    /\ calls[k] = "sending"
    /\ \/ /\ acceptor = "exited"
          /\ calls' = [calls EXCEPT ![k] = "returned"]
          /\ UNCHANGED commands
       \/ /\ acceptor # "exited"
          /\ Len(commands) < CommandCapacity
          /\ calls' = [calls EXCEPT ![k] = "waiting"]
          /\ commands' = Append(commands, [caller |-> k, mode |-> mode])
    /\ UNCHANGED <<acceptorVars, workerVars, conn, history>>

\* server_handle.await: it returns when the command channel is closed.
Join(k) ==
    /\ \/ /\ calls[k] = "idle"
          /\ calls' = [calls EXCEPT ![k] = "joining"]
       \/ /\ calls[k] = "joining"
          /\ acceptor = "exited"
          /\ calls' = [calls EXCEPT ![k] = "returned"]
    /\ UNCHANGED <<commands, acceptorVars, workerVars, conn, history>>

---------------------------------------------------------------------------
(* The acceptor.                                                           *)

\* A client connects, again perhaps, and the task of a listener accepts the
\* connection.  The next task for that listener is spawned when the acceptor
\* takes this one.
Connect(c, l) ==
    /\ acceptor = "accepting"
    /\ accepted[l] = NoConn
    /\ conn[c] \in {"closed", "dropped"}
    /\ accepted' = [accepted EXCEPT ![l] = c]
    /\ conn' = [conn EXCEPT ![c] = "accepted"]
    /\ UNCHANGED <<calls, commands, acceptor, executing, inHand, tries,
                   next_worker, workerVars, history>>

\* Mutant of TakeAccepted: one worker too few is tried.
TakeAcceptedCountingFromOne(l) ==
    /\ acceptor = "accepting"
    /\ commands = <<>>
    /\ accepted[l] # NoConn
    /\ acceptor' = "dispatching"
    /\ inHand' = accepted[l]
    /\ accepted' = [accepted EXCEPT ![l] = NoConn]
    /\ tries' = 1
    /\ refusals' = NoRefusals
    /\ UNCHANGED <<calls, commands, executing, next_worker, workerVars, conn,
                   expired>>

\* Mutant of TakeAccepted: no priority for commands.
TakeAcceptedAtAnyTime(l) ==
    /\ acceptor = "accepting"
    /\ accepted[l] # NoConn
    /\ acceptor' = "dispatching"
    /\ inHand' = accepted[l]
    /\ accepted' = [accepted EXCEPT ![l] = NoConn]
    /\ tries' = 0
    /\ refusals' = NoRefusals
    /\ UNCHANGED <<calls, commands, executing, next_worker, workerVars, conn,
                   expired>>

\* Commands have priority over connections.
TakeAccepted(l) ==
    /\ acceptor = "accepting"
    /\ commands = <<>>
    /\ accepted[l] # NoConn
    /\ acceptor' = "dispatching"
    /\ inHand' = accepted[l]
    /\ accepted' = [accepted EXCEPT ![l] = NoConn]
    /\ tries' = 0
    /\ refusals' = NoRefusals
    /\ UNCHANGED <<calls, commands, executing, next_worker, workerVars, conn,
                   expired>>

\* The connection in hand is done with.
BackToAccepting ==
    /\ acceptor' = "accepting"
    /\ inHand' = NoConn
    /\ tries' = 0
    /\ refusals' = NoRefusals
    /\ UNCHANGED <<calls, commands, executing, accepted, thread, told, open,
                   expired>>

\* Mutant of DispatchSucceeds: the inbox takes one connection too many.
DispatchSucceedsOverfilling ==
    LET w == next_worker IN
    /\ acceptor = "dispatching"
    /\ tries < NWorkers
    /\ thread[w] # "gone"
    /\ Len(inbox[w]) <= QueueLength
    /\ inbox' = [inbox EXCEPT ![w] = Append(@, inHand)]
    /\ conn' = [conn EXCEPT ![inHand] = "queued"]
    /\ UNCHANGED next_worker
    /\ BackToAccepting

\* The worker has room: next_worker stays where it is.
DispatchSucceeds ==
    LET w == next_worker IN
    /\ acceptor = "dispatching"
    /\ tries < NWorkers
    /\ thread[w] # "gone"
    /\ Len(inbox[w]) < QueueLength
    /\ inbox' = [inbox EXCEPT ![w] = Append(@, inHand)]
    /\ conn' = [conn EXCEPT ![inHand] = "queued"]
    /\ UNCHANGED next_worker
    /\ BackToAccepting

\* The worker refuses the connection: its inbox is full, or its thread has
\* crashed and is replaced by a new one.  The acceptor turns to the next.  A
\* thread that is still unwinding may have kept its inbox: it is offered
\* connections like any other.
DispatchFails ==
    LET w == next_worker IN
    /\ acceptor = "dispatching"
    /\ tries < NWorkers
    /\ \/ /\ thread[w] # "gone"
          /\ Len(inbox[w]) >= QueueLength
          /\ refusals' = [refusals EXCEPT ![w] = "full"]
          /\ UNCHANGED <<thread, inbox>>
       \/ /\ thread[w] = "gone"
          /\ refusals' = [refusals EXCEPT ![w] = "crashed"]
          /\ thread' = [thread EXCEPT ![w] = "running"]
          /\ inbox' = [inbox EXCEPT ![w] = <<>>]
    /\ tries' = tries + 1
    /\ next_worker' = (next_worker + 1) % NWorkers
    /\ UNCHANGED <<calls, commands, acceptor, executing, accepted, inHand,
                   told, open, conn, expired>>

\* All workers have been tried: the connection is dropped.
GiveUp ==
    /\ acceptor = "dispatching"
    /\ tries = NWorkers
    /\ conn' = [conn EXCEPT ![inHand] = "dropped"]
    /\ UNCHANGED <<next_worker, inbox>>
    /\ BackToAccepting

\* The restart of a crashed worker fails, and the acceptor panics on it: the
\* thread unwinds.
RestartFails ==
    /\ "restart" \in Faults
    /\ acceptor = "dispatching"
    /\ tries < NWorkers
    /\ thread[next_worker] = "gone"
    /\ acceptor' = "leaving"
    /\ UNCHANGED <<calls, commands, executing, accepted, inHand, tries,
                   next_worker, workerVars, conn, history>>

\* The task of a listener is cancelled or panics: the acceptor leaves its
\* loop.  Nobody tells the workers.
ListenerFails(l) ==
    /\ "listener" \in Faults
    /\ acceptor = "accepting"
    /\ commands = <<>>
    /\ accepted[l] = NoConn
    /\ acceptor' = "leaving"
    /\ UNCHANGED <<calls, commands, executing, accepted, inHand, tries,
                   next_worker, workerVars, conn, history>>

\* Mutant of ReceiveCommand: the command reaches the workers only when
\* somebody waits for them.
ReceiveCommandLazily ==
    /\ acceptor = "accepting"
    /\ commands # <<>>
    /\ acceptor' = "stopping"
    /\ executing' = Head(commands)
    /\ commands' = Tail(commands)
    /\ accepted' = NoneAccepted
    /\ Become(Accepted, "dropped")
    /\ told' = [w \in Workers |->
                  IF thread[w] = "running" /\ Head(commands).mode = "Graceful"
                  THEN "Graceful" ELSE told[w]]
    /\ UNCHANGED <<calls, inHand, tries, next_worker, thread, inbox, open,
                   history>>

\* The beginning of Acceptor::shutdown.  The listeners are dropped, and with
\* them the connections that were accepted and not yet taken.  The command is
\* put into the inbox of every worker that runs; a worker that is told later
\* than another merely looks slower.  What an unwinding worker is told goes
\* with its inbox, and the acceptor does not wait for it.
ReceiveCommand ==
    /\ acceptor = "accepting"
    /\ commands # <<>>
    /\ acceptor' = "stopping"
    /\ executing' = Head(commands)
    /\ commands' = Tail(commands)
    /\ accepted' = NoneAccepted
    /\ Become(Accepted, "dropped")
    /\ told' = [w \in Workers |-> IF thread[w] = "running"
                                  THEN Head(commands).mode ELSE told[w]]
    /\ UNCHANGED <<calls, inHand, tries, next_worker, thread, inbox, open,
                   history>>

\* The acceptor tells the caller that the server has stopped, and leaves.
Notify ==
    /\ acceptor' = "leaving"
    /\ calls' = [calls EXCEPT ![executing.caller] = "returned"]
    /\ UNCHANGED <<commands, executing, accepted, inHand, tries, next_worker,
                   workerVars, conn, refusals>>

\* Mutant of WorkersDone: one worker is enough.
SomeWorkerDone == \E w \in Workers : told[w] = "nothing"

\* The join set of the workers' shutdown futures is empty: the command of
\* each has been carried out, or dropped.
WorkersDone == \A w \in Workers : told[w] = "nothing"

\* A forced shutdown waits for nobody, a graceful one for every worker.
FinishShutdown ==
    /\ acceptor = "stopping"
    /\ executing.mode = "Forced" \/ WorkersDone
    /\ Notify
    /\ UNCHANGED expired

\* The timeout of the graceful shutdown fires in the acceptor.
ShutdownTimesOut ==
    /\ acceptor = "stopping"
    /\ executing.mode = "Graceful"
    /\ Notify
    /\ expired' = TRUE

\* The acceptor thread ends.  Its end of the command channel goes, and with
\* it every queued command: those callers return.  So do the listeners and
\* the connection in hand, if it left for want of a thread or a listener.
Exit ==
    /\ acceptor = "leaving"
    /\ acceptor' = "exited"
    /\ commands' = <<>>
    /\ calls' = [k \in Callers |->
                   IF \E i \in 1..Len(commands) : commands[i].caller = k
                   THEN "returned" ELSE calls[k]]
    /\ accepted' = NoneAccepted
    /\ inHand' = NoConn
    /\ Become(Accepted \cup {inHand}, "dropped")
    /\ UNCHANGED <<executing, tries, next_worker, workerVars, history>>

---------------------------------------------------------------------------
(* The workers.                                                            *)

\* Mutant of TakeConnection: connections are served one after the other, in
\* the event loop of the worker.
TakeConnectionWhenIdle(w) ==
    /\ thread[w] = "running"
    /\ told[w] = "nothing"
    /\ inbox[w] # <<>>
    /\ open[w] = {}
    /\ inbox' = [inbox EXCEPT ![w] = Tail(@)]
    /\ open' = [open EXCEPT ![w] = @ \cup {Head(inbox[w])}]
    /\ Become({Head(inbox[w])}, "open")
    /\ UNCHANGED <<calls, commands, acceptorVars, thread, told, history>>

\* The connection becomes a task of its own.
TakeConnection(w) ==
    /\ thread[w] = "running"
    /\ told[w] = "nothing"
    /\ inbox[w] # <<>>
    /\ inbox' = [inbox EXCEPT ![w] = Tail(@)]
    /\ open' = [open EXCEPT ![w] = @ \cup {Head(inbox[w])}]
    /\ Become({Head(inbox[w])}, "open")
    /\ UNCHANGED <<calls, commands, acceptorVars, thread, told, history>>

\* Mutant of StartDraining: the inbox is closed and not emptied.
StartDrainingOpenOnly(w) ==
    /\ thread[w] = "running"
    /\ told[w] = "Graceful"
    /\ thread' = [thread EXCEPT ![w] = "draining"]
    /\ inbox' = [inbox EXCEPT ![w] = <<>>]
    /\ UNCHANGED <<calls, commands, acceptorVars, told, open, conn, history>>

\* Graceful: the inbox is closed, and every connection in it is taken on.
StartDraining(w) ==
    /\ thread[w] = "running"
    /\ told[w] = "Graceful"
    /\ thread' = [thread EXCEPT ![w] = "draining"]
    /\ inbox' = [inbox EXCEPT ![w] = <<>>]
    /\ open' = [open EXCEPT ![w] = @ \cup InboxOf(w)]
    /\ Become(InboxOf(w), "open")
    /\ UNCHANGED <<calls, commands, acceptorVars, told, history>>

\* The worker notifies the acceptor.  Its loop is over; nothing of what it
\* still has makes progress any more.
Signal(w) ==
    /\ thread' = [thread EXCEPT ![w] = "signalled"]
    /\ told' = [told EXCEPT ![w] = "nothing"]
    /\ UNCHANGED <<calls, commands, acceptorVars, inbox, open, conn, refusals>>

ForcedStop(w) ==
    /\ thread[w] = "running"
    /\ told[w] = "Forced"
    /\ Signal(w)
    /\ UNCHANGED expired

\* All live connections have been closed.
Drained(w) ==
    /\ thread[w] = "draining"
    /\ open[w] = {}
    /\ Signal(w)
    /\ UNCHANGED expired

\* The timeout of the graceful shutdown fires in the worker.
DrainTimesOut(w) ==
    /\ thread[w] = "draining"
    /\ open[w] # {}
    /\ Signal(w)
    /\ expired' = TRUE

\* A connection comes to its end, whoever ends it.
Close(w, c) ==
    /\ thread[w] \in {"running", "draining"}
    /\ c \in open[w]
    /\ open' = [open EXCEPT ![w] = @ \ {c}]
    /\ Become({c}, "closed")
    /\ UNCHANGED <<calls, commands, acceptorVars, thread, inbox, told, history>>

\* The worker's own task panics: it clones the application state, the
\* application's code, for a connection it takes, or it has just been started
\* and finds no runtime.  The thread unwinds, its shutdown inbox first.
Crash(w) ==
    /\ "crash" \in Faults
    /\ thread[w] = "running"
    /\ inbox[w] # <<>> \/ open[w] = {}
    /\ thread' = [thread EXCEPT ![w] = "unwinding"]
    /\ told' = [told EXCEPT ![w] = "nothing"]
    /\ UNCHANGED <<calls, commands, acceptorVars, inbox, open, conn, history>>

\* The thread ends: its connections and its local tasks are dropped.  They
\* are cut by a worker that stopped, dropped by one that crashed.
EndThread(w) ==
    /\ thread[w] \in {"signalled", "unwinding"}
    /\ thread' = [thread EXCEPT ![w] = "gone"]
    /\ inbox' = [inbox EXCEPT ![w] = <<>>]
    /\ open' = [open EXCEPT ![w] = {}]
    /\ Become(InboxOf(w) \cup open[w],
              IF thread[w] = "signalled" THEN "cut" ELSE "dropped")
    /\ UNCHANGED <<calls, commands, acceptorVars, told, history>>

---------------------------------------------------------------------------

AcceptorStep ==
    \/ \E l \in Listeners : TakeAccepted(l)
    \/ DispatchSucceeds \/ DispatchFails \/ GiveUp
    \/ ReceiveCommand \/ FinishShutdown \/ Exit

WorkerStep(w) ==
    \/ TakeConnection(w) \/ StartDraining(w) \/ ForcedStop(w) \/ Drained(w)
    \/ EndThread(w)

\* Everything has stopped and every call has returned.  If the acceptor has
\* left without a shutdown its workers remain: nobody can tell them.
Stopped ==
    /\ acceptor = "exited"
    /\ executing = NoCommand \/ \A w \in Workers : thread[w] = "gone"
    /\ \A k \in Callers : calls[k] = "returned"
    /\ UNCHANGED vars

Next ==
    \/ \E k \in Callers :
          \/ Call(k) \/ Join(k)
          \/ \E mode \in Modes : Send(k, mode)
    \/ \E l \in Listeners :
          (\E c \in Conns : Connect(c, l)) \/ ListenerFails(l)
    \/ AcceptorStep
    \/ ShutdownTimesOut \/ RestartFails
    \/ \E w \in Workers :
          \/ WorkerStep(w) \/ DrainTimesOut(w) \/ Crash(w)
          \/ \E c \in Conns : Close(w, c)
    \/ Stopped

\* The threads are scheduled and the timers fire.  Nothing makes anybody
\* call, connect, fail, or finish with a connection.
Fairness ==
    /\ WF_vars(AcceptorStep)
    /\ WF_vars(ShutdownTimesOut)
    /\ \A w \in Workers : WF_vars(WorkerStep(w)) /\ WF_vars(DrainTimesOut(w))
    /\ \A k \in Callers : WF_vars(\E mode \in Modes : Send(k, mode))

Spec == Init /\ [][Next]_vars /\ Fairness

---------------------------------------------------------------------------
(* Properties.                                                             *)

Stages == {"idle", "sending", "waiting", "joining", "returned"}
Fates == {"closed", "accepted", "queued", "open", "dropped", "cut"}
ThreadStates == {"running", "draining", "signalled", "unwinding", "gone"}

\* The type invariant of the server: no inbox and no channel ever holds more
\* than its capacity.
TypeOK ==
    /\ calls \in [Callers -> Stages]
    /\ commands \in Seq(Commands) /\ Len(commands) <= CommandCapacity
    /\ acceptor \in {"accepting", "dispatching", "stopping", "leaving", "exited"}
    /\ executing \in Commands \cup {NoCommand}
    /\ accepted \in [Listeners -> Conns \cup {NoConn}]
    /\ inHand \in Conns \cup {NoConn}
    /\ tries \in 0..NWorkers
    /\ next_worker \in Workers
    /\ thread \in [Workers -> ThreadStates]
    /\ inbox \in [Workers -> Seq(Conns)]
    /\ \A w \in Workers : Len(inbox[w]) <= QueueLength
    /\ told \in [Workers -> Modes \cup {"nothing"}]
    /\ open \in [Workers -> SUBSET Conns]
    /\ conn \in [Conns -> Fates]
    /\ refusals \in [Workers -> {"none", "full", "crashed"}]
    /\ expired \in BOOLEAN

\* The acceptor goes back to accepting without having handed the connection
\* to a worker only after every worker has refused it, because its inbox was
\* full or its thread dead: while the workers change under the acceptor's
\* hands, the loop of Acceptor::run leaves none out.
RefusedOnlyByAll ==
    [][acceptor = "dispatching" /\ acceptor' = "accepting"
          /\ conn'[inHand] # "queued" =>
             \A w \in Workers : refusals[w] # "none"]_vars

GracefulInTime ==
    executing # NoCommand /\ executing.mode = "Graceful" /\ ~expired

\* A graceful shutdown that ends before its timeout cuts no connection a
\* worker was given, the queued ones included: when its caller is notified no
\* worker has one left in its inbox or open, unless its thread is unwinding
\* from a panic; what such a worker has is dropped, in any shutdown (the Graceful
\* arm of Worker::run, and Acceptor::shutdown).
GracefulServes ==
    GracefulInTime => \A c \in Conns :
        /\ conn[c] # "cut"
        /\ acceptor \in {"leaving", "exited"} /\ conn[c] \in {"queued", "open"} =>
              \E w \in Workers : /\ thread[w] = "unwinding"
                                 /\ c \in InboxOf(w) \cup open[w]

\* Whoever returns from shutdown or from awaiting the handle finds that the
\* acceptor has left and holds no connection, and, if a graceful shutdown was
\* executed in time, that no worker serves or takes any.  Only the caller
\* whose command was executed may return before the acceptor has ended: the
\* callers whose commands are dropped with the channel, and those that await
\* the handle, do not (ServerHandle::shutdown, IntoFuture).
ReturnedMeansStopped ==
    \A k \in Callers : calls[k] = "returned" =>
        /\ acceptor = "exited" \/ (acceptor = "leaving" /\ k = executing.caller)
        /\ inHand = NoConn /\ accepted = NoneAccepted
        /\ GracefulInTime =>
              \A w \in Workers : thread[w] \notin {"running", "draining"}

\* Every call of shutdown returns, even when several race, when the workers
\* or the acceptor fail meanwhile, or when connections keep coming
\* (ServerHandle::shutdown).
ShutdownReturns ==
    \A k \in Callers :
        calls[k] \in {"sending", "waiting"} ~> calls[k] = "returned"

\* After a shutdown every worker ends, although nobody waits for them in a
\* forced one (WorkerHandle::shutdown enqueues the command "even if the
\* returned future is never polled").  Without one, when the acceptor fails,
\* they stay.
WorkersStop ==
    acceptor = "exited" /\ executing # NoCommand
        ~> \A w \in Workers : thread[w] = "gone"

\* No connection stays in the inbox of a worker for good, whatever happens
\* to the worker.
NothingIsStuck ==
    \A c \in Conns : conn[c] = "queued" ~> conn[c] # "queued"
=============================================================================
