---------------------------- MODULE Server_proof ----------------------------
(***************************************************************************)
(* Proofs about Server, for any number of workers, clients, callers and    *)
(* listeners, and channels of any capacity.                                *)
(***************************************************************************)
EXTENDS Server, TLAPS

---------------------------------------------------------------------------
(* Types.                                                                  *)

\* Turning to the next worker starts over after the last one.
LEMMA NextWorker ==
    ASSUME NEW w \in Workers
    PROVE  (w + 1) % NWorkers = IF w + 1 = NWorkers THEN 0 ELSE w + 1
<1> USE ServerAssumption DEF Workers
<1>1. w \in Nat /\ w + 1 <= NWorkers /\ NWorkers \in Nat \ {0}
    OBVIOUS
<1>2. CASE w + 1 = NWorkers
    BY <1>1, <1>2
<1>3. CASE w + 1 < NWorkers
    BY <1>1, <1>3
<1> QED
    BY <1>1, <1>2, <1>3

\* What is dispatched is a connection, and the acceptor has its hands free
\* when it is accepting.
HandInv ==
    /\ acceptor = "dispatching" => inHand \in Conns
    /\ acceptor = "accepting" => inHand = NoConn

TypeInv == TypeOK /\ HandInv

\* The steps of the acceptor, of a worker with its connections, and of a
\* caller.
AcceptorMoves ==
    \/ \E l \in Listeners : (\E c \in Conns : Connect(c, l)) \/ ListenerFails(l)
    \/ AcceptorStep \/ ShutdownTimesOut \/ RestartFails

WorkerMoves(w) ==
    \/ WorkerStep(w) \/ DrainTimesOut(w) \/ Crash(w)
    \/ \E c \in Conns : Close(w, c)

CallerMoves(k) == Call(k) \/ Join(k) \/ \E mode \in Modes : Send(k, mode)

LEMMA WhoMoves ==
    ASSUME [Next]_vars
    PROVE  \/ AcceptorMoves
           \/ \E w \in Workers : WorkerMoves(w)
           \/ \E k \in Callers : CallerMoves(k)
           \/ UNCHANGED vars
BY DEF Next, AcceptorMoves, WorkerMoves, CallerMoves, Stopped

\* What callers do leaves acceptor, workers and connections alone.
LEMMA CallersKeepOut ==
    ASSUME NEW k \in Callers, CallerMoves(k)
    PROVE  UNCHANGED <<acceptor, executing, accepted, inHand, tries, next_worker,
                       thread, inbox, told, open, conn, refusals, expired>>
BY DEF CallerMoves, Call, Join, Send, acceptorVars, workerVars, history

\* What workers do leaves callers and acceptor alone.
LEMMA WorkersKeepOut ==
    ASSUME NEW w \in Workers, WorkerMoves(w)
    PROVE  /\ UNCHANGED <<calls, commands, acceptor, executing, accepted, inHand,
                          tries, next_worker, refusals>>
           /\ expired' = expired \/ expired' = TRUE
BY DEF WorkerMoves, WorkerStep, TakeConnection, StartDraining, ForcedStop, Drained,
       DrainTimesOut, Signal, Crash, Close, EndThread, acceptorVars, history

LEMMA TypeInit == Init => TypeInv
<1> SUFFICES ASSUME Init PROVE TypeInv
    OBVIOUS
<1>1. tries \in 0..NWorkers /\ next_worker \in Workers
    BY ServerAssumption DEF Init, Workers
<1>2. commands \in Seq(Commands) /\ Len(commands) <= CommandCapacity
    BY ServerAssumption DEF Init
<1>3. inbox \in [Workers -> Seq(Conns)] /\ \A w \in Workers : Len(inbox[w]) <= QueueLength
    BY ServerAssumption DEF Init
<1> QED
    BY <1>1, <1>2, <1>3 DEF Init, TypeInv, TypeOK, HandInv, Modes, Fates, Stages,
       ThreadStates, NoRefusals, NoneAccepted

\* What callers do keeps the types.
LEMMA CallerTypes ==
    ASSUME TypeInv, NEW k \in Callers, CallerMoves(k)
    PROVE  TypeInv'
<1>1. calls \in [Callers -> Stages] /\ commands \in Seq(Commands) /\ Len(commands) <= CommandCapacity
    BY DEF TypeInv, TypeOK
<1>2. calls' \in [Callers -> Stages]
    BY <1>1 DEF CallerMoves, Call, Join, Send, Stages
<1>3. commands' \in Seq(Commands) /\ Len(commands') <= CommandCapacity
    <2>1. CASE UNCHANGED commands
        BY <1>1, <2>1
    <2>2. ASSUME NEW mode \in Modes,
                 commands' = Append(commands, [caller |-> k, mode |-> mode]),
                 Len(commands) < CommandCapacity
          PROVE  commands' \in Seq(Commands) /\ Len(commands') <= CommandCapacity
        <3>1. [caller |-> k, mode |-> mode] \in Commands
            BY DEF Commands
        <3> QED
            BY <1>1, <2>2, <3>1, ServerAssumption
    <2> QED
        BY <2>1, <2>2 DEF CallerMoves, Call, Join, Send
<1> QED
    BY <1>2, <1>3, CallersKeepOut DEF TypeInv, TypeOK, HandInv

\* What the acceptor does with connections keeps the types.
LEMMA DispatchTypes ==
    ASSUME TypeInv,
           \/ \E c \in Conns, l \in Listeners : Connect(c, l)
           \/ \E l \in Listeners : TakeAccepted(l) \/ ListenerFails(l)
           \/ DispatchSucceeds \/ DispatchFails \/ GiveUp \/ RestartFails
    PROVE  TypeInv'
<1> USE ServerAssumption DEF TypeInv, TypeOK, HandInv, Fates, NoRefusals
<1>1. ASSUME NEW c \in Conns, NEW l \in Listeners, Connect(c, l) PROVE TypeInv'
    BY <1>1 DEF Connect, workerVars, history
<1>2. ASSUME NEW l \in Listeners, TakeAccepted(l) PROVE TypeInv'
    BY <1>2 DEF TakeAccepted, workerVars
<1>3. CASE DispatchSucceeds
    <2>1. /\ Append(inbox[next_worker], inHand) \in Seq(Conns)
          /\ Len(Append(inbox[next_worker], inHand)) = Len(inbox[next_worker]) + 1
        BY <1>3 DEF DispatchSucceeds
    <2>2. next_worker \in 0..NWorkers
        BY DEF Workers
    <2> QED
        BY <1>3, <2>1, <2>2 DEF DispatchSucceeds, BackToAccepting
<1>4. CASE DispatchFails
    <2>1. (next_worker + 1) % NWorkers \in Workers
        BY NextWorker DEF Workers
    <2>2. tries + 1 \in 0..NWorkers
        BY <1>4 DEF DispatchFails
    <2>3. refusals' \in [Workers -> {"none", "full", "crashed"}]
        BY <1>4 DEF DispatchFails
    <2>4. /\ inbox' \in [Workers -> Seq(Conns)]
          /\ \A w \in Workers : Len(inbox'[w]) <= QueueLength
        <3>1. CASE UNCHANGED inbox
            BY <3>1
        <3>2. CASE inbox' = [inbox EXCEPT ![next_worker] = <<>>]
            <4>1. <<>> \in Seq(Conns) /\ Len(<<>>) = 0
                OBVIOUS
            <4>2. next_worker \in Workers /\ inbox \in [Workers -> Seq(Conns)]
                OBVIOUS
            <4> QED
                BY <3>2, <4>1, <4>2
        <3> QED
            BY <1>4, <3>1, <3>2 DEF DispatchFails
    <2>5. thread' \in [Workers -> ThreadStates]
        BY <1>4 DEF DispatchFails, ThreadStates
    <2> QED
        BY <1>4, <2>1, <2>2, <2>3, <2>4, <2>5 DEF DispatchFails
<1>5. CASE GiveUp
    BY <1>5 DEF GiveUp, BackToAccepting
<1>6. CASE RestartFails \/ \E l \in Listeners : ListenerFails(l)
    BY <1>6 DEF RestartFails, ListenerFails, workerVars, history
<1> QED
    BY <1>1, <1>2, <1>3, <1>4, <1>5, <1>6

\* A shutdown keeps the types.
LEMMA ShutdownTypes ==
    ASSUME TypeInv, ReceiveCommand \/ FinishShutdown \/ ShutdownTimesOut \/ Exit
    PROVE  TypeInv'
<1> USE ServerAssumption DEF TypeInv, TypeOK, HandInv
<1>1. /\ NoneAccepted \in [Listeners -> Conns \cup {NoConn}]
      /\ <<>> \in Seq(Commands) /\ Len(<<>>) = 0
    BY DEF NoneAccepted
<1>2. ASSUME NEW cs, Become(cs, "dropped") PROVE conn' \in [Conns -> Fates]
    BY <1>2 DEF Become, Fates
<1>3. CASE ReceiveCommand
    <2>1. /\ Head(commands) \in Commands
          /\ Tail(commands) \in Seq(Commands)
          /\ Len(Tail(commands)) <= CommandCapacity
        BY <1>3 DEF ReceiveCommand
    <2>2. told' \in [Workers -> Modes \cup {"nothing"}]
        BY <1>3, <2>1 DEF ReceiveCommand, Commands
    <2> QED
        BY <1>1, <1>2, <1>3, <2>1, <2>2 DEF ReceiveCommand, history
<1>4. CASE FinishShutdown \/ ShutdownTimesOut
    <2>1. Notify /\ expired' \in BOOLEAN
        BY <1>4 DEF FinishShutdown, ShutdownTimesOut
    <2> QED
        BY <2>1 DEF Notify, Stages, workerVars
<1>5. CASE Exit
    <2>1. calls' \in [Callers -> Stages]
        BY <1>5 DEF Exit, Stages
    <2> QED
        BY <1>1, <1>2, <1>5, <2>1 DEF Exit, workerVars, history
<1> QED
    BY <1>3, <1>4, <1>5

\* What workers do keeps the types.
LEMMA WorkerTypes ==
    ASSUME TypeInv, NEW w \in Workers, WorkerMoves(w)
    PROVE  TypeInv'
<1> USE ServerAssumption DEF TypeInv, TypeOK, Fates, ThreadStates
<1>1. HandInv'
    BY WorkersKeepOut DEF HandInv
<1>2. CASE TakeConnection(w)
    <2>1. /\ Head(inbox[w]) \in Conns
          /\ Tail(inbox[w]) \in Seq(Conns)
          /\ Len(Tail(inbox[w])) <= QueueLength
        BY <1>2 DEF TakeConnection
    <2> QED
        BY <1>1, <1>2, <2>1 DEF TakeConnection, Become, acceptorVars, history
<1>3. InboxOf(w) \subseteq Conns /\ <<>> \in Seq(Conns) /\ Len(<<>>) = 0
    BY DEF InboxOf, Elements
<1>4. CASE StartDraining(w)
    BY <1>1, <1>3, <1>4 DEF StartDraining, Become, acceptorVars, history
<1>5. CASE EndThread(w)
    BY <1>1, <1>3, <1>5 DEF EndThread, Become, acceptorVars, history
<1>6. ASSUME Signal(w), expired' \in BOOLEAN PROVE TypeInv'
    BY <1>1, <1>6 DEF Signal, acceptorVars
<1>7. CASE ForcedStop(w) \/ Drained(w) \/ DrainTimesOut(w)
    BY <1>6, <1>7 DEF ForcedStop, Drained, DrainTimesOut
<1>8. CASE Crash(w)
    BY <1>1, <1>8 DEF Crash, acceptorVars, history
<1>9. ASSUME NEW c \in Conns, Close(w, c) PROVE TypeInv'
    BY <1>1, <1>9 DEF Close, Become, acceptorVars, history
<1> QED
    BY <1>2, <1>4, <1>5, <1>7, <1>8, <1>9 DEF WorkerMoves, WorkerStep

LEMMA TypeStep == TypeInv /\ [Next]_vars => TypeInv'
<1> SUFFICES ASSUME TypeInv, [Next]_vars PROVE TypeInv'
    OBVIOUS
<1>1. CASE UNCHANGED vars
    BY <1>1 DEF vars, acceptorVars, workerVars, history, TypeInv, TypeOK, HandInv
<1>2. CASE AcceptorMoves
    BY <1>2, DispatchTypes, ShutdownTypes DEF AcceptorMoves, AcceptorStep
<1> QED
    BY <1>1, <1>2, CallerTypes, WorkerTypes, WhoMoves

\* Every state of the server is well typed, and no channel ever holds more
\* than its capacity.
THEOREM TypeCorrect == Spec => []TypeOK
<1>1. TypeInv => TypeOK
    BY DEF TypeInv
<1> QED
    BY <1>1, TypeInit, TypeStep, PTL DEF Spec

---------------------------------------------------------------------------
(* The search for a worker.                                                *)

\* How many workers ago the acceptor turned to w; it is a full turn for the
\* one it turns to next.
Offset(w) ==
    IF w < next_worker THEN next_worker - w ELSE next_worker + NWorkers - w

\* The workers it has tried with the connection in hand have refused it.
SearchInv ==
    acceptor = "dispatching" =>
       \A w \in Workers : Offset(w) <= tries => refusals[w] # "none"

LEMMA OffsetRange ==
    ASSUME TypeOK, NEW w \in Workers
    PROVE  Offset(w) \in 1..NWorkers
BY ServerAssumption DEF TypeOK, Workers, Offset

LEMMA OffsetMoves ==
    ASSUME TypeOK, next_worker' = (next_worker + 1) % NWorkers,
           NEW w \in Workers, w # next_worker
    PROVE  Offset(w)' = Offset(w) + 1
<1>1. next_worker \in Workers
    BY DEF TypeOK
<1>2. next_worker' = IF next_worker + 1 = NWorkers THEN 0 ELSE next_worker + 1
    BY <1>1, NextWorker
<1> QED
    BY <1>1, <1>2, ServerAssumption DEF Workers, Offset

LEMMA SearchStep == TypeInv /\ SearchInv /\ [Next]_vars => SearchInv'
<1> SUFFICES ASSUME TypeInv, SearchInv, [Next]_vars PROVE SearchInv'
    OBVIOUS
<1> TypeOK
    BY DEF TypeInv
<1>1. ASSUME acceptor' # "dispatching" PROVE SearchInv'
    BY <1>1 DEF SearchInv
<1>2. ASSUME UNCHANGED <<acceptor, tries, next_worker, refusals>> PROVE SearchInv'
    BY <1>2 DEF SearchInv, Offset
<1>3. ASSUME NEW l \in Listeners, TakeAccepted(l) PROVE SearchInv'
    <2>1. tries' = 0 /\ next_worker' = next_worker
        BY <1>3 DEF TakeAccepted
    <2>2. ASSUME NEW w \in Workers PROVE ~(Offset(w)' <= tries')
        BY <2>1, <2>2, OffsetRange DEF Offset
    <2> QED
        BY <2>2 DEF SearchInv
<1>4. CASE DispatchFails
    <2>1. /\ acceptor = "dispatching"
          /\ tries \in Nat /\ tries' = tries + 1
          /\ next_worker' = (next_worker + 1) % NWorkers
        BY <1>4 DEF DispatchFails, TypeOK
    <2>2. /\ refusals'[next_worker] # "none"
          /\ \A w \in Workers : w # next_worker => refusals'[w] = refusals[w]
        BY <1>4 DEF DispatchFails, TypeOK
    <2> SUFFICES ASSUME NEW w \in Workers, Offset(w)' <= tries', w # next_worker
                 PROVE  refusals'[w] # "none"
        BY <2>2 DEF SearchInv
    <2>3. Offset(w) <= tries
        BY <2>1, OffsetMoves, OffsetRange
    <2> QED
        BY <2>1, <2>2, <2>3 DEF SearchInv
<1>5. CASE DispatchSucceeds \/ GiveUp
    BY <1>1, <1>5 DEF DispatchSucceeds, GiveUp, BackToAccepting
<1>6. CASE \/ ReceiveCommand \/ FinishShutdown \/ ShutdownTimesOut \/ Exit
           \/ RestartFails \/ \E l \in Listeners : ListenerFails(l)
    BY <1>1, <1>6 DEF ReceiveCommand, FinishShutdown, ShutdownTimesOut, Notify,
       Exit, RestartFails, ListenerFails
<1>7. ASSUME NEW c \in Conns, NEW l \in Listeners, Connect(c, l) PROVE SearchInv'
    BY <1>2, <1>7 DEF Connect, history
<1>8. CASE UNCHANGED vars
    BY <1>2, <1>8 DEF vars, acceptorVars, history
<1> QED
    BY <1>2, <1>3, <1>4, <1>5, <1>6, <1>7, <1>8, CallersKeepOut, WorkersKeepOut,
       WhoMoves DEF AcceptorMoves, AcceptorStep

\* The acceptor goes back to accepting by handing over or by giving up.
LEMMA HandedOverOrGivenUp ==
    ASSUME TypeInv, [Next]_vars, acceptor = "dispatching", acceptor' = "accepting",
           conn'[inHand] # "queued"
    PROVE  GiveUp
<1>1. ~ DispatchSucceeds
    BY DEF DispatchSucceeds, TypeInv, TypeOK, HandInv
<1>2. AcceptorMoves
    BY WhoMoves, CallersKeepOut, WorkersKeepOut DEF vars, acceptorVars
<1> QED
    BY <1>1, <1>2 DEF AcceptorMoves, AcceptorStep, Connect, TakeAccepted,
       DispatchFails, ReceiveCommand, FinishShutdown, ShutdownTimesOut, Notify,
       Exit, RestartFails, ListenerFails

\* The dispatch loop of Acceptor::run tries every worker before it drops a
\* connection, wherever it starts and however many workers crash or fill up
\* meanwhile.
THEOREM EveryWorkerIsTried == Spec => RefusedOnlyByAll
<1>1. Init => SearchInv
    BY DEF Init, SearchInv
<1>2. ASSUME TypeInv, SearchInv, [Next]_vars, acceptor = "dispatching",
             acceptor' = "accepting", conn'[inHand] # "queued", NEW w \in Workers
      PROVE  refusals[w] # "none"
    <2>1. GiveUp
        BY <1>2, HandedOverOrGivenUp
    <2>2. tries = NWorkers
        BY <2>1 DEF GiveUp
    <2>3. Offset(w) \in 1..NWorkers
        BY <1>2, OffsetRange DEF TypeInv
    <2>4. Offset(w) <= tries
        BY <2>2, <2>3, ServerAssumption
    <2> QED
        BY <1>2, <2>4 DEF SearchInv
<1>3. TypeInv /\ SearchInv /\ [Next]_vars =>
         [acceptor = "dispatching" /\ acceptor' = "accepting"
             /\ conn'[inHand] # "queued" =>
                \A w \in Workers : refusals[w] # "none"]_vars
    BY <1>2
<1> QED
    BY <1>1, <1>3, TypeInit, TypeStep, SearchStep, PTL DEF Spec, RefusedOnlyByAll

---------------------------------------------------------------------------
(* Shutdown.                                                               *)

\* The acceptor executes a shutdown from the moment it receives the command;
\* by then it has let go of every connection, and so it has when it has ended.
OneShutdown ==
    /\ acceptor = "stopping" => executing \in Commands
    /\ executing \in Commands => acceptor \in {"stopping", "leaving", "exited"}
    /\ executing \in Commands \/ acceptor = "exited" =>
          inHand = NoConn /\ accepted = NoneAccepted

NobodyReturnsEarly ==
    \A k \in Callers : calls[k] = "returned" =>
       \/ acceptor = "exited"
       \/ acceptor = "leaving" /\ executing \in Commands /\ k = executing.caller

\* Workers are told what the executed command asks for, all that still run
\* are told, and only then does a worker drain or stop.  What a worker has
\* left when it signals, it leaves because it was forced or out of time.
ToldByTheCommand ==
    \A w \in Workers :
       /\ told[w] # "nothing" => /\ executing \in Commands
                                 /\ told[w] = executing.mode
       /\ executing \in Commands /\ thread[w] = "running" => told[w] # "nothing"
       /\ thread[w] = "draining" => told[w] # "nothing" /\ inbox[w] = <<>>
       /\ thread[w] = "signalled" =>
             /\ executing \in Commands
             /\ \/ expired \/ executing.mode = "Forced"
                \/ inbox[w] = <<>> /\ open[w] = {}

GracefulWaits ==
    acceptor \in {"leaving", "exited"} /\ GracefulInTime => WorkersDone

\* A connection is where it is said to be, and a dead worker has none.
ConnsAreSomewhere ==
    /\ \A c \in Conns :
          /\ conn[c] = "queued" => \E w \in Workers : c \in InboxOf(w)
          /\ conn[c] = "open" => \E w \in Workers : c \in open[w]
    /\ \A w \in Workers : thread[w] = "gone" => inbox[w] = <<>> /\ open[w] = {}

\* Connections are cut by a forced shutdown or by a timeout.
CutForAReason ==
    \A c \in Conns : conn[c] = "cut" =>
       executing \in Commands /\ (expired \/ executing.mode = "Forced")

StopInv ==
    /\ TypeInv
    /\ OneShutdown
    /\ NobodyReturnsEarly
    /\ ToldByTheCommand
    /\ GracefulWaits
    /\ ConnsAreSomewhere
    /\ CutForAReason

LEMMA StopInit == Init => StopInv
<1> SUFFICES ASSUME Init PROVE StopInv
    OBVIOUS
<1>1. TypeInv
    BY TypeInit
<1>2. /\ acceptor = "accepting" /\ executing = NoCommand
      /\ \A k \in Callers : calls[k] = "idle"
      /\ \A w \in Workers : thread[w] = "running" /\ told[w] = "nothing"
      /\ \A c \in Conns : conn[c] = "closed"
    BY DEF Init
<1>3. NoCommand \notin Commands
    BY ServerAssumption DEF Commands, Modes
<1>4. OneShutdown /\ NobodyReturnsEarly /\ GracefulWaits
    BY <1>2, <1>3 DEF OneShutdown, NobodyReturnsEarly, GracefulWaits
<1>5. ToldByTheCommand
    BY <1>2, <1>3 DEF ToldByTheCommand
<1>6. ConnsAreSomewhere /\ CutForAReason
    BY <1>2 DEF ConnsAreSomewhere, CutForAReason
<1> QED
    BY <1>1, <1>4, <1>5, <1>6 DEF StopInv

\* A shutdown once begun is the only one, and the clock does not run back.
LEMMA ExecutingRemains ==
    ASSUME StopInv, [Next]_vars
    PROVE  /\ executing \in Commands => executing' = executing
           /\ expired => expired'
<1>1. executing \in Commands => acceptor # "accepting"
    BY DEF StopInv, OneShutdown
<1>2. ASSUME AcceptorMoves
      PROVE  /\ executing \in Commands => executing' = executing
             /\ expired => expired'
    BY <1>1, <1>2 DEF AcceptorMoves, AcceptorStep, Connect, ListenerFails, TakeAccepted,
       DispatchSucceeds, DispatchFails, GiveUp, BackToAccepting, ReceiveCommand,
       FinishShutdown, ShutdownTimesOut, Notify, Exit, RestartFails, history
<1>3. CASE UNCHANGED vars
    BY <1>3 DEF vars, acceptorVars, history
<1>4. ASSUME NEW w \in Workers, WorkerMoves(w)
      PROVE  executing' = executing /\ (expired => expired')
    BY <1>4, WorkersKeepOut
<1>5. ASSUME NEW k \in Callers, CallerMoves(k)
      PROVE  executing' = executing /\ (expired => expired')
    BY <1>5, CallersKeepOut
<1> QED
    BY <1>2, <1>3, <1>4, <1>5, WhoMoves

LEMMA OneShutdownStep == StopInv /\ [Next]_vars => OneShutdown'
<1> SUFFICES ASSUME StopInv, [Next]_vars PROVE OneShutdown'
    OBVIOUS
<1> USE DEF StopInv, OneShutdown
<1>0. /\ acceptor = "accepting" => inHand = NoConn
      /\ executing \in Commands \/ executing = NoCommand
      /\ NoCommand \notin Commands
    BY ServerAssumption DEF TypeInv, TypeOK, HandInv, Commands, Modes
<1>1. ASSUME UNCHANGED <<acceptor, executing, accepted, inHand>> PROVE OneShutdown'
    BY <1>1
<1>2. ASSUME UNCHANGED executing, executing \notin Commands,
             acceptor' \in {"accepting", "dispatching", "leaving"}
      PROVE  OneShutdown'
    BY <1>2
<1>3. CASE \/ \E l \in Listeners : \/ \E c \in Conns : Connect(c, l)
                                   \/ ListenerFails(l) \/ TakeAccepted(l)
           \/ DispatchSucceeds \/ DispatchFails \/ GiveUp \/ RestartFails
    BY <1>2, <1>3 DEF Connect, ListenerFails, TakeAccepted, DispatchSucceeds,
       DispatchFails, GiveUp, RestartFails, BackToAccepting
<1>4. CASE ReceiveCommand
    <2>1. Head(commands) \in Commands
        BY <1>4 DEF ReceiveCommand, TypeInv, TypeOK
    <2> QED
        BY <1>0, <1>4, <2>1 DEF ReceiveCommand
<1>5. CASE FinishShutdown \/ ShutdownTimesOut
    BY <1>5 DEF FinishShutdown, ShutdownTimesOut, Notify
<1>6. CASE Exit
    BY <1>6 DEF Exit
<1>7. UNCHANGED vars => OneShutdown'
    BY <1>1 DEF vars, acceptorVars
<1> QED
    BY <1>1, <1>3, <1>4, <1>5, <1>6, <1>7, CallersKeepOut, WorkersKeepOut, WhoMoves
       DEF AcceptorMoves, AcceptorStep

LEMMA ReturnStep == StopInv /\ [Next]_vars => NobodyReturnsEarly'
<1> SUFFICES ASSUME StopInv, [Next]_vars, NEW k \in Callers, calls'[k] = "returned"
             PROVE  \/ acceptor' = "exited"
                    \/ /\ acceptor' = "leaving" /\ executing' \in Commands
                       /\ k = executing'.caller
    BY DEF NobodyReturnsEarly
<1> DEFINE Goal == \/ acceptor' = "exited"
                   \/ /\ acceptor' = "leaving" /\ executing' \in Commands
                      /\ k = executing'.caller
<1>0. calls \in [Callers -> Stages]
    BY DEF StopInv, TypeInv, TypeOK
<1>1. ASSUME calls[k] = "returned" PROVE Goal
    <2>1. \/ acceptor = "exited"
          \/ acceptor = "leaving" /\ executing \in Commands /\ k = executing.caller
        BY <1>1 DEF StopInv, NobodyReturnsEarly
    <2>2. executing \in Commands => executing' = executing
        BY ExecutingRemains
    <2>3. AcceptorMoves => Goal
        BY <2>1, <2>2 DEF AcceptorMoves, AcceptorStep, Connect, ListenerFails,
           TakeAccepted, DispatchSucceeds, DispatchFails, GiveUp, ReceiveCommand,
           FinishShutdown, ShutdownTimesOut, Notify, Exit, RestartFails
    <2>4. ~ AcceptorMoves => UNCHANGED <<acceptor, executing>>
        BY CallersKeepOut, WorkersKeepOut, WhoMoves DEF vars, acceptorVars
    <2> QED
        BY <2>1, <2>3, <2>4
<1>2. ASSUME calls[k] # "returned" PROVE Goal
    <2>1. ASSUME NEW j \in Callers, CallerMoves(j) PROVE Goal
        <3>1. calls' = [calls EXCEPT ![j] = "returned"] /\ acceptor = "exited"
            BY <1>0, <1>2, <2>1 DEF CallerMoves, Call, Join, Send
        <3> QED
            BY <2>1, <3>1, CallersKeepOut
    <2>2. CASE FinishShutdown \/ ShutdownTimesOut
        <3>1. /\ acceptor = "stopping" /\ acceptor' = "leaving"
              /\ calls' = [calls EXCEPT ![executing.caller] = "returned"]
              /\ executing' = executing
            BY <2>2 DEF FinishShutdown, ShutdownTimesOut, Notify
        <3>2. k = executing.caller
            BY <1>0, <1>2, <3>1
        <3> QED
            BY <3>1, <3>2 DEF StopInv, OneShutdown
    <2>3. CASE Exit
        BY <2>3 DEF Exit
    <2>4. ~ UNCHANGED calls
        BY <1>2
    <2> QED
        BY <2>1, <2>2, <2>3, <2>4, WorkersKeepOut, WhoMoves
           DEF AcceptorMoves, AcceptorStep, Connect, ListenerFails, TakeAccepted,
               DispatchSucceeds, DispatchFails, GiveUp, BackToAccepting,
               ReceiveCommand, RestartFails, vars
<1> QED
    BY <1>1, <1>2

LEMMA ToldStep == StopInv /\ [Next]_vars => ToldByTheCommand'
<1> SUFFICES ASSUME StopInv, [Next]_vars PROVE ToldByTheCommand'
    OBVIOUS
<1> TypeOK
    BY DEF StopInv, TypeInv
<1>0. ToldByTheCommand /\ OneShutdown
    BY DEF StopInv
<1>1. ASSUME UNCHANGED <<executing, thread, inbox, told, open>>
      PROVE  ToldByTheCommand'
    BY <1>0, <1>1, ExecutingRemains DEF ToldByTheCommand
<1>2. CASE DispatchSucceeds \/ DispatchFails
    <2>1. executing \notin Commands /\ UNCHANGED <<executing, told>>
        BY <1>0, <1>2 DEF OneShutdown, DispatchSucceeds, DispatchFails, BackToAccepting
    <2>2. \A w \in Workers : thread'[w] \notin {"draining", "signalled"}
        BY <1>0, <1>2, <2>1 DEF ToldByTheCommand, DispatchSucceeds, DispatchFails,
           BackToAccepting, TypeOK
    <2> QED
        BY <1>0, <2>1, <2>2 DEF ToldByTheCommand
<1>3. CASE ReceiveCommand
    <2>1. executing \notin Commands
        BY <1>0, <1>3 DEF OneShutdown, ReceiveCommand
    <2>2. \A w \in Workers : /\ told[w] = "nothing"
                             /\ thread[w] \notin {"draining", "signalled"}
        BY <1>0, <2>1 DEF ToldByTheCommand
    <2>3. executing' \in Commands /\ executing'.mode # "nothing"
        <3>1. executing' = Head(commands) /\ Head(commands) \in Commands
            BY <1>3 DEF ReceiveCommand, TypeOK
        <3> QED
            BY <3>1 DEF Commands, Modes
    <2>4. /\ thread' = thread
          /\ \A w \in Workers : told'[w] = IF thread[w] = "running"
                                           THEN executing'.mode ELSE told[w]
        BY <1>3 DEF ReceiveCommand
    <2> QED
        BY <2>2, <2>3, <2>4 DEF ToldByTheCommand
<1>4. ASSUME NEW v \in Workers, WorkerMoves(v) PROVE ToldByTheCommand'
    <2>1. UNCHANGED executing /\ (expired => expired')
        BY <1>4, WorkersKeepOut
    <2>2. ASSUME NEW w \in Workers, w # v
          PROVE  /\ thread'[w] = thread[w] /\ inbox'[w] = inbox[w]
                 /\ told'[w] = told[w] /\ open'[w] = open[w]
        BY <1>4, <2>2 DEF WorkerMoves, WorkerStep, TakeConnection, StartDraining,
           ForcedStop, Drained, DrainTimesOut, Signal, Crash, Close, EndThread, TypeOK
    <2>3. /\ told'[v] # "nothing" => executing \in Commands /\ told'[v] = executing.mode
          /\ executing \in Commands /\ thread'[v] = "running" => told'[v] # "nothing"
          /\ thread'[v] = "draining" => told'[v] # "nothing" /\ inbox'[v] = <<>>
          /\ thread'[v] = "signalled" =>
                /\ executing \in Commands
                /\ \/ expired' \/ executing.mode = "Forced"
                   \/ inbox'[v] = <<>> /\ open'[v] = {}
        <3> USE <1>0 DEF ToldByTheCommand, TypeOK
        <3>1. CASE TakeConnection(v)
            BY <3>1 DEF TakeConnection
        <3>2. CASE StartDraining(v)
            BY <3>2 DEF StartDraining
        <3>3. CASE ForcedStop(v)
            BY <3>3 DEF ForcedStop, Signal
        <3>4. CASE Drained(v)
            BY <3>4 DEF Drained, Signal
        <3>5. CASE DrainTimesOut(v)
            BY <3>5 DEF DrainTimesOut, Signal
        <3>6. CASE Crash(v) \/ EndThread(v)
            BY <3>6 DEF Crash, EndThread
        <3>7. ASSUME NEW c \in Conns, Close(v, c) PROVE <2>3
            BY <3>7 DEF Close
        <3> QED
            BY <1>4, <3>1, <3>2, <3>3, <3>4, <3>5, <3>6, <3>7 DEF WorkerMoves, WorkerStep
    <2> QED
        BY <1>0, <2>1, <2>2, <2>3 DEF ToldByTheCommand
<1>5. UNCHANGED vars => UNCHANGED <<executing, thread, inbox, told, open>>
    BY DEF vars, acceptorVars, workerVars
<1> QED
    BY <1>1, <1>2, <1>3, <1>4, <1>5, CallersKeepOut, WhoMoves
       DEF AcceptorMoves, AcceptorStep, Connect, ListenerFails, TakeAccepted, GiveUp,
           BackToAccepting, FinishShutdown, ShutdownTimesOut, Notify, Exit,
           RestartFails, workerVars

\* The acceptor leaves a graceful shutdown when the workers are done or out
\* of time, and no worker is told anything afterwards.
LEMMA GracefulStep == StopInv /\ [Next]_vars => GracefulWaits'
<1> SUFFICES ASSUME StopInv, [Next]_vars, acceptor' \in {"leaving", "exited"},
                    GracefulInTime'
             PROVE  WorkersDone'
    BY DEF GracefulWaits
<1> TypeOK
    BY DEF StopInv, TypeInv
<1>0. executing' # NoCommand /\ executing'.mode = "Graceful" /\ ~expired'
    BY DEF GracefulInTime
<1>1. acceptor # "accepting" /\ executing' = executing
    <2>1. CASE AcceptorMoves
        <3>1. ASSUME acceptor \in {"accepting", "dispatching"} PROVE FALSE
            <4>1. RestartFails \/ \E l \in Listeners : ListenerFails(l)
                BY <2>1, <3>1 DEF AcceptorMoves, AcceptorStep, Connect, TakeAccepted,
                   DispatchSucceeds, DispatchFails, GiveUp, BackToAccepting,
                   ReceiveCommand, FinishShutdown, ShutdownTimesOut, Exit
            <4>2. executing' = executing
                BY <4>1 DEF RestartFails, ListenerFails
            <4>3. executing \in Commands
                BY <1>0, <4>2 DEF TypeOK
            <4> QED
                BY <3>1, <4>3 DEF StopInv, OneShutdown
        <3> QED
            BY <2>1, <3>1 DEF AcceptorMoves, AcceptorStep, ReceiveCommand, Connect,
               ListenerFails, TakeAccepted, DispatchSucceeds, DispatchFails, GiveUp,
               FinishShutdown, ShutdownTimesOut, Notify, Exit, RestartFails
    <2>2. CASE ~ AcceptorMoves
        <3>1. UNCHANGED <<acceptor, executing>>
            BY <2>2, CallersKeepOut, WorkersKeepOut, WhoMoves DEF vars, acceptorVars
        <3> QED
            BY <3>1
    <2> QED
        BY <2>1, <2>2
<1>2. executing \in Commands /\ ~expired
    BY <1>0, <1>1, ExecutingRemains DEF TypeOK
<1>3. CASE FinishShutdown \/ ShutdownTimesOut
    BY <1>0, <1>1, <1>3 DEF FinishShutdown, ShutdownTimesOut, Notify, WorkersDone,
       workerVars
<1>4. CASE ~(FinishShutdown \/ ShutdownTimesOut)
    <2>1. acceptor \in {"leaving", "exited"}
        <3>1. acceptor \in {"stopping", "leaving", "exited"}
            BY <1>2 DEF StopInv, OneShutdown
        <3>2. ASSUME acceptor = "stopping" PROVE FALSE
            BY <1>4, <3>2, CallersKeepOut, WorkersKeepOut, WhoMoves
               DEF AcceptorMoves, AcceptorStep, Connect, ListenerFails, TakeAccepted,
                   DispatchSucceeds, DispatchFails, GiveUp, ReceiveCommand, Exit,
                   RestartFails, vars, acceptorVars
        <3> QED
            BY <3>1, <3>2
    <2>2. WorkersDone
        BY <1>0, <1>1, <1>2, <2>1 DEF StopInv, GracefulWaits, GracefulInTime
    <2>3. ASSUME NEW w \in Workers, WorkerMoves(w) PROVE WorkersDone'
        BY <2>2, <2>3 DEF WorkersDone, WorkerMoves, WorkerStep, TakeConnection,
           StartDraining, ForcedStop, Drained, DrainTimesOut, Signal, Crash, Close,
           EndThread, TypeOK
    <2>4. AcceptorMoves => UNCHANGED told
        BY <2>1 DEF AcceptorMoves, AcceptorStep, Connect, ListenerFails, TakeAccepted,
           DispatchSucceeds, DispatchFails, GiveUp, ReceiveCommand, FinishShutdown,
           ShutdownTimesOut, Exit, RestartFails, workerVars
    <2>5. UNCHANGED vars => UNCHANGED told
        BY DEF vars, workerVars
    <2> QED
        BY <2>2, <2>3, <2>4, <2>5, CallersKeepOut, WhoMoves DEF WorkersDone
<1> QED
    BY <1>3, <1>4

LEMMA CutStep == StopInv /\ [Next]_vars => CutForAReason'
<1> SUFFICES ASSUME StopInv, [Next]_vars, NEW c \in Conns, conn'[c] = "cut"
             PROVE  executing' \in Commands /\ (expired' \/ executing'.mode = "Forced")
    BY DEF CutForAReason
<1> TypeOK
    BY DEF StopInv, TypeInv
<1>1. CASE conn[c] = "cut"
    BY <1>1, ExecutingRemains DEF StopInv, CutForAReason
<1>2. CASE conn[c] # "cut"
    <2>1. ASSUME NEW w \in Workers, EndThread(w)
          PROVE  executing' \in Commands /\ (expired' \/ executing'.mode = "Forced")
        <3>1. c \in InboxOf(w) \cup open[w] /\ thread[w] = "signalled"
            BY <1>2, <2>1 DEF EndThread, Become
        <3>2. inbox[w] # <<>> \/ open[w] # {}
            BY <3>1 DEF InboxOf, Elements
        <3>3. executing \in Commands /\ (expired \/ executing.mode = "Forced")
            BY <3>1, <3>2 DEF StopInv, ToldByTheCommand
        <3> QED
            BY <3>3, ExecutingRemains
    <2>2. ASSUME NEW cs, NEW status \in {"open", "closed", "dropped"}, Become(cs, status)
          PROVE  FALSE
        BY <1>2, <2>2 DEF Become
    <2>3. ~ UNCHANGED conn
        BY <1>2
    <2>4. ASSUME NEW w \in Workers, WorkerMoves(w), ~ EndThread(w) PROVE FALSE
        BY <2>2, <2>3, <2>4 DEF WorkerMoves, WorkerStep, TakeConnection, StartDraining,
           ForcedStop, Drained, DrainTimesOut, Signal, Crash, Close
    <2>5. CASE ReceiveCommand \/ Exit
        BY <2>2, <2>5 DEF ReceiveCommand, Exit
    <2>6. CASE DispatchSucceeds \/ GiveUp \/ \E d \in Conns, l \in Listeners : Connect(d, l)
        BY <1>2, <2>6 DEF DispatchSucceeds, GiveUp, Connect, TypeOK
    <2> QED
        BY <2>1, <2>3, <2>4, <2>5, <2>6, CallersKeepOut, WhoMoves
           DEF AcceptorMoves, AcceptorStep, ListenerFails, TakeAccepted, DispatchFails,
               FinishShutdown, ShutdownTimesOut, Notify, RestartFails, vars
<1> QED
    BY <1>1, <1>2

\* What leaves a queue is its head, what joins it is all that is new.
LEMMA ElementsOfTail ==
    ASSUME NEW S, NEW s \in Seq(S), s # <<>>
    PROVE  Elements(s) \subseteq {Head(s)} \cup Elements(Tail(s))
<1> SUFFICES ASSUME NEW i \in 1..Len(s), s[i] # Head(s)
             PROVE  s[i] \in Elements(Tail(s))
    BY DEF Elements
<1>1. i # 1
    OBVIOUS
<1>2. /\ i - 1 \in 1..Len(Tail(s))
      /\ Tail(s)[i - 1] = s[i]
    BY <1>1
<1> QED
    BY <1>2 DEF Elements

LEMMA ElementsOfAppend ==
    ASSUME NEW S, NEW s \in Seq(S), NEW x \in S
    PROVE  Elements(s) \cup {x} \subseteq Elements(Append(s, x))
<1>1. /\ Len(s) \in Nat /\ Len(Append(s, x)) = Len(s) + 1
      /\ \A i \in 1..Len(s) : Append(s, x)[i] = s[i]
      /\ Append(s, x)[Len(s) + 1] = x
    OBVIOUS
<1>2. \A i \in 1..Len(s) : i \in 1..Len(Append(s, x))
    BY <1>1
<1>3. Len(s) + 1 \in 1..Len(Append(s, x))
    BY <1>1
<1> QED
    BY <1>1, <1>2, <1>3 DEF Elements

LEMMA ConnsStep == StopInv /\ [Next]_vars => ConnsAreSomewhere'
<1> SUFFICES ASSUME StopInv, [Next]_vars PROVE ConnsAreSomewhere'
    OBVIOUS
<1> TypeOK
    BY DEF StopInv, TypeInv
<1>0. ConnsAreSomewhere
    BY DEF StopInv
\* Connections may leave the queues and the open ones as their status changes.
<1>1. ASSUME UNCHANGED <<inbox, open>>,
             \A w \in Workers : thread'[w] = "gone" => thread[w] = "gone",
             \A c \in Conns : conn'[c] \in {"queued", "open"} => conn'[c] = conn[c]
      PROVE  ConnsAreSomewhere'
    BY <1>0, <1>1 DEF ConnsAreSomewhere, InboxOf
<1>2. ASSUME NEW w \in Workers, EndThread(w) PROVE ConnsAreSomewhere'
    <2>1. /\ thread'[w] = "gone" /\ inbox'[w] = <<>> /\ open'[w] = {}
          /\ \A v \in Workers : v # w => /\ thread'[v] = thread[v]
                                       /\ inbox'[v] = inbox[v]
                                       /\ open'[v] = open[v]
        BY <1>2 DEF EndThread, TypeOK
    <2>2. \A c \in Conns : conn'[c] \in {"queued", "open"} =>
              conn'[c] = conn[c] /\ c \notin InboxOf(w) /\ c \notin open[w]
        BY <1>2 DEF EndThread, Become
    <2> QED
        BY <1>0, <2>1, <2>2 DEF ConnsAreSomewhere, InboxOf
<1>3. ASSUME NEW w \in Workers, TakeConnection(w) PROVE ConnsAreSomewhere'
    <2>1. /\ inbox'[w] = Tail(inbox[w]) /\ open'[w] = open[w] \cup {Head(inbox[w])}
          /\ \A v \in Workers : v # w => inbox'[v] = inbox[v] /\ open'[v] = open[v]
          /\ thread' = thread /\ thread[w] # "gone"
        BY <1>3 DEF TakeConnection, TypeOK
    <2>2. InboxOf(w) \subseteq {Head(inbox[w])} \cup InboxOf(w)'
        BY <1>3, <2>1, ElementsOfTail DEF TakeConnection, TypeOK, InboxOf
    <2>3. \A c \in Conns : conn'[c] = IF c = Head(inbox[w]) THEN "open" ELSE conn[c]
        BY <1>3 DEF TakeConnection, Become
    <2> QED
        BY <1>0, <2>1, <2>2, <2>3 DEF ConnsAreSomewhere, InboxOf
<1>4. ASSUME NEW w \in Workers, StartDraining(w) PROVE ConnsAreSomewhere'
    <2>1. /\ inbox'[w] = <<>> /\ open'[w] = open[w] \cup InboxOf(w)
          /\ \A v \in Workers : v # w => /\ inbox'[v] = inbox[v] /\ open'[v] = open[v]
                                       /\ thread'[v] = thread[v]
          /\ thread'[w] = "draining"
        BY <1>4 DEF StartDraining, TypeOK
    <2>2. \A c \in Conns : conn'[c] = IF c \in InboxOf(w) THEN "open" ELSE conn[c]
        BY <1>4 DEF StartDraining, Become
    <2> QED
        BY <1>0, <2>1, <2>2 DEF ConnsAreSomewhere, InboxOf
<1>5. ASSUME NEW w \in Workers, NEW c \in Conns, Close(w, c)
      PROVE  ConnsAreSomewhere'
    <2>1. /\ open'[w] = open[w] \ {c}
          /\ \A v \in Workers : v # w => open'[v] = open[v]
          /\ UNCHANGED <<thread, inbox>>
        BY <1>5 DEF Close, TypeOK
    <2>2. \A d \in Conns : conn'[d] = IF d = c THEN "closed" ELSE conn[d]
        BY <1>5 DEF Close, Become
    <2> QED
        BY <1>0, <2>1, <2>2 DEF ConnsAreSomewhere, InboxOf
<1>6. CASE DispatchSucceeds
    <2>1. next_worker \in Workers /\ inHand \in Conns /\ thread[next_worker] # "gone"
        BY <1>6 DEF DispatchSucceeds, StopInv, TypeInv, HandInv, TypeOK
    <2>2. /\ inbox'[next_worker] = Append(inbox[next_worker], inHand)
          /\ \A v \in Workers : v # next_worker => inbox'[v] = inbox[v]
          /\ UNCHANGED <<thread, open>>
          /\ \A c \in Conns : conn'[c] = IF c = inHand THEN "queued" ELSE conn[c]
        BY <1>6, <2>1 DEF DispatchSucceeds, BackToAccepting, TypeOK
    <2>3. Elements(inbox[next_worker]) \cup {inHand}
             \subseteq Elements(inbox'[next_worker])
        BY <2>1, <2>2, ElementsOfAppend DEF TypeOK
    <2> QED
        BY <1>0, <2>1, <2>2, <2>3 DEF ConnsAreSomewhere, InboxOf
<1>7. CASE DispatchFails
    <2>1. UNCHANGED <<conn, open>>
        BY <1>7 DEF DispatchFails
    <2>2. CASE UNCHANGED <<thread, inbox>>
        BY <1>1, <2>1, <2>2
    <2>3. CASE /\ thread[next_worker] = "gone"
               /\ thread' = [thread EXCEPT ![next_worker] = "running"]
               /\ inbox' = [inbox EXCEPT ![next_worker] = <<>>]
        <3>1. inbox[next_worker] = <<>> /\ next_worker \in Workers
            BY <1>0, <2>3 DEF ConnsAreSomewhere, TypeOK
        <3>2. inbox' = inbox
            BY <2>3, <3>1 DEF TypeOK
        <3>3. \A v \in Workers : thread'[v] = "gone" => thread[v] = "gone"
            BY <2>3, <3>1 DEF TypeOK
        <3> QED
            BY <1>1, <2>1, <3>2, <3>3
    <2> QED
        BY <1>7, <2>2, <2>3 DEF DispatchFails
<1>8. CASE GiveUp \/ \E c \in Conns, l \in Listeners : Connect(c, l)
    BY <1>1, <1>8 DEF GiveUp, BackToAccepting, Connect, workerVars, TypeOK
<1>9. CASE ReceiveCommand \/ Exit
    BY <1>1, <1>9 DEF ReceiveCommand, Exit, Become, workerVars
<1>10. ASSUME NEW w \in Workers, ForcedStop(w) \/ Drained(w) \/ DrainTimesOut(w) \/ Crash(w)
       PROVE  ConnsAreSomewhere'
    BY <1>1, <1>10 DEF ForcedStop, Drained, DrainTimesOut, Signal, Crash, TypeOK
<1>11. ASSUME UNCHANGED <<thread, inbox, open, conn>> PROVE ConnsAreSomewhere'
    BY <1>1, <1>11
<1>12. UNCHANGED vars => ConnsAreSomewhere'
    BY <1>11 DEF vars, workerVars
<1> QED
    BY <1>2, <1>3, <1>4, <1>5, <1>6, <1>7, <1>8, <1>9, <1>10, <1>11, <1>12,
       CallersKeepOut, WhoMoves
       DEF AcceptorMoves, AcceptorStep, WorkerMoves, WorkerStep, ListenerFails,
           TakeAccepted, FinishShutdown, ShutdownTimesOut, Notify, RestartFails,
           workerVars

LEMMA StopInvHolds == Spec => []StopInv
<1>1. StopInv /\ [Next]_vars => StopInv'
    BY TypeStep, OneShutdownStep, ReturnStep, ToldStep, GracefulStep, ConnsStep,
       CutStep DEF StopInv
<1> QED
    BY <1>1, StopInit, PTL DEF Spec

\* When a graceful shutdown in time is over no worker serves any more.
LEMMA NobodyServes ==
    ASSUME StopInv, GracefulInTime, acceptor \in {"leaving", "exited"}, NEW w \in Workers
    PROVE  /\ thread[w] \in {"signalled", "unwinding", "gone"}
           /\ thread[w] = "signalled" => inbox[w] = <<>> /\ open[w] = {}
<1>1. executing \in Commands /\ executing.mode # "Forced" /\ ~expired
    BY DEF GracefulInTime, StopInv, TypeInv, TypeOK
<1>2. told[w] = "nothing"
    BY DEF StopInv, GracefulWaits, WorkersDone
<1>3. thread[w] \in ThreadStates
    BY DEF StopInv, TypeInv, TypeOK
<1> QED
    BY <1>1, <1>2, <1>3 DEF StopInv, ToldByTheCommand, ThreadStates

\* Nobody is told that the server has stopped while its acceptor still holds
\* a connection, nor, after a graceful shutdown in time, while a worker still
\* serves one, for any number of callers, workers and connections
\* (ServerHandle::shutdown, IntoFuture).
THEOREM ReturnsAfterStop == Spec => []ReturnedMeansStopped
<1>1. StopInv => ReturnedMeansStopped
    <2> SUFFICES ASSUME StopInv, NEW k \in Callers, calls[k] = "returned"
                 PROVE  /\ acceptor = "exited" \/ (acceptor = "leaving" /\ k = executing.caller)
                        /\ inHand = NoConn /\ accepted = NoneAccepted
                        /\ GracefulInTime =>
                              \A w \in Workers : thread[w] \notin {"running", "draining"}
        BY DEF ReturnedMeansStopped
    <2>1. \/ acceptor = "exited"
          \/ acceptor = "leaving" /\ executing \in Commands /\ k = executing.caller
        BY DEF StopInv, NobodyReturnsEarly
    <2>2. inHand = NoConn /\ accepted = NoneAccepted
        BY <2>1 DEF StopInv, OneShutdown
    <2>3. GracefulInTime => \A w \in Workers : thread[w] \notin {"running", "draining"}
        BY <2>1, NobodyServes
    <2> QED
        BY <2>1, <2>2, <2>3
<1> QED
    BY <1>1, StopInvHolds, PTL

\* A graceful shutdown in time cuts no connection that was queued or open,
\* and leaves none behind but with a worker that unwinds from a panic (the
\* Graceful arm of Worker::run, and Acceptor::shutdown).
THEOREM GracefulServesAll == Spec => []GracefulServes
<1>1. StopInv => GracefulServes
    <2> SUFFICES ASSUME StopInv, GracefulInTime, NEW c \in Conns
                 PROVE  /\ conn[c] # "cut"
                        /\ acceptor \in {"leaving", "exited"} /\ conn[c] \in {"queued", "open"} =>
                              \E w \in Workers : /\ thread[w] = "unwinding"
                                                 /\ c \in InboxOf(w) \cup open[w]
        BY DEF GracefulServes
    <2>1. conn[c] # "cut"
        BY DEF StopInv, CutForAReason, GracefulInTime
    <2>2. ASSUME acceptor \in {"leaving", "exited"}, conn[c] \in {"queued", "open"}
          PROVE  \E w \in Workers : /\ thread[w] = "unwinding"
                                    /\ c \in InboxOf(w) \cup open[w]
        <3>1. PICK w \in Workers : c \in InboxOf(w) \cup open[w]
            BY <2>2 DEF StopInv, ConnsAreSomewhere
        <3>2. inbox[w] # <<>> \/ open[w] # {}
            BY <3>1 DEF InboxOf, Elements
        <3>3. thread[w] \notin {"signalled", "gone"}
            BY <2>2, <3>2, NobodyServes DEF StopInv, ConnsAreSomewhere
        <3> QED
            BY <2>2, <3>1, <3>3, NobodyServes
    <2> QED
        BY <2>1, <2>2
<1> QED
    BY <1>1, StopInvHolds, PTL
=============================================================================
