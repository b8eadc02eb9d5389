SPECIFICATION Spec
CONSTANTS
    Conns = {c1, c2, c3}
    Callers = {k1, k2}
    Listeners = {l1}
    NWorkers = 2
    QueueLength = 1
    CommandCapacity = 1
    NoConn = NoConn
    NoCommand = NoCommand
    Faults = {"crash", "listener", "restart"}
INVARIANTS
    TypeOK
    GracefulServes
    ReturnedMeansStopped
PROPERTIES
    RefusedOnlyByAll
    ShutdownReturns
    WorkersStop
    NothingIsStuck
