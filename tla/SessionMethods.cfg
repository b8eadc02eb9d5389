SPECIFICATION Spec
CONSTANTS
    Ids = {i1, i2, i3}
    Keys = {k1}
    MaxTtl = 2
    NoRecord = NoRecord
    Requests = {r1}
    ClientKeys = {c1}
    NoId = NoId
    NoCookie = NoCookie
    MaxLoads = 2
    ServerStateCreation = "NeverSkip"
    MissingServerState = "Reject"
    ExtendTtl = "OnStateLoadsAndChanges"
    ExtendBelow = 2
    Ops = {"insert", "remove", "clear", "delete", "cycle_id", "invalidate", "client_insert", "client_remove", "client_clear", "sync"}
    Faults = {"expiry", "backend", "disconnect", "forget"}
SYMMETRY Symmetry
INVARIANTS
    TypeOK
    InvalidatedIsMarked
