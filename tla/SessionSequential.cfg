SPECIFICATION Spec
CONSTANTS
    Ids = {i1, i2, i3}
    Keys = {k1, k2}
    MaxTtl = 1
    NoRecord = NoRecord
    Requests = {r1}
    ClientKeys = {c1}
    NoId = NoId
    NoCookie = NoCookie
    MaxLoads = 2
    ServerStateCreation = "NeverSkip"
    MissingServerState = "Reject"
    ExtendTtl = "OnStateLoadsAndChanges"
    ExtendBelow = 1
    Ops = {"insert", "remove", "clear", "cycle_id", "invalidate", "client_insert", "client_remove", "client_clear"}
    Faults = {}
SYMMETRY Symmetry
INVARIANTS
    FinalizeSucceeds
    CookieNamesLiveSession
    NoOrphanRecords
