SPECIFICATION Spec
CONSTANTS
    Ids = {i1, i2, i3, i4}
    Keys = {k1}
    MaxTtl = 1
    NoRecord = NoRecord
    Requests = {r1, r2}
    ClientKeys = {}
    NoId = NoId
    NoCookie = NoCookie
    MaxLoads = 2
    ServerStateCreation = "NeverSkip"
    MissingServerState = "Reject"
    ExtendTtl = "OnStateLoadsAndChanges"
    ExtendBelow = 2
    Ops = {"insert", "clear", "delete", "cycle_id", "invalidate"}
    Faults = {"expiry", "disconnect"}
SYMMETRY Symmetry
INVARIANTS
    NoPanic
    RetiredIdsStayDead
PROPERTIES
    ChangesAreStored
    FailuresAreExplained
