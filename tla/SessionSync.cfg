SPECIFICATION Spec
CONSTANTS
    Ids = {i1, i2}
    Keys = {k1}
    MaxTtl = 1
    NoRecord = NoRecord
    Requests = {r1}
    ClientKeys = {}
    NoId = NoId
    NoCookie = NoCookie
    MaxLoads = 1
    ServerStateCreation = "NeverSkip"
    MissingServerState = "Reject"
    ExtendTtl = "OnStateLoadsAndChanges"
    ExtendBelow = 2
    Ops = {"insert", "sync"}
    Faults = {}
SYMMETRY Symmetry
INVARIANTS
    NoPanic
