SPECIFICATION Spec
CONSTANTS
    Apps <- Families
    Root = "root"
    Param = "{}"
    Begins <- Shorter
    WellKnown = {"GET", "POST"}
    Extensions = {"LOCK"}
    Requests <- Asked
INVARIANTS
    RequestsReachTheirHandlers
    
\* The compiler stops when it refuses an application.
CHECK_DEADLOCK FALSE
