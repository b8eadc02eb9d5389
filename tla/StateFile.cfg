SPECIFICATION Spec
CONSTANTS
    Procs = {p1, p2}
    Versions = {v1, v2}
    Keys = {k1}
    Unset = Unset
    Corrupt = Corrupt
    Faults = {}
PROPERTIES
    UpdatesAreAtomic
