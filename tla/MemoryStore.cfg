SPECIFICATION Spec
CONSTANTS
    Ids = {i1, i2, i3}
    Keys = {k1}
    MaxTtl = 2
    NoRecord = NoRecord
    BatchSizes = {1, 2}
PROPERTY ImplementsContract
