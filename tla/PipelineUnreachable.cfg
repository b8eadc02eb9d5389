SPECIFICATION Spec
CONSTANT Apps <- Takers
INVARIANT ConflictIsReported
