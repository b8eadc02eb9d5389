SPECIFICATION Spec
CONSTANT Apps <- Families
INVARIANTS
    TypeOK
    AnalysesAgree
    RejectedForAConflict
    ClonedOnlyIfUsedLater
    NoUseAfterMove
    GetsItsComponent
    EntrypointTakesWhatExists
    NextIsMinimal
PROPERTY
    RunsInDocumentedOrder
