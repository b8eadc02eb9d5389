SPECIFICATION Spec
CONSTANT Apps <- Analysed
CHECK_DEADLOCK FALSE
INVARIANTS
    TypeOK
    InputsProvided
    InvokedAtMostOnce
    NeverPanics
    PlacedInOrder
    NoUseAfterMove
    NoMoveBeforeDescendantUses
    ObserversRunInOrder
    RejectionJustified
    NoNeedlessClone
    StuckOnlyWithoutOrder
PROPERTIES
    Terminates
