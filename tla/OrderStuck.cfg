\* A handler whose call graph passes the borrow checks and cannot be ordered.
SPECIFICATION Spec
CONSTANT Apps <- Uncovered
CHECK_DEADLOCK FALSE
INVARIANTS
    OrderNeverStuck
