CONSTANTS
    Qty = 3
    MaxCalls = 3
SPECIFICATION ExecutionSpec
INVARIANTS
    ResultIsTrue
    StopWithinFill
    CancelsOnce
CHECK_DEADLOCK FALSE
