CONSTANTS
    a = a
    b = b
    Symbol = {a, b}
    MaxQty = 2
    Foreign = {0}
    Ledgers = {"none", "ordered"}
    MaxLost = 0
    MaxCalls = 1
SPECIFICATION FlattenSpec
SYMMETRY SymbolSymmetry
INVARIANTS
    FlattenTypeOK
    NoDuplicateClose
    ClosesWithinTarget
    CompleteIsFlat
CHECK_DEADLOCK FALSE
