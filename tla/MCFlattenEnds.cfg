CONSTANTS
    a = a
    b = b
    Symbol = {a}
    MaxQty = 1
    Foreign = {0, 1}
    Ledgers = {"none", "ordered"}
    MaxLost = 1
    MaxCalls = 2
SPECIFICATION FlattenFairSpec
PROPERTIES
    FlattenReturns
CHECK_DEADLOCK FALSE
