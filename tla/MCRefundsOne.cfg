SPECIFICATION LiveSpec
CONSTANTS
    o1 = o1
    i1 = i1
    i2 = i2
    Orders <- OneOrder
    Items <- OneLine
    Full = Full
    Price <- PriceOfOne
    Shortfalls <- ShortByUpTo3
    Workers = {w1, w2}
    MaxRestarts = 1
INVARIANTS
    TypeOK
    
PROPERTIES
    KeepsLedger
    FailedRefundRetried
