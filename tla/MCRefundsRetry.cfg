SPECIFICATION LiveSpec
CONSTANTS
    o1 = o1
    i1 = i1
    i2 = i2
    Orders <- OneOrder
    Items <- OneLine
    Full = Full
    Price <- PriceOfOne
    Shortfalls <- ShortByUpTo1
    Workers = {w1}
    MaxRestarts = 0
PROPERTIES
    EveryFailedRefundRetried
