SPECIFICATION Spec
CONSTANTS
    o1 = o1
    i1 = i1
    i2 = i2
    Orders <- OneOrder
    Items <- TwoLines
    Full = Full
    Price <- PriceOfOne
    Shortfalls <- TwoLinesShort
    Workers = {w1, w2}
    MaxRestarts = 0
SYMMETRY WorkerSymmetry
INVARIANTS
    RefundsCovered
