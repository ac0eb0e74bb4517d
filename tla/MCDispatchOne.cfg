SPECIFICATION UpSpec
CONSTANTS
    o1 = o1
    o2 = o2
    Orders <- OneOrder
    Riders = {r1, r2}
    None = None
    Edge = {}
    MaxActiveOrders = 2
    MaxAttempts = 1
    SmallFleet = 1
    MaxBatchSize = 1
    Jobs = {w1, w2}
    MaxRestarts = 0
SYMMETRY Symmetry
INVARIANTS
    TypeOK
    
    AcceptedOrderIsKept
    OfferIsWatched
CHECK_DEADLOCK FALSE
