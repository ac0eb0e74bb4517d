SPECIFICATION LiveBoundedSpec
CONSTANTS
    o1 = o1
    o2 = o2
    Orders <- TwoOrders
    Riders = {r1, r2}
    None = None
    Edge = {o2}
    MaxActiveOrders = 2
    MaxAttempts = 1
    SmallFleet = 1
    MaxBatchSize = 2
    Jobs = {w1}
    MaxRestarts = 1
    MaxRequests = 3

    
PROPERTIES
    OfferEnds
CHECK_DEADLOCK FALSE
