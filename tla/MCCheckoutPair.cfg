SPECIFICATION Spec
CONSTANTS
    o1 = o1
    o2 = o2
    alice = alice
    bob = bob
    Orders <- TwoOrders
    Owner <- SameOwner
    Qty <- QtyOfTwo
    InitStock = 3
    MaxUses = 2
    Workers = {w1}
    MaxRows = 1
    MaxRestores = 1
    Targets = {"CONFIRMED", "CANCELLED"}
    Requesters = {"customer", "admin"}
    Cancellers = {"customer", "admin"}
INVARIANTS
    
    OneLiveCouponPerCustomer
    StockLedger
CHECK_DEADLOCK FALSE
