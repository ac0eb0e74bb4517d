SPECIFICATION Spec
CONSTANTS
    o1 = o1
    o2 = o2
    alice = alice
    bob = bob
    Orders <- TwoOrders
    Owner <- TwoOwners
    Qty <- QtyOfTwo
    InitStock = 3
    MaxUses = 2
    Workers = {w1, w2}
    MaxRows = 1
    MaxRestores = 1
    Targets = {}
    Requesters = {"customer", "admin"}
    Cancellers = {"customer"}
SYMMETRY WorkerSymmetry
INVARIANT
    CouponUseCounted
CHECK_DEADLOCK FALSE
