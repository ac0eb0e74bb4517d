SPECIFICATION LiveSpec
CONSTANTS
    o1 = o1
    o2 = o2
    alice = alice
    bob = bob
    Orders <- OneOrder
    Owner <- OwnerOfOne
    Qty <- QtyOfOne
    InitStock = 2
    MaxUses = 1
    Workers = {w1, w2}
    MaxRows = 2
    MaxRestores = 1
    Targets = {"CONFIRMED", "PAYMENT_VERIFIED", "CANCELLED"}
    Requesters = {"admin"}
    Cancellers = {"customer"}
INVARIANTS
    TypeOK
    PaidOnlyIfCaptured
    FulfilmentIsPaidFor
    SuccessConfirms
    RefundOnlyCaptured
    StockLedger
PROPERTIES
    SettledIsFinal
    StalePaymentResolved
CHECK_DEADLOCK FALSE
