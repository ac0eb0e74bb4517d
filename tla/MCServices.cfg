SPECIFICATION ServicesSpec
CONSTANTS
    None = None
    Hands = {h1, h2}
    MaxCodes = 2
    MaxEarned = 1
    Clerks = {c1, c2}
    MaxOutings = 2
    MaxTasks = 2
    Trays = {t1, t2}
    Ordered <- TwoLines
    Scale = {0, 3}
    Cut = 4
    Tolerance = 1
    Packers = {p1, p2}
    MaxUnits = 2
    Desks = {d1, d2}
    CacheTTL = 1
    Day = 3
    ModeChoices = {"not_accepting"}
    Hours <- OpenHours
    MaxClock = 1
    MaxWrites = 1
    Checks = {k1, k2}
    PeakBacklog = 1
    PeakConfirmed = 0
    ClearQueue = 0
    ClearConfirmed = 0
    MaxCount = 1
    MaxRows = 2
    Sessions = {s1, s2}
    MaxSms = 2
    MaxTokens = 1
    MaxTries = 1
    MaxStrikes = 1
    Products = {m1}
    Categories = {g1}
    NoCategory = None
    ViewKeys = {v1}
    Stewards = {a1, a2}
    Shoppers = {b1}
    MaxEdition = 2
    AddressIds = {i1, i2}
    NoAddress = None
    Errands = {e1, e2}
    MaxWaiting = 10
    MaxSlots = 3
    Door <- Doors
    Parcels = {1, 2, 3}
    Batch = {1, 2, 3}
    NoParcel = None
    Spots = {0, 10}
    NearRange = 4
    Phones = {q1}
    Refreshes = {f1}
    Notes = {n1, n2}
    Shown = 1
    Readers = {u1, u2}
    MaxStarts = 2
    MaxFaults = 1
    Runs = {x1, x2}
    PackedWarning = 0
    PackedCritical = 1
    MaxMinute = 2
    Followed = {"packed_at", "returned_at"}
    MaxInFlight = 1
    Goods = {w1}
    Tabs = {b1, b2}
    Weights = {0}
    MaxPerCall = 1
    MaxQty = 2
    MaxStock = 1
    MaxBought = 1
INVARIANTS
    ServicesTypeOK
    
    
    PendingHasTask
    ShortagesSettled
    ReconciledGetsPacked
    
    EventIsLookedAt
    SignInWorks
    ViewsAreCurrent
    OneDefault
    ToursServeAll
    ClearedStaysCleared
    SchemaIsRepaired
    
    CartIsWhatWasAsked
PROPERTIES
    NoRepeatedAdvice
    NoWayBack
    
CHECK_DEADLOCK FALSE
