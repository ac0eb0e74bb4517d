SPECIFICATION FailedSpec
CONSTANTS
    Clerks = {c1, c2}
    MaxOutings = 2
    MaxTasks = 2
PROPERTIES
    ResolvedOnlyInStore
CHECK_DEADLOCK FALSE
