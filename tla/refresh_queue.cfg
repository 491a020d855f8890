SPECIFICATION HFairSpec
CONSTANTS
    p1 = p1
    p2 = p2
    x = x
    y = y
    z = z
    Procs = {p1}
    Accounts = {x, y}
    Nobody = Nobody
    Concurrency = 1
    MaxAttempts = 2
    Threshold = 2
    MaxIssued = 2
    Events = {"netfail", "netloss", "dirfail", "crash", "stop"}
INVARIANTS TypeOK SemaphoreExact
PROPERTIES EveryRefreshEnds RefreshingSettles
CHECK_DEADLOCK FALSE
