SPECIFICATION HSpec
CONSTANTS
    p1 = p1
    p2 = p2
    x = x
    y = y
    z = z
    Procs = {p1}
    Accounts = {x}
    Nobody = Nobody
    Concurrency = 1
    MaxAttempts = 3
    Threshold = 2
    MaxIssued = 3
    Events = {"probe", "login", "delete", "disable", "revoke", "netfail", "netloss", "lockfail", "crash", "stop", "stale"}
SYMMETRY Interchangeable
INVARIANTS RefreshKept
PROPERTIES NeverReused ExpiredOnlyWhenDead
CHECK_DEADLOCK FALSE
