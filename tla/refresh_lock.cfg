SPECIFICATION HSpec
CONSTANTS
    p1 = p1
    p2 = p2
    x = x
    y = y
    z = z
    Procs = {p1, p2}
    Accounts = {x}
    Nobody = Nobody
    Concurrency = 1
    MaxAttempts = 2
    Threshold = 2
    MaxIssued = 2
    Events = {"request", "netfail", "savefail", "stop", "crash"}
SYMMETRY Interchangeable
INVARIANTS OneRequestPerAccount
VIEW vars
