SPECIFICATION Spec
CONSTANTS
    p1 = p1
    p2 = p2
    x = x
    y = y
    z = z
    Procs = {p1}
    Accounts = {x}
    Nobody = Nobody
    Concurrency = 1
    MaxAttempts = 2
    Threshold = 2
    MaxIssued = 3
    Events = {"crash"}
SYMMETRY Interchangeable
INVARIANTS NeverForgotten
