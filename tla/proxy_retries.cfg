SPECIFICATION Spec
CONSTANTS
    a1 = a1
    a2 = a2
    r1 = r1
    r2 = r2
    r3 = r3
    Accounts = {a1, a2}
    Requests = {r1, r2}
    NoAccount = NoAccount
    MaxConcurrent = 1
    MaxEmptyRetries = 2
    Suited <- AllSuited
    Outcomes <- AllOutcomes
    Events = {"limit", "ttl"}
SYMMETRY Interchangeable
INVARIANTS TypeOK SlotsWithinLimit NoDoubleRelease
PROPERTIES OnlyRefusalsUnrecorded
