SPECIFICATION Spec
CONSTANTS
    a1 = a1
    a2 = a2
    r1 = r1
    r2 = r2
    r3 = r3
    Accounts = {a1}
    Requests = {r1, r2, r3}
    NoAccount = NoAccount
    MaxConcurrent = 2
    MaxEmptyRetries = 1
    Suited <- AllSuited
    Outcomes = {"ok", "429", "model", "thrown"}
    Events <- AllEvents
SYMMETRY Interchangeable
INVARIANTS RemovedHoldNoSlots NoPhantomSlots
