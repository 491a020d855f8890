SPECIFICATION TrafficSpec
CONSTANTS
    a1 = a1
    a2 = a2
    r1 = r1
    r2 = r2
    r3 = r3
    Accounts = {a1, a2}
    Requests = {r1, r2}
    NoAccount = NoAccount
    MaxConcurrent = 1
    MaxEmptyRetries = 1
    Suited <- OneSuited
    Outcomes = {"ok", "empty", "429", "model"}
    Events = {"limit", "ttl"}
PROPERTIES EveryRequestAnswered PoolNeverWedges RateLimitLifted
