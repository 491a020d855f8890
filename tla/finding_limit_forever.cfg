SPECIFICATION TimedSpec
CONSTANTS
    a1 = a1
    a2 = a2
    r1 = r1
    r2 = r2
    r3 = r3
    Accounts = {a1}
    Requests = {r1}
    NoAccount = NoAccount
    MaxConcurrent = 1
    MaxEmptyRetries = 2
    Suited <- AllSuited
    Outcomes = {"ok", "429"}
    Events = {"reset", "limit"}

PROPERTIES RateLimitLifted
