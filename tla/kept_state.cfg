SPECIFICATION KeptSpec
CONSTANTS
    a1 = a1
    a2 = a2
    m1 = m1
    alias = alias
    Missing = Missing
    UsageAccounts = {a1, a2}
    Counters = {"tokens", "requests"}
    MaxServed <- FewRequests
    MaxSnapshots = 2
    Outcomes = {"ok", "error"}
    GroupKeys = {k1, k2}
    MaxAge = 1
    MaxClock = 3
    MaxRecords = 3
    JarAccounts = {a1}
    Names = {"cookie"}
    Values = {v}
    Absent = Absent
    Torn = Torn
    MaxTime = 1
    MaxSaves = 2
    Models = {m1, m2}
    Plans = {"free", "team"}
    Efforts = {"high"}
    Tiers = {"fast"}
    AliasOf <- OneAlias
    DefaultModel = m0
    MaxFetchRetries = 1
    Unreadable = Unreadable
    Logins = {l1, l2, l3}
    NoLogin = NoLogin
    MaxHandlers = 2
    MaxAdded = 2
    TalkAccounts = {a1, a2}
    Asks = {r1, r2}
    TTL = 1
    MaxResponses = 2
    MaxConvs = 2
    MaxMinutes = 2
    Posts = {r1, r2}
    Checks = {c1, c2}
    EnvPort = 3
    EnvProxy = 3
    MaxVersion = 2
    MaxPosts = 3
    Accounts = {a1}
    MaxProxies = 2
    MaxChecks = 2
    MaxFailures = 1
    RoundRobin = RoundRobin
    Fixed = {direct}
    Unset = Unset
    Events = {"crash", "stop"}
INVARIANTS TypeOK AssignedExists SavedOrDue CheckedPeriodically RoundRobinFair
INVARIANTS CookiesSurvive HistoryAddsUp RoutedIsKnown FetchLoopGoesOn LoginsSound LedgerSound
INVARIANTS ConversationsKept SettingsSound
PROPERTIES CheckEnablesNone
CHECK_DEADLOCK FALSE
