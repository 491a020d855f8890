SPECIFICATION TranslationsSpec
CONSTANTS
    Importers = {i1, i2}
    MaxTokens = 3
    Clients = {c1, c2, c3}
    Rate = 2
    Burst = 3
    IdleTime = 2
    MaxBuckets = 2
    MaxNow = 5
    MaxAttempts = 3
    LoginWindow = 2
    SessionTime = 2
    MaxWaiting = 3
    MaxTime = 5
    MaxRetries = 2
    MaxMade = 2
    MaxBuffer = 5
    MaxEvents = 6
    MaxCalls = 2
    MaxChunks = 5
    Tools = {f, g}
    MaxTogether = 2
    MaxMessages = 5
    Latest = 2
    MaxAsked = 2
    MaxChanges = 3
    MaxFailures = 1
    m1 = m1
    m2 = m2
    NoName = NoName
    Procs = {p1, p2, p3}
    Nobody = Nobody
    Faults <- AllFaults
INVARIANTS TypeOK ImportsKeepToken GatesSound StreamsSound TranslationKeeps
PROPERTIES ImplementsMutex LeftoverBroken UpdatesSound DashboardSound
CHECK_DEADLOCK FALSE
