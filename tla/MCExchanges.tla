---------------------------- MODULE MCExchanges -----------------------------
(***************************************************************************)
(* What the server exchanges with others, for TLC: RefreshLock, and with   *)
(* the bounds of their INSTANCEs the imports of accounts, the rate limit,  *)
(* the dashboard's sessions, the streams from the upstream and to the      *)
(* clients, the API key upstreams, the conversations of requests, the      *)
(* updates and the dashboard's pages; MCTranslations adds the schemas.     *)
(* They share no state, so one of them is chosen at the start and runs     *)
(* alone; x1 .. x12 are its variables, and the lock rests unless it is the *)
(* one.  The bounds of the parts that are proved about are constants.      *)
(***************************************************************************)
EXTENDS RefreshLock

CONSTANTS
    Importers, MaxTokens,                                       \* imports
    Clients, Rate, Burst, IdleTime, MaxBuckets, MaxNow,         \* rate limit
    MaxAttempts, LoginWindow, SessionTime, MaxWaiting, MaxTime, \* dashboard's sessions
    MaxRetries, MaxMade, MaxBuffer,                             \* calls to the upstream
    MaxEvents,                                                  \* streams to the clients
    MaxCalls, MaxChunks,                                        \* API key upstreams
    Tools, MaxTogether, MaxMessages,                            \* conversations of requests
    Latest, MaxAsked,                                           \* updates
    MaxChanges,                                                 \* dashboard's pages
    MaxFailures,                                                \* of either
    m1, m2, NoName

ASSUME ImportAssumption == MaxTokens \in Nat \ {0}

ASSUME LimitAssumption ==
    /\ Rate \in Nat /\ Burst \in Nat /\ IdleTime \in Nat
    /\ MaxNow \in Nat \ {0}

ASSUME AccessAssumption ==
    /\ MaxAttempts \in Nat \ {0} /\ MaxTime \in Nat \ {0}
    /\ LoginWindow \in Nat /\ SessionTime \in Nat /\ MaxWaiting \in Nat

ASSUME RetryAssumption == MaxRetries \in Nat /\ MaxMade \in Nat /\ MaxBuffer \in Nat

ASSUME StreamAssumption == MaxEvents \in Nat

ASSUME DirectAssumption == MaxCalls \in Nat /\ MaxChunks \in Nat

ASSUME TalkAssumption == MaxTogether \in Nat

ASSUME UpdateAssumption == Latest \in Nat /\ MaxAsked \in Nat /\ MaxFailures \in Nat

ASSUME ViewAssumption == MaxChanges \in Nat

VARIABLES
    part,   \* the part that runs
    \* its variables; those it does not need are 0
    x1, x2, x3, x4, x5, x6, x7, x8, x9, x10, x11, x12

Import == INSTANCE Imports WITH
    stored <- x1, newest <- x2, imports <- x3, refreshing <- x4, refresh <- x5,
    pasted <- x6, lost <- x7
Limit == INSTANCE RateLimit WITH
    time <- x1, buckets <- x2, lastPrune <- x3, excess <- x4, evicted <- x5
Access == INSTANCE DashboardAccess WITH
    hour <- x1, failures <- x2, waiting <- x3, session <- x4, answer <- x5, made <- x6,
    tries <- x7
Upstream == INSTANCE UpstreamStream WITH
    call <- x1, posts <- x2, signalled <- x3, upstream <- x4, pipe <- x5, reader <- x6
Streams == INSTANCE ClientStreams WITH
    want <- x1, sent <- x2, open <- x3, ended <- x4, known <- x5, openai <- x6,
    anthropic <- x7, gemini <- x8, codex <- x9, gathered <- x10
Direct == INSTANCE ApiKeyRequests WITH
    ask <- x1, chunks <- x2, buffers <- x3, stopped <- x4, events <- x5, entries <- x6
Translation == INSTANCE RequestTranslation WITH talk <- x1
Update == INSTANCE SelfUpdate WITH
    mode <- x1, auto <- x2, origin <- x3, disk <- x4, image <- x5, server <- x6,
    checks <- x7, behind <- x8, pipes <- x9, failures <- x10, asked <- x11,
    hurried <- x12
Views == INSTANCE DashboardViews WITH
    page <- x1, truth <- x2, shown <- x3, loads <- x4, change <- x5, failures <- x6,
    others <- x7, crossed <- x8
Polls == INSTANCE DashboardPolls WITH
    page <- x1, offered <- x2, listed <- x3, selected <- x4, effects <- x5,
    changes <- x6, phase <- x7, serverUp <- x8, polled <- x9, Names <- {m1, m2},
    MaxStarts <- 2, MaxChanges <- 2

\* What a part with fewer variables leaves alone.
from12 == <<x12>>
from11 == <<x11, from12>>
from10 == <<x10, from11>>
from9 == <<x9, from10>>
from8 == <<x8, from9>>
from7 == <<x7, from8>>
from6 == <<x6, from7>>
from5 == <<x5, from6>>
from4 == <<x4, from5>>
from3 == <<x3, from4>>
from2 == <<x2, from3>>
from1 == <<x1, from2>>

Zero12 == x12 = 0
Zero11 == x11 = 0 /\ Zero12
Zero10 == x10 = 0 /\ Zero11
Zero9 == x9 = 0 /\ Zero10
Zero8 == x8 = 0 /\ Zero9
Zero7 == x7 = 0 /\ Zero8
Zero6 == x6 = 0 /\ Zero7
Zero5 == x5 = 0 /\ Zero6
Zero4 == x4 = 0 /\ Zero5
Zero3 == x3 = 0 /\ Zero4
Zero2 == x2 = 0 /\ Zero3
Zero1 == x1 = 0 /\ Zero2

ExchangesInit ==
    /\ Init
    /\ \/ part = "lock" /\ Zero1
       \/ part = "import" /\ Import!Init /\ Zero8
       \/ part = "limit" /\ Limit!Init /\ Zero6
       \/ part = "access" /\ Access!Init /\ Zero8
       \/ part = "upstream" /\ Upstream!Init /\ Zero7
       \/ part = "streams" /\ Streams!Init /\ Zero11
       \/ part = "direct" /\ Direct!Init /\ Zero7
       \/ part = "translation" /\ Translation!Init /\ Zero2
       \/ part = "update" /\ Update!Init
       \/ part = "views" /\ Views!Init /\ Zero9
       \/ part = "polls" /\ Polls!Init /\ Zero10

ExchangesNext ==
    /\ UNCHANGED part
    /\ \/ part = "lock" /\ Next /\ UNCHANGED from1
       \/ /\ UNCHANGED vars
          /\ \/ part = "import" /\ Import!Next /\ UNCHANGED from8
             \/ part = "limit" /\ Limit!Next /\ UNCHANGED from6
             \/ part = "access" /\ Access!Next /\ UNCHANGED from8
             \/ part = "upstream" /\ Upstream!Next /\ UNCHANGED from7
             \/ part = "streams" /\ Streams!Next /\ UNCHANGED from11
             \/ part = "direct" /\ Direct!Next /\ UNCHANGED from7
             \/ part = "translation" /\ Translation!Next /\ UNCHANGED from2
             \/ part = "update" /\ Update!Next
             \/ part = "views" /\ Views!Next /\ UNCHANGED from9
             \/ part = "polls" /\ Polls!Next /\ UNCHANGED from10

allVars == <<part, vars, from1>>

updateVars == Update!updateVars
viewVars == Views!viewVars
pollVars == Polls!pollVars

\* The fairness of RefreshLock, SelfUpdate, DashboardViews and DashboardPolls,
\* of each while it is the part that runs.
ExchangesFair ==
    /\ WF_vars(part = "lock" /\ Age)
    /\ \A p \in Procs : WF_vars(part = "lock" /\ Step(p))
    /\ SF_vars(part = "lock" /\ \E p \in Procs : Read(p))
    /\ SF_vars(part = "lock" /\ \E p \in Procs : Break(p) \/ SweepUnlinks(p))
    /\ WF_updateVars(part = "update" /\ Update!CheckBegins("timer"))
    /\ \A w \in {"timer", "dashboard"} :
          /\ WF_updateVars(part = "update" /\ Update!ReleaseAnswered(w))
          /\ WF_updateVars(part = "update" /\ Update!Fetched(w))
          /\ WF_updateVars(part = "update" /\ Update!Counted(w))
          /\ WF_updateVars(part = "update" /\ Update!CheckEnds(w))
          /\ WF_updateVars(part = "update" /\ Update!Pulled(w))
          /\ WF_updateVars(part = "update" /\ Update!Installed(w))
          /\ WF_updateVars(part = "update" /\ Update!Built(w))
    /\ WF_updateVars(part = "update" /\ Update!RestartDue)
    /\ WF_updateVars(part = "update" /\ Update!Restarts)
    /\ WF_viewVars(part = "views" /\ Views!Poll)
    /\ WF_viewVars(part = "views" /\ Views!ChangeMade)
    /\ WF_viewVars(part = "views" /\ Views!ChangeAnswered)
    /\ \A i \in {1, 2} :
          /\ WF_viewVars(part = "views" /\ Views!Answered(i))
          /\ WF_viewVars(part = "views" /\ Views!Shows(i))
          /\ WF_pollVars(part = "polls" /\ (Polls!StatusAnswered(i) \/ Polls!StatusFails(i)))
          /\ WF_pollVars(part = "polls" /\ Polls!CatalogueLoaded(i))
          /\ WF_pollVars(part = "polls" /\ Polls!ListLoaded(i))
    /\ WF_pollVars(part = "polls" /\ Polls!ApplyEnds)
    /\ WF_pollVars(part = "polls" /\ Polls!DelayOver)
    /\ WF_pollVars(part = "polls" /\ Polls!HealthAsked)
    /\ WF_pollVars(part = "polls" /\ Polls!HealthAnswered)
    /\ WF_pollVars(part = "polls" /\ Polls!GivesUp)

ExchangesSpec == ExchangesInit /\ [][ExchangesNext]_allVars /\ ExchangesFair

-----------------------------------------------------------------------------
(* Properties of the parts *)

\* The account keeps the one refresh token the server will still exchange,
\* whatever imports and scheduled refreshes cross, as long as no answer is
\* lost and no token is pasted beside an access token (account-import.ts).
ImportsKeepToken ==
    part = "import" => Import!TypeOK /\ Import!ImportsKeepToken

\* No client gets more than its rate and its burst, whatever buckets are pruned
\* (rateLimit); no more failed logins than allowed are judged in a window and
\* no session outlives its time or its logout (dashboard-login.ts,
\* dashboard-session.ts).
GatesSound ==
    /\ part = "limit" => Limit!TypeOK /\ Limit!RateKept
    /\ part = "access" => Access!TypeOK /\ Access!AccessSound

\* An answer is delivered once, in order and whole, however it is cut into
\* chunks and retried (CodexApi, parseSSEStream); every client format says what
\* the upstream said, its blocks balanced, and no more (codex-to-*.ts); so do
\* the adapters of API key upstreams (*-upstream.ts).
StreamsSound ==
    /\ part = "upstream" => Upstream!TypeOK /\ Upstream!AnswerDelivered
    /\ part = "streams" => Streams!TypeOK /\ Streams!StreamsKept
    /\ part = "direct" => Direct!TypeOK /\ Direct!DirectSound

\* A request reaches the upstream with everything said in it, in order, and each
\* result with the call it answers, from every client format and for every
\* provider (*-to-codex.ts, codex-request-to-*.ts).
TalksSound == part = "translation" => Translation!ConversationCarried

\* No half-made build is run and two updates never work at once; an image is
\* offered only what is newer (self-update.ts).
UpdatesSafe ==
    part = "update" =>
      /\ Update!TypeOK /\ Update!RunsWholeBuild
      /\ Update!OnePipeline /\ Update!OfferIsNewer

\* ... and with automatic updates the newest commit runs in the end.
UpdatesSound ==
    /\ []UpdatesSafe
    /\ <>[](part = "update" => Update!Arrived)

\* The page of the proxies shows what the server has once nothing is under way
\* (use-proxies.ts).
ViewsSafe == part = "views" => Views!TypeOK /\ Views!AtRestShowsTruth

\* The pages of the dashboard come to show what the server has, the model
\* picker one of the models offered, and the wait for a restart ends, in
\* whatever order requests are answered (shared/hooks).
DashboardSound ==
    /\ []ViewsSafe
    /\ [](part = "polls" => Polls!TypeOK)
    /\ <>[](part = "views" => Views!PolledShowsTruth)
    /\ <>[](part = "polls" => Polls!PickerRight)
    /\ (part = "polls" /\ Polls!Waiting) ~> (part = "polls" => ~Polls!Waiting)
=============================================================================
