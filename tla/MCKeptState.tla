---------------------------- MODULE MCKeptState -----------------------------
(***************************************************************************)
(* What the server keeps in its memory and its files, for TLC: ProxyPool,  *)
(* the cookie jar, the usage statistics, the model catalogue, the OAuth    *)
(* logins, the request history, the conversations and the settings.  They  *)
(* share no state, so one of them is chosen at the start and runs alone;   *)
(* x1 .. x14 are its variables, and the proxy pool rests unless it is the  *)
(* one.  The bounds of the parts KeptStateProofs is about are constants.   *)
(***************************************************************************)
EXTENDS ProxyPool

CONSTANTS
    JarAccounts, Names, Values, Absent, Torn, MaxTime, MaxSaves,              \* cookie jar
    Models, Plans, Efforts, Tiers, AliasOf, DefaultModel, MaxFetchRetries,
    Unreadable,                                                               \* catalogue
    Logins, NoLogin, MaxHandlers, MaxAdded,                                   \* logins
    TalkAccounts, Asks, TTL, MaxResponses, MaxConvs, MaxMinutes,              \* conversations
    Posts, Checks, EnvPort, EnvProxy, MaxVersion, MaxPosts,                   \* settings
    UsageAccounts, Counters, MaxServed, MaxSnapshots,                         \* usage
    Outcomes, GroupKeys, MaxAge, MaxClock, MaxRecords, Missing,               \* history
    a1, a2, m1, alias

ASSUME CatalogueAssumption ==
    /\ Models \cap DOMAIN AliasOf = {}    \* no model is named as an alias
    /\ MaxFetchRetries \in Nat

ASSUME LoginAssumption ==
    /\ NoLogin \notin Logins
    /\ MaxHandlers \in Nat /\ MaxAdded \in Nat

ASSUME TalkAssumption ==
    TTL \in Nat /\ MaxResponses \in Nat /\ MaxConvs \in Nat /\ MaxMinutes \in Nat

\* The aliases of the instance that is checked.
OneAlias == [n \in {alias} |-> m1]

\* What may be used there: two requests, of which one has tokens.
FewRequests == [k \in Counters |-> IF k = "requests" THEN 2 ELSE 1]

VARIABLES
    part,   \* the part that runs
    \* its variables; those it does not need are 0
    x1, x2, x3, x4, x5, x6, x7, x8, x9, x10, x11, x12, x13, x14

Jar == INSTANCE CookieJar WITH
    jarUp <- x1, jar <- x2, jarTimer <- x3, now <- x4, saves <- x5, files <- x6,
    unsaved <- x7, disturbed <- x8, Accounts <- JarAccounts
Usage == INSTANCE UsageStats WITH
    statsUp <- x1, usage <- x2, usageSaved <- x3, store <- x4, storeSaved <- x5,
    served <- x6, doubled <- x7, Accounts <- UsageAccounts
Catalogue == INSTANCE ModelCatalogue WITH
    running <- x1, catalogue <- x2, planModels <- x3, loop <- x4, fetches <- x5,
    writes <- x6, cache <- x7
OAuth == INSTANCE LoginSessions WITH
    sessions <- x1, completed <- x2, servers <- x3, active <- x4, exchanges <- x5,
    added <- x6, wrongly <- x7
History == INSTANCE RequestHistory WITH
    ledgerUp <- x1, records <- x2, ledger <- x3, spare <- x4, clock <- x5,
    recorded <- x6, cut <- x7
Talks == INSTANCE Conversations WITH
    affinity <- x1, asks <- x2, responses <- x3, convs <- x4, minutes <- x5,
    ended <- x6, Accounts <- TalkAccounts
Config == INSTANCE Settings WITH
    local <- x1, config <- x2, baseline <- x3, override <- x4, version <- x5,
    appcast <- x6, posts <- x7, checks <- x8, child <- x9, sent <- x10, saved <- x11,
    cleared <- x12, keyMoved <- x13, reloaded <- x14

ASSUME SettingsAssumption ==
    EnvPort \in {Config!NotSet} \cup Nat /\ EnvProxy \in {Config!NotSet} \cup Nat

ASSUME JarAssumption ==
    /\ Torn \notin [JarAccounts -> Jar!Cookies]    \* a torn file holds no jar
    /\ MaxTime \in Nat /\ MaxSaves \in Nat

ASSUME UsageAssumption == IsFiniteSet(UsageAccounts)

ASSUME HistoryAssumption ==
    /\ MaxAge \in Nat /\ MaxClock \in Nat /\ MaxRecords \in Nat
    /\ Missing # Unreadable               \* no file, and no file of records
    /\ Missing \notin History!Ledgers /\ Unreadable \notin History!Ledgers

\* What a part with fewer variables leaves alone.
from14 == <<x14>>
from13 == <<x13, from14>>
from12 == <<x12, from13>>
from11 == <<x11, from12>>
from10 == <<x10, from11>>
from9 == <<x9, from10>>
from8 == <<x8, from9>>
from7 == <<x7, from8>>
from1 == <<x1, x2, x3, x4, x5, x6, from7>>

Zero14 == x14 = 0
Zero13 == x13 = 0 /\ Zero14
Zero12 == x12 = 0 /\ Zero13
Zero11 == x11 = 0 /\ Zero12
Zero10 == x10 = 0 /\ Zero11
Zero9 == x9 = 0 /\ Zero10
Zero8 == x8 = 0 /\ Zero9
Zero7 == x7 = 0 /\ Zero8
Zero1 == x1 = 0 /\ x2 = 0 /\ x3 = 0 /\ x4 = 0 /\ x5 = 0 /\ x6 = 0 /\ Zero7

KeptInit ==
    /\ Init
    /\ \/ part = "pool" /\ Zero1
       \/ part = "jar" /\ Jar!Init /\ Zero9
       \/ part = "usage" /\ Usage!Init /\ Zero8
       \/ part = "catalogue" /\ Catalogue!Init /\ Zero8
       \/ part = "logins" /\ OAuth!Init /\ Zero8
       \/ part = "history" /\ History!Init /\ Zero8
       \/ part = "talks" /\ Talks!Init /\ Zero7
       \/ part = "settings" /\ Config!Init

KeptNext ==
    /\ UNCHANGED part
    /\ \/ part = "pool" /\ Next /\ UNCHANGED from1
       \/ /\ UNCHANGED vars
          /\ \/ part = "jar" /\ Jar!Next /\ UNCHANGED from9
             \/ part = "usage" /\ Usage!Next /\ UNCHANGED from8
             \/ part = "catalogue" /\ Catalogue!Next /\ UNCHANGED from8
             \/ part = "logins" /\ OAuth!Next /\ UNCHANGED from8
             \/ part = "history" /\ History!Next /\ UNCHANGED from8
             \/ part = "talks" /\ Talks!Next /\ UNCHANGED from7
             \/ part = "settings" /\ Config!Next

allVars == <<part, vars, from1>>

KeptSpec == KeptInit /\ [][KeptNext]_allVars

-----------------------------------------------------------------------------
(* Properties of the parts *)

\* Cookies the jar has answered for are in its file or on their way there,
\* and a torn file is never the one a start reads, as long as no two saves
\* overlap (persist, critical saves and load of CookieJar).
CookiesSurvive ==
    part = "jar" => Jar!TypeOK /\ Jar!CookiesSurvive

\* The total the usage history shows is what was used, whatever is reset or
\* removed and wherever the server stops, as long as no crash brings counters
\* back that were dropped (UsageStatsStore).
HistoryAddsUp ==
    part = "usage" => Usage!TypeOK /\ Usage!HistoryAddsUp

\* A model some plan is routed to is one the catalogue knows, in whatever
\* order fetches, a reload and the cache come (ModelStore).
RoutedIsKnown ==
    part = "catalogue" => Catalogue!TypeOK /\ Catalogue!RoutedIsKnown

\* A running server always has the next fetch of models set up or under way
\* (ModelFetcher).
FetchLoopGoesOn ==
    part = "catalogue" => Catalogue!FetchLoopGoesOn

\* The code of a login is exchanged once, a login said to be completed has its
\* account, and one callback server listens, whatever pastes, callbacks and
\* timeouts cross (oauth-pkce.ts, routes/auth.ts).
LoginsSound ==
    part = "logins" =>
      /\ OAuth!TypeOK /\ OAuth!CodeExchangedOnce
      /\ OAuth!CompletedHasAccount /\ OAuth!OneCallbackServer

\* The request history is what was recorded less what is too old, also after a
\* crash between the renames of a rewrite, and its pages show every record
\* once (RequestHistoryStore).
LedgerSound ==
    part = "history" => History!TypeOK /\ History!LedgerSurvives /\ History!PagesShowAll

\* The table of conversations says of a response what is true of it, and a
\* request that goes on from one goes to its account and names it there,
\* whatever fails over or ends in between (SessionAffinityMap, /v1/responses).
ConversationsKept ==
    part = "talks" => Talks!TypeOK /\ Talks!ConversationsKept

\* What was saved last is in force and in the file, a key that was changed
\* meanwhile is the only one a remote request takes away, and the version of
\* the appcast in force is the one saved (config.ts, update-checker.ts).
SettingsSound ==
    part = "settings" =>
      /\ Config!TypeOK /\ Config!SavedIsInForce /\ Config!KeyStays /\ Config!VersionInForce
=============================================================================
