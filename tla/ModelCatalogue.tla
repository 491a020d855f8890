--------------------------- MODULE ModelCatalogue ---------------------------
(***************************************************************************)
(* The models the proxy knows (src/models/model-store.ts): models.yaml,    *)
(* the cache of earlier answers, and the lists the upstream gives for each *)
(* plan, fetched by a loop and on demand (src/models/model-fetcher.ts).    *)
(*                                                                         *)
(* Data abstraction: a model is its id and a name is the id with at most   *)
(* one effort and one service tier; what is known of a model besides is    *)
(* left out.  Which plans have an account that may be asked is a free      *)
(* choice.  The cache is written in the background, by writes that may     *)
(* overlap: it then holds either content or nothing that can be read.      *)
(***************************************************************************)
EXTENDS Naturals, Sequences, SequencesExt

CONSTANTS
    Models, Plans,
    Efforts, Tiers,   \* EFFORT_SUFFIXES, SERVICE_TIER_SUFFIXES
    AliasOf,          \* aliases of models.yaml: a function on alias names
    DefaultModel,     \* model.default of the configuration
    MaxFetchRetries,  \* MAX_RETRIES
    Unreadable        \* content of a cache that was cut off

VARIABLES
    running,     \* the server runs
    catalogue,   \* ids of ModelStore.catalog
    planModels,  \* planModelMap: a function on the plans that were fetched
    loop,        \* ModelFetcher: stopped, its timer, its retries
    fetches,     \* plans whose answer each fetch awaits, and anySuccess
    writes,      \* contents that are being written to the cache
    cache        \* what models-cache.yaml holds

modelVars == <<running, catalogue, planModels, loop, fetches, writes, cache>>

\* The loop has one fetch at a time, and so, by bound, have its other callers.
Fetchers == {"loop", "request"}
Timers == {"none", "initial", "hourly"}
NoFetch == [waits |-> FALSE, plans |-> {}, any |-> FALSE]
NotStarted == [stopped |-> TRUE, timer |-> "none", attempt |-> 0, initial |-> FALSE]

TypeOK ==
    /\ running \in BOOLEAN
    /\ catalogue \subseteq Models
    /\ DOMAIN planModels \subseteq Plans /\ \A p \in DOMAIN planModels : planModels[p] \subseteq Models
    /\ loop \in [stopped : BOOLEAN, timer : Timers, attempt : 0 .. MaxFetchRetries, initial : BOOLEAN]
    /\ fetches \in [Fetchers -> [waits : BOOLEAN, plans : SUBSET Plans, any : BOOLEAN]]
    /\ writes \subseteq SUBSET Models
    /\ cache \in (SUBSET Models) \cup {Unreadable}

NoPlans == [p \in {} |-> {}]

Init ==
    /\ running = FALSE
    /\ catalogue = {}
    /\ planModels = NoPlans
    /\ loop = NotStarted
    /\ fetches = [f \in Fetchers |-> NoFetch]
    /\ writes = {}
    /\ cache \in (SUBSET Models) \cup {Unreadable}

-----------------------------------------------------------------------------
(* ModelStore *)

\* Mutant of LoadStatic: the plans are kept over a reload.
LoadCatalogueOnly(static) ==
    /\ catalogue' = static \cup (IF cache = Unreadable THEN {} ELSE cache)
    /\ planModels' = planModels

\* loadStatic, with whatever models.yaml now lists; a cache that cannot be
\* read is ignored.
LoadStatic(static) ==
    /\ catalogue' = static \cup (IF cache = Unreadable THEN {} ELSE cache)
    /\ planModels' = NoPlans

\* applyBackendModelsForPlan: merge, syncCache, then the plan's own list.
Apply(plan, list) ==
    /\ catalogue' = catalogue \cup list
    /\ writes' = writes \cup {catalogue'}
    /\ planModels' = [p \in DOMAIN planModels \cup {plan} |->
                         IF p = plan THEN list ELSE planModels[p]]

\* getModelPlanTypes
PlansOf(m) == {p \in DOMAIN planModels : m \in planModels[p]}

\* A name: an id or an alias, then suffixes.
Known(name) == Len(name) = 1 /\ Head(name) \in DOMAIN AliasOf \cup catalogue

Resolve(name) ==
    IF ~Known(name) THEN DefaultModel
    ELSE IF Head(name) \in DOMAIN AliasOf THEN AliasOf[Head(name)] ELSE Head(name)

Without(name, suffixes) ==
    IF Len(name) > 1 /\ Last(name) \in suffixes THEN Front(name) ELSE name

\* parseModelName: which model a request is sent to
ModelNamed(name) ==
    IF Known(name) THEN Resolve(name)
    ELSE Resolve(Without(Without(name, Tiers), Efforts))

WriteEnds(w) ==
    /\ w \in writes
    /\ writes' = writes \ {w}
    /\ cache' \in {cache, w} \cup (IF writes' = {} THEN {} ELSE {Unreadable})
    /\ UNCHANGED <<running, catalogue, planModels, loop, fetches>>

-----------------------------------------------------------------------------
(* ModelFetcher *)

\* scheduleNext
Hourly(l) == IF l.stopped THEN l ELSE [l EXCEPT !.timer = "hourly", !.initial = FALSE]

\* Mutant of LoopAfter: the last retry does not fall back to the hourly timer.
LoopGivesUp(success) ==
    IF loop.initial /\ ~success /\ ~loop.stopped
    THEN IF loop.attempt < MaxFetchRetries
         THEN [loop EXCEPT !.timer = "initial", !.attempt = @ + 1]
         ELSE loop
    ELSE Hourly(loop)

\* What follows a fetch of the loop: a retry, or the next hour.
LoopAfter(success) ==
    IF loop.initial /\ ~success /\ ~loop.stopped /\ loop.attempt < MaxFetchRetries
    THEN [loop EXCEPT !.timer = "initial", !.attempt = @ + 1]
    ELSE Hourly(loop)

Ended(f, success) ==
    /\ fetches' = [fetches EXCEPT ![f] = NoFetch]
    /\ loop' = IF f = "loop" THEN LoopAfter(success) ELSE loop

\* fetchModelsFromBackend, with one request for each of these plans.
Begin(f, plans, l) ==
    /\ fetches' = [fetches EXCEPT ![f] = [waits |-> TRUE, plans |-> plans, any |-> FALSE]]
    /\ loop' = l

LoopTimer ==
    /\ running /\ loop.timer # "none"
    /\ \E plans \in SUBSET Plans : Begin("loop", plans, [loop EXCEPT !.timer = "none"])
    /\ UNCHANGED <<running, catalogue, planModels, writes, cache>>

\* triggerImmediate, by a route
Trigger ==
    /\ running /\ ~fetches["request"].waits
    /\ \E plans \in SUBSET Plans : Begin("request", plans, loop)
    /\ UNCHANGED <<running, catalogue, planModels, writes, cache>>

\* reloadAllConfigs: load, then triggerImmediate.
Reload ==
    /\ running /\ ~fetches["request"].waits
    /\ \E static \in SUBSET Models : LoadStatic(static)
    /\ \E plans \in SUBSET Plans : Begin("request", plans, loop)
    /\ UNCHANGED <<running, writes, cache>>

\* An answer for one plan; no list, or an empty one, keeps what there is.
Answered(f, p, list) ==
    /\ running /\ p \in fetches[f].plans
    /\ fetches' = [fetches EXCEPT ![f].plans = @ \ {p}, ![f].any = @ \/ list # {}]
    /\ IF list = {} THEN UNCHANGED <<catalogue, planModels, writes>> ELSE Apply(p, list)
    /\ UNCHANGED <<running, loop, cache>>

\* Promise.allSettled: all have answered.
Settled(f) ==
    /\ running /\ fetches[f].waits /\ fetches[f].plans = {}
    /\ Ended(f, fetches[f].any)
    /\ UNCHANGED <<running, catalogue, planModels, writes, cache>>

-----------------------------------------------------------------------------
(* The server *)

Start ==
    /\ ~running
    /\ running' = TRUE
    /\ \E static \in SUBSET Models : LoadStatic(static)
    /\ loop' = [stopped |-> FALSE, timer |-> "initial", attempt |-> 0, initial |-> TRUE]
    /\ UNCHANGED <<fetches, writes, cache>>

\* close(): fetches that wait go on until the process exits.
Stop ==
    /\ running
    /\ loop' = [loop EXCEPT !.stopped = TRUE, !.timer = "none"]
    /\ UNCHANGED <<running, catalogue, planModels, fetches, writes, cache>>

Exit ==
    /\ running
    /\ running' = FALSE
    /\ loop' = NotStarted
    /\ fetches' = [f \in Fetchers |-> NoFetch]
    /\ writes' = {}
    /\ cache' \in {cache} \cup (IF writes = {} THEN {} ELSE {Unreadable})
    /\ UNCHANGED <<catalogue, planModels>>

Next ==
    \/ Start \/ Stop \/ Exit \/ LoopTimer \/ Trigger \/ Reload
    \/ \E w \in SUBSET Models : WriteEnds(w)
    \/ \E f \in Fetchers :
          \/ Settled(f)
          \/ \E p \in Plans, list \in SUBSET Models : Answered(f, p, list)

Spec == Init /\ [][Next]_modelVars

-----------------------------------------------------------------------------
(* Properties *)

\* A model by which acquire() picks the accounts of some plan is one that a
\* request for it, with any suffixes, is sent to, and not the default model:
\* whichever answers come late, after a reload or from a cache cut off
\* (account-lifecycle.ts, getModelPlanTypes against parseModelName).
RoutedIsKnown ==
    running => \A m \in Models : PlansOf(m) # {} =>
        /\ ModelNamed(<<m>>) = m
        /\ \A e \in Efforts, t \in Tiers :
              ModelNamed(<<m, e>>) = m /\ ModelNamed(<<m, t>>) = m /\ ModelNamed(<<m, e, t>>) = m

\* Until it is stopped the loop has exactly one of a timer and a fetch, so that
\* models are neither forgotten nor fetched by two loops; afterwards no timer.
FetchLoopGoesOn ==
    running => IF loop.stopped THEN loop.timer = "none"
               ELSE (loop.timer # "none") # fetches["loop"].waits
-----------------------------------------------------------------------------
(* What the properties rest on, for the proofs *)

\* What a plan was answered is in the catalogue.
PlansKnown == running => \A p \in DOMAIN planModels : planModels[p] \subseteq catalogue

\* Nothing is fetched while the server is down.
NoFetchDown == ~running => \A f \in Fetchers : ~fetches[f].waits

ModelsInv == TypeOK /\ PlansKnown /\ NoFetchDown /\ FetchLoopGoesOn
=============================================================================
