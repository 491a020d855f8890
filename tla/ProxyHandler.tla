---------------------------- MODULE ProxyHandler ---------------------------
(***************************************************************************)
(* Client requests on the account pool: handleProxyRequest and             *)
(* handleNonStreaming (src/routes/shared/proxy-handler.ts), the compact    *)
(* endpoint (src/routes/responses.ts), handleCodexApiError and             *)
(* releaseAccount, interleaved with the dashboard, the refresh scheduler   *)
(* and the clock.                                                          *)
(*                                                                         *)
(* The server is one event loop: what runs between two awaits is one       *)
(* action.  A request waits for the upstream in one of four places:        *)
(*   "upstream"    createResponse inside the retry loop                    *)
(*   "streaming"   the body of a streamed answer is forwarded              *)
(*   "collecting"  the body of a non-streamed answer is read               *)
(*   "again"       createResponse inside handleNonStreaming, after the     *)
(*                 body turned out to be empty                             *)
(* The sleep of staggerIfNeeded and the retries of withRetry on the same   *)
(* account change nothing and are part of the wait that follows.           *)
(***************************************************************************)
EXTENDS Integers, FiniteSets, AccountPool

CONSTANTS
    Requests,         \* slots for concurrent requests; each is used again and again
    NoAccount,        \* "no account": not an entry id
    MaxEmptyRetries,  \* MAX_EMPTY_RETRIES
    Suited,           \* Suited[r]: accounts whose plan serves the model of request r
    Outcomes,         \* what the upstream may do in this instance
    Events            \* which other actors take part in this instance

AllOutcomes == {"ok", "limited", "429", "402", "403", "401", "deactivated",
                "model", "error", "thrown", "empty", "broken"}

AllEvents == {"admin", "reset", "refresh", "ttl", "limit", "lapse"}

ASSUME ProxyAssumption ==
    /\ NoAccount \notin Accounts
    /\ IsFiniteSet(Requests)
    /\ MaxEmptyRetries \in Nat
    /\ Suited \in [Requests -> SUBSET Accounts]
    /\ Outcomes \subseteq AllOutcomes
    /\ Events \subseteq AllEvents

VARIABLES
    pc,            \* where the request waits; "idle" when there is none
    kind,          \* "stream", "collect" or "compact"
    cur,           \* entryId, currentEntryId in handleNonStreaming
    origin,        \* entryId of the retry loop, while handleNonStreaming runs
    tried,         \* triedEntryIds
    released,      \* the guard of releaseAccount
    modelRetried,
    empties,       \* attempt - 1 in handleNonStreaming
    refreshing,    \* accounts a scheduler refresh is running for
    off,           \* history: accounts the user has switched off, and not on again
    owed,          \* history: acquisitions minus releases of a request, per account
    logged         \* history: ledger records of a request, none, one or more (2)

reqVars == <<pc, kind, cur, origin, tried, released, modelRetried, empties, owed, logged>>

vars == <<poolVars, reqVars, refreshing, off>>

Kinds == {"stream", "collect", "compact"}

Places == {"idle", "upstream", "streaming", "collecting", "again"}

TypeOK ==
    /\ PoolTypeOK
    /\ pc \in [Requests -> Places]
    /\ kind \in [Requests -> Kinds]
    /\ cur \in [Requests -> Accounts \cup {NoAccount}]
    /\ origin \in [Requests -> Accounts \cup {NoAccount}]
    /\ tried \in [Requests -> SUBSET Accounts]
    /\ released \in [Requests -> SUBSET Accounts]
    /\ modelRetried \in [Requests -> BOOLEAN]
    /\ empties \in [Requests -> 0 .. MaxEmptyRetries]
    /\ refreshing \subseteq Accounts
    /\ off \subseteq Accounts
    /\ owed \in [Requests -> [Accounts -> Int]]
    /\ logged \in [Requests -> 0 .. 2]

Init ==
    /\ PoolInit
    /\ pc = [r \in Requests |-> "idle"]
    /\ kind = [r \in Requests |-> "stream"]
    /\ cur = [r \in Requests |-> NoAccount]
    /\ origin = [r \in Requests |-> NoAccount]
    /\ tried = [r \in Requests |-> {}]
    /\ released = [r \in Requests |-> {}]
    /\ modelRetried = [r \in Requests |-> FALSE]
    /\ empties = [r \in Requests |-> 0]
    /\ refreshing = {}
    /\ off = {}
    /\ owed = [r \in Requests |-> [a \in Accounts |-> 0]]
    /\ logged = [r \in Requests |-> 1]

-----------------------------------------------------------------------------
(* Steps shared by the handlers *)

\* releaseAccount with the request's guard: what it leaves of the slots s,
\* and of the account of acquisitions and releases d.
GuardedRelease(s, a, guard) == IF a \in guard THEN s ELSE Release(s, a)

Debited(d, a, guard) == IF a \in guard THEN d ELSE [d EXCEPT ![a] = @ - 1]

\* n records are added to the request ledger.
Log(r, n) == logged' = [logged EXCEPT ![r] = IF @ + n > 2 THEN 2 ELSE @ + n]

\* acquire gives account a out of the pool with entries e and slots s, or
\* gives nothing; both refresh the statuses and drop the stale slots.
Take(a, e, s) ==
    /\ entry' = Rechecked(e)
    /\ slots' = [Swept(s) EXCEPT ![a] = Pushed(@)]

TakeNone(e, s) ==
    /\ entry' = Rechecked(e)
    /\ slots' = Swept(s)

\* The handler returns: its local variables are gone.
Return(r) ==
    /\ pc' = [pc EXCEPT ![r] = "idle"]
    /\ kind' = [kind EXCEPT ![r] = "stream"]
    /\ cur' = [cur EXCEPT ![r] = NoAccount]
    /\ origin' = [origin EXCEPT ![r] = NoAccount]
    /\ tried' = [tried EXCEPT ![r] = {}]
    /\ released' = [released EXCEPT ![r] = {}]
    /\ modelRetried' = [modelRetried EXCEPT ![r] = FALSE]
    /\ empties' = [empties EXCEPT ![r] = 0]

\* Mutant of Finish: the outcome is not recorded.
FinishUnrecorded(r) ==
    /\ slots' = GuardedRelease(slots, cur[r], released[r])
    /\ owed' = [owed EXCEPT ![r] = Debited(@, cur[r], released[r])]
    /\ Return(r)
    /\ UNCHANGED <<live, gone, entry, refreshing, off, logged>>

\* The handler records the outcome, releases its account and returns.
Finish(r) ==
    /\ slots' = GuardedRelease(slots, cur[r], released[r])
    /\ owed' = [owed EXCEPT ![r] = Debited(@, cur[r], released[r])]
    /\ Log(r, 1)
    /\ Return(r)
    /\ UNCHANGED <<live, gone, entry, refreshing, off>>

\* No account is left in the pool (e, s): the handler gives up; n records go
\* to the ledger.
GiveUp(r, e, s, d, n) ==
    /\ TakeNone(e, s)
    /\ owed' = [owed EXCEPT ![r] = d]
    /\ Log(r, n)
    /\ Return(r)

FailoverTo(r, a, e, s, d, guard, mr) ==
    /\ Take(a, e, s)
    /\ cur' = [cur EXCEPT ![r] = a]
    /\ tried' = [tried EXCEPT ![r] = @ \cup {a}]
    /\ owed' = [owed EXCEPT ![r] = [d EXCEPT ![a] = @ + 1]]
    /\ released' = [released EXCEPT ![r] = guard]
    /\ modelRetried' = [modelRetried EXCEPT ![r] = mr]
    /\ UNCHANGED <<pc, kind, origin, empties, logged>>

\* Mutant of Failover: each failover starts over, accounts already tried are
\* not excluded.
FailoverAnywhere(r, e, s, d, guard, mr) ==
    LET candidates == Choices(e, s, {}, Suited[r], NoAccount)
    IN  /\ \/ \E a \in candidates : FailoverTo(r, a, e, s, d, {}, mr)
           \/ candidates = {} /\ GiveUp(r, e, s, d, 0)
        /\ UNCHANGED <<live, gone, refreshing, off>>

\* Another account is acquired among those not yet tried, out of the pool
\* (e, s) that the error left, or the handler gives up with the error.  Only
\* the compact endpoint writes the ledger when it gives up.
Failover(r, e, s, d, guard, mr) ==
    LET candidates == Choices(e, s, tried[r], Suited[r], NoAccount)
    IN  /\ \/ \E a \in candidates : FailoverTo(r, a, e, s, d, guard, mr)
           \/ /\ candidates = {}
              /\ GiveUp(r, e, s, d, IF kind[r] = "compact" THEN 1 ELSE 0)
        /\ UNCHANGED <<live, gone, refreshing, off>>

-----------------------------------------------------------------------------
(* The request handlers *)

StartOn(r, k, a) ==
    /\ Take(a, entry, slots)
    /\ pc' = [pc EXCEPT ![r] = "upstream"]
    /\ kind' = [kind EXCEPT ![r] = k]
    /\ cur' = [cur EXCEPT ![r] = a]
    /\ tried' = [tried EXCEPT ![r] = {a}]
    /\ owed' = [owed EXCEPT ![r] = [b \in Accounts |-> IF b = a THEN 1 ELSE 0]]
    /\ logged' = [logged EXCEPT ![r] = 0]
    /\ UNCHANGED <<origin, released, modelRetried, empties>>

Refuse(r, k) ==
    /\ TakeNone(entry, slots)
    /\ owed' = [owed EXCEPT ![r] = [b \in Accounts |-> 0]]
    /\ logged' = [logged EXCEPT ![r] = IF k = "compact" THEN 1 ELSE 0]
    /\ UNCHANGED <<pc, kind, cur, origin, tried, released, modelRetried, empties>>

\* A request arrives; "preferred" is the account session affinity names, if
\* any.  When there is no account the answer is immediate.
StartRequest(r, k, preferred) ==
    LET candidates == Choices(entry, slots, {}, Suited[r], preferred)
    IN  /\ pc[r] = "idle"
        /\ k = "compact" => preferred = NoAccount
        /\ \/ \E a \in candidates : StartOn(r, k, a)
           \/ candidates = {} /\ Refuse(r, k)
        /\ UNCHANGED <<live, gone, refreshing, off>>

\* createResponse answers.  If the answer says the quota is used up the
\* account is marked rate limited; the request goes on all the same.
UpstreamAnswers(r, o) ==
    /\ pc[r] = "upstream"
    /\ kind[r] # "compact"
    /\ o \in {"ok", "limited"} \cap Outcomes
    /\ IF o = "limited"
       THEN /\ entry' = Mutated(entry, cur[r], LimitMarked(entry[cur[r]]))
            /\ slots' = Cleared(slots, cur[r])
       ELSE UNCHANGED <<entry, slots>>
    /\ pc' = [pc EXCEPT ![r] = IF kind[r] = "stream" THEN "streaming" ELSE "collecting"]
    /\ origin' = [origin EXCEPT ![r] = IF kind[r] = "stream" THEN @ ELSE cur[r]]
    /\ UNCHANGED <<live, gone, kind, cur, tried, released, modelRetried, empties,
                   owed, logged, refreshing, off>>

\* createCompactResponse answers.
CompactAnswers(r) ==
    /\ pc[r] = "upstream"
    /\ kind[r] = "compact"
    /\ "ok" \in Outcomes
    /\ Finish(r)

\* handleCodexApiError, sections 2 to 5: what it makes of the entry.
Punished(e, o) ==
    CASE o = "429" -> LimitMarked(e)
      [] o = "402" -> Marked(e, "quota_exhausted")
      [] o = "401" -> Marked(e, "expired")
      [] OTHER     -> Marked(e, "banned")

AccountErrors == {"429", "402", "403", "401", "deactivated"}

\* The upstream rejects the account: it is marked and another one is tried.
AccountRejected(r, o) ==
    /\ pc[r] = "upstream"
    /\ o \in AccountErrors \cap Outcomes
    /\ Failover(r, Mutated(entry, cur[r], Punished(entry[cur[r]], o)),
                   Cleared(slots, cur[r]), owed[r], released[r], modelRetried[r])

\* Mutant of ModelRejected: the account is not released before the failover.
ModelRejectedUnreleased(r) ==
    /\ pc[r] = "upstream"
    /\ "model" \in Outcomes
    /\ ~modelRetried[r]
    /\ Failover(r, entry, slots, owed[r], released[r], kind[r] # "compact")

\* The account's plan does not serve the model: once (always, on the compact
\* endpoint, which never sets modelRetried) another account is tried.
ModelRejected(r) ==
    /\ pc[r] = "upstream"
    /\ "model" \in Outcomes
    /\ ~modelRetried[r]
    /\ Failover(r, entry,
                   GuardedRelease(slots, cur[r], released[r]),
                   Debited(owed[r], cur[r], released[r]),
                   released[r] \cup {cur[r]},
                   kind[r] # "compact")

\* Any other error of createResponse is the answer to the client.
UpstreamFails(r) ==
    /\ pc[r] = "upstream"
    /\ \/ {"error", "thrown"} \cap Outcomes # {}
       \/ "model" \in Outcomes /\ modelRetried[r]
    /\ Finish(r)

\* The stream ends: complete, broken, or because the client went away.
StreamEnds(r) ==
    /\ pc[r] = "streaming"
    /\ Finish(r)

\* collectTranslator gives the whole body, or fails for good.
CollectEnds(r) ==
    /\ pc[r] = "collecting"
    /\ \/ "ok" \in Outcomes
       \/ "broken" \in Outcomes
       \/ "empty" \in Outcomes /\ empties[r] = MaxEmptyRetries
    /\ Finish(r)

\* Mutant of AgainOn: the release of the account is not put down in the guard.
AgainOnForgetting(r, a, s, d) ==
    /\ Take(a, entry, s)
    /\ pc' = [pc EXCEPT ![r] = "again"]
    /\ cur' = [cur EXCEPT ![r] = a]
    /\ empties' = [empties EXCEPT ![r] = @ + 1]
    /\ owed' = [owed EXCEPT ![r] = [d EXCEPT ![a] = @ + 1]]
    /\ UNCHANGED <<kind, origin, tried, released, modelRetried, logged>>

AgainOn(r, a, s, d) ==
    /\ Take(a, entry, s)
    /\ pc' = [pc EXCEPT ![r] = "again"]
    /\ cur' = [cur EXCEPT ![r] = a]
    /\ released' = [released EXCEPT ![r] = @ \cup {cur[r]}]
    /\ empties' = [empties EXCEPT ![r] = @ + 1]
    /\ owed' = [owed EXCEPT ![r] = [d EXCEPT ![a] = @ + 1]]
    /\ UNCHANGED <<kind, origin, tried, modelRetried, logged>>

\* The body is empty: the account is released and any available account,
\* tried or not, is acquired for another attempt.
CollectEmpty(r) ==
    LET s == GuardedRelease(slots, cur[r], released[r])
        d == Debited(owed[r], cur[r], released[r])
        candidates == Choices(entry, s, {}, Suited[r], NoAccount)
    IN  /\ pc[r] = "collecting"
        /\ "empty" \in Outcomes
        /\ empties[r] < MaxEmptyRetries
        /\ \/ \E a \in candidates : AgainOn(r, a, s, d)
           \/ candidates = {} /\ GiveUp(r, entry, s, d, 0)
        /\ UNCHANGED <<live, gone, refreshing, off>>

AgainAnswers(r) ==
    /\ pc[r] = "again"
    /\ "ok" \in Outcomes
    /\ pc' = [pc EXCEPT ![r] = "collecting"]
    /\ UNCHANGED <<poolVars, kind, cur, origin, tried, released, modelRetried,
                   empties, owed, logged, refreshing, off>>

\* A CodexApiError of the repeated createResponse is the answer.
AgainFails(r) ==
    /\ pc[r] = "again"
    /\ (AccountErrors \cup {"model", "error"}) \cap Outcomes # {}
    /\ Finish(r)

\* Any other exception is recorded, the account released, and the exception
\* thrown on to the catch of the retry loop, which records it once more and
\* releases the account the retry loop knows of.
AgainThrows(r) ==
    /\ pc[r] = "again"
    /\ "thrown" \in Outcomes
    /\ slots' = GuardedRelease(GuardedRelease(slots, cur[r], released[r]),
                               origin[r], released[r] \cup {cur[r]})
    /\ owed' = [owed EXCEPT ![r] = Debited(Debited(@, cur[r], released[r]),
                                           origin[r], released[r] \cup {cur[r]})]
    /\ Log(r, 2)
    /\ Return(r)
    /\ UNCHANGED <<live, gone, entry, refreshing, off>>

\* A codex.rate_limits event inside the body of the first answer: the
\* callback marks the account of the retry loop.
RateLimitEvent(r) ==
    /\ pc[r] = "streaming" \/ (pc[r] = "collecting" /\ empties[r] = 0)
    /\ "limited" \in Outcomes
    /\ entry' = Mutated(entry, cur[r], LimitMarked(entry[cur[r]]))
    /\ slots' = Cleared(slots, cur[r])
    /\ UNCHANGED <<live, gone, reqVars, refreshing, off>>

-----------------------------------------------------------------------------
(* The other actors *)

\* doRefresh gets as far as marking the account.
RefreshBegins(a) ==
    /\ "refresh" \in Events
    /\ a \in live \ refreshing
    /\ SchedulerMark(a, "refreshing")
    /\ refreshing' = refreshing \cup {a}
    /\ UNCHANGED <<reqVars, off>>

\* doRefresh ends: a new token, all attempts used up, or a dead refresh token.
RefreshEnds(a) ==
    /\ a \in refreshing
    /\ \/ SchedulerUpdateToken(a)
       \/ SchedulerMark(a, "active")
       \/ SchedulerMark(a, "expired")
    /\ refreshing' = refreshing \ {a}
    /\ UNCHANGED <<reqVars, off>>

\* The user switches an account on or off.
Switch(a, s) ==
    /\ "admin" \in Events
    /\ SetStatus(a, s)
    /\ off' = IF s = "disabled" THEN off \cup {a} ELSE off \ {a}
    /\ UNCHANGED <<reqVars, refreshing>>

\* The user deletes an account or logs in with one.
Remove(a) ==
    /\ "admin" \in Events
    /\ RemoveAccount(a)
    /\ off' = off \ {a}
    /\ UNCHANGED <<reqVars, refreshing>>

Add(a, tok) ==
    /\ "admin" \in Events
    /\ AddAccount(a, tok)
    /\ off' = off \ {a}
    /\ UNCHANGED <<reqVars, refreshing>>

Reset(a) ==
    /\ "reset" \in Events
    /\ ResetUsage(a)
    /\ UNCHANGED <<reqVars, refreshing, off>>

List == ListAccounts /\ UNCHANGED <<reqVars, refreshing, off>>

SlotTimesOut(a) ==
    /\ "ttl" \in Events
    /\ SlotAges(a)
    /\ UNCHANGED <<reqVars, refreshing, off>>

LimitTimesOut(a) ==
    /\ "limit" \in Events
    /\ LimitPasses(a)
    /\ UNCHANGED <<reqVars, refreshing, off>>

TokenTimesOut(a) ==
    /\ "lapse" \in Events
    /\ TokenLapses(a)
    /\ UNCHANGED <<reqVars, refreshing, off>>

-----------------------------------------------------------------------------

\* The steps a request in progress takes towards its answer.
RequestStep(r) ==
    \/ \E o \in {"ok", "limited"} : UpstreamAnswers(r, o)
    \/ CompactAnswers(r)
    \/ \E o \in AccountErrors : AccountRejected(r, o)
    \/ ModelRejected(r)
    \/ UpstreamFails(r)
    \/ StreamEnds(r)
    \/ CollectEnds(r)
    \/ CollectEmpty(r)
    \/ AgainAnswers(r)
    \/ AgainFails(r)
    \/ AgainThrows(r)

Next ==
    \/ \E r \in Requests :
          \/ \E k \in Kinds, p \in Accounts \cup {NoAccount} : StartRequest(r, k, p)
          \/ RequestStep(r)
          \/ RateLimitEvent(r)
    \/ \E a \in Accounts :
          \/ RefreshBegins(a) \/ RefreshEnds(a)
          \/ \E s \in {"active", "disabled"} : Switch(a, s)
          \/ Remove(a)
          \/ \E tok \in Tokens : Add(a, tok)
          \/ Reset(a)
          \/ SlotTimesOut(a) \/ LimitTimesOut(a) \/ TokenTimesOut(a)
    \/ List

Spec == Init /\ [][Next]_vars

\* Every upstream call ends: the transport and withRetry bound it.
FairSpec == Spec /\ \A r \in Requests : WF_vars(RequestStep(r))

\* ... time passes and somebody reads the account list (the dashboard polls
\* it; every acquire does the same to the statuses).
TimedSpec ==
    /\ FairSpec
    /\ \A a \in Accounts : WF_vars(SlotTimesOut(a)) /\ WF_vars(LimitTimesOut(a))
    /\ WF_vars(List)

\* ... and clients keep sending requests.
TrafficSpec ==
    /\ TimedSpec
    /\ \A r \in Requests :
          WF_vars(\E k \in Kinds, p \in Accounts \cup {NoAccount} : StartRequest(r, k, p))

-----------------------------------------------------------------------------
(* Properties *)

Idle(r) == pc[r] = "idle"

\* The requests in flight on account a.
Holders(a) == {r \in Requests : cur[r] = a}

\* No account ever has more slots taken than auth.max_concurrent_per_account,
\* whatever is cleared, released late or acquired again in between
\* (AccountLifecycle.acquire).  The limit is a constant here: one lowered by the
\* settings holds for the next acquires, and leaves the slots that are taken.
SlotsWithinLimit == \A a \in Accounts : Held(slots[a]) <= MaxConcurrent

\* A request never gives back more slots of an account than it took there:
\* on no path through the retry loops, their catch clauses and the exception
\* that leaves handleNonStreaming for the catch of handleProxyRequest is an
\* account released twice (the guard of releaseAccount).
NoDoubleRelease == \A r \in Requests, a \in Accounts : owed[r][a] >= 0

\* An account that was removed from the pool keeps no slots, although requests
\* that are still in flight on it release it later (removeAccount, popSlot).
RemovedHoldNoSlots == \A a \in Accounts \ live : slots[a] = NoSlots

\* Every slot stands for a request in flight ("Each entry = one in-flight
\* request", account-lifecycle.ts): nothing is held for a request that ended.
NoPhantomSlots == \A a \in Accounts : Held(slots[a]) <= Cardinality(Holders(a))

\* A request that ends without a record in the ledger ended because there was
\* no account left for it that it had not tried: every other end, also those
\* by the catch clauses, is recorded (finalizeRequestHistory).
OnlyRefusalsUnrecorded ==
    [][\A r \in Requests :
         pc[r] # "idle" /\ pc'[r] = "idle" /\ logged'[r] = 0
            => Choices(entry', slots', tried[r], Suited[r], NoAccount) = {}]_vars

\* An account the user has switched off is not active until somebody switches
\* it on or imports its credentials ("Don't reactivate manually disabled or
\* banned accounts", account-registry.ts): neither a late answer of the
\* upstream, the clock nor a background refresh turns it on.
OffStaysOff == \A a \in off : entry[a].status # "active"

\* A rate limit is lifted when its time has come (refreshStatus; "recovers
\* automatically on expiry", CHANGELOG.md), in spite of late answers of
\* requests that were in flight when the limit was set.
RateLimitLifted ==
    \A a \in Accounts :
        a \in live /\ entry[a].status = "rate_limited"
            ~> a \notin live \/ entry[a].status # "rate_limited"

\* Every request is answered: the failover visits no account twice and the
\* retries of empty answers are bounded.
EveryRequestAnswered == \A r \in Requests : ~Idle(r) ~> Idle(r)

\* While requests keep coming and the pool has an active account, requests
\* keep being served: slots that were never given back (see NoPhantomSlots)
\* do not take an account out of service for good, acquire drops them after
\* the TTL.
PoolNeverWedges ==
    (\E a \in live : entry[a].status = "active") ~> (\E r \in Requests : ~Idle(r))
=============================================================================
