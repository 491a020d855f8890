# Codex Proxy in TLA+

Codex Proxy is one Node.js process that answers OpenAI, Anthropic and Gemini
style requests through a pool of ChatGPT accounts. This directory holds TLA+
models of the parts whose correctness depends on the order in which things
happen, the TLC configurations that check them, and theorems about them that
the TLA+ proof system checks. Paths below are relative to the root of the
repository, `src/...` is the server.

Contents: 1 inventory, 2 modules and how they correspond to the code, 3 runs,
4 fairness, 5 proofs, 6 what is only model-checked and what the restrictions
of the runs leave out, 7 disagreements between text and code, 8 what is not
modelled, 9 plan.

## 1. Inventory

The server is an event loop: whatever runs between two `await`s is atomic. The
difficulties are the interleavings of handlers across awaits, timers, the files
that outlive the process, a second process on the same data directory, and an
upstream whose answers come late.

| Component | State | Operations | Hard behaviour | What makes it correct |
|---|---|---|---|---|
| Account pool (`src/auth/account-pool.ts`, `account-registry.ts`, `account-lifecycle.ts`) | entries by id; `acquireLocks`, the slots of the requests in flight | acquire, release, mark*, updateToken, remove, add, resetUsage, lazy refreshStatus | a mutation drops slots of requests in flight; slots expire; the oldest slot is popped, whoever took it | never more slots than the limit; a removed account holds none; a slot stands for a request; rate limits are lifted |
| Proxy requests (`src/routes/shared/proxy-handler.ts`, `proxy-error-handler.ts`, `account-acquisition.ts`, compact in `src/routes/responses.ts`) | per request: account, tried accounts, the guard of releases, retries | acquire, call, fail over, retry without the model, retry an empty answer, release, record | three nested retry loops, two catch clauses, one guard | each request is answered, releases at most what it took, is recorded |
| Refresh scheduler (`src/auth/refresh-scheduler.ts`) | timers, `_inFlight`, the semaphore and its queue | scheduleAll, scheduleOne, clearOne, doRefresh, recovery, destroy | timers, logins and probes act on an account whose refresh waits for the server; crash between exchange and save | a usable account always has a refresh to come; a token whose successor is stored is not sent again; the semaphore is exact |
| Refresh lock (`src/auth/refresh-lock.ts`) | one file per account | try to acquire, release, sweep at start | every system call may be separated from the next by another process | a mutex over processes; leftovers are broken |
| Account probe (`src/auth/health-check.ts`) | none, a second semaphore | probeAccount, batchHealthCheck | its one check is stale after its await | as for the scheduler |
| Account persistence (`src/auth/account-persistence.ts`) | accounts.json | load, save; immediate and debounced | a failed save; two processes that write the whole file | memory and disk do not lose the only good token |
| Request ledger (`src/routes/shared/request-history.ts`, `src/auth/request-history.ts`) | a ring of records | finalize, query | every exit of the handlers must record | one record per request |
| Session affinity (`src/auth/session-affinity.ts`) | response id -> account, conversation, turn state | record, lookup, expiry | a request fails over or retries between lookup and recording | an entry says what is true of its response; a conversation goes on |
| Account services (`src/services/*.ts`) | none | delete, switch, import, query | an import exchanges a token the scheduler is using | the account keeps the newest refresh token |
| OAuth login (`src/auth/oauth-pkce.ts`, `src/routes/auth.ts`) | PKCE sessions, completed logins, callback server | start, callback, paste, exchange, timeouts | three bearers of one code, expiry during an exchange, one port | a code is exchanged once; who is told "done" has an account |
| Proxy pool (`src/proxy/proxy-pool.ts`, `src/routes/proxies.ts`) | proxies and their status, assignments of accounts, round robin index, two timers, proxies.json | add, edit, enable, disable, remove, assign, pick, health checks, save, load | checks wait for the network while the user edits; debounced saves; a list that shrinks under the index | assignments name what is there; nothing stays unsaved; the user's switch wins; fair picks |
| Cookie jar (`src/proxy/cookie-jar.ts`) | cookies per account, cookies.json | capture, set, clear, expire, debounced, critical and final saves | asynchronous saves overlap; a crash between write and rename | the file is whole; no cookie is left unsaved |
| Usage statistics (`src/auth/usage-stats.ts`) | snapshots, baseline, over the accounts' counters | snapshot, recover, query | counters are reset and accounts removed; two files of different age | the history adds up to the totals, the totals to what was used |
| Model catalogue (`src/models/*.ts`) | models, aliases, models per plan, cache file, fetch loop | load, merge, fetch, reload, save | answers of plans and a reload in any order; retries of the loop | what routing knows can be asked for; the loop never stops or doubles |
| Rate limiter (`src/middleware/rate-limit.ts`) | a bucket per client | take, refill, prune, evict | a dropped bucket comes back full | no span of time lets more through than rate and burst |
| Dashboard access (`src/routes/dashboard-login.ts`, `src/auth/dashboard-session.ts`) | failed logins, sessions | login, logout, check, cleanup | the check is before an await, the count after it | failures are counted; a session ends |
| Transports (`src/proxy/codex-api.ts`, `ws-transport.ts`, `codex-sse.ts`, `src/utils/retry.ts`, `src/tls/native-transport.ts`) | one call: attempts, pipe, reader | post, fall back, retry, abort, deliver | chunks cut anywhere, lost connections, retries | every event once, in order, whole; nothing accepted is sent twice |
| Translation of answers (`src/translation/codex-to-*.ts`, `src/routes/responses.ts`) | open blocks, text so far | one event after another, end | any order of events, cut anywhere | each format says what the upstream said, well formed |
| Translation of requests (`src/translation/*-to-codex.ts`, `codex-request-to-*.ts`, `tuple-schema.ts`) | none | recursive rewriting | calls without ids, schemas the upstream does not know | nothing is lost; results find their calls; answers fit the client's schema |
| API key upstreams (`src/proxy/*-upstream.ts`) | arguments per call | one chunk after another | each provider frames calls in its own way | a stream of Codex events a translator can rely on |
| Updates (`src/self-update.ts`) | cached check, flag of an update, timer | check, pull, install, build, restart | three commands that fail or outlive the process; a restart on a timer | no half build runs; the newest commit does in the end |
| Configuration (`src/config.ts`, `src/update-checker.ts`, `src/routes/admin/settings.ts`) | the configuration, local.yaml, version-state.json | save, reload, check the appcast | requests that read the configuration before they await their body | what was saved last is in force |
| Dashboard (`shared/hooks/*.ts`) | what each page shows | load, change, poll | answers that overtake each other | a page comes to show what there is |
| Request routes, desktop shell | none | | sequential, or user interface | tests reach them |

How they interact: the routes call `handleProxyRequest`, which calls the pool
(`acquire`, `release`, `mark*`, synchronously) and the upstream (awaited). The
scheduler, the probe and imports call the OAuth server (awaited) and the pool
(synchronously). The dashboard changes the pool through the account services.
The pool saves accounts.json. The lock file keeps the schedulers of two
processes apart. The upstream's answer goes through transport, parser,
translator and client, each fed by the one before. The other stores (cookies,
usage, models, proxies, conversations, sessions, settings) are each behind their
own functions and share nothing with one another but the event loop.

## 2. Modules

| Module | Models | Extends / instances |
|---|---|---|
| `AccountRegistry` | what each operation of the registry does to one entry | |
| `AccountPool` | the registry and the slots behind the facade | `AccountRegistry` |
| `ProxyHandler` | requests on the pool, with dashboard, scheduler and clock | `AccountPool` |
| `RefreshScheduler` | scheduler, probe, accounts.json, lock and OAuth server, several processes | |
| `RefreshHistory` | the same with what became of each answer, and the properties about it | `RefreshScheduler` |
| `RefreshLock` | the system calls on one lock file | `Mutex` as its abstract specification |
| `Mutex` | what the lock promises | |
| `ProxyPool` | the outbound proxies, their routes, health checks and proxies.json | |
| `Conversations` | responses, conversations and turn states over failovers and retries | |
| `Imports` | imports beside the scheduled refresh of an account | |
| `LoginSessions` | browser logins: sessions, callback servers, exchanges | |
| `CookieJar`, `UsageStats`, `RequestHistory` | stores with their files | |
| `ModelCatalogue` | the models and the loop that fetches them | |
| `Settings` | configuration, local.yaml, appcast | |
| `RateLimit`, `DashboardAccess` | who is let in | |
| `UpstreamStream` | one call to the upstream, from retry to parser | |
| `ClientStreams` | the translators of an answer, all four formats, streamed and collected | |
| `ApiKeyRequests` | the adapters of three providers and handleDirectRequest | |
| `RequestTranslation`, `TupleSchema` | the rewriting of requests and of schemas | |
| `SelfUpdate` | checks, the update pipeline, restarts | |
| `DashboardViews`, `DashboardPolls` | the pages of the dashboard | |
| `MCProxyHandler`, `MCRefreshScheduler`, `MCRefreshHistory` | model values and sets for TLC | the module named |
| `MCKeptState` | `ProxyPool` and seven other modules as parts | `ProxyPool`; instances |
| `MCExchanges` | `RefreshLock` and ten other modules as parts | `RefreshLock`; instances |
| `MCTranslations` | the parts of `MCExchanges` and `TupleSchema`, whose operators are recursive, so that nothing is proved of it | `MCExchanges`; instances |
| `ProxyHandlerProofs` | theorems about requests and slots | `ProxyHandler`, `TLAPS` |
| `RefreshSchedulerProofs`, `RefreshTokenProofs` | theorems about refreshes and their tokens | `RefreshScheduler`, `RefreshHistory`, `TLAPS` |
| `ProxyPoolProofs` | theorems about proxies and routes | `ProxyPool`, `TLAPS` |
| `FoldLemmas` | sums, folds and their runs, flattened and mapped sequences | `TLAPS` |
| `KeptStateProofs`, `ExchangeProofs` | theorems about parts of `MCKeptState` and `MCExchanges`, the lock among the latter | the module named, `FoldLemmas` |
| `ClientStreamProofs` | what the clients of a stream read | `ExchangeProofs` |

Definitions named "Mutant of X" are not part of a model: each is X with a
plausible mistake in it, kept to show that some property notices.

**AccountRegistry, AccountPool.** An entry keeps the fields that decide whether
the account may be used: the status, whether `rate_limit_until` is null, ahead
or past, and whether the access token is within its `exp`. `acquireLocks` is
the number of stale and of fresh slots of each account: the code keeps a list
of times, but only asks whether each is older than the TTL, and the stale ones
are a prefix. `Popped` takes from that prefix first, as `shift()` does.
The rotation strategy is a free choice among the candidates (`Choices`), so
that what is checked holds for each strategy. `refreshStatus` runs over all
entries inside every acquire and every listing (`Rechecked`).

**ProxyHandler.** A request is in one of four waits, each an `await` of the
code, and an action is all that runs from one await to the next: `UpstreamAnswers`,
`AccountRejected` (402, 403, 401, 429: mark, release, fail over), `ModelRejected`,
`UpstreamFails`, `StreamEnds`, `CollectEnds`, `CollectEmpty` (release, acquire
again, call again), `AgainAnswers`, `AgainFails`, `AgainThrows`, `CompactAnswers`.
`tried`, `released`, `cur` and `origin` are `triedEntryIds`, the guard of
`releaseAccount`, and the two variables `entryId` of the two functions: they
differ after an empty answer, which is where the code is hard. `owed`, `logged`
and `off` are history. `Requests` are slots that are used again and again, so
a late answer can meet the traces of earlier requests.

**RefreshScheduler.** For each process: the accounts in memory, the timers (with
those that `scheduleRecovery` forgets to clear: `stray`), the refreshes under
way, the semaphore with its queue, and the token requests of scheduler and
probe; shared: accounts.json, the lock, the OAuth server, which exchanges each
refresh token once. A refresh is `Granted` (has its slot), then `SkipLocked`,
`LockThrows`, `NothingToRefresh`, `SyncFromDisk` or `FirstAttempt`; then
`JobTokens`, `JobRefused`, `JobFails`, `NextAttempt`. `ServerAnswers` and the
arrival of its answer are two steps, so a crash, a lost reply or a new login may
come between. The lock is taken in one step; `RefreshLock` has the steps. A
network error may come before the server has the request (`netfail`) or on its reply
(`netloss`: the token is exchanged and nobody knows). The lock is skipped if it
is taken or its file cannot be written (`lockfail`); a lock directory that cannot
be made throws (`dirfail`).

**RefreshHistory.** Three history variables: `replaced` (the tokens whose successor
a process has stored), `refused` (how often the server has refused the token in the
refresh under way) and `skipped` (the accounts whose last refresh was skipped for the
lock). The code has none of them; no guard reads them.

**RefreshLock.** `Create` and `Write` are the two halves of
`writeFileSync(.., "wx")`, `Read` and `Break` the reading and unlinking of an
existing file, `SweepReads` and `SweepUnlinks` those of `cleanupStaleLocks`. A
crash is possible at each point ("torn" is one between create and write, or a
full disk). `aged` remembers that a file outlived STALE_MS. `Mutex` is
implemented with `holders` mapped to the processes that hold the lock until
then; afterwards the code promises nothing: breaking by name is not atomic.

**ProxyPool.** Of a proxy the model keeps its place in the Map and its status;
whether a URL is in the pool already is a free choice (`Add` or `AddKnown`).
`Import` adds any number of proxies and sets up the timer after the last, unless a null
entry throws before (`routes/proxies.ts:390`); `cutOff` remembers that. Routes are one action each (`SetStatus` stands for enable, disable and update,
`Assign` for every route that assigns). A health check is `CheckOne` or
`CheckAll`, which only count that one more waits, and `CheckEnds`, which stores
what it found; a check that outlives its proxy changes an object nobody sees, so
it only schedules a save. `Flush` is the debounced save, `Persist` a save that
may fail. An id is a number that is never used again, as the code's random ids
are not. `failed` and `round` are history.

**Conversations.** A request with a previous response looks up its account,
conversation and turn state (`Ask`), may fail over (`FailsOver`) or be tried
again after an empty answer (`Empty`), and is recorded when its answer ends (`Ends`);
entries expire when they are looked up or cleaned up. What is true of each response is history (`responses`).

**Imports.** An import checks for duplicates, awaits the exchange
(`Exchanged`) or the verification (`Verified`) and then stores; a refresh of the same account runs beside it. The
server issues numbered refresh tokens and takes each once.

**LoginSessions.** An exchange occupies one slot, whichever of the callback server,
the redirect and a pasted link brought its code. Sessions and completed logins expire by flags; a new flow closes the
server of the one before.

**CookieJar, UsageStats, RequestHistory.** The files of these stores have the
steps the code gives them: `CookieJar` opens, writes and renames in three steps of
the thread pool, since its saves await; the other two are synchronous, so only a
crash or a failed write comes between. A file that was cut off is `Torn`,
`Missing` or unreadable.

**ModelCatalogue.** An answer is merged by `Apply`: its models, then those of the
catalogue it does not name. The loop has one timer (`LoopAfter` sets the next one);
its fetches and those on demand overlap.

**Settings.** Local values, environment and defaults are merged as `loadMergedConfig`
does, a request arrives (`PostArrives` keeps what it sees of the configuration), then saves
(`SaveKey`, `SaveGeneral`, `SaveRotation`, `SaveQuota`: write and reload). Appcast checks await between asking and applying.

**RateLimit, DashboardAccess.** Time goes by ticks. Pruning and eviction are part of
the request they happen in; a login is checked when it arrives and counted when its body has been read.

**UpstreamStream.** `posts` is the sequence of attempts with the fate of each,
`pipe` what is on its way, `reader` what has been parsed. The parser works on
bytes: chunks end anywhere and the blank line between events may be cut in two. A
chunk that does not fit the buffer ends the answer (`Overflows`, `MAX_SSE_BUFFER`).

**ClientStreams.** Every event is given to all translators at once, so that one
invariant compares what each client has put together with what was sent. Only the
sequences of event numbers are kept of a text.

**ApiKeyRequests, RequestTranslation.** The first feeds chunks of three providers to
their adapters; the second translates one conversation of the client in every
format and on to every provider, and compares what comes out: `OpenAIMessage` and its
like take one input item and the messages so far, and the translation of a
conversation folds them over its items. What a Gemini provider is sent has no ids and
no function name in its results (`Part`).

**TupleSchema.** A pure algorithm: `Convert` and `Reconvert` over all schemas and
answers of bounded depth. A choice may have two branches of any structure; the answer
to it is led by the first with tuples, whichever it fits, and `Mistaken` says when that
goes wrong. Its operators are recursive, so nothing is proved of it.

**SelfUpdate.** `disk` is the checkout: commit, and what was installed and built of
it; each of git, npm install and npm build is a step that may fail or be killed.
In the modes docker and electron it only checks; `image` is the
newest release when a Docker image was built.

**DashboardViews, DashboardPolls.** What the server has is a number of changes, and
an answer carries the number of when it was made. A page has two loads under way
at most, and one change. A run of the picker's effect asks for the status, loads and
polls; a run whose status fails, or has no account, ends and never polls.

## 3. Runs

All bounds are constants. Counts are of distinct states.

| Run | Instance | What it checks |
|---|---|---|
| `proxy_retries` | 2 accounts, 2 requests, 1 slot each, 2 empty retries, all outcomes | types, `SlotsWithinLimit`, `NoDoubleRelease`, `OnlyRefusalsUnrecorded` |
| `proxy_events` | 1 account, 3 requests, 2 slots, all other actors and clocks | `RemovedHoldNoSlots`, `NoPhantomSlots` |
| `proxy_live` | 2 accounts, 2 requests, one restricted by its plan | `EveryRequestAnswered`, `PoolNeverWedges`, `RateLimitLifted` |
| `refresh_queue` | 1 process, 2 accounts, 1 slot, 2 attempts, 2 refresh tokens; network errors, lost replies, a lock directory that cannot be made, crashes, stops | types, `SemaphoreExact`, `EveryRefreshEnds`, `RefreshingSettles` |
| `refresh_kept` | 1 process, 1 account, 3 attempts, 3 refresh tokens; everything but an account made active by hand or by a request, failed saves and a lock directory that cannot be made | `RefreshKept`, `NeverReused`, `ExpiredOnlyWhenDead` |
| `refresh_lock` | 2 processes, 1 account, 2 attempts, 2 refresh tokens; crashes, stops, requests, failed saves, network errors | `OneRequestPerAccount` |
| `kept_state` | the parts of `MCKeptState`, below | types, `AssignedExists`, `SavedOrDue`, `CheckedPeriodically`, `RoundRobinFair`, `CheckEnablesNone`; one property of each other part |
| `exchanges` | the parts of `MCTranslations`, below | types, `ImplementsMutex`, `LeftoverBroken`; one property of each group of other parts |
| `finding_*` | the smallest instance that shows it | one property each, violated: section 7 |

`kept_state` and `exchanges` hold many small state machines that share no state.
A behaviour chooses one of them (`part`) at the start and runs it alone: their
product would say no more, and what they say of one another is nothing. The
variables `x1`, `x2`, ... are those of the chosen part, given to its module by
`INSTANCE ... WITH`; a property reads `part = "jar" => Jar!CookiesSurvive`. Each
part's type invariant is a conjunct of its property. The bounds of the parts that are
proved about are constants of `MCKeptState` and `MCExchanges`, under the names their
modules give them.

| Part | Instance | Property |
|---|---|---|
| pool | 2 proxies, 1 account, 2 checks under way of each, 1 failed save in a row | the six of `ProxyPool` |
| jar | 1 account, 1 cookie that expires or not, 2 saves under way | `CookiesSurvive` |
| usage | 2 accounts, 2 counters, 2 uses of one and 1 of the other, 2 snapshots | `HistoryAddsUp` |
| catalogue | 2 models, a default, an alias, 2 plans, 1 retry | `RoutedIsKnown`, `FetchLoopGoesOn` |
| logins | 3 logins, 2 handlers, 2 accounts added | `LoginsSound` |
| history | 3 records of 2 outcomes and 2 clients, ages 0 to 3 | `LedgerSound` |
| talks | 2 accounts, 2 requests at a time, 2 responses and conversations | `ConversationsKept` |
| settings | 2 requests and 2 checks at a time, 3 requests in all, 2 versions | `SettingsSound` |
| lock | 3 processes, every fault | `ImplementsMutex`, `LeftoverBroken` |
| import | 2 imports, 1 refresh, 3 tokens | `ImportsKeepToken` |
| limit, access | 3 clients on 2 buckets; 3 attempts, 3 waiting, 5 ticks | `GatesSound` |
| upstream, streams, direct | 2 retries, 2 events, a buffer of 5 bytes; 6 events; 2 calls, 5 chunks | `StreamsSound` |
| translation, tuples | 5 messages, 2 calls in one (`MaxMessages`, `MaxTogether`), 2 tools; depth 2, tuples of 2 | `TranslationKeeps` |
| update | 2 releases, 1 failure, 2 requests, all modes | `UpdatesSound` |
| views, polls | 3 changes, 1 failure; 2 effects, 2 changes or failures | `DashboardSound` |

Why the bounds are enough. Requests meet each other only through the slots and
the status of an account: two on one slot, or three on two, show one that takes
a slot, one that is refused and one that comes late. `MaxEmptyRetries = 2` is
the value of the code. Two accounts show a failover and a return to the first.
Accounts of the scheduler meet only through the semaphore: two on one slot.
`MaxAttempts` is 5 in the code; with a threshold of 2, three attempts show every
order of permanent and transient errors around it, and two show a last attempt
of either kind. `MaxIssued` bounds the tokens the server issues; after it the
server renews access tokens only, as it may do anyway. Three tokens are one that is sent, one
that replaces it and one from a login beside them. Three processes on one
lock are a holder, one that has read an old file and one that takes advantage.
Two proxies show a list that shrinks under
the index and grows again, and two checks of one proxy that end in either order;
that a round robin of more proxies skips none is proved for any number (section 5).
Of the other parts, two of a kind (requests, imports, loads, saves, checks) are what
it takes to cross, a third login takes the port from the one that took it, and a
file needs one crash. Six events or five chunks are a call with two pieces of
arguments between texts, or two calls; two events of three bytes, cut anywhere, a
chunk that ends in the blank line. Five messages hold two calls with results in
both orders. A schema of depth two is a tuple in a tuple, in a property, a list, a
reference or a choice.

The three `refresh_*` runs take `HNext` of `RefreshHistory`, which names each action
of the scheduler once with what it adds to the history, so that TLC counts each one.
The history only looks on (`HistoryStep`): `refresh_lock` has `VIEW vars`, so that
states that differ in the history alone are one state.

`CHECK_DEADLOCK FALSE` in `refresh_queue` and `refresh_kept`: when all accounts
are expired or deleted the scheduler has nothing more to do, by design; in
`kept_state` and `exchanges`: an answer that was delivered, a login that ended or a
clock at its bound leaves a part with nothing to do.

## 4. Fairness

- `FairSpec` of `ProxyHandler`: every upstream call ends. The transport has a
  header timeout, `codex-api.ts` gives it an AbortSignal and `withRetry` has a
  bound, and the client's abort ends a stream.
- `TimedSpec` adds the clock (TTL of slots, end of a rate limit) and that the
  account list is read now and then; `TrafficSpec` that clients send requests.
  `EveryRequestAnswered` needs only the first.
- `Fair` of `RefreshScheduler`, in `HFairSpec`: the steps of a refresh, timers, and the exit of a
  process that is stopping. The server's reply is among the steps: `refreshAccessToken`
  has a timeout. Nothing says that a process that is down starts again.
- `FairSpec` of `RefreshLock`: weak fairness of the steps and of time; strong
  fairness of "some process reads an existing lock file" and of "some process
  unlinks one", because crashes may come at each point: it says that processes do
  not die for ever exactly there. Nothing more is assumed of any one process.
- `Spec` of `SelfUpdate`: the timer of the checks, the answer of the release
  server and the ends of the commands (each has a timeout or ends by itself), and
  the restart. Nothing of the user's clicks, of failures or of crashes.
- `Spec` of `DashboardViews` and `DashboardPolls`: the interval of a poll, and that
  a request that was sent (for the status, a list, a change) is answered, or fails, some
  time. Nothing of the order.

Nothing is assumed of the dashboard's user, logins, probes, crashes or restarts. In
`exchanges` each of these assumptions is made of its part only.

## 5. Proofs

All theorems hold for every value of the constants under the named assumptions
of the modules, which TLC evaluates on every run: limits, bounds and times are
numbers, the limits that must be so are positive; requests and refreshed accounts
are finitely many; special values ("no account", "nobody", "round robin", a torn
file) are not among the values they stand beside; no model is named as an alias.
An assumption about faults is a hypothesis of the theorem that needs it, and says
the same as the table of section 6. A theorem that is a property of a run has the
property's name in `PROJECT.json`.

**Requests (`ProxyHandlerProofs`).**

- `TypeCorrect`: the strengthening `Typed` adds that a request that waits is on an
  account, which the handler's actions need to keep `cur` in type. One lemma per
  action of the request, one for the other actors.
- `SlotsStayWithinLimit`, `RemovedStayWithoutSlots`: the invariant `Sound` says both
  of the slots, because a slot is only taken by `Take`, which takes from `Choices`,
  inside the pool and below the limit after the sweep; every other operation leaves
  fewer slots. `Sound` is a predicate on any slots, so that it is passed along the
  chains release - mark - acquire that make up one action.
- `ReleasedAtMostOnce`: the invariant `OwedOK` relates the guard to what the request
  owes: it owes its current account a release unless that account is already in the
  guard, and once the repeated call of `handleNonStreaming` can throw, the account
  the outer catch clause knows is in the guard. That second part is why the exception
  does not release twice.
- `OthersRecorded`: a request without a record was refused for want of an account; the
  invariant says of each wait what is still owed to the ledger.
- `SlotsStandForRequests`: `NoPhantomSlots`, if no answer is empty ("empty" is the
  finding of section 7). `Covered` counts: an account has at most as many slots as
  requests are on it. A request leaves an account either by giving its slot back or
  when the account is already in the guard; `GuardOK` says the second never happens,
  since accounts once tried are not taken again. With an empty answer they are.

**Refreshes (`RefreshSchedulerProofs`, `RefreshTokenProofs`).**

- `TypeCorrect`, `SemaphoreIsExact`: one invariant, `TypeOK /\ SemaphoreInv`. The two
  need each other: the counter is a natural number because it counts the accounts that
  hold a slot (`Counted`, by cardinality), and who gives a slot back is one of them.
  The queue holds the waiting accounts, each once; a process that is stopping counts
  its slots but has no queue.
- `OneAtATime` (no probes, no lock older than STALE_MS in use; any number of processes,
  crashes, lost replies): who sends or sleeps between attempts owns a fresh lock
  (`OneAt`); a process that is stopping has forgotten the refresh but not the request.
- `NoneForgotten` (one process; no account made active by a user or a request, no failed
  save, no lock directory that cannot be made; crashes, stops, probes, logins, deletions
  and lost replies may happen): a refresh ends without a timer only if it is skipped for
  the lock, which `skipped` remembers, or if accounts.json has another token. `KeptAt`
  says the second cannot be: of one process the file has the token of the entry
  (`AllStored`), after a restart because it was read from it.
- `NeverSentAgain` (one process, no failed save; everything else may happen): `FreshAt`
  says that the entry's token has no stored successor (it is not in `replaced`), and that
  the token in a reply is new: not the entry's, none that was sent, none in another
  reply. The file has the token of the entry (`AllStored`), so a restart does no harm. It
  rests on a first invariant, `IssuedInv`: every token there is was issued.
- `OnlyTheDeadExpire` (no hypothesis: any number of processes and every event): an action
  property; `DeadAt` says that a refusal is of a token the server will not take, which
  stays so, and that `refused` counts the refusals as `permanentHits` does.

**Lock (`ExchangeProofs`, first section).** `TypeCorrect`, `OneHolder`, `LockIsMutex`: until a file is
older than STALE_MS, who holds the lock or is writing it created the file that is there,
and nobody is about to unlink. The refinement maps `Create`, `Break` and the sweep to
stutters, `Write` to `Acquire` and `Release` or a crash to `Leave`. It has no liveness:
`Mutex` promises none.

**Proxies (`ProxyPoolProofs`).**

- `TypeCorrect`, `AssignmentsExist`, `EverythingSaved`, `AlwaysChecked` are parts of one
  invariant, because a restart takes what was saved: what is in memory is sound if what
  is in the file is, and the other way round (`PoolSound`, `DiskSound`). That the checks
  are set up includes the import that broke off, as the property does. Edits go through
  one lemma (`EditKeeps`). `ChecksEnableNone` is a property of steps.
- `RoundsFair`: `RoundRobinFair` for any number of proxies. All that picks leave behind is
  the index, so the invariant `FairInv` says how far the index has moved since each proxy
  of the round was picked (`Since`, modulo the number of active ones): at most the number
  of picks in the round. So the proxy at the index, whose distance is a whole turn, has
  not been picked unless all have.

**Stores (`KeptStateProofs`).** Each part has its inductive invariant at the end of its
module. It is proved of the part, then of the part as it runs in `KeptSpec`.

- `LoginsHold`: what the properties say of a session that is being exchanged, a login that
  is said to be completed and a server that listens, and that nothing happened to a login
  before it began (`NothingBefore`).
- `RoutedModelsKnown`, `FetchLoopHolds`: a plan lists only models of the catalogue
  (`PlansKnown`), also through a reload and a cache that was read; nothing is fetched while
  the server is down.
- `SettingsHold`: the file and what is in force agree, through requests that waited for
  their bodies (`KeySeen`: one that saw another key than the one in force has seen it
  change).
- `ConversationsHold`: what a response follows is known (`LinksKnown`), a request remembers
  what was true when it looked it up, and a chain of timely responses has one conversation.
- `CookiesHold`: until two saves overlap, a save knows which file is its own, and what it
  is writing is the jar unless another save is due (`SaveCurrent`).
- `LedgerHolds`: until an append is cut off, the file holds what was recorded, less a
  beginning that is too old (`LedgerKept`), and so does the memory. It needs that times do
  not decrease along the ledger (`InTime`): only then is what is dropped a beginning. The
  pages need no invariant: each begins where the one before it ends (`PagesJoin`), what is
  picked time by time is as long as the set of recent positions (`PartsLength`), and so
  are the groups of an aggregate together (`FibresAddUp`).
- `UsageAddsUp`: totals never shrink (`TotalsGrow`), because a snapshot absorbs what the
  pool has lost; so no bucket is cut to zero, and the differences over a window telescope.
  A baseline and the totals of the pool that goes with it are together at most what was
  served, in memory and after a start from the files (`NothingTwice`).

The sums and folds of these two (over a set of accounts, over the points of a window) are
library definitions by recursion. The lemmas about them (`FoldLemmas`) go by the least counterexample
(`LeastOne`, `SmallestSet`): of the sets for which a claim fails, one is of least size, and
with one element less it would hold. `FoldExists` says the same way that there is a
function of the kind the fold chooses.

**Exchanges (`ExchangeProofs`).** The same, of parts as they run in `ExchangesSpec`.

- `ImportsHold`: a token in an exchange is in no other one; a verification carries no
  refresh token unless one was pasted.
- `GatesHold`, under `Burst <= Rate * IdleTime`: the invariant counts a bucket as if it were
  refilled now. What was let through above the rate and what is left in the bucket are at
  most the burst, and so a dropped bucket may come back full: after `IdleTime` it would
  have been. The sessions' property is inductive as it stands.
- `UpdatesHold`, the first half of `UpdatesSound`: the flag is set exactly while a pipeline
  works, and none works while a restart is pending unless one began in a hurry
  (`FlagExact`); so a restart that is not a crash finds a whole build.
- `ViewsHold`, the part of `DashboardSound` about the proxies: of two loads under way, the
  one that began later is marked, and unless a change waits for its answer it brings what
  the server has (`LastLoadFresh`).
- `AnswersDelivered`, the part of `StreamsSound` about the call: what the client got, what
  is queued in the pipe and what is on the wire are, one after the other, a beginning of
  the answer (`Pipeline`); a transport that has ended without a fault has nothing on the
  wire. How the parser cuts the bytes into events depends only on how many it has read
  (`ReaderAt`), so an answer that was read to its end was handed on whole. Chunks may be
  of any sizes and the answer of any length. Only the last attempt may have reached the
  upstream, and when another one comes it has not.
- `ProvidersUnderstood`, the part of `StreamsSound` about the API key upstreams: the events
  of each call frame it, one that adds it before its arguments and one that is done with it
  after them (`Framed`), and its arguments are the pieces of its chunks in order, in the
  buffer until it is done (`Buffered`). Every event an adapter yields keeps both. That all
  calls of an OpenAI answer are done at its end goes by the least one that is not
  (`RestDone`).

**Streams to the clients (`ClientStreamProofs`).** `StreamsHold` is all of `StreamsSound`:
with `AnswersDelivered` and `ProvidersUnderstood`, that of each client's translator.

The invariant, `ClientsHeld`, says what each client has put together as a function of the
events sent so far. The property does not: before the end it says of a call only that those
that are done come first, and nothing of Gemini. `ClientsHeld` adds

- of the events: the open call is one that was added, a call that was not has no arguments,
  a completed answer leaves no call open and has not failed (`SentHeld`); what was sent, taken
  by events or by kinds of pieces, is the same (`SaidTwice`);
- of OpenAI: the calls are those sent, and the open one after them, with the arguments
  streamed so far; `streamed` is the set of calls with deltas, so that a done event adds
  the arguments exactly if they have not been streamed;
- of Anthropic: which of thinking, text and call is open, that it is the last block, at
  `index`, and that every other block is closed (`Balanced`); of any kinds of blocks, what
  is read is what was sent of them, in its order, and the open call after it;
- of Gemini and the responses route: the same with the buffer of a schema; of what is
  collected: texts and calls are those sent.

Three lemmas on reading carry the proof: one event more adds its own pieces to what was
sent, one block more adds its pieces to what is read, and so do pieces added to the last
block; the fragments of the blocks before it do not change. They are about sequences that are
flattened and mapped (`FoldLemmas`). Each translator then has a lemma per event, and the
end of the body one more.

**Conversations (`ExchangeProofs`, last sections).** `TalksHold` is `TalksSound`, the part of
`TranslationKeeps` about requests: for conversations of any length, any number of calls in a
message and results in any order. `talk` is the only variable and the translations are
functions of it, so the invariant, `TalkInv`, only says what conversations there are: turns
alternate, a user answers all the calls of the message before, ids grow. The rest is one
argument for the four client formats and one for the three providers.

- A format gives for a message its text and its calls, or its text and its results in
  either order (`Arranged`). That is all `AllThere` needs: the texts and the links
  picked from the items of all messages are those of the messages, one after the other.
- The formats differ in the names they give to calls and results (`Naming`): the client's
  ids, the function, or numbers made up in each content. A result is paired if its name is
  that of its call and of no later call of the same message (`Answered`); as turns
  alternate, nothing stands between a message with calls and its results, and so the last
  call of that name is the one before them. An id is the name of one call only; so is the function, where
  there is one call at a time; the numbers of Gemini are, where results come in order,
  because the n-th call and the n-th result of their contents both get n - 1
  (`NumberedParts`): the results stand in a content of their own, where no call waits.
- Of the messages of a provider, one item more adds that item and keeps every role right
  (`Adds`); a fold over the items then carries them all (`FoldCarried`). For a Gemini
  provider the items are first stripped of their ids (`PartsAreItems`), so of its
  messages only the order is proved: that is all the code leaves in them.

The folds are those of the community modules, which choose a function that satisfies a
recursion; `RunExists` in `FoldLemmas` shows that there is one, `RunOf` what it is after
each element. Attempting the proof showed that two alternatives of `OpenAIMessage` had
overlapping guards, so that its meaning rested on the order in which TLC tries them; each
guard now excludes the others.

## 6. Only model-checked; restrictions

By TLC only: liveness under fairness (`EveryRequestAnswered`, `PoolNeverWedges`,
`RateLimitLifted`, `EveryRefreshEnds`, `RefreshingSettles`, `LeftoverBroken`, the second
halves of `UpdatesSound` and `DashboardSound`), which the proof system does not reach;
the half of `TranslationKeeps` about tuples, since the operators of `TupleSchema` are
recursive and what they give for a schema of any depth goes by induction over schemas.
The other half, `TalksSound`, is proved (`TalksHold`).

Each run leaves out faults under which its property does not hold. They are
named here because the code does not prevent them:

| Property | Left out | With it |
|---|---|---|
| `NoPhantomSlots` | empty answers | a finding, section 7 |
| `RateLimitLifted` | usage reset | a finding |
| `RefreshKept` | a refresh skipped for the lock (`skipped`) | a finding for the lock of a dead process; a lock file that cannot be written is taken for one too, and no timer is set either |
| | a second process | it skips, or syncs the token from disk for a due access token and calls doRefresh for itself (`refresh-scheduler.ts:237`, `186`): no timer |
| | switching an account on | one that was off or expired gets no timer (`account-mutation.ts:59`) |
| | the marks of requests | a late 429 on an expired account: rate limited, later active, no timer |
| | failed saves | the old token is synced from disk, as above |
| | a lock directory that cannot be made | `doRefresh` throws before it marks the account, and sets a recovery timer only for one that is marked (`refresh-scheduler.ts:193`) |
| `NeverReused` | a second process | it saves all accounts from memory, over the new token |
| | failed saves | the next start reads the old token |
| | tokens whose reply never came | the server may have exchanged them, nobody has the successor, and they are sent again; `oauth-pkce.ts:221-224` accepts this |
| `OneRequestPerAccount` | probes; locks older than STALE_MS in use | the probe takes no lock; 5 attempts with back-off may outlast 5 minutes |
| `ExpiredOnlyWhenDead` | whether the token that was refused is still the account's | the property is about the token sent. The loser of two uses of one token (a probe beside a refresh) expires the account although it has a good one by then; so does an answer to the token from before a login |
| `RefreshingSettles` | a refresh skipped for the lock | the account stays refreshing: the finding, and a lock file that cannot be written |
| `CheckedPeriodically` | an import that a null entry breaks off before a timer is set up (`cutOff`) | the proxies it added are kept and not checked until the next add, import, change of the interval or restart |
| slots against requests in flight | | after `markStatus` dropped the slots, more requests than the limit are on the account |
| ledger | | a request refused for want of an account is not recorded, one that ends by the inner and the outer catch clause is recorded twice |
| `Exclusive` | files older than STALE_MS | two processes read the same stale file, the second unlinks the new lock of the first |
| `SavedOrDue` | the time after a failed save | it is not tried again before the next edit; a crash within the second of the debounce loses a switch |
| `CookiesSurvive` | saves that overlap (`disturbed`) | both write `cookies.json.tmp` (`cookie-jar.ts:237`): a mixture may be renamed |
| `HistoryAddsUp` | a crash before the debounced save of a reset or removal (`doubled`) | the counters come back, and count again when they are next dropped |
| `LedgerSound` | an append cut off (`cut`) | the whole file is unreadable until it is rewritten; a stale temporary file may be taken for it |
| `ConversationsKept` | the turn state after an empty answer (`again`) | the retry's response is stored with the turn state of the first answer |
| `LoginsSound` | a callback of another login (`wrongly`) | a callback server marks its own login completed for any state's code |
| `ImportsKeepToken` | lost answers (`lost`); a refresh token pasted beside an access token (`pasted`) | as for `NeverReused`; the import writes the pasted token after an await, over a newer one |
| `GatesSound` | the cap on buckets (`evicted`) | a client whose bucket was evicted has its burst again; the bound also needs Burst <= Rate x IdleTime |
| `UpdatesSound` | failed commands; an update begun in the half second before a restart (`hurried`) | a build is cut off; an update that failed after the pull is not offered again before the next commit |
| `SlotsWithinLimit` | a limit lowered while slots are held (`settings.ts:242`) | the slots above it stay until they are released; nothing new is taken |
| `SettingsSound` | values of a type nobody checks, a file broken by hand; `keyMoved`; `reloaded` | they are written before the reload refuses them, and every later reload fails; a remote request clears a key set while its body was read; a reload goes back to the version of default.yaml |
| `DashboardSound` | for the proxies, which are not polled: crossed loads, failures, other users | the page stays stale until the next change |
| | for the model picker: `/auth/status` fails or has no account for the latest run (`use-status.ts:88-99`) | no interval is set, and the picker stays empty until the number of accounts changes |
| `TranslationKeeps` | choices that `Mistaken` names: the tuple is reached by a reference only, or the answer to another branch looks like one to the first branch with tuples, or has tuples of its own | the answer stays an object (`hasTupleSchemas` does not follow `$ref`), or an object of another branch becomes an array (`tuple-schema.ts:185-191`) |
| | Gemini results not in the order of calls | results are paired by position |
| | ids and names in the messages to a Gemini provider | `codex-request-to-gemini.ts:69-88` sends a result without its id and with the name "" |
| `StreamsSound` | several calls at once in an OpenAI answer (for `OneCallOpen`) | they are open at the same time, and overlap as blocks of the Anthropic format |
| `LeftoverBroken` | files without content | never stale: the timestamp parses to NaN |

Also met while modelling (where a comment of the repository says otherwise, it is quoted):

- scheduler: `permanentHits` is not reset by other errors although the comment at
  `refresh-scheduler.ts:27` speaks of consecutive ones, so two refusals with a network
  error between them expire an account; waiters that `destroy()` releases do send
  their requests, although the comment at 157 says they bail out; a save that fails makes the
  next refresh take the old token from disk;
- proxies: the result of a health check that began before the URL of its proxy was
  edited is stored for the new URL; an edited URL may repeat one that `add` would
  refuse; assignments of deleted accounts stay;
- cookies: an answer that comes late adds cookies of a deleted account again;
- usage: a removal hidden by other growth since the last snapshot undercounts;
- models: answers of two fetches for one plan may be applied in either order; models
  kept from another plan's answer are marked static;
- imports: a batch imports one after another and its protection against duplicates
  (`account-import.ts:182`) never sees two of one batch at once;
- logins: a handler says success while another one's exchange may still fail;
- answers: an error of the upstream while a tool call is open starts a text block at
  the same index (Anthropic); an answer that is incomplete or cut gets no final
  chunk (OpenAI, Gemini) and its buffered tuple is not sent;
- calls: an abort while the native post is awaited is not noticed
  (`native-transport.ts:125`); an error of the Rust stream closes the body as an end
  does; a compact answer that cannot be parsed counts as a 502 and is asked for again;
- API keys: the OpenAI and Gemini adapters say `response.completed` even when the body
  was cut, and drop error events; a streamed answer with an error event counts as a
  success in the history;
- requests: user text moves before the tool results of the same message (Anthropic,
  Gemini);
- updates: the commands of a killed process run on;
- settings: answers of two appcast checks may be applied in either order, until the
  next one;
- dashboard: the interval of `use-status.ts:96` is left running when the number of
  accounts changes during the first load.

## 7. Disagreements the runs show

| Run | Text | Code |
|---|---|---|
| `finding_phantom_slot` | "Each entry = one in-flight request", `src/auth/account-lifecycle.ts:18` | after an empty answer the same account may be acquired again; the guard then never gives its slot back (`proxy-handler.ts:373`, `account-acquisition.ts:44`); the slot goes with the TTL |
| `finding_limit_forever` | rate limits recover automatically, `CHANGELOG.md:231` | `resetUsage` clears `rate_limit_until` and keeps the status |
| `finding_reactivated` | "Don't reactivate manually disabled or banned accounts", `account-registry.ts:119` | a late 429 does, by way of `rate_limited` |
| `finding_crash_forgets` | "Crash recovery: refreshing -> immediate retry", `refresh-scheduler.ts:10` | the lock of the dead process is fresh, the retry is skipped, no timer is set |

## 8. Not modelled

`PROJECT.json` lists every component with the reason. In short:

- the limit of slots is a constant of the models although a request may lower it
  (`settings.ts:242`); the slots the model fetcher takes for itself
  (`account-lifecycle.ts:148`);
- the request routes parse, call `handleProxyRequest` and format; the desktop shell,
  the components and texts of the dashboard are user interface; connections,
  fingerprints and native code but for the stream are input and output; embeddings
  are forwarded as they are;
- of the translations: `allOf` in a schema with tuples, images, tool definitions, the settings of reasoning, system
  texts; of the settings: all but one of each kind; the child process that extracts a
  fingerprint; charts and summaries of usage and history;
- `clearToken` (logout), the rate limit windows of an account, the stagger and the
  second semaphore of `batchHealthCheck`, the device flow (it polls with one code and
  keeps nothing), the migrations of old files;
- `clearRateLimit`, `markQuotaExhausted` and `triggerRefreshNow` have no caller;
- a port that is taken: `EADDRINUSE` comes as an event after `serve()`; clocks that go
  back; two dashboards at once, except as changes made elsewhere.

## 9. Plan

Built: 1 `AccountRegistry`, `AccountPool`, `ProxyHandler`; 2 their proofs; 3
`RefreshScheduler`; 4 `Mutex`, `RefreshLock` and the refinement proof; 5
`ProxyPool` and its proofs; 6 the stores and logins of `MCKeptState`; 7 the streams,
translations, gates, updates and pages of `MCExchanges`; 8 the proof of the round
robin; 9 the proofs about refreshes, slots that stand for requests, and the parts of
`MCKeptState` and `MCExchanges`, with the sums of the usage statistics; 10 the proofs
of what the clients of a stream read, of the pages of the ledger, and of the conversations
of requests.

Next:

1. `clearToken` and the rate limit windows in `AccountPool`: counters, roll-over and
   lazy reset of an entry.
2. `Conversations` composed with `ProxyHandler`, so that the choice of the preferred
   account meets slots and limits.
3. A durable register (a reader sees the last save or the one before) as the abstract
   specification that the files of `CookieJar`, `RequestHistory` and `ProxyPool` refine.
4. The queue of `batchHealthCheck`.

Theorem worth proving next: the number of requests on an account when no account is
marked.
