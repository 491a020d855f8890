-------------------------- MODULE RefreshScheduler --------------------------
(***************************************************************************)
(* The background refresh of access tokens: RefreshScheduler               *)
(* (src/auth/refresh-scheduler.ts), the manual probe of an account         *)
(* (src/auth/health-check.ts), the refresh lock, accounts.json and the     *)
(* OAuth server, in one or more server processes on one data directory     *)
(* (a restart may overlap).                                                *)
(*                                                                         *)
(* Data abstraction.  The refresh tokens (RT) the server has issued for an *)
(* account are numbered 1, 2, ...; 0 is "no refresh token".  Of an access  *)
(* token only whether its refresh time (exp - margin) has come is kept.    *)
(*                                                                         *)
(* The lock file is taken and broken in one step here; module RefreshLock  *)
(* has the steps.                                                          *)
(***************************************************************************)
EXTENDS Integers, FiniteSets, Sequences

CONSTANTS
    Procs,        \* server processes
    Accounts,
    Nobody,       \* not a process
    Concurrency,  \* auth.refresh_concurrency
    MaxAttempts,  \* MAX_ATTEMPTS (5)
    Threshold,    \* PERMANENT_THRESHOLD (2)
    MaxIssued,    \* bound: the server issues that many refresh tokens per account
    Events        \* which faults and other actors take part in this instance

AllEvents == {"probe", "login", "delete", "disable", "enable", "request", "revoke", "netfail",
              "netloss", "savefail", "lockfail", "dirfail", "crash", "stop", "stale"}

ASSUME RefreshAssumption ==
    /\ Nobody \notin Procs
    /\ IsFiniteSet(Accounts)
    /\ Concurrency \in Nat \ {0}
    /\ MaxAttempts \in Nat \ {0}
    /\ Threshold \in Nat \ {0}
    /\ MaxIssued \in Nat \ {0}
    /\ Events \subseteq AllEvents

VARIABLES
    run,      \* each process: "down", "up", or "stopping" once destroy() was called
    here,     \* the accounts Map of each process
    mem,      \* the AccountEntry objects of each process
    dirty,    \* persistTimer is set: a debounced save is due
    sched,    \* the RefreshScheduler of each process
    net,      \* the token requests under way, one of the scheduler and one probe
              \* per account and process
    saved, disk,            \* accounts.json
    lock,                   \* refresh-<id>.lock
    issued, used, revoked   \* the OAuth server: RTs issued, exchanged, revoked

server == <<issued, used, revoked>>
vars == <<run, here, mem, dirty, sched, net, saved, disk, lock, server>>

Statuses == {"active", "expired", "rate_limited", "refreshing", "disabled", "banned"}
Sticky == {"disabled", "banned"}
RTs == 0 .. MaxIssued
Cred == [status : Statuses, rt : RTs, token : {"fresh", "due"}]

Callers == {"job", "probe"}
Call == [sent : RTs, reply : {"none", "tokens", "refused"}, rt : RTs]
NoCall == [sent |-> 0, reply |-> "none", rt |-> 0]

\* What doRefresh of one account is doing; "hits" is permanentHits.
Job == [at : {"none", "queued", "granted", "call", "sleep"},
        attempt : 0 .. MaxAttempts, hits : 0 .. Threshold]
NoJob == [at |-> "none", attempt |-> 0, hits |-> 0]

\* timer: the timers Map; stray: accounts with a timer that still runs but is
\* no longer in the Map (one per account is kept); job: _inFlight and the
\* state of each refresh; queue and running: the semaphore.
Sched == [timer : [Accounts -> {"none", "refresh", "recovery"}], stray : SUBSET Accounts,
          job : [Accounts -> Job], queue : Seq(Accounts), running : Nat]
IdleSched == [timer |-> [a \in Accounts |-> "none"], stray |-> {},
              job |-> [a \in Accounts |-> NoJob], queue |-> <<>>, running |-> 0]

Free == [by |-> Nobody, stale |-> FALSE]

TypeOK ==
    /\ run \in [Procs -> {"down", "up", "stopping"}]
    /\ here \in [Procs -> SUBSET Accounts]
    /\ mem \in [Procs -> [Accounts -> Cred]]
    /\ dirty \in [Procs -> BOOLEAN]
    /\ sched \in [Procs -> Sched]
    /\ net \in [Procs -> [Accounts -> [Callers -> Call]]]
    /\ saved \subseteq Accounts
    /\ disk \in [Accounts -> Cred]
    /\ lock \in [Accounts -> [by : Procs \cup {Nobody}, stale : BOOLEAN]]
    /\ issued \in [Accounts -> RTs]
    /\ used \in [Accounts -> SUBSET RTs]
    /\ revoked \in [Accounts -> SUBSET RTs]

Init ==
    /\ run = [p \in Procs |-> "down"]
    /\ here = [p \in Procs |-> {}]
    /\ dirty = [p \in Procs |-> FALSE]
    /\ sched = [p \in Procs |-> IdleSched]
    /\ net = [p \in Procs |-> [a \in Accounts |-> [c \in Callers |-> NoCall]]]
    /\ saved = Accounts
    /\ disk \in [Accounts -> [status : {"active", "expired"}, rt : {1}, token : {"fresh", "due"}]]
    /\ mem = [p \in Procs |-> disk]
    /\ lock = [a \in Accounts |-> Free]
    /\ issued = [a \in Accounts |-> 1]
    /\ used = [a \in Accounts |-> {}]
    /\ revoked = [a \in Accounts |-> {}]

-----------------------------------------------------------------------------
(* The scheduler s of a process *)

InFlight(s, a) == s.job[a].at # "none"

\* Mutant of DoRefresh: one slot too many.
DoRefreshAtLimit(s, a) ==
    IF InFlight(s, a) THEN s
    ELSE IF s.running <= Concurrency
    THEN [s EXCEPT !.job[a].at = "granted", !.running = @ + 1]
    ELSE [s EXCEPT !.job[a].at = "queued", !.queue = Append(@, a)]

\* doRefresh up to the semaphore; nothing if the account is being refreshed.
DoRefresh(s, a) ==
    IF InFlight(s, a) THEN s
    ELSE IF s.running < Concurrency
    THEN [s EXCEPT !.job[a].at = "granted", !.running = @ + 1]
    ELSE [s EXCEPT !.job[a].at = "queued", !.queue = Append(@, a)]

\* Mutants of Ended: the slot is given back and handed on; it is given back
\* and nobody in the queue is told.
EndedTwice(s, a) ==
    LET t == [s EXCEPT !.job[a] = NoJob, !.running = @ - 1]
    IN  IF s.queue = <<>> THEN t
        ELSE [t EXCEPT !.job[Head(s.queue)].at = "granted", !.queue = Tail(@)]

EndedSilently(s, a) == [s EXCEPT !.job[a] = NoJob, !.running = @ - 1]

\* The finally block of doRefresh: the slot goes to the first in the queue.
Ended(s, a) ==
    LET t == [s EXCEPT !.job[a] = NoJob]
    IN  IF s.queue = <<>>
        THEN [t EXCEPT !.running = @ - 1]
        ELSE [t EXCEPT !.job[Head(s.queue)].at = "granted", !.queue = Tail(@)]

ClearOne(s, a) == [s EXCEPT !.timer[a] = "none"]

\* scheduleOne
ScheduleOne(s, a, tok) ==
    IF tok = "fresh" THEN [s EXCEPT !.timer[a] = "refresh"]
    ELSE DoRefresh(ClearOne(s, a), a)

\* scheduleRecovery does not clear the timer it replaces in the Map.
ScheduleRecovery(s, a) ==
    [s EXCEPT !.timer[a] = "recovery",
              !.stray = IF s.timer[a] = "none" THEN @ ELSE @ \cup {a}]

\* The job of account a is in its next state.
JobIs(s, a, at, attempt, hits) ==
    [s EXCEPT !.job[a] = [at |-> at, attempt |-> attempt, hits |-> hits]]

-----------------------------------------------------------------------------
(* The accounts of process p *)

SchedIs(p, s) == sched' = [sched EXCEPT ![p] = s]
MemIs(p, m) == mem' = [mem EXCEPT ![p] = m]

\* persistNow writes every account of the process; a failed save is logged.
PersistNow(p, h, m) ==
    /\ dirty' = [dirty EXCEPT ![p] = FALSE]
    /\ \/ saved' = h /\ disk' = m
       \/ "savefail" \in Events /\ UNCHANGED <<saved, disk>>

SchedulePersist(p) == dirty' = [dirty EXCEPT ![p] = TRUE] /\ UNCHANGED <<saved, disk>>

NoPersist == UNCHANGED <<dirty, saved, disk>>

\* markStatus; nothing happens if the account is not there any more.
MarkStatus(p, a, status) ==
    IF a \in here[p]
    THEN MemIs(p, [mem[p] EXCEPT ![a].status = status]) /\ SchedulePersist(p)
    ELSE UNCHANGED mem /\ NoPersist

\* updateToken: rt = 0 keeps the refresh token, a sticky status stays.
Updated(cred, tok, rt) ==
    [token  |-> tok,
     rt     |-> IF rt = 0 THEN cred.rt ELSE rt,
     status |-> IF cred.status \in Sticky THEN cred.status ELSE "active"]

\* Mutant of UpdateToken: the save is debounced, as that of a status is.
UpdateTokenLater(p, a, tok, rt) ==
    IF a \in here[p]
    THEN MemIs(p, [mem[p] EXCEPT ![a] = Updated(@, tok, rt)]) /\ SchedulePersist(p)
    ELSE UNCHANGED mem /\ NoPersist

UpdateToken(p, a, tok, rt) ==
    IF a \in here[p]
    THEN LET m == [mem[p] EXCEPT ![a] = Updated(@, tok, rt)]
         IN  MemIs(p, m) /\ PersistNow(p, here[p], m)
    ELSE UNCHANGED mem /\ NoPersist

Send(p, a, c, rt) == net' = [net EXCEPT ![p][a][c] = [NoCall EXCEPT !.sent = rt]]
Received(p, a, c) == net' = [net EXCEPT ![p][a][c] = NoCall]

-----------------------------------------------------------------------------
(* The life of a process *)

\* startServer: stale locks are removed, accounts.json is read (time may have
\* passed since it was written) and scheduleAll runs.
Start(p) ==
    /\ run[p] = "down"
    /\ run' = [run EXCEPT ![p] = "up"]
    /\ lock' = [a \in Accounts |-> IF lock[a].stale THEN Free ELSE lock[a]]
    /\ here' = [here EXCEPT ![p] = saved]
    /\ \E late \in SUBSET saved :
          LET loaded == [a \in Accounts |->
                            IF a \in late THEN [disk[a] EXCEPT !.token = "due"] ELSE disk[a]]
              eligible == {a \in saved : loaded[a].rt # 0 /\ loaded[a].status \notin Sticky}
              atOnce == {a \in eligible :
                            \/ loaded[a].status = "refreshing"
                            \/ loaded[a].status # "expired" /\ loaded[a].token = "due"}
          IN  /\ MemIs(p, loaded)
              /\ \E order \in [1 .. Cardinality(atOnce) -> atOnce] :
                    /\ \A a \in atOnce : \E i \in DOMAIN order : order[i] = a
                    /\ LET first == {i \in DOMAIN order : i <= Concurrency}
                       IN  SchedIs(p,
                            [timer |-> [a \in Accounts |->
                                CASE a \notin eligible \/ a \in atOnce -> "none"
                                  [] loaded[a].status = "expired" -> "recovery"
                                  [] OTHER -> "refresh"],
                             stray |-> {},
                             job |-> [a \in Accounts |->
                                CASE a \notin atOnce -> NoJob
                                  [] \E i \in first : order[i] = a -> [NoJob EXCEPT !.at = "granted"]
                                  [] OTHER -> [NoJob EXCEPT !.at = "queued"]],
                             queue |-> SubSeq(order, Concurrency + 1, Len(order)),
                             running |-> Cardinality(first)])
    /\ UNCHANGED <<dirty, net, saved, disk, server>>

\* The process is gone, and with it what it had in memory; its lock files stay.
Gone(p) ==
    /\ run' = [run EXCEPT ![p] = "down"]
    /\ here' = [here EXCEPT ![p] = {}]
    /\ MemIs(p, disk')
    /\ dirty' = [dirty EXCEPT ![p] = FALSE]
    /\ SchedIs(p, IdleSched)
    /\ net' = [net EXCEPT ![p] = [a \in Accounts |-> [c \in Callers |-> NoCall]]]
    /\ UNCHANGED <<lock, server>>

Crash(p) ==
    /\ "crash" \in Events
    /\ run[p] # "down"
    /\ UNCHANGED <<saved, disk>>
    /\ Gone(p)

\* close: destroy() of the scheduler lets everybody in the queue go on, and
\* that of the pool saves the accounts.
Stop(p) ==
    /\ "stop" \in Events
    /\ run[p] = "up"
    /\ run' = [run EXCEPT ![p] = "stopping"]
    /\ SchedIs(p, [IdleSched EXCEPT !.job =
           [a \in Accounts |-> IF sched[p].job[a].at = "queued"
                               THEN [NoJob EXCEPT !.at = "granted"] ELSE NoJob],
           !.running = Len(sched[p].queue)])
    /\ PersistNow(p, here[p], mem[p])
    /\ UNCHANGED <<here, mem, net, lock, server>>

\* process.exit follows when the waiters have run.
Exit(p) ==
    /\ run[p] = "stopping"
    /\ \A a \in Accounts : sched[p].job[a].at # "granted"
    /\ UNCHANGED <<saved, disk>>
    /\ Gone(p)

Flush(p) ==
    /\ run[p] = "up"
    /\ dirty[p]
    /\ PersistNow(p, here[p], mem[p])
    /\ UNCHANGED <<run, here, mem, sched, net, lock, server>>

-----------------------------------------------------------------------------
(* The refresh of one account *)

\* Mutant of LockBusy: no lock across processes.
LockNeverBusy(a) == FALSE

LockBusy(a) == lock[a].by # Nobody /\ ~lock[a].stale
Locked(p, a) == lock' = [lock EXCEPT ![a] = [by |-> p, stale |-> FALSE]]
Unlocked(a) == lock' = [lock EXCEPT ![a] = Free]   \* whoever holds it

\* The process p goes on with a refresh that has a slot of the semaphore.
Granted(p, a) ==
    /\ run[p] # "down"
    /\ sched[p].job[a].at = "granted"
    /\ UNCHANGED <<run, here, server>>

\* Another process (or the one that crashed) holds the lock, or its file
\* cannot be written: skipped.
SkipLocked(p, a) ==
    /\ Granted(p, a)
    /\ LockBusy(a) \/ "lockfail" \in Events
    /\ SchedIs(p, Ended(sched[p], a))
    /\ UNCHANGED <<mem, net, lock>>
    /\ NoPersist

\* Mutant of LockThrows: the catch clause leaves the status as it is.
LockThrowsOnly(p, a) ==
    /\ Granted(p, a)
    /\ "dirfail" \in Events
    /\ SchedIs(p, Ended(sched[p], a))
    /\ UNCHANGED <<mem, net, lock>>
    /\ NoPersist

\* The lock directory cannot be made: the catch clause of doRefresh.
LockThrows(p, a) ==
    /\ Granted(p, a)
    /\ "dirfail" \in Events
    /\ IF a \in here[p] /\ mem[p][a].status = "refreshing"
       THEN /\ MarkStatus(p, a, "active")
            /\ SchedIs(p, Ended(ScheduleRecovery(sched[p], a), a))
       ELSE /\ UNCHANGED mem /\ NoPersist
            /\ SchedIs(p, Ended(sched[p], a))
    /\ UNCHANGED <<net, lock>>

DiskDiffers(p, a) == a \in saved /\ disk[a].rt \notin {0, mem[p][a].rt}

\* The lock is free but there is nothing to refresh: the account is gone, or
\* it has no refresh token.
NothingToRefresh(p, a) ==
    /\ Granted(p, a)
    /\ ~LockBusy(a)
    /\ a \notin here[p] \/ mem[p][a].rt = 0
    /\ MarkStatus(p, a, "expired")
    /\ SchedIs(p, Ended(sched[p], a))
    /\ Unlocked(a)
    /\ UNCHANGED net

\* The refresh token in accounts.json is another one: it is taken over.
SyncFromDisk(p, a) ==
    LET synced == [mem[p] EXCEPT ![a] = Updated(@, @.token, disk[a].rt)]
    IN  /\ Granted(p, a)
        /\ ~LockBusy(a)
        /\ a \in here[p] /\ mem[p][a].rt # 0
        /\ DiskDiffers(p, a)
        /\ MemIs(p, [synced EXCEPT ![a].status = "active"])
        /\ dirty' = [dirty EXCEPT ![p] = TRUE]
        /\ \/ saved' = here[p] /\ disk' = synced
           \/ "savefail" \in Events /\ UNCHANGED <<saved, disk>>
        /\ SchedIs(p, Ended(ScheduleOne(sched[p], a, mem[p][a].token), a))
        /\ Unlocked(a)
        /\ UNCHANGED net

FirstAttempt(p, a) ==
    /\ Granted(p, a)
    /\ ~LockBusy(a)
    /\ a \in here[p] /\ mem[p][a].rt # 0
    /\ ~DiskDiffers(p, a)
    /\ Locked(p, a)
    /\ MarkStatus(p, a, "refreshing")
    /\ Send(p, a, "job", mem[p][a].rt)
    /\ SchedIs(p, JobIs(sched[p], a, "call", 1, 0))

\* refreshAccessToken gives tokens.
JobTokens(p, a) ==
    /\ run[p] = "up"
    /\ sched[p].job[a].at = "call"
    /\ net[p][a]["job"].reply = "tokens"
    /\ UpdateToken(p, a, "fresh", net[p][a]["job"].rt)
    /\ SchedIs(p, Ended(ScheduleOne(sched[p], a, "fresh"), a))
    /\ Received(p, a, "job")
    /\ Unlocked(a)
    /\ UNCHANGED <<run, here, server>>

\* permanentHits after an error of this kind
HitsAfter(job, error) == IF error = "permanent" THEN job.hits + 1 ELSE job.hits

\* refreshAccessToken throws: the refresh gives up because the refresh token
\* is dead, sleeps before another attempt, or leaves it to a recovery timer.
JobError(p, a, error) ==
    LET job == sched[p].job[a]
        hits == HitsAfter(job, error)
        dead == error = "permanent" /\ hits >= Threshold
    IN  /\ run[p] = "up"
        /\ job.at = "call"
        /\ \/ dead
              /\ MarkStatus(p, a, "expired")
              /\ SchedIs(p, Ended(sched[p], a))
              /\ Unlocked(a)
           \/ ~dead /\ job.attempt < MaxAttempts
              /\ SchedIs(p, JobIs(sched[p], a, "sleep", job.attempt, hits))
              /\ UNCHANGED <<mem, lock>>
              /\ NoPersist
           \/ ~dead /\ job.attempt = MaxAttempts
              /\ MarkStatus(p, a, "active")
              /\ SchedIs(p, Ended(ScheduleRecovery(sched[p], a), a))
              /\ Unlocked(a)
        /\ Received(p, a, "job")
        /\ UNCHANGED <<run, here, server>>

\* The network fails before the server got the request, or on its reply.
NetworkFails(call) ==
    \/ "netfail" \in Events /\ call.sent # 0 /\ call.reply = "none"
    \/ "netloss" \in Events /\ call.reply # "none"

JobRefused(p, a) == net[p][a]["job"].reply = "refused" /\ JobError(p, a, "permanent")

\* Mutant of JobFails: a network error counts as a dead refresh token.
JobFailsHard(p, a) == NetworkFails(net[p][a]["job"]) /\ JobError(p, a, "permanent")

JobFails(p, a) == NetworkFails(net[p][a]["job"]) /\ JobError(p, a, "transient")

\* The next attempt sends the refresh token the entry has by now.
NextAttempt(p, a) ==
    LET job == sched[p].job[a]
    IN  /\ run[p] = "up"
        /\ job.at = "sleep"
        /\ Send(p, a, "job", mem[p][a].rt)
        /\ SchedIs(p, JobIs(sched[p], a, "call", job.attempt + 1, job.hits))
        /\ NoPersist
        /\ UNCHANGED <<run, here, mem, lock, server>>

TimerFires(p, a) ==
    LET s == sched[p]
    IN  /\ run[p] = "up"
        /\ s.timer[a] # "none"
        /\ MemIs(p, IF s.timer[a] = "refresh"
                    THEN [mem[p] EXCEPT ![a].token = "due"] ELSE mem[p])
        /\ SchedIs(p, DoRefresh(ClearOne(s, a), a))
        /\ NoPersist
        /\ UNCHANGED <<run, here, net, lock, server>>

\* The callback of a stray timer deletes from the Map whatever timer is there.
StrayFires(p, a) ==
    LET s == sched[p]
    IN  /\ run[p] = "up"
        /\ a \in s.stray
        /\ SchedIs(p, DoRefresh([ClearOne(s, a) EXCEPT
                         !.stray = IF s.timer[a] = "none" THEN @ \ {a} ELSE @], a))
        /\ NoPersist
        /\ UNCHANGED <<run, here, mem, net, lock, server>>

-----------------------------------------------------------------------------
(* probeAccount *)

ProbeStarts(p, a) ==
    /\ "probe" \in Events
    /\ run[p] = "up"
    /\ a \in here[p] /\ mem[p][a].rt # 0 /\ mem[p][a].status # "disabled"
    /\ ~InFlight(sched[p], a)
    /\ net[p][a]["probe"] = NoCall
    /\ Send(p, a, "probe", mem[p][a].rt)
    /\ NoPersist
    /\ UNCHANGED <<run, here, mem, sched, lock, server>>

\* Mutant of ProbeTokens: the next refresh is not scheduled.
ProbeTokensOnly(p, a) ==
    /\ run[p] = "up"
    /\ net[p][a]["probe"].reply = "tokens"
    /\ UpdateToken(p, a, "fresh", net[p][a]["probe"].rt)
    /\ Received(p, a, "probe")
    /\ UNCHANGED <<run, here, sched, lock, server>>

ProbeTokens(p, a) ==
    /\ run[p] = "up"
    /\ net[p][a]["probe"].reply = "tokens"
    /\ UpdateToken(p, a, "fresh", net[p][a]["probe"].rt)
    /\ SchedIs(p, ScheduleOne(sched[p], a, "fresh"))
    /\ Received(p, a, "probe")
    /\ UNCHANGED <<run, here, lock, server>>

ProbeRefused(p, a) ==
    /\ run[p] = "up"
    /\ net[p][a]["probe"].reply = "refused"
    /\ MarkStatus(p, a, "expired")
    /\ Received(p, a, "probe")
    /\ UNCHANGED <<run, here, sched, lock, server>>

ProbeFails(p, a) ==
    /\ run[p] = "up"
    /\ NetworkFails(net[p][a]["probe"])
    /\ Received(p, a, "probe")
    /\ NoPersist
    /\ UNCHANGED <<run, here, mem, sched, lock, server>>

-----------------------------------------------------------------------------
(* The OAuth server, the user, the clock *)

Good(a) == (1 .. issued[a]) \ (used[a] \cup revoked[a])

\* A refresh token is exchanged once; the reply has a new one, or none when
\* the old one stays good.
ServerAnswers(p, a, c) ==
    LET call == net[p][a][c]
        Reply(r, rt) == net' = [net EXCEPT ![p][a][c].reply = r, ![p][a][c].rt = rt]
    IN  /\ call.sent # 0 /\ call.reply = "none"
        /\ \/ /\ call.sent \in Good(a) /\ issued[a] < MaxIssued
              /\ Reply("tokens", issued[a] + 1)
              /\ issued' = [issued EXCEPT ![a] = @ + 1]
              /\ used' = [used EXCEPT ![a] = @ \cup {call.sent}]
           \/ call.sent \in Good(a) /\ Reply("tokens", 0) /\ UNCHANGED <<issued, used>>
           \/ call.sent \notin Good(a) /\ Reply("refused", 0) /\ UNCHANGED <<issued, used>>
        /\ NoPersist
        /\ UNCHANGED <<run, here, mem, sched, lock, revoked>>

Revoke(a) ==
    /\ "revoke" \in Events
    /\ revoked' = [revoked EXCEPT ![a] = 1 .. issued[a]]
    /\ NoPersist
    /\ UNCHANGED <<run, here, mem, sched, net, lock, issued, used>>

\* The user logs in again with an account of the pool.
Login(p, a) ==
    LET m == [mem[p] EXCEPT ![a] = [status |-> "active", rt |-> issued[a] + 1, token |-> "fresh"]]
    IN  /\ "login" \in Events
        /\ run[p] = "up"
        /\ a \in here[p] /\ issued[a] < MaxIssued
        /\ issued' = [issued EXCEPT ![a] = @ + 1]
        /\ MemIs(p, m)
        /\ PersistNow(p, here[p], m)
        /\ SchedIs(p, ScheduleOne(sched[p], a, "fresh"))
        /\ UNCHANGED <<run, here, net, lock, used, revoked>>

\* deleteBatch, one id
Delete(p, a) ==
    /\ "delete" \in Events
    /\ run[p] = "up"
    /\ a \in here[p]
    /\ here' = [here EXCEPT ![p] = @ \ {a}]
    /\ SchedIs(p, ClearOne(sched[p], a))
    /\ SchedulePersist(p)
    /\ UNCHANGED <<run, mem, net, lock, server>>

\* setStatusBatch, one id: the timers stay as they are
SetStatus(p, a, status) ==
    /\ (IF status = "active" THEN "enable" ELSE "disable") \in Events
    /\ run[p] = "up"
    /\ a \in here[p]
    /\ MarkStatus(p, a, status)
    /\ UNCHANGED <<run, here, sched, net, lock, server>>

\* What the requests on an account do to it.
RequestMarks(p, a, status) ==
    /\ "request" \in Events
    /\ run[p] = "up"
    /\ a \in here[p]
    /\ status = "active" => mem[p][a].status = "rate_limited"
    /\ MarkStatus(p, a, status)
    /\ UNCHANGED <<run, here, sched, net, lock, server>>

\* The lock file is older than STALE_MS: one that was left behind, or, if
\* attempts and back-offs take that long, one that is still in use.
LockAges(a) ==
    /\ LockBusy(a)
    /\ run[lock[a].by] # "stopping"
    /\ "stale" \in Events \/ sched[lock[a].by].job[a].at \notin {"call", "sleep"}
    /\ lock' = [lock EXCEPT ![a].stale = TRUE]
    /\ NoPersist
    /\ UNCHANGED <<run, here, mem, sched, net, server>>

-----------------------------------------------------------------------------

JobStep(p, a) ==
    \/ SkipLocked(p, a) \/ LockThrows(p, a)
    \/ NothingToRefresh(p, a) \/ SyncFromDisk(p, a) \/ FirstAttempt(p, a)
    \/ JobTokens(p, a) \/ JobRefused(p, a) \/ JobFails(p, a)
    \/ NextAttempt(p, a)
    \/ ServerAnswers(p, a, "job")

Next ==
    \/ \E p \in Procs :
        \/ Start(p) \/ Crash(p) \/ Stop(p) \/ Exit(p) \/ Flush(p)
        \/ \E a \in Accounts :
            \/ JobStep(p, a)
            \/ TimerFires(p, a) \/ StrayFires(p, a)
            \/ ProbeStarts(p, a) \/ ProbeTokens(p, a) \/ ProbeRefused(p, a) \/ ProbeFails(p, a)
            \/ ServerAnswers(p, a, "probe")
            \/ Login(p, a) \/ Delete(p, a)
            \/ \E s \in {"active", "disabled"} : SetStatus(p, a, s)
            \/ \E s \in {"active", "rate_limited", "expired", "banned"} : RequestMarks(p, a, s)
    \/ \E a \in Accounts : Revoke(a) \/ LockAges(a)

Spec == Init /\ [][Next]_vars

\* Every token request ends, every back-off does, timers fire, and a process
\* that is stopped exits.
Fair ==
    \A p \in Procs :
        /\ WF_vars(Exit(p))
        /\ \A a \in Accounts : WF_vars(JobStep(p, a)) /\ WF_vars(TimerFires(p, a))

-----------------------------------------------------------------------------
(* Properties *)

\* The semaphore counts exactly the refreshes that hold a slot, keeps to the
\* limit, and nobody waits in its queue while a slot is free
\* (acquireSlot, releaseSlot).
SemaphoreExact ==
    \A p \in Procs :
        LET s == sched[p]
            slots == {a \in Accounts : s.job[a].at \in {"granted", "call", "sleep"}}
        IN  run[p] = "up" =>
            /\ s.running = Cardinality(slots) /\ s.running <= Concurrency
            /\ s.queue # <<>> => s.running = Concurrency
            /\ {a \in Accounts : s.job[a].at = "queued"} = {s.queue[i] : i \in DOMAIN s.queue}

\* A timer or a refresh under way will renew the access token of account a.
Renewal(s, a) == s.timer[a] # "none" \/ a \in s.stray \/ InFlight(s, a)

\* The accounts of process p that the pool would use and that can be renewed.
InUse(p) ==
    {a \in here[p] : /\ mem[p][a].rt # 0
                     /\ mem[p][a].status \in {"active", "rate_limited", "refreshing"}}

\* Every account in use has a timer or a refresh under way, whatever happens
\* ("Schedules a refresh at `exp - margin` for each account",
\* refresh-scheduler.ts).
NeverForgotten ==
    \A p \in Procs : run[p] = "up" => \A a \in InUse(p) : Renewal(sched[p], a)

\* At most one token request per account is under way, in whatever process
\* (tryAcquireRefreshLock: "Prevents concurrent RT consumption").
OneRequestPerAccount ==
    \A a \in Accounts :
        Cardinality({x \in Procs \X Callers : net[x[1]][a][x[2]].sent # 0}) <= 1

\* Every refresh ends, also those that wait in the queue of the semaphore,
\* whatever fails.
EveryRefreshEnds ==
    \A p \in Procs, a \in Accounts :
        InFlight(sched[p], a) ~> ~InFlight(sched[p], a)

\* A refresh never leaves its account "refreshing", a status no request may
\* use: neither when it fails nor, after a crash, when the start takes it up
\* ("Crash recovery: refreshing -> immediate retry", refresh-scheduler.ts).
\* A refresh that is skipped is left out, and the code leaves its account
\* refreshing: for the lock of a process that died and is still fresh
\* (finding_crash_forgets), or for a lock file that cannot be written.
RefreshingSettles ==
    \A p \in Procs, a \in Accounts :
        /\ run[p] = "up" /\ a \in here[p] /\ mem[p][a].status = "refreshing"
        /\ \/ sched[p].job[a].at \in {"call", "sleep"}
           \/ InFlight(sched[p], a) /\ ~LockBusy(a)
        ~> run[p] # "up" \/ a \notin here[p] \/ mem[p][a].status # "refreshing"
=============================================================================
