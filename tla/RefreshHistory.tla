--------------------------- MODULE RefreshHistory ---------------------------
(***************************************************************************)
(* RefreshScheduler with history variables, which record what became of    *)
(* the answers of the OAuth server and of the refreshes that were skipped, *)
(* and the properties about them.                                          *)
(***************************************************************************)
EXTENDS RefreshScheduler

VARIABLES
    replaced,  \* each account: the RTs that were sent and whose successor, which
               \* came with the reply, a process has stored
    refused,   \* each process and account: the refusals the refresh under way has had
    skipped    \* each process: the accounts whose refresh was skipped for the lock,
               \* as long as nothing has been scheduled for them since

hvars == <<vars, replaced, refused, skipped>>

HInit ==
    /\ Init
    /\ replaced = [a \in Accounts |-> {}]
    /\ refused = [p \in Procs |-> [a \in Accounts |-> 0]]
    /\ skipped = [p \in Procs |-> {}]

\* The step stores the new RT that the reply to caller c has brought.
Stores(p, a, c) ==
    LET call == net[p][a][c]
    IN  /\ call.reply = "tokens" /\ call.rt # 0
        /\ net'[p][a][c] = NoCall
        /\ a \in here[p] /\ mem'[p][a].rt = call.rt

Replaced ==
    replaced' = [a \in Accounts |-> replaced[a] \cup
        {net[x[1]][a][x[2]].sent : x \in {y \in Procs \X Callers : Stores(y[1], a, y[2])}}]

Refused ==
    refused' = [p \in Procs |-> [a \in Accounts |->
        IF sched'[p].job[a].at \notin {"call", "sleep"} THEN 0
        ELSE IF JobRefused(p, a) THEN refused[p][a] + 1 ELSE refused[p][a]]]

Skipped ==
    skipped' = [p \in Procs |-> {a \in Accounts :
        /\ run'[p] # "down" /\ ~Renewal(sched'[p], a)
        /\ a \in skipped[p] \/ SkipLocked(p, a)}]

Recorded == Replaced /\ Refused /\ Skipped

\* The actions of Next, each with what it adds to the history.
HNext ==
    \/ \E p \in Procs :
        \/ Start(p) /\ Recorded
        \/ Crash(p) /\ Recorded
        \/ Stop(p) /\ Recorded
        \/ Exit(p) /\ Recorded
        \/ Flush(p) /\ Recorded
        \/ \E a \in Accounts :
            \/ SkipLocked(p, a) /\ Recorded
            \/ LockThrows(p, a) /\ Recorded
            \/ NothingToRefresh(p, a) /\ Recorded
            \/ SyncFromDisk(p, a) /\ Recorded
            \/ FirstAttempt(p, a) /\ Recorded
            \/ JobTokens(p, a) /\ Recorded
            \/ JobRefused(p, a) /\ Recorded
            \/ JobFails(p, a) /\ Recorded
            \/ NextAttempt(p, a) /\ Recorded
            \/ TimerFires(p, a) /\ Recorded
            \/ StrayFires(p, a) /\ Recorded
            \/ ProbeStarts(p, a) /\ Recorded
            \/ ProbeTokens(p, a) /\ Recorded
            \/ ProbeRefused(p, a) /\ Recorded
            \/ ProbeFails(p, a) /\ Recorded
            \/ \E c \in Callers : ServerAnswers(p, a, c) /\ Recorded
            \/ Login(p, a) /\ Recorded
            \/ Delete(p, a) /\ Recorded
            \/ \E s \in {"active", "disabled"} : SetStatus(p, a, s) /\ Recorded
            \/ \E s \in {"active", "rate_limited", "expired", "banned"} :
                  RequestMarks(p, a, s) /\ Recorded
    \/ \E a \in Accounts :
        \/ Revoke(a) /\ Recorded
        \/ LockAges(a) /\ Recorded

HSpec == HInit /\ [][HNext]_hvars

HFairSpec == HSpec /\ Fair

-----------------------------------------------------------------------------
(* Properties *)

Sends(p, a, c) == net[p][a][c] = NoCall /\ net'[p][a][c] # NoCall

\* An account in use is never forgotten, through logins, probes, deletions,
\* lost replies, crashes and restarts: a timer or a refresh under way will
\* renew its access token ("Schedules a refresh at `exp - margin` for each
\* account").  The one exception is a refresh skipped for the lock, which
\* leaves no timer (finding_crash_forgets).  For one process whose saves and
\* lock directory work; an account that is switched on, or made active by a
\* request, gets no timer in the code either.
RefreshKept ==
    \A p \in Procs : run[p] = "up" =>
        \A a \in InUse(p) : Renewal(sched[p], a) \/ a \in skipped[p]

\* A refresh token whose successor has been stored is never sent again: not
\* by another attempt after a lost reply, by a timer, by a probe beside a
\* refresh, nor by the refresh after a crash or a stop (updateToken saves at
\* once).  For one process whose saves succeed: after a failed save a restart
\* reads the old token, and a second process may write it back to the file.
\* A token whose reply never came is sent again, here as in the code.
NeverReused ==
    [][\A p \in Procs, a \in Accounts, c \in Callers :
          Sends(p, a, c) => net'[p][a][c].sent \notin replaced[a]]_hvars

\* An answer makes an account expired only if the server refused as dead the
\* very token that was sent, and a scheduled refresh only when it has had
\* that answer PERMANENT_THRESHOLD times: network errors never count, and
\* nothing is carried over from an earlier refresh (permanentHits).  Beside
\* probes and logins the token of the account may be another one by then, and
\* good: the code marks the account expired all the same.
ExpiredOnlyWhenDead ==
    [][\A p \in Procs, c \in Callers : run[p] = "up" /\ run'[p] = "up" =>
         \A a \in here[p] :
            LET call == net[p][a][c]
            IN  /\ mem[p][a].status # "expired" /\ mem'[p][a].status = "expired"
                /\ call # NoCall /\ net'[p][a][c] = NoCall
                => /\ call.reply = "refused" /\ call.sent \notin Good(a)
                   /\ c = "job" => refused[p][a] + 1 >= Threshold]_hvars
=============================================================================
