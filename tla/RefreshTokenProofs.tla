-------------------------- MODULE RefreshTokenProofs -------------------------
(***************************************************************************)
(* What the refresh scheduler, the refresh lock and accounts.json together  *)
(* owe to a refresh token, for any sets of accounts and bounds: one request *)
(* at a time, none with a token whose successor is stored, no account       *)
(* forgotten, and none expired unless the token sent was dead.  Where one   *)
(* does not hold with a second process or some of Events, its theorem       *)
(* names them.                                                              *)
(*                                                                          *)
(* First what a step on one account may touch, and where it takes the       *)
(* refresh of that account; then one invariant for each theorem.            *)
(***************************************************************************)
EXTENDS RefreshSchedulerProofs, RefreshHistory

\* The actions of Next on one account of one process.
AccountStep(p, a) ==
    \/ JobStep(p, a)
    \/ TimerFires(p, a) \/ StrayFires(p, a)
    \/ ProbeStarts(p, a) \/ ProbeTokens(p, a) \/ ProbeRefused(p, a) \/ ProbeFails(p, a)
    \/ ServerAnswers(p, a, "probe")
    \/ Login(p, a) \/ Delete(p, a)
    \/ \E s \in {"active", "disabled"} : SetStatus(p, a, s)
    \/ \E s \in {"active", "rate_limited", "expired", "banned"} : RequestMarks(p, a, s)

LifeStep(p) == Start(p) \/ Crash(p) \/ Stop(p) \/ Exit(p) \/ Flush(p)

LEMMA NextCases ==
  ASSUME [Next]_vars
  PROVE  \/ UNCHANGED vars
         \/ \E p \in Procs : LifeStep(p)
         \/ \E p \in Procs, a \in Accounts : AccountStep(p, a)
         \/ \E a \in Accounts : Revoke(a) \/ LockAges(a)
  BY DEF Next, LifeStep, AccountStep

-----------------------------------------------------------------------------
(* What a step on account a of process p leaves alone *)

Other(p, a, q, b) == q # p \/ b # a

\* A refresh that only comes to the head of the queue.
Moved(old, new) == new = old \/ (old.at = "queued" /\ new.at = "granted")

JobsElsewhere(p, a) ==
    \A q \in Procs, b \in Accounts : Other(p, a, q, b) =>
        /\ Moved(sched[q].job[b], sched'[q].job[b])
        /\ sched'[q].timer[b] = sched[q].timer[b]
        /\ b \in sched'[q].stray <=> b \in sched[q].stray

NetElsewhere(p, a) ==
    \A q \in Procs, b \in Accounts : Other(p, a, q, b) => net'[q][b] = net[q][b]

RestElsewhere(p, a) ==
    /\ run' = run /\ revoked' = revoked
    /\ \A b \in Accounts : b # a =>
          lock'[b] = lock[b] /\ issued'[b] = issued[b] /\ used'[b] = used[b]

\* doRefresh begins a refresh that is not under way, and changes no other.
LEMMA DoRefreshJobs ==
  ASSUME NEW s \in Sched, NEW a \in Accounts
  PROVE  LET t == DoRefresh(s, a)
         IN  /\ \A b \in Accounts : b # a => t.job[b] = s.job[b]
             /\ InFlight(s, a) => t.job[a] = s.job[a]
             /\ ~InFlight(s, a) => t.job[a].at \in {"queued", "granted"}
             /\ t.timer = s.timer /\ t.stray = s.stray
<1> SUFFICES ASSUME NEW t, t = DoRefresh(s, a)
             PROVE  /\ \A b \in Accounts : b # a => t.job[b] = s.job[b]
                    /\ InFlight(s, a) => t.job[a] = s.job[a]
                    /\ ~InFlight(s, a) => t.job[a].at \in {"queued", "granted"}
                    /\ t.timer = s.timer /\ t.stray = s.stray
  OBVIOUS
<1>1. CASE InFlight(s, a)
  BY <1>1 DEF DoRefresh
<1>2. CASE ~InFlight(s, a) /\ s.running < Concurrency
  <2>1. t = [s EXCEPT !.job[a].at = "granted", !.running = s.running + 1]
    BY <1>2 DEF DoRefresh
  <2> QED BY <1>2, <2>1 DEF Sched, Job
<1>3. CASE ~InFlight(s, a) /\ ~(s.running < Concurrency)
  <2>1. t = [s EXCEPT !.job[a].at = "queued", !.queue = Append(s.queue, a)]
    BY <1>3 DEF DoRefresh
  <2> QED BY <1>3, <2>1 DEF Sched, Job
<1> QED BY <1>1, <1>2, <1>3

\* The end of a refresh lets at most another one go on.
LEMMA EndedJobs ==
  ASSUME NEW s, SchedOK(s), NEW a \in Slots(s)
  PROVE  LET t == Ended(s, a)
         IN  /\ t.job[a] = NoJob
             /\ \A b \in Accounts : b # a => Moved(s.job[b], t.job[b])
             /\ t.timer = s.timer /\ t.stray = s.stray
<1> SUFFICES ASSUME NEW t, t = Ended(s, a)
             PROVE  /\ t.job[a] = NoJob
                    /\ \A b \in Accounts : b # a => Moved(s.job[b], t.job[b])
                    /\ t.timer = s.timer /\ t.stray = s.stray
  OBVIOUS
<1> DEFINE h == Head(s.queue)
<1>1. s \in Sched /\ Counted(s) /\ a \in Accounts /\ s.job[a].at \in Holding
  BY DEF SchedOK, Slots
<1>2. CASE s.queue = <<>>
  <2>1. t = [s EXCEPT !.job = [s.job EXCEPT ![a] = NoJob], !.running = s.running - 1]
    BY <1>2 DEF Ended
  <2> QED BY <1>1, <2>1 DEF Sched, Moved
<1>3. CASE s.queue # <<>>
  <2> DEFINE freed == [s.job EXCEPT ![a] = NoJob]
  <2>1. t = [s EXCEPT !.job = [freed EXCEPT ![h].at = "granted"], !.queue = Tail(s.queue)]
    BY <1>3 DEF Ended
  <2>2. s.queue \in Seq(Accounts)
    BY <1>1 DEF Sched
  <2>3. h \in Accounts /\ h \in Waiting(s)
    BY <1>1, <1>3, <2>2, TailOfQueue DEF Counted
  <2>4. s.job[h].at = "queued" /\ h # a
    BY <1>1, <2>3 DEF Waiting, Holding
  <2>5. freed \in [Accounts -> Job]
    BY <1>1, RefreshAssumption DEF Sched, Job, NoJob
  <2>6. freed[a] = NoJob /\ \A b \in Accounts : b # a => freed[b] = s.job[b]
    BY <1>1 DEF Sched
  <2> HIDE DEF freed, h
  <2>7. t.job = [freed EXCEPT ![h].at = "granted"] /\ t.timer = s.timer /\ t.stray = s.stray
    BY <1>1, <2>1 DEF Sched
  <2>8. t.job[h].at = "granted" /\ \A b \in Accounts : b # h => t.job[b] = freed[b]
    BY <2>3, <2>5, <2>7 DEF Job
  <2> QED BY <2>3, <2>4, <2>6, <2>7, <2>8 DEF Moved
<1> QED BY <1>2, <1>3

\* A step that gives the scheduler of p the state t, which differs from the
\* one it had only in what belongs to account a.
Differs(s, t, a) ==
    \A b \in Accounts : b # a =>
        /\ Moved(s.job[b], t.job[b])
        /\ t.timer[b] = s.timer[b]
        /\ b \in t.stray <=> b \in s.stray

LEMMA DiffersElsewhere ==
  ASSUME sched \in [Procs -> Sched], NEW p \in Procs, NEW a \in Accounts, NEW t,
         SchedIs(p, t), Differs(sched[p], t, a)
  PROVE  JobsElsewhere(p, a) /\ sched'[p] = t
<1>1. sched'[p] = t /\ \A q \in Procs : q # p => sched'[q] = sched[q]
  BY DEF SchedIs
<1> QED BY <1>1 DEF JobsElsewhere, Differs, Other, Moved

LEMMA TimersDiffer ==
  ASSUME NEW s \in Sched, NEW a \in Accounts
  PROVE  /\ LET t == ClearOne(s, a)
            IN  t \in Sched /\ t.job = s.job /\ Differs(s, t, a) /\ t.timer[a] = "none"
         /\ LET t == ScheduleRecovery(s, a)
            IN  t \in Sched /\ t.job = s.job /\ Differs(s, t, a) /\ t.timer[a] = "recovery"
         /\ LET t == ScheduleOne(s, a, "fresh")
            IN  t \in Sched /\ t.job = s.job /\ Differs(s, t, a) /\ t.timer[a] = "refresh"
<1>1. ASSUME NEW t, t = ClearOne(s, a)
      PROVE  t \in Sched /\ t.job = s.job /\ Differs(s, t, a) /\ t.timer[a] = "none"
  BY <1>1 DEF ClearOne, Sched, Differs, Moved
<1>2. ASSUME NEW t, t = ScheduleRecovery(s, a)
      PROVE  t \in Sched /\ t.job = s.job /\ Differs(s, t, a) /\ t.timer[a] = "recovery"
  BY <1>2 DEF ScheduleRecovery, Sched, Differs, Moved
<1>3. ASSUME NEW t, t = ScheduleOne(s, a, "fresh")
      PROVE  t \in Sched /\ t.job = s.job /\ Differs(s, t, a) /\ t.timer[a] = "refresh"
  BY <1>3 DEF ScheduleOne, Sched, Differs, Moved
<1> QED BY <1>1, <1>2, <1>3

\* Where the refresh of account a of process p goes.
At(p, a) == sched[p].job[a].at
Hits(p, a) == sched[p].job[a].hits

LEMMA EndsAt ==
  ASSUME SemaphoreInv, NEW p \in Procs, NEW a \in Accounts, At(p, a) \in Holding,
         NEW u, SchedOK(u), u.job = sched[p].job, Differs(sched[p], u, a),
         SchedIs(p, Ended(u, a))
  PROVE  /\ JobsElsewhere(p, a) /\ At(p, a)' = "none"
         /\ sched'[p].timer = u.timer /\ sched'[p].stray = u.stray
<1> DEFINE t == Ended(u, a)
<1>1. a \in Slots(u)
  BY DEF Slots, At
<1>2. /\ t.job[a] = NoJob
      /\ \A b \in Accounts : b # a => Moved(u.job[b], t.job[b])
      /\ t.timer = u.timer /\ t.stray = u.stray
  BY <1>1, EndedJobs
<1>3. SchedIs(p, t)
  OBVIOUS
<1> HIDE DEF t
<1>4. Differs(sched[p], t, a)
  BY <1>2 DEF Differs
<1>5. JobsElsewhere(p, a) /\ sched'[p] = t
  BY <1>3, <1>4, DiffersElsewhere DEF SemaphoreInv
<1> QED BY <1>2, <1>5 DEF At, NoJob

LEMMA BeginsAt ==
  ASSUME SemaphoreInv, NEW p \in Procs, NEW a \in Accounts,
         NEW u \in Sched, u.job = sched[p].job, Differs(sched[p], u, a),
         SchedIs(p, DoRefresh(u, a))
  PROVE  /\ JobsElsewhere(p, a)
         /\ At(p, a) # "none" => At(p, a)' = At(p, a) /\ Hits(p, a)' = Hits(p, a)
         /\ At(p, a) = "none" => At(p, a)' \in {"queued", "granted"}
<1> DEFINE t == DoRefresh(u, a)
<1>1. /\ \A b \in Accounts : b # a => t.job[b] = u.job[b]
      /\ InFlight(u, a) => t.job[a] = u.job[a]
      /\ ~InFlight(u, a) => t.job[a].at \in {"queued", "granted"}
      /\ t.timer = u.timer /\ t.stray = u.stray
  BY DoRefreshJobs
<1>2. SchedIs(p, t)
  OBVIOUS
<1> HIDE DEF t
<1>3. Differs(sched[p], t, a)
  BY <1>1 DEF Differs
<1>4. JobsElsewhere(p, a) /\ sched'[p] = t
  BY <1>2, <1>3, DiffersElsewhere DEF SemaphoreInv
<1> QED BY <1>1, <1>4 DEF At, Hits, InFlight

LEMMA GoesTo ==
  ASSUME SemaphoreInv, NEW p \in Procs, NEW a \in Accounts, NEW at, NEW n, NEW m,
         SchedIs(p, JobIs(sched[p], a, at, n, m))
  PROVE  JobsElsewhere(p, a) /\ At(p, a)' = at /\ Hits(p, a)' = m
<1> DEFINE t == JobIs(sched[p], a, at, n, m)
           now == [at |-> at, attempt |-> n, hits |-> m]
<1>1. t = [sched[p] EXCEPT !.job[a] = now] /\ sched[p] \in Sched /\ SchedIs(p, t)
  BY DEF JobIs, SemaphoreInv
<1>2. now.at = at /\ now.hits = m
  OBVIOUS
<1> HIDE DEF t, now
<1>3. /\ t.job[a] = now /\ \A b \in Accounts : b # a => t.job[b] = sched[p].job[b]
      /\ t.timer = sched[p].timer /\ t.stray = sched[p].stray
  BY <1>1 DEF Sched
<1>4. Differs(sched[p], t, a)
  BY <1>3 DEF Differs, Moved
<1>5. JobsElsewhere(p, a) /\ sched'[p] = t
  BY <1>1, <1>4, DiffersElsewhere DEF SemaphoreInv
<1> QED BY <1>2, <1>3, <1>5 DEF At, Hits

LEMMA SameSched ==
  ASSUME NEW p, NEW a, sched' = sched
  PROVE  JobsElsewhere(p, a) /\ At(p, a)' = At(p, a)
  BY DEF JobsElsewhere, At, Moved

\* The steps of a refresh that has no token request under way end it or send
\* the first one; the answers end it or let it sleep; then it sends another.
LEMMA GrantedMoves ==
  ASSUME IInv, NEW p \in Procs, NEW a \in Accounts,
         \/ SkipLocked(p, a) \/ LockThrows(p, a) \/ NothingToRefresh(p, a) \/ SyncFromDisk(p, a)
  PROVE  JobsElsewhere(p, a) /\ At(p, a) = "granted" /\ At(p, a)' = "none"
<1> DEFINE s == sched[p]
<1>1. SemaphoreInv /\ SchedOK(s) /\ s \in Sched /\ Differs(s, s, a)
  BY DEF IInv, SemaphoreInv, SchedOK, Differs, Moved
<1>2. At(p, a) = "granted" /\ At(p, a) \in Holding
  BY DEF SkipLocked, LockThrows, NothingToRefresh, SyncFromDisk, Granted, At, Holding
<1>3. CASE SchedIs(p, Ended(s, a))
  BY <1>1, <1>2, <1>3, EndsAt
<1>4. CASE SchedIs(p, Ended(ScheduleRecovery(s, a), a))
  <2> DEFINE u == ScheduleRecovery(s, a)
  <2>1. SchedOK(u) /\ u.job = s.job /\ Differs(s, u, a)
    BY <1>1, ScheduleRecoveryOK, TimersDiffer
  <2>2. SchedIs(p, Ended(u, a))
    BY <1>4
  <2> HIDE DEF u
  <2> QED BY <1>1, <1>2, <2>1, <2>2, EndsAt
<1>5. CASE SchedIs(p, Ended(ScheduleOne(s, a, mem[p][a].token), a))
  <2> DEFINE u == ScheduleOne(s, a, mem[p][a].token)
  <2>1. SchedOK(u) /\ u.job = s.job
    <3>1. InFlight(s, a)
      BY <1>2 DEF InFlight, At
    <3> QED BY <1>1, <3>1, ScheduleOneOK
  <2>2. Differs(s, u, a)
    <3>1. CASE mem[p][a].token = "fresh"
      BY <1>1, <3>1, TimersDiffer
    <3>2. CASE mem[p][a].token # "fresh"
      <4> DEFINE v == ClearOne(s, a)
      <4>1. u = DoRefresh(v, a)
        BY <3>2 DEF ScheduleOne
      <4>2. v \in Sched /\ v.job = s.job /\ Differs(s, v, a)
        BY <1>1, TimersDiffer
      <4> HIDE DEF v
      <4>3. u = v
        BY <1>2, <4>1, <4>2 DEF DoRefresh, InFlight, At
      <4> QED BY <4>2, <4>3
    <3> QED BY <3>1, <3>2
  <2>3. SchedIs(p, Ended(u, a))
    BY <1>5
  <2> HIDE DEF u
  <2> QED BY <1>1, <1>2, <2>1, <2>2, <2>3, EndsAt
<1> QED BY <1>3, <1>4, <1>5 DEF SkipLocked, LockThrows, NothingToRefresh, SyncFromDisk

LEMMA CallMoves ==
  ASSUME IInv, NEW p \in Procs, NEW a \in Accounts
  PROVE  /\ FirstAttempt(p, a) =>
               JobsElsewhere(p, a) /\ At(p, a) = "granted" /\ At(p, a)' = "call"
         /\ NextAttempt(p, a) =>
               JobsElsewhere(p, a) /\ At(p, a) = "sleep" /\ At(p, a)' = "call"
         /\ JobTokens(p, a) =>
               /\ JobsElsewhere(p, a) /\ At(p, a) = "call" /\ At(p, a)' = "none"
               /\ sched'[p].timer[a] = "refresh"
         /\ \A error \in {"permanent", "transient"} : JobError(p, a, error) =>
               /\ JobsElsewhere(p, a) /\ At(p, a) = "call"
               /\ At(p, a)' \in {"none", "sleep"}
<1> DEFINE s == sched[p]
<1>1. SemaphoreInv /\ SchedOK(s) /\ s \in Sched /\ Differs(s, s, a)
  BY DEF IInv, SemaphoreInv, SchedOK, Differs, Moved
<1>2. ASSUME FirstAttempt(p, a)
      PROVE  JobsElsewhere(p, a) /\ At(p, a) = "granted" /\ At(p, a)' = "call"
  BY <1>1, <1>2, GoesTo DEF FirstAttempt, Granted, At
<1>3. ASSUME NextAttempt(p, a)
      PROVE  JobsElsewhere(p, a) /\ At(p, a) = "sleep" /\ At(p, a)' = "call"
  <2>1. At(p, a) = "sleep" /\ \E n, m : SchedIs(p, JobIs(sched[p], a, "call", n, m))
    BY <1>3 DEF NextAttempt, At
  <2> QED BY <1>1, <2>1, GoesTo
<1>4. ASSUME JobTokens(p, a)
      PROVE  /\ JobsElsewhere(p, a) /\ At(p, a) = "call" /\ At(p, a)' = "none"
             /\ sched'[p].timer[a] = "refresh"
  <2> DEFINE u == ScheduleOne(s, a, "fresh")
  <2>1. At(p, a) = "call" /\ SchedIs(p, Ended(u, a)) /\ At(p, a) \in Holding
    BY <1>4 DEF JobTokens, At, Holding
  <2>2. SchedOK(u) /\ u.job = s.job /\ Differs(s, u, a) /\ u.timer[a] = "refresh"
    BY <1>1, ScheduleOneOK, TimersDiffer
  <2> HIDE DEF u
  <2> QED BY <1>1, <2>1, <2>2, EndsAt
<1>5. ASSUME NEW error \in {"permanent", "transient"}, JobError(p, a, error)
      PROVE  /\ JobsElsewhere(p, a) /\ At(p, a) = "call"
             /\ At(p, a)' \in {"none", "sleep"}
  <2>1. At(p, a) = "call" /\ At(p, a) \in Holding
    BY <1>5 DEF JobError, At, Holding
  <2>2. \/ SchedIs(p, Ended(s, a))
        \/ SchedIs(p, Ended(ScheduleRecovery(s, a), a))
        \/ \E n, m : SchedIs(p, JobIs(s, a, "sleep", n, m))
    BY <1>5 DEF JobError
  <2>3. CASE SchedIs(p, Ended(s, a))
    BY <1>1, <2>1, <2>3, EndsAt
  <2>4. CASE SchedIs(p, Ended(ScheduleRecovery(s, a), a))
    <3> DEFINE u == ScheduleRecovery(s, a)
    <3>1. SchedOK(u) /\ u.job = s.job /\ Differs(s, u, a)
      BY <1>1, ScheduleRecoveryOK, TimersDiffer
    <3>2. SchedIs(p, Ended(u, a))
      BY <2>4
    <3> HIDE DEF u
    <3> QED BY <1>1, <2>1, <3>1, <3>2, EndsAt
  <2>5. CASE \E n, m : SchedIs(p, JobIs(s, a, "sleep", n, m))
    BY <1>1, <2>1, <2>5, GoesTo
  <2> QED BY <2>2, <2>3, <2>4, <2>5
<1> QED BY <1>2, <1>3, <1>4, <1>5

\* An error ends a refresh for good, with the account expired, ends it with
\* a recovery timer, or lets it sleep.
LEMMA ErrorMoves ==
  ASSUME IInv, NEW p \in Procs, NEW a \in Accounts, NEW error, JobError(p, a, error)
  PROVE  \/ At(p, a)' = "sleep" /\ UNCHANGED <<mem, lock>>
         \/ /\ At(p, a)' = "none" /\ Unlocked(a)
            /\ MarkStatus(p, a, "expired") /\ error = "permanent"
         \/ /\ At(p, a)' = "none" /\ Unlocked(a)
            /\ MarkStatus(p, a, "active") /\ sched'[p].timer[a] = "recovery"
<1> DEFINE s == sched[p]
           u == ScheduleRecovery(s, a)
<1>1. SemaphoreInv /\ SchedOK(s) /\ s \in Sched /\ Differs(s, s, a) /\ At(p, a) \in Holding
  BY DEF IInv, SemaphoreInv, SchedOK, Differs, Moved, Holding, JobError, At
<1>2. SchedOK(u) /\ u.job = s.job /\ Differs(s, u, a) /\ u.timer[a] = "recovery"
  BY <1>1, ScheduleRecoveryOK, TimersDiffer
<1>3. \/ /\ UNCHANGED <<mem, lock>>
         /\ \E n, m : SchedIs(p, JobIs(s, a, "sleep", n, m))
      \/ /\ SchedIs(p, Ended(s, a)) /\ Unlocked(a)
         /\ MarkStatus(p, a, "expired") /\ error = "permanent"
      \/ SchedIs(p, Ended(u, a)) /\ Unlocked(a) /\ MarkStatus(p, a, "active")
  BY DEF JobError
<1> HIDE DEF u
<1> QED BY <1>1, <1>2, <1>3, EndsAt, GoesTo

LEMMA TimerMoves ==
  ASSUME IInv, NEW p \in Procs, NEW a \in Accounts
  PROVE  /\ TimerFires(p, a) \/ StrayFires(p, a) =>
               /\ JobsElsewhere(p, a)
               /\ At(p, a) # "none" => At(p, a)' = At(p, a) /\ Hits(p, a)' = Hits(p, a)
               /\ At(p, a) = "none" => At(p, a)' \in {"queued", "granted"}
         /\ ProbeTokens(p, a) \/ Login(p, a) =>
               /\ JobsElsewhere(p, a) /\ At(p, a)' = At(p, a) /\ Hits(p, a)' = Hits(p, a)
               /\ sched'[p].timer[a] = "refresh"
         /\ Delete(p, a) => 
               JobsElsewhere(p, a) /\ At(p, a)' = At(p, a) /\ Hits(p, a)' = Hits(p, a)
<1> DEFINE s == sched[p]
<1>1. SemaphoreInv /\ SchedOK(s) /\ s \in Sched /\ Differs(s, s, a)
  BY DEF IInv, SemaphoreInv, SchedOK, Differs, Moved
<1>2. ASSUME TimerFires(p, a) \/ StrayFires(p, a)
      PROVE  /\ JobsElsewhere(p, a)
             /\ At(p, a) # "none" => At(p, a)' = At(p, a) /\ Hits(p, a)' = Hits(p, a)
             /\ At(p, a) = "none" => At(p, a)' \in {"queued", "granted"}
  <2> DEFINE u == ClearOne(s, a)
             v == [u EXCEPT !.stray = IF s.timer[a] = "none" THEN @ \ {a} ELSE @]
  <2>1. SchedIs(p, DoRefresh(u, a)) \/ SchedIs(p, DoRefresh(v, a))
    BY <1>2 DEF TimerFires, StrayFires
  <2>2. u \in Sched /\ u.job = s.job /\ Differs(s, u, a)
    BY <1>1, TimersDiffer
  <2> HIDE DEF u
  <2>3. v \in Sched /\ v.job = s.job /\ Differs(s, v, a)
    BY <2>2 DEF Sched, Differs
  <2> HIDE DEF v
  <2> QED BY <1>1, <2>1, <2>2, <2>3, BeginsAt
<1>3. ASSUME ProbeTokens(p, a) \/ Login(p, a)
      PROVE  /\ JobsElsewhere(p, a) /\ At(p, a)' = At(p, a) /\ Hits(p, a)' = Hits(p, a)
             /\ sched'[p].timer[a] = "refresh"
  <2> DEFINE u == ScheduleOne(s, a, "fresh")
  <2>1. SchedIs(p, u)
    BY <1>3 DEF ProbeTokens, Login
  <2>2. u.job = s.job /\ Differs(s, u, a) /\ u.timer[a] = "refresh"
    BY <1>1, TimersDiffer
  <2> HIDE DEF u
  <2> QED BY <1>1, <2>1, <2>2, DiffersElsewhere DEF At, Hits, SemaphoreInv
<1>4. ASSUME Delete(p, a)
      PROVE  JobsElsewhere(p, a) /\ At(p, a)' = At(p, a) /\ Hits(p, a)' = Hits(p, a)
  <2> DEFINE u == ClearOne(s, a)
  <2>1. SchedIs(p, u)
    BY <1>4 DEF Delete
  <2>2. u.job = s.job /\ Differs(s, u, a)
    BY <1>1, TimersDiffer
  <2> HIDE DEF u
  <2> QED BY <1>1, <2>1, <2>2, DiffersElsewhere DEF At, Hits, SemaphoreInv
<1> QED BY <1>2, <1>3, <1>4

LEMMA AllElsewhere ==
  ASSUME IInv, NEW p \in Procs, NEW a \in Accounts, AccountStep(p, a)
  PROVE  JobsElsewhere(p, a)
<1>1. CASE UNCHANGED sched
  BY <1>1, SameSched
<1>2. CASE ~UNCHANGED sched
  <2>1. \/ SkipLocked(p, a) \/ LockThrows(p, a) \/ NothingToRefresh(p, a) \/ SyncFromDisk(p, a)
        \/ FirstAttempt(p, a) \/ NextAttempt(p, a) \/ JobTokens(p, a)
        \/ \E error \in {"permanent", "transient"} : JobError(p, a, error)
        \/ TimerFires(p, a) \/ StrayFires(p, a) \/ ProbeTokens(p, a) \/ Login(p, a)
        \/ Delete(p, a)
    BY <1>2 DEF AccountStep, JobStep, JobRefused, JobFails, ProbeStarts, ProbeRefused, ProbeFails,
              ServerAnswers, SetStatus, RequestMarks
  <2> QED BY <2>1, GrantedMoves, CallMoves, TimerMoves
<1> QED BY <1>1, <1>2

LEMMA NetFrame ==
  ASSUME IInv, NEW p \in Procs, NEW a \in Accounts, AccountStep(p, a)
  PROVE  NetElsewhere(p, a)
<1>1. ASSUME net' = net \/ \E v : net' = [net EXCEPT ![p][a] = v]
      PROVE  NetElsewhere(p, a)
  BY <1>1 DEF NetElsewhere, Other, IInv, TypeOK
<1>2. ASSUME NEW c, \/ Received(p, a, c) \/ ServerAnswers(p, a, c)
                    \/ \E rt : Send(p, a, c, rt)
      PROVE  NetElsewhere(p, a)
  BY <1>2 DEF NetElsewhere, Other, IInv, TypeOK, Received, Send, ServerAnswers
<1>3. \/ net' = net
      \/ \E c \in Callers : \/ Received(p, a, c) \/ ServerAnswers(p, a, c)
                            \/ \E rt : Send(p, a, c, rt)
  <2>1. CASE SkipLocked(p, a) \/ LockThrows(p, a) \/ NothingToRefresh(p, a) \/ SyncFromDisk(p, a)
    BY <2>1 DEF SkipLocked, LockThrows, NothingToRefresh, SyncFromDisk
  <2>2. CASE \/ FirstAttempt(p, a) \/ NextAttempt(p, a) \/ JobTokens(p, a)
             \/ JobRefused(p, a) \/ JobFails(p, a)
    BY <2>2 DEF FirstAttempt, NextAttempt, JobTokens, JobRefused, JobFails, JobError, Callers
  <2>3. CASE TimerFires(p, a) \/ StrayFires(p, a) \/ Login(p, a) \/ Delete(p, a)
    BY <2>3 DEF TimerFires, StrayFires, Login, Delete
  <2>4. CASE ProbeStarts(p, a) \/ ProbeTokens(p, a) \/ ProbeRefused(p, a) \/ ProbeFails(p, a)
    BY <2>4 DEF ProbeStarts, ProbeTokens, ProbeRefused, ProbeFails, Callers
  <2>5. CASE ServerAnswers(p, a, "job") \/ ServerAnswers(p, a, "probe")
    BY <2>5 DEF Callers
  <2>6. CASE \/ \E s \in {"active", "disabled"} : SetStatus(p, a, s)
             \/ \E s \in {"active", "rate_limited", "expired", "banned"} : RequestMarks(p, a, s)
    BY <2>6 DEF SetStatus, RequestMarks
  <2> QED BY <2>1, <2>2, <2>3, <2>4, <2>5, <2>6 DEF AccountStep, JobStep
<1> QED BY <1>1, <1>2, <1>3

LEMMA RestFrame ==
  ASSUME IInv, NEW p \in Procs, NEW a \in Accounts, AccountStep(p, a)
  PROVE  RestElsewhere(p, a)
<1> USE DEF RestElsewhere
<1>1. TypeOK
  BY DEF IInv
<1>2. ASSUME UNCHANGED <<run, server>>, lock' = lock \/ Locked(p, a) \/ Unlocked(a)
      PROVE  RestElsewhere(p, a)
  BY <1>1, <1>2 DEF TypeOK, server, Locked, Unlocked
<1>3. CASE \/ SkipLocked(p, a) \/ LockThrows(p, a) \/ NothingToRefresh(p, a) \/ SyncFromDisk(p, a)
           \/ FirstAttempt(p, a)
  BY <1>2, <1>3 DEF SkipLocked, LockThrows, NothingToRefresh, SyncFromDisk, FirstAttempt, Granted
<1>4. CASE NextAttempt(p, a) \/ JobTokens(p, a) \/ JobRefused(p, a) \/ JobFails(p, a)
  <2>1. CASE NextAttempt(p, a) \/ JobTokens(p, a)
    BY <1>2, <2>1 DEF NextAttempt, JobTokens
  <2>2. ASSUME NEW error, JobError(p, a, error)
        PROVE  RestElsewhere(p, a)
    <3>1. lock' = lock \/ Unlocked(a)
      BY <2>2 DEF JobError
    <3>2. UNCHANGED <<run, server>>
      BY <2>2 DEF JobError
    <3> QED BY <1>2, <3>1, <3>2
  <2> QED BY <1>4, <2>1, <2>2 DEF JobRefused, JobFails
<1>5. CASE TimerFires(p, a) \/ StrayFires(p, a) \/ Delete(p, a)
  BY <1>2, <1>5 DEF TimerFires, StrayFires, Delete
<1>6. CASE ProbeStarts(p, a) \/ ProbeTokens(p, a) \/ ProbeRefused(p, a) \/ ProbeFails(p, a)
  BY <1>2, <1>6 DEF ProbeStarts, ProbeTokens, ProbeRefused, ProbeFails
<1>7. CASE \/ \E s \in {"active", "disabled"} : SetStatus(p, a, s)
           \/ \E s \in {"active", "rate_limited", "expired", "banned"} : RequestMarks(p, a, s)
  BY <1>2, <1>7 DEF SetStatus, RequestMarks
<1>8. CASE Login(p, a)
  BY <1>1, <1>8 DEF Login, TypeOK
<1>9. ASSUME NEW c, ServerAnswers(p, a, c)
      PROVE  RestElsewhere(p, a)
  BY <1>1, <1>9 DEF ServerAnswers, TypeOK
<1> QED BY <1>3, <1>4, <1>5, <1>6, <1>7, <1>8, <1>9 DEF AccountStep, JobStep

-----------------------------------------------------------------------------
(* The entries of the pool and accounts.json *)

SameRts(p) == \A b \in Accounts : mem'[p][b].rt = mem[p][b].rt
Stored(p) == \A b \in Accounts : disk[b].rt = mem[p][b].rt
SaveFailed == "savefail" \in Events /\ disk' = disk
EntriesElsewhere(p, a) ==
    \A q \in Procs, b \in Accounts : Other(p, a, q, b) => mem'[q][b] = mem[q][b]

LEMMA EntryChanges ==
  ASSUME TypeOK, NEW p \in Procs, NEW a \in Accounts, NEW m,
         MemIs(p, [mem[p] EXCEPT ![a] = m])
  PROVE  EntriesElsewhere(p, a) /\ mem'[p][a] = m
  BY DEF TypeOK, MemIs, EntriesElsewhere, Other

LEMMA MarkStatusMoves ==
  ASSUME TypeOK, NEW p \in Procs, NEW a \in Accounts, NEW status, MarkStatus(p, a, status)
  PROVE  /\ EntriesElsewhere(p, a) /\ SameRts(p) /\ disk' = disk
         /\ a \in here[p] => mem'[p][a].status = status
         /\ a \notin here[p] => mem' = mem
<1>1. CASE a \notin here[p]
  BY <1>1 DEF MarkStatus, EntriesElsewhere, SameRts, NoPersist
<1>2. CASE a \in here[p]
  <2> DEFINE m == [mem[p][a] EXCEPT !.status = status]
  <2>1. mem[p] \in [Accounts -> Cred] /\ mem[p][a] \in Cred
    BY DEF TypeOK
  <2>2. MemIs(p, [mem[p] EXCEPT ![a] = m]) /\ disk' = disk
    BY <1>2, <2>1 DEF MarkStatus, SchedulePersist
  <2>3. m.rt = mem[p][a].rt /\ m.status = status
    BY <2>1 DEF Cred
  <2> HIDE DEF m
  <2>4. EntriesElsewhere(p, a) /\ mem'[p][a] = m
    BY <2>2, EntryChanges
  <2> QED BY <1>2, <2>2, <2>3, <2>4 DEF EntriesElsewhere, SameRts, Other
<1> QED BY <1>1, <1>2

LEMMA UpdateTokenMoves ==
  ASSUME TypeOK, NEW p \in Procs, NEW a \in Accounts, NEW tok, NEW rt,
         UpdateToken(p, a, tok, rt)
  PROVE  /\ EntriesElsewhere(p, a)
         /\ a \in here[p] => /\ mem'[p][a].rt = IF rt = 0 THEN mem[p][a].rt ELSE rt
                             /\ mem'[p][a].status \in {"active"} \cup Sticky
                             /\ Stored(p)' \/ SaveFailed
         /\ a \notin here[p] => mem' = mem /\ disk' = disk
<1>1. CASE a \notin here[p]
  BY <1>1 DEF UpdateToken, EntriesElsewhere, NoPersist
<1>2. CASE a \in here[p]
  <2> DEFINE m == Updated(mem[p][a], tok, rt)
             all == [mem[p] EXCEPT ![a] = m]
  <2>1. MemIs(p, all) /\ (disk' = all \/ SaveFailed)
    BY <1>2 DEF UpdateToken, PersistNow, SaveFailed
  <2>2. /\ m.rt = IF rt = 0 THEN mem[p][a].rt ELSE rt
        /\ m.status \in {"active"} \cup Sticky
    BY DEF Updated
  <2> HIDE DEF m
  <2>3. EntriesElsewhere(p, a) /\ mem'[p][a] = m
    BY <2>1, EntryChanges
  <2>4. mem'[p] = disk' \/ SaveFailed
    BY <2>1 DEF MemIs, TypeOK
  <2> QED BY <1>2, <2>2, <2>3, <2>4 DEF Stored
<1> QED BY <1>1, <1>2

\* A new refresh token is in accounts.json as soon as it is in the entry,
\* unless the save fails.
StoreMoves(p) == Stored(p)' \/ SaveFailed \/ (disk' = disk /\ SameRts(p))

LEMMA MemMoves ==
  ASSUME IInv, NEW p \in Procs, NEW a \in Accounts, AccountStep(p, a)
  PROVE  EntriesElsewhere(p, a) /\ StoreMoves(p)
<1> USE DEF StoreMoves
<1>1. TypeOK
  BY DEF IInv
<1>2. ASSUME mem' = mem, NoPersist
      PROVE  EntriesElsewhere(p, a) /\ StoreMoves(p)
  BY <1>2 DEF EntriesElsewhere, SameRts, NoPersist
<1>3. ASSUME NEW status, MarkStatus(p, a, status)
      PROVE  EntriesElsewhere(p, a) /\ StoreMoves(p)
  BY <1>1, <1>3, MarkStatusMoves
<1>4. ASSUME NEW tok, NEW rt, UpdateToken(p, a, tok, rt)
      PROVE  EntriesElsewhere(p, a) /\ StoreMoves(p)
  <2>1. CASE a \in here[p]
    BY <1>1, <1>4, <2>1, UpdateTokenMoves
  <2>2. CASE a \notin here[p]
    BY <1>4, <2>2, <1>2 DEF UpdateToken
  <2> QED BY <2>1, <2>2
<1>5. CASE SyncFromDisk(p, a)
  <2> DEFINE up == Updated(mem[p][a], mem[p][a].token, disk[a].rt)
             synced == [mem[p] EXCEPT ![a] = up]
             m == [up EXCEPT !.status = "active"]
  <2>1. mem[p] \in [Accounts -> Cred]
    BY <1>1 DEF TypeOK
  <2>2. /\ MemIs(p, [synced EXCEPT ![a].status = "active"])
        /\ disk' = synced \/ SaveFailed
    BY <1>5 DEF SyncFromDisk, SaveFailed
  <2>3. m.rt = up.rt
    BY DEF Updated
  <2>4. synced[a] = up /\ \A b \in Accounts : b # a => synced[b] = mem[p][b]
    BY <2>1
  <2>5. [synced EXCEPT ![a].status = "active"] = [mem[p] EXCEPT ![a] = m]
    BY <2>1
  <2> HIDE DEF m, up, synced
  <2>6. EntriesElsewhere(p, a) /\ mem'[p][a] = m
    BY <1>1, <2>2, <2>5, EntryChanges
  <2>7. Stored(p)' \/ SaveFailed
    BY <2>2, <2>3, <2>4, <2>6 DEF Stored, EntriesElsewhere, Other
  <2> QED BY <2>6, <2>7
<1>6. CASE TimerFires(p, a)
  <2> DEFINE m == [mem[p][a] EXCEPT !.token = "due"]
  <2>1. mem[p] \in [Accounts -> Cred] /\ mem[p][a] \in Cred
    BY <1>1 DEF TypeOK
  <2>2. NoPersist /\ MemIs(p, IF sched[p].timer[a] = "refresh"
                              THEN [mem[p] EXCEPT ![a].token = "due"] ELSE mem[p])
    BY <1>6 DEF TimerFires
  <2>3. CASE sched[p].timer[a] # "refresh"
    <3>1. mem' = mem
      BY <1>1, <2>2, <2>3 DEF MemIs, TypeOK
    <3> QED BY <1>2, <2>2, <3>1
  <2>4. CASE sched[p].timer[a] = "refresh"
    <3>1. MemIs(p, [mem[p] EXCEPT ![a] = m])
      BY <2>1, <2>2, <2>4
    <3>2. m.rt = mem[p][a].rt
      BY <2>1 DEF Cred
    <3> HIDE DEF m
    <3>3. EntriesElsewhere(p, a) /\ mem'[p][a] = m
      BY <1>1, <3>1, EntryChanges
    <3> QED BY <2>2, <3>2, <3>3 DEF EntriesElsewhere, SameRts, Other, NoPersist
  <2> QED BY <2>3, <2>4
<1>7. CASE Login(p, a)
  <2> DEFINE m == [status |-> "active", rt |-> issued[a] + 1, token |-> "fresh"]
             all == [mem[p] EXCEPT ![a] = m]
  <2>1. MemIs(p, all) /\ (disk' = all \/ SaveFailed)
    BY <1>7 DEF Login, PersistNow, SaveFailed
  <2> HIDE DEF m
  <2>2. EntriesElsewhere(p, a)
    BY <1>1, <2>1, EntryChanges
  <2>3. mem'[p] = disk' \/ SaveFailed
    BY <1>1, <2>1 DEF MemIs, TypeOK
  <2> QED BY <2>2, <2>3 DEF Stored
<1>8. CASE SkipLocked(p, a) \/ StrayFires(p, a) \/ NextAttempt(p, a)
  BY <1>2, <1>8 DEF SkipLocked, StrayFires, NextAttempt
<1>9. CASE LockThrows(p, a) \/ NothingToRefresh(p, a) \/ FirstAttempt(p, a)
  BY <1>2, <1>3, <1>9 DEF LockThrows, NothingToRefresh, FirstAttempt
<1>10. CASE JobTokens(p, a)
  BY <1>4, <1>10 DEF JobTokens
<1>11. ASSUME NEW error, JobError(p, a, error)
       PROVE  EntriesElsewhere(p, a) /\ StoreMoves(p)
  <2>1. (mem' = mem /\ NoPersist) \/ \E status : MarkStatus(p, a, status)
    BY <1>11 DEF JobError
  <2> QED BY <1>2, <1>3, <2>1
<1>12. CASE ServerAnswers(p, a, "job") \/ ServerAnswers(p, a, "probe")
  BY <1>2, <1>12 DEF ServerAnswers
<1>13. CASE ProbeStarts(p, a) \/ ProbeFails(p, a)
  BY <1>2, <1>13 DEF ProbeStarts, ProbeFails
<1>14. CASE ProbeTokens(p, a) \/ ProbeRefused(p, a)
  BY <1>3, <1>4, <1>14 DEF ProbeTokens, ProbeRefused
<1>15. CASE Delete(p, a)
  BY <1>15 DEF Delete, SchedulePersist, EntriesElsewhere, SameRts
<1>16. CASE \/ \E s \in {"active", "disabled"} : SetStatus(p, a, s)
            \/ \E s \in {"active", "rate_limited", "expired", "banned"} : RequestMarks(p, a, s)
  BY <1>3, <1>16 DEF SetStatus, RequestMarks
<1> QED BY <1>5, <1>6, <1>7, <1>8, <1>9, <1>10, <1>11, <1>12, <1>13, <1>14, <1>15, <1>16
        DEF AccountStep, JobStep, JobRefused, JobFails

-----------------------------------------------------------------------------
(* One token request per account *)

Calling(p, a) == At(p, a) \in {"call", "sleep"}
OwnLock(p, a) == lock[a].by = p /\ ~lock[a].stale

\* Who sends a request for an account, or sleeps between two of them, holds
\* its lock; a process that is stopping has forgotten the refresh, but not
\* the request.
OneAt(p, a) ==
    /\ Calling(p, a) => OwnLock(p, a)
    /\ net[p][a]["job"].sent # 0 =>
          OwnLock(p, a) /\ (run[p] = "stopping" \/ (run[p] = "up" /\ At(p, a) = "call"))
    /\ net[p][a]["probe"].sent = 0

OneInv == \A p \in Procs, a \in Accounts : OneAt(p, a)

NoOtherSender == Events \cap {"probe", "stale"} = {}

\* A lock is only taken when it is free, and given back by who holds it.
LEMMA LockMoves ==
  ASSUME IInv, OneInv, NEW p \in Procs, NEW a \in Accounts, AccountStep(p, a),
         NEW q \in Procs, q # p, OwnLock(q, a)
  PROVE  lock'[a] = lock[a]
<1>1. LockBusy(a) /\ ~Calling(p, a)
  BY RefreshAssumption DEF LockBusy, OwnLock, OneInv, OneAt
<1>2. CASE SkipLocked(p, a) \/ LockThrows(p, a)
  BY <1>2 DEF SkipLocked, LockThrows
<1>3. CASE NothingToRefresh(p, a) \/ SyncFromDisk(p, a) \/ FirstAttempt(p, a)
  BY <1>1, <1>3 DEF NothingToRefresh, SyncFromDisk, FirstAttempt
<1>4. CASE JobTokens(p, a) \/ JobRefused(p, a) \/ JobFails(p, a)
  BY <1>1, <1>4 DEF JobTokens, JobRefused, JobFails, JobError, Calling, At
<1>5. CASE NextAttempt(p, a) \/ TimerFires(p, a) \/ StrayFires(p, a) \/ Login(p, a) \/ Delete(p, a)
  BY <1>5 DEF NextAttempt, TimerFires, StrayFires, Login, Delete
<1>6. CASE ProbeStarts(p, a) \/ ProbeTokens(p, a) \/ ProbeRefused(p, a) \/ ProbeFails(p, a)
  BY <1>6 DEF ProbeStarts, ProbeTokens, ProbeRefused, ProbeFails
<1>7. CASE ServerAnswers(p, a, "job") \/ ServerAnswers(p, a, "probe")
  BY <1>7 DEF ServerAnswers
<1>8. CASE \/ \E s \in {"active", "disabled"} : SetStatus(p, a, s)
           \/ \E s \in {"active", "rate_limited", "expired", "banned"} : RequestMarks(p, a, s)
  BY <1>8 DEF SetStatus, RequestMarks
<1> QED BY <1>2, <1>3, <1>4, <1>5, <1>6, <1>7, <1>8 DEF AccountStep, JobStep

\* What the step of (p, a) does to the request and the lock of (p, a) itself.
LEMMA OneStepHere ==
  ASSUME IInv, OneInv, NoOtherSender, NEW p \in Procs, NEW a \in Accounts, AccountStep(p, a)
  PROVE  OneAt(p, a)'
<1>1. OneAt(p, a) /\ run' = run
  BY RestFrame DEF OneInv, RestElsewhere
<1>2. net \in [Procs -> [Accounts -> [Callers -> Call]]] /\ lock \in [Accounts -> [by : Procs \cup {Nobody}, stale : BOOLEAN]]
  BY DEF IInv, TypeOK
<1>3. CASE SkipLocked(p, a) \/ LockThrows(p, a)
  <2>1. net' = net /\ lock' = lock /\ At(p, a) = "granted" /\ At(p, a)' = "none"
    BY <1>3, GrantedMoves DEF SkipLocked, LockThrows
  <2> QED BY <1>1, <2>1 DEF OneAt, Calling, OwnLock
<1>4. CASE NothingToRefresh(p, a) \/ SyncFromDisk(p, a)
  <2>1. net' = net /\ ~LockBusy(a) /\ At(p, a)' = "none"
    BY <1>4, GrantedMoves DEF NothingToRefresh, SyncFromDisk
  <2>2. ~OwnLock(p, a)
    BY <2>1, RefreshAssumption DEF LockBusy, OwnLock
  <2> QED BY <1>1, <2>1, <2>2 DEF OneAt, Calling
<1>5. CASE FirstAttempt(p, a)
  <2>1. Locked(p, a) /\ Send(p, a, "job", mem[p][a].rt) /\ At(p, a)' = "call" /\ run[p] # "down"
    BY <1>5, CallMoves DEF FirstAttempt, Granted
  <2>2. OwnLock(p, a)'
    BY <1>2, <2>1 DEF Locked, OwnLock
  <2>3. net'[p][a]["probe"] = net[p][a]["probe"]
    BY <1>2, <2>1 DEF Send, Callers
  <2>4. run[p] \in {"up", "stopping"}
    BY <2>1 DEF IInv, TypeOK
  <2> QED BY <1>1, <2>1, <2>2, <2>3, <2>4 DEF OneAt
<1>6. CASE NextAttempt(p, a)
  <2>1. Send(p, a, "job", mem[p][a].rt) /\ At(p, a) = "sleep" /\ At(p, a)' = "call"
        /\ lock' = lock /\ run[p] = "up"
    BY <1>6, CallMoves DEF NextAttempt
  <2>2. net'[p][a]["probe"] = net[p][a]["probe"]
    BY <1>2, <2>1 DEF Send, Callers
  <2> QED BY <1>1, <2>1, <2>2 DEF OneAt, Calling, OwnLock
<1>7. CASE JobTokens(p, a) \/ JobRefused(p, a) \/ JobFails(p, a)
  <2>1. Received(p, a, "job") /\ At(p, a) = "call"
    BY <1>7, CallMoves DEF JobTokens, JobRefused, JobFails, JobError, At
  <2>2. net'[p][a]["job"].sent = 0 /\ net'[p][a]["probe"] = net[p][a]["probe"]
    BY <1>2, <2>1 DEF Received, Callers, NoCall
  <2>3. At(p, a)' = "none" \/ (At(p, a)' = "sleep" /\ lock' = lock)
    BY <1>7, CallMoves, ErrorMoves DEF JobRefused, JobFails
  <2> QED BY <1>1, <2>1, <2>2, <2>3 DEF OneAt, Calling, OwnLock
<1>8. CASE ServerAnswers(p, a, "job")
  <2>1. lock' = lock /\ At(p, a)' = At(p, a)
    BY <1>8 DEF ServerAnswers, At
  <2>2. net'[p][a]["job"].sent = net[p][a]["job"].sent /\ net'[p][a]["probe"] = net[p][a]["probe"]
    BY <1>2, <1>8 DEF ServerAnswers, Callers, Call
  <2> QED BY <1>1, <2>1, <2>2 DEF OneAt, Calling, OwnLock
<1>9. CASE ServerAnswers(p, a, "probe") \/ ProbeStarts(p, a)
  BY <1>1, <1>9 DEF ServerAnswers, OneAt, ProbeStarts, NoOtherSender
<1>10. CASE ProbeTokens(p, a) \/ ProbeRefused(p, a) \/ ProbeFails(p, a)
  <2>1. Received(p, a, "probe") /\ lock' = lock /\ At(p, a)' = At(p, a)
    BY <1>10, TimerMoves DEF ProbeTokens, ProbeRefused, ProbeFails, At
  <2>2. net'[p][a]["probe"].sent = 0 /\ net'[p][a]["job"] = net[p][a]["job"]
    BY <1>2, <2>1 DEF Received, Callers, NoCall
  <2> QED BY <1>1, <2>1, <2>2 DEF OneAt, Calling, OwnLock
<1>11. CASE TimerFires(p, a) \/ StrayFires(p, a) \/ Login(p, a) \/ Delete(p, a)
  <2>1. /\ net' = net /\ lock' = lock
        /\ At(p, a)' = At(p, a) \/ (At(p, a) = "none" /\ At(p, a)' \in {"queued", "granted"})
    BY <1>11, TimerMoves DEF TimerFires, StrayFires, Login, Delete
  <2> QED BY <1>1, <2>1 DEF OneAt, Calling, OwnLock
<1>12. CASE \/ \E s \in {"active", "disabled"} : SetStatus(p, a, s)
            \/ \E s \in {"active", "rate_limited", "expired", "banned"} : RequestMarks(p, a, s)
  <2>1. net' = net /\ lock' = lock /\ At(p, a)' = At(p, a)
    BY <1>12 DEF SetStatus, RequestMarks, At
  <2> QED BY <1>1, <2>1 DEF OneAt, Calling, OwnLock
<1> QED BY <1>3, <1>4, <1>5, <1>6, <1>7, <1>8, <1>9, <1>10, <1>11, <1>12 DEF AccountStep, JobStep

LEMMA OneAccountStep ==
  ASSUME IInv, OneInv, NoOtherSender, NEW p \in Procs, NEW a \in Accounts, AccountStep(p, a)
  PROVE  OneInv'
<1> SUFFICES ASSUME NEW q \in Procs, NEW b \in Accounts
             PROVE  OneAt(q, b)'
  BY DEF OneInv
<1>1. CASE q = p /\ b = a
  BY <1>1, OneStepHere
<1>2. CASE Other(p, a, q, b)
  <2>1. /\ OneAt(q, b) /\ run' = run /\ net'[q][b] = net[q][b]
        /\ Moved(sched[q].job[b], sched'[q].job[b])
    BY <1>2, RestFrame, NetFrame, AllElsewhere
       DEF OneInv, RestElsewhere, NetElsewhere, JobsElsewhere
  <2>2. OwnLock(q, b) => OwnLock(q, b)'
    <3>1. CASE b # a
      BY <3>1, RestFrame DEF RestElsewhere, OwnLock
    <3>2. CASE b = a
      BY <1>2, <3>2, LockMoves DEF Other, OwnLock
    <3> QED BY <3>1, <3>2
  <2> QED BY <2>1, <2>2 DEF OneAt, Calling, Moved, At
<1> QED BY <1>1, <1>2 DEF Other


\* A process that begins has no request and no attempt of its own; one that
\* ends forgets them; one that stops keeps its requests and its locks.
LEMMA StartMoves ==
  ASSUME IInv, NEW p \in Procs, NEW a \in Accounts, Start(p)
  PROVE  /\ At(p, a)' \in {"none", "queued", "granted"}
         /\ mem'[p][a].rt = disk[a].rt /\ mem'[p][a].status = disk[a].status
         /\ a \in saved /\ disk[a].rt # 0 /\ disk[a].status \notin Sticky
               => sched'[p].timer[a] # "none" \/ At(p, a)' # "none"
<1>t. TypeOK
  BY DEF IInv
<1>1. PICK late \in SUBSET saved :
        LET loaded == [b \in Accounts |->
                          IF b \in late THEN [disk[b] EXCEPT !.token = "due"] ELSE disk[b]]
            eligible == {b \in saved : loaded[b].rt # 0 /\ loaded[b].status \notin Sticky}
            atOnce == {b \in eligible :
                          \/ loaded[b].status = "refreshing"
                          \/ loaded[b].status # "expired" /\ loaded[b].token = "due"}
        IN  /\ MemIs(p, loaded)
            /\ \E order \in [1 .. Cardinality(atOnce) -> atOnce] :
              /\ \A b \in atOnce : \E i \in DOMAIN order : order[i] = b
              /\ LET first == {i \in DOMAIN order : i <= Concurrency}
                 IN  SchedIs(p,
                      [timer |-> [b \in Accounts |->
                          CASE b \notin eligible \/ b \in atOnce -> "none"
                            [] loaded[b].status = "expired" -> "recovery"
                            [] OTHER -> "refresh"],
                       stray |-> {},
                       job |-> [b \in Accounts |->
                          CASE b \notin atOnce -> NoJob
                            [] \E i \in first : order[i] = b -> [NoJob EXCEPT !.at = "granted"]
                            [] OTHER -> [NoJob EXCEPT !.at = "queued"]],
                       queue |-> SubSeq(order, Concurrency + 1, Len(order)),
                       running |-> Cardinality(first)])
  BY DEF Start
<1> DEFINE loaded == [b \in Accounts |->
                         IF b \in late THEN [disk[b] EXCEPT !.token = "due"] ELSE disk[b]]
           eligible == {b \in saved : loaded[b].rt # 0 /\ loaded[b].status \notin Sticky}
           atOnce == {b \in eligible :
                         \/ loaded[b].status = "refreshing"
                         \/ loaded[b].status # "expired" /\ loaded[b].token = "due"}
           timers == [b \in Accounts |->
                         CASE b \notin eligible \/ b \in atOnce -> "none"
                           [] loaded[b].status = "expired" -> "recovery"
                           [] OTHER -> "refresh"]
<1>2. /\ loaded[a].rt = disk[a].rt /\ loaded[a].status = disk[a].status
      /\ MemIs(p, loaded)
  <2>1. MemIs(p, loaded)
    BY ZenonT(60), <1>1
  <2>2. disk[a] \in Cred
    BY <1>t DEF TypeOK
  <2>3. loaded[a] = disk[a] \/ loaded[a] = [disk[a] EXCEPT !.token = "due"]
    OBVIOUS
  <2> HIDE DEF loaded
  <2> QED BY <2>1, <2>2, <2>3 DEF Cred
<1>3. timers[a] = "none" => a \notin eligible \/ a \in atOnce
  OBVIOUS
<1>4. a \in eligible <=> a \in saved /\ disk[a].rt # 0 /\ disk[a].status \notin Sticky
  BY <1>2
<1>5. PICK order :
        SchedIs(p,
          [timer |-> timers,
           stray |-> {},
           job |-> [b \in Accounts |->
              CASE b \notin atOnce -> NoJob
                [] \E i \in {i \in DOMAIN order : i <= Concurrency} : order[i] = b
                      -> [NoJob EXCEPT !.at = "granted"]
                [] OTHER -> [NoJob EXCEPT !.at = "queued"]],
           queue |-> SubSeq(order, Concurrency + 1, Len(order)),
           running |-> Cardinality({i \in DOMAIN order : i <= Concurrency})])
  BY ZenonT(60), <1>1
<1>6. mem'[p][a].rt = disk[a].rt /\ mem'[p][a].status = disk[a].status
  BY <1>2, <1>t DEF MemIs, TypeOK
<1> HIDE DEF timers, atOnce, eligible, loaded
<1> DEFINE first == {i \in DOMAIN order : i <= Concurrency}
           jobs == [b \in Accounts |->
                       CASE b \notin atOnce -> NoJob
                         [] \E i \in first : order[i] = b -> [NoJob EXCEPT !.at = "granted"]
                         [] OTHER -> [NoJob EXCEPT !.at = "queued"]]
<1>7. sched'[p].timer = timers /\ sched'[p].job = jobs
  BY <1>5, <1>t DEF SchedIs, TypeOK
<1> HIDE DEF first
<1>8. /\ jobs[a].at \in {"none", "queued", "granted"}
      /\ a \in atOnce => jobs[a].at # "none"
  BY DEF NoJob
<1> HIDE DEF jobs
<1> QED BY <1>3, <1>4, <1>6, <1>7, <1>8 DEF At

LEMMA StopMoves ==
  ASSUME IInv, NEW p \in Procs, NEW a \in Accounts, Stop(p)
  PROVE  /\ UNCHANGED <<here, mem, net, lock>> /\ run'[p] = "stopping"
         /\ At(p, a)' \in {"none", "granted"}
<1>1. TypeOK
  BY DEF IInv
<1> DEFINE jobs == [b \in Accounts |-> IF sched[p].job[b].at = "queued"
                                       THEN [NoJob EXCEPT !.at = "granted"] ELSE NoJob]
<1>2. SchedIs(p, [IdleSched EXCEPT !.job = jobs, !.running = Len(sched[p].queue)])
  BY DEF Stop
<1>3. jobs[a].at \in {"none", "granted"}
  BY DEF NoJob
<1> HIDE DEF jobs
<1>4. sched'[p].job = jobs
  BY <1>1, <1>2 DEF SchedIs, TypeOK, IdleSched
<1>5. UNCHANGED <<here, mem, net, lock>> /\ run'[p] = "stopping"
  BY <1>1 DEF Stop, TypeOK
<1> QED BY <1>3, <1>4, <1>5 DEF At

LEMMA OneLifeStep ==
  ASSUME IInv, OneInv, NEW p \in Procs, LifeStep(p)
  PROVE  OneInv'
<1> SUFFICES ASSUME NEW q \in Procs, NEW b \in Accounts
             PROVE  OneAt(q, b)'
  BY DEF OneInv
<1>1. OneAt(q, b) /\ TypeOK
  BY DEF OneInv, IInv
<1>2. CASE q # p
  <2>1. sched'[q] = sched[q] /\ net'[q] = net[q] /\ run'[q] = run[q]
    BY <1>1, <1>2 DEF LifeStep, Start, Crash, Stop, Exit, Flush, Gone, SchedIs, TypeOK
  <2>2. OwnLock(q, b) => OwnLock(q, b)'
    <3>1. lock' = lock \/ lock' = [x \in Accounts |-> IF lock[x].stale THEN Free ELSE lock[x]]
      BY DEF LifeStep, Start, Crash, Stop, Exit, Flush, Gone
    <3> QED BY <3>1 DEF OwnLock
  <2> QED BY <1>1, <2>1, <2>2 DEF OneAt, Calling, At
<1>3. CASE q = p /\ Start(p)
  <2>1. run[p] = "down" /\ net' = net
    BY <1>3 DEF Start
  <2> QED BY <1>1, <1>3, <2>1, StartMoves DEF OneAt, Calling
<1>4. CASE q = p /\ (Crash(p) \/ Exit(p))
  <2>1. sched'[p] = IdleSched /\ net'[p] = [a \in Accounts |-> [c \in Callers |-> NoCall]]
    BY <1>1, <1>4 DEF Crash, Exit, Gone, SchedIs, TypeOK
  <2> QED BY <1>4, <2>1 DEF OneAt, Calling, At, IdleSched, NoJob, NoCall, Callers
<1>5. CASE q = p /\ Stop(p)
  <2>1. net' = net /\ lock' = lock /\ run'[q] = "stopping" /\ At(q, b)' \in {"none", "granted"}
    BY <1>5, StopMoves
  <2>2. ~Calling(q, b)' /\ (OwnLock(q, b) => OwnLock(q, b)')
    BY <2>1 DEF Calling, OwnLock
  <2>3. /\ net[q][b]["job"].sent # 0 => OwnLock(q, b)
        /\ net[q][b]["probe"].sent = 0
    BY <1>1 DEF OneAt
  <2> QED BY <2>1, <2>2, <2>3 DEF OneAt
<1>6. CASE q = p /\ Flush(p)
  BY <1>1, <1>6 DEF Flush, OneAt, Calling, OwnLock, At
<1> QED BY <1>2, <1>3, <1>4, <1>5, <1>6 DEF LifeStep

\* Only a lock that was left behind ages.
LEMMA OneLockAges ==
  ASSUME IInv, OneInv, NoOtherSender, NEW a \in Accounts, LockAges(a)
  PROVE  OneInv'
<1>1. TypeOK
  BY DEF IInv
<1>2. UNCHANGED <<run, sched, net>>
  BY DEF LockAges
<1>3. ASSUME NEW q \in Procs, NEW b \in Accounts,
             Calling(q, b) \/ net[q][b]["job"].sent # 0
      PROVE  OwnLock(q, b)'
  <2>1. OwnLock(q, b) /\ (run[q] = "stopping" \/ Calling(q, b))
    BY <1>3 DEF OneInv, OneAt, Calling
  <2>2. b # a
    BY <2>1 DEF LockAges, NoOtherSender, OwnLock, Calling, At
  <2> QED BY <1>1, <2>1, <2>2 DEF LockAges, OwnLock, TypeOK
<1> QED BY <1>2, <1>3 DEF OneInv, OneAt, Calling, At

LEMMA OneStep == IInv /\ OneInv /\ NoOtherSender /\ [Next]_vars => OneInv'
<1> SUFFICES ASSUME IInv, OneInv, NoOtherSender, [Next]_vars
             PROVE  OneInv'
  OBVIOUS
<1>1. CASE UNCHANGED vars
  BY <1>1 DEF vars, OneInv, OneAt, Calling, OwnLock, At
<1>2. CASE \E p \in Procs : LifeStep(p)
  BY <1>2, OneLifeStep
<1>3. CASE \E p \in Procs, a \in Accounts : AccountStep(p, a)
  BY <1>3, OneAccountStep
<1>4. CASE \E a \in Accounts : Revoke(a) \/ LockAges(a)
  <2>1. ASSUME NEW a \in Accounts, Revoke(a)
        PROVE  OneInv'
    BY <2>1 DEF Revoke, OneInv, OneAt, Calling, OwnLock, At
  <2> QED BY <1>4, <2>1, OneLockAges
<1> QED BY <1>1, <1>2, <1>3, <1>4, NextCases

LEMMA OneInit == Init => OneInv
  BY DEF Init, OneInv, OneAt, Calling, At, IdleSched, NoJob, NoCall, Callers

LEMMA OneRequest == IInv /\ OneInv => OneRequestPerAccount
<1> SUFFICES ASSUME IInv, OneInv, NEW a \in Accounts
             PROVE  Cardinality({x \in Procs \X Callers : net[x[1]][a][x[2]].sent # 0}) <= 1
  BY DEF OneRequestPerAccount
<1> DEFINE R == {x \in Procs \X Callers : net[x[1]][a][x[2]].sent # 0}
<1>1. \A x \in R : x = <<lock[a].by, "job">>
  <2> SUFFICES ASSUME NEW p \in Procs, NEW c \in Callers, net[p][a][c].sent # 0
               PROVE  p = lock[a].by /\ c = "job"
    OBVIOUS
  <2> QED BY DEF OneInv, OneAt, OwnLock, Callers
<1>2. R = {} \/ R = {<<lock[a].by, "job">>}
  BY <1>1
<1> HIDE DEF R
<1>3. Cardinality(R) = 0 \/ Cardinality(R) = 1
  BY <1>2, FS_EmptySet, FS_Singleton
<1>4. Cardinality(R) <= 1
  BY <1>3
<1> QED BY <1>4 DEF R

\* At most one token request per account is under way, in whatever process
\* (tryAcquireRefreshLock): the owner of the lock is the only one to send,
\* and a lock is neither taken nor broken while its owner waits.  Not so if
\* a probe, which takes no lock, may send one too, or if attempts and
\* back-offs last longer than STALE_MS.
THEOREM OneAtATime ==
  ASSUME Events \cap {"probe", "stale"} = {}
  PROVE  Spec => []OneRequestPerAccount
<1>1. NoOtherSender
  BY DEF NoOtherSender
<1>2. IInv /\ OneInv /\ [Next]_vars => OneInv'
  BY <1>1, OneStep
<1>3. Spec => []OneInv
  BY <1>2, OneInit, InvAlways, PTL DEF Spec
<1> QED BY <1>3, InvAlways, OneRequest, PTL

-----------------------------------------------------------------------------
(* The history variables only look on *)

\* Each recorded action is an action of the scheduler and its record.
LEMMA HistoryStep == HNext => Next /\ Recorded
<1> SUFFICES ASSUME HNext
             PROVE  Next /\ Recorded
  OBVIOUS
<1>1. CASE \E p \in Procs : (Start(p) \/ Crash(p) \/ Stop(p) \/ Exit(p) \/ Flush(p)) /\ Recorded
  BY <1>1 DEF Next
<1>2. CASE \E p \in Procs, a \in Accounts : JobStep(p, a) /\ Recorded
  BY <1>2 DEF Next
<1>3. CASE \E p \in Procs, a \in Accounts :
             (\/ TimerFires(p, a) \/ StrayFires(p, a)
              \/ ProbeStarts(p, a) \/ ProbeTokens(p, a) \/ ProbeRefused(p, a) \/ ProbeFails(p, a)
              \/ ServerAnswers(p, a, "probe")
              \/ Login(p, a) \/ Delete(p, a)) /\ Recorded
  BY <1>3 DEF Next
<1>4. CASE \E p \in Procs, a \in Accounts :
             (\/ \E s \in {"active", "disabled"} : SetStatus(p, a, s)
              \/ \E s \in {"active", "rate_limited", "expired", "banned"} :
                    RequestMarks(p, a, s)) /\ Recorded
  BY <1>4 DEF Next
<1>5. CASE \E a \in Accounts : (Revoke(a) \/ LockAges(a)) /\ Recorded
  BY <1>5 DEF Next
<1> QED BY <1>1, <1>2, <1>3, <1>4, <1>5 DEF HNext, JobStep, Callers

\* A step with its history is a step of the scheduler (refresh-scheduler.ts).
LEMMA HistoryNext == [HNext]_hvars => [Next]_vars
  BY HistoryStep DEF hvars

LEMMA HistorySpec == HSpec => Spec
<1>1. HInit => Init
  BY DEF HInit
<1> QED BY <1>1, HistoryNext, PTL DEF HSpec, Spec

-----------------------------------------------------------------------------
(* The refresh tokens of one process are those of accounts.json *)

OneProcess == \A p, q \in Procs : p = q
OneUser == OneProcess /\ "savefail" \notin Events
AllStored == \A p \in Procs : Stored(p)

LEMMA StoredStep == IInv /\ AllStored /\ OneUser /\ [Next]_vars => AllStored'
<1> SUFFICES ASSUME IInv, AllStored, OneUser, [Next]_vars, NEW p \in Procs
             PROVE  Stored(p)'
  BY DEF AllStored
<1>1. TypeOK /\ Stored(p)
  BY DEF IInv, AllStored
<1>2. ASSUME disk' = disk, mem' = mem
      PROVE  Stored(p)'
  BY <1>1, <1>2 DEF Stored
<1>3. CASE \E q \in Procs, a \in Accounts : AccountStep(q, a)
  <2>1. StoreMoves(p)
    BY <1>3, MemMoves DEF OneUser, OneProcess
  <2> QED BY <1>1, <2>1 DEF StoreMoves, SaveFailed, Stored, SameRts, OneUser
<1>4. ASSUME LifeStep(p)
      PROVE  Stored(p)'
  <2>1. CASE Start(p)
    <3>1. disk' = disk
      BY <2>1 DEF Start
    <3> QED BY <2>1, <3>1, StartMoves DEF Stored
  <2>2. CASE Crash(p) \/ Exit(p)
    <3>1. mem'[p] = disk'
      BY <1>1, <2>2 DEF Crash, Exit, Gone, MemIs, TypeOK
    <3> QED BY <3>1 DEF Stored
  <2>3. CASE Stop(p) \/ Flush(p)
    <3>1. disk' = mem[p] /\ mem' = mem
      BY <2>3 DEF Stop, Flush, PersistNow, OneUser
    <3> QED BY <3>1 DEF Stored
  <2> QED BY <1>4, <2>1, <2>2, <2>3 DEF LifeStep
<1>5. CASE \E a \in Accounts : Revoke(a) \/ LockAges(a)
  BY <1>2, <1>5 DEF Revoke, LockAges, NoPersist
<1>6. CASE UNCHANGED vars
  BY <1>2, <1>6 DEF vars
<1> QED BY <1>3, <1>4, <1>5, <1>6, NextCases DEF OneUser, OneProcess

LEMMA StoredInit == Init => AllStored
  BY DEF Init, AllStored, Stored

LEMMA StoredAlways == ASSUME OneUser PROVE Spec => []AllStored
<1>1. IInv /\ AllStored /\ [Next]_vars => AllStored'
  BY StoredStep
<1> QED BY <1>1, StoredInit, InvAlways, PTL DEF Spec

-----------------------------------------------------------------------------
(* No account is forgotten *)

Undisturbed == OneUser /\ Events \cap {"enable", "request", "dirfail"} = {}

Usable == {"active", "rate_limited", "refreshing"}
Renewed(p, a) == sched[p].timer[a] # "none" \/ a \in sched[p].stray \/ At(p, a) # "none"

KeptAt(p, a) ==
    run[p] = "up" /\ a \in here[p] /\ mem[p][a].rt # 0 /\ mem[p][a].status \in Usable
        => Renewed(p, a) \/ a \in skipped[p]

KeptInv == \A p \in Procs, a \in Accounts : KeptAt(p, a)

LEMMA HereMoves ==
  ASSUME IInv, NEW p \in Procs, NEW a \in Accounts, AccountStep(p, a)
  PROVE  /\ \A q \in Procs : q # p => here'[q] = here[q]
         /\ \/ here' = here
            \/ Delete(p, a) /\ here'[p] = here[p] \ {a}
<1>1. CASE Delete(p, a)
  BY <1>1 DEF Delete, IInv, TypeOK
<1>2. CASE ~Delete(p, a)
  <2>1. CASE JobStep(p, a)
    <3>1. CASE NextAttempt(p, a) \/ JobTokens(p, a) \/ JobRefused(p, a) \/ JobFails(p, a)
      BY <3>1 DEF NextAttempt, JobTokens, JobRefused, JobFails, JobError
    <3> QED BY <2>1, <3>1 DEF JobStep, SkipLocked, LockThrows, NothingToRefresh, SyncFromDisk,
                 FirstAttempt, Granted, ServerAnswers
  <2>2. CASE ~JobStep(p, a)
    BY <1>2, <2>2 DEF AccountStep, TimerFires, StrayFires, ProbeStarts, ProbeTokens,
       ProbeRefused, ProbeFails, ServerAnswers, Login, SetStatus, RequestMarks
  <2> QED BY <2>1, <2>2
<1> QED BY <1>1, <1>2

\* Where the lock directory works and the entry has the token of
\* accounts.json, a refresh that has a slot is skipped or sends its request,
\* if there is one to send.
LEMMA GoesAhead ==
  ASSUME AllStored, Undisturbed, NEW p \in Procs, NEW a \in Accounts
  PROVE  ~LockThrows(p, a) /\ ~SyncFromDisk(p, a)
  BY DEF Undisturbed, LockThrows, SyncFromDisk, DiskDiffers, AllStored, Stored

\* Whether the step of (p, a) leaves account a to a timer or a refresh.
LEMMA RenewedHere ==
  ASSUME IInv, AllStored, Undisturbed, NEW p \in Procs, NEW a \in Accounts, AccountStep(p, a)
  PROVE  \/ Renewed(p, a)' \/ SkipLocked(p, a)
         \/ a \notin here'[p] \/ mem'[p][a].rt = 0 \/ mem'[p][a].status \notin Usable
         \/ /\ Renewed(p, a)' <=> Renewed(p, a)
            /\ a \in here[p] /\ mem'[p][a] = mem[p][a]
<1> DEFINE Goal == \/ Renewed(p, a)' \/ SkipLocked(p, a)
                   \/ a \notin here'[p] \/ mem'[p][a].rt = 0 \/ mem'[p][a].status \notin Usable
                   \/ /\ Renewed(p, a)' <=> Renewed(p, a)
                      /\ a \in here[p] /\ mem'[p][a] = mem[p][a]
<1>1. TypeOK
  BY DEF IInv
<1>2. ASSUME sched' = sched, mem' = mem, here' = here
      PROVE  Goal
  BY <1>2 DEF Renewed, At
<1>3. ASSUME MarkStatus(p, a, "expired") \/ MarkStatus(p, a, "disabled"), here' = here
      PROVE  Goal
  BY <1>1, <1>3, MarkStatusMoves DEF Usable
<1>4. ASSUME At(p, a)' # "none" \/ sched'[p].timer[a] # "none"
      PROVE  Goal
  BY <1>4 DEF Renewed
<1>7. ASSUME SkipLocked(p, a)
      PROVE  Goal
  BY <1>7
<1> SUFFICES Goal
  OBVIOUS
<1> HIDE DEF Goal
<1>6. CASE Delete(p, a)
  BY <1>1, <1>6 DEF Delete, TypeOK, Goal
<1>8. CASE NothingToRefresh(p, a)
  BY <1>1, <1>8, MarkStatusMoves DEF NothingToRefresh, Granted, SameRts, Goal
<1>9. CASE FirstAttempt(p, a) \/ NextAttempt(p, a) \/ JobTokens(p, a)
  BY <1>4, <1>9, CallMoves
<1>10. ASSUME NEW error, JobError(p, a, error)
       PROVE  Goal
  <2>1. here' = here
    BY <1>10 DEF JobError
  <2> QED BY <1>3, <1>4, <1>10, <2>1, ErrorMoves
<1>11. CASE TimerFires(p, a) \/ StrayFires(p, a) \/ ProbeTokens(p, a) \/ Login(p, a)
  BY <1>4, <1>11, TimerMoves
<1>12. CASE \/ ServerAnswers(p, a, "job") \/ ServerAnswers(p, a, "probe")
            \/ ProbeStarts(p, a) \/ ProbeFails(p, a)
  BY <1>2, <1>12 DEF ServerAnswers, ProbeStarts, ProbeFails
<1>13. CASE ProbeRefused(p, a)
  BY <1>3, <1>13 DEF ProbeRefused
<1>14. CASE \E s \in {"active", "disabled"} : SetStatus(p, a, s)
  BY <1>3, <1>14 DEF SetStatus, Undisturbed
<1>15. CASE \E s \in {"active", "rate_limited", "expired", "banned"} : RequestMarks(p, a, s)
  BY <1>15 DEF RequestMarks, Undisturbed
<1> QED BY <1>6, <1>7, <1>8, <1>9, <1>10, <1>11, <1>12, <1>13, <1>14, <1>15, GoesAhead
        DEF AccountStep, JobStep, JobRefused, JobFails

\* What the history records of the skips.
LEMMA SkippedIs ==
  ASSUME Skipped, NEW p \in Procs, NEW a \in Accounts, run'[p] # "down",
         a \in skipped[p] \/ SkipLocked(p, a)
  PROVE  Renewed(p, a)' \/ a \in skipped'[p]
  BY DEF Skipped, Renewed, Renewal, InFlight, At

LEMMA KeptAccountStep ==
  ASSUME IInv, AllStored, KeptInv, Undisturbed, Skipped,
         NEW p \in Procs, NEW a \in Accounts, AccountStep(p, a)
  PROVE  KeptInv'
<1> SUFFICES ASSUME NEW b \in Accounts, run'[p] = "up", b \in here'[p],
                    mem'[p][b].rt # 0, mem'[p][b].status \in Usable
             PROVE  Renewed(p, b)' \/ b \in skipped'[p]
  BY DEF KeptInv, KeptAt, Undisturbed, OneUser, OneProcess
<1>1. run' = run /\ KeptAt(p, b) /\ run'[p] # "down"
  BY RestFrame DEF RestElsewhere, KeptInv
<1>2. ASSUME Renewed(p, b)' <=> Renewed(p, b), b \in here[p], mem'[p][b] = mem[p][b]
      PROVE  Renewed(p, b)' \/ b \in skipped'[p]
  BY <1>1, <1>2, SkippedIs DEF KeptAt
<1>3. CASE b = a
  BY <1>1, <1>2, <1>3, RenewedHere, SkippedIs
<1>4. CASE b # a
  <2>1. mem'[p][b] = mem[p][b] /\ b \in here[p]
    BY <1>4, MemMoves, HereMoves DEF EntriesElsewhere, Other
  <2>2. /\ Moved(sched[p].job[b], sched'[p].job[b])
        /\ sched'[p].timer[b] = sched[p].timer[b]
        /\ b \in sched'[p].stray <=> b \in sched[p].stray
    BY <1>4, AllElsewhere DEF JobsElsewhere, Other
  <2>3. Renewed(p, b)' <=> Renewed(p, b)
    BY <2>2 DEF Moved, Renewed, At
  <2> QED BY <1>2, <2>1, <2>3
<1> QED BY <1>3, <1>4

LEMMA KeptLifeStep ==
  ASSUME IInv, KeptInv, Undisturbed, Skipped, NEW p \in Procs, LifeStep(p)
  PROVE  KeptInv'
<1> SUFFICES ASSUME NEW b \in Accounts
             PROVE  KeptAt(p, b)'
  BY DEF KeptInv, Undisturbed, OneUser, OneProcess
<1>1. TypeOK /\ KeptAt(p, b)
  BY DEF KeptInv, IInv
<1>2. CASE Start(p)
  <2>1. here'[p] = saved
    BY <1>1, <1>2 DEF Start, TypeOK
  <2>2. /\ mem'[p][b].rt = disk[b].rt /\ mem'[p][b].status = disk[b].status
        /\ b \in saved /\ disk[b].rt # 0 /\ disk[b].status \notin Sticky => Renewed(p, b)'
    BY <1>2, StartMoves DEF Renewed
  <2> QED BY <2>1, <2>2 DEF KeptAt, Usable, Sticky
<1>3. CASE Crash(p) \/ Stop(p) \/ Exit(p)
  BY <1>1, <1>3 DEF Crash, Stop, Exit, Gone, TypeOK, KeptAt
<1>4. CASE Flush(p)
  <2>1. UNCHANGED <<run, here, mem, sched>>
    BY <1>4 DEF Flush
  <2>2. Renewed(p, b)' <=> Renewed(p, b)
    BY <2>1 DEF Renewed, At
  <2> QED BY <1>1, <2>1, <2>2, SkippedIs DEF KeptAt
<1> QED BY <1>2, <1>3, <1>4 DEF LifeStep

LEMMA KeptStep == IInv /\ AllStored /\ KeptInv /\ Undisturbed /\ [HNext]_hvars => KeptInv'
<1> SUFFICES ASSUME IInv, AllStored, KeptInv, Undisturbed, [HNext]_hvars
             PROVE  KeptInv'
  OBVIOUS
<1>1. ASSUME UNCHANGED <<run, here, mem, sched>>, UNCHANGED skipped \/ Skipped
      PROVE  KeptInv'
  <2> SUFFICES ASSUME NEW p \in Procs, NEW a \in Accounts, run[p] = "up", a \in here[p],
                      mem[p][a].rt # 0, mem[p][a].status \in Usable
               PROVE  Renewed(p, a)' \/ a \in skipped'[p]
    BY <1>1 DEF KeptInv, KeptAt
  <2>1. Renewed(p, a)' <=> Renewed(p, a)
    BY <1>1 DEF Renewed, At
  <2> QED BY <1>1, <2>1, SkippedIs DEF KeptInv, KeptAt
<1>2. CASE UNCHANGED hvars
  BY <1>1, <1>2 DEF hvars, vars
<1>3. CASE HNext
  <2>1. Skipped /\ Next
    BY <1>3, HistoryStep DEF Recorded
  <2>2. CASE \E p \in Procs : LifeStep(p)
    BY <2>1, <2>2, KeptLifeStep
  <2>3. CASE \E p \in Procs, a \in Accounts : AccountStep(p, a)
    BY <2>1, <2>3, KeptAccountStep
  <2>4. CASE \E a \in Accounts : Revoke(a) \/ LockAges(a)
    BY <1>1, <2>1, <2>4 DEF Revoke, LockAges
  <2>5. CASE UNCHANGED vars
    BY <1>1, <2>1, <2>5 DEF vars
  <2> QED BY <2>1, <2>2, <2>3, <2>4, <2>5, NextCases
<1> QED BY <1>2, <1>3

LEMMA KeptInit == Init => KeptInv
  BY DEF Init, KeptInv, KeptAt

\* An account in use is never forgotten (scheduleOne, scheduleRecovery, the
\* timers Map and _inFlight): every way a refresh ends leaves a timer, or the
\* account without a token, expired or gone; only one that is skipped for the
\* lock does not.  Not so with a second process, whose token is taken over
\* without a timer; if saves fail or the lock directory cannot be made; or if
\* a user or a request makes an expired account active, which no handler
\* schedules.
THEOREM NoneForgotten ==
  ASSUME \A p, q \in Procs : p = q,
         Events \cap {"enable", "request", "savefail", "dirfail"} = {}
  PROVE  HSpec => []RefreshKept
<1>1. Undisturbed /\ OneUser
  BY DEF Undisturbed, OneUser, OneProcess
<1>2. IInv /\ AllStored /\ KeptInv /\ [HNext]_hvars => KeptInv'
  BY <1>1, KeptStep
<1>3. HInit => KeptInv
  BY KeptInit DEF HInit
<1>4. Spec => []AllStored
  BY <1>1, StoredAlways
<1>5. HSpec => []KeptInv
  BY <1>2, <1>3, <1>4, HistorySpec, InvAlways, PTL DEF HSpec
<1>6. IInv /\ KeptInv => RefreshKept
  <2> SUFFICES ASSUME TypeOK, KeptInv, NEW p \in Procs, run[p] = "up", NEW a \in InUse(p)
               PROVE  Renewal(sched[p], a) \/ a \in skipped[p]
    BY DEF RefreshKept, IInv
  <2>1. a \in Accounts /\ a \in here[p] /\ mem[p][a].rt # 0 /\ mem[p][a].status \in Usable
    BY DEF TypeOK, InUse, Usable
  <2> QED BY <2>1 DEF KeptInv, KeptAt, Renewed, Renewal, InFlight, At
<1> QED BY <1>5, <1>6, HistorySpec, InvAlways, PTL

-----------------------------------------------------------------------------
(* Where refresh tokens come from *)

\* What the server makes of a request.
LEMMA AnswerMoves ==
  ASSUME TypeOK, NEW p \in Procs, NEW a \in Accounts, NEW c \in Callers, ServerAnswers(p, a, c)
  PROVE  LET call == net[p][a][c]
             answer == net'[p][a][c]
         IN  /\ call.sent # 0 /\ call.reply = "none" /\ answer.sent = call.sent
             /\ \/ /\ answer.reply = "tokens" /\ answer.rt = issued[a] + 1 /\ call.sent \in Good(a)
                   /\ issued'[a] = issued[a] + 1 /\ used'[a] = used[a] \cup {call.sent}
                \/ /\ answer.reply = "tokens" /\ answer.rt = 0
                   /\ issued' = issued /\ used' = used
                \/ /\ answer.reply = "refused" /\ answer.rt = 0 /\ call.sent \notin Good(a)
                   /\ issued' = issued /\ used' = used
             /\ \A d \in Callers : d # c => net'[p][a][d] = net[p][a][d]
             /\ UNCHANGED <<run, here, mem, disk, sched, revoked>>
<1> DEFINE call == net[p][a][c]
           answered(r, rt) == [net EXCEPT ![p][a][c].reply = r, ![p][a][c].rt = rt]
<1>1. call.sent # 0 /\ call.reply = "none" /\ UNCHANGED <<run, here, mem, disk, sched, revoked>>
  BY DEF ServerAnswers, NoPersist
<1>2. PICK r \in {"tokens", "refused"}, rt \in {0, issued[a] + 1} :
        /\ net' = answered(r, rt)
        /\ \/ /\ r = "tokens" /\ rt = issued[a] + 1 /\ call.sent \in Good(a)
              /\ issued' = [issued EXCEPT ![a] = issued[a] + 1]
              /\ used' = [used EXCEPT ![a] = used[a] \cup {call.sent}]
           \/ r = "tokens" /\ rt = 0 /\ issued' = issued /\ used' = used
           \/ /\ r = "refused" /\ rt = 0 /\ call.sent \notin Good(a)
              /\ issued' = issued /\ used' = used
  BY DEF ServerAnswers
<1>3. net[p] \in [Accounts -> [Callers -> Call]] /\ DOMAIN net = Procs /\ call \in Call
  BY DEF TypeOK
<1>4. net'[p][a][c] = [[call EXCEPT !.reply = r] EXCEPT !.rt = rt]
  BY <1>2, <1>3
<1>5. net'[p][a][c].reply = r /\ net'[p][a][c].rt = rt /\ net'[p][a][c].sent = call.sent
  BY <1>3, <1>4 DEF Call
<1>6. \A d \in Callers : d # c => net'[p][a][d] = net[p][a][d]
  BY <1>2, <1>3
<1>7. \/ /\ r = "tokens" /\ rt = issued[a] + 1 /\ call.sent \in Good(a)
         /\ issued'[a] = issued[a] + 1 /\ used'[a] = used[a] \cup {call.sent}
      \/ r = "tokens" /\ rt = 0 /\ issued' = issued /\ used' = used
      \/ r = "refused" /\ rt = 0 /\ call.sent \notin Good(a) /\ issued' = issued /\ used' = used
  BY <1>2 DEF TypeOK
<1> QED BY <1>1, <1>5, <1>6, <1>7

\* What becomes of the request of one caller.
LEMMA RequestMoves ==
  ASSUME TypeOK, NEW p \in Procs, NEW a \in Accounts, AccountStep(p, a), NEW c \in Callers
  PROVE  \/ net'[p][a][c] = net[p][a][c]
         \/ /\ net'[p][a][c] = NoCall
            /\ c = "job" => JobTokens(p, a) \/ JobRefused(p, a) \/ JobFails(p, a)
         \/ /\ net'[p][a][c] = [NoCall EXCEPT !.sent = mem[p][a].rt]
            /\ \/ c = "job" /\ (FirstAttempt(p, a) \/ NextAttempt(p, a))
               \/ c = "probe" /\ ProbeStarts(p, a)
         \/ ServerAnswers(p, a, c)
<1>1. DOMAIN net = Procs /\ net[p] \in [Accounts -> [Callers -> Call]]
  BY DEF TypeOK
<1>2. ASSUME NEW d \in Callers, Received(p, a, d)
      PROVE  IF c = d THEN net'[p][a][c] = NoCall ELSE net'[p][a][c] = net[p][a][c]
  BY <1>1, <1>2 DEF Received
<1>3. ASSUME NEW d \in Callers, Send(p, a, d, mem[p][a].rt)
      PROVE  /\ c = d => net'[p][a][c] = [NoCall EXCEPT !.sent = mem[p][a].rt]
             /\ c # d => net'[p][a][c] = net[p][a][c]
  <2> DEFINE v == [NoCall EXCEPT !.sent = mem[p][a].rt]
  <2>1. net' = [net EXCEPT ![p][a][d] = v]
    BY <1>3 DEF Send
  <2> HIDE DEF v
  <2>2. /\ c = d => net'[p][a][c] = v
        /\ c # d => net'[p][a][c] = net[p][a][c]
    BY <1>1, <2>1
  <2> QED BY <2>2 DEF v
<1>4. \/ net' = net \/ Received(p, a, "probe")
      \/ Received(p, a, "job") /\ (JobTokens(p, a) \/ JobRefused(p, a) \/ JobFails(p, a))
      \/ Send(p, a, "job", mem[p][a].rt) /\ (FirstAttempt(p, a) \/ NextAttempt(p, a))
      \/ Send(p, a, "probe", mem[p][a].rt) /\ ProbeStarts(p, a)
      \/ ServerAnswers(p, a, "job") \/ ServerAnswers(p, a, "probe")
  <2>1. CASE SkipLocked(p, a) \/ LockThrows(p, a) \/ NothingToRefresh(p, a) \/ SyncFromDisk(p, a)
    BY <2>1 DEF SkipLocked, LockThrows, NothingToRefresh, SyncFromDisk
  <2>2. CASE \/ FirstAttempt(p, a) \/ NextAttempt(p, a) \/ JobTokens(p, a)
             \/ JobRefused(p, a) \/ JobFails(p, a)
    BY <2>2 DEF FirstAttempt, NextAttempt, JobTokens, JobRefused, JobFails, JobError
  <2>3. CASE TimerFires(p, a) \/ StrayFires(p, a) \/ Login(p, a) \/ Delete(p, a)
    BY <2>3 DEF TimerFires, StrayFires, Login, Delete
  <2>4. CASE ProbeStarts(p, a) \/ ProbeTokens(p, a) \/ ProbeRefused(p, a) \/ ProbeFails(p, a)
    BY <2>4 DEF ProbeStarts, ProbeTokens, ProbeRefused, ProbeFails
  <2>5. CASE \/ \E s \in {"active", "disabled"} : SetStatus(p, a, s)
             \/ \E s \in {"active", "rate_limited", "expired", "banned"} : RequestMarks(p, a, s)
    BY <2>5 DEF SetStatus, RequestMarks
  <2> QED BY <2>1, <2>2, <2>3, <2>4, <2>5 DEF AccountStep, JobStep
<1>5. ASSUME NEW d \in Callers, ServerAnswers(p, a, d), d # c
      PROVE  net'[p][a][c] = net[p][a][c]
  BY <1>5, AnswerMoves
<1> QED BY <1>2, <1>3, <1>4, <1>5 DEF Callers

\* Where the refresh token of the entry comes from.
LEMMA TokenMoves ==
  ASSUME TypeOK, NEW p \in Procs, NEW a \in Accounts, AccountStep(p, a)
  PROVE  \/ mem'[p][a].rt = mem[p][a].rt
         \/ SyncFromDisk(p, a) /\ mem'[p][a].rt = disk[a].rt
         \/ /\ JobTokens(p, a) /\ net[p][a]["job"].rt # 0
            /\ mem'[p][a].rt = net[p][a]["job"].rt
         \/ /\ ProbeTokens(p, a) /\ net[p][a]["probe"].rt # 0
            /\ mem'[p][a].rt = net[p][a]["probe"].rt
         \/ /\ Login(p, a) /\ mem'[p][a].rt = issued[a] + 1
            /\ issued' = [issued EXCEPT ![a] = issued[a] + 1]
<1>1. ASSUME NEW status, MarkStatus(p, a, status)
      PROVE  mem'[p][a].rt = mem[p][a].rt
  BY <1>1, MarkStatusMoves DEF SameRts
<1>2. ASSUME NEW tok, NEW rt, UpdateToken(p, a, tok, rt)
      PROVE  mem'[p][a].rt = mem[p][a].rt \/ (rt # 0 /\ mem'[p][a].rt = rt)
  BY <1>2, UpdateTokenMoves
<1>3. CASE SyncFromDisk(p, a)
  <2> DEFINE up == Updated(mem[p][a], mem[p][a].token, disk[a].rt)
             synced == [mem[p] EXCEPT ![a] = up]
             m == [up EXCEPT !.status = "active"]
  <2>1. mem[p] \in [Accounts -> Cred]
    BY DEF TypeOK
  <2>2. MemIs(p, [synced EXCEPT ![a].status = "active"]) /\ disk[a].rt # 0
    BY <1>3 DEF SyncFromDisk, DiskDiffers
  <2>3. m.rt = disk[a].rt
    BY <2>2 DEF Updated
  <2>5. [synced EXCEPT ![a].status = "active"] = [mem[p] EXCEPT ![a] = m]
    BY <2>1
  <2> HIDE DEF m, up, synced
  <2> QED BY SMTT(60), <1>3, <2>2, <2>3, <2>5, EntryChanges
<1>4. CASE TimerFires(p, a)
  BY <1>4 DEF TimerFires, MemIs, TypeOK, Cred
<1>5. CASE Login(p, a)
  <2> DEFINE m == [status |-> "active", rt |-> issued[a] + 1, token |-> "fresh"]
  <2>1. MemIs(p, [mem[p] EXCEPT ![a] = m]) /\ issued' = [issued EXCEPT ![a] = issued[a] + 1]
    BY <1>5 DEF Login
  <2>2. m.rt = issued[a] + 1
    OBVIOUS
  <2> HIDE DEF m
  <2> QED BY <1>5, <2>1, <2>2, EntryChanges
<1>6. CASE mem' = mem
  BY <1>6
<1>7. CASE JobTokens(p, a)
  BY <1>2, <1>7 DEF JobTokens
<1>8. CASE ProbeTokens(p, a)
  BY <1>2, <1>8 DEF ProbeTokens
<1>9. \/ SyncFromDisk(p, a) \/ TimerFires(p, a) \/ Login(p, a) \/ mem' = mem
      \/ JobTokens(p, a) \/ ProbeTokens(p, a) \/ \E status : MarkStatus(p, a, status)
  <2>1. CASE SkipLocked(p, a) \/ LockThrows(p, a) \/ NothingToRefresh(p, a) \/ SyncFromDisk(p, a)
    BY <2>1 DEF SkipLocked, LockThrows, NothingToRefresh
  <2>2. CASE \/ FirstAttempt(p, a) \/ NextAttempt(p, a) \/ JobTokens(p, a)
             \/ JobRefused(p, a) \/ JobFails(p, a)
    BY <2>2 DEF FirstAttempt, NextAttempt, JobRefused, JobFails, JobError
  <2>3. CASE TimerFires(p, a) \/ StrayFires(p, a) \/ Login(p, a) \/ Delete(p, a)
    BY <2>3 DEF StrayFires, Delete
  <2>4. CASE ProbeStarts(p, a) \/ ProbeTokens(p, a) \/ ProbeRefused(p, a) \/ ProbeFails(p, a)
    BY <2>4 DEF ProbeStarts, ProbeRefused, ProbeFails
  <2>5. CASE \/ \E s \in {"active", "disabled"} : SetStatus(p, a, s)
             \/ \E s \in {"active", "rate_limited", "expired", "banned"} : RequestMarks(p, a, s)
    BY <2>5 DEF SetStatus, RequestMarks
  <2>6. CASE ServerAnswers(p, a, "job") \/ ServerAnswers(p, a, "probe")
    BY <2>6 DEF ServerAnswers
  <2> QED BY <2>1, <2>2, <2>3, <2>4, <2>5, <2>6 DEF AccountStep, JobStep
<1> QED BY <1>1, <1>3, <1>4, <1>5, <1>6, <1>7, <1>8, <1>9

\* The server issues and exchanges tokens only when it answers, or at a login.
LEMMA ServerMoves ==
  ASSUME TypeOK, NEW p \in Procs, NEW a \in Accounts, AccountStep(p, a)
  PROVE  \/ issued' = issued /\ used' = used
         \/ Login(p, a) /\ issued'[a] = issued[a] + 1 /\ used' = used
         \/ ServerAnswers(p, a, "job") \/ ServerAnswers(p, a, "probe")
<1>1. CASE Login(p, a)
  BY <1>1 DEF Login, TypeOK
<1>2. CASE SkipLocked(p, a) \/ LockThrows(p, a) \/ NothingToRefresh(p, a) \/ SyncFromDisk(p, a)
           \/ FirstAttempt(p, a) \/ NextAttempt(p, a) \/ JobTokens(p, a)
  BY <1>2 DEF SkipLocked, LockThrows, NothingToRefresh, SyncFromDisk, FirstAttempt, Granted,
              NextAttempt, JobTokens, server
<1>3. ASSUME NEW error, JobError(p, a, error)
      PROVE  issued' = issued /\ used' = used
  BY <1>3 DEF JobError, server
<1>4. CASE TimerFires(p, a) \/ StrayFires(p, a) \/ Delete(p, a)
  BY <1>4 DEF TimerFires, StrayFires, Delete, server
<1>5. CASE ProbeStarts(p, a) \/ ProbeTokens(p, a) \/ ProbeRefused(p, a) \/ ProbeFails(p, a)
  BY <1>5 DEF ProbeStarts, ProbeTokens, ProbeRefused, ProbeFails, server
<1>6. CASE \/ \E s \in {"active", "disabled"} : SetStatus(p, a, s)
           \/ \E s \in {"active", "rate_limited", "expired", "banned"} : RequestMarks(p, a, s)
  BY <1>6 DEF SetStatus, RequestMarks, server
<1> QED BY <1>1, <1>2, <1>3, <1>4, <1>5, <1>6 DEF AccountStep, JobStep, JobRefused, JobFails

\* Every token there is has been issued, and so have those that were
\* exchanged or revoked.
ServerKnows ==
    \A a \in Accounts :
        /\ used[a] \subseteq 1 .. issued[a] /\ revoked[a] \subseteq 1 .. issued[a]
        /\ disk[a].rt <= issued[a]

IssuedAt(p, a) ==
    /\ mem[p][a].rt <= issued[a]
    /\ \A c \in Callers : net[p][a][c].sent <= issued[a] /\ net[p][a][c].rt <= issued[a]

IssuedInv == ServerKnows /\ \A p \in Procs, a \in Accounts : IssuedAt(p, a)

\* The numbers of the tokens, for the arithmetic.
LEMMA Numbers ==
  ASSUME TypeOK, NEW p \in Procs, NEW a \in Accounts
  PROVE  /\ issued[a] \in Nat /\ disk[a].rt \in Nat /\ mem[p][a].rt \in Nat
         /\ \A c \in Callers : net[p][a][c].sent \in Nat /\ net[p][a][c].rt \in Nat
<1>1. RTs \subseteq Nat
  BY RefreshAssumption DEF RTs
<1>2. disk[a] \in Cred /\ mem[p][a] \in Cred /\ issued[a] \in RTs
  BY DEF TypeOK
<1>3. \A c \in Callers : net[p][a][c] \in Call
  BY DEF TypeOK
<1> QED BY <1>1, <1>2, <1>3 DEF Cred, Call

LEMMA ServerGrows ==
  ASSUME IInv, TypeOK', IssuedInv, NEW p \in Procs, NEW a \in Accounts, AccountStep(p, a),
         NEW b \in Accounts
  PROVE  /\ issued[b] <= issued'[b] /\ used[b] \subseteq used'[b]
         /\ used'[b] \subseteq 1 .. issued'[b]
<1>1. TypeOK /\ issued[b] \in Nat /\ issued'[b] \in Nat /\ used[b] \subseteq 1 .. issued[b]
  BY RefreshAssumption DEF IInv, TypeOK, RTs, IssuedInv, ServerKnows
<1>2. CASE issued'[b] = issued[b] /\ used'[b] = used[b]
  BY <1>1, <1>2
<1>3. CASE b # a
  BY <1>2, <1>3, RestFrame DEF RestElsewhere
<1>4. CASE b = a /\ issued'[a] = issued[a] + 1 /\ used' = used
  BY <1>1, <1>4
<1>5. CASE b = a /\ \E c \in Callers : ServerAnswers(p, a, c)
  <2>1. PICK c \in Callers : ServerAnswers(p, a, c)
    BY <1>5
  <2>2. CASE issued' = issued /\ used' = used
    BY <1>2, <2>2
  <2>3. CASE /\ issued'[a] = issued[a] + 1 /\ used'[a] = used[a] \cup {net[p][a][c].sent}
             /\ net[p][a][c].sent \in Good(a)
    BY <1>1, <1>5, <2>3 DEF Good
  <2> QED BY <1>1, <2>1, <2>2, <2>3, AnswerMoves
<1> QED BY <1>1, <1>2, <1>3, <1>4, <1>5, ServerMoves DEF Callers

LEMMA IssuedHere ==
  ASSUME IInv, TypeOK', IssuedInv, NEW p \in Procs, NEW a \in Accounts, AccountStep(p, a)
  PROVE  IssuedAt(p, a)'
<1> DEFINE n == issued[a]
           m == issued'[a]
<1>1. TypeOK /\ n \in Nat /\ m \in Nat /\ n <= m
  BY RefreshAssumption, ServerGrows DEF IInv, TypeOK, RTs
<1>2. /\ mem[p][a].rt <= n /\ disk[a].rt <= n
      /\ \A c \in Callers : net[p][a][c].sent <= n /\ net[p][a][c].rt <= n
  BY DEF IssuedInv, ServerKnows, IssuedAt
<1>3. /\ disk[a].rt \in Nat /\ mem[p][a].rt \in Nat /\ mem'[p][a].rt \in Nat
      /\ \A c \in Callers : net[p][a][c].sent \in Nat /\ net[p][a][c].rt \in Nat
  <2>1. mem'[p][a].rt \in Nat
    <3>1. mem'[p][a] \in Cred
      BY DEF TypeOK
    <3> QED BY <3>1, RefreshAssumption DEF Cred, RTs
  <2> QED BY <1>1, <2>1, Numbers
<1>4. mem'[p][a].rt <= m
  <2>1. \/ mem'[p][a].rt \in {mem[p][a].rt, disk[a].rt, net[p][a]["job"].rt, net[p][a]["probe"].rt}
        \/ mem'[p][a].rt = n + 1 /\ issued' = [issued EXCEPT ![a] = n + 1]
    BY <1>1, TokenMoves
  <2>2. CASE mem'[p][a].rt \in {mem[p][a].rt, disk[a].rt, net[p][a]["job"].rt, net[p][a]["probe"].rt}
    <3>1. mem'[p][a].rt <= n
      BY <1>2, <2>2 DEF Callers
    <3> HIDE DEF n, m
    <3> QED BY <1>1, <1>3, <3>1
  <2>3. CASE mem'[p][a].rt = n + 1 /\ issued' = [issued EXCEPT ![a] = n + 1]
    BY <1>1, <2>3 DEF TypeOK
  <2> QED BY <2>1, <2>2, <2>3
<1>5. ASSUME NEW c \in Callers
      PROVE  net'[p][a][c].sent <= m /\ net'[p][a][c].rt <= m
  <2>1. CASE net'[p][a][c] = net[p][a][c]
    <3> HIDE DEF n, m
    <3> QED BY <1>1, <1>2, <1>3, <2>1
  <2>2. CASE net'[p][a][c] = NoCall
    BY <1>1, <2>2 DEF NoCall
  <2>3. CASE net'[p][a][c] = [NoCall EXCEPT !.sent = mem[p][a].rt]
    <3>1. net'[p][a][c].sent = mem[p][a].rt /\ net'[p][a][c].rt = 0
      BY <2>3 DEF NoCall
    <3> HIDE DEF n, m
    <3> QED BY <1>1, <1>2, <1>3, <3>1
  <2>4. CASE ServerAnswers(p, a, c)
    <3>1. /\ net'[p][a][c].sent = net[p][a][c].sent
          /\ net'[p][a][c].rt = 0 \/ (net'[p][a][c].rt = n + 1 /\ m = n + 1)
      BY <1>1, <2>4, AnswerMoves
    <3> HIDE DEF n, m
    <3> QED BY <1>1, <1>2, <1>3, <3>1
  <2> QED BY <1>1, <2>1, <2>2, <2>3, <2>4, RequestMoves
<1> QED BY <1>4, <1>5 DEF IssuedAt

LEMMA IssuedAccountStep ==
  ASSUME IInv, TypeOK', IssuedInv, NEW p \in Procs, NEW a \in Accounts, AccountStep(p, a)
  PROVE  IssuedInv'
<1>1. ASSUME NEW q \in Procs, NEW b \in Accounts
      PROVE  IssuedAt(q, b)'
  <2>1. CASE q = p /\ b = a
    BY <2>1, IssuedHere
  <2>2. CASE Other(p, a, q, b)
    <3>1. mem'[q][b] = mem[q][b] /\ net'[q][b] = net[q][b]
      BY <2>2, MemMoves, NetFrame DEF EntriesElsewhere, NetElsewhere
    <3>2. issued[b] <= issued'[b] /\ issued'[b] \in Nat /\ issued[b] \in Nat
      BY ServerGrows, RefreshAssumption DEF IInv, TypeOK, RTs
    <3>3. TypeOK /\ IssuedAt(q, b)
      BY DEF IInv, IssuedInv
    <3>4. /\ mem[q][b].rt \in Nat
          /\ \A c \in Callers : net[q][b][c].sent \in Nat /\ net[q][b][c].rt \in Nat
      BY <3>3, Numbers
    <3> QED BY <3>1, <3>2, <3>3, <3>4 DEF IssuedAt
  <2> QED BY <2>1, <2>2 DEF Other
<1>2. ASSUME NEW b \in Accounts
      PROVE  /\ used'[b] \subseteq 1 .. issued'[b] /\ revoked'[b] \subseteq 1 .. issued'[b]
             /\ disk'[b].rt <= issued'[b]
  <2>1. issued[b] <= issued'[b] /\ issued'[b] \in Nat /\ issued[b] \in Nat
    BY ServerGrows, RefreshAssumption DEF IInv, TypeOK, RTs
  <2>2. revoked' = revoked /\ revoked[b] \subseteq 1 .. issued[b] /\ disk[b].rt <= issued[b]
    BY RestFrame DEF RestElsewhere, IssuedInv, ServerKnows
  <2>3. disk'[b].rt = disk[b].rt \/ disk'[b].rt = mem'[p][b].rt
    BY MemMoves DEF StoreMoves, Stored, SaveFailed
  <2>4. mem'[p][b].rt <= issued'[b] /\ disk[b].rt \in Nat
    BY <1>1, Numbers DEF IssuedAt, IInv
  <2>5. disk'[b].rt <= issued'[b]
    BY <2>1, <2>2, <2>3, <2>4
  <2> QED BY <2>1, <2>2, <2>5, ServerGrows
<1> QED BY <1>1, <1>2 DEF IssuedInv, ServerKnows

LEMMA IssuedLifeStep ==
  ASSUME IInv, IssuedInv, NEW p \in Procs, LifeStep(p)
  PROVE  IssuedInv'
<1>1. TypeOK
  BY DEF IInv
<1>2. UNCHANGED server /\ UNCHANGED <<issued, used, revoked>>
  BY DEF LifeStep, Start, Crash, Stop, Exit, Flush, Gone, server
<1>3. ASSUME NEW b \in Accounts
      PROVE  disk'[b].rt <= issued[b]
  <2>1. disk' = disk \/ disk' = mem[p]
    BY DEF LifeStep, Start, Crash, Stop, Exit, Flush, PersistNow
  <2> QED BY <2>1 DEF IssuedInv, ServerKnows, IssuedAt
<1>4. ASSUME NEW q \in Procs, NEW b \in Accounts
      PROVE  IssuedAt(q, b)'
  <2>1. IssuedAt(q, b) /\ disk[b].rt <= issued[b] /\ issued[b] \in Nat
    BY <1>1, RefreshAssumption DEF IssuedInv, ServerKnows, TypeOK, RTs
  <2>2. mem'[q][b].rt = mem[q][b].rt \/ mem'[q][b].rt = disk[b].rt
    <3>1. CASE q # p
      BY <1>1, <3>1 DEF LifeStep, Start, Crash, Stop, Exit, Flush, Gone, MemIs, TypeOK
    <3>2. CASE q = p /\ Start(p)
      BY <3>2, StartMoves
    <3>3. CASE q = p /\ (Crash(p) \/ Exit(p))
      BY <1>1, <3>3 DEF Crash, Exit, Gone, MemIs, TypeOK
    <3>4. CASE Stop(p) \/ Flush(p)
      BY <3>4 DEF Stop, Flush
    <3> QED BY <3>1, <3>2, <3>3, <3>4 DEF LifeStep
  <2>3. \A c \in Callers : net'[q][b][c] = net[q][b][c] \/ net'[q][b][c] = NoCall
    <3>1. \/ net' = net
          \/ net' = [net EXCEPT ![p] = [x \in Accounts |-> [y \in Callers |-> NoCall]]]
      BY DEF LifeStep, Start, Crash, Stop, Exit, Flush, Gone
    <3>2. net \in [Procs -> [Accounts -> [Callers -> Call]]]
      BY <1>1 DEF TypeOK
    <3>3. net'[q] = net[q] \/ net'[q] = [x \in Accounts |-> [y \in Callers |-> NoCall]]
      BY <3>1, <3>2
    <3> QED BY <3>3
  <2> QED BY <1>2, <2>1, <2>2, <2>3 DEF IssuedAt, NoCall
<1> QED BY <1>2, <1>3, <1>4 DEF IssuedInv, ServerKnows

LEMMA IssuedStep == IInv /\ TypeOK' /\ IssuedInv /\ [Next]_vars => IssuedInv'
<1> SUFFICES ASSUME IInv, TypeOK', IssuedInv, [Next]_vars
             PROVE  IssuedInv'
  OBVIOUS
<1>1. CASE UNCHANGED vars
  BY <1>1 DEF vars, server, IssuedInv, ServerKnows, IssuedAt
<1>2. CASE \E p \in Procs : LifeStep(p)
  BY <1>2, IssuedLifeStep
<1>3. CASE \E p \in Procs, a \in Accounts : AccountStep(p, a)
  BY <1>3, IssuedAccountStep
<1>4. CASE \E a \in Accounts : Revoke(a) \/ LockAges(a)
  <2>1. UNCHANGED <<mem, net, disk, issued, used>>
    BY <1>4 DEF Revoke, LockAges, NoPersist, server
  <2>2. \A a \in Accounts : revoked'[a] = revoked[a] \/ revoked'[a] = 1 .. issued[a]
    BY <1>4 DEF Revoke, LockAges, server, IInv, TypeOK
  <2> QED BY <2>1, <2>2 DEF IssuedInv, ServerKnows, IssuedAt
<1> QED BY <1>1, <1>2, <1>3, <1>4, NextCases

LEMMA IssuedInit == Init => IssuedInv
<1> SUFFICES ASSUME Init PROVE IssuedInv
  OBVIOUS
<1>1. \A a \in Accounts : issued[a] = 1 /\ disk[a].rt = 1 /\ used[a] = {} /\ revoked[a] = {}
  BY DEF Init
<1>2. \A p \in Procs, a \in Accounts :
        /\ mem[p][a].rt = 1 /\ \A c \in Callers : net[p][a][c] = NoCall
  BY <1>1 DEF Init
<1> QED BY <1>1, <1>2 DEF IssuedInv, ServerKnows, IssuedAt, NoCall

LEMMA IssuedAlways == Spec => []IssuedInv
<1>1. IInv => TypeOK
  BY DEF IInv
<1> QED BY <1>1, IssuedInit, IssuedStep, InvAlways, PTL DEF Spec

-----------------------------------------------------------------------------
(* No token that was replaced is sent again *)

\* A reply on its way brings a token nobody has yet: not in the entry, not
\* sent, not replaced, and not in the other reply.
FreshAt(p, a) ==
    /\ mem[p][a].rt \notin replaced[a]
    /\ \A x \in replaced[a] : x \in Nat /\ x <= issued[a]
    /\ \A c \in Callers : net[p][a][c].rt # 0 =>
          /\ net[p][a][c].rt \notin replaced[a] /\ net[p][a][c].rt # mem[p][a].rt
          /\ \A d \in Callers : /\ net[p][a][c].rt # net[p][a][d].sent
                                /\ d # c => net[p][a][c].rt # net[p][a][d].rt

FreshInv == \A p \in Procs, a \in Accounts : FreshAt(p, a)

\* What the history adds for account a of the one process there is.
LEMMA ReplacedIs ==
  ASSUME OneUser, Replaced, NEW p \in Procs, NEW a \in Accounts
  PROVE  /\ replaced[a] \subseteq replaced'[a]
         /\ \A x \in replaced'[a] : x \in replaced[a]
               \/ \E c \in Callers : Stores(p, a, c) /\ x = net[p][a][c].sent
<1>1. replaced'[a] = replaced[a] \cup
        {net[x[1]][a][x[2]].sent : x \in {y \in Procs \X Callers : Stores(y[1], a, y[2])}}
  BY DEF Replaced
<1>2. ASSUME NEW y \in Procs \X Callers
      PROVE  y[1] = p /\ y[2] \in Callers
  BY DEF OneUser, OneProcess
<1> QED BY <1>1, <1>2

\* The entry keeps its token, and the requests stay or end.
LEMMA FreshStays ==
  ASSUME IInv, FreshInv, OneUser, Replaced, NEW p \in Procs, NEW a \in Accounts,
         mem'[p][a].rt = mem[p][a].rt,
         issued[a] \in Nat, issued'[a] \in Nat, issued[a] <= issued'[a],
         \A c \in Callers : net'[p][a][c] \in {net[p][a][c], NoCall}
  PROVE  FreshAt(p, a)'
<1>1. FreshAt(p, a)
  BY DEF FreshInv
<1>2. \A c \in Callers : ~Stores(p, a, c)
  BY <1>1 DEF FreshAt, Stores
<1>3. replaced'[a] = replaced[a]
  BY <1>2, ReplacedIs
<1>4. \A x \in replaced'[a] : x \in Nat /\ x <= issued'[a]
  <2>1. \A x \in replaced[a] : x \in Nat /\ x <= issued[a]
    BY <1>1 DEF FreshAt
  <2> QED BY <1>3, <2>1
<1>5. ASSUME NEW c \in Callers, net'[p][a][c].rt # 0
      PROVE  /\ net'[p][a][c].rt \notin replaced[a] /\ net'[p][a][c].rt # mem[p][a].rt
             /\ \A d \in Callers : /\ net'[p][a][c].rt # net'[p][a][d].sent
                                   /\ d # c => net'[p][a][c].rt # net'[p][a][d].rt
  <2>1. NoCall.rt = 0 /\ NoCall.sent = 0
    BY DEF NoCall
  <2>2. net'[p][a][c] = net[p][a][c]
    BY <1>5, <2>1
  <2> QED BY <1>1, <1>5, <2>1, <2>2 DEF FreshAt
<1> QED BY <1>1, <1>3, <1>4, <1>5 DEF FreshAt

\* The numbers of the tokens of one account, before and after a step.
LEMMA FreshNumbers ==
  ASSUME IInv, TypeOK', IssuedInv, NEW p \in Procs, NEW a \in Accounts
  PROVE  /\ issued[a] \in Nat /\ issued'[a] \in Nat
         /\ mem[p][a].rt \in Nat /\ mem[p][a].rt <= issued[a]
         /\ \A c \in Callers : /\ net[p][a][c].rt \in Nat /\ net[p][a][c].rt <= issued[a]
                               /\ net[p][a][c].sent \in Nat /\ net[p][a][c].sent <= issued[a]
<1>1. issued'[a] \in Nat
  BY RefreshAssumption DEF TypeOK, RTs
<1> QED BY <1>1, Numbers DEF IInv, IssuedInv, IssuedAt

\* The server answers: a new token is one that nobody has.
LEMMA FreshAnswer ==
  ASSUME IInv, TypeOK', IssuedInv, FreshInv, OneUser, Replaced,
         NEW p \in Procs, NEW a \in Accounts, NEW c \in Callers, ServerAnswers(p, a, c)
  PROVE  FreshAt(p, a)'
<1> DEFINE n == issued[a]
           m == issued'[a]
           call == net[p][a][c]
           answer == net'[p][a][c]
<1>1. TypeOK /\ FreshAt(p, a)
  BY DEF IInv, FreshInv
<1>2. /\ answer.sent = call.sent
      /\ answer.rt = 0 \/ (answer.rt = n + 1 /\ m = n + 1)
      /\ n <= m
      /\ \A d \in Callers : d # c => net'[p][a][d] = net[p][a][d]
      /\ mem' = mem /\ answer.reply # "none"
  BY <1>1, AnswerMoves, FreshNumbers
<1>3. /\ n \in Nat /\ m \in Nat /\ mem[p][a].rt \in Nat /\ mem[p][a].rt <= n
      /\ \A d \in Callers : /\ net[p][a][d].rt \in Nat /\ net[p][a][d].rt <= n
                            /\ net[p][a][d].sent \in Nat /\ net[p][a][d].sent <= n
  BY FreshNumbers
<1>4. \A d \in Callers : ~Stores(p, a, d)
  <2> SUFFICES ASSUME NEW d \in Callers, Stores(p, a, d)
               PROVE  FALSE
    OBVIOUS
  <2>1. mem'[p][a].rt = net[p][a][d].rt /\ net[p][a][d].rt # 0
    BY DEF Stores
  <2> QED BY <1>1, <1>2, <2>1 DEF FreshAt
<1>5. replaced'[a] = replaced[a]
  BY <1>4, ReplacedIs
<1>6. \A x \in replaced[a] : x \in Nat /\ x <= n
  BY <1>1 DEF FreshAt
<1> HIDE DEF n, m
<1>7. \A x \in replaced'[a] : x \in Nat /\ x <= m
  BY <1>2, <1>3, <1>5, <1>6
<1>8. n + 1 \notin replaced[a] /\ n + 1 # mem[p][a].rt
      /\ \A d \in Callers : n + 1 # net[p][a][d].sent /\ n + 1 # net[p][a][d].rt
  BY <1>3, <1>6
<1>9. ASSUME NEW d \in Callers
      PROVE  net'[p][a][d].sent = net[p][a][d].sent
  BY <1>2
<1>10. ASSUME NEW d \in Callers, net'[p][a][d].rt # 0
       PROVE  /\ net'[p][a][d].rt \notin replaced[a] /\ net'[p][a][d].rt # mem[p][a].rt
              /\ \A e \in Callers : /\ net'[p][a][d].rt # net'[p][a][e].sent
                                    /\ e # d => net'[p][a][d].rt # net'[p][a][e].rt
  <2>1. CASE d = c
    BY <1>2, <1>8, <1>9, <1>10, <2>1
  <2>2. CASE d # c
    <3>1. net'[p][a][d].rt = net[p][a][d].rt /\ net[p][a][d].rt # 0
      BY <1>2, <1>10, <2>2
    <3>2. net[p][a][d].rt # n + 1
      BY <1>8
    <3> QED BY <1>1, <1>2, <1>9, <3>1, <3>2 DEF FreshAt
  <2> QED BY <2>1, <2>2
<1>11. mem'[p][a].rt \notin replaced'[a]
  BY <1>1, <1>2, <1>5 DEF FreshAt
<1>12. \A x \in replaced'[a] : x \in Nat /\ x <= issued'[a]
  BY <1>7 DEF m
<1> QED BY <1>2, <1>5, <1>10, <1>11, <1>12 DEF FreshAt

\* The token of the entry is sent: no reply on its way brings it.
LEMMA FreshSend ==
  ASSUME IInv, TypeOK', IssuedInv, FreshInv, OneUser, Replaced,
         NEW p \in Procs, NEW a \in Accounts, NEW c \in Callers, AccountStep(p, a),
         net'[p][a][c] = [NoCall EXCEPT !.sent = mem[p][a].rt],
         mem'[p][a].rt = mem[p][a].rt,
         \A d \in Callers : d # c => net'[p][a][d] = net[p][a][d]
  PROVE  FreshAt(p, a)'
<1>1. FreshAt(p, a) /\ issued[a] \in Nat /\ issued'[a] \in Nat /\ issued[a] <= issued'[a]
  BY FreshNumbers, ServerGrows DEF FreshInv
<1>2. \A d \in Callers : ~Stores(p, a, d)
  BY <1>1 DEF FreshAt, Stores
<1>3. replaced'[a] = replaced[a]
  BY <1>2, ReplacedIs
<1>4. \A x \in replaced'[a] : x \in Nat /\ x <= issued'[a]
  <2>1. \A x \in replaced[a] : x \in Nat /\ x <= issued[a]
    BY <1>1 DEF FreshAt
  <2> QED BY <1>1, <1>3, <2>1
<1>5. net'[p][a][c].rt = 0 /\ net'[p][a][c].sent = mem[p][a].rt
  BY DEF NoCall
<1>6. ASSUME NEW d \in Callers, net'[p][a][d].rt # 0
      PROVE  /\ net'[p][a][d].rt \notin replaced[a] /\ net'[p][a][d].rt # mem[p][a].rt
             /\ \A e \in Callers : /\ net'[p][a][d].rt # net'[p][a][e].sent
                                   /\ e # d => net'[p][a][d].rt # net'[p][a][e].rt
  <2>1. d # c /\ net'[p][a][d] = net[p][a][d]
    BY <1>5, <1>6
  <2>2. /\ net[p][a][d].rt \notin replaced[a] /\ net[p][a][d].rt # mem[p][a].rt
        /\ \A e \in Callers : /\ net[p][a][d].rt # net[p][a][e].sent
                              /\ e # d => net[p][a][d].rt # net[p][a][e].rt
    BY <1>1, <1>6, <2>1 DEF FreshAt
  <2>3. ASSUME NEW e \in Callers
        PROVE  /\ net'[p][a][d].rt # net'[p][a][e].sent
               /\ e # d => net'[p][a][d].rt # net'[p][a][e].rt
    <3>1. CASE e = c
      BY <1>5, <1>6, <2>1, <2>2, <3>1
    <3>2. CASE e # c
      BY <2>1, <2>2, <3>2
    <3> QED BY <3>1, <3>2
  <2> QED BY <2>1, <2>2, <2>3
<1> QED BY <1>1, <1>3, <1>4, <1>6 DEF FreshAt

\* The reply to c is over, and its token, if it brought one, in the entry.
LEMMA FreshReply ==
  ASSUME IInv, TypeOK', IssuedInv, FreshInv, OneUser, Replaced,
         NEW p \in Procs, NEW a \in Accounts, NEW c \in Callers, AccountStep(p, a),
         net[p][a][c].rt # 0, mem'[p][a].rt = net[p][a][c].rt, net'[p][a][c] = NoCall,
         \A d \in Callers : d # c => net'[p][a][d] = net[p][a][d]
  PROVE  FreshAt(p, a)'
<1> DEFINE new == net[p][a][c].rt
           sent == net[p][a][c].sent
<1>1. FreshAt(p, a) /\ issued[a] \in Nat /\ issued'[a] \in Nat /\ issued[a] <= issued'[a]
      /\ sent \in Nat /\ sent <= issued[a]
  BY FreshNumbers, ServerGrows DEF FreshInv
<1>2. ASSUME NEW d \in Callers, Stores(p, a, d)
      PROVE  d = c
  <2>1. mem'[p][a].rt = net[p][a][d].rt
    BY <1>2 DEF Stores
  <2> QED BY <1>1, <2>1 DEF FreshAt
<1>3. \A x \in replaced'[a] : x \in replaced[a] \/ x = sent
  BY <1>2, ReplacedIs
<1>4. \A x \in replaced'[a] : x \in Nat /\ x <= issued'[a]
  <2>1. \A x \in replaced[a] : x \in Nat /\ x <= issued[a]
    BY <1>1 DEF FreshAt
  <2> HIDE DEF sent
  <2> QED BY <1>1, <1>3, <2>1
<1>5. /\ new \notin replaced[a] /\ new # sent
      /\ \A d \in Callers : d # c => new # net[p][a][d].rt
  BY <1>1 DEF FreshAt
<1>6. mem'[p][a].rt \notin replaced'[a]
  BY <1>3, <1>5
<1>7. net'[p][a][c].rt = 0 /\ net'[p][a][c].sent = 0
  BY DEF NoCall
<1>8. ASSUME NEW d \in Callers, net'[p][a][d].rt # 0
      PROVE  /\ net'[p][a][d].rt \notin replaced'[a] /\ net'[p][a][d].rt # mem'[p][a].rt
             /\ \A e \in Callers : /\ net'[p][a][d].rt # net'[p][a][e].sent
                                   /\ e # d => net'[p][a][d].rt # net'[p][a][e].rt
  <2>1. d # c /\ net'[p][a][d] = net[p][a][d]
    BY <1>7, <1>8
  <2>2. net[p][a][d].rt # sent /\ net[p][a][d].rt # new /\ net[p][a][d].rt \notin replaced[a]
    BY <1>1, <1>8, <2>1 DEF FreshAt
  <2>3. net'[p][a][d].rt \notin replaced'[a]
    BY <1>3, <2>1, <2>2
  <2>4. \A e \in Callers : /\ net'[p][a][d].rt # net'[p][a][e].sent
                           /\ e # d => net'[p][a][d].rt # net'[p][a][e].rt
    BY <1>1, <1>7, <1>8, <2>1 DEF FreshAt
  <2> QED BY <2>1, <2>2, <2>3, <2>4
<1> QED BY <1>4, <1>6, <1>8 DEF FreshAt

\* A login gives the entry a token nobody has.
LEMMA FreshLogin ==
  ASSUME IInv, TypeOK', IssuedInv, FreshInv, OneUser, Replaced,
         NEW p \in Procs, NEW a \in Accounts, AccountStep(p, a),
         mem'[p][a].rt = issued[a] + 1, net' = net
  PROVE  FreshAt(p, a)'
<1>1. FreshAt(p, a) /\ issued[a] <= issued'[a]
  BY ServerGrows DEF FreshInv
<1>2. /\ issued[a] \in Nat /\ issued'[a] \in Nat
      /\ \A c \in Callers : net[p][a][c].rt \in Nat /\ net[p][a][c].rt <= issued[a]
  BY FreshNumbers
<1>3. \A c \in Callers : ~Stores(p, a, c)
  <2>1. \A c \in Callers : net[p][a][c].rt # mem'[p][a].rt
    BY <1>2
  <2> QED BY <2>1 DEF Stores
<1>4. replaced'[a] = replaced[a]
  BY <1>3, ReplacedIs
<1>5. \A x \in replaced[a] : x \in Nat /\ x <= issued[a]
  BY <1>1 DEF FreshAt
<1>6. mem'[p][a].rt \notin replaced'[a] /\ \A x \in replaced'[a] : x \in Nat /\ x <= issued'[a]
  BY <1>1, <1>2, <1>4, <1>5
<1>7. \A c \in Callers : net'[p][a][c].rt # mem'[p][a].rt
  BY <1>2
<1> QED BY <1>1, <1>4, <1>6, <1>7 DEF FreshAt

LEMMA FreshHere ==
  ASSUME IInv, TypeOK', IssuedInv, AllStored, FreshInv, OneUser, Replaced,
         NEW p \in Procs, NEW a \in Accounts, AccountStep(p, a)
  PROVE  FreshAt(p, a)'
<1>1. TypeOK /\ FreshAt(p, a)
  BY DEF IInv, FreshInv
<1>2. issued[a] \in Nat /\ issued'[a] \in Nat /\ issued[a] <= issued'[a]
  BY FreshNumbers, ServerGrows
<1>3. CASE \E c \in Callers : ServerAnswers(p, a, c)
  BY <1>3, FreshAnswer
<1>4. CASE Login(p, a)
  <2>1. mem'[p][a].rt = issued[a] + 1
    <3> DEFINE m == [status |-> "active", rt |-> issued[a] + 1, token |-> "fresh"]
    <3>1. MemIs(p, [mem[p] EXCEPT ![a] = m])
      BY <1>4 DEF Login
    <3>2. m.rt = issued[a] + 1
      OBVIOUS
    <3> HIDE DEF m
    <3> QED BY <1>1, <3>1, <3>2, EntryChanges
  <2> QED BY <1>4, <2>1, FreshLogin DEF Login
<1>5. ASSUME NEW c \in Callers, (JobTokens(p, a) /\ c = "job") \/ (ProbeTokens(p, a) /\ c = "probe")
      PROVE  FreshAt(p, a)'
  <2>1. Received(p, a, c)
    BY <1>5 DEF JobTokens, ProbeTokens
  <2>2. /\ net'[p][a][c] = NoCall
        /\ \A d \in Callers : d # c => net'[p][a][d] = net[p][a][d]
    BY <1>1, <2>1 DEF Received, TypeOK
  <2>3. mem'[p][a].rt = mem[p][a].rt
        \/ (net[p][a][c].rt # 0 /\ mem'[p][a].rt = net[p][a][c].rt)
    <3>1. UpdateToken(p, a, "fresh", net[p][a][c].rt)
      BY <1>5 DEF JobTokens, ProbeTokens
    <3> QED BY <1>1, <3>1, UpdateTokenMoves
  <2>4. \A d \in Callers : net'[p][a][d] \in {net[p][a][d], NoCall}
    BY <2>2
  <2> QED BY <1>2, <2>2, <2>3, <2>4, FreshStays, FreshReply
<1>6. CASE ~Login(p, a) /\ ~JobTokens(p, a) /\ ~ProbeTokens(p, a)
           /\ ~\E c \in Callers : ServerAnswers(p, a, c)
  <2>1. mem'[p][a].rt = mem[p][a].rt
    <3>1. \/ mem'[p][a].rt = mem[p][a].rt
          \/ SyncFromDisk(p, a)
      BY <1>1, <1>6, TokenMoves
    <3>2. ~SyncFromDisk(p, a)
      BY DEF SyncFromDisk, DiskDiffers, AllStored, Stored
    <3> QED BY <3>1, <3>2
  <2>2. ASSUME NEW c \in Callers, Send(p, a, c, mem[p][a].rt)
        PROVE  FreshAt(p, a)'
    <3> DEFINE v == [NoCall EXCEPT !.sent = mem[p][a].rt]
    <3>1. net' = [net EXCEPT ![p][a][c] = v]
      BY <2>2 DEF Send
    <3> HIDE DEF v
    <3>2. net'[p][a][c] = v /\ \A d \in Callers : d # c => net'[p][a][d] = net[p][a][d]
      BY <1>1, <3>1 DEF TypeOK
    <3> QED BY <2>1, <3>2, FreshSend DEF v
  <2>3. CASE \A c \in Callers : net'[p][a][c] \in {net[p][a][c], NoCall}
    BY <1>2, <2>1, <2>3, FreshStays
  <2>4. CASE FirstAttempt(p, a) \/ NextAttempt(p, a) \/ ProbeStarts(p, a)
    BY <2>2, <2>4 DEF FirstAttempt, NextAttempt, ProbeStarts, Callers
  <2>5. CASE ~FirstAttempt(p, a) /\ ~NextAttempt(p, a) /\ ~ProbeStarts(p, a)
    <3>1. \A c \in Callers : net'[p][a][c] \in {net[p][a][c], NoCall}
      BY <1>1, <1>6, <2>5, RequestMoves
    <3> QED BY <2>3, <3>1
  <2> QED BY <2>4, <2>5
<1> QED BY <1>3, <1>4, <1>5, <1>6 DEF Callers

LEMMA FreshAccountStep ==
  ASSUME IInv, TypeOK', IssuedInv, AllStored, FreshInv, OneUser, Replaced,
         NEW p \in Procs, NEW a \in Accounts, AccountStep(p, a)
  PROVE  FreshInv'
<1> SUFFICES ASSUME NEW b \in Accounts, b # a
             PROVE  FreshAt(p, b)'
  BY FreshHere DEF FreshInv, OneUser, OneProcess
<1>1. mem'[p][b] = mem[p][b] /\ net'[p][b] = net[p][b] /\ issued'[b] = issued[b]
  BY MemMoves, NetFrame, RestFrame DEF EntriesElsewhere, NetElsewhere, RestElsewhere, Other
<1>2. issued[b] \in Nat
  BY FreshNumbers
<1> QED BY <1>1, <1>2, FreshStays

LEMMA FreshLifeStep ==
  ASSUME IInv, TypeOK', IssuedInv, AllStored, AllStored', FreshInv, OneUser, Replaced,
         NEW p \in Procs, LifeStep(p)
  PROVE  FreshInv'
<1> SUFFICES ASSUME NEW b \in Accounts
             PROVE  FreshAt(p, b)'
  BY DEF FreshInv, OneUser, OneProcess
<1>1. TypeOK /\ issued[b] \in Nat
  BY FreshNumbers DEF IInv
<1>2. ASSUME issued' = issued, mem'[p][b].rt = mem[p][b].rt,
             \A c \in Callers : net'[p][b][c] \in {net[p][b][c], NoCall}
      PROVE  FreshAt(p, b)'
  BY <1>1, <1>2, FreshStays
<1>3. CASE Start(p)
  <2>1. mem'[p][b].rt = mem[p][b].rt
    BY <1>3, StartMoves DEF AllStored, Stored
  <2> QED BY <1>2, <1>3, <2>1 DEF Start, server
<1>4. CASE Crash(p) \/ Exit(p)
  <2>1. disk' = disk /\ Gone(p)
    BY <1>4 DEF Crash, Exit
  <2>2. mem'[p][b].rt = mem[p][b].rt
    BY <2>1 DEF AllStored, Stored
  <2>3. \A c \in Callers : net'[p][b][c] = NoCall
    BY <1>1, <2>1 DEF Gone, TypeOK
  <2> QED BY <1>2, <2>1, <2>2, <2>3 DEF Gone, server
<1>5. CASE Stop(p) \/ Flush(p)
  BY <1>2, <1>5 DEF Stop, Flush, server
<1> QED BY <1>3, <1>4, <1>5 DEF LifeStep

LEMMA FreshStep ==
  IInv /\ TypeOK' /\ IssuedInv /\ AllStored /\ AllStored' /\ FreshInv /\ OneUser /\ [HNext]_hvars
    => FreshInv'
<1> SUFFICES ASSUME IInv, TypeOK', IssuedInv, AllStored, AllStored', FreshInv, OneUser,
                    [HNext]_hvars
             PROVE  FreshInv'
  OBVIOUS
<1>1. CASE UNCHANGED hvars
  BY <1>1 DEF hvars, vars, server, FreshInv, FreshAt
<1>2. CASE HNext
  <2>1. Replaced /\ Next
    BY <1>2, HistoryStep DEF Recorded
  <2>2. CASE \E p \in Procs : LifeStep(p)
    BY <2>1, <2>2, FreshLifeStep
  <2>3. CASE \E p \in Procs, a \in Accounts : AccountStep(p, a)
    BY <2>1, <2>3, FreshAccountStep
  <2>4. CASE UNCHANGED <<mem, net, issued>>
    <3> SUFFICES ASSUME NEW p \in Procs, NEW a \in Accounts
                 PROVE  FreshAt(p, a)'
      BY DEF FreshInv
    <3> QED BY <2>1, <2>4, FreshNumbers, FreshStays
  <2>5. CASE (\E a \in Accounts : Revoke(a) \/ LockAges(a)) \/ UNCHANGED vars
    BY <2>4, <2>5 DEF Revoke, LockAges, vars, server
  <2> QED BY <2>1, <2>2, <2>3, <2>5, NextCases
<1> QED BY <1>1, <1>2

LEMMA FreshInit == HInit => FreshInv
<1> SUFFICES ASSUME HInit, NEW p \in Procs, NEW a \in Accounts
             PROVE  FreshAt(p, a)
  BY DEF FreshInv
<1>1. replaced[a] = {} /\ \A c \in Callers : net[p][a][c] = NoCall
  BY DEF HInit, Init
<1> QED BY <1>1 DEF FreshAt, NoCall

\* What is sent is the token of the entry.
LEMMA SendsHeld ==
  ASSUME IInv, [Next]_vars, NEW p \in Procs, NEW a \in Accounts, NEW c \in Callers, Sends(p, a, c)
  PROVE  net'[p][a][c].sent = mem[p][a].rt
<1>1. TypeOK /\ net[p][a][c] = NoCall /\ net'[p][a][c] # NoCall /\ net[p][a][c].sent = 0
  BY DEF IInv, Sends, NoCall
<1>2. ASSUME NEW q \in Procs, LifeStep(q)
      PROVE  FALSE
  <2>1. net' = net \/ Gone(q)
    BY <1>2 DEF LifeStep, Start, Crash, Stop, Exit, Flush
  <2>2. CASE Gone(q)
    <3>1. net'[p][a][c] \in {NoCall, net[p][a][c]}
      BY <1>1, <2>2 DEF Gone, TypeOK
    <3> QED BY <1>1, <3>1
  <2> QED BY <1>1, <2>1, <2>2
<1>3. AccountStep(p, a)
  <2>1. PICK q \in Procs, b \in Accounts : AccountStep(q, b)
    BY <1>1, <1>2, NextCases DEF vars, Revoke, LockAges
  <2>2. ~Other(q, b, p, a)
    BY <1>1, <2>1, NetFrame DEF NetElsewhere
  <2> QED BY <2>1, <2>2 DEF Other
<1>4. ~ServerAnswers(p, a, c)
  BY <1>1 DEF ServerAnswers
<1>5. net'[p][a][c] = [NoCall EXCEPT !.sent = mem[p][a].rt]
  BY <1>1, <1>3, <1>4, RequestMoves
<1> QED BY <1>5 DEF NoCall

\* A refresh token whose successor has been stored is never sent again (RTs
\* are for one use; updateToken, persistNow and loadPersisted), in one process
\* whose saves succeed: through probes and logins beside a refresh, lost
\* replies, deletions, crashes and restarts.  Every reply that brings a token
\* replaces another one, and accounts.json has the token of the entry.
THEOREM NeverSentAgain ==
  ASSUME \A p, q \in Procs : p = q, "savefail" \notin Events
  PROVE  HSpec => NeverReused
<1> DEFINE Action == \A p \in Procs, a \in Accounts, c \in Callers :
                        Sends(p, a, c) => net'[p][a][c].sent \notin replaced[a]
<1>1. OneUser
  BY DEF OneUser, OneProcess
<1>2. IInv => TypeOK
  BY DEF IInv
<1>3. IInv /\ TypeOK' /\ IssuedInv /\ AllStored /\ AllStored' /\ FreshInv /\ [HNext]_hvars
        => FreshInv'
  BY <1>1, FreshStep
<1>4. Spec => []AllStored
  BY <1>1, StoredAlways
<1>5. HSpec => []FreshInv
  BY <1>2, <1>3, <1>4, FreshInit, HistorySpec, InvAlways, IssuedAlways, PTL DEF HSpec
<1>6. IInv /\ FreshInv /\ [HNext]_hvars => [Action]_hvars
  BY HistoryNext, SendsHeld DEF FreshInv, FreshAt
<1>7. HSpec => [][Action]_hvars
  BY <1>5, <1>6, HistorySpec, InvAlways, PTL DEF HSpec
<1> QED BY <1>7 DEF NeverReused

-----------------------------------------------------------------------------
(* An account expires only when its token was refused *)

\* A refusal is of a dead token, and the refresh counts the refusals it has had.
DeadAt(p, a) ==
    /\ \A c \in Callers : net[p][a][c].reply = "refused" => net[p][a][c].sent \notin Good(a)
    /\ refused[p][a] = IF Calling(p, a) THEN Hits(p, a) ELSE 0

DeadInv == \A p \in Procs, a \in Accounts : DeadAt(p, a)

\* A dead token does not become good.
LEMMA DeadForever ==
  ASSUME IInv, TypeOK', IssuedInv, [Next]_vars, NEW b \in Accounts, NEW x \in Nat,
         x <= issued[b], x \notin Good(b)
  PROVE  x \notin Good(b)'
<1>1. /\ issued[b] \in Nat /\ issued'[b] \in Nat
      /\ used[b] \subseteq 1 .. issued[b] /\ revoked[b] \subseteq 1 .. issued[b]
  BY RefreshAssumption DEF IInv, TypeOK, RTs, IssuedInv, ServerKnows
<1>2. used[b] \subseteq used'[b] /\ revoked[b] \subseteq revoked'[b]
  <2>1. CASE UNCHANGED server
    BY <2>1 DEF server
  <2>2. CASE \E p \in Procs, a \in Accounts : AccountStep(p, a)
    BY <2>2, ServerGrows, RestFrame DEF RestElsewhere
  <2>3. CASE \E a \in Accounts : Revoke(a)
    BY <1>1, <2>3 DEF Revoke, IInv, TypeOK
  <2>4. CASE \E p \in Procs : LifeStep(p)
    BY <2>1, <2>4 DEF LifeStep, Start, Crash, Stop, Exit, Flush, Gone
  <2>5. CASE \E a \in Accounts : LockAges(a)
    BY <2>1, <2>5 DEF LockAges
  <2> QED BY <2>1, <2>2, <2>3, <2>4, <2>5, NextCases DEF vars
<1> QED BY <1>1, <1>2 DEF Good

\* A refusal ends the refresh or is one more hit.
LEMMA RefusalMoves ==
  ASSUME IInv, NEW p \in Procs, NEW a \in Accounts, NEW error \in {"permanent", "transient"},
         JobError(p, a, error)
  PROVE  /\ At(p, a) = "call"
         /\ \/ At(p, a)' = "none"
            \/ At(p, a)' = "sleep" /\ Hits(p, a)' = HitsAfter(sched[p].job[a], error)
<1> DEFINE s == sched[p]
           u == ScheduleRecovery(s, a)
           hits == HitsAfter(s.job[a], error)
<1>1. SemaphoreInv /\ SchedOK(s) /\ s \in Sched /\ Differs(s, s, a) /\ At(p, a) \in Holding
  BY DEF IInv, SemaphoreInv, SchedOK, Differs, Moved, Holding, JobError, At
<1>2. SchedOK(u) /\ u.job = s.job /\ Differs(s, u, a)
  BY <1>1, ScheduleRecoveryOK, TimersDiffer
<1>3. \/ SchedIs(p, Ended(s, a)) \/ SchedIs(p, Ended(u, a))
      \/ SchedIs(p, JobIs(s, a, "sleep", s.job[a].attempt, hits))
  BY DEF JobError
<1> HIDE DEF hits, u
<1>4. At(p, a) = "call" /\ At(p, a)' \in {"none", "sleep"}
  BY CallMoves
<1>5. SchedIs(p, JobIs(s, a, "sleep", s.job[a].attempt, hits))
        => At(p, a)' = "sleep" /\ Hits(p, a)' = hits
  BY <1>1, GoesTo
<1>6. SchedIs(p, Ended(s, a)) \/ SchedIs(p, Ended(u, a)) => At(p, a)' = "none"
  BY <1>1, <1>2, EndsAt
<1> QED BY <1>3, <1>4, <1>5, <1>6 DEF hits

\* What becomes of the hits of a refresh that goes on.
LEMMA HitsMove ==
  ASSUME IInv, NEW p \in Procs, NEW a \in Accounts, AccountStep(p, a), Calling(p, a)'
  PROVE  \/ ~Calling(p, a) /\ Hits(p, a)' = 0
         \/ Calling(p, a) /\ Hits(p, a)' = Hits(p, a)
         \/ JobRefused(p, a)
<1>1. TypeOK /\ SemaphoreInv
  BY DEF IInv
<1>2. CASE FirstAttempt(p, a)
  BY <1>1, <1>2, CallMoves, GoesTo DEF FirstAttempt, Calling
<1>3. CASE NextAttempt(p, a)
  <2>1. \E n : SchedIs(p, JobIs(sched[p], a, "call", n, Hits(p, a)))
    BY <1>3 DEF NextAttempt, Hits
  <2>2. Hits(p, a)' = Hits(p, a)
    BY <1>1, <2>1, GoesTo
  <2> QED BY <1>3, <2>2, CallMoves DEF Calling
<1>4. CASE JobFails(p, a)
  <2>1. JobError(p, a, "transient")
    BY <1>4 DEF JobFails
  <2> QED BY <2>1, RefusalMoves DEF Calling, HitsAfter, Hits
<1>5. CASE TimerFires(p, a) \/ StrayFires(p, a) \/ ProbeTokens(p, a) \/ Login(p, a) \/ Delete(p, a)
  BY <1>5, TimerMoves DEF Calling
<1>6. CASE sched' = sched
  BY <1>6 DEF Calling, At, Hits
<1>7. CASE JobTokens(p, a)
  BY <1>7, CallMoves DEF Calling
<1>8. CASE SkipLocked(p, a) \/ LockThrows(p, a) \/ NothingToRefresh(p, a) \/ SyncFromDisk(p, a)
  BY <1>8, GrantedMoves DEF Calling
<1> QED BY <1>2, <1>3, <1>4, <1>5, <1>6, <1>7, <1>8
        DEF AccountStep, JobStep, ServerAnswers, ProbeStarts, ProbeRefused, ProbeFails,
            SetStatus, RequestMarks

\* A request is answered with a refusal only for a dead token.
LEMMA RefusedDead ==
  ASSUME IInv, TypeOK', IssuedInv, DeadInv, [Next]_vars,
         NEW p \in Procs, NEW a \in Accounts, NEW c \in Callers,
         net'[p][a][c].reply = "refused"
  PROVE  net'[p][a][c].sent \notin Good(a)'
<1> DEFINE call == net[p][a][c]
<1>1. TypeOK /\ DeadAt(p, a)
  BY DEF IInv, DeadInv
<1>2. call.sent \notin Good(a) => call.sent \notin Good(a)'
  <2>1. call.sent \in Nat /\ call.sent <= issued[a]
    BY <1>1, Numbers DEF IssuedInv, IssuedAt
  <2> QED BY <2>1, DeadForever
<1>3. NoCall.reply = "none"
  BY DEF NoCall
<1>4. CASE net'[p][a][c] = call
  BY <1>1, <1>2, <1>4 DEF DeadAt
<1>5. CASE AccountStep(p, a)
  <2>1. CASE ServerAnswers(p, a, c)
    BY <1>1, <1>2, <2>1, AnswerMoves
  <2>2. CASE net'[p][a][c] = NoCall \/ net'[p][a][c] = [NoCall EXCEPT !.sent = mem[p][a].rt]
    <3>1. net'[p][a][c].reply = "none"
      BY <2>2 DEF NoCall
    <3> QED BY <3>1
  <2> QED BY <1>1, <1>4, <1>5, <2>1, <2>2, RequestMoves
<1>6. ASSUME NEW q \in Procs, NEW b \in Accounts, AccountStep(q, b), Other(q, b, p, a)
      PROVE  net'[p][a][c] = call
  BY <1>6, NetFrame DEF NetElsewhere
<1>7. ASSUME NEW q \in Procs, LifeStep(q)
      PROVE  net'[p][a][c] \in {NoCall, call}
  <2>1. net' = net \/ Gone(q)
    BY <1>7 DEF LifeStep, Start, Crash, Stop, Exit, Flush
  <2> QED BY <1>1, <2>1 DEF Gone, TypeOK
<1>8. CASE (\E b \in Accounts : Revoke(b) \/ LockAges(b)) \/ UNCHANGED vars
  BY <1>4, <1>8 DEF Revoke, LockAges, vars
<1> QED BY <1>3, <1>4, <1>5, <1>6, <1>7, <1>8, NextCases DEF Other

\* The history counts as the refresh does.
LEMMA RefusedCounts ==
  ASSUME IInv, DeadInv, Refused, Next, NEW p \in Procs, NEW a \in Accounts
  PROVE  refused'[p][a] = IF Calling(p, a)' THEN Hits(p, a)' ELSE 0
<1>1. TypeOK /\ refused[p][a] = IF Calling(p, a) THEN Hits(p, a) ELSE 0
  BY DEF IInv, DeadInv, DeadAt
<1>2. refused'[p][a] = IF ~Calling(p, a)' THEN 0
                       ELSE IF JobRefused(p, a) THEN refused[p][a] + 1 ELSE refused[p][a]
  BY DEF Refused, Calling, At
<1>3. ASSUME JobRefused(p, a), Calling(p, a)'
      PROVE  Calling(p, a) /\ Hits(p, a)' = Hits(p, a) + 1
  <2>1. JobError(p, a, "permanent")
    BY <1>3 DEF JobRefused
  <2> QED BY <1>3, <2>1, RefusalMoves DEF Calling, HitsAfter, Hits
<1> SUFFICES ASSUME ~JobRefused(p, a), Calling(p, a)'
             PROVE  \/ ~Calling(p, a) /\ Hits(p, a)' = 0
                    \/ Calling(p, a) /\ Hits(p, a)' = Hits(p, a)
  BY <1>1, <1>2, <1>3
<1>4. CASE AccountStep(p, a)
  BY <1>4, HitsMove
<1>5. CASE sched'[p].job[a] = sched[p].job[a]
  BY <1>5 DEF Calling, At, Hits
<1>6. ASSUME NEW q \in Procs, NEW b \in Accounts, AccountStep(q, b), Other(q, b, p, a)
      PROVE  sched'[p].job[a] = sched[p].job[a]
  <2>1. Moved(sched[p].job[a], sched'[p].job[a])
    BY <1>6, AllElsewhere DEF JobsElsewhere
  <2> QED BY <2>1 DEF Moved, Calling, At
<1>7. ASSUME NEW q \in Procs, LifeStep(q)
      PROVE  sched'[p].job[a] = sched[p].job[a]
  <2>1. CASE q # p
    BY ZenonT(60), <1>1, <1>7, <2>1
       DEF LifeStep, Start, Crash, Stop, Exit, Flush, Gone, SchedIs, TypeOK
  <2>2. CASE q = p /\ Start(p)
    BY <2>2, StartMoves DEF Calling
  <2>3. CASE q = p /\ (Crash(p) \/ Exit(p))
    BY <1>1, <2>3 DEF Crash, Exit, Gone, SchedIs, TypeOK, IdleSched, NoJob, Calling, At
  <2>4. CASE q = p /\ Stop(p)
    BY <2>4, StopMoves DEF Calling
  <2>5. CASE q = p /\ Flush(p)
    BY <2>5 DEF Flush
  <2> QED BY <1>7, <2>1, <2>2, <2>3, <2>4, <2>5 DEF LifeStep
<1>8. CASE (\E b \in Accounts : Revoke(b) \/ LockAges(b)) \/ UNCHANGED vars
  BY <1>5, <1>8 DEF Revoke, LockAges, vars
<1> QED BY <1>4, <1>5, <1>6, <1>7, <1>8, NextCases DEF Other

LEMMA DeadStep ==
  IInv /\ TypeOK' /\ IssuedInv /\ DeadInv /\ [HNext]_hvars => DeadInv'
<1> SUFFICES ASSUME IInv, TypeOK', IssuedInv, DeadInv, [HNext]_hvars,
                    NEW p \in Procs, NEW a \in Accounts
             PROVE  DeadAt(p, a)'
  BY DEF DeadInv
<1>1. [Next]_vars
  BY HistoryNext
<1>2. \A c \in Callers : net'[p][a][c].reply = "refused" => net'[p][a][c].sent \notin Good(a)'
  BY <1>1, RefusedDead
<1>3. refused'[p][a] = IF Calling(p, a)' THEN Hits(p, a)' ELSE 0
  <2>1. CASE HNext
    BY <2>1, RefusedCounts, HistoryStep DEF Recorded
  <2>2. CASE UNCHANGED hvars
    BY <2>2 DEF hvars, vars, DeadInv, DeadAt, Calling, At, Hits
  <2> QED BY <2>1, <2>2
<1> QED BY <1>2, <1>3 DEF DeadAt

LEMMA DeadInit == HInit => DeadInv
<1> SUFFICES ASSUME HInit, NEW p \in Procs, NEW a \in Accounts
             PROVE  DeadAt(p, a)
  BY DEF DeadInv
<1>1. refused[p][a] = 0 /\ At(p, a) = "none" /\ \A c \in Callers : net[p][a][c] = NoCall
  BY DEF HInit, Init, At, IdleSched, NoJob
<1> QED BY <1>1 DEF DeadAt, Calling, NoCall

\* What the step makes of one account.
LEMMA ExpiresDead ==
  ASSUME IInv, DeadInv, [Next]_vars, NEW q \in Procs, NEW c \in Callers, NEW b \in here[q],
         run[q] = "up", run'[q] = "up", mem[q][b].status # "expired",
         mem'[q][b].status = "expired", net[q][b][c] # NoCall, net'[q][b][c] = NoCall
  PROVE  /\ net[q][b][c].reply = "refused" /\ net[q][b][c].sent \notin Good(b)
         /\ c = "job" => refused[q][b] + 1 >= Threshold
<1>1. TypeOK /\ b \in Accounts /\ DeadAt(q, b)
  BY DEF IInv, TypeOK, DeadInv
<1>2. \A p \in Procs : ~LifeStep(p)
  BY <1>1 DEF LifeStep, Start, Crash, Stop, Exit, Flush, Gone, TypeOK
<1>3. AccountStep(q, b)
  <2>1. PICK p \in Procs, a \in Accounts : AccountStep(p, a)
    BY <1>2, NextCases DEF vars, Revoke, LockAges
  <2>2. ~Other(p, a, q, b)
    BY <1>1, <2>1, NetFrame DEF NetElsewhere
  <2> QED BY <2>1, <2>2 DEF Other
<1>4. ASSUME JobRefused(q, b)
      PROVE  net[q][b]["job"].reply = "refused" /\ refused[q][b] + 1 >= Threshold
  <2>1. net[q][b]["job"].reply = "refused" /\ JobError(q, b, "permanent")
    BY <1>4 DEF JobRefused
  <2>2. CASE HitsAfter(sched[q].job[b], "permanent") >= Threshold
    <3>1. At(q, b) = "call"
      BY <2>1 DEF JobError, At
    <3> QED BY <1>1, <2>1, <2>2, <3>1 DEF DeadAt, Calling, Hits, HitsAfter
  <2>3. CASE ~(HitsAfter(sched[q].job[b], "permanent") >= Threshold)
    <3>1. mem' = mem \/ MarkStatus(q, b, "active")
      BY <2>1, <2>3 DEF JobError
    <3> QED BY <1>1, <3>1, MarkStatusMoves
  <2> QED BY <2>1, <2>2, <2>3
<1>5. ~JobFails(q, b)
  <2> SUFFICES ASSUME JobFails(q, b) PROVE FALSE
    OBVIOUS
  <2>1. JobError(q, b, "transient")
    BY DEF JobFails
  <2>2. mem' = mem \/ MarkStatus(q, b, "active")
    BY <1>1, <2>1, ErrorMoves
  <2> QED BY <1>1, <2>2, MarkStatusMoves
<1>6. ~JobTokens(q, b) /\ ~ProbeTokens(q, b)
  <2>1. \A rt : ~UpdateToken(q, b, "fresh", rt)
    BY <1>1, UpdateTokenMoves DEF Sticky
  <2> QED BY <2>1 DEF JobTokens, ProbeTokens
<1>7. CASE c = "job"
  <2>1. JobRefused(q, b)
    <3>1. \/ JobTokens(q, b) \/ JobRefused(q, b) \/ JobFails(q, b)
          \/ (FirstAttempt(q, b) \/ NextAttempt(q, b)) \/ ServerAnswers(q, b, "job")
      BY <1>1, <1>3, <1>7, RequestMoves
    <3>2. ~FirstAttempt(q, b)
      BY <1>1, MarkStatusMoves DEF FirstAttempt
    <3>3. ~NextAttempt(q, b) /\ ~ServerAnswers(q, b, "job")
      BY DEF NextAttempt, ServerAnswers
    <3> QED BY <1>5, <1>6, <3>1, <3>2, <3>3
  <2> QED BY <1>1, <1>4, <1>7, <2>1 DEF DeadAt
<1>8. CASE c = "probe"
  <2>1. ~Received(q, b, "job") /\ ~Send(q, b, "job", mem[q][b].rt)
    <3>1. /\ q \in Procs /\ net \in [Procs -> [Accounts -> [Callers -> Call]]]
          /\ net'[q][b]["probe"] # net[q][b]["probe"]
      BY <1>1, <1>8 DEF TypeOK
    <3>2. ASSUME NEW x, net' = [net EXCEPT ![q][b]["job"] = x]
          PROVE  FALSE
      BY <1>1, <3>1, <3>2 DEF Callers
    <3> QED BY <3>2 DEF Received, Send
  <2>2. ProbeRefused(q, b)
    <3>1. CASE SkipLocked(q, b) \/ LockThrows(q, b) \/ NothingToRefresh(q, b) \/ SyncFromDisk(q, b)
      BY <1>8, <3>1 DEF SkipLocked, LockThrows, NothingToRefresh, SyncFromDisk
    <3>2. CASE \/ FirstAttempt(q, b) \/ NextAttempt(q, b) \/ JobTokens(q, b)
               \/ JobRefused(q, b) \/ JobFails(q, b)
      BY <2>1, <3>2 DEF FirstAttempt, NextAttempt, JobTokens, JobRefused, JobFails, JobError
    <3>3. CASE TimerFires(q, b) \/ StrayFires(q, b) \/ Login(q, b) \/ Delete(q, b)
      BY <1>8, <3>3 DEF TimerFires, StrayFires, Login, Delete
    <3>4. CASE ProbeStarts(q, b) \/ ProbeFails(q, b)
      BY <3>4 DEF ProbeStarts, ProbeFails
    <3>5. CASE \/ \E s \in {"active", "disabled"} : SetStatus(q, b, s)
               \/ \E s \in {"active", "rate_limited", "expired", "banned"} : RequestMarks(q, b, s)
      BY <1>8, <3>5 DEF SetStatus, RequestMarks
    <3>6. CASE ServerAnswers(q, b, "job") \/ ServerAnswers(q, b, "probe")
      BY <3>6 DEF ServerAnswers
    <3> QED BY <1>3, <1>6, <3>1, <3>2, <3>3, <3>4, <3>5, <3>6 DEF AccountStep, JobStep
  <2> QED BY <1>1, <1>8, <2>2 DEF ProbeRefused, DeadAt
<1> QED BY <1>7, <1>8 DEF Callers

\* An answer makes an account expired only if the server refused the token
\* that was sent as dead, and a refresh only when it has been refused
\* PERMANENT_THRESHOLD times (PERMANENT_ERRORS, permanentHits): in any number
\* of processes, with whatever faults and other actors there are.
THEOREM OnlyTheDeadExpire == HSpec => ExpiredOnlyWhenDead
<1> DEFINE Action == \A p \in Procs, c \in Callers : run[p] = "up" /\ run'[p] = "up" =>
             \A a \in here[p] :
                LET call == net[p][a][c]
                IN  /\ mem[p][a].status # "expired" /\ mem'[p][a].status = "expired"
                    /\ call # NoCall /\ net'[p][a][c] = NoCall
                    => /\ call.reply = "refused" /\ call.sent \notin Good(a)
                       /\ c = "job" => refused[p][a] + 1 >= Threshold
<1>1. IInv => TypeOK
  BY DEF IInv
<1>2. Spec => []IInv /\ []IssuedInv
  BY InvAlways, IssuedAlways
<1>3. HSpec => []DeadInv
  BY <1>1, <1>2, DeadStep, DeadInit, HistorySpec, PTL DEF HSpec
<1>4. IInv /\ DeadInv /\ [HNext]_hvars => [Action]_hvars
  BY HistoryNext, ExpiresDead
<1>5. HSpec => [][Action]_hvars
  BY <1>2, <1>3, <1>4, HistorySpec, PTL DEF HSpec
<1> QED BY <1>5 DEF ExpiredOnlyWhenDead
=============================================================================
