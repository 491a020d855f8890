------------------------ MODULE RefreshSchedulerProofs -----------------------
(***************************************************************************)
(* The types of the refresh scheduler and the exactness of its semaphore,   *)
(* for any sets of processes and accounts and any faults.  The two need     *)
(* each other: running is a natural number because it counts the accounts   *)
(* that hold a slot, and whoever gives a slot back is one of them.          *)
(*                                                                          *)
(* The invariant says more than SemaphoreExact in the states destroy() and  *)
(* a restart leave behind: a process that is stopping still counts its      *)
(* slots but has no queue, and no account is in the queue twice.            *)
(***************************************************************************)
EXTENDS RefreshScheduler, FiniteSetTheorems, SequenceTheorems, TLAPS

Holding == {"granted", "call", "sleep"}
Slots(s) == {a \in Accounts : s.job[a].at \in Holding}
Waiting(s) == {a \in Accounts : s.job[a].at = "queued"}

\* The counter and the queue of a semaphore say what the jobs are doing.
Counted(s) ==
    /\ s.running = Cardinality(Slots(s))
    /\ Waiting(s) = {s.queue[i] : i \in DOMAIN s.queue}
    /\ \A i, j \in DOMAIN s.queue : s.queue[i] = s.queue[j] => i = j

Limited(s) ==
    /\ s.running <= Concurrency
    /\ s.queue # <<>> => s.running = Concurrency

\* A refresh sleeps only if another attempt is left.
AttemptsLeft(s) == \A a \in Accounts : s.job[a].at = "sleep" => s.job[a].attempt < MaxAttempts

SchedOK(s) == s \in Sched /\ Counted(s) /\ AttemptsLeft(s)

SemaphoreInv ==
    /\ sched \in [Procs -> Sched]
    /\ \A p \in Procs :
         /\ SchedOK(sched[p])
         /\ run[p] = "up" => Limited(sched[p])
         /\ run[p] = "stopping" => sched[p].queue = <<>>

IInv == TypeOK /\ SemaphoreInv

-----------------------------------------------------------------------------
(* The operators on a scheduler *)

LEMMA SlotsFinite ==
  ASSUME NEW s
  PROVE  IsFiniteSet(Slots(s)) /\ Cardinality(Slots(s)) \in Nat
<1>1. Slots(s) \in SUBSET Accounts
  BY DEF Slots
<1> QED BY <1>1, RefreshAssumption, FS_Subset, FS_CardinalityType

\* A queue of accounts without the first of them.
LEMMA TailOfQueue ==
  ASSUME NEW q \in Seq(Accounts), q # <<>>
  PROVE  /\ Tail(q) \in Seq(Accounts)
         /\ Head(q) \in Accounts
         /\ Head(q) = q[1] /\ 1 \in DOMAIN q
         /\ DOMAIN Tail(q) = 1 .. Len(q) - 1
         /\ \A i \in 1 .. Len(q) - 1 : Tail(q)[i] = q[i + 1]
         /\ DOMAIN q = 1 .. Len(q) /\ Len(q) \in Nat \ {0}
  OBVIOUS

\* Another timer, or another attempt of a refresh that has a slot, is nothing
\* to the semaphore.
LEMMA SameSemaphore ==
  ASSUME NEW s, NEW t, SchedOK(s), t \in Sched, AttemptsLeft(t),
         t.queue = s.queue, t.running = s.running,
         Slots(t) = Slots(s), Waiting(t) = Waiting(s)
  PROVE  SchedOK(t) /\ (Limited(s) => Limited(t))
  BY DEF SchedOK, Counted, Limited

LEMMA ClearOneOK ==
  ASSUME NEW s, SchedOK(s), NEW a \in Accounts
  PROVE  LET t == ClearOne(s, a)
         IN  SchedOK(t) /\ (Limited(s) => Limited(t))
<1> DEFINE t == ClearOne(s, a)
<1>1. s \in Sched
  BY DEF SchedOK
<1>2. t \in Sched /\ t.queue = s.queue /\ t.running = s.running /\ t.job = s.job
  BY <1>1 DEF Sched, ClearOne
<1>3. AttemptsLeft(t) /\ Slots(t) = Slots(s) /\ Waiting(t) = Waiting(s)
  BY <1>2 DEF SchedOK, AttemptsLeft, Slots, Waiting
<1> QED BY <1>2, <1>3, SameSemaphore

LEMMA ScheduleRecoveryOK ==
  ASSUME NEW s, SchedOK(s), NEW a \in Accounts
  PROVE  LET t == ScheduleRecovery(s, a)
         IN  SchedOK(t) /\ (Limited(s) => Limited(t)) /\ t.job = s.job /\ t.queue = s.queue
<1> DEFINE t == ScheduleRecovery(s, a)
<1>1. s \in Sched
  BY DEF SchedOK
<1>2. t \in Sched /\ t.queue = s.queue /\ t.running = s.running /\ t.job = s.job
  BY <1>1 DEF Sched, ScheduleRecovery
<1>3. AttemptsLeft(t) /\ Slots(t) = Slots(s) /\ Waiting(t) = Waiting(s)
  BY <1>2 DEF SchedOK, AttemptsLeft, Slots, Waiting
<1> QED BY <1>2, <1>3, SameSemaphore

LEMMA JobEntersType ==
  ASSUME NEW s \in Sched, NEW a \in Accounts, NEW at \in {"queued", "granted"}
  PROVE  [s.job EXCEPT ![a].at = at] \in [Accounts -> Job]
  BY DEF Sched, Job

LEMMA DoRefreshOK ==
  ASSUME NEW s, SchedOK(s), NEW a \in Accounts
  PROVE  LET t == DoRefresh(s, a)
         IN  SchedOK(t) /\ (Limited(s) => Limited(t))
<1> DEFINE t == DoRefresh(s, a)
<1> USE RefreshAssumption
<1>1. s \in Sched /\ Counted(s) /\ AttemptsLeft(s)
  BY DEF SchedOK
<1>2. CASE InFlight(s, a)
  BY <1>2 DEF DoRefresh
<1>3. CASE ~InFlight(s, a) /\ s.running < Concurrency
  <2>1. t = [s EXCEPT !.job[a].at = "granted", !.running = @ + 1]
    BY <1>3 DEF DoRefresh
  <2>2. t \in Sched
    <3> DEFINE job == [s.job EXCEPT ![a].at = "granted"]
    <3>1. job \in [Accounts -> Job]
      BY <1>1, JobEntersType
    <3>2. t = [s EXCEPT !.job = job, !.running = s.running + 1]
      BY <2>1
    <3>3. s.running + 1 \in Nat
      BY <1>1 DEF Sched
    <3> HIDE DEF job, t
    <3> QED BY <3>1, <3>2, <3>3, <1>1 DEF Sched
  <2>3. /\ t.running = s.running + 1 /\ t.queue = s.queue
        /\ t.job[a].at = "granted" /\ \A b \in Accounts : b # a => t.job[b] = s.job[b]
    BY <2>1, <1>1 DEF Sched, Job
  <2>4. Slots(t) = Slots(s) \cup {a} /\ a \notin Slots(s)
    BY <2>3, <1>3 DEF Slots, Holding, InFlight
  <2>5. Cardinality(Slots(t)) = Cardinality(Slots(s)) + 1
    BY <2>4, SlotsFinite, FS_AddElement
  <2>6. Waiting(t) = Waiting(s)
    BY <2>3, <1>3 DEF Waiting, InFlight
  <2>7. Counted(t)
    BY <2>3, <2>5, <2>6, <1>1 DEF Counted
  <2>8. AttemptsLeft(t)
    BY <2>3, <1>1 DEF AttemptsLeft
  <2>9. Limited(s) => Limited(t)
    <3>1. s.running \in Nat
      BY <1>1 DEF Sched
    <3> QED BY <2>3, <1>3, <3>1 DEF Limited
  <2> QED BY <2>2, <2>7, <2>8, <2>9 DEF SchedOK
<1>4. CASE ~InFlight(s, a) /\ ~(s.running < Concurrency)
  <2>1. t = [s EXCEPT !.job[a].at = "queued", !.queue = Append(@, a)]
    BY <1>4 DEF DoRefresh
  <2>q. s.queue \in Seq(Accounts) /\ s.running \in Nat
    BY <1>1 DEF Sched
  <2>a. /\ Append(s.queue, a) \in Seq(Accounts)
        /\ DOMAIN s.queue = 1 .. Len(s.queue) /\ Len(s.queue) \in Nat
        /\ DOMAIN Append(s.queue, a) = 1 .. Len(s.queue) + 1
        /\ \A i \in 1 .. Len(s.queue) : Append(s.queue, a)[i] = s.queue[i]
        /\ Append(s.queue, a)[Len(s.queue) + 1] = a
    BY <2>q
  <2>2. t \in Sched
    <3> DEFINE job == [s.job EXCEPT ![a].at = "queued"]
    <3>1. job \in [Accounts -> Job]
      BY <1>1, JobEntersType
    <3>2. t = [s EXCEPT !.job = job, !.queue = Append(s.queue, a)]
      BY <2>1
    <3> HIDE DEF job, t
    <3> QED BY <3>1, <3>2, <2>a, <1>1 DEF Sched
  <2>3. /\ t.running = s.running /\ t.queue = Append(s.queue, a)
        /\ t.job[a].at = "queued" /\ \A b \in Accounts : b # a => t.job[b] = s.job[b]
    BY <2>1, <1>1 DEF Sched, Job
  <2>4. Slots(t) = Slots(s)
    BY <2>3, <1>4 DEF Slots, Holding, InFlight
  <2>5. Waiting(t) = Waiting(s) \cup {a} /\ a \notin Waiting(s)
    BY <2>3, <1>4 DEF Waiting, InFlight
  <2>6. Waiting(t) = {t.queue[i] : i \in DOMAIN t.queue}
    BY <2>3, <2>5, <2>a, <1>1 DEF Counted
  <2>7. \A i \in DOMAIN s.queue : s.queue[i] # a
    BY <2>5, <1>1 DEF Counted
  <2>8. \A i, j \in DOMAIN t.queue : t.queue[i] = t.queue[j] => i = j
    <3> SUFFICES ASSUME NEW i \in DOMAIN t.queue, NEW j \in DOMAIN t.queue,
                        t.queue[i] = t.queue[j]
                 PROVE  i = j
      OBVIOUS
    <3>1. CASE i = Len(s.queue) + 1 \/ j = Len(s.queue) + 1
      BY <3>1, <2>3, <2>a, <2>7
    <3>2. CASE i # Len(s.queue) + 1 /\ j # Len(s.queue) + 1
      <4>1. i \in DOMAIN s.queue /\ j \in DOMAIN s.queue
        BY <3>2, <2>3, <2>a
      <4> QED BY <4>1, <2>3, <2>a, <1>1 DEF Counted
    <3> QED BY <3>1, <3>2
  <2>9. Counted(t)
    BY <2>3, <2>4, <2>6, <2>8, <1>1 DEF Counted
  <2>10. AttemptsLeft(t)
    BY <2>3, <1>1 DEF AttemptsLeft
  <2>11. Limited(s) => Limited(t)
    BY <2>3, <2>q, <1>4 DEF Limited
  <2> QED BY <2>2, <2>9, <2>10, <2>11 DEF SchedOK
<1> QED BY <1>2, <1>3, <1>4

\* Ended without anyone waiting, and with.
LEMMA EndedAlone ==
  ASSUME NEW s, SchedOK(s), NEW a \in Slots(s), s.queue = <<>>
  PROVE  LET t == Ended(s, a)
         IN  /\ SchedOK(t) /\ (Limited(s) => Limited(t))
             /\ t.queue = s.queue
<1> DEFINE t == Ended(s, a)
<1>1. s \in Sched /\ Counted(s) /\ AttemptsLeft(s) /\ a \in Accounts
  BY DEF SchedOK, Slots
<1>2. t = [s EXCEPT !.job = [s.job EXCEPT ![a] = NoJob], !.running = s.running - 1]
  BY DEF Ended
<1>3. Cardinality(Slots(s) \ {a}) = Cardinality(Slots(s)) - 1
      /\ Cardinality(Slots(s) \ {a}) \in Nat
  <2>1. IsFiniteSet(Slots(s) \ {a})
    BY SlotsFinite, FS_RemoveElement
  <2> QED BY <2>1, SlotsFinite, FS_RemoveElement, FS_CardinalityType
<1>4. s.running - 1 \in Nat
  BY <1>1, <1>3 DEF Counted
<1>5. [s.job EXCEPT ![a] = NoJob] \in [Accounts -> Job]
  BY <1>1, RefreshAssumption DEF Sched, Job, NoJob
<1>6. t \in Sched
  <2> DEFINE job == [s.job EXCEPT ![a] = NoJob]
  <2>1. job \in [Accounts -> Job] /\ t = [s EXCEPT !.job = job, !.running = s.running - 1]
    BY <1>2, <1>5
  <2> HIDE DEF job, t
  <2> QED BY <2>1, <1>4, <1>1 DEF Sched
<1>7. /\ t.running = s.running - 1 /\ t.queue = s.queue
      /\ t.job[a] = NoJob /\ \A b \in Accounts : b # a => t.job[b] = s.job[b]
  BY <1>1, <1>2 DEF Sched
<1>8. Slots(t) = Slots(s) \ {a} /\ Waiting(t) = Waiting(s)
  BY <1>7 DEF Slots, Waiting, Holding, NoJob
<1>9. Counted(t)
  BY <1>1, <1>3, <1>7, <1>8 DEF Counted
<1>10. AttemptsLeft(t)
  BY <1>1, <1>7 DEF AttemptsLeft, NoJob
<1>11. Limited(s) => Limited(t)
  <2>1. s.running \in Nat
    BY <1>1 DEF Sched
  <2> QED BY <1>7, <2>1, RefreshAssumption DEF Limited
<1> QED BY <1>6, <1>7, <1>9, <1>10, <1>11 DEF SchedOK

LEMMA EndedWaiting ==
  ASSUME NEW s, SchedOK(s), NEW a \in Slots(s), s.queue # <<>>
  PROVE  LET t == Ended(s, a)
         IN  SchedOK(t) /\ (Limited(s) => Limited(t))
<1> DEFINE t == Ended(s, a)
           h == Head(s.queue)
           job == [[s.job EXCEPT ![a] = NoJob] EXCEPT ![h].at = "granted"]
<1>1. s \in Sched /\ Counted(s) /\ AttemptsLeft(s) /\ a \in Accounts
  BY DEF SchedOK, Slots
<1>2. t = [s EXCEPT !.job = job, !.queue = Tail(s.queue)]
  BY DEF Ended
<1>q. s.queue \in Seq(Accounts) /\ s.running \in Nat
  BY <1>1 DEF Sched
<1>3. h \in Accounts /\ h = s.queue[1]
  BY <1>q, TailOfQueue
<1>4. h \in Waiting(s)
  BY <1>1, <1>3, <1>q, TailOfQueue DEF Counted
<1>5. h # a
  BY <1>4 DEF Slots, Waiting, Holding
<1>6. job \in [Accounts -> Job]
  <2>1. [s.job EXCEPT ![a] = NoJob] \in [Accounts -> Job]
    BY <1>1, RefreshAssumption DEF Sched, Job, NoJob
  <2> HIDE DEF h
  <2> QED BY <2>1, <1>3 DEF Job
<1>7. t \in Sched
  <2>1. Tail(s.queue) \in Seq(Accounts)
    BY <1>q, TailOfQueue
  <2> HIDE DEF job, t
  <2> QED BY <2>1, <1>1, <1>2, <1>6 DEF Sched
<1>8. /\ t.running = s.running /\ t.queue = Tail(s.queue)
      /\ t.job[a] = NoJob /\ t.job[h].at = "granted"
      /\ \A b \in Accounts : b # a /\ b # h => t.job[b] = s.job[b]
  <2>1. t.running = s.running /\ t.queue = Tail(s.queue) /\ t.job = job
    BY <1>1, <1>2 DEF Sched
  <2>2. s.job \in [Accounts -> Job]
    BY <1>1 DEF Sched
  <2> QED BY <2>1, <2>2, <1>1, <1>3, <1>5 DEF Job
<1>9. Slots(t) = (Slots(s) \ {a}) \cup {h} /\ Waiting(t) = Waiting(s) \ {h}
  <2> HIDE DEF h, t
  <2> QED BY <1>1, <1>3, <1>4, <1>5, <1>8 DEF Slots, Waiting, Holding, NoJob
<1>10. Cardinality(Slots(t)) = Cardinality(Slots(s))
  <2>1. h \notin Slots(s) \ {a} /\ IsFiniteSet(Slots(s) \ {a})
        /\ Cardinality(Slots(s) \ {a}) = Cardinality(Slots(s)) - 1
    <3>1. h \notin Slots(s)
      BY <1>4 DEF Slots, Waiting, Holding
    <3> QED BY <3>1, SlotsFinite, FS_RemoveElement
  <2>2. Cardinality(Slots(t)) = Cardinality(Slots(s) \ {a}) + 1
    BY <1>9, <2>1, FS_AddElement
  <2> QED BY <2>1, <2>2, SlotsFinite
<1>11. /\ Waiting(t) = {t.queue[i] : i \in DOMAIN t.queue}
       /\ \A i, j \in DOMAIN t.queue : t.queue[i] = t.queue[j] => i = j
  <2> DEFINE n == Len(s.queue)
  <2>1. /\ n \in Nat \ {0} /\ DOMAIN s.queue = 1 .. n /\ DOMAIN t.queue = 1 .. n - 1
        /\ \A i \in 1 .. n - 1 : t.queue[i] = s.queue[i + 1]
    BY <1>q, <1>8, TailOfQueue
  <2>2. \A i, j \in 1 .. n : s.queue[i] = s.queue[j] => i = j
    BY <1>1, <2>1 DEF Counted
  <2>3. Waiting(s) = {s.queue[i] : i \in 1 .. n}
    BY <1>1, <2>1 DEF Counted
  <2> HIDE DEF n, t, h
  <2>4. \A i \in 1 .. n - 1 : i + 1 \in 1 .. n /\ i + 1 # 1
    BY <2>1
  <2>5. \A i, j \in DOMAIN t.queue : t.queue[i] = t.queue[j] => i = j
    BY <2>1, <2>2, <2>4
  <2>6. ASSUME NEW b \in Waiting(t)
        PROVE  \E i \in DOMAIN t.queue : t.queue[i] = b
    <3>1. PICK i \in 1 .. n : s.queue[i] = b
      BY <2>3, <1>9
    <3>2. i # 1
      BY <3>1, <1>3, <1>9
    <3>3. i - 1 \in 1 .. n - 1 /\ (i - 1) + 1 = i
      BY <3>2, <2>1
    <3> QED BY <3>1, <3>3, <2>1
  <2>7. ASSUME NEW i \in DOMAIN t.queue
        PROVE  t.queue[i] \in Waiting(t)
    <3>1. t.queue[i] = s.queue[i + 1] /\ i + 1 \in 1 .. n /\ i + 1 # 1
      BY <2>1, <2>4
    <3>2. s.queue[i + 1] # h
      BY <3>1, <2>1, <2>2, <1>3
    <3> QED BY <3>1, <3>2, <2>3, <1>9
  <2> QED BY <2>5, <2>6, <2>7
<1>12. Counted(t)
  BY <1>1, <1>8, <1>10, <1>11 DEF Counted
<1>13. AttemptsLeft(t)
  <2> HIDE DEF t, h
  <2> QED BY <1>1, <1>8 DEF AttemptsLeft, NoJob
<1>14. Limited(s) => Limited(t)
  BY <1>8 DEF Limited
<1>15. SchedOK(t) /\ (Limited(s) => Limited(t))
  <2> HIDE DEF t
  <2> QED BY <1>7, <1>12, <1>13, <1>14 DEF SchedOK
<1> QED BY <1>15

LEMMA EndedOK ==
  ASSUME NEW s, SchedOK(s), NEW a \in Slots(s)
  PROVE  LET t == Ended(s, a)
         IN  /\ SchedOK(t) /\ (Limited(s) => Limited(t))
             /\ s.queue = <<>> => t.queue = <<>>
  BY EndedAlone, EndedWaiting

\* An attempt begins or fails.
LEMMA JobIsOK ==
  ASSUME NEW s, SchedOK(s), NEW a \in Slots(s), NEW at \in {"call", "sleep"},
         NEW attempt \in 0 .. MaxAttempts, NEW hits \in 0 .. Threshold,
         at = "sleep" => attempt < MaxAttempts
  PROVE  LET t == JobIs(s, a, at, attempt, hits)
         IN  SchedOK(t) /\ (Limited(s) => Limited(t)) /\ t.queue = s.queue
<1> DEFINE t == JobIs(s, a, at, attempt, hits)
           now == [at |-> at, attempt |-> attempt, hits |-> hits]
<1>1. s \in Sched /\ Counted(s) /\ AttemptsLeft(s) /\ a \in Accounts
  BY DEF SchedOK, Slots
<1>2. t = [s EXCEPT !.job = [s.job EXCEPT ![a] = now]]
  BY DEF JobIs
<1>3. now \in Job
  BY DEF Job
<1>4. now.at = at /\ now.attempt = attempt
  OBVIOUS
<1> HIDE DEF t, now
<1>5. t \in Sched
  BY <1>1, <1>2, <1>3 DEF Sched
<1>6. /\ t.queue = s.queue /\ t.running = s.running
      /\ t.job[a] = now /\ \A b \in Accounts : b # a => t.job[b] = s.job[b]
  BY <1>1, <1>2 DEF Sched
<1>7. Slots(t) = Slots(s) /\ Waiting(t) = Waiting(s)
  BY <1>4, <1>6 DEF Slots, Waiting, Holding
<1>8. AttemptsLeft(t)
  BY <1>1, <1>4, <1>6 DEF AttemptsLeft
<1>9. SchedOK(t) /\ (Limited(s) => Limited(t))
  BY <1>5, <1>6, <1>7, <1>8, SameSemaphore
<1> QED BY <1>6, <1>9 DEF t

LEMMA IntervalSize ==
  ASSUME NEW n \in Nat
  PROVE  IsFiniteSet(1 .. n) /\ Cardinality(1 .. n) = n
<1>1. IsFiniteSet(1 .. n) /\ Cardinality(1 .. n) = IF 1 > n THEN 0 ELSE n - 1 + 1
  <2> QED BY FS_Interval, 1 \in Int, n \in Int
<1> QED BY <1>1

\* The accounts of S in the order scheduleAll comes to them.
Enumerates(order, n, S) ==
    /\ \A i \in 1 .. n : order[i] \in S
    /\ \A i, j \in 1 .. n : order[i] = order[j] => i = j
    /\ \A a \in S : \E i \in 1 .. n : order[i] = a

First(n) == {i \in 1 .. n : i <= Concurrency}

\* The first of them get the slots and the others the places in the queue.
Served(s, S, order, n) ==
    /\ s.running = Cardinality(First(n))
    /\ s.queue = SubSeq(order, Concurrency + 1, n)
    /\ \A a \in Accounts :
          /\ s.job[a].at = "granted" <=> a \in S /\ \E i \in First(n) : order[i] = a
          /\ s.job[a].at = "queued" <=> a \in S /\ \A i \in First(n) : order[i] # a
          /\ s.job[a].at \notin {"call", "sleep"}

\* The queue q has the accounts that remain.
Remain(q, order, n) ==
    /\ q \in Seq(Accounts)
    /\ q # <<>> => Concurrency + 1 <= n
    /\ \A i \in DOMAIN q : \E j \in Concurrency + 1 .. n : q[i] = order[j]
    /\ \A j \in Concurrency + 1 .. n : \E i \in DOMAIN q : q[i] = order[j]
    /\ \A i, j \in DOMAIN q : q[i] = q[j] => i = j

LEMMA QueueOfRest ==
  ASSUME NEW n \in Nat, NEW order, NEW S \in SUBSET Accounts,
         Enumerates(order, n, S), NEW q, q = SubSeq(order, Concurrency + 1, n)
  PROVE  Remain(q, order, n)
<1> USE RefreshAssumption
<1> DEFINE m == Concurrency + 1
<1>1. m \in Int
  OBVIOUS
<1>2. n \in Int
  OBVIOUS
<1>3. \A i \in m .. n : order[i] \in Accounts
  BY DEF Enumerates
<1>4. /\ q \in Seq(Accounts)
      /\ Len(q) = IF m <= n THEN n - m + 1 ELSE 0
      /\ \A i \in 1 .. n - m + 1 : q[i] = order[m + i - 1]
  <2>1. q = SubSeq(order, m, n)
    OBVIOUS
  <2> HIDE DEF m
  <2>2. /\ SubSeq(order, m, n) \in Seq(Accounts)
        /\ Len(SubSeq(order, m, n)) = IF m <= n THEN n - m + 1 ELSE 0
        /\ \A i \in 1 .. n - m + 1 : SubSeq(order, m, n)[i] = order[m + i - 1]
    BY <1>1, <1>2, <1>3, SubSeqProperties
  <2> QED BY <2>1, <2>2
<1>5. DOMAIN q = 1 .. n - Concurrency
  BY <1>4
<1>6. q # <<>> => Concurrency + 1 <= n
  BY <1>4
<1>7. \A i \in 1 .. n - Concurrency : q[i] = order[Concurrency + i] /\ Concurrency + i \in Concurrency + 1 .. n
  BY <1>4
<1>8. \A i \in Concurrency + 1 .. n : i - Concurrency \in 1 .. n - Concurrency /\ q[i - Concurrency] = order[i]
  BY <1>4
<1>9. \A i, j \in DOMAIN q : q[i] = q[j] => i = j
  <2> SUFFICES ASSUME NEW i \in 1 .. n - Concurrency, NEW j \in 1 .. n - Concurrency, q[i] = q[j]
               PROVE  i = j
    BY <1>5
  <2>1. order[Concurrency + i] = order[Concurrency + j] /\ Concurrency + i \in 1 .. n /\ Concurrency + j \in 1 .. n
    BY <1>7
  <2>2. Concurrency + i = Concurrency + j
    BY <2>1 DEF Enumerates
  <2> QED BY <2>2
<1>10. \A i \in DOMAIN q : \E j \in Concurrency + 1 .. n : q[i] = order[j]
  BY <1>5, <1>7
<1>11. \A j \in Concurrency + 1 .. n : \E i \in DOMAIN q : q[i] = order[j]
  BY <1>5, <1>8
<1> QED BY <1>4, <1>6, <1>9, <1>10, <1>11 DEF Remain

LEMMA FirstFinite ==
  ASSUME NEW n \in Nat
  PROVE  /\ IsFiniteSet(First(n)) /\ Cardinality(First(n)) \in Nat
         /\ Cardinality(First(n)) <= Concurrency
         /\ Concurrency + 1 <= n => Cardinality(First(n)) = Concurrency
<1>c. Concurrency \in Nat \ {0}
  BY RefreshAssumption
<1>1. First(n) \in SUBSET (1 .. Concurrency)
  BY <1>c DEF First
<1>2. IsFiniteSet(1 .. Concurrency) /\ Cardinality(1 .. Concurrency) = Concurrency
  BY <1>c, IntervalSize
<1>3. /\ IsFiniteSet(First(n)) /\ Cardinality(First(n)) \in Nat
      /\ Cardinality(First(n)) <= Concurrency
  BY <1>1, <1>2, FS_Subset, FS_CardinalityType
<1>4. ASSUME Concurrency + 1 <= n
      PROVE  First(n) = 1 .. Concurrency
  BY <1>c, <1>4 DEF First
<1> QED BY <1>2, <1>3, <1>4

LEMMA ServedCounts ==
  ASSUME NEW S \in SUBSET Accounts, NEW n \in Nat, NEW order, NEW s,
         Enumerates(order, n, S), Served(s, S, order, n)
  PROVE  /\ s.running \in Nat /\ s.queue \in Seq(Accounts)
         /\ Counted(s) /\ AttemptsLeft(s) /\ Limited(s)
<1>c. Concurrency \in Nat \ {0}
  BY RefreshAssumption
<1>1. Slots(s) = {order[i] : i \in First(n)}
  <2>1. \A i \in First(n) : order[i] \in S /\ order[i] \in Accounts
    BY DEF Enumerates, First
  <2>2. Slots(s) = {a \in Accounts : s.job[a].at = "granted"}
    BY DEF Served, Slots, Holding
  <2> QED BY <2>1, <2>2 DEF Served
<1>2. Cardinality(Slots(s)) = Cardinality(First(n))
  <2> DEFINE f == [i \in First(n) |-> order[i]]
  <2>1. f \in Bijection(First(n), Slots(s))
    BY <1>1 DEF Bijection, Injection, Surjection, IsInjective, Enumerates, First
  <2> QED BY <2>1, FirstFinite, FS_Bijection DEF ExistsBijection
<1>3. \A a \in Waiting(s) : \E i \in Concurrency + 1 .. n : order[i] = a
  <2>1. \A i \in 1 .. n : i \notin First(n) => i \in Concurrency + 1 .. n
    BY <1>c DEF First
  <2> QED BY <2>1 DEF Waiting, Served, Enumerates
<1>4. \A i \in Concurrency + 1 .. n : order[i] \in Waiting(s)
  <2>1. \A i \in Concurrency + 1 .. n : i \in 1 .. n /\ i \notin First(n)
    BY <1>c DEF First
  <2>2. \A i \in Concurrency + 1 .. n : \A j \in First(n) : order[j] # order[i]
    BY <2>1 DEF Enumerates, First
  <2> QED BY <2>1, <2>2 DEF Waiting, Served, Enumerates
<1> DEFINE q == s.queue
<1>5. q = SubSeq(order, Concurrency + 1, n)
  BY DEF Served
<1> HIDE DEF q
<1>6. Remain(q, order, n)
  BY <1>5, QueueOfRest
<1>7. Waiting(s) = {q[i] : i \in DOMAIN q}
  <2>1. \A a \in Waiting(s) : \E i \in DOMAIN q : q[i] = a
    BY SMTT(60), <1>3, <1>6 DEF Remain
  <2>2. \A i \in DOMAIN q : q[i] \in Waiting(s)
    BY <1>4, <1>6 DEF Remain
  <2> QED BY <2>1, <2>2
<1>8. Counted(s)
  BY <1>2, <1>6, <1>7 DEF Counted, Served, Remain, q
<1>9. AttemptsLeft(s)
  BY DEF AttemptsLeft, Served
<1>10. Limited(s) /\ s.running \in Nat
  BY <1>6, FirstFinite DEF Limited, Served, Remain, q
<1> QED BY <1>6, <1>8, <1>9, <1>10 DEF Remain, q

\* What scheduleAll makes of the scheduler, as Start says it.
AllScheduled(s, S, order) ==
    LET first == {i \in DOMAIN order : i <= Concurrency}
    IN  /\ s.running = Cardinality(first)
        /\ s.queue = SubSeq(order, Concurrency + 1, Len(order))
        /\ s.job = [a \in Accounts |->
                      CASE a \notin S -> NoJob
                        [] \E i \in first : order[i] = a -> [NoJob EXCEPT !.at = "granted"]
                        [] OTHER -> [NoJob EXCEPT !.at = "queued"]]

LEMMA AllScheduledOK ==
  ASSUME NEW S \in SUBSET Accounts,
         NEW order \in [1 .. Cardinality(S) -> S],
         \A a \in S : \E i \in DOMAIN order : order[i] = a,
         NEW s, AllScheduled(s, S, order)
  PROVE  /\ s.running \in Nat /\ s.queue \in Seq(Accounts) /\ s.job \in [Accounts -> Job]
         /\ Counted(s) /\ AttemptsLeft(s) /\ Limited(s)
<1> DEFINE n == Cardinality(S)
           first == {i \in DOMAIN order : i <= Concurrency}
<1>1. IsFiniteSet(S) /\ n \in Nat
  BY RefreshAssumption, FS_Subset, FS_CardinalityType
<1>2. DOMAIN order = 1 .. n /\ Len(order) = n
  <2>1. DOMAIN order = 1 .. n
    OBVIOUS
  <2>2. Len(order) = n
    BY <1>1
  <2> QED BY <2>1, <2>2
<1>3. Enumerates(order, n, S)
  <2>1. order \in Surjection(1 .. n, S)
    BY <1>2 DEF Surjection
  <2>2. IsFiniteSet(1 .. n) /\ Cardinality(1 .. n) = n
    BY <1>1, IntervalSize
  <2>3. order \in Injection(1 .. n, S)
    BY <2>1, <2>2, FS_SurjSameCardinalityImpliesInj
  <2> QED BY <2>3, <1>2 DEF Injection, IsInjective, Enumerates
<1>4. /\ first = First(n)
      /\ s.queue = SubSeq(order, Concurrency + 1, n)
  BY <1>2 DEF First, AllScheduled
<1>5. \A a \in Accounts :
        /\ s.job[a].at = "granted" <=> a \in S /\ \E i \in first : order[i] = a
        /\ s.job[a].at = "queued" <=> a \in S /\ \A i \in first : order[i] # a
        /\ s.job[a].at \notin {"call", "sleep"}
        /\ s.job[a] \in Job
  <2> SUFFICES ASSUME NEW a \in Accounts
               PROVE  /\ s.job[a].at = "granted" <=> a \in S /\ \E i \in first : order[i] = a
                      /\ s.job[a].at = "queued" <=> a \in S /\ \A i \in first : order[i] # a
                      /\ s.job[a].at \notin {"call", "sleep"}
                      /\ s.job[a] \in Job
    OBVIOUS
  <2>s. s.job[a] = CASE a \notin S -> NoJob
                     [] \E i \in first : order[i] = a -> [NoJob EXCEPT !.at = "granted"]
                     [] OTHER -> [NoJob EXCEPT !.at = "queued"]
    BY DEF AllScheduled
  <2> HIDE DEF first
  <2>1. CASE a \notin S
    <3>1. ~\E i \in first : order[i] = a
      BY <2>1, <1>3, <1>4 DEF Enumerates, First
    <3>2. s.job[a] = NoJob
      BY <2>s, <2>1, <3>1
    <3> QED BY <2>1, <3>1, <3>2, RefreshAssumption DEF NoJob, Job
  <2>2. CASE a \in S /\ \E i \in first : order[i] = a
    BY <2>s, <2>2, RefreshAssumption DEF NoJob, Job
  <2>3. CASE a \in S /\ ~\E i \in first : order[i] = a
    BY <2>s, <2>3, RefreshAssumption DEF NoJob, Job
  <2> QED BY <2>1, <2>2, <2>3
<1>6. s.job \in [Accounts -> Job]
  BY <1>5 DEF AllScheduled
<1>7. Served(s, S, order, n)
  BY <1>4, <1>5 DEF Served, AllScheduled
<1> HIDE DEF n
<1> QED BY <1>1, <1>3, <1>6, <1>7, ServedCounts

-----------------------------------------------------------------------------
(* The semaphore *)

LEMMA IdleOK == SchedOK(IdleSched) /\ Limited(IdleSched) /\ IdleSched.queue = <<>>
<1> DEFINE s == IdleSched
<1>1. /\ s.queue = <<>> /\ s.running = 0 /\ \A a \in Accounts : s.job[a].at = "none"
      /\ DOMAIN s.queue = {}
  BY DEF IdleSched, NoJob
<1>2. s \in Sched
  BY RefreshAssumption DEF IdleSched, Sched, Job, NoJob
<1>3. Slots(s) = {} /\ Waiting(s) = {}
  BY <1>1 DEF Slots, Waiting, Holding
<1>4. Counted(s) /\ AttemptsLeft(s) /\ Limited(s)
  BY <1>1, <1>3, FS_EmptySet, RefreshAssumption DEF Counted, AttemptsLeft, Limited
<1> QED BY <1>1, <1>2, <1>4 DEF SchedOK

\* A step of process p that leaves its scheduler in a sound state s.
LEMMA SchedIsOK ==
  ASSUME TypeOK, SemaphoreInv, NEW p \in Procs, NEW s, SchedIs(p, s), run' = run,
         SchedOK(s), Limited(sched[p]) => Limited(s),
         run[p] = "stopping" => s.queue = <<>>
  PROVE  SemaphoreInv'
<1>1. /\ sched'[p] = s /\ \A q \in Procs : q # p => sched'[q] = sched[q]
      /\ sched' \in [Procs -> Sched]
  BY DEF SchedIs, SemaphoreInv, SchedOK
<1> SUFFICES ASSUME NEW q \in Procs
             PROVE  /\ SchedOK(sched'[q])
                    /\ run[q] = "up" => Limited(sched'[q])
                    /\ run[q] = "stopping" => sched'[q].queue = <<>>
  BY <1>1 DEF SemaphoreInv
<1>2. CASE q = p
  BY <1>1, <1>2 DEF SemaphoreInv
<1>3. CASE q # p
  BY <1>1, <1>3 DEF SemaphoreInv
<1> QED BY <1>2, <1>3

\* The same for a process whose life goes on or ends.
LEMMA LifeOK ==
  ASSUME TypeOK, SemaphoreInv, NEW p \in Procs, NEW s, SchedIs(p, s),
         NEW r, run' = [run EXCEPT ![p] = r],
         SchedOK(s), r = "up" => Limited(s), r = "stopping" => s.queue = <<>>
  PROVE  SemaphoreInv'
<1>1. /\ sched'[p] = s /\ \A q \in Procs : q # p => sched'[q] = sched[q]
      /\ sched' \in [Procs -> Sched]
      /\ run'[p] = r /\ \A q \in Procs : q # p => run'[q] = run[q]
  BY DEF SchedIs, SemaphoreInv, SchedOK, TypeOK
<1> SUFFICES ASSUME NEW q \in Procs
             PROVE  /\ SchedOK(sched'[q])
                    /\ run'[q] = "up" => Limited(sched'[q])
                    /\ run'[q] = "stopping" => sched'[q].queue = <<>>
  BY <1>1 DEF SemaphoreInv
<1>2. CASE q = p
  BY <1>1, <1>2
<1>3. CASE q # p
  BY <1>1, <1>3 DEF SemaphoreInv
<1> QED BY <1>2, <1>3

\* A refresh of process p ends, with its recovery timer set or without.
LEMMA JobEnds ==
  ASSUME TypeOK, SemaphoreInv, NEW p \in Procs, NEW a \in Accounts, run' = run,
         sched[p].job[a].at \in Holding,
         \/ SchedIs(p, Ended(sched[p], a))
         \/ SchedIs(p, Ended(ScheduleRecovery(sched[p], a), a))
  PROVE  SemaphoreInv'
<1> DEFINE s == sched[p]
<1>1. SchedOK(s) /\ (run[p] = "stopping" => s.queue = <<>>) /\ a \in Slots(s)
  BY DEF SemaphoreInv, Slots
<1> HIDE DEF s
<1>2. CASE SchedIs(p, Ended(s, a))
  <2>1. /\ SchedOK(Ended(s, a)) /\ (Limited(s) => Limited(Ended(s, a)))
        /\ s.queue = <<>> => Ended(s, a).queue = <<>>
    BY <1>1, EndedOK
  <2> QED BY <1>1, <1>2, <2>1, SchedIsOK DEF s
<1>3. CASE SchedIs(p, Ended(ScheduleRecovery(s, a), a))
  <2> DEFINE u == ScheduleRecovery(s, a)
  <2>1. SchedOK(u) /\ (Limited(s) => Limited(u)) /\ u.queue = s.queue /\ u.job = s.job
    BY <1>1, ScheduleRecoveryOK
  <2>2. a \in Slots(u)
    BY <1>1, <2>1 DEF Slots
  <2> HIDE DEF u
  <2>3. /\ SchedOK(Ended(u, a)) /\ (Limited(u) => Limited(Ended(u, a)))
        /\ u.queue = <<>> => Ended(u, a).queue = <<>>
    BY <2>1, <2>2, EndedOK
  <2>4. SchedIs(p, Ended(u, a))
    BY <1>3 DEF u
  <2> QED BY <1>1, <2>1, <2>3, <2>4, SchedIsOK DEF s
<1> QED BY <1>2, <1>3 DEF s

\* scheduleOne, in a process that runs.
LEMMA ScheduleOneOK ==
  ASSUME NEW s, SchedOK(s), NEW a \in Accounts, NEW tok
  PROVE  LET t == ScheduleOne(s, a, tok)
         IN  /\ SchedOK(t) /\ (Limited(s) => Limited(t))
             /\ InFlight(s, a) => t.job = s.job /\ t.queue = s.queue
             /\ tok = "fresh" => t.job = s.job /\ t.queue = s.queue
<1> DEFINE t == ScheduleOne(s, a, tok)
           u == ClearOne(s, a)
<1>1. s \in Sched
  BY DEF SchedOK
<1>2. CASE tok = "fresh"
  <2>1. t = [s EXCEPT !.timer[a] = "refresh"]
    BY <1>2 DEF ScheduleOne
  <2>2. t \in Sched /\ t.queue = s.queue /\ t.running = s.running /\ t.job = s.job
    <3> HIDE DEF t
    <3> QED BY <1>1, <2>1 DEF Sched
  <2>3. AttemptsLeft(t) /\ Slots(t) = Slots(s) /\ Waiting(t) = Waiting(s)
    BY <2>2 DEF SchedOK, AttemptsLeft, Slots, Waiting
  <2> QED BY <2>2, <2>3, SameSemaphore
<1>3. CASE tok # "fresh"
  <2>1. t = DoRefresh(u, a)
    BY <1>3 DEF ScheduleOne
  <2>2. SchedOK(u) /\ (Limited(s) => Limited(u))
    BY ClearOneOK
  <2>3. u.job = s.job /\ u.queue = s.queue
    BY <1>1 DEF ClearOne, Sched
  <2> HIDE DEF u
  <2>4. SchedOK(t) /\ (Limited(u) => Limited(t))
    BY <2>1, <2>2, DoRefreshOK
  <2>5. ASSUME InFlight(s, a)
        PROVE  t.job = s.job /\ t.queue = s.queue
    BY <2>1, <2>3, <2>5 DEF InFlight, DoRefresh
  <2> QED BY <1>3, <2>2, <2>4, <2>5
<1> QED BY <1>2, <1>3

LEMMA StartSemaphore ==
  ASSUME IInv, NEW p \in Procs, Start(p)
  PROVE  SemaphoreInv'
<1> USE DEF IInv
<1>1. PICK late \in SUBSET saved :
        LET loaded == [a \in Accounts |->
                          IF a \in late THEN [disk[a] EXCEPT !.token = "due"] ELSE disk[a]]
            eligible == {a \in saved : loaded[a].rt # 0 /\ loaded[a].status \notin Sticky}
            atOnce == {a \in eligible :
                          \/ loaded[a].status = "refreshing"
                          \/ loaded[a].status # "expired" /\ loaded[a].token = "due"}
        IN  \E order \in [1 .. Cardinality(atOnce) -> atOnce] :
              /\ \A a \in atOnce : \E i \in DOMAIN order : order[i] = a
              /\ LET first == {i \in DOMAIN order : i <= Concurrency}
                 IN  SchedIs(p,
                      [timer |-> [a \in Accounts |->
                          CASE a \notin eligible \/ a \in atOnce -> "none"
                            [] loaded[a].status = "expired" -> "recovery"
                            [] OTHER -> "refresh"],
                       stray |-> {},
                       job |-> [a \in Accounts |->
                          CASE a \notin atOnce -> NoJob
                            [] \E i \in first : order[i] = a -> [NoJob EXCEPT !.at = "granted"]
                            [] OTHER -> [NoJob EXCEPT !.at = "queued"]],
                       queue |-> SubSeq(order, Concurrency + 1, Len(order)),
                       running |-> Cardinality(first)])
  BY DEF Start
<1> DEFINE loaded == [a \in Accounts |->
                         IF a \in late THEN [disk[a] EXCEPT !.token = "due"] ELSE disk[a]]
           eligible == {a \in saved : loaded[a].rt # 0 /\ loaded[a].status \notin Sticky}
           atOnce == {a \in eligible :
                         \/ loaded[a].status = "refreshing"
                         \/ loaded[a].status # "expired" /\ loaded[a].token = "due"}
           timers == [a \in Accounts |->
                         CASE a \notin eligible \/ a \in atOnce -> "none"
                           [] loaded[a].status = "expired" -> "recovery"
                           [] OTHER -> "refresh"]
<1>2. atOnce \in SUBSET Accounts
  BY DEF TypeOK
<1>3. timers \in [Accounts -> {"none", "refresh", "recovery"}]
  OBVIOUS
<1>4. PICK order \in [1 .. Cardinality(atOnce) -> atOnce] :
        /\ \A a \in atOnce : \E i \in DOMAIN order : order[i] = a
        /\ LET first == {i \in DOMAIN order : i <= Concurrency}
           IN  SchedIs(p,
                [timer |-> timers,
                 stray |-> {},
                 job |-> [a \in Accounts |->
                    CASE a \notin atOnce -> NoJob
                      [] \E i \in first : order[i] = a -> [NoJob EXCEPT !.at = "granted"]
                      [] OTHER -> [NoJob EXCEPT !.at = "queued"]],
                 queue |-> SubSeq(order, Concurrency + 1, Len(order)),
                 running |-> Cardinality(first)])
  BY <1>1
<1> HIDE DEF timers, atOnce, eligible, loaded
<1> DEFINE first == {i \in DOMAIN order : i <= Concurrency}
           jobs == [a \in Accounts |->
                       CASE a \notin atOnce -> NoJob
                         [] \E i \in first : order[i] = a -> [NoJob EXCEPT !.at = "granted"]
                         [] OTHER -> [NoJob EXCEPT !.at = "queued"]]
           waiting == SubSeq(order, Concurrency + 1, Len(order))
           s == [timer |-> timers, stray |-> {}, job |-> jobs, queue |-> waiting,
                 running |-> Cardinality(first)]
<1>5. SchedIs(p, s)
  BY <1>4
<1>6. s.job = jobs /\ s.queue = waiting /\ s.running = Cardinality(first)
      /\ s.timer = timers /\ s.stray = {}
  OBVIOUS
<1>7. /\ s.running \in Nat /\ s.queue \in Seq(Accounts) /\ s.job \in [Accounts -> Job]
      /\ Counted(s) /\ AttemptsLeft(s) /\ Limited(s)
  <2>1. AllScheduled(s, atOnce, order)
    BY <1>6 DEF AllScheduled
  <2> HIDE DEF s
  <2> QED BY <1>2, <1>4, <2>1, AllScheduledOK
<1>8. s \in Sched
  <2> HIDE DEF jobs, waiting, first
  <2> QED BY <1>3, <1>6, <1>7 DEF Sched
<1>9. run' = [run EXCEPT ![p] = "up"]
  BY DEF Start
<1> HIDE DEF s
<1> QED BY <1>5, <1>7, <1>8, <1>9, LifeOK DEF SchedOK

\* As many accounts wait as the queue is long.
LEMMA QueueLength ==
  ASSUME NEW s, SchedOK(s)
  PROVE  Cardinality(Waiting(s)) = Len(s.queue)
<1> DEFINE q == s.queue
           n == Len(q)
<1>1. q \in Seq(Accounts)
  BY DEF SchedOK, Sched
<1>2. Waiting(s) = {q[i] : i \in DOMAIN q} /\ \A i, j \in DOMAIN q : q[i] = q[j] => i = j
  BY DEF SchedOK, Counted
<1> HIDE DEF q
<1>3. DOMAIN q = 1 .. n /\ n \in Nat
  BY <1>1
<1>4. q \in Bijection(1 .. n, Waiting(s))
  <2>1. q \in [1 .. n -> Waiting(s)]
    BY <1>1, <1>2, <1>3
  <2> HIDE DEF n
  <2> QED BY <2>1, <1>2, <1>3 DEF Bijection, Injection, Surjection, IsInjective
<1>5. ExistsBijection(1 .. n, Waiting(s))
  BY <1>4 DEF ExistsBijection
<1>6. Cardinality(Waiting(s)) = Cardinality(1 .. n)
  BY <1>3, <1>5, IntervalSize, FS_Bijection
<1> QED BY <1>3, <1>6, IntervalSize DEF q

LEMMA StopSemaphore ==
  ASSUME IInv, NEW p \in Procs, Stop(p)
  PROVE  SemaphoreInv'
<1> DEFINE old == sched[p]
           jobs == [a \in Accounts |-> IF old.job[a].at = "queued"
                                       THEN [NoJob EXCEPT !.at = "granted"] ELSE NoJob]
           s == [IdleSched EXCEPT !.job = jobs, !.running = Len(old.queue)]
<1>1. SchedIs(p, s) /\ run' = [run EXCEPT ![p] = "stopping"]
  BY DEF Stop
<1>2. SchedOK(old)
  BY DEF IInv, SemaphoreInv
<1>3. old.queue \in Seq(Accounts)
  BY <1>2 DEF SchedOK, Sched
<1> HIDE DEF old
<1>4. /\ s.job = jobs /\ s.queue = <<>> /\ s.running = Len(old.queue)
      /\ s.timer = IdleSched.timer /\ s.stray = IdleSched.stray
  BY DEF IdleSched
<1>5. \A a \in Accounts :
        /\ s.job[a] \in Job
        /\ s.job[a].at = IF a \in Waiting(old) THEN "granted" ELSE "none"
  BY <1>4, RefreshAssumption DEF Waiting, NoJob, Job
<1>6. s \in Sched
  <2>1. jobs \in [Accounts -> Job] /\ Len(old.queue) \in Nat
    BY <1>3, <1>4, <1>5
  <2>2. IdleSched \in Sched
    BY IdleOK DEF SchedOK
  <2> HIDE DEF jobs
  <2> QED BY <2>1, <2>2 DEF Sched
<1> HIDE DEF s
<1>7. Slots(s) = Waiting(old) /\ Waiting(s) = {}
  BY <1>5 DEF Slots, Waiting, Holding
<1>8. Cardinality(Waiting(old)) = Len(old.queue)
  BY <1>2, <1>3, QueueLength
<1>9. Counted(s)
  <2>1. DOMAIN s.queue = {}
    BY <1>4
  <2> QED BY <1>4, <1>7, <1>8, <2>1 DEF Counted
<1>10. AttemptsLeft(s)
  BY <1>5 DEF AttemptsLeft
<1> QED BY <1>1, <1>4, <1>6, <1>9, <1>10, LifeOK DEF SchedOK, IInv

\* JobError in one of its three outcomes.
LEMMA JobErrorSemaphore ==
  ASSUME IInv, NEW p \in Procs, NEW a \in Accounts, NEW error \in {"permanent", "transient"},
         JobError(p, a, error)
  PROVE  SemaphoreInv'
<1> DEFINE job == sched[p].job[a]
           hits == HitsAfter(job, error)
<1>1. TypeOK /\ SemaphoreInv /\ SchedOK(sched[p]) /\ run' = run
  BY DEF IInv, SemaphoreInv, JobError
<1>2. job.at = "call" /\ job \in Job
  BY <1>1 DEF JobError, SchedOK, Sched
<1>3. a \in Slots(sched[p])
  BY <1>2 DEF Slots, Holding
<1>4. \/ SchedIs(p, Ended(sched[p], a))
      \/ SchedIs(p, Ended(ScheduleRecovery(sched[p], a), a))
      \/ /\ ~(error = "permanent" /\ hits >= Threshold)
         /\ job.attempt < MaxAttempts
         /\ SchedIs(p, JobIs(sched[p], a, "sleep", job.attempt, hits))
  BY DEF JobError
<1>5. CASE \/ SchedIs(p, Ended(sched[p], a))
           \/ SchedIs(p, Ended(ScheduleRecovery(sched[p], a), a))
  BY <1>1, <1>2, <1>5, JobEnds DEF Holding
<1>6. CASE /\ ~(error = "permanent" /\ hits >= Threshold)
           /\ job.attempt < MaxAttempts
           /\ SchedIs(p, JobIs(sched[p], a, "sleep", job.attempt, hits))
  <2>1. hits \in 0 .. Threshold /\ job.attempt \in 0 .. MaxAttempts
    <3> HIDE DEF job
    <3> QED BY <1>2, <1>6, RefreshAssumption DEF Job, HitsAfter
  <2> DEFINE t == JobIs(sched[p], a, "sleep", job.attempt, hits)
  <2> HIDE DEF hits, job
  <2>2. SchedOK(t) /\ (Limited(sched[p]) => Limited(t)) /\ t.queue = sched[p].queue
    BY <1>1, <1>3, <1>6, <2>1, JobIsOK
  <2>3. run[p] = "stopping" => t.queue = <<>>
    BY <1>1, <2>2 DEF SemaphoreInv
  <2>4. SchedIs(p, t)
    BY <1>6
  <2> HIDE DEF t
  <2> QED BY <1>1, <2>2, <2>3, <2>4, SchedIsOK
<1> QED BY <1>4, <1>5, <1>6

\* A timer of process p fires, or is set or cleared.
LEMMA TimersSemaphore ==
  ASSUME IInv, NEW p \in Procs, NEW a \in Accounts,
         TimerFires(p, a) \/ StrayFires(p, a) \/ ProbeTokens(p, a) \/ Login(p, a) \/ Delete(p, a)
  PROVE  SemaphoreInv'
<1> DEFINE s == sched[p]
<1>1. TypeOK /\ SemaphoreInv /\ SchedOK(s) /\ s \in Sched /\ run' = run /\ run[p] = "up"
  BY DEF IInv, SemaphoreInv, SchedOK, TimerFires, StrayFires, ProbeTokens, Login, Delete
<1>2. \E t : SchedIs(p, t) /\ SchedOK(t) /\ (Limited(s) => Limited(t))
  <2>1. CASE TimerFires(p, a)
    <3>1. SchedIs(p, DoRefresh(ClearOne(s, a), a))
      BY <2>1 DEF TimerFires
    <3> HIDE DEF s
    <3> QED BY <1>1, <3>1, ClearOneOK, DoRefreshOK
  <2>2. CASE StrayFires(p, a)
    <3> DEFINE u == ClearOne(s, a)
               v == [u EXCEPT !.stray = IF s.timer[a] = "none" THEN @ \ {a} ELSE @]
    <3>1. SchedIs(p, DoRefresh(v, a))
      BY <2>2 DEF StrayFires
    <3> HIDE DEF s
    <3>2. SchedOK(u) /\ (Limited(s) => Limited(u))
      BY <1>1, ClearOneOK
    <3>3. u \in Sched
      BY <3>2 DEF SchedOK
    <3> HIDE DEF u
    <3>4. v \in Sched /\ v.queue = u.queue /\ v.running = u.running /\ v.job = u.job
      BY <3>3 DEF Sched
    <3> HIDE DEF v
    <3>5. AttemptsLeft(v) /\ Slots(v) = Slots(u) /\ Waiting(v) = Waiting(u)
      BY <3>2, <3>4 DEF SchedOK, AttemptsLeft, Slots, Waiting
    <3>6. SchedOK(v) /\ (Limited(u) => Limited(v))
      BY <3>2, <3>4, <3>5, SameSemaphore
    <3> QED BY <3>1, <3>2, <3>6, DoRefreshOK
  <2>3. CASE ProbeTokens(p, a) \/ Login(p, a)
    <3>1. SchedIs(p, ScheduleOne(s, a, "fresh"))
      BY <2>3 DEF ProbeTokens, Login
    <3> HIDE DEF s
    <3> QED BY <1>1, <3>1, ScheduleOneOK
  <2>4. CASE Delete(p, a)
    <3>1. SchedIs(p, ClearOne(s, a))
      BY <2>4 DEF Delete
    <3> HIDE DEF s
    <3> QED BY <1>1, <3>1, ClearOneOK
  <2> QED BY <2>1, <2>2, <2>3, <2>4
<1> QED BY <1>1, <1>2, SchedIsOK

\* The refresh of one account goes on.
LEMMA JobStepSemaphore ==
  ASSUME IInv, NEW p \in Procs, NEW a \in Accounts, JobStep(p, a)
  PROVE  SemaphoreInv'
<1> DEFINE s == sched[p]
<1>1. TypeOK /\ SemaphoreInv /\ SchedOK(s) /\ s \in Sched
      /\ (run[p] = "stopping" => s.queue = <<>>)
  BY DEF IInv, SemaphoreInv, SchedOK
<1>2. CASE SkipLocked(p, a) \/ LockThrows(p, a) \/ NothingToRefresh(p, a)
  BY <1>1, <1>2, JobEnds DEF SkipLocked, LockThrows, NothingToRefresh, Granted, Holding
<1>3. CASE SyncFromDisk(p, a)
  <2> DEFINE t == ScheduleOne(s, a, mem[p][a].token)
  <2>1. s.job[a].at = "granted" /\ run' = run /\ SchedIs(p, Ended(t, a))
    BY <1>3 DEF SyncFromDisk, Granted
  <2> HIDE DEF s
  <2>2. /\ SchedOK(t) /\ (Limited(s) => Limited(t))
        /\ InFlight(s, a) => t.job = s.job /\ t.queue = s.queue
    BY <1>1, ScheduleOneOK
  <2> HIDE DEF t
  <2>3. a \in Slots(t) /\ t.queue = s.queue
    BY <2>1, <2>2 DEF Slots, Holding, InFlight
  <2>4. /\ SchedOK(Ended(t, a)) /\ (Limited(t) => Limited(Ended(t, a)))
        /\ t.queue = <<>> => Ended(t, a).queue = <<>>
    BY <2>2, <2>3, EndedOK
  <2> QED BY <1>1, <2>1, <2>2, <2>3, <2>4, SchedIsOK DEF s
<1>4. CASE JobTokens(p, a)
  <2> DEFINE t == ScheduleOne(s, a, "fresh")
  <2>1. s.job[a].at = "call" /\ run' = run /\ SchedIs(p, Ended(t, a))
    BY <1>4 DEF JobTokens
  <2> HIDE DEF s
  <2>2. SchedOK(t) /\ (Limited(s) => Limited(t)) /\ t.job = s.job /\ t.queue = s.queue
    BY <1>1, ScheduleOneOK
  <2> HIDE DEF t
  <2>3. a \in Slots(t)
    BY <2>1, <2>2 DEF Slots, Holding
  <2>4. /\ SchedOK(Ended(t, a)) /\ (Limited(t) => Limited(Ended(t, a)))
        /\ t.queue = <<>> => Ended(t, a).queue = <<>>
    BY <2>2, <2>3, EndedOK
  <2> QED BY <1>1, <2>1, <2>2, <2>4, SchedIsOK DEF s
<1>5. CASE FirstAttempt(p, a)
  <2> DEFINE t == JobIs(s, a, "call", 1, 0)
  <2>1. s.job[a].at = "granted" /\ run' = run /\ SchedIs(p, t)
    BY <1>5 DEF FirstAttempt, Granted
  <2>2. a \in Slots(s)
    BY <2>1 DEF Slots, Holding
  <2>3. 1 \in 0 .. MaxAttempts /\ 0 \in 0 .. Threshold
    BY RefreshAssumption
  <2> HIDE DEF s
  <2>4. SchedOK(t) /\ (Limited(s) => Limited(t)) /\ t.queue = s.queue
    BY <1>1, <2>2, <2>3, JobIsOK
  <2> HIDE DEF t
  <2> QED BY <1>1, <2>1, <2>4, SchedIsOK DEF s
<1>6. CASE JobRefused(p, a) \/ JobFails(p, a)
  BY <1>6, JobErrorSemaphore DEF JobRefused, JobFails
<1>7. CASE NextAttempt(p, a)
  <2> DEFINE job == s.job[a]
             t == JobIs(s, a, "call", job.attempt + 1, job.hits)
  <2>1. job.at = "sleep" /\ run' = run /\ SchedIs(p, t)
    BY <1>7 DEF NextAttempt
  <2>2. a \in Slots(s)
    BY <2>1 DEF Slots, Holding
  <2>3. job.attempt < MaxAttempts /\ job \in Job
    BY <1>1, <2>1 DEF SchedOK, AttemptsLeft, Sched
  <2> HIDE DEF s, job
  <2>4. job.attempt + 1 \in 0 .. MaxAttempts /\ job.hits \in 0 .. Threshold
    BY <2>3, RefreshAssumption DEF Job
  <2>5. SchedOK(t) /\ (Limited(s) => Limited(t)) /\ t.queue = s.queue
    BY <1>1, <2>2, <2>4, JobIsOK
  <2> HIDE DEF t
  <2> QED BY <1>1, <2>1, <2>5, SchedIsOK DEF s
<1>8. CASE ServerAnswers(p, a, "job")
  BY <1>1, <1>8 DEF ServerAnswers, SemaphoreInv
<1> QED BY <1>2, <1>3, <1>4, <1>5, <1>6, <1>7, <1>8 DEF JobStep

LEMMA SemaphoreStep == IInv /\ [Next]_vars => SemaphoreInv'
<1> SUFFICES ASSUME IInv, [Next]_vars PROVE SemaphoreInv'
  OBVIOUS
<1>1. TypeOK /\ SemaphoreInv
  BY DEF IInv
<1>2. ASSUME UNCHANGED <<run, sched>>
      PROVE  SemaphoreInv'
  BY <1>1, <1>2 DEF SemaphoreInv
<1>3. ASSUME NEW p \in Procs, Crash(p) \/ Exit(p)
      PROVE  SemaphoreInv'
  <2>1. SchedIs(p, IdleSched) /\ run' = [run EXCEPT ![p] = "down"]
    BY <1>3 DEF Crash, Exit, Gone
  <2> QED BY <1>1, <2>1, IdleOK, LifeOK
<1>4. ASSUME NEW p \in Procs, Flush(p)
      PROVE  SemaphoreInv'
  BY <1>4, <1>2 DEF Flush
<1>5. ASSUME NEW p \in Procs, NEW a \in Accounts,
             \/ ProbeStarts(p, a) \/ ProbeRefused(p, a) \/ ProbeFails(p, a)
             \/ ServerAnswers(p, a, "probe")
             \/ \E s \in {"active", "disabled"} : SetStatus(p, a, s)
             \/ \E s \in {"active", "rate_limited", "expired", "banned"} : RequestMarks(p, a, s)
      PROVE  SemaphoreInv'
  BY <1>5, <1>2 DEF ProbeStarts, ProbeRefused, ProbeFails, ServerAnswers, SetStatus, RequestMarks
<1>6. ASSUME NEW a \in Accounts, Revoke(a) \/ LockAges(a)
      PROVE  SemaphoreInv'
  BY <1>6, <1>2 DEF Revoke, LockAges
<1>7. CASE UNCHANGED vars
  BY <1>7, <1>2 DEF vars
<1> QED
  BY <1>3, <1>4, <1>5, <1>6, <1>7, StartSemaphore, StopSemaphore, TimersSemaphore,
     JobStepSemaphore DEF Next

-----------------------------------------------------------------------------
(* The types *)

\* What a process and accounts.json know of the accounts.
StoreOK ==
    /\ mem \in [Procs -> [Accounts -> Cred]]
    /\ dirty \in [Procs -> BOOLEAN]
    /\ saved \subseteq Accounts
    /\ disk \in [Accounts -> Cred]

ServerOK ==
    /\ issued \in [Accounts -> RTs]
    /\ used \in [Accounts -> SUBSET RTs]
    /\ revoked \in [Accounts -> SUBSET RTs]

NetOK == net \in [Procs -> [Accounts -> [Callers -> Call]]]

LEMMA CallTypes ==
  /\ NoCall \in Call
  /\ \A rt \in RTs : [NoCall EXCEPT !.sent = rt] \in Call
  BY RefreshAssumption DEF NoCall, Call, RTs

LEMMA SendType ==
  ASSUME NetOK, NEW p \in Procs, NEW a \in Accounts, NEW c \in Callers, NEW rt \in RTs,
         Send(p, a, c, rt) \/ Received(p, a, c)
  PROVE  NetOK'
<1> PICK call \in Call : net' = [net EXCEPT ![p][a][c] = call]
  BY CallTypes DEF Send, Received
<1> QED BY DEF NetOK

LEMMA MemIsType ==
  ASSUME StoreOK, NEW p \in Procs, NEW m \in [Accounts -> Cred], MemIs(p, m)
  PROVE  mem' \in [Procs -> [Accounts -> Cred]]
  BY DEF StoreOK, MemIs

LEMMA PersistType ==
  ASSUME StoreOK, NEW p \in Procs, NEW h \in SUBSET Accounts, NEW m \in [Accounts -> Cred],
         \/ PersistNow(p, h, m)
         \/ SchedulePersist(p)
         \/ NoPersist
  PROVE  /\ dirty' \in [Procs -> BOOLEAN]
         /\ saved' \subseteq Accounts
         /\ disk' \in [Accounts -> Cred]
  BY DEF StoreOK, PersistNow, SchedulePersist, NoPersist

LEMMA MarkStatusType ==
  ASSUME StoreOK, NEW p \in Procs, NEW a \in Accounts, NEW status \in Statuses,
         MarkStatus(p, a, status)
  PROVE  StoreOK'
<1>1. CASE a \in here[p]
  <2>1. [mem[p] EXCEPT ![a].status = status] \in [Accounts -> Cred]
    <3>1. mem[p] \in [Accounts -> Cred]
      BY DEF StoreOK
    <3>2. \A cred \in Cred : [cred EXCEPT !.status = status] \in Cred
      BY DEF Cred
    <3> QED BY <3>1, <3>2
  <2>2. MemIs(p, [mem[p] EXCEPT ![a].status = status]) /\ SchedulePersist(p)
    BY <1>1 DEF MarkStatus
  <2> QED BY <2>1, <2>2, MemIsType, PersistType DEF StoreOK
<1>2. CASE a \notin here[p]
  BY <1>2 DEF MarkStatus, NoPersist, StoreOK
<1> QED BY <1>1, <1>2

LEMMA UpdatedType ==
  ASSUME NEW cred \in Cred, NEW tok \in {"fresh", "due"}, NEW rt \in RTs
  PROVE  Updated(cred, tok, rt) \in Cred
  BY DEF Updated, Cred, Statuses

LEMMA UpdateTokenType ==
  ASSUME StoreOK, NEW p \in Procs, NEW a \in Accounts, here[p] \subseteq Accounts,
         NEW tok \in {"fresh", "due"}, NEW rt \in RTs, UpdateToken(p, a, tok, rt)
  PROVE  StoreOK'
<1>1. CASE a \in here[p]
  <2> DEFINE m == [mem[p] EXCEPT ![a] = Updated(mem[p][a], tok, rt)]
  <2>1. m \in [Accounts -> Cred]
    <3>1. mem[p] \in [Accounts -> Cred] /\ Updated(mem[p][a], tok, rt) \in Cred
      BY UpdatedType DEF StoreOK
    <3> QED BY <3>1
  <2>2. MemIs(p, m) /\ PersistNow(p, here[p], m)
    BY <1>1 DEF UpdateToken
  <2> HIDE DEF m
  <2> QED BY <2>1, <2>2, MemIsType, PersistType DEF StoreOK
<1>2. CASE a \notin here[p]
  BY <1>2 DEF UpdateToken, NoPersist, StoreOK
<1> QED BY <1>1, <1>2

LEMMA LoadedType ==
  ASSUME NEW d \in [Accounts -> Cred], NEW late
  PROVE  [a \in Accounts |-> IF a \in late THEN [d[a] EXCEPT !.token = "due"] ELSE d[a]]
            \in [Accounts -> Cred]
  BY DEF Cred

\* Who begins, ends or saves.
LEMMA LifeType ==
  ASSUME IInv, NEW p \in Procs, SemaphoreInv',
         Start(p) \/ Crash(p) \/ Stop(p) \/ Exit(p) \/ Flush(p)
  PROVE  TypeOK'
<1>1. TypeOK /\ StoreOK /\ NetOK /\ ServerOK /\ sched' \in [Procs -> Sched]
  BY DEF IInv, TypeOK, StoreOK, NetOK, ServerOK, SemaphoreInv
<1>2. CASE Start(p)
  <2>1. \E late \in SUBSET saved :
           MemIs(p, [a \in Accounts |->
                        IF a \in late THEN [disk[a] EXCEPT !.token = "due"] ELSE disk[a]])
    BY <1>2 DEF Start
  <2>2. mem' \in [Procs -> [Accounts -> Cred]]
    BY <1>1, <2>1, LoadedType, MemIsType DEF StoreOK
  <2>3. lock' \in [Accounts -> [by : Procs \cup {Nobody}, stale : BOOLEAN]]
    BY <1>1, <1>2 DEF Start, TypeOK, Free
  <2>4. /\ run' = [run EXCEPT ![p] = "up"] /\ here' = [here EXCEPT ![p] = saved]
        /\ UNCHANGED <<dirty, net, saved, disk, server>>
    BY <1>2 DEF Start
  <2> QED BY <1>1, <2>2, <2>3, <2>4 DEF TypeOK, server
<1>3. CASE Crash(p) \/ Exit(p)
  <2>1. /\ Gone(p) /\ UNCHANGED <<saved, disk>>
    BY <1>3 DEF Crash, Exit
  <2>2. mem' \in [Procs -> [Accounts -> Cred]]
    BY <1>1, <2>1, MemIsType DEF Gone, StoreOK
  <2>3. net' \in [Procs -> [Accounts -> [Callers -> Call]]]
    BY <1>1, <2>1, CallTypes DEF Gone, NetOK
  <2> QED BY <1>1, <2>1, <2>2, <2>3 DEF TypeOK, Gone, server
<1>4. CASE Stop(p) \/ Flush(p)
  <2>1. /\ PersistNow(p, here[p], mem[p])
        /\ UNCHANGED <<here, mem, net, lock, server>>
        /\ run' = [run EXCEPT ![p] = "stopping"] \/ run' = run
    BY <1>4 DEF Stop, Flush
  <2>2. here[p] \in SUBSET Accounts /\ mem[p] \in [Accounts -> Cred]
    BY <1>1 DEF TypeOK
  <2>3. dirty' \in [Procs -> BOOLEAN] /\ saved' \subseteq Accounts /\ disk' \in [Accounts -> Cred]
    BY <1>1, <2>1, <2>2, PersistType
  <2> QED BY <1>1, <2>1, <2>3 DEF TypeOK, server
<1> QED BY <1>2, <1>3, <1>4

LEMMA AnswerType ==
  ASSUME TypeOK, NEW p \in Procs, NEW a \in Accounts, NEW c \in Callers, ServerAnswers(p, a, c),
         sched' \in [Procs -> Sched]
  PROVE  TypeOK'
<1> DEFINE call == net[p][a][c]
<1>1. call \in Call /\ 0 \in RTs
  BY RefreshAssumption DEF TypeOK, RTs
<1>2. \E reply \in {"tokens", "refused"}, rt \in RTs :
         net' = [net EXCEPT ![p][a][c].reply = reply, ![p][a][c].rt = rt]
  <2>1. issued[a] \in RTs /\ (issued[a] < MaxIssued => issued[a] + 1 \in RTs)
    BY RefreshAssumption DEF TypeOK, RTs
  <2> QED BY <1>1, <2>1 DEF ServerAnswers
<1>3. net' \in [Procs -> [Accounts -> [Callers -> Call]]]
  <2>1. PICK reply \in {"tokens", "refused"}, rt \in RTs :
           net' = [net EXCEPT ![p][a][c].reply = reply, ![p][a][c].rt = rt]
    BY <1>2
  <2> DEFINE half == [net EXCEPT ![p][a][c].reply = reply]
  <2>2. net \in [Procs -> [Accounts -> [Callers -> Call]]]
    BY DEF TypeOK
  <2>3. half \in [Procs -> [Accounts -> [Callers -> Call]]]
    <3> DEFINE answered == [net[p][a][c] EXCEPT !.reply = reply]
    <3>1. answered \in Call
      BY <2>2 DEF Call
    <3>2. half = [net EXCEPT ![p][a][c] = answered]
      OBVIOUS
    <3> HIDE DEF answered, half
    <3> QED BY <2>2, <3>1, <3>2
  <2>4. net' = [half EXCEPT ![p][a][c].rt = rt]
    BY <2>1
  <2> HIDE DEF half
  <2> DEFINE full == [half[p][a][c] EXCEPT !.rt = rt]
  <2>5. full \in Call
    <3>1. half[p][a][c] \in Call
      BY <2>3
    <3>2. \A any \in Call : [any EXCEPT !.rt = rt] \in Call
      BY DEF Call
    <3> QED BY <3>1, <3>2
  <2>6. net' = [half EXCEPT ![p][a][c] = full]
    BY <2>4
  <2> HIDE DEF full
  <2> QED BY <2>3, <2>5, <2>6
<1>4. issued' \in [Accounts -> RTs] /\ used' \in [Accounts -> SUBSET RTs]
  <2>1. \/ /\ issued[a] < MaxIssued
           /\ issued' = [issued EXCEPT ![a] = @ + 1]
           /\ used' = [used EXCEPT ![a] = @ \cup {call.sent}]
        \/ UNCHANGED <<issued, used>>
    BY DEF ServerAnswers
  <2>2. call.sent \in RTs
    BY <1>1 DEF Call
  <2>3. issued[a] < MaxIssued => issued[a] + 1 \in RTs
    BY RefreshAssumption DEF TypeOK, RTs
  <2> HIDE DEF call
  <2>4. issued \in [Accounts -> RTs] /\ used \in [Accounts -> SUBSET RTs]
    BY DEF TypeOK
  <2>5. issued' \in [Accounts -> RTs]
    BY <2>1, <2>3, <2>4
  <2>6. used' \in [Accounts -> SUBSET RTs]
    BY <2>1, <2>2, <2>4
  <2> QED BY <2>5, <2>6
<1>5. UNCHANGED <<run, here, mem, dirty, saved, disk, lock, revoked>>
  BY DEF ServerAnswers, NoPersist
<1> QED BY <1>3, <1>4, <1>5 DEF TypeOK

LEMMA JobStepType ==
  ASSUME IInv, NEW p \in Procs, NEW a \in Accounts, SemaphoreInv', JobStep(p, a)
  PROVE  TypeOK'
<1>1. /\ TypeOK /\ StoreOK /\ NetOK /\ ServerOK /\ sched' \in [Procs -> Sched]
      /\ here[p] \in SUBSET Accounts /\ mem[p] \in [Accounts -> Cred] /\ 0 \in RTs
      /\ "job" \in Callers
      /\ \A s \in {"active", "expired", "refreshing"} : s \in Statuses
  BY RefreshAssumption
     DEF IInv, TypeOK, StoreOK, NetOK, ServerOK, SemaphoreInv, RTs, Callers, Statuses
<1>2. ASSUME lock' = lock \/ Locked(p, a) \/ Unlocked(a)
      PROVE  lock' \in [Accounts -> [by : Procs \cup {Nobody}, stale : BOOLEAN]]
  <2> DEFINE Lock == [by : Procs \cup {Nobody}, stale : BOOLEAN]
             mine == [by |-> p, stale |-> FALSE]
  <2>1. lock \in [Accounts -> Lock]
    BY <1>1 DEF TypeOK
  <2>2. mine \in Lock /\ Free \in Lock
    BY DEF Free
  <2>3. lock' = lock \/ lock' = [lock EXCEPT ![a] = mine] \/ lock' = [lock EXCEPT ![a] = Free]
    BY <1>2 DEF Locked, Unlocked
  <2> HIDE DEF Lock, mine
  <2>4. lock' \in [Accounts -> Lock]
    BY <2>1, <2>2, <2>3
  <2> QED BY <2>4 DEF Lock
<1>3. ASSUME StoreOK', NetOK', UNCHANGED <<run, here, server>>,
             lock' = lock \/ Locked(p, a) \/ Unlocked(a)
      PROVE  TypeOK'
  BY <1>1, <1>2, <1>3 DEF TypeOK, StoreOK, NetOK, server
<1>4. CASE SkipLocked(p, a)
  BY <1>1, <1>3, <1>4 DEF SkipLocked, Granted, NoPersist, StoreOK, NetOK
<1>5. CASE LockThrows(p, a)
  <2>1. StoreOK'
    BY <1>1, <1>5, MarkStatusType DEF LockThrows, NoPersist, StoreOK
  <2>2. UNCHANGED <<net, lock, run, here, server>>
    BY <1>5 DEF LockThrows, Granted
  <2> QED BY <1>1, <1>3, <2>1, <2>2 DEF NetOK
<1>6. CASE NothingToRefresh(p, a)
  <2>1. StoreOK'
    BY <1>1, <1>6, MarkStatusType DEF NothingToRefresh
  <2>2. UNCHANGED <<net, run, here, server>> /\ Unlocked(a)
    BY <1>6 DEF NothingToRefresh, Granted
  <2> QED BY <1>1, <1>3, <2>1, <2>2 DEF NetOK
<1>7. CASE SyncFromDisk(p, a)
  <2> DEFINE synced == [mem[p] EXCEPT ![a] = Updated(mem[p][a], mem[p][a].token, disk[a].rt)]
             m == [synced EXCEPT ![a].status = "active"]
  <2>1. /\ MemIs(p, m) /\ dirty' = [dirty EXCEPT ![p] = TRUE]
        /\ (saved' = here[p] /\ disk' = synced) \/ UNCHANGED <<saved, disk>>
        /\ UNCHANGED <<net, run, here, server>> /\ Unlocked(a)
    BY <1>7 DEF SyncFromDisk, Granted
  <2>2. synced \in [Accounts -> Cred]
    <3>1. mem[p][a] \in Cred /\ mem[p][a].token \in {"fresh", "due"} /\ disk[a].rt \in RTs
      BY <1>1 DEF StoreOK, Cred
    <3>2. Updated(mem[p][a], mem[p][a].token, disk[a].rt) \in Cred
      BY <3>1, UpdatedType
    <3> QED BY <1>1, <3>2
  <2> HIDE DEF synced
  <2>3. m \in [Accounts -> Cred]
    BY <2>2, <1>1 DEF Cred
  <2> HIDE DEF m
  <2>4. StoreOK'
    BY <1>1, <2>1, <2>2, <2>3, MemIsType DEF StoreOK
  <2> QED BY <1>1, <1>3, <2>1, <2>4 DEF NetOK
<1>8. CASE FirstAttempt(p, a)
  <2>1. StoreOK'
    BY <1>1, <1>8, MarkStatusType DEF FirstAttempt
  <2>2. mem[p][a].rt \in RTs
    BY <1>1 DEF Cred
  <2>3. NetOK'
    BY <1>1, <1>8, <2>2, SendType DEF FirstAttempt
  <2>4. UNCHANGED <<run, here, server>> /\ Locked(p, a)
    BY <1>8 DEF FirstAttempt, Granted
  <2> QED BY <1>3, <2>1, <2>3, <2>4
<1>9. CASE JobTokens(p, a)
  <2>1. net[p][a]["job"].rt \in RTs
    BY <1>1 DEF NetOK, Call
  <2>2. StoreOK'
    BY <1>1, <1>9, <2>1, UpdateTokenType DEF JobTokens
  <2>3. NetOK'
    BY <1>1, <1>9, SendType DEF JobTokens
  <2>4. UNCHANGED <<run, here, server>> /\ Unlocked(a)
    BY <1>9 DEF JobTokens
  <2> QED BY <1>3, <2>2, <2>3, <2>4
<1>10. CASE JobRefused(p, a) \/ JobFails(p, a)
  <2>1. PICK error : JobError(p, a, error)
    BY <1>10 DEF JobRefused, JobFails
  <2>2. StoreOK'
    BY <1>1, <2>1, MarkStatusType DEF JobError, NoPersist, StoreOK
  <2>3. NetOK'
    BY <1>1, <2>1, SendType DEF JobError
  <2>4. UNCHANGED <<run, here, server>> /\ (lock' = lock \/ Unlocked(a))
    BY <2>1 DEF JobError
  <2> QED BY <1>3, <2>2, <2>3, <2>4
<1>11. CASE NextAttempt(p, a)
  <2>1. mem[p][a].rt \in RTs
    BY <1>1 DEF Cred
  <2>2. NetOK'
    BY <1>1, <1>11, <2>1, SendType DEF NextAttempt
  <2> QED BY <1>1, <1>3, <1>11, <2>2 DEF NextAttempt, NoPersist, StoreOK
<1>12. CASE ServerAnswers(p, a, "job")
  BY <1>1, <1>12, AnswerType
<1> QED
  BY <1>4, <1>5, <1>6, <1>7, <1>8, <1>9, <1>10, <1>11, <1>12 DEF JobStep

\* The probes, the user and the requests.
LEMMA ActorStepType ==
  ASSUME IInv, NEW p \in Procs, NEW a \in Accounts, SemaphoreInv',
         \/ TimerFires(p, a) \/ StrayFires(p, a)
         \/ ProbeStarts(p, a) \/ ProbeTokens(p, a) \/ ProbeRefused(p, a) \/ ProbeFails(p, a)
         \/ Login(p, a) \/ Delete(p, a)
         \/ \E s \in {"active", "disabled"} : SetStatus(p, a, s)
         \/ \E s \in {"active", "rate_limited", "expired", "banned"} : RequestMarks(p, a, s)
  PROVE  TypeOK'
<1>1. /\ TypeOK /\ StoreOK /\ NetOK /\ ServerOK /\ sched' \in [Procs -> Sched]
      /\ here[p] \in SUBSET Accounts /\ mem[p] \in [Accounts -> Cred]
      /\ "probe" \in Callers /\ mem[p][a].rt \in RTs /\ 0 \in RTs
      /\ \A s \in {"active", "disabled", "rate_limited", "expired", "banned"} : s \in Statuses
  BY RefreshAssumption
     DEF IInv, TypeOK, StoreOK, NetOK, ServerOK, SemaphoreInv, Cred, Callers, Statuses, RTs
<1>2. ASSUME StoreOK', NetOK', here' \in [Procs -> SUBSET Accounts], UNCHANGED <<run, lock, server>>
      PROVE  TypeOK'
  BY <1>1, <1>2 DEF TypeOK, StoreOK, NetOK, server
<1>3. CASE TimerFires(p, a) \/ StrayFires(p, a)
  <2>1. [mem[p] EXCEPT ![a].token = "due"] \in [Accounts -> Cred]
    <3>1. \A cred \in Cred : [cred EXCEPT !.token = "due"] \in Cred
      BY DEF Cred
    <3> QED BY <1>1, <3>1
  <2>2. mem' \in [Procs -> [Accounts -> Cred]]
    BY <1>1, <1>3, <2>1 DEF TimerFires, StrayFires, MemIs, StoreOK
  <2>3. NoPersist /\ UNCHANGED <<run, here, net, lock, server>>
    BY <1>3 DEF TimerFires, StrayFires
  <2> QED BY <1>1, <1>2, <2>2, <2>3 DEF NoPersist, StoreOK, NetOK, TypeOK
<1>4. CASE ProbeStarts(p, a)
  <2>1. NetOK'
    BY <1>1, <1>4, SendType DEF ProbeStarts
  <2> QED BY <1>1, <1>2, <1>4, <2>1 DEF ProbeStarts, NoPersist, StoreOK, TypeOK
<1>5. CASE ProbeTokens(p, a)
  <2>1. net[p][a]["probe"].rt \in RTs
    BY <1>1 DEF NetOK, Call
  <2>2. StoreOK'
    BY <1>1, <1>5, <2>1, UpdateTokenType DEF ProbeTokens
  <2>3. NetOK'
    BY <1>1, <1>5, SendType DEF ProbeTokens
  <2> QED BY <1>1, <1>2, <1>5, <2>2, <2>3 DEF ProbeTokens, TypeOK
<1>6. CASE ProbeRefused(p, a)
  <2>1. StoreOK'
    BY <1>1, <1>6, MarkStatusType DEF ProbeRefused
  <2>2. NetOK'
    BY <1>1, <1>6, SendType DEF ProbeRefused
  <2> QED BY <1>1, <1>2, <1>6, <2>1, <2>2 DEF ProbeRefused, TypeOK
<1>7. CASE ProbeFails(p, a)
  <2>1. NetOK'
    BY <1>1, <1>7, SendType DEF ProbeFails
  <2> QED BY <1>1, <1>2, <1>7, <2>1 DEF ProbeFails, NoPersist, StoreOK, TypeOK
<1>8. CASE Login(p, a)
  <2> DEFINE new == [status |-> "active", rt |-> issued[a] + 1, token |-> "fresh"]
             m == [mem[p] EXCEPT ![a] = new]
  <2>1. issued[a] + 1 \in RTs
    BY <1>1, <1>8, RefreshAssumption DEF Login, ServerOK, RTs
  <2>2. new \in Cred
    BY <2>1 DEF Cred, Statuses
  <2>3. MemIs(p, m) /\ PersistNow(p, here[p], m)
    BY <1>8 DEF Login
  <2>n. m \in [Accounts -> Cred]
    <3> HIDE DEF new
    <3> QED BY <1>1, <2>2
  <2> HIDE DEF m
  <2>4. mem' \in [Procs -> [Accounts -> Cred]]
    BY <1>1, <2>3, <2>n, MemIsType
  <2>5. StoreOK'
    BY <1>1, <2>3, <2>4, <2>n, PersistType DEF StoreOK
  <2>6. issued' = [issued EXCEPT ![a] = @ + 1] /\ UNCHANGED <<run, here, net, lock, used, revoked>>
    BY <1>8 DEF Login
  <2>7. issued' \in [Accounts -> RTs]
    BY <1>1, <2>1, <2>6 DEF ServerOK
  <2> QED BY <1>1, <2>5, <2>6, <2>7 DEF TypeOK, StoreOK
<1>9. CASE Delete(p, a)
  <2>1. here' \in [Procs -> SUBSET Accounts]
    BY <1>1, <1>9 DEF Delete, TypeOK
  <2> QED BY <1>1, <1>2, <1>9, <2>1 DEF Delete, SchedulePersist, StoreOK, NetOK
<1>10. CASE \/ \E s \in {"active", "disabled"} : SetStatus(p, a, s)
            \/ \E s \in {"active", "rate_limited", "expired", "banned"} : RequestMarks(p, a, s)
  <2>1. \E s \in Statuses : MarkStatus(p, a, s)
    BY <1>1, <1>10 DEF SetStatus, RequestMarks
  <2>2. StoreOK'
    BY <1>1, <2>1, MarkStatusType
  <2>3. UNCHANGED <<run, here, net, lock, server>>
    BY <1>10 DEF SetStatus, RequestMarks
  <2> QED BY <1>1, <1>2, <2>2, <2>3 DEF NetOK, TypeOK
<1> QED BY <1>3, <1>4, <1>5, <1>6, <1>7, <1>8, <1>9, <1>10

LEMMA TypeStep == IInv /\ [Next]_vars /\ SemaphoreInv' => TypeOK'
<1> SUFFICES ASSUME IInv, [Next]_vars, SemaphoreInv' PROVE TypeOK'
  OBVIOUS
<1>1. TypeOK /\ sched' \in [Procs -> Sched]
  BY DEF IInv, SemaphoreInv
<1>2. ASSUME NEW a \in Accounts, Revoke(a)
      PROVE  TypeOK'
  <2>1. 1 .. issued[a] \in SUBSET RTs
    BY <1>1, RefreshAssumption DEF TypeOK, RTs
  <2>2. revoked' \in [Accounts -> SUBSET RTs]
    BY <1>1, <1>2, <2>1 DEF Revoke, TypeOK
  <2> QED BY <1>1, <1>2, <2>2 DEF Revoke, NoPersist, TypeOK
<1>3. ASSUME NEW a \in Accounts, LockAges(a)
      PROVE  TypeOK'
  <2>1. lock' \in [Accounts -> [by : Procs \cup {Nobody}, stale : BOOLEAN]]
    BY <1>1, <1>3 DEF LockAges, TypeOK
  <2> QED BY <1>1, <1>3, <2>1 DEF LockAges, NoPersist, TypeOK, server
<1>4. CASE UNCHANGED vars
  BY <1>1, <1>4 DEF vars, server, TypeOK
<1>5. ASSUME NEW p \in Procs, NEW a \in Accounts, ServerAnswers(p, a, "probe")
      PROVE  TypeOK'
  BY <1>1, <1>5, AnswerType DEF Callers
<1> QED BY <1>2, <1>3, <1>4, <1>5, LifeType, JobStepType, ActorStepType DEF Next

-----------------------------------------------------------------------------

LEMMA InitInv == Init => IInv
<1> SUFFICES ASSUME Init PROVE IInv
  OBVIOUS
<1>1. SemaphoreInv
  BY IdleOK DEF Init, SemaphoreInv, SchedOK
<1>2. TypeOK
  <2>1. disk \in [Accounts -> Cred]
    <3>1. {1} \subseteq RTs /\ {"active", "expired"} \subseteq Statuses
      BY RefreshAssumption DEF RTs, Statuses
    <3>2. [status : {"active", "expired"}, rt : {1}, token : {"fresh", "due"}] \subseteq Cred
      BY <3>1 DEF Cred
    <3> QED BY <3>2 DEF Init
  <2>2. mem \in [Procs -> [Accounts -> Cred]]
    BY <2>1 DEF Init
  <2>3. net \in [Procs -> [Accounts -> [Callers -> Call]]]
    BY CallTypes DEF Init
  <2>4. lock \in [Accounts -> [by : Procs \cup {Nobody}, stale : BOOLEAN]]
    BY DEF Init, Free
  <2>5. issued \in [Accounts -> RTs]
    BY RefreshAssumption DEF Init, RTs
  <2> QED BY <1>1, <2>1, <2>2, <2>3, <2>4, <2>5 DEF Init, TypeOK, SemaphoreInv
<1> QED BY <1>1, <1>2 DEF IInv

LEMMA InvAlways == Spec => []IInv
<1>1. IInv /\ [Next]_vars => IInv'
  BY SemaphoreStep, TypeStep DEF IInv
<1> QED BY InitInv, <1>1, PTL DEF Spec

\* Every part of the processes, of their schedulers, of accounts.json and of
\* the OAuth server keeps its type; the counter of the semaphore never becomes
\* negative (releaseSlot) and no refresh makes more than MAX_ATTEMPTS attempts.
THEOREM TypeCorrect == Spec => []TypeOK
<1>1. IInv => TypeOK
  BY DEF IInv
<1> QED BY <1>1, InvAlways, PTL

\* The semaphore counts exactly the refreshes that hold a slot, keeps to
\* auth.refresh_concurrency, and nobody waits while a slot is free
\* (acquireSlot, releaseSlot), whatever fails and whoever interferes.
THEOREM SemaphoreIsExact == Spec => []SemaphoreExact
<1>1. IInv => SemaphoreExact
  BY DEF IInv, SemaphoreInv, SemaphoreExact, SchedOK, Counted, Limited, Slots, Waiting, Holding
<1> QED BY <1>1, InvAlways, PTL
=============================================================================
