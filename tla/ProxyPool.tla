----------------------------- MODULE ProxyPool ------------------------------
(***************************************************************************)
(* The outbound proxies: ProxyPool (src/proxy/proxy-pool.ts) and its       *)
(* routes (src/routes/proxies.ts).  Which proxies there are, which account *)
(* uses which, the round robin among the active ones, health checks that   *)
(* wait for the network while the user edits, and proxies.json.            *)
(*                                                                         *)
(* Data abstraction: ids are numbered as they are handed out, so that the  *)
(* order of the Map, also of one read back from the file, is their order.  *)
(* Of a proxy only the status is kept; whether a URL is in the pool is a   *)
(* free choice.  proxies.json is replaced by a rename: a crash leaves the  *)
(* old file or the new one.                                                *)
(***************************************************************************)
EXTENDS Naturals, FiniteSets

CONSTANTS
    Accounts,
    MaxProxies,   \* bound: so many proxies are ever added
    MaxChecks,    \* bound: health checks under way of one proxy
    MaxFailures,  \* bound: saves that fail in a row
    RoundRobin,   \* assignment "auto", the round robin
    Fixed,        \* the assignments "global" and "direct"
    Unset,        \* no assignment
    Events        \* which faults take part in this instance

AllEvents == {"crash", "stop"}

Ids == 1 .. MaxProxies
Special == Fixed \cup {RoundRobin}
Assignment == Ids \cup Special \cup {Unset}
Statuses == {"active", "unreachable", "disabled"}

ASSUME ProxyPoolAssumption ==
    /\ MaxProxies \in Nat
    /\ MaxChecks \in Nat
    /\ MaxFailures \in Nat
    /\ RoundRobin \notin Ids /\ Unset \notin Ids /\ Fixed \cap Ids = {}
    /\ Unset \notin Special
    /\ Events \subseteq AllEvents

VARIABLES
    up,            \* the server runs
    proxies,       \* the keys of the proxies Map
    status,        \* the status of every proxy ("active" for those not in the Map)
    assigned,      \* the assignments Map
    index,         \* _roundRobinIndex
    persistTimer,  \* a debounced save is due
    healthTimer,   \* the periodic health check is set up
    cutOff,        \* history: an import broke off, and left it not set up
    checks,        \* number of health checks of each proxy that wait for the network
    disk,          \* proxies.json
    last,          \* the id handed out last
    failed,        \* history: so many saves failed in a row
    round          \* history: the picks since the active proxies changed or all were picked

poolVars == <<proxies, status, assigned>>
vars == <<up, poolVars, index, persistTimer, healthTimer, cutOff, checks, disk, last, failed, round>>

Contents(ps, st, as) == [proxies |-> ps, status |-> st, assigned |-> as]

NoRound == [picked |-> {}, count |-> 0]

TypeOK ==
    /\ up \in BOOLEAN
    /\ proxies \subseteq Ids
    /\ status \in [Ids -> Statuses]
    /\ assigned \in [Accounts -> Assignment]
    /\ index \in Nat
    /\ persistTimer \in BOOLEAN
    /\ healthTimer \in BOOLEAN
    /\ cutOff \in BOOLEAN
    /\ checks \in [Ids -> 0 .. MaxChecks]
    /\ disk \in [proxies : SUBSET Ids, status : [Ids -> Statuses],
                 assigned : [Accounts -> Assignment]]
    /\ last \in 0 .. MaxProxies
    /\ failed \in 0 .. MaxFailures
    /\ round \in [picked : SUBSET Ids, count : Nat]

Init ==
    /\ up = FALSE
    /\ proxies = {}
    /\ status = [i \in Ids |-> "active"]
    /\ assigned = [a \in Accounts |-> Unset]
    /\ index = 0
    /\ persistTimer = FALSE
    /\ healthTimer = FALSE
    /\ cutOff = FALSE
    /\ checks = [i \in Ids |-> 0]
    /\ disk = Contents(proxies, status, assigned)
    /\ last = 0
    /\ failed = 0
    /\ round = NoRound

Active == {i \in proxies : status[i] = "active"}

\* The round of picks goes on as long as the same proxies are active.
RoundKept == round' = IF Active' = Active THEN round ELSE NoRound

-----------------------------------------------------------------------------
(* Saving *)

\* persistNow of a pool with these contents; a failure is logged.
Persist(contents) ==
    /\ persistTimer' = FALSE
    /\ \/ disk' = contents /\ failed' = 0
       \/ failed < MaxFailures /\ failed' = failed + 1 /\ UNCHANGED disk

\* ... of what the pool is after this step
PersistNow == Persist(Contents(proxies', status', assigned'))

SchedulePersist == persistTimer' = TRUE /\ UNCHANGED <<disk, failed>>

NoPersist == UNCHANGED <<persistTimer, disk, failed>>

Flush ==
    /\ up /\ persistTimer
    /\ UNCHANGED <<up, poolVars, index, healthTimer, cutOff, checks, last, round>>
    /\ PersistNow

-----------------------------------------------------------------------------
(* The routes *)

\* Only the Map of proxies, their status or the assignments change.
Edits == up /\ UNCHANGED <<up, index, checks>>

\* Mutant of ChecksStart: the timer of the health checks is not set up.
ChecksStartNot == UNCHANGED <<healthTimer, cutOff>>

\* startHealthCheckTimer of a pool that has proxies
ChecksStart == healthTimer' = TRUE /\ cutOff' = FALSE

\* n proxies with URLs the pool does not have: each add saves the pool with
\* the proxies there are by then, and so many saves in the end may fail.
AddEntries(n) ==
    /\ Edits
    /\ last + n <= MaxProxies
    /\ last' = last + n
    /\ proxies' = proxies \cup (last + 1 .. last')
    /\ status' = [i \in Ids |-> IF i \in last + 1 .. last' THEN "active" ELSE status[i]]
    /\ UNCHANGED assigned
    /\ persistTimer' = FALSE
    /\ \E lost \in 0 .. n :
          /\ failed' = IF lost = n THEN failed + n ELSE lost
          /\ failed' <= MaxFailures
          /\ disk' = IF lost = n THEN disk
                     ELSE Contents(proxies \cup (last + 1 .. last' - lost), status', assigned')
    /\ RoundKept

\* POST /api/proxies: a URL the pool does not have.
Add == AddEntries(1) /\ ChecksStart

\* POST /api/proxies/import: the timer is set up after the last entry, which
\* the handler does not reach if an entry is null.
Import(n, breaksOff) ==
    /\ AddEntries(n)
    /\ IF breaksOff THEN UNCHANGED healthTimer /\ cutOff' = (cutOff \/ ~healthTimer)
       ELSE ChecksStart

\* Mutants of Removed: the assignments stay; they get an empty id.
RemovedOnly(as, i) == as

RemovedToEmpty(as, i) == [a \in Accounts |-> IF as[a] = i THEN 0 ELSE as[a]]

\* The assignments remove leaves.
Removed(as, i) == [a \in Accounts |-> IF as[a] = i THEN Unset ELSE as[a]]

Remove(i) ==
    /\ Edits
    /\ i \in proxies
    /\ proxies' = proxies \ {i}
    /\ status' = [status EXCEPT ![i] = "active"]
    /\ assigned' = Removed(assigned, i)
    /\ UNCHANGED <<healthTimer, cutOff, last>>
    /\ PersistNow
    /\ RoundKept

\* Mutant of SetStatus: the change is not saved.
SetStatusUnsaved(i, s) ==
    /\ Edits
    /\ i \in proxies
    /\ status' = [status EXCEPT ![i] = s]
    /\ UNCHANGED <<proxies, assigned, healthTimer, cutOff, last>>
    /\ NoPersist
    /\ RoundKept

\* enable, disable, and update, which makes a proxy with a new URL active and
\* leaves one with a new name as it is.
SetStatus(i, s) ==
    /\ Edits
    /\ i \in proxies
    /\ status' = [status EXCEPT ![i] = s]
    /\ UNCHANGED <<proxies, assigned, healthTimer, cutOff, last>>
    /\ SchedulePersist
    /\ RoundKept

\* The routes that assign check that the proxy is there; bulk assignments,
\* applied imports and the round-robin rule assign several accounts at once.
Assign(some, to) ==
    /\ Edits
    /\ \A a \in some : to[a] \in proxies \cup Special
    /\ assigned' = [a \in Accounts |-> IF a \in some THEN to[a] ELSE assigned[a]]
    /\ UNCHANGED <<proxies, status, healthTimer, cutOff, last>>
    /\ PersistNow
    /\ RoundKept

Unassign(a) ==
    /\ Edits
    /\ assigned[a] # Unset
    /\ assigned' = [assigned EXCEPT ![a] = Unset]
    /\ UNCHANGED <<proxies, status, healthTimer, cutOff, last>>
    /\ PersistNow
    /\ RoundKept

\* setHealthIntervalMinutes: a timer that is set up starts again.
SetInterval ==
    /\ Edits
    /\ healthTimer' = (healthTimer /\ proxies # {})
    /\ UNCHANGED <<poolVars, cutOff, last>>
    /\ SchedulePersist
    /\ RoundKept

\* The URL, or all of an import, is in the pool already: only the timer is
\* started again.
AddKnown ==
    /\ Edits
    /\ proxies # {}
    /\ ChecksStart
    /\ UNCHANGED <<poolVars, last>>
    /\ NoPersist
    /\ RoundKept

-----------------------------------------------------------------------------
(* Health checks *)

Checking(some) ==
    /\ up
    /\ \A i \in some : checks[i] < MaxChecks
    /\ checks' = [i \in Ids |-> IF i \in some THEN checks[i] + 1 ELSE checks[i]]
    /\ NoPersist
    /\ UNCHANGED <<up, poolVars, index, healthTimer, cutOff, last, round>>

CheckOne(i) == i \in proxies /\ Checking({i})

\* The timer fires, or the user asks for it.
CheckAll == Checking({i \in proxies : status[i] # "disabled"})

\* Mutant of Judged: what the check found is stored whatever happened since.
JudgedAnyway(i, s) == [status EXCEPT ![i] = s]

Judged(i, s) == IF status[i] = "disabled" THEN status ELSE [status EXCEPT ![i] = s]

\* The network has answered or failed.  What is found of a proxy that was
\* removed meanwhile goes to an object nobody sees.
CheckEnds(i, s) ==
    /\ up
    /\ checks[i] > 0
    /\ checks' = [checks EXCEPT ![i] = @ - 1]
    /\ status' = IF i \in proxies THEN Judged(i, s) ELSE status
    /\ UNCHANGED <<up, proxies, assigned, index, healthTimer, cutOff, last>>
    /\ SchedulePersist
    /\ RoundKept

-----------------------------------------------------------------------------
(* resolveProxyUrl *)

\* When all have been picked a new round begins.
RoundAfter(i) ==
    IF round.count < Cardinality(Active)
    THEN [picked |-> round.picked \cup {i}, count |-> round.count + 1]
    ELSE [picked |-> {i}, count |-> 1]

\* Mutant of NextIndex: the index is moved before the pick and after it.
NextIndexTwice(n) == ((index % n) + 2) % n

NextIndex(n) == ((index % n) + 1) % n

\* A request of an account on "auto" takes the active proxy at the place of
\* the index; the other assignments change nothing.
PickRoundRobin(a, i) ==
    LET n == Cardinality(Active)
    IN  /\ up
        /\ assigned[a] = RoundRobin
        /\ i \in Active
        /\ Cardinality({j \in Active : j < i}) = index % n
        /\ index' = NextIndex(n)
        /\ round' = RoundAfter(i)
        /\ NoPersist
        /\ UNCHANGED <<up, poolVars, healthTimer, cutOff, checks, last>>

-----------------------------------------------------------------------------
(* The life of the server *)

\* The constructor reads the file; startServer starts the timer if there are
\* proxies.
Start ==
    /\ ~up
    /\ up' = TRUE
    /\ proxies' = disk.proxies
    /\ status' = disk.status
    /\ assigned' = disk.assigned
    /\ healthTimer' = (disk.proxies # {})
    /\ failed' = 0
    /\ UNCHANGED <<index, persistTimer, cutOff, checks, disk, last, round>>

\* What was in memory is gone.
Down ==
    /\ up' = FALSE
    /\ index' = 0
    /\ healthTimer' = FALSE
    /\ cutOff' = FALSE
    /\ checks' = [i \in Ids |-> 0]
    /\ round' = NoRound
    /\ proxies' = {}
    /\ status' = [i \in Ids |-> "active"]
    /\ assigned' = [a \in Accounts |-> Unset]
    /\ UNCHANGED last

Crash ==
    /\ "crash" \in Events
    /\ up
    /\ Down
    /\ persistTimer' = FALSE
    /\ UNCHANGED <<disk, failed>>

\* destroy
Stop ==
    /\ "stop" \in Events
    /\ up
    /\ Down
    /\ Persist(Contents(proxies, status, assigned))

-----------------------------------------------------------------------------

Next ==
    \/ Add \/ AddKnown \/ SetInterval
    \/ \E n \in 1 .. MaxProxies, breaksOff \in BOOLEAN : Import(n, breaksOff)
    \/ \E i \in Ids :
          \/ Remove(i)
          \/ \E s \in {"active", "disabled", status[i]} : SetStatus(i, s)
          \/ CheckOne(i)
          \/ \E s \in {"active", "unreachable"} : CheckEnds(i, s)
    \/ \E some \in SUBSET Accounts \ {{}} :
          \E to \in [some -> Ids \cup Special] : Assign(some, to)
    \/ \E a \in Accounts : Unassign(a) \/ \E i \in Ids : PickRoundRobin(a, i)
    \/ CheckAll
    \/ Flush \/ Start \/ Crash \/ Stop

Spec == Init /\ [][Next]_vars

-----------------------------------------------------------------------------
(* Properties *)

\* Every assignment, in memory and in the file, names a proxy that is there or
\* a special value, so that no account silently goes to the global proxy for
\* one that was removed (remove, the checks of the routes).
AssignedExists ==
    \A a \in Accounts :
        /\ assigned[a] \in proxies \cup Special \cup {Unset}
        /\ disk.assigned[a] \in disk.proxies \cup Special \cup {Unset}

\* Whatever the pool knows is in the file, or a save is due: no edit and no
\* result of a health check is left to a later change.  Only a failed save
\* breaks this, until the next one (schedulePersist, persistNow).
SavedOrDue == up /\ failed = 0 => persistTimer \/ disk = Contents(proxies, status, assigned)

\* As long as there are proxies they are checked periodically: also after the
\* first one is added, after changes of the interval while there were none,
\* and after a restart with those of the file (startHealthCheckTimer).  The
\* one exception is an import that a null entry breaks off when no timer runs:
\* it leaves its proxies unchecked until another one is added or a restart.
CheckedPeriodically == up /\ proxies # {} => healthTimer \/ cutOff

\* No health check turns on a proxy that the user has switched off while the
\* check was waiting ("Only change status if not manually disabled",
\* proxy-pool.ts).
CheckEnablesNone ==
    [][\A i \in proxies \cap proxies' :
         status[i] = "disabled" /\ status'[i] # "disabled" => checks' = checks]_vars

\* While the same proxies are active every one of them is picked once before
\* any is picked again, whatever proxies there were before (pickRoundRobin).
RoundRobinFair == Cardinality(round.picked) = round.count
=============================================================================
