----------------------------- MODULE UsageStats -----------------------------
(***************************************************************************)
(* The usage history of the dashboard (src/auth/usage-stats.ts): snapshots *)
(* of the usage counters of all accounts, with a baseline that takes up    *)
(* what removed or reset accounts had counted, over accounts.json whose    *)
(* debounced save (src/auth/account-registry.ts) a crash may cut off.      *)
(*                                                                         *)
(* Data abstraction: a set of counters stands for the three of the code    *)
(* (tokens in, tokens out, requests).  Time is left out: pruning, and the  *)
(* window of a query, keep any suffix of the snapshots.                    *)
(***************************************************************************)
EXTENDS Integers, Sequences, SequencesExt, FiniteSetsExt

CONSTANTS
    Accounts,
    Counters,    \* what is counted
    MaxServed,   \* bound: what is used of each counter
    MaxSnapshots \* bound: snapshots that are kept

VARIABLES
    statsUp,     \* the server runs
    usage,       \* what each account of the pool has counted
    usageSaved,  \* the same in accounts.json
    store,       \* snapshots (their totals) and baseline
    storeSaved,  \* the same in usage-history.json; the baseline may be missing
    served,      \* history: what has really been used, of each counter
    doubled      \* history: a crash has brought back counters that were dropped

statsVars == <<statsUp, usage, usageSaved, store, storeSaved, served, doubled>>

Totals == [Counters -> Nat]
Zero == [k \in Counters |-> 0]
NoBaseline == [k \in Counters |-> -1]
NoStore == [snapshots |-> <<>>, baseline |-> Zero]

Plus(x, y) == [k \in Counters |-> x[k] + y[k]]
Minus(x, y) == [k \in Counters |-> x[k] - y[k]]
AtLeastZero(x) == [k \in Counters |-> IF x[k] < 0 THEN 0 ELSE x[k]]
SomeLess(x, y) == \E k \in Counters : x[k] < y[k]
AtMost(x, y) == ~SomeLess(y, x)

\* The pool: a function on the accounts it has.
Pools == UNION {[S -> Totals] : S \in SUBSET Accounts}
PoolTotals(u) == [k \in Counters |-> MapThenSumSet(LAMBDA a : u[a][k], DOMAIN u)]

TypeOK ==
    /\ statsUp \in BOOLEAN
    /\ DOMAIN usage \subseteq Accounts /\ \A a \in DOMAIN usage : usage[a] \in Totals
    /\ DOMAIN usageSaved \subseteq Accounts /\ \A a \in DOMAIN usageSaved : usageSaved[a] \in Totals
    /\ store.snapshots \in Seq(Totals) /\ store.baseline \in Totals
    /\ storeSaved.snapshots \in Seq(Totals)
    /\ storeSaved.baseline \in Totals \cup {NoBaseline}
    /\ served \in Totals
    /\ doubled \in BOOLEAN

\* A first start, or a history file from before baselines were kept.
Init ==
    /\ statsUp = FALSE
    /\ usage = [a \in Accounts |-> Zero]
    /\ usageSaved = usage
    /\ store = NoStore
    /\ \/ served = Zero /\ storeSaved = NoStore
       \/ /\ served \in [Counters -> 0 .. 1]
          /\ storeSaved = [snapshots |-> <<served>>, baseline |-> NoBaseline]
    /\ doubled = FALSE

-----------------------------------------------------------------------------
(* The history *)

\* recoverBaseline: the last totals less what the pool still counts.
Recovered(file, live) ==
    IF file.baseline # NoBaseline THEN file.baseline
    ELSE IF file.snapshots = <<>> THEN Zero
    ELSE AtLeastZero(Minus(Last(file.snapshots), live))

\* Mutant of Absorbed: the loss is not looked for.
NotAbsorbed(live) == store.baseline

\* What the pool has lost since the last snapshot goes to the baseline.
Absorbed(live) ==
    IF store.snapshots = <<>> THEN store.baseline
    ELSE LET prevLive == Minus(Last(store.snapshots), store.baseline)
         IN  IF SomeLess(live, prevLive)
             THEN Plus(store.baseline, AtLeastZero(Minus(prevLive, live)))
             ELSE store.baseline

\* recordSnapshot, by SnapshotTimer.  save() may fail and only logs.
Snapshot ==
    LET live == PoolTotals(usage)
        base == Absorbed(live)
        all  == Append(store.snapshots, Plus(base, live))
    IN  /\ statsUp
        /\ \E first \in 1 .. Len(all) :
              /\ Len(all) - first < MaxSnapshots
              /\ store' = [snapshots |-> SubSeq(all, first, Len(all)), baseline |-> base]
        /\ storeSaved' \in {store', storeSaved}
        /\ UNCHANGED <<statsUp, usage, usageSaved, served, doubled>>

\* The constructor, and recoverBaseline once the pool is there (index.ts).
Start ==
    LET recovered == [snapshots |-> storeSaved.snapshots,
                      baseline  |-> Recovered(storeSaved, PoolTotals(usageSaved))]
    IN  /\ ~statsUp
        /\ statsUp' = TRUE
        /\ usage' = usageSaved
        /\ store' = recovered
        /\ storeSaved' \in IF storeSaved.baseline = NoBaseline /\ storeSaved.snapshots # <<>>
                           THEN {recovered, storeSaved} ELSE {storeSaved}
        /\ UNCHANGED <<usageSaved, served, doubled>>

\* getHistory of a window: the differences of neighbouring snapshots.
HistoryOf(snapshots) ==
    IF Len(snapshots) < 2 THEN <<>>
    ELSE [i \in 1 .. Len(snapshots) - 1 |-> AtLeastZero(Minus(snapshots[i + 1], snapshots[i]))]

\* bucketize adds up the points of an interval: all of them, in the longest.
Bucket(points) == FoldLeft(Plus, Zero, points)

-----------------------------------------------------------------------------
(* The pool *)

\* recordUsage of a request; an answer without usage counts the request only.
RecordUsage(a, amount) ==
    /\ statsUp /\ a \in DOMAIN usage
    /\ \A k \in Counters : served[k] + amount[k] <= MaxServed[k]
    /\ usage' = [usage EXCEPT ![a] = Plus(@, amount)]
    /\ served' = Plus(served, amount)
    /\ UNCHANGED <<statsUp, usageSaved, store, storeSaved, doubled>>

ResetUsage(a) ==
    /\ statsUp /\ a \in DOMAIN usage
    /\ usage' = [usage EXCEPT ![a] = Zero]
    /\ UNCHANGED <<statsUp, usageSaved, store, storeSaved, served, doubled>>

RemoveAccount(a) ==
    /\ statsUp /\ a \in DOMAIN usage
    /\ usage' = [b \in DOMAIN usage \ {a} |-> usage[b]]
    /\ UNCHANGED <<statsUp, usageSaved, store, storeSaved, served, doubled>>

\* persistNow
AddAccount(a) ==
    /\ statsUp /\ a \notin DOMAIN usage
    /\ usage' = [b \in DOMAIN usage \cup {a} |-> IF b = a THEN Zero ELSE usage[b]]
    /\ usageSaved' = usage'
    /\ UNCHANGED <<statsUp, store, storeSaved, served, doubled>>

\* schedulePersist has run out.
Flush ==
    /\ statsUp
    /\ usageSaved' = usage
    /\ UNCHANGED <<statsUp, usage, store, storeSaved, served, doubled>>

CountedAgain ==
    \E a \in DOMAIN usageSaved :
        SomeLess(IF a \in DOMAIN usage THEN usage[a] ELSE Zero, usageSaved[a])

\* Bound: one crash that brings back what was dropped; each adds to the totals.
Crash ==
    /\ statsUp
    /\ ~(doubled /\ CountedAgain)
    /\ statsUp' = FALSE
    /\ doubled' = (doubled \/ CountedAgain)
    /\ UNCHANGED <<usage, usageSaved, store, storeSaved, served>>

\* accountPool.destroy saves.
Close ==
    /\ statsUp
    /\ statsUp' = FALSE
    /\ usageSaved' = usage
    /\ UNCHANGED <<usage, store, storeSaved, served, doubled>>

Next ==
    \/ Snapshot \/ Start \/ Flush \/ Crash \/ Close
    \/ \E a \in Accounts :
          \/ \E amount \in [Counters -> 0 .. 1] \ {Zero} : RecordUsage(a, amount)
          \/ ResetUsage(a) \/ RemoveAccount(a) \/ AddAccount(a)

Spec == Init /\ [][Next]_statsVars

-----------------------------------------------------------------------------
(* Properties *)

\* Through removals, resets, restarts and failed saves, the points getHistory
\* gives for any window add up to what the totals grew in it, so a chart
\* neither drops nor repeats usage; and the totals never exceed what was really
\* used, unless a crash came before accounts.json was told of a removal or reset.
HistoryAddsUp ==
    /\ \A i \in 1 .. Len(store.snapshots) :
          LET window == SubSeq(store.snapshots, i, Len(store.snapshots))
          IN  Bucket(HistoryOf(window)) = Minus(Last(window), Head(window))
    /\ ~doubled /\ store.snapshots # <<>> => AtMost(Last(store.snapshots), served)

-----------------------------------------------------------------------------
(* What the properties rest on, for the proofs *)

\* What a snapshot absorbs makes up for what the pool lost, so totals only grow.
Growing(snapshots) == \A i \in 1 .. Len(snapshots) - 1 : AtMost(snapshots[i], snapshots[i + 1])
TotalsGrow == Growing(store.snapshots) /\ Growing(storeSaved.snapshots)

\* A baseline and what the pool still counts, or will count after a start, are
\* together at most what was used.
BaselineOf(file) == IF file.baseline = NoBaseline THEN Zero ELSE file.baseline
Live == IF statsUp THEN usage ELSE usageSaved
NothingTwice ==
    ~doubled =>
        /\ storeSaved.snapshots # <<>> => AtMost(Last(storeSaved.snapshots), served)
        /\ store.snapshots # <<>> => AtMost(Last(store.snapshots), served)
        /\ AtMost(Plus(BaselineOf(storeSaved), PoolTotals(Live)), served)
        /\ statsUp => AtMost(Plus(store.baseline, PoolTotals(usage)), served)

UsageInv == TypeOK /\ TotalsGrow /\ NothingTwice
=============================================================================
