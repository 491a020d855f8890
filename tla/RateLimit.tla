----------------------------- MODULE RateLimit ------------------------------
(***************************************************************************)
(* The token buckets before the API (src/middleware/rate-limit.ts): one of *)
(* each client, dropped when idle, and capped in number.                   *)
(*                                                                         *)
(* Data abstraction: time goes by ticks, in which a bucket gains Rate      *)
(* tokens.  Local clients, listed ones and paths without a limit are let   *)
(* through without being counted and do not appear.                        *)
(***************************************************************************)
EXTENDS Naturals, FiniteSets, FiniteSetsExt

CONSTANTS
    Clients,      \* addresses
    Rate, Burst,  \* RATE_LIMIT_RPS, RATE_LIMIT_BURST
    IdleTime,     \* RATE_LIMIT_WINDOW_MS
    MaxBuckets,   \* MAX_BUCKETS
    MaxNow        \* bound: the clock stops here

VARIABLES
    time,
    buckets,    \* a function on the clients that have one: tokens, lastRefillMs
    lastPrune,
    excess,     \* history: requests let through beyond Rate, in the worst span until now
    evicted     \* history: clients whose bucket the cap took away

rateVars == <<time, buckets, lastPrune, excess, evicted>>

NoBuckets == [c \in {} |-> 0]

TypeOK ==
    /\ time \in 1 .. MaxNow
    /\ DOMAIN buckets \subseteq Clients
    /\ \A c \in DOMAIN buckets : buckets[c].tokens \in 0 .. Burst /\ buckets[c].refilled \in 1 .. time
    /\ lastPrune \in 1 .. time
    /\ excess \in [Clients -> Nat]
    /\ evicted \subseteq Clients

Init ==
    /\ time = 1
    /\ buckets = NoBuckets
    /\ lastPrune = 1
    /\ excess = [c \in Clients |-> 0]
    /\ evicted = {}

Keep(b, S) == [c \in S |-> b[c]]

\* pruneStale: at most once in IdleTime.
WithoutIdle(b) == Keep(b, {c \in DOMAIN b : time - b[c].refilled <= IdleTime})
Pruned(b) == IF time - lastPrune < IdleTime THEN b ELSE WithoutIdle(b)

\* enforceBucketsCap: a prune of its own, then the oldest buckets go; that of
\* the newcomer c is the youngest.
Capped(b, c) ==
    IF Cardinality(DOMAIN b) <= MaxBuckets THEN {b}
    ELSE LET fresh == WithoutIdle(b)
         IN  IF Cardinality(DOMAIN fresh) <= MaxBuckets THEN {fresh}
             ELSE {Keep(fresh, S) : S \in {T \in kSubset(MaxBuckets - 1, DOMAIN fresh) :
                       /\ c \in T
                       /\ \A kept \in T, gone \in DOMAIN fresh \ T :
                             fresh[gone].refilled <= fresh[kept].refilled}}

\* Mutant of Refilled: the time of the refill is not kept.
RefilledTwice(bucket) ==
    LET tokens == bucket.tokens + (time - bucket.refilled) * Rate
    IN  [bucket EXCEPT !.tokens = IF tokens > Burst THEN Burst ELSE tokens]

Refilled(bucket) ==
    LET tokens == bucket.tokens + (time - bucket.refilled) * Rate
    IN  [tokens |-> IF tokens > Burst THEN Burst ELSE tokens, refilled |-> time]

\* takeToken, after the sweep; a new bucket is full.
Request(c) ==
    LET swept  == Pruned(buckets)
        fresh  == [tokens |-> Burst, refilled |-> time]
        isNew  == c \notin DOMAIN swept
        bucket == Refilled(IF isNew THEN fresh ELSE swept[c])
        passes == bucket.tokens >= 1
        after  == IF passes THEN [bucket EXCEPT !.tokens = @ - 1] ELSE bucket
        with   == [d \in DOMAIN swept \cup {c} |-> IF d = c THEN after ELSE swept[d]]
    IN  /\ \E b \in IF isNew THEN Capped(with, c) ELSE {with} :
              /\ buckets' = b
              /\ evicted' = evicted \cup (DOMAIN with \ DOMAIN b)
        /\ lastPrune' = IF \/ isNew /\ Cardinality(DOMAIN with) > MaxBuckets
                           \/ time - lastPrune >= IdleTime
                        THEN time ELSE lastPrune
        /\ excess' = IF passes /\ c \notin evicted' THEN [excess EXCEPT ![c] = @ + 1] ELSE excess
        /\ UNCHANGED time

Tick ==
    /\ time < MaxNow
    /\ time' = time + 1
    /\ excess' = [c \in Clients |-> IF excess[c] < Rate THEN 0 ELSE excess[c] - Rate]
    /\ UNCHANGED <<buckets, lastPrune, evicted>>

Next == Tick \/ \E c \in Clients : Request(c)

Spec == Init /\ [][Next]_rateVars

-----------------------------------------------------------------------------
(* Properties *)

\* In every span of time a client is let through Burst times and Rate times for
\* each tick, although idle buckets are dropped and come back full; unless the
\* cap on buckets took its own.
RateKept == \A c \in Clients \ evicted : excess[c] <= Burst
-----------------------------------------------------------------------------
(* What the property rests on, for the proofs: a client has had what is    *)
(* missing in its bucket, counted as if it were refilled now, and without  *)
(* a bucket it has its whole burst before it.                              *)

Left(c) == IF c \in DOMAIN buckets THEN Refilled(buckets[c]).tokens ELSE Burst

LimitInv == TypeOK /\ \A c \in Clients \ evicted : excess[c] + Left(c) <= Burst
=============================================================================
