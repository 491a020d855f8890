---------------------------- MODULE AccountPool ----------------------------
(***************************************************************************)
(* The account pool: AccountRegistry (which accounts exist and their       *)
(* status) and AccountLifecycle (the slots that count the requests in      *)
(* flight on each account) behind the AccountPool facade.                  *)
(*                                                                         *)
(* acquireLocks maps an account to the list of the times its slots were    *)
(* taken, oldest first.  What matters of a time is whether it is older     *)
(* than ACQUIRE_LOCK_TTL_MS, and the stale slots are a prefix of the list, *)
(* so a list is kept as the number of its stale and of its fresh slots.    *)
(***************************************************************************)
EXTENDS Naturals, AccountRegistry

CONSTANTS
    Accounts,        \* every entry id the pool will ever hand out
    MaxConcurrent    \* auth.max_concurrent_per_account

ASSUME MaxConcurrentAssumption == MaxConcurrent \in Nat \ {0}

VARIABLES
    live,     \* the keys of the accounts Map
    gone,     \* ids of removed accounts: an id is random and never comes back
    entry,    \* the AccountEntry of every id (meaningful for live ids)
    slots     \* acquireLocks

poolVars == <<live, gone, entry, slots>>

SlotList == [stale : Nat, fresh : Nat]

NoSlots == [stale |-> 0, fresh |-> 0]

PoolTypeOK ==
    /\ live \subseteq Accounts
    /\ gone \subseteq Accounts \ live
    /\ entry \in [Accounts -> Entry]
    /\ slots \in [Accounts -> SlotList]

PoolInit ==
    /\ live \in SUBSET Accounts
    /\ gone = {}
    /\ entry = [a \in Accounts |-> NewEntry("valid")]
    /\ slots = [a \in Accounts |-> NoSlots]

-----------------------------------------------------------------------------
(* Slots *)

Held(l) == l.stale + l.fresh

Pushed(l) == [l EXCEPT !.fresh = @ + 1]

\* Mutant of Popped: a count is decremented, however many slots there are.
PoppedBlindly(l) ==
    IF l.stale > 0 THEN [l EXCEPT !.stale = @ - 1] ELSE [l EXCEPT !.fresh = @ - 1]

\* shift() drops the OLDEST slot, whoever took it; nothing when there is none.
Popped(l) ==
    IF l.stale > 0 THEN [l EXCEPT !.stale = @ - 1]
    ELSE IF l.fresh > 0 THEN [l EXCEPT !.fresh = @ - 1]
    ELSE l

\* What release leaves of the slots s.
Release(s, a) == [s EXCEPT ![a] = Popped(@)]

\* A status mutation through the facade drops every slot of the account, if
\* the account is still there.
Cleared(s, a) == IF a \in live THEN [s EXCEPT ![a] = NoSlots] ELSE s

Mutated(e, a, new) == IF a \in live THEN [e EXCEPT ![a] = new] ELSE e

-----------------------------------------------------------------------------
(* acquire, in the pool whose entries are e and whose slots are s *)

Rechecked(e) == [a \in Accounts |-> IF a \in live THEN Refreshed(e[a]) ELSE e[a]]

\* Mutant of Swept: slots are held until they are released.
SweptNothing(s) == s

Swept(s) == [a \in Accounts |-> [s[a] EXCEPT !.stale = 0]]

\* Mutant of Available: one slot too many.
AvailableAtLimit(e, s, excluded, suited) ==
    {a \in (live \cap suited) \ excluded :
        /\ Rechecked(e)[a].status = "active"
        /\ Held(Swept(s)[a]) <= MaxConcurrent}

\* Accounts acquire may select: "suited" are those the plan filter lets
\* through for the model of the request, "excluded" those already tried.
Available(e, s, excluded, suited) ==
    {a \in (live \cap suited) \ excluded :
        /\ Rechecked(e)[a].status = "active"
        /\ Held(Swept(s)[a]) < MaxConcurrent}

\* The preferred account if it is available, else any the rotation strategy
\* may select.
Choices(e, s, excluded, suited, preferred) ==
    LET candidates == Available(e, s, excluded, suited)
    IN  IF preferred \in candidates THEN {preferred} ELSE candidates

-----------------------------------------------------------------------------
(* Operations of the dashboard and of the refresh scheduler on the pool *)

\* setStatusBatch, one id of the batch
SetStatus(a, s) ==
    /\ a \in live
    /\ s \in {"active", "disabled"}
    /\ entry' = [entry EXCEPT ![a] = Marked(@, s)]
    /\ slots' = Cleared(slots, a)
    /\ UNCHANGED <<live, gone>>

\* Mutant of RemoveAccount: clearLock is forgotten.
RemoveAccountOnly(a) ==
    /\ a \in live
    /\ live' = live \ {a}
    /\ gone' = gone \cup {a}
    /\ UNCHANGED <<entry, slots>>

\* removeAccount
RemoveAccount(a) ==
    /\ a \in live
    /\ slots' = Cleared(slots, a)
    /\ live' = live \ {a}
    /\ gone' = gone \cup {a}
    /\ UNCHANGED entry

\* addAccount: a new id, or new credentials for an account of the pool
AddAccount(a, tok) ==
    /\ a \notin gone
    /\ live' = live \cup {a}
    /\ entry' = [entry EXCEPT ![a] = IF a \in live THEN Readded(@, tok) ELSE NewEntry(tok)]
    /\ UNCHANGED <<gone, slots>>

\* resetUsage
ResetUsage(a) ==
    /\ a \in live
    /\ entry' = [entry EXCEPT ![a] = UsageReset(@)]
    /\ UNCHANGED <<live, gone, slots>>

\* getAccounts, getPoolSummary, isAuthenticated: reading refreshes the statuses
ListAccounts ==
    /\ entry' = Rechecked(entry)
    /\ UNCHANGED <<live, gone, slots>>

\* markStatus as the refresh scheduler calls it
SchedulerMark(a, s) ==
    /\ entry' = Mutated(entry, a, Marked(entry[a], s))
    /\ slots' = Cleared(slots, a)
    /\ UNCHANGED <<live, gone>>

\* updateToken as the refresh scheduler calls it: the slots stay
SchedulerUpdateToken(a) ==
    /\ entry' = Mutated(entry, a, TokenUpdated(entry[a], "valid"))
    /\ UNCHANGED <<live, gone, slots>>

-----------------------------------------------------------------------------
(* The passing of time *)

\* The oldest fresh slot of an account becomes older than ACQUIRE_LOCK_TTL_MS.
SlotAges(a) ==
    /\ slots[a].fresh > 0
    /\ slots' = [slots EXCEPT ![a] = [stale |-> @.stale + 1, fresh |-> @.fresh - 1]]
    /\ UNCHANGED <<live, gone, entry>>

\* rate_limit_until is reached.
LimitPasses(a) ==
    /\ a \in live
    /\ entry[a].limit = "pending"
    /\ entry' = [entry EXCEPT ![a].limit = "passed"]
    /\ UNCHANGED <<live, gone, slots>>

\* The access token reaches its expiry.
TokenLapses(a) ==
    /\ a \in live
    /\ entry[a].token = "valid"
    /\ entry' = [entry EXCEPT ![a].token = "lapsed"]
    /\ UNCHANGED <<live, gone, slots>>
=============================================================================
