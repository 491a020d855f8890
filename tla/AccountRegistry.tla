-------------------------- MODULE AccountRegistry --------------------------
(***************************************************************************)
(* What each operation of AccountRegistry (src/auth/account-registry.ts)   *)
(* does to one account entry.  The module has no variables: the modules    *)
(* that keep accounts apply these operators to their own entries.          *)
(*                                                                         *)
(* Data abstraction: of an AccountEntry only the fields that decide        *)
(* whether the account may be used are kept.  rate_limit_until is null,    *)
(* in the future or in the past; the access token is inside or past its    *)
(* "exp" claim.                                                            *)
(***************************************************************************)

Statuses == {"active", "expired", "quota_exhausted", "rate_limited",
             "refreshing", "disabled", "banned"}

Limits == {"none", "pending", "passed"}   \* usage.rate_limit_until

Tokens == {"valid", "lapsed"}             \* isTokenExpired(entry.token)

Entry == [status : Statuses, limit : Limits, token : Tokens]

\* The two statuses updateToken refuses to leave.
Sticky == {"disabled", "banned"}

StatusOfToken(tok) == IF tok = "valid" THEN "active" ELSE "expired"

\* addAccount, the credentials belong to no account of the pool yet.
NewEntry(tok) == [status |-> StatusOfToken(tok), limit |-> "none", token |-> tok]

\* addAccount, the credentials belong to this account: whatever its status.
Readded(e, tok) == [e EXCEPT !.token = tok, !.status = StatusOfToken(tok)]

\* updateToken
TokenUpdated(e, tok) ==
    [e EXCEPT !.token  = tok,
              !.status = IF e.status \in Sticky THEN @ ELSE StatusOfToken(tok)]

\* markStatus
Marked(e, s) == [e EXCEPT !.status = s]

\* Mutant of LimitMarked: rate_limit_until is forgotten.
LimitMarkedForGood(e) == [e EXCEPT !.status = "rate_limited"]

\* markRateLimited: the back-off is positive, so the limit is in the future.
LimitMarked(e) == [e EXCEPT !.status = "rate_limited", !.limit = "pending"]

\* resetUsage: a new usage record, the status is left as it is.
UsageReset(e) == [e EXCEPT !.limit = "none"]

\* refreshStatus, its first half: a rate limit whose time has come is lifted.
LimitLifted(e) ==
    IF e.status = "rate_limited" /\ e.limit = "passed"
    THEN [e EXCEPT !.status = "active", !.limit = "none"]
    ELSE e

\* refreshStatus
Refreshed(e) ==
    IF LimitLifted(e).status = "active" /\ e.token = "lapsed"
    THEN [LimitLifted(e) EXCEPT !.status = "expired"]
    ELSE LimitLifted(e)
=============================================================================
