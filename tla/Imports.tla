------------------------------- MODULE Imports ------------------------------
(***************************************************************************)
(* Imports of accounts (src/services/account-import.ts) beside the         *)
(* scheduled refresh of the same account.  A refresh token may be sent to  *)
(* the server once; it is answered by the next one.                        *)
(*                                                                         *)
(* Data abstraction: one account; its refresh tokens are numbered as the   *)
(* server issues them.  Only awaits that reach the network separate steps: *)
(* what follows an answer runs to the end before other input is read.      *)
(***************************************************************************)
EXTENDS Naturals, FiniteSets

CONSTANTS
    Importers,  \* requests that import, at a time
    MaxTokens   \* bound: refresh tokens the server issues

VARIABLES
    stored,      \* refresh token of the account in the pool; NoAccount, NoToken
    newest,      \* the one that the server will exchange
    imports,     \* what each import is doing, with which refresh token
    refreshing,  \* refreshingRTs
    refresh,     \* the token the scheduler has sent, and whether its account is still there
    pasted,      \* history: a refresh token came together with an access token
    lost         \* history: an answer did not arrive, or could not be stored

importVars == <<stored, newest, imports, refreshing, refresh, pasted, lost>>

NoToken == 0
NoAccount == MaxTokens + 1
RefreshTokens == 1 .. MaxTokens
NoRefresh == [token |-> NoToken, alive |-> TRUE]
Idle == [phase |-> "idle", token |-> NoToken]

TypeOK ==
    /\ stored \in 0 .. NoAccount
    /\ newest \in RefreshTokens
    /\ imports \in [Importers -> [phase : {"idle", "exchange", "verify"}, token : 0 .. MaxTokens]]
    /\ refreshing \subseteq RefreshTokens
    /\ refresh \in [token : 0 .. MaxTokens, alive : BOOLEAN]
    /\ pasted \in BOOLEAN /\ lost \in BOOLEAN

Init ==
    /\ stored \in {NoAccount, NoToken, 1}
    /\ newest = 1
    /\ imports = [i \in Importers |-> Idle]
    /\ refreshing = {}
    /\ refresh = NoRefresh
    /\ pasted = FALSE
    /\ lost = FALSE

\* addAccount: an account that is known keeps its token if none is given.
Added(token) == IF token = NoToken /\ stored # NoAccount THEN stored ELSE token

Done(i) == imports' = [imports EXCEPT ![i] = Idle]

\* A refresh token alone that an account of the pool has: nothing is sent, and
\* the account is written as it is.
ImportKnown(i, token) ==
    /\ imports[i] = Idle
    /\ stored = token
    /\ UNCHANGED importVars

\* Mutant of ImportToken: refreshingRTs is not asked.
ImportTokenAgain(i, token) ==
    /\ imports[i] = Idle
    /\ stored # token
    /\ refreshing' = refreshing \cup {token}
    /\ imports' = [imports EXCEPT ![i] = [phase |-> "exchange", token |-> token]]
    /\ UNCHANGED <<stored, newest, refresh, pasted, lost>>

\* A refresh token alone that the pool does not have is exchanged, unless
\* another import is doing so.
ImportToken(i, token) ==
    /\ imports[i] = Idle
    /\ stored # token
    /\ token \notin refreshing
    /\ refreshing' = refreshing \cup {token}
    /\ imports' = [imports EXCEPT ![i] = [phase |-> "exchange", token |-> token]]
    /\ UNCHANGED <<stored, newest, refresh, pasted, lost>>

\* The answer: the next token if this one was the newest, else an error.
Exchanged(i) ==
    /\ imports[i].phase = "exchange"
    /\ refreshing' = refreshing \ {imports[i].token}
    /\ Done(i)
    /\ IF imports[i].token = newest /\ newest < MaxTokens
       THEN \/ /\ newest' = newest + 1          \* validated and added
               /\ stored' = Added(newest')
               /\ UNCHANGED lost
            \/ /\ newest' = newest + 1          \* lost on the way, or invalid
               /\ lost' = TRUE
               /\ UNCHANGED stored
            \/ UNCHANGED <<newest, stored, lost>>  \* refused or not sent
       ELSE UNCHANGED <<newest, stored, lost>>
    /\ UNCHANGED <<refresh, pasted>>

\* An access token, with a refresh token or none: importMany adds the account,
\* importOne asks the upstream first whether it can be used.
ImportPair(i, token) ==
    /\ imports[i] = Idle
    /\ pasted' = (pasted \/ token # NoToken)
    /\ \/ stored' = Added(token) /\ UNCHANGED imports
       \/ imports' = [imports EXCEPT ![i] = [phase |-> "verify", token |-> token]] /\ UNCHANGED stored
    /\ UNCHANGED <<newest, refreshing, refresh, lost>>

Verified(i) ==
    /\ imports[i].phase = "verify"
    /\ stored' \in {Added(imports[i].token), stored}
    /\ Done(i)
    /\ UNCHANGED <<newest, refreshing, refresh, pasted, lost>>

\* doRefresh of the scheduler (RefreshScheduler has its steps)
RefreshSends ==
    /\ refresh = NoRefresh /\ stored \in RefreshTokens
    /\ refresh' = [token |-> stored, alive |-> TRUE]
    /\ UNCHANGED <<stored, newest, imports, refreshing, pasted, lost>>

RefreshAnswered ==
    /\ refresh # NoRefresh
    /\ refresh' = NoRefresh
    /\ IF refresh.token = newest /\ newest < MaxTokens
       THEN \/ /\ newest' = newest + 1
               /\ stored' = IF refresh.alive THEN newest' ELSE stored
               /\ lost' = (lost \/ ~refresh.alive)
            \/ newest' = newest + 1 /\ lost' = TRUE /\ UNCHANGED stored
            \/ UNCHANGED <<newest, stored, lost>>
       ELSE UNCHANGED <<newest, stored, lost>>
    /\ UNCHANGED <<imports, refreshing, pasted>>

\* deleteAccount: if the account is imported again it has another id.
Delete ==
    /\ stored # NoAccount
    /\ stored' = NoAccount
    /\ refresh' = IF refresh = NoRefresh THEN refresh ELSE [refresh EXCEPT !.alive = FALSE]
    /\ UNCHANGED <<newest, imports, refreshing, pasted, lost>>

Next ==
    \/ \E i \in Importers :
          \/ \E token \in 1 .. newest : ImportKnown(i, token) \/ ImportToken(i, token)
          \/ \E token \in 0 .. newest : ImportPair(i, token)
          \/ Exchanged(i) \/ Verified(i)
    \/ RefreshSends \/ RefreshAnswered \/ Delete

Spec == Init /\ [][Next]_importVars

-----------------------------------------------------------------------------
(* Properties *)

\* Imports never spend one refresh token twice at the same time, and as long as
\* nobody pastes a refresh token beside an access token and no answer is lost,
\* an account of the pool has the token the server will take: imports that meet
\* a refresh, a deletion or each other leave no account that can never renew.
ImportsKeepToken ==
    /\ \A i, j \in Importers :
          imports[i].phase = "exchange" /\ imports[j].phase = "exchange"
              /\ imports[i].token = imports[j].token => i = j
    /\ ~pasted /\ ~lost /\ stored \in RefreshTokens => stored = newest
-----------------------------------------------------------------------------
(* What the property rests on, for the proofs: the token of an exchange is *)
(* in refreshingRTs, and a verification carries no refresh token unless    *)
(* one was pasted.                                                         *)

ImportsInv ==
    /\ TypeOK /\ ImportsKeepToken
    /\ \A i \in Importers :
          /\ imports[i].phase = "exchange" => imports[i].token \in refreshing
          /\ imports[i].phase = "verify" /\ ~pasted => imports[i].token = NoToken
=============================================================================
