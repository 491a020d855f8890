--------------------------- MODULE LoginSessions ----------------------------
(***************************************************************************)
(* Logins with a browser (src/auth/oauth-pkce.ts, src/routes/auth.ts): the *)
(* pending sessions, the callback server on port 1455, and the three       *)
(* handlers that may bring the code of one login at the same time.         *)
(*                                                                         *)
(* Data abstraction: a login is its `state`; whether something is older    *)
(* than its time to live is a flag that time may set.  Callbacks without   *)
(* code or state, and texts and pages, are left out, and so are the logins *)
(* without a session (device code, CLI file, pasted token): they only add  *)
(* an account.  The port is free for each server.                          *)
(***************************************************************************)
EXTENDS Naturals, FiniteSets

CONSTANTS
    Logins,      \* values of `state`
    NoLogin,
    MaxHandlers, \* bound: exchanges under way at a time
    MaxAdded     \* bound: accounts that are counted

VARIABLES
    sessions,   \* pendingSessions: "none", or whether it is old and exchanging
    completed,  \* completedSessions: "none", "fresh" or "old"
    servers,    \* callback servers by the login that started them
    active,     \* activeCallbackServer
    exchanges,  \* exchanges under way, by slot
    added,      \* accounts added through each login
    wrongly     \* history: logins marked completed by the server of another

loginVars == <<sessions, completed, servers, active, exchanges, added, wrongly>>

NoSession == [pending |-> FALSE, old |-> FALSE, exchanging |-> FALSE]
NewSession == [pending |-> TRUE, old |-> FALSE, exchanging |-> FALSE]

\* A server listens until it is closed; "closing" has a timer of two seconds.
ServerStates == {"unused", "listening", "closing", "closed"}

\* Who brings a code: a callback server, or one of the two routes.
Slots == 1 .. MaxHandlers
NoExchange == [login |-> NoLogin, server |-> NoLogin]

TypeOK ==
    /\ sessions \in [Logins -> [pending : BOOLEAN, old : BOOLEAN, exchanging : BOOLEAN]]
    /\ completed \in [Logins -> {"none", "fresh", "old"}]
    /\ servers \in [Logins -> ServerStates]
    /\ active \in Logins \cup {NoLogin}
    /\ exchanges \in [Slots -> [login : Logins \cup {NoLogin}, server : Logins \cup {NoLogin}]]
    /\ added \in [Logins -> 0 .. MaxAdded]
    /\ wrongly \subseteq Logins

Init ==
    /\ sessions = [l \in Logins |-> NoSession]
    /\ completed = [l \in Logins |-> "none"]
    /\ servers = [l \in Logins |-> "unused"]
    /\ active = NoLogin
    /\ exchanges = [h \in Slots |-> NoExchange]
    /\ added = [l \in Logins |-> 0]
    /\ wrongly = {}

-----------------------------------------------------------------------------
(* Sessions *)

\* peekSession deletes what has expired.
Peeked(l) == IF sessions[l].old THEN NoSession ELSE sessions[l]

\* Mutant of MayAcquire: the exchange of another handler is not looked at.
MayAcquireAnyway(l) == Peeked(l).pending

\* tryAcquireSession
MayAcquire(l) == Peeked(l).pending /\ ~Peeked(l).exchanging

Completed(l) == completed[l] # "none"

ToldSuccess(l) == Completed(l) \/ Peeked(l).exchanging

\* scheduleClose, in the handler of a callback server
Closing(server) ==
    IF server # NoLogin /\ servers[server] = "listening"
    THEN [servers EXCEPT ![server] = "closing"] ELSE servers

\* Mutant of StartOAuthFlow: the server before is left to its timer.
StartBeside(l) ==
    /\ servers[l] = "unused"
    /\ sessions' = [sessions EXCEPT ![l] = NewSession]
    /\ servers' = [servers EXCEPT ![l] = "listening"]
    /\ active' = l
    /\ UNCHANGED <<completed, exchanges, added, wrongly>>

\* createOAuthSession and startCallbackServer, which closes the one before.
StartOAuthFlow(l) ==
    /\ servers[l] = "unused"
    /\ sessions' = [sessions EXCEPT ![l] = NewSession]
    /\ servers' = [s \in Logins |-> IF s = l THEN "listening"
                                    ELSE IF s = active THEN "closed" ELSE servers[s]]
    /\ active' = l
    /\ UNCHANGED <<completed, exchanges, added, wrongly>>

\* The code of login l arrives, at a callback server or at a route.
CodeArrives(l, server) ==
    /\ server # NoLogin => servers[server] \in {"listening", "closing"}
    /\ MayAcquire(l)
    /\ sessions' = [sessions EXCEPT ![l].exchanging = TRUE]
    /\ \E h \in Slots :
          /\ exchanges[h] = NoExchange /\ \A g \in Slots : exchanges[g] = NoExchange => h <= g
          /\ exchanges' = [exchanges EXCEPT ![h] = [login |-> l, server |-> server]]
    /\ UNCHANGED <<completed, servers, active, added, wrongly>>

\* The session is not to be had: success or failure is told, nothing exchanged.
CodeTooLate(l, server) ==
    /\ server # NoLogin => servers[server] \in {"listening", "closing"}
    /\ ~MayAcquire(l)
    /\ sessions' = [sessions EXCEPT ![l] = Peeked(l)]
    /\ servers' = Closing(server)
    /\ UNCHANGED <<completed, active, exchanges, added, wrongly>>

\* A callback that carries an error, or lacks the code: only the server closes.
CallbackRefused(server) ==
    /\ servers[server] = "listening"
    /\ servers' = Closing(server)
    /\ UNCHANGED <<sessions, completed, active, exchanges, added, wrongly>>

\* The account is added; a server's onAccount marks the login it was started
\* for, whichever login the code belongs to.
ExchangeSucceeds(h) ==
    LET l == exchanges[h].login  s == exchanges[h].server
    IN  /\ l # NoLogin
        /\ added[l] < MaxAdded
        /\ added' = [added EXCEPT ![l] = @ + 1]
        /\ sessions' = [sessions EXCEPT ![l] = NoSession]
        /\ completed' = [x \in Logins |-> IF x \in {l, s} THEN "fresh" ELSE completed[x]]
        /\ wrongly' = IF s \in Logins \ {l} THEN wrongly \cup {s} ELSE wrongly
        /\ servers' = Closing(s)
        /\ exchanges' = [exchanges EXCEPT ![h] = NoExchange]
        /\ UNCHANGED active

\* releaseSession, if the session is still there: the user may try again.
ExchangeFails(h) ==
    LET l == exchanges[h].login
    IN  /\ l # NoLogin
        /\ sessions' = [sessions EXCEPT ![l].exchanging = FALSE]
        /\ servers' = Closing(exchanges[h].server)
        /\ exchanges' = [exchanges EXCEPT ![h] = NoExchange]
        /\ UNCHANGED <<completed, active, added, wrongly>>

-----------------------------------------------------------------------------
(* Time *)

SessionAges(l) ==
    /\ sessions[l].pending
    /\ sessions' = [sessions EXCEPT ![l].old = TRUE]
    /\ UNCHANGED <<completed, servers, active, exchanges, added, wrongly>>

CompletedAges(l) ==
    /\ completed[l] = "fresh"
    /\ completed' = [completed EXCEPT ![l] = "old"]
    /\ UNCHANGED <<sessions, servers, active, exchanges, added, wrongly>>

\* The interval that drops what is old.
Sweep ==
    /\ sessions' = [l \in Logins |-> Peeked(l)]
    /\ completed' = [l \in Logins |-> IF completed[l] = "old" THEN "none" ELSE completed[l]]
    /\ UNCHANGED <<servers, active, exchanges, added, wrongly>>

\* The two seconds of scheduleClose, or the five minutes, are over.
ServerCloses(s) ==
    /\ servers[s] \in {"listening", "closing"}
    /\ servers' = [servers EXCEPT ![s] = "closed"]
    /\ active' = IF active = s THEN NoLogin ELSE active
    /\ UNCHANGED <<sessions, completed, exchanges, added, wrongly>>

Next ==
    \/ \E l \in Logins :
          \/ StartOAuthFlow(l) \/ CallbackRefused(l) \/ ServerCloses(l)
          \/ SessionAges(l) \/ CompletedAges(l)
          \/ \E s \in Logins \cup {NoLogin} : CodeArrives(l, s) \/ CodeTooLate(l, s)
    \/ \E h \in Slots : ExchangeSucceeds(h) \/ ExchangeFails(h)
    \/ Sweep

Spec == Init /\ [][Next]_loginVars

-----------------------------------------------------------------------------
(* Properties *)

ExchangesOf(l) == {h \in Slots : exchanges[h].login = l}

\* The browser, the callback server and a pasted link may bring one code at the
\* same time, while the session expires or is swept away: it is at one token
\* request at a time, and after it gave an account never again.
CodeExchangedOnce ==
    \A l \in Logins : Cardinality(ExchangesOf(l)) + added[l] <= 1

\* Whoever is told that the login is done while nothing is under way for it has
\* an account of it; except for a login whose server took another's callback.
CompletedHasAccount ==
    \A l \in Logins \ wrongly :
        ToldSuccess(l) => added[l] > 0 \/ ExchangesOf(l) # {}

\* A new flow takes over the port: no other callback server goes on listening,
\* and the timers of a server that was replaced leave the new one alone.
OneCallbackServer ==
    \A s \in Logins : servers[s] \in {"listening", "closing"} <=> active = s
-----------------------------------------------------------------------------
(* What the properties rest on, for the proofs *)

\* A login that has not begun has nothing.
NothingBefore ==
    \A l \in Logins : servers[l] = "unused" =>
        sessions[l] = NoSession /\ ExchangesOf(l) = {} /\ added[l] = 0

\* The session of a login whose code is being exchanged, or was, is not to be had.
SessionSpent ==
    \A l \in Logins :
        /\ ExchangesOf(l) # {} => ~sessions[l].pending \/ sessions[l].exchanging
        /\ added[l] > 0 => ~sessions[l].pending

\* A code has one exchange at a time, and none after it gave an account.
OneExchange ==
    \A l \in Logins :
        /\ \A g, h \in ExchangesOf(l) : g = h
        /\ added[l] \in {0, 1}
        /\ added[l] = 1 => ExchangesOf(l) = {}

\* Who is told of an exchange is told the truth.
ToldTruth ==
    \A l \in Logins :
        /\ sessions[l].exchanging => ExchangesOf(l) # {}
        /\ completed[l] # "none" => added[l] > 0 \/ l \in wrongly

LoginsInv ==
    TypeOK /\ NothingBefore /\ SessionSpent /\ OneExchange /\ ToldTruth /\ OneCallbackServer
=============================================================================
