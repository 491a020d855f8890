-------------------------- MODULE DashboardAccess ---------------------------
(***************************************************************************)
(* Logins to the dashboard (src/auth/dashboard-session.ts, src/routes/     *)
(* dashboard-login.ts, src/middleware/dashboard-auth.ts): sessions that    *)
(* end, and failed logins counted over a check that an await separates     *)
(* from the count.                                                         *)
(*                                                                         *)
(* Data abstraction: one address and one browser of it.  Requests that     *)
(* need no session do not appear.                                          *)
(***************************************************************************)
EXTENDS Naturals

CONSTANTS
    MaxAttempts,  \* MAX_ATTEMPTS of failed logins
    LoginWindow,  \* WINDOW_MS
    SessionTime,  \* session.ttl_minutes
    MaxWaiting,   \* bound: logins whose body is being read
    MaxTime       \* bound: the clock stops here

VARIABLES
    hour,      \* the clock
    failures,  \* failedAttempts: count and resetAt; a count of 0 is no entry
    waiting,   \* logins that passed the check and await their body
    session,   \* whether the session is in the Map, and until when it lasts
    answer,    \* what the last request was told: "none", "in" or "out"
    made,      \* history: when the last login succeeded, 0 if logged out since
    tries      \* history: failed logins since the window began

accessVars == <<hour, failures, waiting, session, answer, made, tries>>

TypeOK ==
    /\ hour \in 1 .. MaxTime
    /\ failures \in [count : Nat, until : 0 .. MaxTime + LoginWindow]
    /\ waiting \in 0 .. MaxWaiting
    /\ session \in [stored : BOOLEAN, until : 0 .. MaxTime + SessionTime]
    /\ answer \in {"none", "in", "out"}
    /\ made \in 0 .. MaxTime
    /\ tries \in Nat

NoFailures == [count |-> 0, until |-> 0]
NoSession == [stored |-> FALSE, until |-> 0]

Init ==
    /\ hour = 1
    /\ failures = NoFailures
    /\ waiting = 0
    /\ session = NoSession
    /\ answer = "none"
    /\ made = 0
    /\ tries = 0

WindowOpen == failures.count > 0 /\ hour <= failures.until

\* checkRateLimit forgets a window that is over; then the body is awaited.
LoginArrives ==
    /\ waiting < MaxWaiting
    /\ WindowOpen => failures.count < MaxAttempts
    /\ failures' = IF WindowOpen THEN failures ELSE NoFailures
    /\ waiting' = waiting + 1
    /\ answer' = "none"
    /\ UNCHANGED <<hour, session, made, tries>>

\* Mutant of Counted: the failure is counted as the check saw it.
CountedAfresh == [count |-> 1, until |-> hour + LoginWindow]

\* recordFailure looks at the window again.
Counted ==
    IF WindowOpen THEN [failures EXCEPT !.count = @ + 1]
    ELSE [count |-> 1, until |-> hour + LoginWindow]

LoginFails ==
    /\ waiting > 0
    /\ waiting' = waiting - 1
    /\ failures' = Counted
    /\ tries' = IF WindowOpen THEN tries + 1 ELSE 1
    /\ answer' = "none"
    /\ UNCHANGED <<hour, session, made>>

\* A right password.
LoginSucceeds ==
    /\ waiting > 0
    /\ waiting' = waiting - 1
    /\ session' = [stored |-> TRUE, until |-> hour + SessionTime]
    /\ made' = hour
    /\ answer' = "none"
    /\ UNCHANGED <<hour, failures, tries>>

\* A body that is no JSON, or lacks the password, is not counted.
LoginUnreadable ==
    /\ waiting > 0
    /\ waiting' = waiting - 1
    /\ answer' = "none"
    /\ UNCHANGED <<hour, failures, session, made, tries>>

\* The cookie is deleted with the session.
Logout ==
    /\ session' = NoSession
    /\ made' = 0
    /\ answer' = "none"
    /\ UNCHANGED <<hour, failures, waiting, tries>>

Valid == session.stored /\ hour <= session.until

\* dashboardAuth or dashboard-status: validateSession drops what is over.
AsksWithSession ==
    /\ answer' = IF Valid THEN "in" ELSE "out"
    /\ session' = IF Valid THEN session ELSE NoSession
    /\ UNCHANGED <<hour, failures, waiting, made, tries>>

\* cleanupExpired, by its timer
Cleanup ==
    /\ session.stored /\ ~Valid
    /\ session' = NoSession
    /\ UNCHANGED <<hour, failures, waiting, answer, made, tries>>

Restart ==
    /\ session' = NoSession /\ failures' = NoFailures
    /\ waiting' = 0 /\ made' = 0 /\ tries' = 0
    /\ answer' = "none"
    /\ UNCHANGED hour

Tick ==
    /\ hour < MaxTime
    /\ hour' = hour + 1
    /\ answer' = "none"
    /\ UNCHANGED <<failures, waiting, session, made, tries>>

Next ==
    \/ LoginArrives \/ LoginFails \/ LoginSucceeds \/ LoginUnreadable \/ Logout
    \/ AsksWithSession \/ Cleanup \/ Restart \/ Tick

Spec == Init /\ [][Next]_accessVars

-----------------------------------------------------------------------------
(* Properties *)

\* A request is let in exactly from a login until its time is over, a logout or
\* a restart, whenever the cleanup runs; and a window of failed logins counts
\* each failure in it, those of logins that passed the check before as well, so
\* that it holds at most the limit and those that were already waiting.
AccessSound ==
    /\ answer = "in" => made > 0 /\ hour <= made + SessionTime
    /\ answer = "out" => made = 0 \/ hour > made + SessionTime
    /\ WindowOpen => failures.count = tries
    /\ WindowOpen => failures.count + waiting <= MaxAttempts - 1 + MaxWaiting
-----------------------------------------------------------------------------
(* What the property rests on, for the proofs: the session is the one of   *)
(* the last login, and it is gone only when that one is over.              *)

AccessInv ==
    /\ TypeOK /\ AccessSound
    /\ session.stored => made > 0 /\ session.until = made + SessionTime
    /\ ~session.stored => made = 0 \/ hour > made + SessionTime
=============================================================================
