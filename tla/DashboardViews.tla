--------------------------- MODULE DashboardViews ---------------------------
(***************************************************************************)
(* What a page of the dashboard shows (shared/hooks/use-accounts.ts,       *)
(* use-proxies.ts, use-proxy-assignments.ts, use-request-history.ts,       *)
(* use-usage-stats.ts) while loads overlap: a load is answered with what   *)
(* the server has then, and its answer is shown whenever it arrives.       *)
(*                                                                         *)
(* Data abstraction: the server's data is the number of changes made to    *)
(* it.  The history and usage pages load what a filter selects; for them   *)
(* the number counts changes of the filter, which a load takes along when  *)
(* it is sent.  One kind of page at a time: they share nothing.            *)
(***************************************************************************)
EXTENDS Integers

CONSTANTS
    MaxChanges,   \* bound: changes of the data or of the filter
    MaxFailures   \* bound: requests that fail

VARIABLES
    page,      \* "accounts", "proxies" or "history"
    truth,     \* what the server has, or the filter chosen
    shown,     \* what the page shows, Nothing when a load failed
    loads,     \* the loads under way, two at most
    change,    \* a change asked for on the page: "none", "sent" or "done"
    failures,
    others,    \* history: the data changed, but not through this page
    crossed    \* history: an answer was shown after one asked for later

viewVars == <<page, truth, shown, loads, change, failures, others, crossed>>

Nothing == -1
Slots == {1, 2}
Other(i) == 3 - i
NoLoad == [at |-> "idle", got |-> Nothing, second |-> FALSE, overtaken |-> FALSE]
Free(i) == loads[i].at = "idle"

TypeOK ==
    /\ page \in {"accounts", "proxies", "history"}
    /\ truth \in 0 .. MaxChanges
    /\ shown \in {Nothing} \cup 0 .. MaxChanges
    /\ loads \in [Slots -> [at : {"idle", "asked", "answered"},
                            got : {Nothing} \cup 0 .. MaxChanges,
                            second : BOOLEAN, overtaken : BOOLEAN]]
    /\ change \in {"none", "sent", "done"}
    /\ failures \in 0 .. MaxFailures
    /\ {others, crossed} \subseteq BOOLEAN

\* Where what is loaded is chosen: the filter goes with the request.
Asked(second, t) == [NoLoad EXCEPT !.at = "asked", !.second = second,
                                   !.got = IF page = "history" THEN t ELSE Nothing]

Init ==
    /\ page \in {"accounts", "proxies", "history"}
    /\ truth = 0
    /\ shown = Nothing
    /\ loads = [i \in Slots |-> IF i = 1 THEN Asked(FALSE, 0) ELSE NoLoad]
    /\ change = "none"
    /\ failures = 0
    /\ others = FALSE
    /\ crossed = FALSE

LoadBegins(i) == Free(i) /\ loads' = [loads EXCEPT ![i] = Asked(~Free(Other(i)), truth')]

\* Mutant of Poll: the interval keeps the filter it was started with.
PollFirstFilter ==
    /\ page # "proxies"
    /\ UNCHANGED truth
    /\ \E i \in Slots : Free(i) /\ loads' = [loads EXCEPT ![i] = Asked(~Free(Other(i)), 0)]
    /\ UNCHANGED <<page, shown, change, failures, others, crossed>>

\* The accounts, the history and the usage are polled, the proxies are not.
Poll ==
    /\ page # "proxies"
    /\ UNCHANGED truth
    /\ \E i \in Slots : LoadBegins(i)
    /\ UNCHANGED <<page, shown, change, failures, others, crossed>>

Answered(i) ==
    /\ loads[i].at = "asked"
    /\ loads' = [loads EXCEPT ![i].at = "answered",
                              ![i].got = IF page = "history" THEN @ ELSE truth]
    /\ UNCHANGED <<page, truth, shown, change, failures, others, crossed>>

\* The load is over; one that began before it and is still under way has
\* been overtaken.
Ended(i) == [loads EXCEPT ![i] = NoLoad,
                          ![Other(i)].overtaken = @ \/ (loads[i].second /\ ~Free(Other(i))),
                          ![Other(i)].second = FALSE]

Shows(i) ==
    /\ loads[i].at = "answered"
    /\ shown' = loads[i].got
    /\ loads' = Ended(i)
    /\ crossed' = loads[i].overtaken
    /\ UNCHANGED <<page, truth, change, failures, others>>

\* The accounts and the history are emptied, the proxies stay as they were.
LoadFails(i) ==
    /\ ~Free(i) /\ failures < MaxFailures
    /\ failures' = failures + 1
    /\ shown' = IF page = "proxies" THEN shown ELSE Nothing
    /\ loads' = Ended(i)
    /\ UNCHANGED <<page, truth, change, others, crossed>>

\* A filter is chosen: the page goes back to 1 and a load begins.
SetFilter ==
    /\ page = "history" /\ truth < MaxChanges
    /\ truth' = truth + 1
    /\ \E i \in Slots : LoadBegins(i)
    /\ UNCHANGED <<page, shown, change, failures, others, crossed>>

ChangeAsked ==
    /\ page # "history" /\ change = "none" /\ truth < MaxChanges
    /\ change' = "sent"
    /\ UNCHANGED <<page, truth, shown, loads, failures, others, crossed>>

ChangeMade ==
    /\ change = "sent"
    /\ change' = "done"
    /\ truth' = truth + 1
    /\ UNCHANGED <<page, shown, loads, failures, others, crossed>>

\* Mutant of ChangeAnswered: the page is not loaded again.
ChangeAnsweredOnly ==
    /\ change = "done"
    /\ change' = "none"
    /\ UNCHANGED <<page, truth, shown, loads, failures, others, crossed>>

ChangeAnswered ==
    /\ change = "done"
    /\ change' = "none"
    /\ UNCHANGED truth
    /\ \E i \in Slots : LoadBegins(i)
    /\ UNCHANGED <<page, shown, failures, others, crossed>>

\* Refused, or the answer is lost: the page is loaded again only after a
\* check, a switch or an assignment of one proxy, whose answer is not read.
ChangeFails ==
    /\ change # "none" /\ failures < MaxFailures
    /\ failures' = failures + 1
    /\ change' = "none"
    /\ UNCHANGED truth
    /\ \/ UNCHANGED loads
       \/ page = "proxies" /\ \E i \in Slots : LoadBegins(i)
    /\ UNCHANGED <<page, shown, others, crossed>>

\* A request, a health check, another page.
ChangedElsewhere ==
    /\ page # "history" /\ change = "none" /\ truth < MaxChanges
    /\ truth' = truth + 1
    /\ others' = TRUE
    /\ UNCHANGED <<page, shown, loads, change, failures, crossed>>

Next ==
    \/ Poll
    \/ \E i \in Slots : Answered(i) \/ Shows(i) \/ LoadFails(i)
    \/ SetFilter
    \/ ChangeAsked \/ ChangeMade \/ ChangeAnswered \/ ChangeFails
    \/ ChangedElsewhere

\* Timers go off and requests end.
Spec ==
    /\ Init /\ [][Next]_viewVars
    /\ WF_viewVars(Poll) /\ WF_viewVars(ChangeMade) /\ WF_viewVars(ChangeAnswered)
    /\ \A i \in Slots : WF_viewVars(Answered(i)) /\ WF_viewVars(Shows(i))

(***************************************************************************)
(* Properties                                                              *)
(***************************************************************************)

\* A polled page shows what there is in the end, whatever order the answers
\* of its loads took.
PolledShowsTruth == page # "proxies" => shown = truth

\* The proxies, which are loaded only after a change made on the page, are
\* shown as they are once nothing is under way.  Left out: changes made
\* elsewhere, requests that failed, and two loads whose answers crossed.
AtRestShowsTruth ==
    (/\ page = "proxies" /\ change = "none" /\ \A i \in Slots : Free(i)
     /\ ~others /\ failures = 0 /\ ~crossed) => shown = truth
(***************************************************************************)
(* What the second rests on, for the proofs                                *)
(***************************************************************************)

Stale(i) == loads[i].at = "answered" /\ loads[i].got # truth

\* Of two loads under way the one that began later is marked, and nothing has
\* overtaken it.
LoadsOrdered ==
    \A i \in Slots :
        /\ loads[i].second =>
              /\ ~Free(i) /\ ~Free(Other(i))
              /\ ~loads[Other(i)].second /\ ~loads[i].overtaken
        /\ ~Free(i) /\ ~Free(Other(i)) => loads[i].second \/ loads[Other(i)].second

\* A change that is sent still fits the bound; a page with a filter makes none.
ChangeFits ==
    /\ change = "sent" => truth < MaxChanges
    /\ page = "history" => change = "none"

\* Unless a change waits for its answer, the load that began last brings the
\* truth, or has done so already.
LastLoadFresh ==
    page = "proxies" /\ ~others /\ failures = 0 /\ change # "done" =>
        /\ (\A i \in Slots : Free(i)) => crossed \/ shown = truth
        /\ \A i \in Slots :
              /\ loads[i].second => ~Stale(i)
              /\ ~Free(i) /\ Free(Other(i)) =>
                    IF loads[i].overtaken THEN shown = truth ELSE ~Stale(i)

ViewsInv == TypeOK /\ LoadsOrdered /\ ChangeFits /\ LastLoadFresh
=============================================================================
