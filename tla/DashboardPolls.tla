--------------------------- MODULE DashboardPolls ---------------------------
(***************************************************************************)
(* Two polls of the dashboard: the models offered in the picker            *)
(* (shared/hooks/use-status.ts), started again whenever the number of      *)
(* accounts changes, and the wait for the server to restart after an       *)
(* update (shared/hooks/use-update-status.ts).                             *)
(*                                                                         *)
(* Data abstraction: one page at a time, which is mounted all along.  Of a *)
(* model only its name is kept.                                            *)
(***************************************************************************)
EXTENDS FiniteSets, Naturals

CONSTANTS
    Names,      \* names of models
    NoName,
    MaxStarts,  \* bound: the effect runs that often
    MaxChanges  \* bound: changes of the catalogue, of the selection, failures

VARIABLES
    page,      \* "models" or "update"
    offered,   \* what the server has: the catalogue and its default
    listed,    \* models, as the page shows them
    selected,  \* selectedModel
    effects,   \* the runs of the effect, and the catalogue each has loaded
    changes,
    phase,     \* the update: see Phases
    serverUp,
    polled     \* whether a request for /health is under way

pollVars == <<page, offered, listed, selected, effects, changes, phase, serverUp, polled>>

Starts == 1 .. MaxStarts
Catalogues == {c \in [names : SUBSET Names, default : Names] : c.default \in c.names}
NoCatalogue == [names |-> {}, default |-> NoName]

\* A run asks for the status, loads and then polls; one that is torn down
\* before its interval exists goes on to set it, and nobody clears it.
EffectStates == {"unused", "asking", "loading", "polling", "over"}
NoEffect == [at |-> "unused", torn |-> FALSE, catalogue |-> NoCatalogue, initial |-> FALSE]
Fetching(e) == effects[e].at \in {"loading", "polling"}

Phases == {"idle", "applying", "delay", "polling", "reloaded", "failed"}

TypeOK ==
    /\ page \in {"models", "update"}
    /\ offered \in Catalogues
    /\ listed \subseteq Names
    /\ selected \in Names \cup {NoName}
    /\ effects \in [Starts -> [at : EffectStates, torn : BOOLEAN, initial : BOOLEAN,
                               catalogue : Catalogues \cup {NoCatalogue}]]
    /\ changes \in 0 .. MaxChanges
    /\ phase \in Phases
    /\ {serverUp, polled} \subseteq BOOLEAN

Begun == [NoEffect EXCEPT !.at = "asking", !.initial = TRUE]

Init ==
    /\ page \in {"models", "update"}
    /\ offered \in IF page = "models" THEN Catalogues ELSE {CHOOSE c \in Catalogues : TRUE}
    /\ listed = {}
    /\ selected = NoName
    /\ effects = [e \in Starts |-> IF e = 1 THEN Begun ELSE NoEffect]
    /\ changes = 0
    /\ phase = "idle"
    /\ serverUp = TRUE
    /\ polled = FALSE

modelVars == <<offered, listed, selected, effects>>
restartVars == <<phase, serverUp, polled>>

(***************************************************************************)
(* The picker                                                              *)
(***************************************************************************)

Changes == changes < MaxChanges /\ changes' = changes + 1

CatalogueChanges ==
    /\ page = "models" /\ Changes
    /\ offered' \in Catalogues \ {offered}
    /\ UNCHANGED <<page, listed, selected, effects, restartVars>>

Selects ==
    /\ page = "models" /\ Changes
    /\ selected' \in listed \ {selected}
    /\ UNCHANGED <<page, offered, listed, effects, restartVars>>

\* The run in force is torn down: its interval is cleared if it has one.
TornDown(x) ==
    [x EXCEPT !.torn = (x.at # "unused"),
              !.at = IF @ = "polling" /\ ~x.torn THEN "over" ELSE @]

CountChanges(e) ==
    /\ page = "models"
    /\ e - 1 \in Starts /\ effects[e - 1].at # "unused" /\ effects[e].at = "unused"
    /\ effects' = [x \in Starts |-> IF x = e THEN Begun ELSE TornDown(effects[x])]
    /\ UNCHANGED <<page, offered, listed, selected, changes, restartVars>>

\* /auth/status says that there is an account to ask with.
StatusAnswered(e) ==
    /\ page = "models" /\ effects[e].at = "asking"
    /\ effects' = [effects EXCEPT ![e].at = "loading"]
    /\ UNCHANGED <<page, offered, listed, selected, changes, restartVars>>

\* It fails, or there is none: the run ends with no load and no interval.
StatusFails(e) ==
    /\ page = "models" /\ effects[e].at = "asking" /\ Changes
    /\ effects' = [effects EXCEPT ![e].at = "over"]
    /\ UNCHANGED <<page, offered, listed, selected, restartVars>>

\* fetchModels asks for the catalogue, then for the list.
CatalogueLoaded(e) ==
    /\ page = "models" /\ Fetching(e)
    /\ effects[e].catalogue = NoCatalogue
    /\ effects' = [effects EXCEPT ![e].catalogue = offered]
    /\ UNCHANGED <<page, offered, listed, selected, changes, restartVars>>

\* fetchModels catches its errors: failed or not, the interval is set after the first load.
LoadOver(e) ==
    effects' = [effects EXCEPT
        ![e].catalogue = NoCatalogue, ![e].initial = FALSE, ![e].at = "polling"]

\* Mutant of Selection: a refresh never looks at the selection.
SelectionKept(e) == IF effects[e].initial THEN effects[e].catalogue.default ELSE selected

\* The first load selects the default, a later one only if it has to.
Selection(e) ==
    IF ~effects[e].initial /\ selected \in offered.names THEN selected
    ELSE effects[e].catalogue.default

ListLoaded(e) ==
    /\ page = "models"
    /\ effects[e].catalogue # NoCatalogue
    /\ listed' = offered.names
    /\ selected' = Selection(e)
    /\ LoadOver(e)
    /\ UNCHANGED <<page, offered, changes, restartVars>>

LoadFails(e) ==
    /\ page = "models" /\ Fetching(e) /\ Changes
    /\ listed' = IF effects[e].initial THEN {} ELSE listed
    /\ LoadOver(e)
    /\ UNCHANGED <<page, offered, selected, restartVars>>

(***************************************************************************)
(* The restart                                                             *)
(***************************************************************************)

ApplyUpdate ==
    /\ page = "update" /\ phase \in {"idle", "failed"} /\ Changes
    /\ phase' = "applying"
    /\ UNCHANGED <<page, serverUp, polled, modelVars>>

\* The stream ends with an error, with the news of a restart, or is lost.
ApplyEnds ==
    /\ phase = "applying"
    /\ phase' \in {"idle", "delay"}
    /\ UNCHANGED <<page, changes, serverUp, polled, modelVars>>

ServerMoves ==
    /\ page = "update" /\ phase # "idle" /\ Changes
    /\ serverUp' = ~serverUp
    /\ UNCHANGED <<page, phase, polled, modelVars>>

DelayOver ==
    /\ phase = "delay"
    /\ phase' = "polling"
    /\ UNCHANGED <<page, changes, serverUp, polled, modelVars>>

HealthAsked ==
    /\ phase = "polling" /\ ~polled
    /\ polled' = TRUE
    /\ UNCHANGED <<page, changes, phase, serverUp, modelVars>>

\* An answer reloads the page, even when the wait has been given up.
HealthAnswered ==
    /\ polled
    /\ polled' = FALSE
    /\ phase' = IF serverUp THEN "reloaded" ELSE phase
    /\ UNCHANGED <<page, changes, serverUp, modelVars>>

\* Mutant of GivesUp: the timer of the first delay is not replaced.
NeverGivesUp == FALSE /\ UNCHANGED pollVars

\* RESTART_TIMEOUT
GivesUp ==
    /\ phase = "polling"
    /\ phase' = "failed"
    /\ UNCHANGED <<page, changes, serverUp, polled, modelVars>>

Next ==
    \/ CatalogueChanges
    \/ Selects
    \/ \E e \in Starts :
          \/ CountChanges(e) \/ StatusAnswered(e) \/ StatusFails(e)
          \/ CatalogueLoaded(e) \/ ListLoaded(e) \/ LoadFails(e)
    \/ ApplyUpdate \/ ApplyEnds
    \/ ServerMoves
    \/ DelayOver \/ HealthAsked \/ HealthAnswered \/ GivesUp

\* Timers go off and requests end.
Spec ==
    /\ Init /\ [][Next]_pollVars
    /\ \A e \in Starts :
          /\ WF_pollVars(StatusAnswered(e) \/ StatusFails(e))
          /\ WF_pollVars(CatalogueLoaded(e)) /\ WF_pollVars(ListLoaded(e))
    /\ WF_pollVars(ApplyEnds) /\ WF_pollVars(DelayOver)
    /\ WF_pollVars(HealthAsked) /\ WF_pollVars(HealthAnswered) /\ WF_pollVars(GivesUp)

(***************************************************************************)
(* Properties                                                              *)
(***************************************************************************)

\* The run in force ended at /auth/status: nothing is asked for any more on its behalf.
Unauthenticated == \E e \in Starts : effects[e].at = "over" /\ ~effects[e].torn

\* However often the effect ran and in whatever order its loads end or fail, the
\* picker comes to show what is offered with one of those models selected.  The
\* code does not ensure it when /auth/status failed or found no account for the
\* latest run: that one never polls, until the number of accounts changes again.
PickerRight ==
    page = "models" /\ ~Unauthenticated => listed = offered.names /\ selected \in listed

\* The page does not wait for a restart for ever.
Waiting == phase \in {"applying", "delay", "polling"}
=============================================================================
