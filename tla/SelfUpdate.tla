----------------------------- MODULE SelfUpdate -----------------------------
(***************************************************************************)
(* The proxy's own updates (src/self-update.ts, src/routes/admin/          *)
(* update.ts): periodic and manual checks, the pull, install and build of  *)
(* a checkout, and the restart of the server half a second later.          *)
(*                                                                         *)
(* Data abstraction: commits and releases are numbered in the order they   *)
(* appear; the commit list, changelog and progress reports are left out,   *)
(* and so is what `git checkout -- .` throws away.  Commands that outlive  *)
(* the process that started them run on.                                   *)
(***************************************************************************)
EXTENDS Integers

CONSTANTS
    Latest,       \* bound: the last commit or release that appears
    MaxFailures,  \* bound: commands, requests and processes that fail
    MaxAsked      \* bound: checks and updates asked for at the dashboard

VARIABLES
    mode,     \* getDeployMode: "git", "docker" or "electron"
    auto,     \* update.auto_update
    origin,   \* the newest commit of origin/master, or the newest release
    disk,     \* the checkout: its commit, the ref fetched, what was built
    image,    \* the newest release when the Docker image was built
    server,   \* the process and the module's variables
    checks,   \* checkProxySelfUpdate under way, by who asked
    behind,   \* what each of them counted
    pipes,    \* applyProxySelfUpdate under way, by who asked
    failures,
    asked,
    hurried   \* history: an update began while a restart was pending

updateVars == <<mode, auto, origin, disk, image, server, checks, behind, pipes,
                failures, asked, hurried>>

Who == {"timer", "dashboard"}
Modes == {"git", "docker", "electron"}

\* Where a check waits: for the fetch or the release, the count, the log.
CheckSteps == {"idle", "fetch", "count", "log"}

Torn == -1                       \* a build that was cut short or is running

TypeOK ==
    /\ mode \in Modes
    /\ auto \in BOOLEAN
    /\ {origin, image, failures, asked} \subseteq Nat
    /\ disk \in [head : Nat, fetched : Nat, built : {Torn} \cup Nat]
    /\ server \in [up : BOOLEAN, loaded : {Torn} \cup Nat, updating : BOOLEAN,
                   checking : BOOLEAN, offered : Nat, timers : Nat, closing : BOOLEAN]
    /\ checks \in [Who -> CheckSteps]
    /\ behind \in [Who -> Int]
    /\ pipes \in [Who -> {"idle", "pull", "install", "build"}]
    /\ hurried \in BOOLEAN

NewServer(version) ==
    [up |-> TRUE, loaded |-> version, updating |-> FALSE, checking |-> FALSE,
     offered |-> 0, timers |-> 0, closing |-> FALSE]

\* A checkout starts at the newest commit; an image may be of an older
\* release, or be named after a version that was never released.
Init ==
    /\ mode \in Modes
    /\ auto \in BOOLEAN
    /\ origin \in 0 .. 1
    /\ disk = [head |-> origin, fetched |-> origin, built |-> origin]
    /\ \E version \in IF mode = "git" THEN {origin} ELSE 0 .. 2 :
         server = NewServer(version)
    /\ image \in 0 .. origin
    /\ checks = [w \in Who |-> "idle"]
    /\ behind = [w \in Who |-> 0]
    /\ pipes = [w \in Who |-> "idle"]
    /\ failures = 0
    /\ asked = 0
    /\ hurried = FALSE

Published ==
    /\ origin < Latest
    /\ origin' = origin + 1
    /\ UNCHANGED <<mode, auto, disk, image, server, checks, behind, pipes, failures,
                   asked, hurried>>

\* The end of runCheck clears _checking; a check of the dashboard has no flag.
Released(w, s) == IF w = "timer" THEN [s EXCEPT !.checking = FALSE] ELSE s

MayAsk(w) ==
    IF w = "timer" THEN ~server.checking /\ mode # "electron" /\ asked' = asked
                   ELSE asked < MaxAsked /\ asked' = asked + 1

CheckBegins(w) ==
    /\ server.up /\ checks[w] = "idle" /\ MayAsk(w)
    /\ checks' = [checks EXCEPT ![w] = "fetch"]
    /\ server' = [server EXCEPT !.checking = @ \/ w = "timer"]
    /\ UNCHANGED <<mode, auto, origin, disk, image, behind, pipes, failures, hurried>>

\* Mutant of ReleaseIsNewer: any other version is offered.
ReleaseIsOther == origin # server.loaded

\* The version is higher, and the image is not younger than the release.
ReleaseIsNewer ==
    /\ origin > server.loaded
    /\ mode = "docker" => image < origin

ReleaseAnswered(w) ==
    /\ server.up /\ mode # "git" /\ checks[w] = "fetch"
    /\ \E ok \in BOOLEAN :
         /\ ok \/ failures < MaxFailures
         /\ failures' = IF ok THEN failures ELSE failures + 1
         /\ server' = Released(w, [server EXCEPT
                        !.offered = IF ok /\ ReleaseIsNewer THEN 1 ELSE 0])
    /\ checks' = [checks EXCEPT ![w] = "idle"]
    /\ UNCHANGED <<mode, auto, origin, disk, image, behind, pipes, asked, hurried>>

Fetched(w) ==
    /\ server.up /\ mode = "git" /\ checks[w] = "fetch"
    /\ disk' = [disk EXCEPT !.fetched = origin]
    /\ checks' = [checks EXCEPT ![w] = "count"]
    /\ UNCHANGED <<mode, auto, origin, image, server, behind, pipes, failures, asked, hurried>>

FetchFails(w) ==
    /\ server.up /\ mode = "git" /\ checks[w] = "fetch"
    /\ failures < MaxFailures
    /\ failures' = failures + 1
    /\ checks' = [checks EXCEPT ![w] = "idle"]
    /\ server' = Released(w, [server EXCEPT !.offered = 0])
    /\ UNCHANGED <<mode, auto, origin, disk, image, behind, pipes, asked, hurried>>

\* rev-list; the log and the changelog are still to be read.
Counted(w) ==
    /\ server.up /\ checks[w] = "count"
    /\ behind' = [behind EXCEPT ![w] = disk.fetched - disk.head]
    /\ checks' = [checks EXCEPT ![w] = "log"]
    /\ UNCHANGED <<mode, auto, origin, disk, image, server, pipes, failures, asked, hurried>>

RestartPending == server.timers > 0 \/ server.closing

\* The result is cached; a periodic check goes on to the update.
CheckEnds(w) ==
    /\ server.up /\ checks[w] = "log"
    /\ checks' = [checks EXCEPT ![w] = "idle"]
    /\ LET seen == [server EXCEPT !.offered = behind[w]] IN
         IF w = "timer" /\ auto /\ behind[w] > 0 /\ ~server.updating
         THEN /\ pipes' = [pipes EXCEPT ![w] = "pull"]
              /\ server' = [seen EXCEPT !.updating = TRUE]
              /\ hurried' = (hurried \/ RestartPending)
         ELSE /\ server' = Released(w, seen)
              /\ UNCHANGED <<pipes, hurried>>
    /\ UNCHANGED <<mode, auto, origin, disk, image, behind, failures, asked>>

\* Mutant of MayApply: the flag is not looked at.
MayApplyAnyway == server.up /\ mode = "git"

MayApply == server.up /\ mode = "git" /\ ~server.updating

ApplyAsked ==
    /\ MayApply /\ pipes["dashboard"] = "idle"
    /\ asked < MaxAsked
    /\ asked' = asked + 1
    /\ pipes' = [pipes EXCEPT !["dashboard"] = "pull"]
    /\ server' = [server EXCEPT !.updating = TRUE]
    /\ hurried' = (hurried \/ RestartPending)
    /\ UNCHANGED <<mode, auto, origin, disk, image, checks, behind, failures>>

Pulled(w) ==
    /\ server.up /\ pipes[w] = "pull"
    /\ disk' = [disk EXCEPT !.head = origin, !.fetched = origin]
    /\ pipes' = [pipes EXCEPT ![w] = "install"]
    /\ UNCHANGED <<mode, auto, origin, image, server, checks, behind, failures, asked, hurried>>

Installed(w) ==
    /\ server.up /\ pipes[w] = "install"
    /\ pipes' = [pipes EXCEPT ![w] = "build"]
    /\ UNCHANGED <<mode, auto, origin, disk, image, server, checks, behind, failures,
                   asked, hurried>>

\* Mutant of Built: the restart is not scheduled.
BuiltOnly(w) ==
    /\ server.up /\ pipes[w] = "build"
    /\ disk' = [disk EXCEPT !.built = disk.head]
    /\ pipes' = [pipes EXCEPT ![w] = "idle"]
    /\ server' = Released(w, [server EXCEPT !.updating = FALSE])
    /\ UNCHANGED <<mode, auto, origin, image, checks, behind, failures, asked, hurried>>

\* The flag is cleared before the timer that restarts the server.
Built(w) ==
    /\ server.up /\ pipes[w] = "build"
    /\ disk' = [disk EXCEPT !.built = disk.head]
    /\ pipes' = [pipes EXCEPT ![w] = "idle"]
    /\ server' = Released(w, [server EXCEPT !.updating = FALSE, !.timers = @ + 1])
    /\ UNCHANGED <<mode, auto, origin, image, checks, behind, failures, asked, hurried>>

\* Mutant of Failed: the flag stays set.
FailedInProgress(w) == Released(w, server)

Failed(w) == Released(w, [server EXCEPT !.updating = FALSE])

ApplyFails(w) ==
    /\ server.up /\ pipes[w] # "idle" /\ failures < MaxFailures
    /\ failures' = failures + 1
    /\ pipes' = [pipes EXCEPT ![w] = "idle"]
    /\ server' = Failed(w)
    /\ \E b \in IF pipes[w] = "build" THEN {disk.built, Torn} ELSE {disk.built} :
         disk' = [disk EXCEPT !.built = b]
    /\ UNCHANGED <<mode, auto, origin, image, checks, behind, asked, hurried>>

RestartDue ==
    /\ server.up /\ server.timers > 0
    /\ server' = [server EXCEPT !.timers = @ - 1, !.closing = TRUE]
    /\ UNCHANGED <<mode, auto, origin, disk, image, checks, behind, pipes, failures,
                   asked, hurried>>

\* A new process runs what is built at that moment.  Commands of the old
\* one run on: a pull may still move the checkout, a build may still end.
Starts ==
    LET building == \E w \in Who : pipes[w] = "build"
        pulling == \E w \in Who : pipes[w] = "pull" IN
    /\ server' = NewServer(IF mode # "git" THEN server.loaded
                           ELSE IF building THEN Torn ELSE disk.built)
    /\ \E h \in IF pulling THEN {disk.head, origin} ELSE {disk.head},
          b \in IF building THEN {disk.head, Torn} ELSE {disk.built} :
         disk' = [disk EXCEPT !.head = h, !.built = b]
    /\ checks' = [w \in Who |-> "idle"]
    /\ pipes' = [w \in Who |-> "idle"]
    /\ UNCHANGED <<mode, auto, origin, image, behind, asked, hurried>>

\* hardRestart, when the server is closed or three seconds have passed.
Restarts == server.up /\ server.closing /\ Starts /\ UNCHANGED failures

\* There is no Node executable any more: the server stays closed.
RestartAborted ==
    /\ server.up /\ server.closing /\ failures < MaxFailures
    /\ failures' = failures + 1
    /\ server' = [server EXCEPT !.up = FALSE]
    /\ UNCHANGED <<mode, auto, origin, disk, image, checks, behind, pipes, asked, hurried>>

Killed ==
    /\ server.up /\ failures < MaxFailures
    /\ failures' = failures + 1
    /\ Starts

Progress ==
    \/ CheckBegins("timer")
    \/ \E w \in Who :
         \/ ReleaseAnswered(w) \/ Fetched(w) \/ Counted(w) \/ CheckEnds(w)
         \/ Pulled(w) \/ Installed(w) \/ Built(w)
    \/ RestartDue
    \/ Restarts

Next ==
    \/ Published
    \/ CheckBegins("dashboard")
    \/ ApplyAsked
    \/ \E w \in Who : FetchFails(w) \/ ApplyFails(w)
    \/ RestartAborted
    \/ Killed
    \/ Progress

Spec ==
    /\ Init /\ [][Next]_updateVars
    /\ WF_updateVars(CheckBegins("timer"))
    /\ \A w \in Who : /\ WF_updateVars(ReleaseAnswered(w))
                      /\ WF_updateVars(Fetched(w))
                      /\ WF_updateVars(Counted(w))
                      /\ WF_updateVars(CheckEnds(w))
                      /\ WF_updateVars(Pulled(w))
                      /\ WF_updateVars(Installed(w))
                      /\ WF_updateVars(Built(w))
    /\ WF_updateVars(RestartDue)
    /\ WF_updateVars(Restarts)

(***************************************************************************)
(* Properties                                                              *)
(***************************************************************************)

\* A server never runs a build that was cut short, unless a command failed or
\* an update began in the half second (and the close) before a restart.
RunsWholeBuild == failures = 0 /\ ~hurried => server.loaded # Torn

\* Two updates of one process are never at work in the checkout.
OnePipeline == \A w \in Who : pipes[w] # "idle" => \A x \in Who \ {w} : pipes[x] = "idle"

\* What an image is offered is newer than what it runs.
OfferIsNewer ==
    mode # "git" /\ server.up /\ server.offered > 0 =>
      /\ server.loaded < origin
      /\ mode = "docker" => image < origin

\* With automatic updates the newest commit runs in the end.  Left out: a
\* server that could not restart, a checkout pulled but not built (the next
\* check finds it up to date and leaves it so), and a server that was started
\* while a build was running.
Arrived ==
    mode = "git" /\ auto =>
      \/ server.loaded = origin
      \/ ~server.up
      \/ disk.head = origin /\ disk.built # origin
      \/ server.loaded = Torn
(***************************************************************************)
(* What the first three rest on, for the proofs                            *)
(***************************************************************************)

\* The flag is set exactly while a pipeline works, and there is none while a
\* restart is pending, unless one began in a hurry.
FlagExact ==
    /\ server.updating <=> \E w \in Who : pipes[w] # "idle"
    /\ RestartPending /\ ~hurried => \A w \in Who : pipes[w] = "idle"

\* A build is torn only by a failure or in a hurry.
BuildWhole == failures = 0 /\ ~hurried => disk.built # Torn

\* Only a checkout fetches, counts and pulls; what it counts is not negative.
CountsSound ==
    /\ disk.head <= origin
    /\ \A w \in Who :
          /\ checks[w] = "count" => disk.head <= disk.fetched
          /\ checks[w] = "log" => behind[w] >= 0
          /\ mode # "git" => checks[w] \in {"idle", "fetch"} /\ pipes[w] = "idle"

UpdatesInv ==
    /\ TypeOK /\ OnePipeline /\ FlagExact
    /\ BuildWhole /\ RunsWholeBuild
    /\ CountsSound /\ OfferIsNewer
=============================================================================
