------------------------------ MODULE Settings ------------------------------
(***************************************************************************)
(* The running configuration (src/config.ts, src/config-loader.ts,         *)
(* src/utils/yaml-mutate.ts), the settings saved from the dashboard        *)
(* (src/routes/admin/settings.ts) and the client version taken from the    *)
(* appcast (src/update-checker.ts), which a reload of the files undoes.    *)
(*                                                                         *)
(* Data abstraction: one setting of each kind.  Two of the server section  *)
(* (the API key, a number from the environment's PORT), two of the tls     *)
(* section (proxy_url, which HTTPS_PROXY fills in only while the file has  *)
(* none, and one whose type no handler checks), the rotation strategy of   *)
(* the auth section and a threshold of the quota section.  Values are      *)
(* numbers, 0 the default (and no key); versions are numbered as the       *)
(* appcast gives them.                                                     *)
(***************************************************************************)
EXTENDS Integers

CONSTANTS
    Posts,       \* settings requests under way at a time
    Checks,      \* appcast checks under way at a time
    EnvPort,     \* PORT, or NotSet
    EnvProxy,    \* HTTPS_PROXY, or NotSet
    MaxVersion,  \* bound: the last version published
    MaxPosts     \* bound: requests that are sent

VARIABLES
    local,     \* data/local.yaml, or Broken
    config,    \* _config
    baseline,  \* client.app_version of config/default.yaml
    override,  \* data/version-state.json, 0 when missing
    version,   \* client.app_version of _config
    appcast,   \* the version published
    posts,     \* requests whose body is awaited, with the key they saw
    checks,    \* the checks: the version they saw and the one they got
    child,     \* _updateInProgress: the full update runs
    sent,      \* number of requests
    saved,     \* history: the settings accepted last
    cleared,   \* history: a remote request took away a key
    keyMoved,  \* history: the key changed while a request's body was read
    reloaded   \* history: files were read since a version was applied

settingsVars == <<local, config, baseline, override, version, appcast, posts, checks,
                  child, sent, saved, cleared, keyMoved, reloaded>>

Fields == {"key", "port", "proxy", "http11", "strategy", "warn"}
Section(f) == CASE f \in {"key", "port"} -> "server"
                [] f \in {"proxy", "http11"} -> "tls"
                [] f = "strategy" -> "auth"
                [] f = "warn" -> "quota"

NotSet == -1
Unfit == 9       \* a value the schema refuses
Broken == [f \in Fields |-> -2]   \* text that is no YAML

Idle == [key |-> NotSet]
NoCheck == [saw |-> NotSet, got |-> NotSet]
Reading(p) == posts[p] # Idle

\* loadMergedConfig writes the file with a key when there is none.
FirstLocal == [f \in Fields |-> IF f = "key" THEN 1 ELSE NotSet]

\* deepMerge; a file that cannot be read is passed over.
Merged(file) ==
    [f \in Fields |-> IF file # Broken /\ file[f] # NotSet THEN file[f] ELSE 0]

\* applyEnvOverrides
Effective(file) ==
    [Merged(file) EXCEPT
        !["port"] = IF EnvPort # NotSet THEN EnvPort ELSE @,
        !["proxy"] = IF (file = Broken \/ file["proxy"] = NotSet) /\ EnvProxy # NotSet
                     THEN EnvProxy ELSE @]

Parses(c) == \A f \in Fields : c[f] # Unfit

TypeOK ==
    /\ local \in [Fields -> {-2, NotSet, 0, 1, 2, Unfit}]
    /\ config \in [Fields -> Nat]
    /\ {baseline, override, version, appcast, sent} \subseteq Nat
    /\ posts \in [Posts -> [key : {NotSet} \cup Nat]]
    /\ checks \in [Checks -> [saw : {NotSet} \cup Nat, got : {NotSet} \cup Nat]]
    /\ saved \in [Fields -> {NotSet} \cup Nat]
    /\ {child, cleared, keyMoved, reloaded} \subseteq BOOLEAN

Init ==
    /\ local = FirstLocal
    /\ config = Effective(FirstLocal)
    /\ baseline = 1
    /\ override = 0
    /\ version = 1
    /\ appcast = 1
    /\ posts = [p \in Posts |-> Idle]
    /\ checks = [c \in Checks |-> NoCheck]
    /\ child = FALSE
    /\ sent = 0
    /\ saved = FirstLocal
    /\ cleared = FALSE
    /\ keyMoved = FALSE
    /\ reloaded = FALSE

fileVars == <<local, config, posts, sent, saved, cleared, keyMoved>>
versionVars == <<baseline, override, version, appcast, checks, child, reloaded>>

(***************************************************************************)
(* Settings                                                                *)
(***************************************************************************)

\* A handler takes the key in force, then awaits the body.
PostArrives(p) ==
    /\ ~Reading(p) /\ sent < MaxPosts
    /\ posts' = [posts EXCEPT ![p] = [key |-> config["key"]]]
    /\ sent' = sent + 1
    /\ UNCHANGED <<local, config, saved, cleared, keyMoved, versionVars>>

\* reloadConfig: the running configuration changes only if the files parse.
Reload(file) ==
    IF Parses(Effective(file))
    THEN /\ config' = Effective(file)
         /\ version' = baseline
         /\ reloaded' = TRUE
    ELSE UNCHANGED <<config, version, reloaded>>

\* A request changes one setting.
Only(f, value) == [g \in {f} |-> value]

\* Mutant of Patched: the section is begun anew.
PatchedAnew(file, patch) ==
    [f \in Fields |->
        IF f \in DOMAIN patch THEN patch[f]
        ELSE IF \E g \in DOMAIN patch : Section(g) = Section(f) THEN NotSet ELSE file[f]]

\* The mutators of the handlers: one setting, the rest of its section is kept.
Patched(file, patch) == [f \in Fields |-> IF f \in DOMAIN patch THEN patch[f] ELSE file[f]]

\* mutateYaml gives up on a file it cannot read.
Save(p, patch) ==
    /\ posts' = [posts EXCEPT ![p] = Idle]
    /\ IF local = Broken
       THEN UNCHANGED <<local, config, version, reloaded, saved, keyMoved>>
       ELSE /\ local' = Patched(local, patch)
            /\ Reload(Patched(local, patch))
            /\ saved' = [f \in Fields |-> IF f \in DOMAIN patch THEN patch[f] ELSE saved[f]]
            /\ keyMoved' = (keyMoved \/ \E q \in Posts \ {p} :
                              Reading(q) /\ posts[q].key # config'["key"])
    /\ UNCHANGED <<sent, baseline, override, appcast, checks, child>>

\* Mutant of MayClear: the address is not looked at.
MayClearAnyway(p, remote) == TRUE

MayClear(p, remote) == remote => posts[p].key = 0

\* A body without a key puts back the key the request saw.
SaveKey(p) ==
    /\ Reading(p)
    /\ \E remote \in BOOLEAN, key \in {0, 2, posts[p].key} :
         /\ key = 0 => MayClear(p, remote)
         /\ Save(p, Only("key", key))
         /\ cleared' = (cleared \/ (remote /\ config["key"] # 0 /\ config'["key"] = 0))

\* port and proxy_url are checked, the type of force_http11 is not.
SaveGeneral(p) ==
    /\ Reading(p)
    /\ \/ Save(p, Only("port", 1))
       \/ \E u \in {0, 1} : Save(p, Only("proxy", u))
       \/ \E h \in {0, 1, Unfit} : Save(p, Only("http11", h))
    /\ UNCHANGED cleared

SaveRotation(p) ==
    /\ Reading(p)
    /\ Save(p, Only("strategy", 1))
    /\ UNCHANGED cleared

SaveQuota(p) ==
    /\ Reading(p)
    /\ Save(p, Only("warn", 1))
    /\ UNCHANGED cleared

\* A wrong key, a value that is refused, or a body that is no JSON.
Refused(p) ==
    /\ Reading(p)
    /\ posts' = [posts EXCEPT ![p] = Idle]
    /\ UNCHANGED <<local, config, sent, saved, cleared, keyMoved, versionVars>>

\* The file is edited by hand and is no longer YAML.
Garbled ==
    /\ local # Broken /\ sent < MaxPosts
    /\ local' = Broken
    /\ sent' = sent + 1
    /\ UNCHANGED <<config, posts, saved, cleared, keyMoved, versionVars>>

\* A start fails while a value of the file is refused.
Restarts ==
    /\ Parses(Effective(local))
    /\ Reload(local)
    /\ posts' = [p \in Posts |-> Idle]
    /\ checks' = [c \in Checks |-> NoCheck]
    /\ child' = FALSE
    /\ UNCHANGED <<local, sent, saved, cleared, keyMoved, baseline, override, appcast>>

(***************************************************************************)
(* The client version                                                      *)
(***************************************************************************)

Published ==
    /\ appcast < MaxVersion
    /\ appcast' = appcast + 1
    /\ UNCHANGED <<baseline, override, version, checks, child, reloaded, fileVars>>

\* loadCurrentConfig prefers the override; the poll and the dashboard check.
CheckBegins(c) ==
    /\ checks[c] = NoCheck
    /\ checks' = [checks EXCEPT ![c].saw = IF override # 0 THEN override ELSE baseline]
    /\ UNCHANGED <<baseline, override, version, appcast, child, reloaded, fileVars>>

Served(c) ==
    /\ checks[c].saw # NotSet /\ checks[c].got = NotSet
    /\ checks' = [checks EXCEPT ![c].got = appcast]
    /\ UNCHANGED <<baseline, override, version, appcast, child, reloaded, fileVars>>

\* The appcast cannot be had, or its answer has no version.
CheckFails(c) ==
    /\ checks[c].saw # NotSet
    /\ checks' = [checks EXCEPT ![c] = NoCheck]
    /\ UNCHANGED <<baseline, override, version, appcast, child, reloaded, fileVars>>

\* Mutant of Applied: only the file is written.
AppliedToFile(v) == override' = v /\ version' = version /\ reloaded' = FALSE

\* applyVersionUpdate
Applied(v) == override' = v /\ version' = v /\ reloaded' = FALSE

\* triggerFullUpdate does nothing while one runs, nor in the embedded app.
FullUpdateTriggered == \E forked \in BOOLEAN : child' = (child \/ forked)

\* A version other than the one seen is applied and starts the full update.
CheckEnds(c) ==
    /\ checks[c].got # NotSet
    /\ checks' = [checks EXCEPT ![c] = NoCheck]
    /\ IF checks[c].got = checks[c].saw
       THEN UNCHANGED <<override, version, child, reloaded>>
       ELSE /\ Applied(checks[c].got)
            /\ FullUpdateTriggered
    /\ UNCHANGED <<baseline, appcast, fileVars>>

\* The full update (a script outside this tree) rewrites default.yaml; when
\* it succeeds every file is read again, otherwise only the flag is cleared.
ChildDone ==
    /\ child /\ child' = FALSE
    /\ baseline' = override
    /\ IF Parses(Effective(local))
       THEN config' = Effective(local) /\ version' = override /\ reloaded' = TRUE
       ELSE UNCHANGED <<config, version, reloaded>>
    /\ keyMoved' = (keyMoved \/ \E q \in Posts : Reading(q) /\ posts[q].key # config'["key"])
    /\ UNCHANGED <<override, appcast, checks, local, posts, sent, saved, cleared>>

ChildFails ==
    /\ child /\ child' = FALSE
    /\ UNCHANGED <<baseline, override, version, appcast, checks, reloaded, fileVars>>

Next ==
    \/ \E p \in Posts : PostArrives(p) \/ SaveKey(p) \/ SaveGeneral(p) \/ SaveRotation(p)
                         \/ SaveQuota(p) \/ Refused(p)
    \/ Garbled
    \/ Restarts
    \/ Published
    \/ \E c \in Checks : CheckBegins(c) \/ Served(c) \/ CheckFails(c) \/ CheckEnds(c)
    \/ ChildDone
    \/ ChildFails

Spec == Init /\ [][Next]_settingsVars

(***************************************************************************)
(* Properties                                                              *)
(***************************************************************************)

\* The settings in force are the ones saved last, each setting's own, under
\* the environment; no request undoes what another saved.  Left out: a file
\* with a value the schema refuses, or broken by hand.
SavedIsInForce ==
    Parses(Effective(local)) /\ local # Broken =>
      /\ local = saved
      /\ \A f \in Fields :
           config[f] = IF f = "port" /\ EnvPort # NotSet THEN EnvPort
                       ELSE IF saved[f] # NotSet THEN saved[f]
                       ELSE IF f = "proxy" /\ EnvProxy # NotSet THEN EnvProxy ELSE 0

\* A remote request does not take away a key, unless the key changed while
\* its body was read.
KeyStays == cleared => keyMoved

\* The version in use is the one applied last, whatever checks overlap, until
\* the files are read again.
VersionInForce == override # 0 /\ ~reloaded => version = override
-----------------------------------------------------------------------------
(* What the properties rest on, for the proofs *)

Keys == {0, 1, 2}

\* A key is one of those that requests may set.
KeysKnown ==
    /\ local # Broken => local["key"] \in {NotSet} \cup Keys
    /\ config["key"] \in Keys
    /\ \A p \in Posts : posts[p].key \in {NotSet} \cup Keys

\* The file is what was saved, and in force unless a start would refuse it.
FileInForce ==
    local # Broken =>
        local = saved /\ (Parses(Effective(local)) => config = Effective(local))

\* A request that saw another key than the one in force has seen it change.
KeySeen == \A p \in Posts : Reading(p) => posts[p].key = config["key"] \/ keyMoved

SettingsInv == TypeOK /\ KeysKnown /\ FileInForce /\ KeySeen /\ KeyStays /\ VersionInForce
=============================================================================
