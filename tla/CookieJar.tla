----------------------------- MODULE CookieJar ------------------------------
(***************************************************************************)
(* The cookies of each account (src/proxy/cookie-jar.ts): captured from    *)
(* the answers of the upstream, set and cleared by the user, dropped when  *)
(* they expire, and saved by asynchronous writes that may overlap.         *)
(*                                                                         *)
(* Data abstraction: a value is a model value; whether a cookie that has   *)
(* changed is one of CRITICAL_COOKIES is a free choice.  A save opens (and *)
(* truncates) the temporary file, writes it and renames it: three steps of *)
(* the thread pool, in any order with those of another save.  Two writes   *)
(* of different contents to one open file may leave a mixture.             *)
(***************************************************************************)
EXTENDS Naturals, FiniteSets

CONSTANTS
    Accounts,
    Names,      \* cookie names
    Values,
    Absent,     \* no cookie of that name
    Torn,       \* content of a file that is empty or not JSON
    MaxTime,    \* bound: the clock stops here
    MaxSaves    \* bound: asynchronous saves under way

VARIABLES
    jarUp,     \* the server runs
    jar,       \* the cookies Map: nothing or [value, expires] of each name
    jarTimer,  \* persistTimer is set
    now,       \* the clock
    saves,     \* the asynchronous saves under way
    files,     \* what each file holds, and which file each name leads to
    unsaved,   \* history: a save has failed since the last good one
    disturbed  \* history: two saves overlapped since the last undisturbed one

jarVars == <<jarUp, jar, jarTimer, now, saves, files, unsaved, disturbed>>

Never == MaxTime + 1    \* the clock never gets there
NoFile == 0
Handles == 1 .. MaxSaves
Inodes == 1 .. (MaxSaves + 2)

\* A cookie expires when the clock gets to its end, or not at all.
Expiries == {MaxTime, Never}
Cookie == [value : Values, expires : Expiries]
Cookies == [Names -> Cookie \cup {Absent}]
NoCookies == [n \in Names |-> Absent]
NoJar == [a \in Accounts |-> NoCookies]

\* A save under way: what it writes, the file it has open, and how far it is.
Idle == [phase |-> "idle", snap |-> NoJar, inode |-> NoFile, alone |-> FALSE]

TypeOK ==
    /\ jarUp \in BOOLEAN
    /\ jar \in [Accounts -> Cookies]
    /\ jarTimer \in BOOLEAN
    /\ now \in 0 .. MaxTime
    /\ \A h \in Handles :
          /\ saves[h].phase \in {"idle", "open", "write", "rename"}
          /\ saves[h].snap \in [Accounts -> Cookies]
          /\ saves[h].inode \in Inodes \cup {NoFile}
    /\ files.tmp \in Inodes \cup {NoFile}
    /\ files.json \in Inodes \cup {NoFile}
    /\ \A i \in Inodes : files.holds[i] \in [Accounts -> Cookies] \cup {Torn}
    /\ unsaved \in BOOLEAN /\ disturbed \in BOOLEAN

Init ==
    /\ jarUp = FALSE
    /\ jar = NoJar
    /\ jarTimer = FALSE
    /\ now = 0
    /\ saves = [h \in Handles |-> Idle]
    /\ files = [tmp |-> NoFile, json |-> NoFile, holds |-> [i \in Inodes |-> Torn]]
    /\ unsaved = FALSE
    /\ disturbed = FALSE

UnderWay == {h \in Handles : saves[h].phase # "idle"}

Expired(c) == c # Absent /\ c.expires <= now

-----------------------------------------------------------------------------
(* Saving *)

Schedule == jarTimer' = TRUE /\ UNCHANGED <<saves, disturbed>>

\* persistAsync: the contents are taken at once.  The caller's bound leaves a
\* handle free.
BeginSave(contents) ==
    \E h \in Handles \ UnderWay :
        /\ \A g \in Handles \ UnderWay : h <= g
        /\ jarTimer' = FALSE
        /\ saves' = [g \in Handles |->
               IF g = h THEN [phase |-> "open", snap |-> contents, inode |-> NoFile,
                              alone |-> UnderWay = {}]
               ELSE [saves[g] EXCEPT !.alone = FALSE]]
        /\ disturbed' = (disturbed \/ UnderWay # {})

TimerFires ==
    /\ jarUp /\ jarTimer
    /\ BeginSave(jar)
    /\ UNCHANGED <<jarUp, jar, now, files, unsaved>>

Unused(f) == CHOOSE i \in Inodes :
    i \notin {f.tmp, f.json} \cup {saves[h].inode : h \in Handles}

\* What no name leads to and no save has open is not kept track of.
Forgotten(f) ==
    [f EXCEPT !.holds = [i \in Inodes |->
        IF i \in {f.tmp, f.json} \cup {saves'[h].inode : h \in Handles} THEN f.holds[i] ELSE Torn]]

Opened(f) ==
    LET i == IF f.tmp = NoFile THEN Unused(f) ELSE f.tmp
    IN  [f EXCEPT !.tmp = i, !.holds[i] = Torn]

\* What a file may hold after another write.
Mixtures(old, new) == IF old \in {Torn, new} THEN {new} ELSE {new, Torn}

SaveOpens(h) ==
    /\ jarUp /\ saves[h].phase = "open"
    /\ files' = Opened(files)
    /\ saves' = [saves EXCEPT ![h].phase = "write", ![h].inode = files'.tmp]
    /\ UNCHANGED <<jarUp, jar, jarTimer, now, unsaved, disturbed>>

SaveWrites(h) ==
    /\ jarUp /\ saves[h].phase = "write"
    /\ \E c \in Mixtures(files.holds[saves[h].inode], saves[h].snap) :
          files' = [files EXCEPT !.holds[saves[h].inode] = c]
    /\ saves' = [saves EXCEPT ![h].phase = "rename"]
    /\ UNCHANGED <<jarUp, jar, jarTimer, now, unsaved, disturbed>>

\* Mutant of Renamed: the file is copied under the name without regard to
\* whether it has been written.
RenamedFirst(f) == [f EXCEPT !.json = f.tmp, !.tmp = NoFile, !.holds[f.tmp] = Torn]

Renamed(f) == Forgotten([f EXCEPT !.json = f.tmp, !.tmp = NoFile])

\* rename fails if another save has taken the temporary file away.
SaveEnds(h) ==
    /\ jarUp /\ saves[h].phase = "rename"
    /\ saves' = [saves EXCEPT ![h] = Idle]
    /\ IF files.tmp = NoFile
       THEN UNCHANGED files /\ unsaved' = TRUE
       ELSE files' = Renamed(files) /\ unsaved' = FALSE
    /\ disturbed' = (disturbed /\ ~saves[h].alone)
    /\ UNCHANGED <<jarUp, jar, jarTimer, now>>

\* The disk refuses to open, write or rename.
SaveFails(h) ==
    /\ jarUp /\ h \in UnderWay
    /\ saves' = [saves EXCEPT ![h] = Idle]
    /\ unsaved' = TRUE
    /\ UNCHANGED <<jarUp, jar, jarTimer, now, files, disturbed>>

-----------------------------------------------------------------------------
(* The operations *)

\* Mutant of Capture: what is captured during a save waits for the next change.
CaptureDuringSave(a, set) ==
    LET changed == {n \in DOMAIN set : jar[a][n] # set[n]}
    IN  /\ jarUp
        /\ changed # {}
        /\ jar' = [jar EXCEPT ![a] = [n \in Names |-> IF n \in changed THEN set[n] ELSE jar[a][n]]]
        /\ IF UnderWay # {} THEN UNCHANGED <<jarTimer, saves, disturbed>>
           ELSE BeginSave(jar') \/ Schedule
        /\ UNCHANGED <<jarUp, now, files, unsaved>>

\* captureRaw of an answer with these Set-Cookie headers.  An answer without a
\* change does nothing.
Capture(a, set) ==
    LET changed == {n \in DOMAIN set : jar[a][n] # set[n]}
    IN  /\ jarUp
        /\ changed # {}
        /\ jar' = [jar EXCEPT ![a] = [n \in Names |-> IF n \in changed THEN set[n] ELSE jar[a][n]]]
        /\ (BeginSave(jar') \/ Schedule)
        /\ UNCHANGED <<jarUp, now, files, unsaved>>

\* set: cookies the user pastes never expire.
SetCookies(a, set) ==
    /\ jarUp
    /\ jar' = [jar EXCEPT ![a] = [n \in Names |->
           IF n \in DOMAIN set THEN [value |-> set[n], expires |-> Never] ELSE jar[a][n]]]
    /\ Schedule
    /\ UNCHANGED <<jarUp, now, files, unsaved>>

Clear(a) ==
    /\ jarUp
    /\ jar[a] # NoCookies
    /\ jar' = [jar EXCEPT ![a] = NoCookies]
    /\ Schedule
    /\ UNCHANGED <<jarUp, now, files, unsaved>>

Unexpired(j) == [a \in Accounts |-> [n \in Names |-> IF Expired(j[a][n]) THEN Absent ELSE j[a][n]]]

\* cleanupExpired, every five minutes
Cleanup ==
    /\ jarUp
    /\ Unexpired(jar) # jar
    /\ jar' = Unexpired(jar)
    /\ Schedule
    /\ UNCHANGED <<jarUp, now, files, unsaved>>

-----------------------------------------------------------------------------
(* The life of the server *)

OnDisk == IF files.json = NoFile THEN NoJar
          ELSE IF files.holds[files.json] = Torn THEN NoJar ELSE files.holds[files.json]

\* The constructor loads the file and drops what has expired.
Open ==
    /\ ~jarUp
    /\ jarUp' = TRUE
    /\ jar' = Unexpired(OnDisk)
    /\ jarTimer' = (jar' # OnDisk)
    /\ unsaved' = FALSE
    /\ UNCHANGED <<now, saves, files, disturbed>>

Gone ==
    /\ jarUp' = FALSE
    /\ jar' = NoJar
    /\ jarTimer' = FALSE
    /\ saves' = [h \in Handles |-> Idle]
    /\ UNCHANGED now

Crash ==
    /\ jarUp
    /\ Gone
    /\ UNCHANGED <<files, unsaved, disturbed>>

\* destroy: persistNow, which may meet a save of its own.
Destroy ==
    /\ jarUp
    /\ Gone
    /\ \/ /\ files' = Renamed([Opened(files) EXCEPT !.holds[Opened(files).tmp] = jar])
          /\ unsaved' = FALSE
       \/ UNCHANGED files /\ unsaved' = TRUE
    /\ disturbed' = (disturbed \/ UnderWay # {})

Tick ==
    /\ now < MaxTime
    /\ now' = now + 1
    /\ UNCHANGED <<jarUp, jar, jarTimer, saves, files, unsaved, disturbed>>

Next ==
    \/ \E a \in Accounts :
          \/ \E some \in SUBSET Names \ {{}} :
                \/ \E set \in [some -> Cookie] : Capture(a, set)
                \/ \E set \in [some -> Values] : SetCookies(a, set)
          \/ Clear(a)
    \/ Cleanup \/ TimerFires \/ Tick
    \/ \E h \in Handles : SaveOpens(h) \/ SaveWrites(h) \/ SaveEnds(h) \/ SaveFails(h)
    \/ Open \/ Crash \/ Destroy

Spec == Init /\ [][Next]_jarVars

-----------------------------------------------------------------------------
(* Properties *)

\* As long as saves do not overlap, cookies.json is always whole, so that a
\* crash at any point loses no account's clearance, and every change is in the
\* file, in a save under way, or has a save due (persistAsync, schedulePersist).
CookiesSurvive ==
    ~disturbed =>
       /\ files.json # NoFile => files.holds[files.json] # Torn
       /\ jarUp /\ ~unsaved =>
             \/ jarTimer
             \/ \E h \in UnderWay : saves[h].snap = jar
             \/ OnDisk = jar
-----------------------------------------------------------------------------
(* What the property rests on, for the proofs *)

Save == [phase : {"idle", "open", "write", "rename"}, snap : [Accounts -> Cookies],
         inode : Inodes \cup {NoFile}, alone : BOOLEAN]

File == [tmp : Inodes \cup {NoFile}, json : Inodes \cup {NoFile},
         holds : [Inodes -> [Accounts -> Cookies] \cup {Torn}]]

JarTyped ==
    /\ jarUp \in BOOLEAN /\ jarTimer \in BOOLEAN /\ unsaved \in BOOLEAN /\ disturbed \in BOOLEAN
    /\ jar \in [Accounts -> Cookies] /\ now \in 0 .. MaxTime
    /\ saves \in [Handles -> Save] /\ files \in File

\* A save that met no other is the only one, and there are no others while
\* nothing was disturbed.  A server that is down saves nothing.
SavesApart ==
    /\ \A h \in UnderWay : saves[h].alone => UnderWay = {h}
    /\ ~disturbed => \A h \in UnderWay : saves[h].alone
    /\ ~jarUp => UnderWay = {}

\* Such a save works on the temporary file, which no crash makes the saved one
\* before it is whole; what it writes is current, or another save is due.
SaveCurrent ==
    /\ files.tmp = NoFile \/ files.tmp # files.json
    /\ \A h \in UnderWay : saves[h].alone =>
          /\ saves[h].phase = "open" \/ (files.tmp # NoFile /\ saves[h].inode = files.tmp)
          /\ saves[h].phase = "write" => files.holds[files.tmp] = Torn
          /\ saves[h].phase = "rename" => files.holds[files.tmp] = saves[h].snap
          /\ jarTimer \/ saves[h].snap = jar

JarInv == JarTyped /\ SavesApart /\ SaveCurrent /\ CookiesSurvive
=============================================================================
