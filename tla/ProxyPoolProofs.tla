-------------------------- MODULE ProxyPoolProofs ---------------------------
(***************************************************************************)
(* What ProxyPool keeps for any number of accounts, proxies, health checks *)
(* and failed saves.  The invariant is inductive as one: what a restart    *)
(* reads back is sound because what was saved was.                         *)
(***************************************************************************)
EXTENDS ProxyPool, FiniteSetTheorems, TLAPS

IInv == TypeOK /\ AssignedExists /\ SavedOrDue /\ CheckedPeriodically

\* What an action may assume, and what it owes: the pool it leaves is sound.
Sound(ps, st, as) ==
    /\ ps \subseteq Ids
    /\ st \in [Ids -> Statuses]
    /\ as \in [Accounts -> Assignment]
    /\ \A a \in Accounts : as[a] \in ps \cup Special \cup {Unset}

PoolSound == Sound(proxies, status, assigned)
DiskSound ==
    /\ disk \in [proxies : SUBSET Ids, status : [Ids -> Statuses],
                 assigned : [Accounts -> Assignment]]
    /\ Sound(disk.proxies, disk.status, disk.assigned)

LEMMA ActiveCounted ==
  ASSUME TypeOK
  PROVE  Cardinality(Active) \in Nat /\ (\A i \in Active : Cardinality(Active) > 0)
  <1>1. IsFiniteSet(Ids)
    BY FS_Interval, ProxyPoolAssumption DEF Ids
  <1>2. Active \subseteq Ids
    BY DEF Active, TypeOK
  <1>3. IsFiniteSet(Active)
    BY <1>1, <1>2, FS_Subset
  <1> QED
    BY <1>3, FS_CardinalityType, FS_EmptySet

LEMMA InitInv == Init => IInv
  <1> SUFFICES ASSUME Init PROVE IInv
    OBVIOUS
  <1>1. 0 \in 0 .. MaxProxies /\ 0 \in 0 .. MaxFailures /\ 0 \in 0 .. MaxChecks
    BY ProxyPoolAssumption
  <1>2. PoolSound
    BY DEF Init, PoolSound, Sound, Statuses, Assignment
  <1>3. DiskSound
    BY <1>2 DEF Init, DiskSound, PoolSound, Sound, Contents
  <1>4. round \in [picked : SUBSET Ids, count : Nat]
    BY DEF Init, NoRound
  <1>5. TypeOK
    BY <1>1, <1>2, <1>3, <1>4 DEF Init, TypeOK, PoolSound, DiskSound, Sound
  <1>6. AssignedExists /\ SavedOrDue /\ CheckedPeriodically
    BY <1>2, <1>3
       DEF Init, PoolSound, DiskSound, Sound, AssignedExists, SavedOrDue, CheckedPeriodically
  <1> QED
    BY <1>5, <1>6 DEF IInv

\* What the invariant says of the pool and of the file.
LEMMA InvSound == IInv => PoolSound /\ DiskSound
  BY DEF IInv, TypeOK, AssignedExists, PoolSound, DiskSound, Sound

\* A sound pool may be saved without harm to the file, whether it succeeds or not.
LEMMA PersistKeeps ==
  ASSUME TypeOK, DiskSound,
         NEW ps, NEW st, NEW as, Sound(ps, st, as), Persist(Contents(ps, st, as))
  PROVE  /\ persistTimer' = FALSE /\ failed' \in 0 .. MaxFailures
         /\ DiskSound'
         /\ failed' = 0 => disk' = Contents(ps, st, as)
  <1>1. CASE disk' = Contents(ps, st, as) /\ failed' = 0
    <2>1. disk' \in [proxies : SUBSET Ids, status : [Ids -> Statuses],
                     assigned : [Accounts -> Assignment]]
      BY <1>1 DEF Sound, Contents
    <2>2. Sound(disk'.proxies, disk'.status, disk'.assigned)
      BY <1>1 DEF Contents
    <2>3. DiskSound'
      BY <2>1, <2>2 DEF DiskSound, Sound
    <2> QED
      BY <1>1, <2>3, ProxyPoolAssumption DEF Persist
  <1>2. CASE failed < MaxFailures /\ failed' = failed + 1 /\ UNCHANGED disk
    <2>1. DiskSound'
      BY <1>2 DEF DiskSound, Sound
    <2>2. failed \in Nat /\ MaxFailures \in Nat
      BY ProxyPoolAssumption DEF TypeOK
    <2>3. failed' \in 0 .. MaxFailures /\ failed' # 0
      BY <1>2, <2>2
    <2> QED
      BY <2>1, <2>3 DEF Persist
  <1> QED
    BY <1>1, <1>2 DEF Persist

LEMMA RoundKeeps ==
  ASSUME TypeOK, RoundKept \/ UNCHANGED round
  PROVE  round' \in [picked : SUBSET Ids, count : Nat]
  BY DEF TypeOK, RoundKept, NoRound

\* The parts of the invariant put together.
LEMMA Together ==
  ASSUME up' \in BOOLEAN, index' \in Nat, persistTimer' \in BOOLEAN, healthTimer' \in BOOLEAN,
         cutOff' \in BOOLEAN, checks' \in [Ids -> 0 .. MaxChecks], last' \in 0 .. MaxProxies,
         failed' \in 0 .. MaxFailures, round' \in [picked : SUBSET Ids, count : Nat],
         PoolSound', DiskSound', SavedOrDue', CheckedPeriodically'
  PROVE  IInv'
  BY DEF IInv, TypeOK, AssignedExists, PoolSound, DiskSound, Sound

\* An edit that leaves a sound pool, sees to its saving and does not stop the
\* health checks keeps the invariant; so does the end of a check.
LEMMA EditKeeps ==
  ASSUME IInv, up, UNCHANGED <<up, index>>, checks' \in [Ids -> 0 .. MaxChecks],
         PoolSound', PersistNow \/ SchedulePersist,
         last' \in 0 .. MaxProxies, RoundKept \/ UNCHANGED round,
         healthTimer' \in BOOLEAN, UNCHANGED cutOff,
         proxies' # {} => healthTimer' \/ cutOff'
  PROVE  IInv'
  <1>1. TypeOK /\ DiskSound
    BY InvSound DEF IInv
  <1>2. round' \in [picked : SUBSET Ids, count : Nat]
    BY <1>1, RoundKeeps
  <1>3. up' \in BOOLEAN /\ index' \in Nat /\ cutOff' \in BOOLEAN
    BY <1>1 DEF TypeOK
  <1>4. CheckedPeriodically'
    BY DEF CheckedPeriodically
  <1>5. CASE PersistNow
    <2>1. Sound(proxies', status', assigned')
      BY DEF PoolSound, Sound
    <2>2. /\ persistTimer' = FALSE /\ failed' \in 0 .. MaxFailures
          /\ DiskSound'
          /\ failed' = 0 => disk' = Contents(proxies', status', assigned')
      BY <1>1, <1>5, <2>1, PersistKeeps DEF PersistNow
    <2>3. SavedOrDue'
      BY <2>2 DEF SavedOrDue, Contents
    <2> QED
      BY <1>2, <1>3, <1>4, <2>2, <2>3, Together
  <1>6. CASE SchedulePersist
    <2>1. DiskSound'
      BY <1>1, <1>6 DEF SchedulePersist, DiskSound, Sound
    <2>2. SavedOrDue' /\ persistTimer' \in BOOLEAN /\ failed' \in 0 .. MaxFailures
      BY <1>1, <1>6 DEF SchedulePersist, SavedOrDue, TypeOK
    <2> QED
      BY <1>2, <1>3, <1>4, <2>1, <2>2, Together
  <1> QED
    BY <1>5, <1>6

\* The pool with new entries, or with the first of them, is sound.
LEMMA EntriesSound ==
  ASSUME IInv, NEW n \in 1 .. MaxProxies, AddEntries(n)
  PROVE  /\ last' \in 0 .. MaxProxies
         /\ PoolSound'
         /\ \A k \in 0 .. n : Sound(proxies \cup (last + 1 .. last' - k), status', assigned')
  <1>1. TypeOK /\ PoolSound
    BY InvSound DEF IInv
  <1>2. last \in Nat /\ last' = last + n /\ last' \in 0 .. MaxProxies /\ n \in Nat
    BY <1>1, ProxyPoolAssumption DEF AddEntries, TypeOK
  <1>3. ASSUME NEW k \in 0 .. n
        PROVE  last + 1 .. last' - k \subseteq Ids
    BY <1>2, <1>3, ProxyPoolAssumption DEF Ids
  <1>4. status' \in [Ids -> Statuses] /\ assigned' = assigned
    BY <1>1 DEF AddEntries, TypeOK, Statuses
  <1>5. ASSUME NEW k \in 0 .. n
        PROVE  Sound(proxies \cup (last + 1 .. last' - k), status', assigned')
    BY <1>1, <1>3, <1>4, <1>5 DEF PoolSound, Sound
  <1>6. PoolSound'
    <2>1. last' - 0 = last' /\ 0 \in 0 .. n
      BY <1>2
    <2>2. Sound(proxies \cup (last + 1 .. last'), status', assigned')
      BY <1>5, <2>1
    <2>3. proxies' = proxies \cup (last + 1 .. last')
      BY DEF AddEntries
    <2> QED
      BY <2>2, <2>3 DEF PoolSound, Sound
  <1> QED
    BY <1>2, <1>5, <1>6

LEMMA EntriesKeep ==
  ASSUME IInv, NEW n \in 1 .. MaxProxies, AddEntries(n),
         healthTimer' \in BOOLEAN, cutOff' \in BOOLEAN, healthTimer' \/ cutOff'
  PROVE  IInv'
  <1>1. TypeOK /\ DiskSound /\ up
    BY InvSound DEF IInv, AddEntries, Edits
  <1>2. /\ last' \in 0 .. MaxProxies /\ PoolSound'
        /\ \A k \in 0 .. n : Sound(proxies \cup (last + 1 .. last' - k), status', assigned')
    BY EntriesSound
  <1>3. PICK lost \in 0 .. n :
          /\ failed' = IF lost = n THEN failed + n ELSE lost
          /\ failed' <= MaxFailures
          /\ disk' = IF lost = n THEN disk
                     ELSE Contents(proxies \cup (last + 1 .. last' - lost), status', assigned')
    BY DEF AddEntries
  <1>4. /\ failed' \in 0 .. MaxFailures
        /\ lost = n => failed' # 0
        /\ lost # n => failed' = lost
    BY <1>1, <1>3, ProxyPoolAssumption DEF TypeOK
  <1>5. DiskSound'
    <2>1. CASE lost = n
      BY <1>1, <1>3, <2>1 DEF DiskSound, Sound
    <2>2. CASE lost # n
      <3> DEFINE ps == proxies \cup (last + 1 .. last' - lost)
      <3>1. Sound(ps, status', assigned') /\ disk' = Contents(ps, status', assigned')
        BY <1>2, <1>3, <2>2
      <3> HIDE DEF ps
      <3>2. disk' \in [proxies : SUBSET Ids, status : [Ids -> Statuses],
                       assigned : [Accounts -> Assignment]]
        BY <3>1 DEF Sound, Contents
      <3>3. Sound(disk'.proxies, disk'.status, disk'.assigned)
        BY <3>1 DEF Contents
      <3> QED
        BY <3>2, <3>3 DEF DiskSound, Sound
    <2> QED
      BY <2>1, <2>2
  <1>6. failed' = 0 => disk' = Contents(proxies', status', assigned')
    <2> SUFFICES ASSUME failed' = 0
                 PROVE  disk' = Contents(proxies', status', assigned')
      OBVIOUS
    <2>1. lost = 0 /\ lost # n
      BY <1>4
    <2>2. last' - lost = last'
      <3>1. last' = last + n /\ last \in Nat /\ n \in Nat
        BY <1>1 DEF AddEntries, TypeOK
      <3>2. last' - 0 = last'
        BY <3>1
      <3>3. lost = 0
        BY <2>1
      <3> QED
        BY <3>2, <3>3
    <2>3. proxies' = proxies \cup (last + 1 .. last')
      BY DEF AddEntries
    <2>4. disk' = Contents(proxies \cup (last + 1 .. last' - lost), status', assigned')
      BY <1>3, <2>1
    <2> QED
      BY <2>2, <2>3, <2>4
  <1>7. SavedOrDue' /\ CheckedPeriodically' /\ persistTimer' = FALSE
    BY <1>6 DEF SavedOrDue, CheckedPeriodically, Contents, AddEntries
  <1>8. /\ up' \in BOOLEAN /\ index' \in Nat /\ checks' \in [Ids -> 0 .. MaxChecks]
        /\ round' \in [picked : SUBSET Ids, count : Nat]
    BY <1>1, RoundKeeps DEF AddEntries, Edits, TypeOK
  <1> QED
    BY <1>2, <1>4, <1>5, <1>7, <1>8, Together

LEMMA AddKeeps == IInv /\ Add => IInv'
  <1> SUFFICES ASSUME IInv, Add PROVE IInv'
    OBVIOUS
  <1>1. 1 \in 1 .. MaxProxies
    BY ProxyPoolAssumption DEF Add, AddEntries, IInv, TypeOK
  <1> QED
    BY <1>1, EntriesKeep DEF Add, ChecksStart

\* An import that breaks off leaves the timer as it is; if there was none,
\* that is what cutOff says.
LEMMA ImportKeeps ==
  ASSUME IInv, NEW n \in 1 .. MaxProxies, NEW breaksOff \in BOOLEAN, Import(n, breaksOff)
  PROVE  IInv'
  <1>1. AddEntries(n)
    BY DEF Import
  <1>2. healthTimer' \in BOOLEAN /\ cutOff' \in BOOLEAN /\ (healthTimer' \/ cutOff')
    <2>1. CASE breaksOff
      BY <2>1 DEF Import, IInv, TypeOK
    <2>2. CASE ~breaksOff
      BY <2>2 DEF Import, ChecksStart
    <2> QED
      BY <2>1, <2>2
  <1> QED
    BY <1>1, <1>2, EntriesKeep

LEMMA RemoveKeeps ==
  ASSUME IInv, NEW i \in Ids, Remove(i)
  PROVE  IInv'
  <1>1. TypeOK /\ PoolSound
    BY InvSound DEF IInv
  <1>2. PoolSound'
    BY <1>1 DEF Remove, Removed, PoolSound, Sound, Statuses, Assignment
  <1>3. CheckedPeriodically /\ proxies # {}
    BY DEF IInv, Remove
  <1> QED
    BY <1>1, <1>2, <1>3, EditKeeps DEF Remove, Edits, TypeOK, CheckedPeriodically

LEMMA SetStatusKeeps ==
  ASSUME IInv, NEW i \in Ids, NEW s \in Statuses, SetStatus(i, s)
  PROVE  IInv'
  <1>1. TypeOK /\ PoolSound /\ CheckedPeriodically
    BY InvSound DEF IInv
  <1>2. PoolSound'
    BY <1>1 DEF SetStatus, PoolSound, Sound
  <1> QED
    BY <1>1, <1>2, EditKeeps DEF SetStatus, Edits, TypeOK, CheckedPeriodically

LEMMA AssignKeeps ==
  ASSUME IInv, NEW some \in SUBSET Accounts, NEW to \in [some -> Ids \cup Special],
         Assign(some, to)
  PROVE  IInv'
  <1>1. TypeOK /\ PoolSound /\ CheckedPeriodically
    BY InvSound DEF IInv
  <1>2. PoolSound'
    BY <1>1 DEF Assign, PoolSound, Sound, Assignment
  <1> QED
    BY <1>1, <1>2, EditKeeps DEF Assign, Edits, TypeOK, CheckedPeriodically

LEMMA UnassignKeeps ==
  ASSUME IInv, NEW a \in Accounts, Unassign(a)
  PROVE  IInv'
  <1>1. TypeOK /\ PoolSound /\ CheckedPeriodically
    BY InvSound DEF IInv
  <1>2. PoolSound'
    BY <1>1 DEF Unassign, PoolSound, Sound, Assignment
  <1> QED
    BY <1>1, <1>2, EditKeeps DEF Unassign, Edits, TypeOK, CheckedPeriodically

LEMMA SetIntervalKeeps == IInv /\ SetInterval => IInv'
  <1> SUFFICES ASSUME IInv, SetInterval PROVE IInv'
    OBVIOUS
  <1>1. TypeOK /\ PoolSound /\ CheckedPeriodically
    BY InvSound DEF IInv
  <1>2. PoolSound'
    BY <1>1 DEF SetInterval, poolVars, PoolSound, Sound
  <1>3. healthTimer' \in BOOLEAN /\ (proxies' # {} => healthTimer' \/ cutOff')
    BY <1>1 DEF SetInterval, Edits, poolVars, CheckedPeriodically, TypeOK
  <1> QED
    BY <1>1, <1>2, <1>3, EditKeeps DEF SetInterval, Edits, TypeOK

LEMMA CheckEndsKeeps ==
  ASSUME IInv, NEW i \in Ids, NEW s \in Statuses, CheckEnds(i, s)
  PROVE  IInv'
  <1>1. TypeOK /\ PoolSound /\ CheckedPeriodically
    BY InvSound DEF IInv
  <1>2. PoolSound'
    BY <1>1 DEF CheckEnds, Judged, PoolSound, Sound
  <1>3. checks' \in [Ids -> 0 .. MaxChecks]
    BY <1>1, ProxyPoolAssumption DEF CheckEnds, TypeOK
  <1> QED
    BY <1>1, <1>2, <1>3, EditKeeps DEF CheckEnds, TypeOK, CheckedPeriodically

LEMMA FlushKeeps == IInv /\ Flush => IInv'
  <1> SUFFICES ASSUME IInv, Flush PROVE IInv'
    OBVIOUS
  <1>1. TypeOK /\ PoolSound /\ CheckedPeriodically
    BY InvSound DEF IInv
  <1>2. PoolSound'
    BY <1>1 DEF Flush, poolVars, PoolSound, Sound
  <1> QED
    BY <1>1, <1>2, EditKeeps DEF Flush, poolVars, TypeOK, CheckedPeriodically

\* What changes neither the pool nor what is saved of it.
LEMMA UnsavedKeeps ==
  ASSUME IInv, UNCHANGED <<up, poolVars, last>>, NoPersist,
         index' \in Nat, checks' \in [Ids -> 0 .. MaxChecks],
         round' \in [picked : SUBSET Ids, count : Nat],
         healthTimer' \in BOOLEAN, cutOff' \in BOOLEAN,
         healthTimer \/ cutOff => healthTimer' \/ cutOff'
  PROVE  IInv'
  <1>1. PoolSound' /\ DiskSound'
    BY InvSound DEF poolVars, NoPersist, PoolSound, DiskSound, Sound
  <1>2. SavedOrDue' /\ CheckedPeriodically'
    BY DEF IInv, SavedOrDue, CheckedPeriodically, NoPersist, poolVars, Contents
  <1> QED
    BY <1>1, <1>2, Together DEF IInv, TypeOK, NoPersist

LEMMA AddKnownKeeps == IInv /\ AddKnown => IInv'
  <1> SUFFICES ASSUME IInv, AddKnown PROVE IInv'
    OBVIOUS
  <1>1. round' \in [picked : SUBSET Ids, count : Nat]
    BY RoundKeeps DEF AddKnown, IInv
  <1>2. index' \in Nat /\ checks' \in [Ids -> 0 .. MaxChecks] /\ healthTimer' = TRUE /\ cutOff' = FALSE
    BY DEF AddKnown, ChecksStart, Edits, IInv, TypeOK
  <1>3. UNCHANGED <<up, poolVars, last>> /\ NoPersist
    BY DEF AddKnown, Edits
  <1> QED
    BY <1>1, <1>2, <1>3, UnsavedKeeps

LEMMA CheckingKeeps ==
  ASSUME IInv, NEW some \in SUBSET Ids, Checking(some)
  PROVE  IInv'
  <1>1. checks' \in [Ids -> 0 .. MaxChecks]
    BY ProxyPoolAssumption DEF Checking, IInv, TypeOK
  <1> QED
    BY <1>1, UnsavedKeeps DEF Checking, IInv, TypeOK

LEMMA PickRoundRobinKeeps ==
  ASSUME IInv, NEW a \in Accounts, NEW i \in Ids, PickRoundRobin(a, i)
  PROVE  IInv'
  <1>1. TypeOK
    BY DEF IInv
  <1> DEFINE n == Cardinality(Active)
  <1>2. n \in Nat /\ n > 0
    BY <1>1, ActiveCounted DEF PickRoundRobin
  <1>3. index' \in Nat
    <2>1. index' = ((index % n) + 1) % n
      BY DEF PickRoundRobin, NextIndex
    <2> HIDE DEF n
    <2> QED
      BY <1>1, <1>2, <2>1 DEF TypeOK
  <1>4. round' \in [picked : SUBSET Ids, count : Nat]
    BY <1>1 DEF PickRoundRobin, RoundAfter, TypeOK
  <1> QED
    BY <1>1, <1>3, <1>4, UnsavedKeeps DEF PickRoundRobin, TypeOK

LEMMA StartKeeps == IInv /\ Start => IInv'
  <1> SUFFICES ASSUME IInv, Start PROVE IInv'
    OBVIOUS
  <1>1. TypeOK /\ DiskSound
    BY InvSound DEF IInv
  <1>2. PoolSound' /\ DiskSound'
    BY <1>1 DEF Start, PoolSound, DiskSound, Sound
  <1>3. disk = Contents(disk.proxies, disk.status, disk.assigned)
    BY <1>1 DEF TypeOK, Contents
  <1>4. SavedOrDue' /\ CheckedPeriodically'
    BY <1>3 DEF Start, SavedOrDue, CheckedPeriodically, Contents
  <1>5. failed' \in 0 .. MaxFailures
    BY ProxyPoolAssumption DEF Start
  <1> QED
    BY <1>1, <1>2, <1>4, <1>5, Together DEF Start, TypeOK

\* Memory is gone; the file is sound.
LEMMA DownKeeps ==
  ASSUME TypeOK, Down, DiskSound', persistTimer' = FALSE, failed' \in 0 .. MaxFailures
  PROVE  IInv'
  <1>1. PoolSound'
    BY DEF Down, PoolSound, Sound, Statuses, Assignment
  <1>2. 0 \in 0 .. MaxChecks /\ NoRound \in [picked : SUBSET Ids, count : Nat]
    BY ProxyPoolAssumption DEF NoRound
  <1>3. SavedOrDue' /\ CheckedPeriodically'
    BY DEF Down, SavedOrDue, CheckedPeriodically
  <1> QED
    BY <1>1, <1>2, <1>3, Together DEF Down, TypeOK

LEMMA CrashKeeps == IInv /\ Crash => IInv'
  <1> SUFFICES ASSUME IInv, Crash PROVE IInv'
    OBVIOUS
  <1>1. DiskSound'
    BY InvSound DEF Crash, DiskSound, Sound
  <1> QED
    BY <1>1, DownKeeps DEF Crash, IInv, TypeOK

LEMMA StopKeeps == IInv /\ Stop => IInv'
  <1> SUFFICES ASSUME IInv, Stop PROVE IInv'
    OBVIOUS
  <1>1. TypeOK /\ DiskSound /\ Sound(proxies, status, assigned)
    BY InvSound DEF IInv, PoolSound
  <1>2. DiskSound' /\ persistTimer' = FALSE /\ failed' \in 0 .. MaxFailures
    BY <1>1, PersistKeeps DEF Stop
  <1> QED
    BY <1>1, <1>2, DownKeeps DEF Stop

LEMMA StepInv == IInv /\ [Next]_vars => IInv'
  <1> SUFFICES ASSUME IInv, [Next]_vars PROVE IInv'
    OBVIOUS
  <1>1. CASE Add \/ AddKnown \/ SetInterval
    BY <1>1, AddKeeps, AddKnownKeeps, SetIntervalKeeps
  <1>2. ASSUME NEW i \in Ids, Remove(i) PROVE IInv'
    BY <1>2, RemoveKeeps
  <1>3. ASSUME NEW i \in Ids, NEW s \in {"active", "disabled", status[i]}, SetStatus(i, s)
        PROVE  IInv'
    <2>1. s \in Statuses
      BY DEF IInv, TypeOK, Statuses
    <2> QED
      BY <1>3, <2>1, SetStatusKeeps
  <1>4. ASSUME NEW i \in Ids, CheckOne(i) PROVE IInv'
    BY <1>4, CheckingKeeps DEF CheckOne
  <1>5. ASSUME NEW i \in Ids, NEW s \in {"active", "unreachable"}, CheckEnds(i, s)
        PROVE  IInv'
    <2>1. s \in Statuses
      BY DEF Statuses
    <2> QED
      BY <1>5, <2>1, CheckEndsKeeps
  <1>6. ASSUME NEW some \in SUBSET Accounts, NEW to \in [some -> Ids \cup Special],
               Assign(some, to)
        PROVE  IInv'
    BY <1>6, AssignKeeps
  <1>7. ASSUME NEW a \in Accounts, Unassign(a) PROVE IInv'
    BY <1>7, UnassignKeeps
  <1>8. ASSUME NEW a \in Accounts, NEW i \in Ids, PickRoundRobin(a, i) PROVE IInv'
    BY <1>8, PickRoundRobinKeeps
  <1>9. CASE CheckAll
    <2>1. {i \in proxies : status[i] # "disabled"} \in SUBSET Ids
      BY DEF IInv, TypeOK
    <2> QED
      BY <1>9, <2>1, CheckingKeeps DEF CheckAll
  <1>10. CASE Flush \/ Start \/ Crash \/ Stop
    BY <1>10, FlushKeeps, StartKeeps, CrashKeeps, StopKeeps
  <1>11. CASE UNCHANGED vars
    <2>1. PoolSound' /\ DiskSound'
      BY <1>11, InvSound DEF vars, poolVars, PoolSound, DiskSound, Sound
    <2>2. SavedOrDue' /\ CheckedPeriodically'
      BY <1>11 DEF vars, poolVars, IInv, SavedOrDue, CheckedPeriodically, Contents
    <2> QED
      BY <1>11, <2>1, <2>2, Together DEF vars, IInv, TypeOK
  <1>12. ASSUME NEW n \in 1 .. MaxProxies, NEW breaksOff \in BOOLEAN, Import(n, breaksOff)
         PROVE  IInv'
    BY <1>12, ImportKeeps
  <1> QED
    BY <1>1, <1>2, <1>3, <1>4, <1>5, <1>6, <1>7, <1>8, <1>9, <1>10, <1>11, <1>12 DEF Next

\* The invariant holds of every behaviour of the pool.
THEOREM Invariant == Spec => []IInv
  BY InitInv, StepInv, PTL DEF Spec

\* Every variable keeps its type, however many proxies, checks and failures.
THEOREM TypeCorrect == Spec => []TypeOK
  <1>1. IInv => TypeOK
    BY DEF IInv
  <1> QED
    BY <1>1, Invariant, PTL

\* No account is ever assigned to a proxy that is not there, in memory or in
\* proxies.json (ProxyPool.remove, the checks of src/routes/proxies.ts).
THEOREM AssignmentsExist == Spec => []AssignedExists
  <1>1. IInv => AssignedExists
    BY DEF IInv
  <1> QED
    BY <1>1, Invariant, PTL

\* Unless a save has failed, what the pool knows is in proxies.json or is
\* about to be saved (ProxyPool.persistNow, schedulePersist).
THEOREM EverythingSaved == Spec => []SavedOrDue
  <1>1. IInv => SavedOrDue
    BY DEF IInv
  <1> QED
    BY <1>1, Invariant, PTL

\* The periodic health check runs whenever there are proxies, unless an import
\* broke off when it did not run (ProxyPool.startHealthCheckTimer and its
\* callers).
THEOREM AlwaysChecked == Spec => []CheckedPeriodically
  <1>1. IInv => CheckedPeriodically
    BY DEF IInv
  <1> QED
    BY <1>1, Invariant, PTL

\* No health check enables a proxy that was disabled meanwhile: in every step
\* that turns a disabled proxy on, no check ends (ProxyPool.healthCheck).
THEOREM ChecksEnableNone == Spec => CheckEnablesNone
  <1> DEFINE Quiet ==
        \A i \in proxies \cap proxies' :
           status[i] = "disabled" /\ status'[i] # "disabled" => checks' = checks
  <1>1. IInv /\ [Next]_vars => [Quiet]_vars
    <2> SUFFICES ASSUME IInv, Next PROVE Quiet
      BY DEF vars
    <2> SUFFICES ASSUME NEW i \in proxies, i \in proxies',
                        status[i] = "disabled", status'[i] # "disabled"
                 PROVE  checks' = checks
      OBVIOUS
    <2>1. CASE UNCHANGED checks
      BY <2>1
    <2>2. ASSUME NEW j \in Ids, NEW s \in {"active", "unreachable"}, CheckEnds(j, s)
          PROVE  FALSE
      BY <2>2 DEF CheckEnds, Judged, IInv, TypeOK
    <2>3. CASE UNCHANGED status
      BY <2>3
    <2>4. CASE Crash \/ Stop
      BY <2>4 DEF Crash, Stop, Down
    <2> QED
      BY <2>1, <2>2, <2>3, <2>4
         DEF Next, Add, Import, AddEntries, AddKnown, SetInterval, Remove, SetStatus, Edits, CheckOne,
             Checking, Assign, Unassign, PickRoundRobin, CheckAll, Flush, Start, poolVars
  <1> QED
    BY <1>1, Invariant, PTL DEF Spec, CheckEnablesNone

-----------------------------------------------------------------------------
(***************************************************************************)
(* The round robin is fair, for any number of proxies: while the same ones *)
(* are active, none is picked twice before all have been.  What a pick     *)
(* leaves behind is only the index, so the invariant says how far the      *)
(* index has moved since each proxy of the round was picked.               *)
(***************************************************************************)

\* The number of active proxies, and the place of one among them.
Size == Cardinality(Active)

Place(i) == Cardinality({j \in Active : j < i})

\* So many picks after the one at place p the index is ix, of n places.
Since(p, ix, n) == IF p < ix THEN ix - p ELSE ix + n - p

RoundSound(ix) ==
    /\ round.count <= Size
    /\ ix < Size
    /\ round.picked \subseteq Active
    /\ \A i \in round.picked : Since(Place(i), ix, Size) <= round.count

FairInv ==
    /\ RoundRobinFair
    /\ ~up => round = NoRound
    /\ round.count > 0 => RoundSound(index)

-----------------------------------------------------------------------------
(* Places and the index *)

LEMMA PlaceBounded ==
  ASSUME TypeOK, NEW i \in Active
  PROVE  Size \in Nat /\ Place(i) \in Nat /\ Place(i) < Size
  <1> DEFINE Before == {j \in Active : j < i}
  <1>1. IsFiniteSet(Active)
    <2>1. IsFiniteSet(Ids)
      BY FS_Interval, ProxyPoolAssumption DEF Ids
    <2> QED
      BY <2>1, FS_Subset DEF Active, TypeOK
  <1>2. i \in Nat
    BY ProxyPoolAssumption DEF Active, TypeOK, Ids
  <1>3. Before \subseteq Active \ {i}
    BY <1>2
  <1>4. /\ IsFiniteSet(Active \ {i})
        /\ Cardinality(Active \ {i}) = Cardinality(Active) - 1
    BY <1>1, FS_RemoveElement
  <1>5. Cardinality(Before) <= Cardinality(Active \ {i}) /\ IsFiniteSet(Before)
    BY <1>3, <1>4, FS_Subset
  <1>6. Cardinality(Before) \in Nat /\ Cardinality(Active) \in Nat
    BY <1>1, <1>5, FS_CardinalityType
  <1> HIDE DEF Before
  <1>7. Cardinality(Before) < Cardinality(Active)
    BY <1>4, <1>5, <1>6
  <1> QED
    BY <1>6, <1>7 DEF Size, Place, Before

\* The remainder that the index is stored with.
LEMMA Remainder ==
  ASSUME NEW n \in Nat, n > 0, NEW ix \in Nat
  PROVE  /\ ix % n \in 0 .. n - 1
         /\ ix < n => ix % n = ix
         /\ ix = n => ix % n = 0
  OBVIOUS

LEMMA NextIndexIs ==
  ASSUME NEW n \in Nat, n > 0, index \in Nat
  PROVE  NextIndex(n) = IF (index % n) + 1 = n THEN 0 ELSE (index % n) + 1
  <1> DEFINE r == index % n
  <1>1. r \in 0 .. n - 1
    BY Remainder
  <1>2. NextIndex(n) = (r + 1) % n
    BY DEF NextIndex
  <1> HIDE DEF r
  <1>3. r + 1 \in Nat /\ r + 1 <= n
    BY <1>1
  <1>4. r + 1 < n => (r + 1) % n = r + 1
    BY <1>3, Remainder
  <1>5. r + 1 = n => (r + 1) % n = 0
    BY <1>3, Remainder
  <1>6. NextIndex(n) = IF r + 1 = n THEN 0 ELSE r + 1
    BY <1>2, <1>3, <1>4, <1>5
  <1> QED
    BY <1>6 DEF r

\* A proxy of an unfinished round is not at the index, and its distance grows by one.
LEMMA SinceGrows ==
  ASSUME NEW n \in Nat, NEW ix \in Nat, ix < n, NEW p \in Nat, p < n,
         NEW count \in Nat, count < n, Since(p, ix, n) <= count,
         NEW next, next = IF ix + 1 = n THEN 0 ELSE ix + 1
  PROVE  p # ix /\ Since(p, next, n) <= count + 1
  BY DEF Since

LEMMA SinceStarts ==
  ASSUME NEW n \in Nat, NEW p \in Nat, p < n,
         NEW next, next = IF p + 1 = n THEN 0 ELSE p + 1
  PROVE  next \in Nat /\ next < n /\ Since(p, next, n) = 1
  BY DEF Since

-----------------------------------------------------------------------------
(* The steps *)

\* A round goes on among the same proxies with the same index, or ends.
LEMMA RoundStays ==
  ASSUME FairInv, up' => up \/ round = NoRound,
         \/ index' = index /\ (RoundKept \/ (Active' = Active /\ UNCHANGED round))
         \/ round' = NoRound,
         ~up' => round' = NoRound
  PROVE  FairInv'
  <1>1. CASE round' = NoRound
    <2>1. Cardinality(round'.picked) = round'.count /\ ~ (round'.count > 0)
      BY <1>1, FS_EmptySet DEF NoRound
    <2> QED
      BY <1>1, <2>1 DEF FairInv, RoundRobinFair
  <1>2. CASE round' = round /\ Active' = Active /\ index' = index
    BY <1>2 DEF FairInv, RoundRobinFair, RoundSound, Place, Size
  <1> QED
    BY <1>1, <1>2 DEF RoundKept

LEMMA PickFair ==
  ASSUME TypeOK, FairInv, NEW a \in Accounts, NEW i \in Ids, PickRoundRobin(a, i)
  PROVE  FairInv'
  <1>1. /\ i \in Active /\ Place(i) = index % Size /\ up /\ up' = up
        /\ index' = NextIndex(Size)
        /\ Active' = Active
        /\ index \in Nat
    BY DEF PickRoundRobin, TypeOK, Place, Size, Active, poolVars
  <1>2. Size \in Nat /\ Place(i) \in Nat /\ Place(i) < Size
    BY <1>1, PlaceBounded
  <1>3. index' = IF Place(i) + 1 = Size THEN 0 ELSE Place(i) + 1
    BY <1>1, <1>2, NextIndexIs
  <1>4. index' \in Nat /\ index' < Size /\ Since(Place(i), index', Size) = 1
    BY <1>2, <1>3, SinceStarts
  <1>5. Size' = Size /\ \A j : Place(j)' = Place(j)
    BY <1>1 DEF Size, Place
  <1>6. round.count \in Nat /\ round.picked \subseteq Ids
    BY DEF TypeOK
  <1>7. CASE round.count = 0 \/ ~ (round.count < Size)
    <2>1. round' = [picked |-> {i}, count |-> 1]
      <3>1. CASE round.count = 0
        <4>1. IsFiniteSet(round.picked)
          <5>1. IsFiniteSet(Ids)
            BY FS_Interval, ProxyPoolAssumption DEF Ids
          <5> QED
            BY <1>6, <5>1, FS_Subset
        <4>2. round.picked = {}
          BY <3>1, <4>1, FS_EmptySet DEF FairInv, RoundRobinFair
        <4> QED
          BY <1>2, <3>1, <4>2 DEF PickRoundRobin, RoundAfter, Size
      <3> QED
        BY <1>7, <3>1 DEF PickRoundRobin, RoundAfter, Size
    <2>2. Cardinality({i}) = 1
      BY FS_Singleton
    <2> QED
      BY <1>1, <1>2, <1>4, <1>5, <2>1, <2>2 DEF FairInv, RoundRobinFair, RoundSound
  <1>8. CASE round.count > 0 /\ round.count < Size
    <2>1. /\ round' = [picked |-> round.picked \cup {i}, count |-> round.count + 1]
          /\ RoundSound(index)
      BY <1>8 DEF FairInv, PickRoundRobin, RoundAfter, Size
    <2>2. index = Place(i)
      BY <1>1, <1>2, <2>1, Remainder DEF RoundSound
    <2>3. ASSUME NEW j \in round.picked
          PROVE  j # i /\ Since(Place(j), index', Size) <= round.count + 1
      <3>1. j \in Active /\ Since(Place(j), index, Size) <= round.count
        BY <2>1 DEF RoundSound
      <3>2. Place(j) \in Nat /\ Place(j) < Size
        BY <3>1, PlaceBounded
      <3>3. Place(j) # index /\ Since(Place(j), index', Size) <= round.count + 1
        BY <1>2, <1>3, <1>6, <1>8, <2>2, <3>1, <3>2, SinceGrows
      <3> QED
        BY <2>2, <3>3
    <2>4. IsFiniteSet(round.picked) /\ i \notin round.picked
      <3>1. IsFiniteSet(Ids)
        BY FS_Interval, ProxyPoolAssumption DEF Ids
      <3> QED
        BY <1>6, <2>3, <3>1, FS_Subset
    <2>5. Cardinality(round.picked \cup {i}) = round.count + 1
      BY <2>4, FS_AddElement DEF FairInv, RoundRobinFair
    <2>6. RoundSound(index)'
      <3>1. round'.count <= Size' /\ index' < Size'
        BY <1>2, <1>4, <1>5, <1>6, <1>8, <2>1
      <3>2. round'.picked \subseteq Active'
        BY <1>1, <2>1 DEF RoundSound
      <3>3. \A j \in round'.picked : Since(Place(j)', index', Size') <= round'.count
        BY <1>4, <1>5, <1>6, <2>1, <2>3
      <3> QED
        BY <3>1, <3>2, <3>3 DEF RoundSound, Since
    <2> QED
      BY <1>1, <2>1, <2>5, <2>6 DEF FairInv, RoundRobinFair
  <1> QED
    BY <1>6, <1>7, <1>8

LEMMA StepFair == IInv /\ FairInv /\ [Next]_vars => FairInv'
  <1> SUFFICES ASSUME IInv, FairInv, [Next]_vars PROVE FairInv'
    OBVIOUS
  <1>1. ASSUME NEW a \in Accounts, NEW i \in Ids, PickRoundRobin(a, i) PROVE FairInv'
    BY <1>1, PickFair DEF IInv
  <1>2. CASE Add \/ AddKnown \/ SetInterval
    BY <1>2, RoundStays DEF Add, AddEntries, AddKnown, SetInterval, Edits
  <1>3. ASSUME NEW i \in Ids, Remove(i) PROVE FairInv'
    BY <1>3, RoundStays DEF Remove, Edits
  <1>4. ASSUME NEW i \in Ids, NEW s, SetStatus(i, s) PROVE FairInv'
    BY <1>4, RoundStays DEF SetStatus, Edits
  <1>5. ASSUME NEW i \in Ids, NEW s, CheckEnds(i, s) PROVE FairInv'
    BY <1>5, RoundStays DEF CheckEnds
  <1>6. ASSUME NEW some, NEW to, Assign(some, to) PROVE FairInv'
    BY <1>6, RoundStays DEF Assign, Edits
  <1>7. ASSUME NEW a \in Accounts, Unassign(a) PROVE FairInv'
    BY <1>7, RoundStays DEF Unassign, Edits
  <1>8. ASSUME NEW some, Checking(some) PROVE FairInv'
    BY <1>8, RoundStays DEF Checking, poolVars, Active
  <1>9. CASE Flush \/ UNCHANGED vars
    BY <1>9, RoundStays DEF Flush, vars, poolVars, Active, FairInv
  <1>10. CASE Start
    <2>1. round = NoRound /\ round' = round
      BY <1>10 DEF Start, FairInv
    <2> QED
      BY <2>1, RoundStays
  <1>11. CASE Crash \/ Stop
    BY <1>11, RoundStays DEF Crash, Stop, Down
  <1>12. ASSUME NEW n, NEW breaksOff, Import(n, breaksOff) PROVE FairInv'
    BY <1>12, RoundStays DEF Import, AddEntries, Edits
  <1> QED
    BY <1>1, <1>2, <1>3, <1>4, <1>5, <1>6, <1>7, <1>8, <1>9, <1>10, <1>11, <1>12
       DEF Next, CheckOne, CheckAll

\* While the same proxies are active every one of them is picked once before
\* any is picked again, however many there are and whatever the index was left
\* at by earlier ones (ProxyPool.pickRoundRobin).
THEOREM RoundsFair == Spec => []RoundRobinFair
  <1>1. Init => FairInv
    <2> SUFFICES ASSUME Init PROVE FairInv
      OBVIOUS
    <2>1. round.picked = {} /\ round.count = 0 /\ round = NoRound
      BY DEF Init, NoRound
    <2> QED
      BY <2>1, FS_EmptySet DEF FairInv, RoundRobinFair
  <1>2. FairInv => RoundRobinFair
    BY DEF FairInv
  <1> QED
    BY <1>1, <1>2, StepFair, Invariant, PTL DEF Spec
=============================================================================
