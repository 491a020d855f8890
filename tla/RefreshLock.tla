---------------------------- MODULE RefreshLock -----------------------------
(***************************************************************************)
(* The lock file of one account, refresh-<id>.lock, as the processes that  *)
(* share a data directory see it (src/auth/refresh-lock.ts).  Inside one   *)
(* process the functions run to their end; between processes every system  *)
(* call is a step of its own: the exclusive create of writeFileSync, its   *)
(* write, readFileSync, unlinkSync.                                        *)
(***************************************************************************)
EXTENDS Naturals, FiniteSets

CONSTANTS Procs, Nobody,
          Faults   \* what may go wrong in this instance

\* "age": a lock file may become older than STALE_MS; "slow": even while its
\* process is still refreshing; "crash": a process dies while it holds the
\* lock; "exit": ... while it looks for it; "torn": it dies, or its write fails (disk full), after
\* the file was created and before it has content.
AllFaults == {"age", "slow", "crash", "exit", "torn"}

ASSUME LockAssumption == Nobody \notin Procs /\ Faults \subseteq AllFaults

VARIABLES
    file,   \* the lock file: who created it, and what its timestamp says
    pc,     \* what each process is doing
    aged    \* history: some lock file got older than STALE_MS

vars == <<file, pc, aged>>

Absent == [by |-> Nobody, text |-> "absent"]

Places == {"idle", "again", "creating", "held", "exists", "stale", "last", "sweep"}

TypeOK ==
    /\ file \in {Absent} \cup [by : Procs, text : {"empty", "fresh", "stale"}]
    /\ pc \in [Procs -> Places]
    /\ aged \in BOOLEAN

Init == file = Absent /\ pc = [p \in Procs |-> "idle"] /\ aged = FALSE

Goes(p, place) == pc' = [pc EXCEPT ![p] = place] /\ UNCHANGED aged

\* Mutant of Create: the flag is "w".
CreateOver(p) ==
    /\ pc[p] \in {"idle", "again", "last"}
    /\ file' = [by |-> p, text |-> "empty"]
    /\ Goes(p, "creating")

\* writeFileSync(.., { flag: "wx" }) opens the file: it did not exist.  The
\* call is made first, after a stale lock was broken, and once more when the
\* lock could not be read.
Create(p) ==
    /\ pc[p] \in {"idle", "again", "last"}
    /\ file = Absent
    /\ file' = [by |-> p, text |-> "empty"]
    /\ Goes(p, "creating")

\* Mutant of Write: pid and time go to whatever file has the name by now.
WriteByName(p) ==
    /\ pc[p] = "creating"
    /\ file' = [file EXCEPT !.text = "fresh"]
    /\ Goes(p, "held")

\* ... and writes pid and time, into the file it opened, be that still there.
Write(p) ==
    /\ pc[p] = "creating"
    /\ file' = IF file.by = p THEN [file EXCEPT !.text = "fresh"] ELSE file
    /\ Goes(p, "held")

\* The write fails: tryAcquireRefreshLock returns false, the file stays.
WriteFails(p) ==
    /\ "torn" \in Faults
    /\ pc[p] = "creating"
    /\ Goes(p, "idle")
    /\ UNCHANGED file

\* EEXIST
Exists(p) ==
    /\ pc[p] \in {"idle", "again", "last"}
    /\ file # Absent
    /\ Goes(p, IF pc[p] = "last" THEN "idle" ELSE "exists")
    /\ UNCHANGED file

\* Mutant of Read: a lock is never found stale.
ReadNeverStale(p) ==
    /\ pc[p] = "exists"
    /\ Goes(p, IF file = Absent THEN "last" ELSE "idle")
    /\ UNCHANGED file

\* readFileSync: a stale lock will be broken, a missing one created once
\* more; otherwise (also without a timestamp) the lock is taken.
Read(p) ==
    /\ pc[p] = "exists"
    /\ Goes(p, CASE file = Absent -> "last"
                 [] file.text = "stale" -> "stale"
                 [] OTHER -> "idle")
    /\ UNCHANGED file

\* unlinkSync of what was a stale lock when it was read
Break(p) ==
    /\ pc[p] = "stale"
    /\ Goes(p, IF file = Absent THEN "last" ELSE "again")
    /\ file' = Absent

\* releaseRefreshLock
Release(p) ==
    /\ pc[p] = "held"
    /\ Goes(p, "idle")
    /\ file' = Absent

\* cleanupStaleLocks when a process starts
SweepReads(p) ==
    /\ pc[p] = "idle"
    /\ file.text = "stale"
    /\ Goes(p, "sweep")
    /\ UNCHANGED file

SweepUnlinks(p) ==
    /\ pc[p] = "sweep"
    /\ Goes(p, "idle")
    /\ file' = Absent

Crash(p) ==
    /\ \/ "crash" \in Faults /\ pc[p] = "held"
       \/ "exit" \in Faults /\ pc[p] \notin {"idle", "creating", "held"}
       \/ "torn" \in Faults /\ pc[p] = "creating"
    /\ Goes(p, "idle")
    /\ UNCHANGED file

InUse == file # Absent /\ pc[file.by] \in {"creating", "held"}

Age ==
    /\ "age" \in Faults
    /\ file.text = "fresh"
    /\ "slow" \in Faults \/ ~InUse
    /\ file' = [file EXCEPT !.text = "stale"]
    /\ aged' = TRUE
    /\ UNCHANGED pc

Step(p) ==
    \/ Create(p) \/ Write(p) \/ Exists(p) \/ Read(p) \/ Break(p) \/ Release(p)
    \/ SweepUnlinks(p)

Next ==
    \/ \E p \in Procs : Step(p) \/ SweepReads(p) \/ WriteFails(p) \/ Crash(p)
    \/ Age

Spec == Init /\ [][Next]_vars

\* Refreshes are tried again and again, time passes, and processes do not die
\* time after time just before they read or unlink the file.
FairSpec ==
    /\ Spec
    /\ WF_vars(Age)
    /\ \A p \in Procs : WF_vars(Step(p))
    /\ SF_vars(\E p \in Procs : Read(p))
    /\ SF_vars(\E p \in Procs : Break(p) \/ SweepUnlinks(p))

-----------------------------------------------------------------------------
(* Properties *)

Holders == {p \in Procs : pc[p] = "held"}

\* At most one process refreshes the account at a time ("Prevents concurrent
\* RT consumption", refresh-lock.ts), until a lock file gets stale.
Exclusive == ~aged => Cardinality(Holders) <= 1

\* Until then the lock is a mutex of its callers, whatever crashes and
\* whatever write fails (tryAcquireRefreshLock, releaseRefreshLock).
Promise == INSTANCE Mutex WITH holders <- IF aged THEN {} ELSE Holders
ImplementsMutex == Promise!Spec

\* A lock file with a timestamp whose owner is gone does not keep everybody out
\* for good ("Stale locks (> 5 min) are automatically broken",
\* refresh-lock.ts).
LeftoverBroken ==
    (file.text \in {"fresh", "stale"} /\ ~InUse) ~> (file = Absent \/ InUse)
=============================================================================
