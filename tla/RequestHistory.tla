--------------------------- MODULE RequestHistory ---------------------------
(***************************************************************************)
(* The ledger of requests (src/auth/request-history.ts): records in memory *)
(* and in a file of lines that grows by appends and is rewritten when old  *)
(* records are dropped; what the dashboard reads of it.                    *)
(*                                                                         *)
(* Data abstraction: a record has its time, its outcome and one attribute  *)
(* to group by (client, fingerprint or agent).  A line that was cut off    *)
(* makes the whole file unreadable, and stays until the file is rewritten. *)
(***************************************************************************)
EXTENDS Naturals, Sequences, FiniteSets, SequencesExt, FiniteSetsExt

CONSTANTS
    Outcomes, GroupKeys,
    MaxAge,      \* MAX_AGE_MS
    MaxClock,    \* bound: the clock stops here
    MaxRecords,  \* bound: requests
    Missing, Unreadable   \* what a file may be besides a sequence of records

VARIABLES
    ledgerUp,  \* the server runs
    records,   \* RequestHistoryStore.records
    ledger,    \* request-history.jsonl
    spare,     \* its .tmp
    clock,
    recorded,  \* history: all that was ever recorded
    cut        \* history: an append failed, or was cut off

ledgerVars == <<ledgerUp, records, ledger, spare, clock, recorded, cut>>

Record == [at : 0 .. MaxClock, outcome : Outcomes, key : GroupKeys]
Ledgers == Seq(Record)

TypeOK ==
    /\ ledgerUp \in BOOLEAN /\ cut \in BOOLEAN
    /\ records \in Ledgers /\ recorded \in Ledgers
    /\ ledger \in {Missing, Unreadable} \/ ledger \in Ledgers
    /\ spare \in {Missing, Unreadable} \/ spare \in Ledgers
    /\ clock \in 0 .. MaxClock

Init ==
    /\ ledgerUp = FALSE
    /\ records = <<>>
    /\ ledger = Missing
    /\ spare = Missing
    /\ clock = 0
    /\ recorded = <<>>
    /\ cut = FALSE

Readable(content) == content \notin {Missing, Unreadable}

Expired(r) == r.at + MaxAge < clock

\* The records that are not too old, in their order.
Unexpired(rs) ==
    LET kept   == {i \in DOMAIN rs : ~Expired(rs[i])}
        nth(n) == CHOOSE i \in kept : Cardinality({j \in kept : j <= i}) = n
    IN  [n \in 1 .. Cardinality(kept) |-> rs[nth(n)]]

-----------------------------------------------------------------------------
(* The files *)

\* replace(): the spare file is written and renamed; either may fail, or be the
\* last thing the process does.
Replacements(files, content) ==
    {[ledger |-> content, spare |-> Missing],
     [ledger |-> files.ledger, spare |-> content],
     [ledger |-> files.ledger, spare |-> Unreadable]}

\* Mutant of Loads: whatever spare file there is replaces the ledger.
LoadsSpare ==
    IF Readable(spare) THEN {[records |-> spare, ledger |-> spare, spare |-> Missing]}
    ELSE IF Readable(ledger) THEN {[records |-> ledger, ledger |-> ledger, spare |-> spare]}
    ELSE {[records |-> <<>>, ledger |-> ledger, spare |-> spare]}

\* load(): the spare file is taken if the ledger is missing or unreadable.
Loads ==
    IF ledger = Missing /\ spare # Missing
    THEN {[records |-> IF Readable(spare) THEN spare ELSE <<>>, ledger |-> spare, spare |-> Missing]}
    ELSE IF Readable(ledger) THEN {[records |-> ledger, ledger |-> ledger, spare |-> spare]}
    ELSE IF ledger = Missing \/ ~Readable(spare) THEN {[records |-> <<>>, ledger |-> ledger, spare |-> spare]}
    ELSE IF spare = <<>> THEN {[records |-> <<>>, ledger |-> ledger, spare |-> spare]}
    ELSE {[records |-> spare, ledger |-> spare, spare |-> Missing]}

\* pruneExpired: only the oldest record is looked at.
Pruned(rs, files) ==
    IF rs # <<>> /\ Expired(Head(rs))
    THEN {[records |-> Unexpired(rs), ledger |-> f.ledger, spare |-> f.spare] :
             f \in Replacements(files, Unexpired(rs))}
    ELSE {[records |-> rs, ledger |-> files.ledger, spare |-> files.spare]}

Become(s) == records' = s.records /\ ledger' = s.ledger /\ spare' = s.spare

\* append(): a failure is logged; part of the line may be in the file.
Appended(r) ==
    {[ledger |-> IF Readable(ledger) THEN Append(ledger, r)
                 ELSE IF ledger = Missing THEN <<r>> ELSE Unreadable, cut |-> FALSE],
     [ledger |-> ledger, cut |-> TRUE],
     [ledger |-> Unreadable, cut |-> TRUE]}

-----------------------------------------------------------------------------
(* The store *)

Open ==
    /\ ~ledgerUp
    /\ ledgerUp' = TRUE
    /\ \E l \in Loads : \E s \in Pruned(l.records, l) : Become(s)
    /\ UNCHANGED <<clock, recorded, cut>>

\* record(): in memory, in the file, then what is old is dropped.
Recorded(r) ==
    /\ ledgerUp
    /\ Len(recorded) < MaxRecords
    /\ recorded' = Append(recorded, r)
    /\ \E f \in Appended(r) :
          /\ cut' = (cut \/ f.cut)
          /\ \E s \in Pruned(Append(records, r), [ledger |-> f.ledger, spare |-> spare]) : Become(s)
    /\ UNCHANGED <<ledgerUp, clock>>

\* A load that recovers may stop between unlink and rename.
StopsInRecovery ==
    /\ ~ledgerUp
    /\ ledger = Unreadable /\ Readable(spare) /\ spare # <<>>
    /\ ledger' = Missing
    /\ UNCHANGED <<ledgerUp, records, spare, clock, recorded, cut>>

Exit ==
    /\ ledgerUp
    /\ ledgerUp' = FALSE
    /\ records' = <<>>
    /\ UNCHANGED <<ledger, spare, clock, recorded, cut>>

Tick ==
    /\ clock < MaxClock
    /\ clock' = clock + 1
    /\ UNCHANGED <<ledgerUp, records, ledger, spare, recorded, cut>>

Next ==
    \/ Open \/ StopsInRecovery \/ Exit \/ Tick
    \/ \E o \in Outcomes, k \in GroupKeys : Recorded([at |-> clock, outcome |-> o, key |-> k])

Spec == Init /\ [][Next]_ledgerVars

-----------------------------------------------------------------------------
(* What the dashboard reads *)

Recent(r, hours) == r.at + hours >= clock

\* query(): the newest time first, those of one time as they came
Matching(hours, statuses) ==
    LET of(t) == FlattenSeq([i \in DOMAIN records |->
                    IF records[i].at = t /\ Recent(records[i], hours)
                         /\ records[i].outcome \in statuses
                      THEN <<records[i]>> ELSE <<>>])
    IN  FlattenSeq([i \in 1 .. MaxClock + 1 |-> of(MaxClock + 1 - i)])

\* Mutant of Page: the last record of a page is also the first of the next.
PageOverlaps(hours, statuses, page, size) ==
    LET all == Matching(hours, statuses)
    IN  SubSeq(all, (page - 1) * size + 1, IF page * size < Len(all) THEN page * size + 1 ELSE Len(all))

Page(hours, statuses, page, size) ==
    LET all == Matching(hours, statuses)
    IN  SubSeq(all, (page - 1) * size + 1, IF page * size < Len(all) THEN page * size ELSE Len(all))

\* aggregate(): the groups, of which the first so many are returned, and what one counts
Groups(hours) == {records[i].key : i \in {j \in DOMAIN records : Recent(records[j], hours)}}

GroupCount(hours, key, outcomes) ==
    Cardinality({i \in DOMAIN records : Recent(records[i], hours) /\ records[i].key = key
                                           /\ records[i].outcome \in outcomes})

-----------------------------------------------------------------------------
(* Properties *)

\* Unless an append failed, no restart, and no rewriting that broke off at any
\* point, loses a record of the last MAX_AGE, repeats one or changes the order.
Survives(rs) ==
    /\ IsSuffix(rs, recorded)
    /\ \A i \in 1 .. Len(recorded) - Len(rs) : Expired(recorded[i])

LedgerSurvives == ledgerUp /\ ~cut => Survives(records)

\* Turning the pages, of any size, shows each record of the query once, and the groups
\* of an aggregate together count the same records.
PagesShowAll ==
    \A hours \in 1 .. MaxAge, size \in 1 .. MaxRecords :
        LET all == Matching(hours, Outcomes)
        IN  /\ FlattenSeq([p \in 1 .. Len(all) |-> Page(hours, Outcomes, p, size)]) = all
            /\ MapThenSumSet(LAMBDA k : GroupCount(hours, k, Outcomes), Groups(hours)) = Len(all)

-----------------------------------------------------------------------------
(* What the properties rest on, for the proofs *)

\* The oldest record comes first, so that it is enough to look at that one.
InTime(rs) == \A i, j \in DOMAIN rs : i <= j => rs[i].at <= rs[j].at /\ rs[j].at <= clock

AllInTime ==
    /\ InTime(records) /\ InTime(recorded)
    /\ Readable(ledger) => InTime(ledger)
    /\ Readable(spare) => InTime(spare)

\* The ledger itself is never lost: a file is renamed over it or appended to it.
LedgerKept ==
    ~cut => /\ ledger # Unreadable
            /\ ledger = Missing => spare = Missing /\ recorded = <<>>
            /\ ledger # Missing => Survives(ledger)

LedgerInv == TypeOK /\ AllInTime /\ LedgerKept /\ LedgerSurvives
=============================================================================
