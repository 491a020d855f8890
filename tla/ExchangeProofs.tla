--------------------------- MODULE ExchangeProofs ---------------------------
(***************************************************************************)
(* Proofs about what the server exchanges with others (MCExchanges): the   *)
(* lock file between processes, the imports of accounts, the two gates     *)
(* (rate limit, dashboard's sessions), the updates, the dashboard's pages, *)
(* the calls to the upstream and those to the API key upstreams.  Each has *)
(* an inductive invariant; it is proved of the part alone and, but for the *)
(* lock, whose specification is its own, then of the part as it runs in    *)
(* ExchangesSpec.                                                          *)
(*                                                                         *)
(* The last sections are about RequestTranslation (part "translation"): the*)
(* upstream gets what was said.  The invariant, TalkInv, says how the turns*)
(* make a conversation.  From it alone: each format gives for a message its*)
(* text and its calls or its results (Arranged), under names of its own    *)
(* (Naming); so the texts and links picked from the items are those of the *)
(* messages, and a result has the name of its call and of no later one     *)
(* (Answered).  Each provider's messages are built item by item (Adds).    *)
(***************************************************************************)
EXTENDS MCExchanges, FoldLemmas, Integers, Sequences, TLAPS

-----------------------------------------------------------------------------
(* The lock file of an account *)

\* Until a lock file outlives STALE_MS, the lock is a mutex for any number of
\* processes, crashes included.  The invariant: who holds the lock, or is
\* writing it, is the creator of the file that is there, and nobody has a lock
\* file to break.

\* p created the lock file and has not let go of it.
Has(p) == pc[p] \in {"creating", "held"}

OwnerOK == \A p \in Procs : Has(p) => file.by = p

NothingStale ==
    /\ file.text # "stale"
    /\ \A p \in Procs : pc[p] \notin {"stale", "sweep"}

LockInv == TypeOK /\ (~aged => OwnerOK /\ NothingStale)

LEMMA LockStart == Init => LockInv
<1> SUFFICES ASSUME Init PROVE LockInv
  OBVIOUS
<1>1. TypeOK
  BY DEF Init, TypeOK, Places
<1>2. OwnerOK
  BY DEF Init, OwnerOK, Has
<1>3. NothingStale
  BY DEF Init, NothingStale, Absent
<1> QED BY <1>1, <1>2, <1>3 DEF LockInv

LEMMA LockTypesStep ==
  ASSUME TypeOK, [Next]_vars
  PROVE  TypeOK'
<1> USE LockAssumption
<1>1. CASE UNCHANGED vars
  BY <1>1 DEF vars, TypeOK
<1>2. CASE Age
  BY <1>2 DEF Age, TypeOK, Absent
<1>3. ASSUME NEW p \in Procs, Create(p)
      PROVE  TypeOK'
  BY <1>3 DEF Create, Goes, TypeOK, Places
<1>4. ASSUME NEW p \in Procs, Write(p)
      PROVE  TypeOK'
  <2>1. CASE file.by = p
    BY <1>4, <2>1 DEF Write, Goes, TypeOK, Places, Absent
  <2>2. CASE file.by # p
    BY <1>4, <2>2 DEF Write, Goes, TypeOK, Places
  <2> QED BY <2>1, <2>2
<1>5. ASSUME NEW p \in Procs,
             WriteFails(p) \/ Exists(p) \/ Read(p) \/ Crash(p) \/ SweepReads(p)
      PROVE  TypeOK'
  BY <1>5 DEF WriteFails, Exists, Read, Crash, SweepReads, Goes, TypeOK, Places
<1>6. ASSUME NEW p \in Procs, Break(p) \/ SweepUnlinks(p) \/ Release(p)
      PROVE  TypeOK'
  BY <1>6 DEF Break, SweepUnlinks, Release, Goes, TypeOK, Places
<1> QED
  BY <1>1, <1>2, <1>3, <1>4, <1>5, <1>6 DEF Next, Step

\* Only who has the lock is in the way: no file, nobody has it.
LEMMA NobodyHas ==
  ASSUME OwnerOK, file = Absent
  PROVE  \A p \in Procs : ~Has(p)
  BY LockAssumption DEF OwnerOK, Absent

\* At most one process has the lock.
LEMMA OneHas ==
  ASSUME OwnerOK, NEW p \in Procs, NEW q \in Procs, Has(p), Has(q)
  PROVE  p = q
  BY DEF OwnerOK

LEMMA AgedStays == [Next]_vars /\ aged => aged'
  BY DEF Next, Step, vars, Create, Write, WriteFails, Exists, Read, Break, Release,
         SweepReads, SweepUnlinks, Crash, Age, Goes

LEMMA OwnerStep ==
  ASSUME TypeOK, OwnerOK, NothingStale, [Next]_vars, ~aged'
  PROVE  OwnerOK' /\ NothingStale'
<1> USE LockAssumption
<1>1. CASE UNCHANGED vars
  BY <1>1 DEF vars, OwnerOK, NothingStale, Has
<1>2. CASE Age
  BY <1>2 DEF Age
<1>3. ASSUME NEW p \in Procs, Create(p)
      PROVE  OwnerOK' /\ NothingStale'
  <2>1. \A q \in Procs : ~Has(q)
    BY <1>3, NobodyHas DEF Create
  <2>2. OwnerOK'
    BY <1>3, <2>1 DEF Create, Goes, TypeOK, OwnerOK, Has
  <2>3. NothingStale'
    BY <1>3 DEF Create, Goes, TypeOK, NothingStale
  <2> QED BY <2>2, <2>3
<1>4. ASSUME NEW p \in Procs, Write(p)
      PROVE  OwnerOK' /\ NothingStale'
  <2>1. file.by = p
    BY <1>4 DEF Write, OwnerOK, Has
  <2>2. file'.by = file.by /\ file'.text = "fresh"
    BY <1>4, <2>1 DEF Write, TypeOK, Absent
  <2>3. OwnerOK'
    BY <1>4, <2>2 DEF Write, Goes, TypeOK, OwnerOK, Has
  <2>4. NothingStale'
    BY <1>4, <2>2 DEF Write, Goes, TypeOK, NothingStale
  <2> QED BY <2>3, <2>4
<1>5. ASSUME NEW p \in Procs, WriteFails(p) \/ Exists(p) \/ Read(p) \/ Crash(p)
      PROVE  OwnerOK' /\ NothingStale'
  <2>1. /\ file' = file
        /\ \E place \in {"idle", "exists", "last"} : Goes(p, place)
    BY <1>5 DEF WriteFails, Exists, Read, Crash, NothingStale
  <2>2. OwnerOK'
    BY <2>1 DEF Goes, TypeOK, OwnerOK, Has
  <2>3. NothingStale'
    BY <2>1 DEF Goes, TypeOK, NothingStale
  <2> QED BY <2>2, <2>3
<1>6. ASSUME NEW p \in Procs, Break(p) \/ SweepReads(p) \/ SweepUnlinks(p)
      PROVE  FALSE
  BY <1>6 DEF Break, SweepReads, SweepUnlinks, NothingStale
<1>7. ASSUME NEW p \in Procs, Release(p)
      PROVE  OwnerOK' /\ NothingStale'
  <2>1. \A q \in Procs : q # p => ~Has(q)
    BY <1>7, OneHas DEF Release, Has
  <2>2. OwnerOK'
    BY <1>7, <2>1 DEF Release, Goes, TypeOK, OwnerOK, Has
  <2>3. NothingStale'
    BY <1>7 DEF Release, Goes, TypeOK, NothingStale, Absent
  <2> QED BY <2>2, <2>3
<1> QED
  BY <1>1, <1>2, <1>3, <1>4, <1>5, <1>6, <1>7 DEF Next, Step

LEMMA LockKept == Spec => []LockInv
<1>1. LockInv /\ [Next]_vars => LockInv'
  BY LockTypesStep, OwnerStep, AgedStays DEF LockInv
<1> QED BY LockStart, <1>1, PTL DEF Spec

\* Files and processes are always in one of the states the system calls can
\* leave them in (refresh-lock.ts).
THEOREM TypeCorrect == Spec => []TypeOK
<1>1. LockInv => TypeOK
  BY DEF LockInv
<1> QED BY <1>1, LockKept, PTL

\* At most one process refreshes an account at a time
\* (tryAcquireRefreshLock, refresh-lock.ts:32-59), until a lock file gets
\* older than five minutes.
THEOREM OneHolder == Spec => []Exclusive
<1>1. LockInv => Exclusive
  <2> SUFFICES ASSUME LockInv, ~aged PROVE Cardinality(Holders) <= 1
    BY DEF Exclusive
  <2>1. CASE Holders = {}
    BY <2>1, FS_EmptySet
  <2>2. CASE Holders # {}
    <3>1. PICK p : p \in Holders
      BY <2>2
    <3>2. Holders = {p}
      <4>1. p \in Procs /\ Has(p)
        BY <3>1 DEF Holders, Has
      <4>2. ASSUME NEW q \in Holders PROVE q = p
        <5>1. q \in Procs /\ Has(q)
          BY DEF Holders, Has
        <5> QED BY <4>1, <5>1, OneHas DEF LockInv
      <4>3. \A q : q \in Holders <=> q = p
        BY <3>1, <4>2
      <4> QED BY <4>3, Zenon
    <3>3. Cardinality({p}) = 1
      BY FS_Singleton, Zenon
    <3> QED BY <3>2, <3>3
  <2> QED BY <2>1, <2>2
<1> QED BY <1>1, LockKept, PTL

\* Until then each step is one of the mutex the head comment of
\* refresh-lock.ts promises: the holder lets go, or dies, before the next one
\* gets the lock.
THEOREM LockIsMutex == Spec => ImplementsMutex
<1> DEFINE held == IF aged THEN {} ELSE Holders
<1>1. Init => Promise!Init
  BY DEF Init, Promise!Init, Holders
<1>2. LockInv /\ [Next]_vars => [Promise!Next]_held
  <2> SUFFICES ASSUME LockInv, [Next]_vars
               PROVE  Promise!Next \/ held' = held
    OBVIOUS
  <2>1. CASE aged
    BY <2>1, AgedStays
  <2>2. CASE ~aged /\ aged'
    <3>1. CASE Holders = {}
      BY <2>2, <3>1
    <3>2. CASE Holders # {}
      <4>1. PICK p \in Procs : Holders = {p}
        BY <2>2, <3>2, OneHas DEF Holders, LockInv, Has
      <4>2. Promise!Leave(p)
        BY <2>2, <4>1 DEF Promise!Leave
      <4> QED BY <4>2 DEF Promise!Next
    <3> QED BY <3>1, <3>2
  <2>3. CASE ~aged /\ ~aged'
    <3> held = Holders /\ held' = Holders'
      BY <2>3
    <3> HIDE DEF held
    <3>1. CASE UNCHANGED vars
      BY <3>1 DEF vars, Holders
    <3>2. CASE Age
      BY <2>3, <3>2 DEF Age
    <3>3. ASSUME NEW p \in Procs,
                 \/ Create(p) \/ WriteFails(p) \/ Exists(p) \/ Read(p) \/ Break(p)
                 \/ SweepReads(p) \/ SweepUnlinks(p)
          PROVE  Holders' = Holders
      BY <3>3 DEF Create, WriteFails, Exists, Read, Break, SweepReads,
                  SweepUnlinks, Goes, Holders, LockInv, TypeOK
    <3>4. ASSUME NEW p \in Procs, Write(p)
          PROVE  Promise!Acquire(p)
      <4>1. Holders = {}
        <5>1. ASSUME NEW q \in Holders PROVE FALSE
          BY <2>3, <3>4, <5>1, OneHas DEF Write, Holders, LockInv, Has
        <5> QED BY <5>1
      <4>2. Holders' = {p}
        BY <3>4, <4>1 DEF Write, Goes, Holders, LockInv, TypeOK
      <4> QED BY <2>3, <4>1, <4>2 DEF Promise!Acquire
    <3>5. ASSUME NEW p \in Procs, Release(p) \/ Crash(p)
          PROVE  Promise!Leave(p) \/ Holders' = Holders
      BY <2>3, <3>5 DEF Release, Crash, Goes, Holders, LockInv, TypeOK, Promise!Leave
    <3> QED
      BY <3>1, <3>2, <3>3, <3>4, <3>5 DEF Next, Step, Promise!Next
  <2> QED BY <2>1, <2>2, <2>3
<1> QED
  BY <1>1, <1>2, LockKept, PTL DEF Spec, ImplementsMutex, Promise!Spec

-----------------------------------------------------------------------------
(* Imports *)

ImportVars == <<x1, x2, x3, x4, x5, x6, x7>>

ImportStep == [phase : {"idle", "exchange", "verify"}, token : 0 .. MaxTokens]
SentToken == [token : 0 .. MaxTokens, alive : BOOLEAN]

LEMMA ImportRecords ==
    /\ Import!Idle \in ImportStep
    /\ \A p \in {"idle", "exchange", "verify"}, t \in 0 .. MaxTokens :
          [phase |-> p, token |-> t] \in ImportStep
    /\ Import!NoRefresh \in SentToken
    /\ \A t \in 0 .. MaxTokens : [token |-> t, alive |-> TRUE] \in SentToken
    /\ \A r \in SentToken : [r EXCEPT !.alive = FALSE] \in SentToken
<1>1. 0 \in 0 .. MaxTokens
  BY ImportAssumption
<1>2. Import!NoRefresh \in SentToken
  BY <1>1, Zenon DEF Import!NoRefresh, Import!NoToken, SentToken
<1> QED
  BY <1>1, <1>2 DEF ImportStep, SentToken, Import!Idle, Import!NoToken

\* The invariant in parts: types, the one exchange of a token, and the token kept.
ImportTypes ==
    /\ x1 \in 0 .. MaxTokens + 1 /\ x2 \in 1 .. MaxTokens
    /\ x3 \in [Importers -> ImportStep] /\ x4 \subseteq 1 .. MaxTokens
    /\ x5 \in SentToken /\ x6 \in BOOLEAN /\ x7 \in BOOLEAN

ExchangedApart ==
    \A i \in Importers : x3[i].phase = "exchange" =>
        /\ x3[i].token \in x4
        /\ \A j \in Importers : x3[j].phase = "exchange" /\ x3[j].token = x3[i].token => i = j

NothingPasted == \A i \in Importers : x3[i].phase = "verify" /\ ~x6 => x3[i].token = 0

NewestKept == ~x6 /\ ~x7 /\ x1 \in 1 .. MaxTokens => x1 = x2

LEMMA ImportParts ==
    /\ Import!ImportsInv <=> ImportTypes /\ ExchangedApart /\ NothingPasted /\ NewestKept
    /\ Import!ImportsInv' <=> ImportTypes' /\ ExchangedApart' /\ NothingPasted' /\ NewestKept'
  BY Zenon DEF Import!ImportsInv, Import!TypeOK, Import!ImportsKeepToken, Import!NoToken,
     Import!NoAccount, Import!RefreshTokens, ImportTypes, ExchangedApart, NothingPasted, NewestKept,
     ImportStep, SentToken

LEMMA ImportsStart == Import!Init => Import!ImportsInv
<1> SUFFICES ASSUME Import!Init PROVE Import!ImportsInv
  OBVIOUS
<1>1. /\ x1 \in 0 .. MaxTokens + 1 /\ x2 = 1 /\ x3 = [i \in Importers |-> Import!Idle]
      /\ x4 = {} /\ x5 = Import!NoRefresh
      /\ x1 \in 1 .. MaxTokens => x1 = 1
  BY ImportAssumption DEF Import!Init, Import!NoToken, Import!NoAccount
<1>3. x6 \in BOOLEAN /\ x7 \in BOOLEAN
  BY Zenon DEF Import!Init
<1>2. Import!Idle \in ImportStep /\ Import!Idle.phase = "idle" /\ Import!NoRefresh \in SentToken
  BY ImportRecords DEF Import!Idle
<1>4. x3 \in [Importers -> ImportStep] /\ \A i \in Importers : x3[i].phase = "idle"
  BY <1>1, <1>2
<1>5. ImportTypes
  BY <1>1, <1>2, <1>3, <1>4, ImportAssumption DEF ImportTypes
<1> QED
  BY <1>1, <1>4, <1>5, ImportParts DEF ExchangedApart, NothingPasted, NewestKept

LEMMA ImportsStep == Import!ImportsInv /\ Import!Next => Import!ImportsInv'
<1> SUFFICES ASSUME ImportTypes, ExchangedApart, NothingPasted, NewestKept, Import!Next
             PROVE  ImportTypes' /\ ExchangedApart' /\ NothingPasted' /\ NewestKept'
  BY ImportParts
<1> DEFINE Kept == ImportTypes' /\ ExchangedApart' /\ NothingPasted' /\ NewestKept'
<1> USE ImportAssumption DEF Import!NoToken, Import!NoAccount, Import!RefreshTokens
<1>1. ASSUME NEW i \in Importers, NEW token \in 1 .. x2, Import!ImportKnown(i, token)
      PROVE  Kept
  BY <1>1 DEF Import!ImportKnown, Import!importVars, ImportTypes, ExchangedApart,
     NothingPasted, NewestKept
<1>2. ASSUME NEW i \in Importers, NEW token \in 1 .. x2, Import!ImportToken(i, token)
      PROVE  Kept
  <2>1. [phase |-> "exchange", token |-> token] \in ImportStep
    BY ImportRecords DEF ImportTypes
  <2>2. ImportTypes'
    BY <1>2, <2>1 DEF ImportTypes, Import!ImportToken
  <2>3. ExchangedApart' /\ NothingPasted'
    BY <1>2 DEF ImportTypes, Import!ImportToken, ExchangedApart, NothingPasted
  <2> QED
    BY <1>2, <2>2, <2>3 DEF Import!ImportToken, NewestKept
<1>3. ASSUME NEW i \in Importers, NEW token \in 0 .. x2, Import!ImportPair(i, token)
      PROVE  Kept
  <2>1. [phase |-> "verify", token |-> token] \in ImportStep
    BY ImportRecords DEF ImportTypes
  <2>2. x6' \in BOOLEAN /\ (~x6' => ~x6 /\ token = 0)
    BY <1>3 DEF Import!ImportPair, ImportTypes
  <2>3. /\ x1' \in {x1, Import!Added(token)} /\ x2' = x2 /\ x4' = x4 /\ x5' = x5 /\ x7' = x7
        /\ \/ x3' = x3
           \/ x1' = x1 /\ x3' = [x3 EXCEPT ![i] = [phase |-> "verify", token |-> token]]
    BY <1>3 DEF Import!ImportPair
  <2>4. x1' \in 0 .. MaxTokens + 1 /\ (token = 0 /\ x1' \in 1 .. MaxTokens => x1' = x1)
    BY <2>3 DEF ImportTypes, Import!Added
  <2>5. ImportTypes'
    BY <2>1, <2>2, <2>3, <2>4 DEF ImportTypes
  <2>6. ExchangedApart'
    BY <2>3 DEF ImportTypes, ExchangedApart
  <2>7. NothingPasted'
    BY <2>2, <2>3 DEF ImportTypes, NothingPasted
  <2>8. NewestKept'
    BY <2>2, <2>3, <2>4 DEF NewestKept
  <2> QED
    BY <2>5, <2>6, <2>7, <2>8
<1>4. ASSUME NEW i \in Importers, Import!Exchanged(i) PROVE Kept
  <2>1. /\ x3[i].phase = "exchange" /\ x4' = x4 \ {x3[i].token} /\ x5' = x5 /\ x6' = x6
        /\ x3' = [x3 EXCEPT ![i] = Import!Idle]
    BY <1>4 DEF Import!Exchanged, Import!Done
  <2>2. \/ x1' = x1 /\ x2' = x2 /\ x7' = x7
        \/ x2 < MaxTokens /\ x2' = x2 + 1 /\ x1' = x2' /\ x7' = x7
        \/ x2 < MaxTokens /\ x2' = x2 + 1 /\ x1' = x1 /\ x7' = TRUE
    BY <1>4 DEF Import!Exchanged, Import!Added, ImportTypes
  <2>3. ImportTypes'
    <3>1. x3' \in [Importers -> ImportStep] /\ x4' \subseteq 1 .. MaxTokens
      BY <2>1, ImportRecords DEF ImportTypes
    <3>2. x7' \in BOOLEAN
      BY <2>2, Zenon DEF ImportTypes
    <3> QED
      BY <2>1, <2>2, <3>1, <3>2 DEF ImportTypes
  <2>4. ExchangedApart' /\ NothingPasted'
    BY <2>1 DEF ImportTypes, ExchangedApart, NothingPasted, Import!Idle
  <2>5. NewestKept'
    BY <2>1, <2>2 DEF ImportTypes, NewestKept
  <2> QED
    BY <2>3, <2>4, <2>5
<1>5. ASSUME NEW i \in Importers, Import!Verified(i) PROVE Kept
  <2>1. /\ x3[i].phase = "verify" /\ x1' \in {Import!Added(x3[i].token), x1}
        /\ x3' = [x3 EXCEPT ![i] = Import!Idle]
        /\ x2' = x2 /\ x4' = x4 /\ x5' = x5 /\ x6' = x6 /\ x7' = x7
    BY <1>5 DEF Import!Verified, Import!Done
  <2>2. x3[i] \in ImportStep
    BY DEF ImportTypes
  <2>3. x1' \in 0 .. MaxTokens + 1 /\ (~x6 /\ x1' \in 1 .. MaxTokens => x1' = x1)
    BY <2>1, <2>2 DEF ImportTypes, Import!Added, NothingPasted, ImportStep
  <2>4. ImportTypes'
    BY <2>1, <2>3, ImportRecords DEF ImportTypes
  <2>5. ExchangedApart' /\ NothingPasted'
    BY <2>1 DEF ImportTypes, ExchangedApart, NothingPasted, Import!Idle
  <2>6. NewestKept'
    BY <2>1, <2>3 DEF NewestKept
  <2> QED
    BY <2>4, <2>5, <2>6
<1>6. CASE Import!RefreshSends
  <2>1. [token |-> x1, alive |-> TRUE] \in SentToken
    BY <1>6, ImportRecords DEF Import!RefreshSends
  <2>2. ImportTypes'
    BY <1>6, <2>1 DEF ImportTypes, Import!RefreshSends
  <2> QED
    BY <1>6, <2>2 DEF Import!RefreshSends, ExchangedApart, NothingPasted, NewestKept
<1>7. CASE Import!RefreshAnswered
  <2>1. x5' = Import!NoRefresh /\ x3' = x3 /\ x4' = x4 /\ x6' = x6
    BY <1>7 DEF Import!RefreshAnswered
  <2>2. \/ x1' = x1 /\ x2' = x2 /\ x7' = x7
        \/ x2 < MaxTokens /\ x2' = x2 + 1 /\ x1' = x2' /\ x7' = (x7 \/ ~x5.alive)
        \/ x2 < MaxTokens /\ x2' = x2 + 1 /\ x1' = x1 /\ x7' = TRUE
    <3>1. CASE x5.token = x2 /\ x2 < MaxTokens
      <4>1. CASE x5.alive = TRUE
        BY <1>7, <3>1, <4>1 DEF Import!RefreshAnswered
      <4>2. CASE x5.alive = FALSE
        <5>1. \/ x2' = x2 + 1 /\ x7' = TRUE /\ x1' = x1
              \/ x2' = x2 /\ x7' = x7 /\ x1' = x1
          BY <1>7, <3>1, <4>2, Zenon DEF Import!RefreshAnswered
        <5> QED
          BY <3>1, <5>1
      <4> QED
        BY <4>1, <4>2 DEF ImportTypes, SentToken
    <3> QED
      BY <1>7, <3>1 DEF Import!RefreshAnswered
  <2>3. x7' \in BOOLEAN
    BY <2>2, Zenon DEF ImportTypes
  <2>4. ImportTypes'
    BY <2>1, <2>2, <2>3, ImportRecords DEF ImportTypes
  <2> QED
    BY <2>1, <2>2, <2>4 DEF ImportTypes, ExchangedApart, NothingPasted, NewestKept
<1>8. CASE Import!Delete
  <2>1. x5' \in SentToken
    BY <1>8, ImportRecords DEF Import!Delete, ImportTypes
  <2>2. ImportTypes'
    BY <1>8, <2>1 DEF ImportTypes, Import!Delete
  <2> QED
    BY <1>8, <2>2 DEF Import!Delete, ExchangedApart, NothingPasted, NewestKept
<1> QED
  BY <1>1, <1>2, <1>3, <1>4, <1>5, <1>6, <1>7, <1>8 DEF Import!Next

-----------------------------------------------------------------------------
(* The rate limit *)

\* What tok tokens are after n ticks.
Fill(tok, n) == IF tok + n * Rate > Burst THEN Burst ELSE tok + n * Rate

LEMMA FillLaws ==
    ASSUME NEW tok \in 0 .. Burst, NEW n \in Nat
    PROVE  /\ Fill(tok, n) \in 0 .. Burst
           /\ Fill(tok, 0) = tok
           /\ Fill(tok, n + 1) <= Fill(tok, n) + Rate
           /\ Burst <= Rate * IdleTime /\ n > IdleTime => Fill(tok, n) = Burst
<1>1. n * Rate \in Nat /\ (n + 1) * Rate = n * Rate + Rate /\ 0 * Rate = 0
  BY LimitAssumption
<1>2. n > IdleTime => n * Rate >= Rate * IdleTime
  <2>1. ASSUME n > IdleTime PROVE n * Rate = (n - IdleTime) * Rate + Rate * IdleTime
    BY LimitAssumption
  <2>2. ASSUME n > IdleTime PROVE (n - IdleTime) * Rate >= 0
    BY <2>2, LimitAssumption
  <2> QED
    BY <2>1, <2>2, LimitAssumption
<1>3. Rate * IdleTime \in Nat
  BY LimitAssumption
<1> QED
  BY <1>1, <1>2, <1>3, LimitAssumption DEF Fill

LEMMA FillNow == \A tok \in 0 .. Burst : Fill(tok, 0) = tok
  BY FillLaws

LEMMA FillLater ==
    ASSUME NEW tok \in 0 .. Burst, NEW n \in Nat
    PROVE  /\ Fill(tok, n) \in 0 .. Burst /\ Fill(tok, n + 1) \in 0 .. Burst
           /\ Fill(tok, n + 1) <= Fill(tok, n) + Rate
<1>1. n + 1 \in Nat
  OBVIOUS
<1> QED
  BY <1>1, FillLaws

\* The invariant in parts.
LimitTypes ==
    /\ x1 \in 1 .. MaxNow
    /\ DOMAIN x2 \subseteq Clients
    /\ \A c \in DOMAIN x2 : x2[c].tokens \in 0 .. Burst /\ x2[c].refilled \in 1 .. x1
    /\ x3 \in 1 .. x1
    /\ x4 \in [Clients -> Nat]
    /\ x5 \subseteq Clients

BurstKept ==
    \A c \in Clients \ x5 :
        /\ c \in DOMAIN x2 => x4[c] + Fill(x2[c].tokens, x1 - x2[c].refilled) <= Burst
        /\ c \notin DOMAIN x2 => x4[c] = 0

LEMMA LimitParts ==
    /\ Limit!LimitInv <=> LimitTypes /\ BurstKept
    /\ Limit!LimitInv' <=> LimitTypes' /\ BurstKept'
<1>1. ASSUME LimitTypes, NEW c \in Clients
      PROVE  x4[c] + Limit!Left(c) <= Burst <=>
                /\ c \in DOMAIN x2 => x4[c] + Fill(x2[c].tokens, x1 - x2[c].refilled) <= Burst
                /\ c \notin DOMAIN x2 => x4[c] = 0
  BY <1>1, LimitAssumption DEF LimitTypes, Limit!Left, Limit!Refilled, Fill
<1>2. ASSUME LimitTypes', NEW c \in Clients
      PROVE  x4'[c] + Limit!Left(c)' <= Burst <=>
                /\ c \in DOMAIN x2' => x4'[c] + Fill(x2'[c].tokens, x1' - x2'[c].refilled) <= Burst
                /\ c \notin DOMAIN x2' => x4'[c] = 0
  BY <1>2, LimitAssumption DEF LimitTypes, Limit!Left, Limit!Refilled, Fill
<1>3. (Limit!TypeOK <=> LimitTypes) /\ (Limit!TypeOK' <=> LimitTypes')
  BY DEF Limit!TypeOK, LimitTypes
<1> QED
  BY <1>1, <1>2, <1>3 DEF Limit!LimitInv, BurstKept

LEMMA LimitStart == Limit!Init => Limit!LimitInv
  BY LimitParts, LimitAssumption DEF Limit!Init, Limit!NoBuckets, LimitTypes, BurstKept

\* A part of the buckets b on which nothing is changed.
Within(part_, whole) ==
    /\ DOMAIN part_ \subseteq DOMAIN whole
    /\ \A d \in DOMAIN part_ : part_[d] = whole[d]

LEMMA PrunedWithin ==
    ASSUME NEW b
    PROVE  /\ Within(Limit!Pruned(b), b)
           /\ \A d \in DOMAIN b \ DOMAIN Limit!Pruned(b) : ~(x1 - b[d].refilled <= IdleTime)
  BY DEF Within, Limit!Pruned, Limit!WithoutIdle, Limit!Keep

LEMMA CappedWithin ==
    ASSUME NEW b, NEW c, NEW k \in Limit!Capped(b, c)
    PROVE  Within(k, b)
<1> DEFINE fresh == Limit!WithoutIdle(b)
<1>1. Within(fresh, b)
  BY DEF Within, Limit!WithoutIdle, Limit!Keep
<1>2. k \in {b, fresh} \/ \E S \in SUBSET DOMAIN fresh : k = Limit!Keep(fresh, S)
  BY DEF Limit!Capped, Limit!kSubset
<1>3. ASSUME NEW S \in SUBSET DOMAIN fresh, k = Limit!Keep(fresh, S) PROVE Within(k, b)
  <2> HIDE DEF fresh
  <2> QED
    BY <1>1, <1>3 DEF Within, Limit!Keep
<1> HIDE DEF fresh
<1> QED
  BY <1>1, <1>2, <1>3 DEF Within

LEMMA RequestKeeps ==
    ASSUME Burst <= Rate * IdleTime, LimitTypes, BurstKept, NEW c \in Clients, Limit!Request(c)
    PROVE  LimitTypes' /\ BurstKept'
<1> DEFINE swept  == Limit!Pruned(x2)
           full   == [tokens |-> Burst, refilled |-> x1]
           isNew  == c \notin DOMAIN swept
           bucket == Limit!Refilled(IF isNew THEN full ELSE swept[c])
           passes == bucket.tokens >= 1
           after  == IF passes THEN [bucket EXCEPT !.tokens = @ - 1] ELSE bucket
           with   == [d \in DOMAIN swept \cup {c} |-> IF d = c THEN after ELSE swept[d]]
<1>1. PICK kept \in (IF isNew THEN Limit!Capped(with, c) ELSE {with}) :
          x2' = kept /\ x5' = x5 \cup (DOMAIN with \ DOMAIN kept)
  BY DEF Limit!Request
<1>2. /\ x3' \in {x1, x3} /\ x1' = x1
      /\ x4' = IF passes /\ c \notin x5' THEN [x4 EXCEPT ![c] = @ + 1] ELSE x4
  BY DEF Limit!Request
<1>3. Within(swept, x2)
  BY PrunedWithin
<1>4. /\ bucket = [tokens |-> bucket.tokens, refilled |-> x1] /\ bucket.tokens \in 0 .. Burst
      /\ c \notin x5 => x4[c] + bucket.tokens <= Burst
  <2>1. CASE isNew
    <3>1. bucket = [tokens |-> Fill(Burst, 0), refilled |-> x1]
      BY <2>1, LimitAssumption DEF Limit!Refilled, Fill, LimitTypes
    <3>2. Fill(Burst, 0) = Burst
      BY FillLaws, LimitAssumption
    <3>3. c \notin x5 => x4[c] = 0
      <4>1. CASE c \notin DOMAIN x2
        BY <4>1 DEF BurstKept
      <4>2. CASE c \in DOMAIN x2
        <5>1. x1 - x2[c].refilled \in Nat /\ x1 - x2[c].refilled > IdleTime
          BY <2>1, <4>2, PrunedWithin, LimitAssumption DEF LimitTypes
        <5>2. Fill(x2[c].tokens, x1 - x2[c].refilled) = Burst
          BY <4>2, <5>1, FillLaws DEF LimitTypes
        <5> QED
          BY <4>2, <5>2, LimitAssumption DEF BurstKept, LimitTypes
      <4> QED
        BY <4>1, <4>2
    <3> QED
      BY <3>1, <3>2, <3>3, LimitAssumption
  <2>2. CASE ~isNew
    <3>1. c \in DOMAIN x2 /\ swept[c] = x2[c]
      BY <2>2, <1>3 DEF Within
    <3>2. bucket = [tokens |-> Fill(x2[c].tokens, x1 - x2[c].refilled), refilled |-> x1]
      BY <2>2, <3>1 DEF Limit!Refilled, Fill
    <3>3. x1 - x2[c].refilled \in Nat
      BY <3>1, LimitAssumption DEF LimitTypes
    <3> HIDE DEF bucket
    <3> QED
      BY <3>1, <3>2, <3>3, FillLaws DEF LimitTypes, BurstKept
  <2> QED
    BY <2>1, <2>2
<1>5. /\ after = [tokens |-> IF passes THEN bucket.tokens - 1 ELSE bucket.tokens, refilled |-> x1]
      /\ after.tokens \in 0 .. Burst /\ after.refilled = x1
  <2> HIDE DEF bucket
  <2> QED
    BY <1>4, LimitAssumption
<1>6. Within(kept, with)
  BY <1>1, CappedWithin DEF Within
<1>7. /\ DOMAIN with = DOMAIN swept \cup {c} /\ with[c] = after
      /\ \A d \in DOMAIN with \ {c} : with[d] = x2[d] /\ d \in DOMAIN x2
  <2> HIDE DEF after, swept
  <2> QED
    BY <1>3 DEF Within
<1>8. x4' \in [Clients -> Nat] /\ \A d \in Clients \ {c} : x4'[d] = x4[d]
  <2> HIDE DEF passes
  <2> QED
    BY <1>2 DEF LimitTypes
<1> DEFINE had == bucket.tokens
<1>9. /\ after.tokens = IF passes THEN had - 1 ELSE had
      /\ c \notin x5' => x4'[c] = IF passes THEN x4[c] + 1 ELSE x4[c]
      /\ passes <=> had >= 1
  <2>1. after.tokens = IF passes THEN had - 1 ELSE had
    BY <1>5
  <2>2. c \notin x5' => x4'[c] = IF passes THEN x4[c] + 1 ELSE x4[c]
    <3> HIDE DEF passes
    <3> QED
      BY <1>2 DEF LimitTypes
  <2> QED
    BY <2>1, <2>2
<1>10. had \in 0 .. Burst /\ (c \notin x5 => x4[c] + had <= Burst)
  BY <1>4
<1>11. \A d \in DOMAIN x2 \ DOMAIN swept : ~(x1 - x2[d].refilled <= IdleTime)
  BY PrunedWithin
<1> HIDE DEF swept, full, isNew, bucket, passes, after, with, had
<1>12. LimitTypes'
  <2>1. DOMAIN kept \subseteq Clients /\ x5' \subseteq Clients
    BY <1>1, <1>3, <1>6, <1>7 DEF LimitTypes, Within
  <2>2. \A d \in DOMAIN kept : kept[d].tokens \in 0 .. Burst /\ kept[d].refilled \in 1 .. x1
    BY <1>5, <1>6, <1>7, LimitAssumption DEF LimitTypes, Within
  <2> QED
    BY <1>1, <1>2, <1>8, <2>1, <2>2, LimitAssumption DEF LimitTypes
<1>13. ASSUME NEW d \in Clients, d \notin x5'
       PROVE  /\ d \in DOMAIN kept => x4'[d] + Fill(kept[d].tokens, x1 - kept[d].refilled) <= Burst
              /\ d \notin DOMAIN kept => x4'[d] = 0
  <2>1. d \notin x5 /\ (d \in DOMAIN with => d \in DOMAIN kept)
    BY <1>1, <1>13
  <2>2. CASE d = c
    <3>1. d \in DOMAIN kept /\ kept[d] = after
      BY <1>6, <1>7, <2>1, <2>2 DEF Within
    <3>2. x1 - x1 = 0 /\ Fill(after.tokens, 0) = after.tokens
      BY <1>5, FillNow, LimitAssumption DEF LimitTypes
    <3>3. x4'[c] + after.tokens <= Burst
      BY <1>9, <1>10, <1>13, <2>1, <2>2, LimitAssumption DEF LimitTypes
    <3> QED
      BY <1>5, <2>2, <3>1, <3>2, <3>3
  <2>3. CASE d # c
    <3>1. x4'[d] = x4[d]
      BY <1>8, <2>3
    <3>2. CASE d \in DOMAIN with
      BY <1>6, <1>7, <2>1, <2>3, <3>1, <3>2 DEF Within, BurstKept
    <3>3. CASE d \notin DOMAIN with
      <4>1. d \notin DOMAIN kept /\ d \notin DOMAIN swept
        BY <1>6, <1>7, <3>3 DEF Within
      <4>2. CASE d \in DOMAIN x2
        <5>1. x1 - x2[d].refilled \in Nat /\ x1 - x2[d].refilled > IdleTime
          BY <4>1, <4>2, <1>11, LimitAssumption DEF LimitTypes
        <5>2. Fill(x2[d].tokens, x1 - x2[d].refilled) = Burst
          BY <4>2, <5>1, FillLaws DEF LimitTypes
        <5> QED
          BY <2>1, <3>1, <4>1, <4>2, <5>2, LimitAssumption DEF BurstKept, LimitTypes
      <4>3. CASE d \notin DOMAIN x2
        BY <2>1, <3>1, <4>1, <4>3 DEF BurstKept
      <4> QED
        BY <4>2, <4>3
    <3> QED
      BY <3>2, <3>3
  <2> QED
    BY <2>2, <2>3
<1> QED
  BY <1>1, <1>2, <1>12, <1>13 DEF BurstKept

LEMMA LimitStep ==
    ASSUME Burst <= Rate * IdleTime
    PROVE  Limit!LimitInv /\ Limit!Next => Limit!LimitInv'
<1> SUFFICES ASSUME LimitTypes, BurstKept, Limit!Next PROVE LimitTypes' /\ BurstKept'
  BY LimitParts
<1>1. CASE Limit!Tick
  <2>1. LimitTypes'
    BY <1>1, LimitAssumption DEF Limit!Tick, LimitTypes
  <2>2. ASSUME NEW c \in Clients \ x5
        PROVE  /\ c \in DOMAIN x2 => x4'[c] + Fill(x2[c].tokens, x1 + 1 - x2[c].refilled) <= Burst
               /\ c \notin DOMAIN x2 => x4'[c] = 0
    <3>1. x4'[c] = IF x4[c] < Rate THEN 0 ELSE x4[c] - Rate
      BY <1>1 DEF Limit!Tick
    <3>2. CASE c \in DOMAIN x2
      <4> DEFINE n == x1 - x2[c].refilled
      <4>1. n \in Nat /\ x1 + 1 - x2[c].refilled = n + 1 /\ x2[c].tokens \in 0 .. Burst
        BY <3>2, LimitAssumption DEF LimitTypes
      <4>2. x4[c] + Fill(x2[c].tokens, n) <= Burst /\ x4[c] \in Nat
        BY <3>2 DEF BurstKept, LimitTypes
      <4> HIDE DEF n
      <4>3. /\ Fill(x2[c].tokens, n) \in 0 .. Burst /\ Fill(x2[c].tokens, n + 1) \in 0 .. Burst
            /\ Fill(x2[c].tokens, n + 1) <= Fill(x2[c].tokens, n) + Rate
        BY <4>1, FillLater
      <4>4. x4'[c] + Fill(x2[c].tokens, n + 1) <= Burst
        BY <3>1, <4>2, <4>3, LimitAssumption
      <4> QED
        BY <3>2, <4>1, <4>4
    <3>3. CASE c \notin DOMAIN x2
      BY <3>1, <3>3, LimitAssumption DEF BurstKept
    <3> QED
      BY <3>2, <3>3
  <2> QED
    <3>1. x1' = x1 + 1 /\ x2' = x2 /\ x5' = x5
      BY <1>1 DEF Limit!Tick
    <3>2. ASSUME NEW c \in Clients \ x5'
          PROVE  /\ c \in DOMAIN x2' => x4'[c] + Fill(x2'[c].tokens, x1' - x2'[c].refilled) <= Burst
                 /\ c \notin DOMAIN x2' => x4'[c] = 0
      <4>1. c \in Clients \ x5
        BY <3>1
      <4>2. /\ DOMAIN x2' = DOMAIN x2
            /\ x2'[c].tokens = x2[c].tokens /\ x2'[c].refilled = x2[c].refilled
        BY <3>1
      <4>3. CASE c \in DOMAIN x2
        <5>1. x1 \in Int /\ x2[c].refilled \in Int
          BY <4>3, LimitAssumption DEF LimitTypes
        <5>2. x1' - x2'[c].refilled = x1 + 1 - x2[c].refilled
          BY <3>1, <4>2, <5>1
        <5> QED
          BY <2>2, <4>1, <4>2, <4>3, <5>2
      <4>4. CASE c \notin DOMAIN x2
        BY <2>2, <4>1, <4>2, <4>4
      <4> QED
        BY <4>3, <4>4
    <3> QED
      BY <2>1, <3>2 DEF BurstKept
<1>2. ASSUME NEW c \in Clients, Limit!Request(c) PROVE LimitTypes' /\ BurstKept'
  BY <1>2, RequestKeeps
<1> QED
  BY <1>1, <1>2 DEF Limit!Next

-----------------------------------------------------------------------------
(* The dashboard's sessions *)

LEMMA AccessStart == Access!Init => Access!AccessInv
  BY AccessAssumption DEF Access!Init, Access!AccessInv, Access!TypeOK, Access!AccessSound,
         Access!NoFailures, Access!NoSession, Access!WindowOpen

LEMMA AccessStep == Access!AccessInv /\ Access!Next => Access!AccessInv'
<1> SUFFICES ASSUME Access!AccessInv, Access!Next PROVE Access!AccessInv'
  OBVIOUS
<1> USE AccessAssumption DEF Access!AccessInv, Access!TypeOK, Access!AccessSound,
        Access!NoFailures, Access!NoSession, Access!WindowOpen
<1>1. CASE Access!LoginArrives
  BY <1>1 DEF Access!LoginArrives
<1>2. CASE Access!LoginFails
  BY <1>2 DEF Access!LoginFails, Access!Counted
<1>3. CASE Access!LoginSucceeds
  BY <1>3 DEF Access!LoginSucceeds
<1>4. CASE Access!LoginUnreadable
  BY <1>4 DEF Access!LoginUnreadable
<1>5. CASE Access!Logout
  BY <1>5 DEF Access!Logout
<1>6. CASE Access!AsksWithSession
  BY <1>6 DEF Access!AsksWithSession, Access!Valid
<1>7. CASE Access!Cleanup
  BY <1>7 DEF Access!Cleanup, Access!Valid
<1>8. CASE Access!Restart
  BY <1>8 DEF Access!Restart
<1>9. CASE Access!Tick
  BY <1>9 DEF Access!Tick
<1> QED
  BY <1>1, <1>2, <1>3, <1>4, <1>5, <1>6, <1>7, <1>8, <1>9 DEF Access!Next

-----------------------------------------------------------------------------
(* Updates *)

ServerRecord ==
    [up : BOOLEAN, loaded : {-1} \cup Nat, updating : BOOLEAN, checking : BOOLEAN,
     offered : Nat, timers : Nat, closing : BOOLEAN]

LEMMA ServerFields ==
    ASSUME NEW s \in ServerRecord
    PROVE  /\ s.up \in BOOLEAN /\ s.updating \in BOOLEAN /\ s.checking \in BOOLEAN
           /\ s.closing \in BOOLEAN /\ s.loaded \in {-1} \cup Nat
           /\ s.offered \in Nat /\ s.timers \in Nat
  BY DEF ServerRecord

LEMMA ServerChecking ==
    ASSUME NEW s \in ServerRecord, NEW b \in BOOLEAN
    PROVE  LET t == [s EXCEPT !.checking = b]
           IN  /\ t \in ServerRecord /\ t.loaded = s.loaded /\ t.updating = s.updating
               /\ t.offered = s.offered /\ t.timers = s.timers /\ t.closing = s.closing
  BY DEF ServerRecord

LEMMA ServerUpdating ==
    ASSUME NEW s \in ServerRecord, NEW b \in BOOLEAN
    PROVE  LET t == [s EXCEPT !.updating = b]
           IN  /\ t \in ServerRecord /\ t.loaded = s.loaded /\ t.updating = b
               /\ t.offered = s.offered /\ t.timers = s.timers /\ t.closing = s.closing
  BY DEF ServerRecord

LEMMA ServerOffered ==
    ASSUME NEW s \in ServerRecord, NEW n \in Nat
    PROVE  LET t == [s EXCEPT !.offered = n]
           IN  /\ t \in ServerRecord /\ t.loaded = s.loaded /\ t.updating = s.updating
               /\ t.offered = n /\ t.timers = s.timers /\ t.closing = s.closing
  BY DEF ServerRecord

LEMMA ServerDown ==
    ASSUME NEW s \in ServerRecord
    PROVE  LET t == [s EXCEPT !.up = FALSE]
           IN  /\ t \in ServerRecord /\ t.loaded = s.loaded /\ t.updating = s.updating
               /\ t.offered = s.offered /\ t.timers = s.timers /\ t.closing = s.closing
  BY DEF ServerRecord

LEMMA ServerTimers ==
    ASSUME NEW s \in ServerRecord, NEW n \in Nat
    PROVE  LET t == [s EXCEPT !.timers = n]
           IN  /\ t \in ServerRecord /\ t.loaded = s.loaded /\ t.updating = s.updating
               /\ t.offered = s.offered /\ t.timers = n /\ t.closing = s.closing
  BY DEF ServerRecord

LEMMA ServerClosing ==
    ASSUME NEW s \in ServerRecord
    PROVE  LET t == [s EXCEPT !.closing = TRUE]
           IN  /\ t \in ServerRecord /\ t.loaded = s.loaded /\ t.updating = s.updating
               /\ t.offered = s.offered /\ t.timers = s.timers /\ t.closing = TRUE
  BY DEF ServerRecord

LEMMA ServerBuilt ==
    ASSUME NEW s \in ServerRecord
    PROVE  LET t == [s EXCEPT !.updating = FALSE, !.timers = @ + 1]
           IN  /\ t \in ServerRecord /\ t.loaded = s.loaded /\ t.updating = FALSE
               /\ t.offered = s.offered /\ t.timers = s.timers + 1 /\ t.closing = s.closing
<1> DEFINE r == [s EXCEPT !.updating = FALSE]
<1>1. /\ r \in ServerRecord /\ r.loaded = s.loaded /\ r.updating = FALSE
      /\ r.offered = s.offered /\ r.timers = s.timers /\ r.closing = s.closing
  BY ServerUpdating
<1>2. s.timers + 1 \in Nat
  BY ServerFields
<1>3. [s EXCEPT !.updating = FALSE, !.timers = @ + 1] = [r EXCEPT !.timers = s.timers + 1]
  BY DEF ServerRecord
<1> HIDE DEF r
<1>4. LET t == [r EXCEPT !.timers = s.timers + 1]
      IN  /\ t \in ServerRecord /\ t.loaded = r.loaded /\ t.updating = r.updating
          /\ t.offered = r.offered /\ t.timers = s.timers + 1 /\ t.closing = r.closing
  BY <1>1, <1>2, ServerTimers
<1> QED
  BY <1>1, <1>3, <1>4

LEMMA ServerDue ==
    ASSUME NEW s \in ServerRecord, s.timers > 0
    PROVE  LET t == [s EXCEPT !.timers = @ - 1, !.closing = TRUE]
           IN  /\ t \in ServerRecord /\ t.loaded = s.loaded /\ t.updating = s.updating
               /\ t.offered = s.offered /\ t.closing = TRUE
<1> DEFINE r == [s EXCEPT !.closing = TRUE]
<1>1. /\ r \in ServerRecord /\ r.loaded = s.loaded /\ r.updating = s.updating
      /\ r.offered = s.offered /\ r.timers = s.timers /\ r.closing = TRUE
  BY ServerClosing
<1>2. s.timers - 1 \in Nat
  BY ServerFields
<1>3. [s EXCEPT !.timers = @ - 1, !.closing = TRUE] = [r EXCEPT !.timers = s.timers - 1]
  BY DEF ServerRecord
<1> HIDE DEF r
<1>4. LET t == [r EXCEPT !.timers = s.timers - 1]
      IN  /\ t \in ServerRecord /\ t.loaded = r.loaded /\ t.updating = r.updating
          /\ t.offered = r.offered /\ t.closing = r.closing
  BY <1>1, <1>2, ServerTimers
<1> QED
  BY <1>1, <1>3, <1>4

LEMMA ServerNew ==
    ASSUME NEW v \in {-1} \cup Nat
    PROVE  LET t == Update!NewServer(v)
           IN  /\ t \in ServerRecord /\ t.loaded = v /\ t.updating = FALSE
               /\ t.offered = 0 /\ t.timers = 0 /\ t.closing = FALSE
  BY DEF ServerRecord, Update!NewServer

DiskRecord == [head : Nat, fetched : Nat, built : {-1} \cup Nat]

LEMMA DiskFields ==
    ASSUME NEW d \in DiskRecord
    PROVE  d.head \in Nat /\ d.fetched \in Nat /\ d.built \in {-1} \cup Nat
  BY DEF DiskRecord

LEMMA DiskFetched ==
    ASSUME NEW d \in DiskRecord, NEW n \in Nat
    PROVE  /\ LET t == [d EXCEPT !.fetched = n]
              IN  t \in DiskRecord /\ t.head = d.head /\ t.fetched = n /\ t.built = d.built
           /\ LET t == [d EXCEPT !.head = n, !.fetched = n]
              IN  t \in DiskRecord /\ t.head = n /\ t.fetched = n /\ t.built = d.built
  BY DEF DiskRecord

LEMMA DiskBuilt ==
    ASSUME NEW d \in DiskRecord, NEW b \in {-1} \cup Nat
    PROVE  LET t == [d EXCEPT !.built = b]
           IN  t \in DiskRecord /\ t.head = d.head /\ t.fetched = d.fetched /\ t.built = b
  BY DEF DiskRecord

LEMMA ReleasedServer ==
    ASSUME NEW w, NEW s \in ServerRecord
    PROVE  LET t == Update!Released(w, s)
           IN  /\ t \in ServerRecord /\ t.loaded = s.loaded /\ t.updating = s.updating
               /\ t.offered = s.offered /\ t.timers = s.timers /\ t.closing = s.closing
  BY ServerChecking DEF Update!Released

UpdateWho == {"timer", "dashboard"}
Resting == \A w \in UpdateWho : x9[w] = "idle"

\* The invariant in parts.
UpdateTypes ==
    /\ x1 \in {"git", "docker", "electron"} /\ x2 \in BOOLEAN /\ x3 \in Nat
    /\ x4 \in DiskRecord /\ x5 \in Nat /\ x6 \in ServerRecord
    /\ x7 \in [UpdateWho -> {"idle", "fetch", "count", "log"}]
    /\ x8 \in [UpdateWho -> Int]
    /\ x9 \in [UpdateWho -> {"idle", "pull", "install", "build"}]
    /\ x10 \in Nat /\ x11 \in Nat /\ x12 \in BOOLEAN

FlagSet ==
    /\ x6.updating => ~Resting
    /\ ~x6.updating => Resting
    /\ ~x12 => (x6.timers > 0 => Resting) /\ (x6.closing => Resting)

WholeBuilds == x10 = 0 /\ ~x12 => x4.built # -1 /\ x6.loaded # -1

LEMMA UpdateParts ==
    /\ Update!UpdatesInv <=> /\ UpdateTypes /\ Update!OnePipeline /\ FlagSet
                             /\ WholeBuilds /\ Update!CountsSound /\ Update!OfferIsNewer
    /\ Update!UpdatesInv' <=> /\ UpdateTypes' /\ Update!OnePipeline' /\ FlagSet'
                              /\ WholeBuilds' /\ Update!CountsSound' /\ Update!OfferIsNewer'
<1>1. Update!TypeOK <=> UpdateTypes
  BY Zenon DEF Update!TypeOK, UpdateTypes, Update!Modes, Update!Who, Update!CheckSteps, Update!Torn,
     DiskRecord, ServerRecord, UpdateWho
<1>2. Update!TypeOK' <=> UpdateTypes'
  BY Zenon DEF Update!TypeOK, UpdateTypes, Update!Modes, Update!Who, Update!CheckSteps, Update!Torn,
     DiskRecord, ServerRecord, UpdateWho
<1>3. UpdateTypes => (Update!FlagExact <=> FlagSet)
  BY ServerFields DEF UpdateTypes, Update!FlagExact, FlagSet, Resting, Update!Who, UpdateWho,
     Update!RestartPending
<1>4. UpdateTypes' => (Update!FlagExact' <=> FlagSet')
  BY ServerFields DEF UpdateTypes, Update!FlagExact, FlagSet, Resting, Update!Who, UpdateWho,
     Update!RestartPending
<1>5. Update!BuildWhole /\ Update!RunsWholeBuild <=> WholeBuilds
  BY Zenon DEF Update!BuildWhole, Update!RunsWholeBuild, WholeBuilds, Update!Torn
<1>6. Update!BuildWhole' /\ Update!RunsWholeBuild' <=> WholeBuilds'
  BY Zenon DEF Update!BuildWhole, Update!RunsWholeBuild, WholeBuilds, Update!Torn
<1> QED
  BY <1>1, <1>2, <1>3, <1>4, <1>5, <1>6, Zenon DEF Update!UpdatesInv

LEMMA UpdatesStart == Update!Init => Update!UpdatesInv
<1> SUFFICES ASSUME Update!Init PROVE Update!UpdatesInv
  OBVIOUS
<1>1. /\ x1 \in {"git", "docker", "electron"} /\ x3 \in Nat /\ x5 \in Nat /\ x10 = 0 /\ x11 = 0
      /\ x4 = [head |-> x3, fetched |-> x3, built |-> x3]
      /\ x7 = [w \in UpdateWho |-> "idle"] /\ x8 = [w \in UpdateWho |-> 0]
      /\ x9 = [w \in UpdateWho |-> "idle"]
  BY DEF Update!Init, Update!Modes, Update!Who, UpdateWho
<1>2. x2 \in BOOLEAN /\ x12 \in BOOLEAN
  BY Zenon DEF Update!Init
<1>3. PICK v \in Nat : x6 = Update!NewServer(v)
  BY <1>1 DEF Update!Init
<1>4. /\ x6 \in ServerRecord /\ x6.loaded = v /\ x6.updating = FALSE
      /\ x6.offered = 0 /\ x6.timers = 0 /\ x6.closing = FALSE
  BY <1>3, ServerNew
<1>5. x4 \in DiskRecord /\ x4.head = x3 /\ x4.built = x3
  BY <1>1 DEF DiskRecord
<1>6. UpdateTypes
  BY <1>1, <1>2, <1>4, <1>5 DEF UpdateTypes
<1>7. Update!OnePipeline /\ FlagSet
  BY <1>1, <1>4 DEF Update!OnePipeline, Update!Who, UpdateWho, FlagSet, Resting
<1>8. WholeBuilds
  BY <1>1, <1>4, <1>5 DEF WholeBuilds
<1>9. Update!CountsSound /\ Update!OfferIsNewer
  BY <1>1, <1>4, <1>5 DEF Update!CountsSound, Update!Who, UpdateWho, Update!OfferIsNewer
<1> QED
  BY <1>6, <1>7, <1>8, <1>9, UpdateParts

\* A step that leaves the pipelines, the builds and the restart alone.
Steady ==
    /\ x9' = x9 /\ x12' = x12 /\ x4'.built = x4.built /\ (x10' = 0 => x10 = 0)
    /\ x6'.loaded = x6.loaded /\ x6'.updating = x6.updating
    /\ x6'.timers = x6.timers /\ x6'.closing = x6.closing

LEMMA SteadyKeeps ==
    ASSUME Steady, Update!OnePipeline, FlagSet, WholeBuilds
    PROVE  Update!OnePipeline' /\ FlagSet' /\ WholeBuilds'
  BY DEF Steady, Update!OnePipeline, FlagSet, Resting, WholeBuilds

\* What the steps may rely on, and what they owe.
UpdatesHeld ==
    /\ UpdateTypes /\ Update!OnePipeline /\ FlagSet
    /\ WholeBuilds /\ Update!CountsSound /\ Update!OfferIsNewer

LEMMA PublishedKeeps ==
    ASSUME UpdatesHeld, Update!Published PROVE UpdatesHeld'
<1>1. Steady
  BY DEF Update!Published, Steady
<1>2. UpdateTypes'
  BY DEF UpdatesHeld, Update!Published, UpdateTypes
<1>3. Update!CountsSound' /\ Update!OfferIsNewer'
  BY ServerFields, DiskFields DEF UpdatesHeld, Update!Published, UpdateTypes, Update!CountsSound, Update!OfferIsNewer,
     Update!Who, UpdateWho
<1> QED
  BY <1>1, <1>2, <1>3, SteadyKeeps DEF UpdatesHeld

LEMMA CheckBeginsKeeps ==
    ASSUME UpdatesHeld, NEW w \in UpdateWho, Update!CheckBegins(w) PROVE UpdatesHeld'
<1> USE DEF UpdatesHeld
<1>1. /\ x7' = [x7 EXCEPT ![w] = "fetch"]
      /\ x6' = [x6 EXCEPT !.checking = @ \/ w = "timer"]
      /\ x1' = x1 /\ x2' = x2 /\ x3' = x3 /\ x4' = x4 /\ x5' = x5 /\ x8' = x8 /\ x9' = x9
      /\ x10' = x10 /\ x12' = x12
  BY DEF Update!CheckBegins
<1>2. x11' \in Nat
  BY DEF Update!CheckBegins, Update!MayAsk, UpdateTypes
<1>3. PICK b \in BOOLEAN : x6' = [x6 EXCEPT !.checking = b]
  BY <1>1, Zenon
<1>4. /\ x6' \in ServerRecord /\ x6'.loaded = x6.loaded /\ x6'.updating = x6.updating
      /\ x6'.offered = x6.offered /\ x6'.timers = x6.timers /\ x6'.closing = x6.closing
  BY <1>3, ServerChecking DEF UpdateTypes
<1>5. x6'.up = x6.up
  BY <1>1 DEF UpdateTypes, ServerRecord
<1>6. UpdateTypes'
  BY <1>1, <1>2, <1>4 DEF UpdateTypes
<1>7. Steady
  BY <1>1, <1>4 DEF Steady
<1>8. Update!CountsSound'
  BY <1>1 DEF UpdateTypes, Update!CountsSound, Update!Who, UpdateWho
<1>9. Update!OfferIsNewer'
  BY <1>1, <1>4, <1>5 DEF Update!OfferIsNewer
<1> QED
  BY <1>6, <1>7, <1>8, <1>9, SteadyKeeps

LEMMA ReleaseAnsweredKeeps ==
    ASSUME UpdatesHeld, NEW w \in UpdateWho, Update!ReleaseAnswered(w) PROVE UpdatesHeld'
<1> USE DEF UpdatesHeld
<1>1. /\ x1 # "git" /\ x7' = [x7 EXCEPT ![w] = "idle"]
      /\ x1' = x1 /\ x2' = x2 /\ x3' = x3 /\ x4' = x4 /\ x5' = x5 /\ x8' = x8 /\ x9' = x9
      /\ x11' = x11 /\ x12' = x12
  BY DEF Update!ReleaseAnswered
<1>2. PICK n \in {0, 1} :
          /\ x6' = Update!Released(w, [x6 EXCEPT !.offered = n])
          /\ n = 1 => Update!ReleaseIsNewer
  BY DEF Update!ReleaseAnswered
<1>3. x10' \in {x10, x10 + 1}
  BY DEF Update!ReleaseAnswered
<1> DEFINE s == [x6 EXCEPT !.offered = n]
<1>4. /\ s \in ServerRecord /\ s.loaded = x6.loaded /\ s.updating = x6.updating
      /\ s.offered = n /\ s.timers = x6.timers /\ s.closing = x6.closing
  BY ServerOffered DEF UpdateTypes
<1> HIDE DEF s
<1>5. /\ x6' \in ServerRecord /\ x6'.loaded = x6.loaded /\ x6'.updating = x6.updating
      /\ x6'.offered = n /\ x6'.timers = x6.timers /\ x6'.closing = x6.closing
  <2>1. x6' = Update!Released(w, s)
    BY <1>2 DEF s
  <2> QED
    BY <1>4, <2>1, ReleasedServer
<1>6. UpdateTypes'
  BY <1>1, <1>3, <1>5 DEF UpdateTypes
<1>7. Steady
  BY <1>1, <1>3, <1>5 DEF Steady, UpdateTypes
<1>8. Update!CountsSound'
  BY <1>1 DEF UpdateTypes, Update!CountsSound, Update!Who, UpdateWho
<1>9. Update!OfferIsNewer'
  BY <1>1, <1>2, <1>5, ServerFields DEF Update!OfferIsNewer, Update!ReleaseIsNewer, UpdateTypes
<1> QED
  BY <1>6, <1>7, <1>8, <1>9, SteadyKeeps

LEMMA FetchedKeeps ==
    ASSUME UpdatesHeld, NEW w \in UpdateWho, Update!Fetched(w) PROVE UpdatesHeld'
<1> USE DEF UpdatesHeld
<1>1. /\ x1 = "git" /\ x7' = [x7 EXCEPT ![w] = "count"] /\ x4' = [x4 EXCEPT !.fetched = x3]
      /\ x1' = x1 /\ x2' = x2 /\ x3' = x3 /\ x5' = x5 /\ x6' = x6 /\ x8' = x8 /\ x9' = x9
      /\ x10' = x10 /\ x11' = x11 /\ x12' = x12
  BY DEF Update!Fetched
<1>2. x4' \in DiskRecord /\ x4'.head = x4.head /\ x4'.fetched = x3 /\ x4'.built = x4.built
  BY <1>1, DiskFetched DEF UpdateTypes, DiskRecord
<1>3. UpdateTypes' /\ Steady
  BY <1>1, <1>2 DEF UpdateTypes, Steady
<1>4. Update!CountsSound'
  BY <1>1, <1>2 DEF UpdateTypes, Update!CountsSound, Update!Who, UpdateWho
<1>5. Update!OfferIsNewer'
  BY <1>1 DEF Update!OfferIsNewer
<1> QED
  BY <1>3, <1>4, <1>5, SteadyKeeps

LEMMA FetchFailsKeeps ==
    ASSUME UpdatesHeld, NEW w \in UpdateWho, Update!FetchFails(w) PROVE UpdatesHeld'
<1> USE DEF UpdatesHeld
<1>1. /\ x1 = "git" /\ x7' = [x7 EXCEPT ![w] = "idle"] /\ x10' = x10 + 1
      /\ x6' = Update!Released(w, [x6 EXCEPT !.offered = 0])
      /\ x1' = x1 /\ x2' = x2 /\ x3' = x3 /\ x4' = x4 /\ x5' = x5 /\ x8' = x8 /\ x9' = x9
      /\ x11' = x11 /\ x12' = x12
  BY DEF Update!FetchFails
<1> DEFINE s == [x6 EXCEPT !.offered = 0]
<1>2. /\ s \in ServerRecord /\ s.loaded = x6.loaded /\ s.updating = x6.updating
      /\ s.timers = x6.timers /\ s.closing = x6.closing
  BY ServerOffered DEF UpdateTypes
<1>3. x6' = Update!Released(w, s)
  BY <1>1
<1> HIDE DEF s
<1>4. /\ x6' \in ServerRecord /\ x6'.loaded = x6.loaded /\ x6'.updating = x6.updating
      /\ x6'.timers = x6.timers /\ x6'.closing = x6.closing
  BY <1>2, <1>3, ReleasedServer
<1>5. UpdateTypes' /\ Steady
  BY <1>1, <1>4 DEF UpdateTypes, Steady
<1>6. Update!CountsSound'
  BY <1>1 DEF UpdateTypes, Update!CountsSound, Update!Who, UpdateWho
<1>7. Update!OfferIsNewer'
  BY <1>1 DEF Update!OfferIsNewer
<1> QED
  BY <1>5, <1>6, <1>7, SteadyKeeps

LEMMA CountedKeeps ==
    ASSUME UpdatesHeld, NEW w \in UpdateWho, Update!Counted(w) PROVE UpdatesHeld'
<1> USE DEF UpdatesHeld
<1>1. /\ x7[w] = "count" /\ x7' = [x7 EXCEPT ![w] = "log"]
      /\ x8' = [x8 EXCEPT ![w] = x4.fetched - x4.head]
      /\ x1' = x1 /\ x2' = x2 /\ x3' = x3 /\ x4' = x4 /\ x5' = x5 /\ x6' = x6 /\ x9' = x9
      /\ x10' = x10 /\ x11' = x11 /\ x12' = x12
  BY DEF Update!Counted
<1>2. x4.fetched - x4.head \in Int /\ x4.fetched - x4.head >= 0
  BY <1>1, DiskFields DEF UpdateTypes, Update!CountsSound, Update!Who, UpdateWho
<1>3. UpdateTypes' /\ Steady
  BY <1>1, <1>2 DEF UpdateTypes, Steady
<1>4. Update!CountsSound'
  BY <1>1, <1>2 DEF UpdateTypes, Update!CountsSound, Update!Who, UpdateWho
<1>5. Update!OfferIsNewer'
  BY <1>1 DEF Update!OfferIsNewer
<1> QED
  BY <1>3, <1>4, <1>5, SteadyKeeps

LEMMA CheckEndsKeeps ==
    ASSUME UpdatesHeld, NEW w \in UpdateWho, Update!CheckEnds(w) PROVE UpdatesHeld'
<1> USE DEF UpdatesHeld
<1> DEFINE seen == [x6 EXCEPT !.offered = x8[w]]
<1>1. /\ x7[w] = "log" /\ x7' = [x7 EXCEPT ![w] = "idle"]
      /\ x1' = x1 /\ x2' = x2 /\ x3' = x3 /\ x4' = x4 /\ x5' = x5 /\ x8' = x8
      /\ x10' = x10 /\ x11' = x11
  BY DEF Update!CheckEnds
<1>2. \/ /\ ~x6.updating /\ x9' = [x9 EXCEPT ![w] = "pull"]
         /\ x6' = [seen EXCEPT !.updating = TRUE]
         /\ x12' = (x12 \/ Update!RestartPending)
      \/ x9' = x9 /\ x12' = x12 /\ x6' = Update!Released(w, seen)
  BY Zenon DEF Update!CheckEnds
<1>3. x1 = "git" /\ x8[w] \in Nat
  BY <1>1 DEF UpdateTypes, Update!CountsSound, Update!Who, UpdateWho
<1>4. /\ seen \in ServerRecord /\ seen.loaded = x6.loaded /\ seen.updating = x6.updating
      /\ seen.timers = x6.timers /\ seen.closing = x6.closing
  BY <1>3, ServerOffered DEF UpdateTypes
<1> HIDE DEF seen
<1>5. Update!CountsSound'
  BY <1>1, <1>3 DEF UpdateTypes, Update!CountsSound, Update!Who, UpdateWho
<1>6. Update!OfferIsNewer'
  BY <1>1, <1>3 DEF Update!OfferIsNewer
<1>7. CASE x9' = x9 /\ x12' = x12 /\ x6' = Update!Released(w, seen)
  <2>1. /\ x6' \in ServerRecord /\ x6'.loaded = x6.loaded /\ x6'.updating = x6.updating
        /\ x6'.timers = x6.timers /\ x6'.closing = x6.closing
    BY <1>4, <1>7, ReleasedServer
  <2>2. UpdateTypes' /\ Steady
    BY <1>1, <1>7, <2>1 DEF UpdateTypes, Steady
  <2> QED
    BY <2>2, <1>5, <1>6, SteadyKeeps
<1>8. CASE /\ ~x6.updating /\ x9' = [x9 EXCEPT ![w] = "pull"]
           /\ x6' = [seen EXCEPT !.updating = TRUE]
           /\ x12' = (x12 \/ Update!RestartPending)
  <2>1. /\ x6' \in ServerRecord /\ x6'.loaded = x6.loaded /\ x6'.updating = TRUE
        /\ x6'.timers = x6.timers /\ x6'.closing = x6.closing
    BY <1>4, <1>8, ServerUpdating
  <2>2. x12' \in BOOLEAN
    BY <1>8, Zenon DEF UpdateTypes
  <2>3. ~x12' => ~x12 /\ ~(x6.timers > 0) /\ ~x6.closing
    BY <1>8 DEF Update!RestartPending
  <2>4. UpdateTypes'
    BY <1>1, <1>8, <2>1, <2>2 DEF UpdateTypes
  <2>5. Resting
    BY <1>8 DEF FlagSet
  <2>6. Update!OnePipeline' /\ ~Resting'
    BY <1>8, <2>5 DEF UpdateTypes, Update!OnePipeline, Update!Who, UpdateWho, Resting
  <2>7. FlagSet'
    BY <2>1, <2>3, <2>6 DEF FlagSet
  <2>8. WholeBuilds'
    BY <1>1, <2>1, <2>3 DEF WholeBuilds
  <2> QED
    BY <2>4, <2>6, <2>7, <2>8, <1>5, <1>6
<1> QED
  BY <1>2, <1>7, <1>8

LEMMA ApplyAskedKeeps ==
    ASSUME UpdatesHeld, Update!ApplyAsked PROVE UpdatesHeld'
<1> USE DEF UpdatesHeld
<1>1. /\ x1 = "git" /\ ~x6.updating /\ x9' = [x9 EXCEPT !["dashboard"] = "pull"]
      /\ x6' = [x6 EXCEPT !.updating = TRUE]
      /\ x12' = (x12 \/ Update!RestartPending)
      /\ x1' = x1 /\ x2' = x2 /\ x3' = x3 /\ x4' = x4 /\ x5' = x5 /\ x7' = x7 /\ x8' = x8
      /\ x10' = x10 /\ x11' = x11 + 1
  BY Zenon DEF Update!ApplyAsked, Update!MayApply
<1>2. /\ x6' \in ServerRecord /\ x6'.loaded = x6.loaded /\ x6'.updating = TRUE
      /\ x6'.timers = x6.timers /\ x6'.closing = x6.closing
  BY <1>1, ServerUpdating DEF UpdateTypes
<1>3. x12' \in BOOLEAN
  BY <1>1, Zenon DEF UpdateTypes
<1>4. ~x12' => ~x12 /\ ~(x6.timers > 0) /\ ~x6.closing
  BY <1>1 DEF Update!RestartPending
<1>5. UpdateTypes'
  BY <1>1, <1>2, <1>3 DEF UpdateTypes, UpdateWho
<1>6. Resting
  BY <1>1 DEF FlagSet
<1>7. Update!OnePipeline' /\ ~Resting'
  BY <1>1, <1>6 DEF UpdateTypes, Update!OnePipeline, Update!Who, UpdateWho, Resting
<1>8. FlagSet' /\ WholeBuilds'
  BY <1>1, <1>2, <1>4, <1>7 DEF FlagSet, WholeBuilds
<1>9. Update!CountsSound' /\ Update!OfferIsNewer'
  BY <1>1 DEF UpdateTypes, Update!CountsSound, Update!Who, UpdateWho, Update!OfferIsNewer
<1> QED
  BY <1>5, <1>7, <1>8, <1>9

\* Only a checkout has a pipeline, and one that works is the only one.
LEMMA PipelineWorks ==
    ASSUME UpdatesHeld, NEW w \in UpdateWho, x9[w] # "idle"
    PROVE  /\ x1 = "git" /\ ~Resting
           /\ \A v \in UpdateWho : v # w => x9[v] = "idle"
  BY DEF UpdatesHeld, UpdateTypes, Update!CountsSound, Update!OnePipeline, Update!Who, UpdateWho, Resting

LEMMA PulledKeeps ==
    ASSUME UpdatesHeld, NEW w \in UpdateWho, Update!Pulled(w) PROVE UpdatesHeld'
<1>1. /\ x9[w] # "idle" /\ x9' = [x9 EXCEPT ![w] = "install"]
      /\ x4' = [x4 EXCEPT !.head = x3, !.fetched = x3]
      /\ x1' = x1 /\ x2' = x2 /\ x3' = x3 /\ x5' = x5 /\ x6' = x6 /\ x7' = x7 /\ x8' = x8
      /\ x10' = x10 /\ x11' = x11 /\ x12' = x12
  BY DEF Update!Pulled
<1>2. x1 = "git" /\ ~Resting /\ \A v \in UpdateWho : v # w => x9[v] = "idle"
  BY <1>1, PipelineWorks
<1> USE DEF UpdatesHeld
<1>3. x4' \in DiskRecord /\ x4'.head = x3 /\ x4'.fetched = x3 /\ x4'.built = x4.built
  BY <1>1, DiskFetched DEF UpdateTypes, DiskRecord
<1>4. UpdateTypes'
  BY <1>1, <1>3 DEF UpdateTypes
<1>5. Update!OnePipeline' /\ ~Resting'
  BY <1>1, <1>2 DEF UpdateTypes, Update!OnePipeline, Update!Who, UpdateWho, Resting
<1>6. FlagSet' /\ WholeBuilds'
  BY <1>1, <1>2, <1>3, <1>5 DEF FlagSet, WholeBuilds
<1>7. Update!CountsSound' /\ Update!OfferIsNewer'
  BY <1>1, <1>2, <1>3 DEF UpdateTypes, Update!CountsSound, Update!Who, UpdateWho, Update!OfferIsNewer
<1> QED
  BY <1>4, <1>5, <1>6, <1>7

LEMMA InstalledKeeps ==
    ASSUME UpdatesHeld, NEW w \in UpdateWho, Update!Installed(w) PROVE UpdatesHeld'
<1>1. /\ x9[w] # "idle" /\ x9' = [x9 EXCEPT ![w] = "build"]
      /\ x1' = x1 /\ x2' = x2 /\ x3' = x3 /\ x4' = x4 /\ x5' = x5 /\ x6' = x6 /\ x7' = x7
      /\ x8' = x8 /\ x10' = x10 /\ x11' = x11 /\ x12' = x12
  BY DEF Update!Installed
<1>2. x1 = "git" /\ ~Resting /\ \A v \in UpdateWho : v # w => x9[v] = "idle"
  BY <1>1, PipelineWorks
<1> USE DEF UpdatesHeld
<1>3. UpdateTypes'
  BY <1>1 DEF UpdateTypes
<1>4. Update!OnePipeline' /\ ~Resting'
  BY <1>1, <1>2 DEF UpdateTypes, Update!OnePipeline, Update!Who, UpdateWho, Resting
<1>5. FlagSet' /\ WholeBuilds'
  BY <1>1, <1>2, <1>4 DEF FlagSet, WholeBuilds
<1>6. Update!CountsSound' /\ Update!OfferIsNewer'
  BY <1>1, <1>2 DEF UpdateTypes, Update!CountsSound, Update!Who, UpdateWho, Update!OfferIsNewer
<1> QED
  BY <1>3, <1>4, <1>5, <1>6

LEMMA BuiltKeeps ==
    ASSUME UpdatesHeld, NEW w \in UpdateWho, Update!Built(w) PROVE UpdatesHeld'
<1> DEFINE s == [x6 EXCEPT !.updating = FALSE, !.timers = @ + 1]
<1>1. /\ x9[w] # "idle" /\ x9' = [x9 EXCEPT ![w] = "idle"]
      /\ x4' = [x4 EXCEPT !.built = x4.head] /\ x6' = Update!Released(w, s)
      /\ x1' = x1 /\ x2' = x2 /\ x3' = x3 /\ x5' = x5 /\ x7' = x7 /\ x8' = x8
      /\ x10' = x10 /\ x11' = x11 /\ x12' = x12
  BY DEF Update!Built
<1>2. x1 = "git" /\ \A v \in UpdateWho : v # w => x9[v] = "idle"
  BY <1>1, PipelineWorks
<1> USE DEF UpdatesHeld
<1>3. s \in ServerRecord /\ s.loaded = x6.loaded /\ s.updating = FALSE
  BY ServerBuilt DEF UpdateTypes
<1> HIDE DEF s
<1>4. x6' \in ServerRecord /\ x6'.loaded = x6.loaded /\ x6'.updating = FALSE
  BY <1>1, <1>3, ReleasedServer
<1>5. /\ x4' \in DiskRecord /\ x4'.head = x4.head /\ x4'.fetched = x4.fetched
      /\ x4'.built = x4.head /\ x4.head \in Nat
  <2>1. x4.head \in {-1} \cup Nat /\ x4.head \in Nat
    BY DiskFields DEF UpdateTypes
  <2> QED
    BY <1>1, <2>1, DiskBuilt DEF UpdateTypes
<1>6. UpdateTypes'
  BY <1>1, <1>4, <1>5 DEF UpdateTypes
<1>7. Update!OnePipeline' /\ Resting'
  BY <1>1, <1>2 DEF UpdateTypes, Update!OnePipeline, Update!Who, UpdateWho, Resting
<1>8. FlagSet' /\ WholeBuilds'
  BY <1>1, <1>4, <1>5, <1>7 DEF FlagSet, WholeBuilds
<1>9. Update!CountsSound' /\ Update!OfferIsNewer'
  BY <1>1, <1>2, <1>5 DEF UpdateTypes, Update!CountsSound, Update!Who, UpdateWho, Update!OfferIsNewer
<1> QED
  BY <1>6, <1>7, <1>8, <1>9

LEMMA ApplyFailsKeeps ==
    ASSUME UpdatesHeld, NEW w \in UpdateWho, Update!ApplyFails(w) PROVE UpdatesHeld'
<1> DEFINE s == [x6 EXCEPT !.updating = FALSE]
<1>1. /\ x9[w] # "idle" /\ x9' = [x9 EXCEPT ![w] = "idle"] /\ x10' = x10 + 1
      /\ x6' = Update!Released(w, s)
      /\ x1' = x1 /\ x2' = x2 /\ x3' = x3 /\ x5' = x5 /\ x7' = x7 /\ x8' = x8
      /\ x11' = x11 /\ x12' = x12
  BY DEF Update!ApplyFails, Update!Failed
<1>2. PICK b \in {x4.built, -1} : x4' = [x4 EXCEPT !.built = b]
  BY DEF Update!ApplyFails, Update!Torn
<1>3. x1 = "git" /\ \A v \in UpdateWho : v # w => x9[v] = "idle"
  BY <1>1, PipelineWorks
<1> USE DEF UpdatesHeld
<1>4. s \in ServerRecord /\ s.loaded = x6.loaded /\ s.updating = FALSE
  BY ServerUpdating DEF UpdateTypes
<1> HIDE DEF s
<1>5. x6' \in ServerRecord /\ x6'.updating = FALSE
  BY <1>1, <1>4, ReleasedServer
<1>6. x4' \in DiskRecord /\ x4'.head = x4.head /\ x4'.fetched = x4.fetched
  <2>1. b \in {-1} \cup Nat
    BY DiskFields DEF UpdateTypes
  <2> QED
    BY <1>2, <2>1, DiskBuilt DEF UpdateTypes
<1>7. UpdateTypes'
  BY <1>1, <1>5, <1>6 DEF UpdateTypes
<1>8. Update!OnePipeline' /\ Resting'
  BY <1>1, <1>3 DEF UpdateTypes, Update!OnePipeline, Update!Who, UpdateWho, Resting
<1>9. FlagSet' /\ WholeBuilds'
  BY <1>1, <1>5, <1>8 DEF FlagSet, WholeBuilds, UpdateTypes
<1>10. Update!CountsSound' /\ Update!OfferIsNewer'
  BY <1>1, <1>3, <1>6 DEF UpdateTypes, Update!CountsSound, Update!Who, UpdateWho, Update!OfferIsNewer
<1> QED
  BY <1>7, <1>8, <1>9, <1>10

LEMMA RestartDueKeeps ==
    ASSUME UpdatesHeld, Update!RestartDue PROVE UpdatesHeld'
<1> USE DEF UpdatesHeld
<1>1. /\ x6.timers > 0 /\ x6' = [x6 EXCEPT !.timers = @ - 1, !.closing = TRUE]
      /\ x1' = x1 /\ x2' = x2 /\ x3' = x3 /\ x4' = x4 /\ x5' = x5 /\ x7' = x7 /\ x8' = x8
      /\ x9' = x9 /\ x10' = x10 /\ x11' = x11 /\ x12' = x12
  BY DEF Update!RestartDue
<1>2. /\ x6' \in ServerRecord /\ x6'.loaded = x6.loaded /\ x6'.updating = x6.updating
      /\ x6'.offered = x6.offered /\ x6'.closing = TRUE
  BY <1>1, ServerDue DEF UpdateTypes
<1>3. x6'.up = x6.up
  BY <1>1 DEF UpdateTypes, ServerRecord
<1>4. UpdateTypes'
  BY <1>1, <1>2 DEF UpdateTypes
<1>5. Update!OnePipeline' /\ FlagSet' /\ WholeBuilds'
  BY <1>1, <1>2 DEF Update!OnePipeline, FlagSet, Resting, WholeBuilds
<1>6. Update!CountsSound' /\ Update!OfferIsNewer'
  BY <1>1, <1>2, <1>3 DEF Update!CountsSound, Update!OfferIsNewer
<1> QED
  BY <1>4, <1>5, <1>6

LEMMA StartsKeep ==
    ASSUME UpdatesHeld, Update!Starts,
           \/ x6.closing /\ x10' = x10
           \/ x10' = x10 + 1
    PROVE  UpdatesHeld'
<1> USE DEF UpdatesHeld
<1> DEFINE building == \E w \in UpdateWho : x9[w] = "build"
           v == IF x1 # "git" THEN x6.loaded ELSE IF building THEN -1 ELSE x4.built
<1>1. /\ x6' = Update!NewServer(v)
      /\ x7' = [w \in UpdateWho |-> "idle"] /\ x9' = [w \in UpdateWho |-> "idle"]
      /\ x1' = x1 /\ x2' = x2 /\ x3' = x3 /\ x5' = x5 /\ x8' = x8 /\ x11' = x11 /\ x12' = x12
  BY DEF Update!Starts, Update!Who, UpdateWho, Update!Torn
<1>2. PICK h \in {x4.head, x3}, b \in IF building THEN {x4.head, -1} ELSE {x4.built} :
         x4' = [x4 EXCEPT !.head = h, !.built = b]
  BY DEF Update!Starts, Update!Who, UpdateWho, Update!Torn
<1>3. h \in Nat /\ b \in {-1} \cup Nat /\ v \in {-1} \cup Nat
  BY DiskFields, ServerFields DEF UpdateTypes
<1>4. x10' = 0 /\ ~x12 => ~building /\ x6.loaded # -1 /\ x4.built # -1
  BY DEF FlagSet, Resting, WholeBuilds, UpdateTypes
<1>5. (x10' = 0 /\ ~x12 => b # -1 /\ v # -1)
  BY <1>4
<1> HIDE DEF building, v
<1>6. /\ x6' \in ServerRecord /\ x6'.loaded = v /\ x6'.updating = FALSE
      /\ x6'.offered = 0 /\ x6'.timers = 0 /\ x6'.closing = FALSE
  BY <1>1, <1>3, ServerNew
<1>7. x4' \in DiskRecord /\ x4'.head = h /\ x4'.built = b
  <2>1. x4 \in DiskRecord /\ x4' = [x4 EXCEPT !.head = h, !.built = b]
    BY <1>2 DEF UpdateTypes
  <2> QED
    BY <1>3, <2>1 DEF DiskRecord
<1>8. UpdateTypes'
  BY <1>1, <1>6, <1>7 DEF UpdateTypes
<1>9. Update!OnePipeline' /\ Resting'
  BY <1>1 DEF Update!OnePipeline, Update!Who, UpdateWho, Resting
<1>10. FlagSet' /\ WholeBuilds'
  BY <1>1, <1>5, <1>6, <1>7, <1>9 DEF FlagSet, WholeBuilds
<1>11. Update!CountsSound' /\ Update!OfferIsNewer'
  BY <1>1, <1>6, <1>7 DEF UpdateTypes, Update!CountsSound, Update!Who, UpdateWho, Update!OfferIsNewer
<1> QED
  BY <1>8, <1>9, <1>10, <1>11

LEMMA RestartAbortedKeeps ==
    ASSUME UpdatesHeld, Update!RestartAborted PROVE UpdatesHeld'
<1> USE DEF UpdatesHeld
<1>1. /\ x6' = [x6 EXCEPT !.up = FALSE] /\ x10' = x10 + 1
      /\ x1' = x1 /\ x2' = x2 /\ x3' = x3 /\ x4' = x4 /\ x5' = x5 /\ x7' = x7 /\ x8' = x8
      /\ x9' = x9 /\ x11' = x11 /\ x12' = x12
  BY DEF Update!RestartAborted
<1>2. /\ x6' \in ServerRecord /\ x6'.loaded = x6.loaded /\ x6'.updating = x6.updating
      /\ x6'.timers = x6.timers /\ x6'.closing = x6.closing
  BY <1>1, ServerDown DEF UpdateTypes
<1>3. x6'.up = FALSE
  BY <1>1 DEF UpdateTypes, ServerRecord
<1>4. UpdateTypes' /\ Steady
  BY <1>1, <1>2 DEF UpdateTypes, Steady
<1>5. Update!CountsSound' /\ Update!OfferIsNewer'
  BY <1>1, <1>3 DEF Update!CountsSound, Update!OfferIsNewer
<1> QED
  BY <1>4, <1>5, SteadyKeeps

LEMMA UpdatesStep == Update!UpdatesInv /\ Update!Next => Update!UpdatesInv'
<1> SUFFICES ASSUME UpdatesHeld, Update!Next PROVE UpdatesHeld'
  BY UpdateParts DEF UpdatesHeld
<1>1. UpdateWho = Update!Who /\ "timer" \in UpdateWho /\ "dashboard" \in UpdateWho
  BY DEF UpdateWho, Update!Who
<1>2. CASE Update!Restarts \/ Update!Killed
  BY <1>2, StartsKeep DEF Update!Restarts, Update!Killed
<1>3. CASE Update!Published \/ Update!ApplyAsked \/ Update!RestartDue \/ Update!RestartAborted
  BY <1>3, PublishedKeeps, ApplyAskedKeeps, RestartDueKeeps, RestartAbortedKeeps
<1>4. CASE Update!CheckBegins("timer") \/ Update!CheckBegins("dashboard")
  BY <1>1, <1>4, CheckBeginsKeeps
<1>5. ASSUME NEW w \in UpdateWho, Update!FetchFails(w) \/ Update!ApplyFails(w) PROVE UpdatesHeld'
  BY <1>5, FetchFailsKeeps, ApplyFailsKeeps
<1>6. ASSUME NEW w \in UpdateWho,
             \/ Update!ReleaseAnswered(w) \/ Update!Fetched(w) \/ Update!Counted(w)
             \/ Update!CheckEnds(w) \/ Update!Pulled(w) \/ Update!Installed(w) \/ Update!Built(w)
      PROVE  UpdatesHeld'
  BY <1>6, ReleaseAnsweredKeeps, FetchedKeeps, CountedKeeps, CheckEndsKeeps, PulledKeeps,
     InstalledKeeps, BuiltKeeps
<1> QED
  BY <1>1, <1>2, <1>3, <1>4, <1>5, <1>6 DEF Update!Next, Update!Progress

-----------------------------------------------------------------------------
(* The dashboard's pages *)

LoadRecord ==
    [at : {"idle", "asked", "answered"}, got : {-1} \cup 0 .. MaxChanges,
     second : BOOLEAN, overtaken : BOOLEAN]

LEMMA LoadFields ==
    ASSUME NEW r \in LoadRecord
    PROVE  /\ r.at \in {"idle", "asked", "answered"} /\ r.got \in {-1} \cup 0 .. MaxChanges
           /\ r.second \in BOOLEAN /\ r.overtaken \in BOOLEAN
  BY DEF LoadRecord

LEMMA LoadNone ==
    /\ Views!NoLoad \in LoadRecord /\ Views!NoLoad.at = "idle"
    /\ ~Views!NoLoad.second /\ ~Views!NoLoad.overtaken
<1>1. Views!NoLoad \in LoadRecord
  BY Zenon DEF Views!NoLoad, Views!Nothing, LoadRecord
<1> QED
  BY <1>1 DEF Views!NoLoad

LEMMA LoadSent ==
    ASSUME NEW b \in BOOLEAN, NEW t \in 0 .. MaxChanges
    PROVE  LET r == Views!Asked(b, t)
           IN  /\ r \in LoadRecord /\ r.at = "asked" /\ ~r.overtaken
               /\ (b => r.second) /\ (~b => ~r.second)
<1>1. PICK g \in {-1} \cup 0 .. MaxChanges :
         Views!Asked(b, t) = [Views!NoLoad EXCEPT !.at = "asked", !.second = b, !.got = g]
  BY Zenon DEF Views!Asked, Views!Nothing
<1>2. PICK n \in LoadRecord : n = Views!NoLoad /\ ~n.overtaken
  BY LoadNone
<1>3. LET r == [n EXCEPT !.at = "asked", !.second = b, !.got = g]
      IN  r \in LoadRecord /\ r.at = "asked" /\ (r.second <=> b) /\ ~r.overtaken
  BY <1>2 DEF LoadRecord
<1> QED
  BY <1>1, <1>2, <1>3

LEMMA LoadAnswered ==
    ASSUME NEW r \in LoadRecord, NEW g \in {-1} \cup 0 .. MaxChanges
    PROVE  LET s == [r EXCEPT !.at = "answered", !.got = g]
           IN  /\ s \in LoadRecord /\ s.at = "answered" /\ s.got = g
               /\ s.second = r.second /\ s.overtaken = r.overtaken
  BY DEF LoadRecord

LEMMA LoadOvertaken ==
    ASSUME NEW r \in LoadRecord, NEW b \in BOOLEAN
    PROVE  LET s == [r EXCEPT !.overtaken = b, !.second = FALSE]
           IN  /\ s \in LoadRecord /\ s.at = r.at /\ s.got = r.got
               /\ ~s.second /\ (s.overtaken <=> b)
  BY DEF LoadRecord

Idle(i) == x4[i].at = "idle"

\* The invariant in parts.
ViewTypes ==
    /\ x1 \in {"accounts", "proxies", "history"}
    /\ x2 \in 0 .. MaxChanges /\ x3 \in {-1} \cup 0 .. MaxChanges
    /\ x4 \in [{1, 2} -> LoadRecord]
    /\ x5 \in {"none", "sent", "done"} /\ x6 \in 0 .. MaxFailures
    /\ x7 \in BOOLEAN /\ x8 \in BOOLEAN

Ordered(i, o) ==
    /\ x4[i].second => ~Idle(i) /\ ~Idle(o) /\ ~x4[o].second /\ ~x4[i].overtaken
    /\ ~Idle(i) /\ ~Idle(o) => x4[i].second \/ x4[o].second

Fresh(i) == x4[i].at = "answered" => x4[i].got = x2

FreshLoad(i, o) ==
    /\ x4[i].second => Fresh(i)
    /\ ~Idle(i) /\ Idle(o) /\ x4[i].overtaken => x3 = x2
    /\ ~Idle(i) /\ Idle(o) /\ ~x4[i].overtaken => Fresh(i)

FreshPage ==
    x1 = "proxies" /\ ~x7 /\ x6 = 0 /\ x5 # "done" =>
        /\ Idle(1) /\ Idle(2) /\ ~x8 => x3 = x2
        /\ FreshLoad(1, 2) /\ FreshLoad(2, 1)

ViewsHeld == ViewTypes /\ Ordered(1, 2) /\ Ordered(2, 1) /\ Views!ChangeFits /\ FreshPage

LEMMA ViewParts ==
    /\ Views!ViewsInv <=> ViewsHeld
    /\ Views!ViewsInv' <=> ViewsHeld'
<1>1. 3 - 1 = 2 /\ 3 - 2 = 1 /\ Views!Slots = {1, 2} /\ Views!Other(1) = 2 /\ Views!Other(2) = 1
  BY DEF Views!Slots, Views!Other
<1>2. Views!TypeOK <=> ViewTypes
  BY <1>1, Zenon DEF Views!TypeOK, ViewTypes, Views!Nothing, LoadRecord
<1>3. Views!TypeOK' <=> ViewTypes'
  BY <1>1, Zenon DEF Views!TypeOK, ViewTypes, Views!Nothing, LoadRecord
<1>4. Views!LoadsOrdered <=> Ordered(1, 2) /\ Ordered(2, 1)
  BY <1>1 DEF Views!LoadsOrdered, Ordered, Views!Free, Idle
<1>5. Views!LoadsOrdered' <=> Ordered(1, 2)' /\ Ordered(2, 1)'
  BY <1>1 DEF Views!LoadsOrdered, Ordered, Views!Free, Idle
<1>6. Views!LastLoadFresh <=> FreshPage
  BY <1>1 DEF Views!LastLoadFresh, FreshPage, FreshLoad, Fresh, Views!Stale, Views!Free, Idle
<1>7. Views!LastLoadFresh' <=> FreshPage'
  BY <1>1 DEF Views!LastLoadFresh, FreshPage, FreshLoad, Fresh, Views!Stale, Views!Free, Idle
<1> QED
  BY <1>2, <1>3, <1>4, <1>5, <1>6, <1>7 DEF Views!ViewsInv, ViewsHeld

LEMMA ViewsStart == Views!Init => Views!ViewsInv
<1> SUFFICES ASSUME Views!Init PROVE ViewsHeld
  BY ViewParts
<1>1. /\ x1 \in {"accounts", "proxies", "history"} /\ x2 = 0 /\ x3 = -1
      /\ x4 = [i \in {1, 2} |-> IF i = 1 THEN Views!Asked(FALSE, 0) ELSE Views!NoLoad]
      /\ x5 = "none" /\ x6 = 0
  BY DEF Views!Init, Views!Slots, Views!Nothing
<1>2. ~x7 /\ ~x8 /\ x7 \in BOOLEAN /\ x8 \in BOOLEAN
  BY Zenon DEF Views!Init
<1>3. 0 \in 0 .. MaxChanges /\ 0 \in 0 .. MaxFailures
  BY ViewAssumption, UpdateAssumption
<1>4. /\ x4[1] \in LoadRecord /\ x4[1].at = "asked" /\ ~x4[1].overtaken /\ ~x4[1].second
      /\ x4[2] \in LoadRecord /\ x4[2].at = "idle" /\ ~x4[2].second
  <2>1. x4[1] = Views!Asked(FALSE, 0) /\ x4[2] = Views!NoLoad
    BY <1>1
  <2>2. PICK b \in BOOLEAN : ~b /\ x4[1] = Views!Asked(b, 0)
    BY <2>1, Zenon
  <2> QED
    BY <1>3, <2>1, <2>2, LoadSent, LoadNone
<1>5. ViewTypes
  BY <1>1, <1>2, <1>3, <1>4 DEF ViewTypes
<1>6. Ordered(1, 2) /\ Ordered(2, 1) /\ FreshPage /\ Views!ChangeFits
  BY <1>1, <1>4 DEF Ordered, Idle, FreshPage, FreshLoad, Fresh, Views!ChangeFits
<1> QED
  BY <1>5, <1>6 DEF ViewsHeld

\* A load that begins is the only one or the second.
LEMMA LoadBegun ==
    ASSUME ViewsHeld, NEW i \in {1, 2}, Views!LoadBegins(i), x2' \in 0 .. MaxChanges
    PROVE  /\ x4' \in [{1, 2} -> LoadRecord]
           /\ Ordered(1, 2)' /\ Ordered(2, 1)' /\ FreshPage'
<1> DEFINE o == 3 - i
<1>1. Idle(i) /\ x4' = [x4 EXCEPT ![i] = Views!Asked(~Idle(o), x2')] /\ o \in {1, 2} /\ o # i
  BY DEF Views!LoadBegins, Views!Free, Idle, Views!Other
<1>2. /\ x4'[i] \in LoadRecord /\ x4'[i].at = "asked" /\ ~x4'[i].overtaken
      /\ (Idle(o) => ~x4'[i].second) /\ (~Idle(o) => x4'[i].second)
  <2>1. CASE Idle(o)
    <3>1. x4'[i] = Views!Asked(FALSE, x2')
      <4>1. (~Idle(o)) = FALSE
        BY <2>1
      <4> QED
        BY <1>1, <4>1 DEF ViewsHeld, ViewTypes
    <3> QED
      BY <2>1, <3>1, LoadSent
  <2>2. CASE ~Idle(o)
    <3>1. x4'[i] = Views!Asked(TRUE, x2')
      <4>1. (~Idle(o)) = TRUE
        BY <2>2
      <4> QED
        BY <1>1, <4>1 DEF ViewsHeld, ViewTypes
    <3> QED
      BY <2>2, <3>1, LoadSent
  <2> QED
    BY <2>1, <2>2
<1>3. x4'[o] = x4[o] /\ x4' \in [{1, 2} -> LoadRecord]
  BY <1>1, <1>2 DEF ViewsHeld, ViewTypes
<1>4. ~x4[o].second
  BY <1>1 DEF ViewsHeld, Ordered
<1>5. CASE i = 1
  BY <1>1, <1>2, <1>3, <1>4, <1>5 DEF Ordered, Idle, FreshPage, FreshLoad, Fresh
<1>6. CASE i = 2
  BY <1>1, <1>2, <1>3, <1>4, <1>6 DEF Ordered, Idle, FreshPage, FreshLoad, Fresh
<1> QED
  BY <1>3, <1>5, <1>6

\* A load that ends leaves the other one, which has been overtaken if it began
\* first.
LEMMA LoadEnded ==
    ASSUME ViewsHeld, NEW i \in {1, 2}, NEW o \in {1, 2}, o # i, ~Idle(i), x4' = Views!Ended(i)
    PROVE  /\ x4' \in [{1, 2} -> LoadRecord]
           /\ x4'[i].at = "idle" /\ ~x4'[i].second
           /\ x4'[o].at = x4[o].at /\ x4'[o].got = x4[o].got /\ ~x4'[o].second
           /\ ~Idle(o) => /\ x4[i].second => x4'[o].overtaken
                          /\ ~x4[i].second => ~x4'[o].overtaken
<1>1. o = Views!Other(i)
  BY DEF Views!Other
<1>2. x4[i] \in LoadRecord /\ x4[o] \in LoadRecord
  BY DEF ViewsHeld, ViewTypes
<1> DEFINE b == x4[o].overtaken \/ (x4[i].second /\ ~Idle(o))
<1>3. PICK c \in BOOLEAN : c = b
  OBVIOUS
<1>4. x4' = [x4 EXCEPT ![i] = Views!NoLoad, ![o].overtaken = c, ![o].second = FALSE]
  BY <1>1, <1>3, Zenon DEF Views!Ended, Views!Free, Idle
<1>5. x4 \in [{1, 2} -> LoadRecord]
  BY DEF ViewsHeld, ViewTypes
<1>6. x4'[i] = Views!NoLoad /\ x4'[o] = [x4[o] EXCEPT !.overtaken = c, !.second = FALSE]
  BY <1>4, <1>5
<1>7. /\ x4'[o] \in LoadRecord /\ x4'[o].at = x4[o].at /\ x4'[o].got = x4[o].got
      /\ ~x4'[o].second /\ (c => x4'[o].overtaken) /\ (~c => ~x4'[o].overtaken)
  BY <1>2, <1>6 DEF LoadRecord
<1>8. x4' \in [{1, 2} -> LoadRecord]
  BY <1>4, <1>5, <1>6, <1>7, LoadNone
<1>9. ~Idle(o) /\ x4[i].second => b
  OBVIOUS
<1>10. ~Idle(o) /\ ~x4[i].second => x4[o].second /\ ~x4[o].overtaken /\ ~b
  <2>1. ~Idle(o) /\ ~x4[i].second => x4[o].second
    BY DEF ViewsHeld, Ordered
  <2>2. x4[o].second => ~x4[o].overtaken
    BY DEF ViewsHeld, Ordered
  <2> QED
    BY <2>1, <2>2
<1> HIDE DEF b
<1> QED
  BY <1>3, <1>6, <1>7, <1>8, <1>9, <1>10, LoadNone

LEMMA AnsweredKeeps ==
    ASSUME ViewsHeld, NEW i \in {1, 2}, Views!Answered(i) PROVE ViewsHeld'
<1> USE DEF ViewsHeld
<1>1. PICK g \in {-1} \cup 0 .. MaxChanges :
         /\ x4' = [x4 EXCEPT ![i].at = "answered", ![i].got = g]
         /\ x1 # "history" => g = x2
  BY LoadFields, ViewAssumption DEF Views!Answered, ViewTypes
<1>2. /\ x4[i].at = "asked" /\ x1' = x1 /\ x2' = x2 /\ x3' = x3 /\ x5' = x5 /\ x6' = x6
      /\ x7' = x7 /\ x8' = x8
  BY DEF Views!Answered
<1>3. x4' = [x4 EXCEPT ![i] = [x4[i] EXCEPT !.at = "answered", !.got = g]] /\ x4[i] \in LoadRecord
  BY <1>1 DEF ViewTypes
<1>4. /\ x4'[i] \in LoadRecord /\ x4'[i].at = "answered" /\ x4'[i].got = g
      /\ x4'[i].second = x4[i].second /\ x4'[i].overtaken = x4[i].overtaken
  BY <1>3, LoadAnswered DEF ViewTypes
<1>5. x4' \in [{1, 2} -> LoadRecord] /\ \A o \in {1, 2} : o # i => x4'[o] = x4[o]
  BY <1>3, <1>4 DEF ViewTypes
<1>6. ViewTypes' /\ Views!ChangeFits'
  BY <1>2, <1>5 DEF ViewTypes, Views!ChangeFits
<1>7. ~Idle(i) /\ ~Idle(i)'
  BY <1>2, <1>4 DEF Idle
<1>8. CASE i = 1
  BY <1>1, <1>2, <1>4, <1>5, <1>6, <1>7, <1>8 DEF Ordered, Idle, FreshPage, FreshLoad, Fresh
<1>9. CASE i = 2
  BY <1>1, <1>2, <1>4, <1>5, <1>6, <1>7, <1>9 DEF Ordered, Idle, FreshPage, FreshLoad, Fresh
<1> QED
  BY <1>8, <1>9

LEMMA ShowsKeeps ==
    ASSUME ViewsHeld, NEW i \in {1, 2}, Views!Shows(i) PROVE ViewsHeld'
<1> USE DEF ViewsHeld
<1>1. PICK o \in {1, 2} : o # i
  OBVIOUS
<1>2. /\ x4[i].at = "answered" /\ x3' = x4[i].got /\ x4' = Views!Ended(i)
      /\ x1' = x1 /\ x2' = x2 /\ x5' = x5 /\ x6' = x6 /\ x7' = x7
      /\ x8' = x4[i].overtaken
  BY DEF Views!Shows
<1>3. ~Idle(i)
  BY <1>2 DEF Idle
<1>4. /\ x4' \in [{1, 2} -> LoadRecord]
      /\ x4'[i].at = "idle" /\ ~x4'[i].second
      /\ x4'[o].at = x4[o].at /\ x4'[o].got = x4[o].got /\ ~x4'[o].second
      /\ ~Idle(o) => /\ x4[i].second => x4'[o].overtaken
                     /\ ~x4[i].second => ~x4'[o].overtaken
  BY <1>1, <1>2, <1>3, LoadEnded
<1>5. x4[i] \in LoadRecord
  BY DEF ViewTypes
<1>6. x3' \in {-1} \cup 0 .. MaxChanges /\ x8' \in BOOLEAN
  BY <1>2, <1>5, LoadFields
<1>7. ViewTypes' /\ Views!ChangeFits'
  BY <1>2, <1>4, <1>6 DEF ViewTypes, Views!ChangeFits
<1>8. CASE i = 1 /\ o = 2
  <2>1. Ordered(1, 2)' /\ Ordered(2, 1)'
    BY <1>4, <1>8 DEF Ordered, Idle
  <2>2. FreshPage'
    BY <1>2, <1>3, <1>4, <1>8 DEF Ordered, Idle, FreshPage, FreshLoad, Fresh
  <2> QED
    BY <1>7, <2>1, <2>2
<1>9. CASE i = 2 /\ o = 1
  <2>1. Ordered(1, 2)' /\ Ordered(2, 1)'
    BY <1>4, <1>9 DEF Ordered, Idle
  <2>2. FreshPage'
    BY <1>2, <1>3, <1>4, <1>9 DEF Ordered, Idle, FreshPage, FreshLoad, Fresh
  <2> QED
    BY <1>7, <2>1, <2>2
<1> QED
  BY <1>1, <1>8, <1>9

LEMMA LoadFailsKeeps ==
    ASSUME ViewsHeld, NEW i \in {1, 2}, Views!LoadFails(i) PROVE ViewsHeld'
<1> USE DEF ViewsHeld
<1>1. PICK o \in {1, 2} : o # i
  OBVIOUS
<1>2. /\ ~Idle(i) /\ x6 < MaxFailures /\ x6' = x6 + 1 /\ x3' \in {x3, -1} /\ x4' = Views!Ended(i)
      /\ x1' = x1 /\ x2' = x2 /\ x5' = x5 /\ x7' = x7 /\ x8' = x8
  BY DEF Views!LoadFails, Views!Free, Idle, Views!Nothing
<1>3. /\ x4' \in [{1, 2} -> LoadRecord]
      /\ x4'[i].at = "idle" /\ ~x4'[i].second
      /\ x4'[o].at = x4[o].at /\ x4'[o].got = x4[o].got /\ ~x4'[o].second
  BY <1>1, <1>2, LoadEnded
<1>4. ViewTypes' /\ Views!ChangeFits' /\ FreshPage'
  BY <1>2, <1>3, UpdateAssumption DEF ViewTypes, Views!ChangeFits, FreshPage
<1>5. CASE i = 1 /\ o = 2
  BY <1>3, <1>4, <1>5 DEF Ordered, Idle
<1>6. CASE i = 2 /\ o = 1
  BY <1>3, <1>4, <1>6 DEF Ordered, Idle
<1> QED
  BY <1>1, <1>5, <1>6

LEMMA ViewsStep == Views!ViewsInv /\ Views!Next => Views!ViewsInv'
<1> SUFFICES ASSUME ViewsHeld, Views!Next PROVE ViewsHeld'
  BY ViewParts
<1> USE DEF ViewsHeld
<1>0. Views!Slots = {1, 2} /\ x2' \in 0 .. MaxChanges
  <2>1. \/ x2' = x2
        \/ x2 < MaxChanges /\ x2' = x2 + 1
    BY DEF Views!Next, Views!Poll, Views!Answered, Views!Shows, Views!LoadFails, Views!SetFilter,
       Views!ChangeAsked, Views!ChangeMade, Views!ChangeAnswered, Views!ChangeFails,
       Views!ChangedElsewhere, Views!ChangeFits
  <2> QED
    BY <2>1, ViewAssumption DEF Views!Slots, ViewTypes
<1>1. ASSUME NEW i \in {1, 2}, Views!LoadBegins(i), x1' = x1, x3' = x3, x6' = x6, x7' = x7, x8' = x8,
             x5' \in {"none", "sent", "done"}, Views!ChangeFits'
      PROVE  ViewsHeld'
  <2>1. x4' \in [{1, 2} -> LoadRecord] /\ Ordered(1, 2)' /\ Ordered(2, 1)' /\ FreshPage'
    BY <1>0, <1>1, LoadBegun
  <2> QED
    BY <1>0, <1>1, <2>1 DEF ViewTypes
<1>2. CASE Views!Poll
  BY <1>0, <1>1, <1>2 DEF Views!Poll, Views!ChangeFits, ViewTypes
<1>3. CASE Views!SetFilter
  BY <1>0, <1>1, <1>3 DEF Views!SetFilter, Views!ChangeFits, ViewTypes
<1>4. CASE Views!ChangeAnswered
  BY <1>0, <1>1, <1>4 DEF Views!ChangeAnswered, Views!ChangeFits
<1>5. CASE Views!ChangeFails
  <2>1. /\ x6' = x6 + 1 /\ x6 < MaxFailures /\ x5' = "none" /\ x2' = x2
        /\ x1' = x1 /\ x3' = x3 /\ x7' = x7 /\ x8' = x8
    BY <1>5 DEF Views!ChangeFails
  <2>2. x4' \in [{1, 2} -> LoadRecord] /\ Ordered(1, 2)' /\ Ordered(2, 1)'
    <3>1. CASE x4' = x4
      BY <3>1 DEF ViewTypes, Ordered, Idle
    <3>2. ASSUME NEW i \in {1, 2}, Views!LoadBegins(i)
          PROVE  x4' \in [{1, 2} -> LoadRecord] /\ Ordered(1, 2)' /\ Ordered(2, 1)'
      BY <1>0, <3>2, LoadBegun
    <3> QED
      BY <1>0, <1>5, <3>1, <3>2 DEF Views!ChangeFails
  <2> QED
    BY <2>1, <2>2, UpdateAssumption DEF ViewTypes, Views!ChangeFits, FreshPage
<1>6. CASE Views!ChangeAsked \/ Views!ChangeMade \/ Views!ChangedElsewhere
  <2>1. /\ x1' = x1 /\ x3' = x3 /\ x4' = x4 /\ x6' = x6 /\ x8' = x8
        /\ x5' \in {"none", "sent", "done"} /\ Views!ChangeFits'
    BY <1>6, ViewAssumption DEF Views!ChangeAsked, Views!ChangeMade, Views!ChangedElsewhere,
       Views!ChangeFits, ViewTypes
  <2>2. x7' \in BOOLEAN
    BY <1>6, Zenon DEF Views!ChangeAsked, Views!ChangeMade, Views!ChangedElsewhere, ViewTypes
  <2>3. FreshPage'
    BY <1>6, <2>1 DEF Views!ChangeAsked, Views!ChangeMade, Views!ChangedElsewhere, FreshPage,
       FreshLoad, Fresh, Idle
  <2> QED
    BY <1>0, <2>1, <2>2, <2>3 DEF ViewTypes, Ordered, Idle
<1>7. ASSUME NEW i \in {1, 2}, Views!Answered(i) \/ Views!Shows(i) \/ Views!LoadFails(i)
      PROVE  ViewsHeld'
  BY <1>7, AnsweredKeeps, ShowsKeeps, LoadFailsKeeps
<1> QED
  BY <1>0, <1>2, <1>3, <1>4, <1>5, <1>6, <1>7 DEF Views!Next

-----------------------------------------------------------------------------
(* The attempts of a call to the upstream *)

CallRecord ==
    [kind : {"stream", "compact"}, ws : BOOLEAN, attempt : 0 .. MaxRetries,
     at : {"idle", "connecting", "posting", "delay", "open", "threw"}, via : {"http", "ws"}]
Attempt ==
    [via : {"http", "ws"}, prev : BOOLEAN, fate : {"unknown", "unsent", "refused", "accepted"}]

NoneTaken(s) == \A i \in 1 .. Len(s) : s[i].fate \in {"unsent", "refused"}
NoneTakenBeforeLast(s) == \A i \in 1 .. Len(s) : i < Len(s) => s[i].fate \in {"unsent", "refused"}

LEMMA AttemptNew ==
    ASSUME NEW s \in Seq(Attempt), NEW p \in Attempt
    PROVE  /\ Append(s, p) \in Seq(Attempt) /\ Append(s, p) # <<>>
           /\ NoneTaken(s) => NoneTakenBeforeLast(Append(s, p))
  BY DEF NoneTaken, NoneTakenBeforeLast

LEMMA AttemptFate ==
    ASSUME NEW s \in Seq(Attempt), s # <<>>, NEW f \in {"unsent", "refused", "accepted"}
    PROVE  LET t == [s EXCEPT ![Len(s)].fate = f]
           IN  /\ t \in Seq(Attempt) /\ t # <<>> /\ Len(t) = Len(s)
               /\ NoneTakenBeforeLast(s) => NoneTakenBeforeLast(t)
               /\ NoneTakenBeforeLast(s) /\ f # "accepted" => NoneTaken(t)
<1> DEFINE n == Len(s)
           r == [s[n] EXCEPT !.fate = f]
           t == [s EXCEPT ![n] = r]
<1>1. n \in Nat \ {0} /\ s \in [1 .. n -> Attempt] /\ s[n] \in Attempt
  OBVIOUS
<1>2. r \in Attempt /\ r.fate = f
  BY <1>1 DEF Attempt
<1> HIDE DEF r
<1>3. t \in Seq(Attempt) /\ Len(t) = n /\ t # <<>>
  BY <1>1, <1>2
<1>4. \A i \in 1 .. n : t[i] = IF i = n THEN r ELSE s[i]
  BY <1>1
<1>5. [s EXCEPT ![Len(s)].fate = f] = t
  BY DEF r
<1> HIDE DEF t
<1> QED
  BY <1>1, <1>2, <1>3, <1>4, <1>5 DEF NoneTaken, NoneTakenBeforeLast

\* The invariant in parts.
CallsHeld ==
    /\ x1 \in CallRecord /\ x2 \in Seq(Attempt)
    /\ x1.at = "idle" => x2 = <<>>
    /\ x1.at \in {"connecting", "posting"} => x2 # <<>>
    /\ x1.kind = "stream" => NoneTakenBeforeLast(x2)
    /\ x1.kind = "stream" /\ x1.at = "delay" => x2 # <<>> /\ NoneTaken(x2)

LEMMA CallParts ==
    /\ Upstream!AttemptsInv => CallsHeld
    /\ CallsHeld => Upstream!AttemptsInv
    /\ CallsHeld' => Upstream!AttemptsInv'
<1> USE DEF CallsHeld, Upstream!AttemptsInv, Upstream!AcceptedOnce, Upstream!Untaken, NoneTaken,
        NoneTakenBeforeLast, CallRecord, Attempt
<1>1. ASSUME Upstream!AttemptsInv PROVE CallsHeld
  BY <1>1
<1>2. ASSUME CallsHeld PROVE Upstream!AttemptsInv
  BY <1>2
<1>3. ASSUME CallsHeld' PROVE Upstream!AttemptsInv'
  BY <1>3
<1> QED
  BY <1>1, <1>2, <1>3

LEMMA FreshCall ==
    Upstream!Init => x1 \in CallRecord /\ x1.at = "idle" /\ x1.via = "http"
<1> SUFFICES ASSUME Upstream!Init PROVE x1 \in CallRecord /\ x1.at = "idle" /\ x1.via = "http"
  OBVIOUS
<1>1. 0 \in 0 .. MaxRetries
  BY RetryAssumption
<1>2. ASSUME NEW kind \in {"stream", "compact"}, NEW ws \in BOOLEAN,
             NEW c \in [kind : {kind}, ws : {ws}, attempt : {0}, at : {"idle"}, via : {"http"}]
      PROVE  c \in CallRecord /\ c.at = "idle" /\ c.via = "http"
  BY <1>1 DEF CallRecord
<1>3. \E kind \in {"stream", "compact"}, ws \in BOOLEAN :
         x1 \in [kind : {kind}, ws : {ws}, attempt : {0}, at : {"idle"}, via : {"http"}]
  BY DEF Upstream!Init
<1> QED
  BY <1>2, <1>3

LEMMA CallsStart == Upstream!Init => Upstream!AttemptsInv
<1> SUFFICES ASSUME Upstream!Init PROVE CallsHeld
  BY CallParts
<1>1. x1 \in CallRecord /\ x1.at = "idle"
  BY FreshCall
<1>2. x2 = <<>>
  BY DEF Upstream!Init
<1> QED
  BY <1>1, <1>2 DEF CallsHeld, NoneTakenBeforeLast

LEMMA CallMoves ==
    ASSUME NEW c \in CallRecord,
           NEW at \in {"idle", "connecting", "posting", "delay", "open", "threw"},
           NEW via \in {"http", "ws"}, NEW n \in 0 .. MaxRetries
    PROVE  /\ LET d == [c EXCEPT !.at = at] IN d \in CallRecord /\ d.at = at /\ d.kind = c.kind
           /\ LET d == [c EXCEPT !.at = at, !.via = via]
              IN  d \in CallRecord /\ d.at = at /\ d.kind = c.kind
           /\ LET d == [c EXCEPT !.at = at, !.attempt = n]
              IN  d \in CallRecord /\ d.at = at /\ d.kind = c.kind
  BY DEF CallRecord

LEMMA PostKeeps ==
    ASSUME CallsHeld, NEW before \in Seq(Attempt), x1.kind = "stream" => NoneTaken(before),
           before # <<>> \/ x2 = before, Upstream!Post(before)
    PROVE  CallsHeld'
<1>1. PICK p \in Attempt :
         \/ x1' = [x1 EXCEPT !.at = "threw"] /\ x2' = before
         \/ x1' = [x1 EXCEPT !.at = "posting", !.via = "http"] /\ x2' = Append(before, p)
  <2>1. [via |-> "http", prev |-> FALSE, fate |-> "unknown"] \in Attempt
    BY Zenon DEF Attempt
  <2> QED
    BY <2>1 DEF Upstream!Post
<1>2. x1' \in CallRecord /\ x1'.kind = x1.kind /\ x1'.at \in {"threw", "posting"}
  BY <1>1 DEF CallsHeld, CallRecord
<1>3. CASE x1' = [x1 EXCEPT !.at = "threw"] /\ x2' = before
  <2>1. x1'.at = "threw"
    BY <1>3 DEF CallsHeld, CallRecord
  <2> QED
    BY <1>2, <1>3, <2>1 DEF CallsHeld, NoneTaken, NoneTakenBeforeLast
<1>4. CASE x2' = Append(before, p)
  BY <1>2, <1>4, AttemptNew DEF CallsHeld
<1> QED
  BY <1>1, <1>3, <1>4

LEMMA StartKeeps ==
    ASSUME CallsHeld, x1.at \in {"idle", "delay"}, Upstream!Start
    PROVE  CallsHeld'
<1>1. x2 \in Seq(Attempt) /\ (x1.kind = "stream" => NoneTaken(x2))
  BY DEF CallsHeld, NoneTaken
<1>2. CASE Upstream!Post(x2)
  BY <1>1, <1>2, PostKeeps
<1>3. CASE ~Upstream!Post(x2)
  <2>1. PICK p \in Attempt :
           x1' = [x1 EXCEPT !.at = "connecting", !.via = "ws"] /\ x2' = Append(x2, p)
    BY <1>3 DEF Upstream!Start, Attempt
  <2>2. x1' \in CallRecord /\ x1'.kind = x1.kind /\ x1'.at = "connecting"
    BY <2>1 DEF CallsHeld, CallRecord
  <2> QED
    BY <1>1, <2>1, <2>2, AttemptNew DEF CallsHeld
<1> QED
  BY <1>2, <1>3

\* The fate of the last attempt is known, and the call goes on.
LEMMA FateKeeps ==
    ASSUME CallsHeld, x2 # <<>>, NEW f \in {"unsent", "refused", "accepted"}, Upstream!Fate(f),
           x1' \in CallRecord, x1'.kind = x1.kind, x1'.at \in {"open", "delay", "threw"},
           x1'.at = "delay" => f = "refused"
    PROVE  CallsHeld'
<1>1. /\ x2' \in Seq(Attempt) /\ x2' # <<>>
      /\ NoneTakenBeforeLast(x2) => NoneTakenBeforeLast(x2')
      /\ NoneTakenBeforeLast(x2) /\ f # "accepted" => NoneTaken(x2')
  BY AttemptFate DEF Upstream!Fate, CallsHeld
<1> QED
  BY <1>1 DEF CallsHeld

LEMMA ErrorCalls ==
    ASSUME x1 \in CallRecord, NEW status \in {0, 429, 502, 503}, Upstream!AfterError(status)
    PROVE  /\ x1' \in CallRecord /\ x1'.kind = x1.kind /\ x1'.at \in {"delay", "threw"}
           /\ status = 0 => x1'.at = "threw"
<1>1. x1.attempt \in 0 .. MaxRetries
  BY DEF CallRecord
<1>2. CASE Upstream!Retryable(status)
  <2>1. x1.attempt + 1 \in 0 .. MaxRetries /\ status # 0
    BY <1>1, <1>2, RetryAssumption DEF Upstream!Retryable
  <2>2. x1' = [x1 EXCEPT !.at = "delay", !.attempt = x1.attempt + 1]
    BY <1>2 DEF Upstream!AfterError
  <2> QED
    BY <2>1, <2>2 DEF CallRecord
<1>3. CASE ~Upstream!Retryable(status)
  <2>1. x1' = [x1 EXCEPT !.at = "threw"]
    BY <1>3 DEF Upstream!AfterError
  <2> QED
    BY <2>1 DEF CallRecord
<1> QED
  BY <1>2, <1>3

LEMMA CallsStep == Upstream!AttemptsInv /\ Upstream!Next => Upstream!AttemptsInv'
<1> SUFFICES ASSUME CallsHeld, Upstream!Next PROVE CallsHeld'
  BY CallParts
<1>1. CASE Upstream!Send \/ Upstream!DelayPasses
  BY <1>1, StartKeeps DEF Upstream!Send, Upstream!DelayPasses
<1>2. CASE Upstream!FallBack
  <2> DEFINE t == [x2 EXCEPT ![Len(x2)].fate = "unsent"]
  <2>1. x1.at = "connecting" /\ Upstream!Post(t)
    BY <1>2 DEF Upstream!FallBack
  <2>2. /\ t \in Seq(Attempt) /\ t # <<>>
        /\ NoneTakenBeforeLast(x2) => NoneTaken(t)
    BY <2>1, AttemptFate DEF CallsHeld
  <2> HIDE DEF t
  <2> QED
    BY <2>1, <2>2, PostKeeps DEF CallsHeld
<1>3. CASE Upstream!WsOpens \/ Upstream!PostAnswered
  <2>1. /\ x1.at \in {"connecting", "posting"} /\ x1' = [x1 EXCEPT !.at = "open"]
        /\ Upstream!Fate("accepted")
    BY <1>3 DEF Upstream!WsOpens, Upstream!PostAnswered
  <2>2. x1' \in CallRecord /\ x1'.kind = x1.kind /\ x1'.at = "open" /\ x2 # <<>>
    BY <2>1 DEF CallsHeld, CallRecord
  <2> QED
    BY <2>1, <2>2, FateKeeps
<1>4. CASE Upstream!PostRefused
  <2>1. x2 # <<>> /\ Upstream!Fate("refused")
    BY <1>4 DEF Upstream!PostRefused, CallsHeld
  <2>2. x1' \in CallRecord /\ x1'.kind = x1.kind /\ x1'.at \in {"delay", "threw"}
    BY <1>4, ErrorCalls DEF Upstream!PostRefused, CallsHeld
  <2> QED
    BY <2>1, <2>2, FateKeeps
<1>5. CASE Upstream!PostLost
  <2>1. PICK f \in {"unsent", "accepted"} : x2 # <<>> /\ Upstream!Fate(f)
    BY <1>5 DEF Upstream!PostLost, CallsHeld
  <2>2. x1' \in CallRecord /\ x1'.kind = x1.kind /\ x1'.at = "threw"
    BY <1>5, ErrorCalls DEF Upstream!PostLost, CallsHeld
  <2> QED
    BY <2>1, <2>2, FateKeeps
<1>6. CASE Upstream!Abort
  <2>1. CASE x1.at = "connecting"
    <3>1. x2 # <<>> /\ Upstream!Fate("unsent") /\ x1' = [x1 EXCEPT !.at = "threw"]
      BY <1>6, <2>1 DEF Upstream!Abort, CallsHeld
    <3>2. x1' \in CallRecord /\ x1'.kind = x1.kind /\ x1'.at = "threw"
      BY <3>1 DEF CallsHeld, CallRecord
    <3> QED
      BY <3>1, <3>2, FateKeeps
  <2>2. CASE x1.at # "connecting"
    BY <1>6, <2>2 DEF Upstream!Abort, CallsHeld
  <2> QED
    BY <2>1, <2>2
<1>7. CASE Upstream!CompactEnds
  <2>1. CASE UNCHANGED x1
    BY <1>7, <2>1 DEF Upstream!CompactEnds, CallsHeld
  <2>2. CASE Upstream!AfterError(502)
    <3>1. x1' \in CallRecord /\ x1'.kind = x1.kind /\ x1'.at \in {"delay", "threw"}
      BY <2>2, ErrorCalls DEF CallsHeld
    <3>2. x1.kind = "compact" /\ x2' = x2
      BY <1>7 DEF Upstream!CompactEnds
    <3> QED
      BY <3>1, <3>2 DEF CallsHeld
  <2> QED
    BY <1>7, <2>1, <2>2 DEF Upstream!CompactEnds
<1>8. CASE UNCHANGED <<x1, x2>>
  BY <1>8 DEF CallsHeld
<1>9. ASSUME \/ Upstream!Makes \/ Upstream!ChunkArrives \/ Upstream!MessageArrives
             \/ Upstream!HttpEnds \/ Upstream!WsCloses \/ Upstream!WsFails \/ Upstream!Read
             \/ Upstream!ReadEnd \/ Upstream!Overflows
      PROVE  UNCHANGED <<x1, x2>>
  BY <1>9 DEF Upstream!Makes, Upstream!ChunkArrives, Upstream!MessageArrives, Upstream!HttpEnds,
     Upstream!WsCloses, Upstream!WsFails, Upstream!Read, Upstream!ReadEnd, Upstream!Overflows
<1> QED
  BY <1>1, <1>2, <1>3, <1>4, <1>5, <1>6, <1>7, <1>8, <1>9 DEF Upstream!Next

-----------------------------------------------------------------------------
(* The answer and its reader: where each byte of it is *)

\* Byte p of an answer of events, or of a plain body.
ByteAt(plain, p) ==
    IF plain THEN MaxMade + 1 ELSE IF p % 3 = 0 THEN 0 ELSE p \div 3 + 1

\* A reader that has got the first c bytes of the answer.
ReaderAt(plain, c) ==
    [rest |-> [j \in 1 .. c % 3 |-> ByteAt(plain, c - (c % 3) + j)],
     events |-> [i \in 1 .. c \div 3 |-> [n |-> i, whole |-> TRUE]],
     end |-> "no"]

LEMMA Thirds ==
    ASSUME NEW c \in Nat
    PROVE  /\ c \div 3 \in Nat /\ c % 3 \in 0 .. 2 /\ c = 3 * (c \div 3) + (c % 3)
           /\ c % 3 # 2 => (c + 1) \div 3 = c \div 3 /\ (c + 1) % 3 = (c % 3) + 1
           /\ c % 3 = 2 => (c + 1) \div 3 = c \div 3 + 1 /\ (c + 1) % 3 = 0
  OBVIOUS

LEMMA ByteTyped == ASSUME NEW plain \in BOOLEAN, NEW p \in Nat PROVE ByteAt(plain, p) \in Nat
<1>1. p \div 3 + 1 \in Nat
  OBVIOUS
<1>. QED BY <1>1, RetryAssumption DEF ByteAt

LEMMA ParseAt ==
    ASSUME NEW plain \in BOOLEAN, NEW c \in Nat, plain => c = 0
    PROVE  Upstream!Parse(ReaderAt(plain, c), ByteAt(plain, c + 1)) = ReaderAt(plain, c + 1)
<1> DEFINE q == c \div 3
           m == c % 3
           b == ByteAt(plain, c + 1)
           rest == [j \in 1 .. m |-> ByteAt(plain, c - m + j)]
           events == [i \in 1 .. q |-> [n |-> i, whole |-> TRUE]]
           r == ReaderAt(plain, c)
<1>1. q \in Nat /\ m \in 0 .. 2 /\ c = 3 * q + m
  BY Thirds
<1>2. r = [rest |-> rest, events |-> events, end |-> "no"]
  BY DEF ReaderAt
<1>3. rest \in Seq(Nat) /\ Len(rest) = m /\ \A j \in 1 .. m : rest[j] = ByteAt(plain, c - m + j)
  <2>1. \A j \in 1 .. m : c - m + j \in Nat
    BY <1>1
  <2>2. \A j \in 1 .. m : ByteAt(plain, c - m + j) \in Nat
    BY <2>1, ByteTyped
  <2>. QED BY <1>1, <2>2
<1>4. events \in Seq([n : Nat, whole : BOOLEAN]) /\ Len(events) = q
      /\ \A i \in 1 .. q : events[i] = [n |-> i, whole |-> TRUE]
  BY <1>1
<1>5. CASE m # 2 \/ plain
  <2>1. b # 0
    <3>1. CASE plain
      BY <3>1, RetryAssumption DEF ByteAt
    <3>2. CASE ~plain
      <4>1. (c + 1) % 3 # 0 /\ (c + 1) \div 3 + 1 # 0
        BY <1>1, <1>5, <3>2, Thirds
      <4>. QED BY <3>2, <4>1 DEF ByteAt
    <3>. QED BY <3>1, <3>2
  <2>2. (c + 1) \div 3 = q /\ (c + 1) % 3 = m + 1
    <3>1. m # 2
      BY <1>1, <1>5
    <3>. QED BY <3>1, Thirds
  <2>3. b \in Nat
    BY ByteTyped
  <2> HIDE DEF b, q, m, rest, events
  <2>4. Upstream!Parse(r, b) = [rest |-> Append(rest, b), events |-> events, end |-> "no"]
    BY <1>2, <2>1 DEF Upstream!Parse, Upstream!EndMark
  <2>5. Append(rest, b) = [j \in 1 .. m + 1 |-> ByteAt(plain, (c + 1) - (m + 1) + j)]
    <3> DEFINE new == [j \in 1 .. m + 1 |-> ByteAt(plain, (c + 1) - (m + 1) + j)]
    <3>1. m + 1 \in Nat /\ \A j \in 1 .. m + 1 : (c + 1) - (m + 1) + j = c - m + j /\ c - m + j \in Nat
      BY <1>1
    <3>2. \A j \in 1 .. m + 1 : new[j] = ByteAt(plain, c - m + j) /\ new[j] \in Nat
      BY <3>1, ByteTyped
    <3>3. new \in Seq(Nat) /\ Len(new) = m + 1
      BY <3>1, <3>2
    <3>4. Append(rest, b) \in Seq(Nat) /\ Len(Append(rest, b)) = m + 1
      BY <1>3, <2>3
    <3>5. ASSUME NEW j \in 1 .. m + 1 PROVE Append(rest, b)[j] = new[j]
      <4>1. CASE j = m + 1
        <5>1. c - m + j = c + 1
          BY <1>1, <4>1
        <5>2. Append(rest, b)[m + 1] = b
          BY <1>3, <2>3
        <5>3. new[m + 1] = ByteAt(plain, c - m + (m + 1)) /\ c - m + (m + 1) = c + 1
          BY <1>1, <3>1, <3>2
        <5>4. new[m + 1] = b
          BY <5>3 DEF b
        <5>. QED BY <4>1, <5>2, <5>4
      <4>2. CASE j # m + 1
        <5>1. j \in 1 .. m
          BY <1>1, <4>2
        <5>. QED BY <1>3, <2>3, <3>2, <5>1
      <4>. QED BY <4>1, <4>2
    <3> HIDE DEF new
    <3>6. Append(rest, b) = new
      BY <3>3, <3>4, <3>5
    <3>. QED BY <3>6 DEF new
  <2>6. ReaderAt(plain, c + 1) =
          [rest |-> [j \in 1 .. m + 1 |-> ByteAt(plain, (c + 1) - (m + 1) + j)],
           events |-> [i \in 1 .. q |-> [n |-> i, whole |-> TRUE]], end |-> "no"]
    BY <2>2 DEF ReaderAt
  <2>. QED BY <2>4, <2>5, <2>6 DEF b, r, events
<1>6. CASE m = 2 /\ ~plain
  <2>1. (c + 1) \div 3 = q + 1 /\ (c + 1) % 3 = 0
    BY <1>6, Thirds
  <2>2. b = 0
    BY <1>6, <2>1 DEF ByteAt
  <2>3. rest[1] = q + 1 /\ Len(rest) = 2
    <3>1. c - m + 1 = 3 * q + 1 /\ (3 * q + 1) % 3 = 1 /\ (3 * q + 1) \div 3 = q
      BY <1>1
    <3>2. ByteAt(plain, 3 * q + 1) = q + 1
      BY <1>6, <3>1 DEF ByteAt
    <3> HIDE DEF rest, m, q
    <3>3. 1 \in 1 .. m
      BY <1>6
    <3>. QED BY <1>3, <1>6, <3>1, <3>2, <3>3
  <2> HIDE DEF b, q, m, rest, events
  <2>4. Upstream!Parse(r, b) =
          [rest |-> <<>>, events |-> Append(events, [n |-> q + 1, whole |-> TRUE]), end |-> "no"]
    <3>1. Upstream!Parsed(rest) = [n |-> q + 1, whole |-> TRUE]
      BY <2>3 DEF Upstream!Parsed
    <3> HIDE DEF r
    <3>. QED BY <1>2, <2>2, <3>1 DEF Upstream!Parse, Upstream!EndMark
  <2>5. Append(events, [n |-> q + 1, whole |-> TRUE])
          = [i \in 1 .. q + 1 |-> [n |-> i, whole |-> TRUE]]
    <3> DEFINE new == [i \in 1 .. q + 1 |-> [n |-> i, whole |-> TRUE]]
               old == Append(events, [n |-> q + 1, whole |-> TRUE])
    <3>1. new \in Seq([n : Nat, whole : BOOLEAN]) /\ Len(new) = q + 1
      BY <1>1
    <3>2. old \in Seq([n : Nat, whole : BOOLEAN]) /\ Len(old) = q + 1
      BY <1>1, <1>4
    <3>3. ASSUME NEW i \in 1 .. q + 1 PROVE old[i] = new[i]
      <4>1. new[i] = [n |-> i, whole |-> TRUE]
        OBVIOUS
      <4>2. CASE i = q + 1
        <5>1. old[q + 1] = [n |-> q + 1, whole |-> TRUE]
          BY <1>1, <1>4
        <5>. QED BY <4>1, <4>2, <5>1
      <4>3. CASE i # q + 1
        <5>1. i \in 1 .. q
          BY <1>1, <4>3
        <5>2. old[i] = events[i]
          BY <1>4, <5>1
        <5>. QED BY <1>4, <4>1, <5>1, <5>2
      <4>. QED BY <4>2, <4>3
    <3> HIDE DEF new, old
    <3>4. old = new
      BY <3>1, <3>2, <3>3
    <3>. QED BY <3>4 DEF old, new
  <2>6. ReaderAt(plain, c + 1) =
          [rest |-> <<>>, events |-> [i \in 1 .. q + 1 |-> [n |-> i, whole |-> TRUE]], end |-> "no"]
    <3>1. [j \in 1 .. 0 |-> ByteAt(plain, (c + 1) - 0 + j)] = <<>>
      OBVIOUS
    <3>. QED BY <2>1, <3>1 DEF ReaderAt
  <2>. QED BY <2>4, <2>5, <2>6 DEF b, r
<1>. QED BY <1>5, <1>6

ReadAll(r, s) == Upstream!FoldLeft(LAMBDA q, b : Upstream!Parse(q, b), r, s)
ParsesOf(h, r, s) ==
    h = [t \in SUBSET DOMAIN s |->
            IF t = {} THEN r
            ELSE Upstream!Parse(h[t \ {Upstream!Max(t)}], s[Upstream!Max(t)])]

LEMMA ReadIs ==
    ASSUME NEW r, NEW s
    PROVE  ReadAll(r, s) = (CHOOSE h : ParsesOf(h, r, s))[DOMAIN s]
  BY DEF ReadAll, ParsesOf, Upstream!FoldLeft, Upstream!MapThenFoldSet

Anything == <<>>[1]   \* what an empty buffer would be parsed to
Parsable == [rest : Seq(Nat), events : Seq([n : Nat \cup {Anything}, whole : BOOLEAN]), end : {"no"}]

LEMMA ParseTyped ==
    ASSUME NEW r \in Parsable, NEW b \in Nat
    PROVE  Upstream!Parse(r, b) \in Parsable
<1>1. r.rest \in Seq(Nat) /\ r.events \in Seq([n : Nat \cup {Anything}, whole : BOOLEAN])
      /\ r.end = "no" /\ r = [rest |-> r.rest, events |-> r.events, end |-> r.end]
  BY DEF Parsable
<1>2. Upstream!Parsed(r.rest) \in [n : Nat \cup {Anything}, whole : BOOLEAN]
  <2>1. r.rest[1] \in Nat \cup {Anything}
    <3>1. CASE r.rest = <<>>
      BY <3>1 DEF Anything
    <3>2. CASE r.rest # <<>>
      <4>1. Len(r.rest) \in Nat /\ Len(r.rest) # 0
        BY <1>1, <3>2
      <4>2. 1 \in 1 .. Len(r.rest)
        BY <4>1
      <4>. QED BY <1>1, <4>2
    <3>. QED BY <3>1, <3>2
  <2>2. (Len(r.rest) = 2) \in BOOLEAN
    OBVIOUS
  <2>. QED BY <2>1, <2>2 DEF Upstream!Parsed
<1>3. CASE b # 0
  <2>1. Upstream!Parse(r, b) = [rest |-> Append(r.rest, b), events |-> r.events, end |-> r.end]
    BY <1>1, <1>3 DEF Upstream!Parse, Upstream!EndMark
  <2>2. Append(r.rest, b) \in Seq(Nat)
    BY <1>1
  <2>. QED BY <1>1, <2>1, <2>2 DEF Parsable
<1>4. CASE b = 0
  <2>1. Upstream!Parse(r, b) = [rest |-> <<>>, events |-> Append(r.events, Upstream!Parsed(r.rest)),
                                end |-> r.end]
    BY <1>1, <1>4 DEF Upstream!Parse, Upstream!EndMark
  <2>2. Append(r.events, Upstream!Parsed(r.rest)) \in Seq([n : Nat \cup {Anything}, whole : BOOLEAN])
    BY <1>1, <1>2
  <2>. QED BY <1>1, <2>1, <2>2 DEF Parsable
<1>. QED BY <1>3, <1>4

LEMMA ParsesExist ==
    ASSUME NEW r \in Parsable, NEW s \in Seq(Nat)
    PROVE  ParsesOf(CHOOSE h : ParsesOf(h, r, s), r, s)
<1> DEFINE n == Len(s)
           g == [i \in 1 .. n |-> [t \in Parsable |-> Upstream!Parse(t, s[i])]]
<1>1. n \in Nat /\ DOMAIN s = 1 .. n /\ \A i \in 1 .. n : s[i] \in Nat
  OBVIOUS
<1>2. g \in [1 .. n -> [Parsable -> Parsable]]
  BY <1>1, ParseTyped
<1>3. PICK h \in [SUBSET (1 .. n) -> Parsable] : FoldsFrom(h, n, g, r)
  <2> HIDE DEF g, n
  <2>. QED BY <1>1, <1>2, LeftFoldExists
<1>4. ASSUME NEW t \in SUBSET (1 .. n)
      PROVE  h[t] = IF t = {} THEN r
                    ELSE Upstream!Parse(h[t \ {Upstream!Max(t)}], s[Upstream!Max(t)])
  <2>1. CASE t = {}
    BY <1>3, <2>1 DEF FoldsFrom
  <2>2. CASE t # {}
    <3>1. h[t] = g[Seqs!Max(t)][h[t \ {Seqs!Max(t)}]]
      BY <1>3, <2>2 DEF FoldsFrom
    <3>2. Seqs!Max(t) \in 1 .. n
      BY <1>1, <2>2, LastPosition
    <3>3. h[t \ {Seqs!Max(t)}] \in Parsable
      OBVIOUS
    <3>4. Upstream!Max(t) = Seqs!Max(t)
      BY DEF Upstream!Max, Seqs!Max
    <3> HIDE DEF n
    <3>. QED BY <2>2, <3>1, <3>2, <3>3, <3>4
  <2>. QED BY <2>1, <2>2
<1>5. ParsesOf(h, r, s)
  BY <1>1, <1>4 DEF ParsesOf
<1>. QED BY <1>5

Carries(s, plain, c) == \A j \in 1 .. Len(s) : s[j] = ByteAt(plain, c + j)

\* A chunk takes the reader on by its length.
LEMMA ReadChunk ==
    ASSUME NEW plain \in BOOLEAN, NEW c \in Nat, NEW s \in Seq(Nat), Carries(s, plain, c),
           plain => c + Len(s) <= 1
    PROVE  ReadAll(ReaderAt(plain, c), s) = ReaderAt(plain, c + Len(s))
<1> DEFINE n == Len(s)
           r == ReaderAt(plain, c)
<1>1. n \in Nat /\ DOMAIN s = 1 .. n /\ \A i \in 1 .. n : s[i] = ByteAt(plain, c + i)
  BY DEF Carries
<1>2. r \in Parsable
  <2>1. c \div 3 \in Nat /\ c % 3 \in Nat /\ \A j \in 1 .. c % 3 : c - (c % 3) + j \in Nat
    BY Thirds
  <2>2. [j \in 1 .. c % 3 |-> ByteAt(plain, c - (c % 3) + j)] \in Seq(Nat)
    BY <2>1, ByteTyped
  <2>3. [i \in 1 .. c \div 3 |-> [n |-> i, whole |-> TRUE]]
           \in Seq([n : Nat \cup {Anything}, whole : BOOLEAN])
    BY <2>1
  <2>. QED BY <2>2, <2>3 DEF ReaderAt, Parsable
<1>3. PICK h : ParsesOf(h, r, s) /\ ReadAll(r, s) = h[1 .. n]
  BY <1>1, <1>2, ParsesExist, ReadIs
<1> HIDE DEF r, n
<1> DEFINE bad == {j \in 0 .. n : h[1 .. j] # ReaderAt(plain, c + j)}
<1>4. ASSUME bad # {} PROVE FALSE
  <2>1. PICK j \in bad : \A i \in bad : j <= i
    <3>1. bad \in SUBSET Nat
      OBVIOUS
    <3> HIDE DEF bad
    <3>. QED BY <1>4, <3>1, LeastOne
  <2>2. j \in 0 .. n /\ h[1 .. j] # ReaderAt(plain, c + j)
    BY <2>1
  <2>3. CASE j = 0
    <3>1. 1 .. j = {} /\ c + j = c /\ 1 .. j \in SUBSET DOMAIN s
      BY <2>3
    <3>2. h[1 .. j] = r
      BY <1>3, <3>1 DEF ParsesOf
    <3>. QED BY <2>2, <3>1, <3>2 DEF r
  <2>4. CASE j # 0
    <3>1. /\ j \in Nat /\ j \in 1 .. n /\ j - 1 \in 0 .. n /\ (1 .. j) \ {j} = 1 .. j - 1
          /\ 1 .. j # {} /\ 1 .. j \in SUBSET DOMAIN s /\ c + (j - 1) + 1 = c + j
          /\ c + (j - 1) \in Nat
      <4>1. j \in Nat /\ j \in 1 .. n /\ j - 1 \in 0 .. n /\ c + (j - 1) + 1 = c + j
            /\ c + (j - 1) \in Nat
        BY <1>1, <2>2, <2>4
      <4>2. (1 .. j) \ {j} = 1 .. j - 1
        BY <4>1
      <4>3. j \in 1 .. j
        BY <4>1
      <4>4. 1 .. j \in SUBSET DOMAIN s
        BY <1>1, <4>1
      <4>. QED BY <4>1, <4>2, <4>3, <4>4
    <3>2. j - 1 \notin bad
      <4>1. ~(j <= j - 1)
        BY <3>1
      <4> HIDE DEF bad
      <4>. QED BY <2>1, <4>1
    <3>3. h[1 .. j - 1] = ReaderAt(plain, c + (j - 1))
      BY <3>1, <3>2
    <3>4. Upstream!Max(1 .. j) = j
      <4>1. Seqs!Max(1 .. j) = j
        BY <2>4, <3>1, LastOfRange
      <4>. QED BY <4>1 DEF Upstream!Max, Seqs!Max
    <3>5. h[1 .. j] = Upstream!Parse(h[1 .. j - 1], s[j])
      BY <1>3, <3>1, <3>4 DEF ParsesOf
    <3>6. plain => c + (j - 1) = 0
      BY <1>1, <3>1 DEF n
    <3>7. s[j] = ByteAt(plain, (c + (j - 1)) + 1)
      BY <1>1, <3>1
    <3>8. h[1 .. j] = ReaderAt(plain, (c + (j - 1)) + 1)
      BY <3>1, <3>3, <3>5, <3>6, <3>7, ParseAt
    <3>. QED BY <2>2, <3>1, <3>8
  <2>. QED BY <2>3, <2>4
<1>5. n \in 0 .. n
  BY <1>1
<1>6. h[1 .. n] = ReaderAt(plain, c + n)
  BY <1>4, <1>5
<1>. QED BY <1>3, <1>6 DEF r, n

-----------------------------------------------------------------------------
(* What is queued *)

\* The chunks of q hold the bytes of the answer after the first a, up to b.
Held(q, plain, a, b) ==
    \E at \in [1 .. Len(q) + 1 -> Nat] :
        /\ at[1] = a /\ at[Len(q) + 1] = b
        /\ \A i \in 1 .. Len(q) + 1 : at[i] <= b
        /\ \A i \in 1 .. Len(q) : at[i + 1] = at[i] + Len(q[i]) /\ Carries(q[i], plain, at[i])

LEMMA HeldNone == ASSUME NEW plain, NEW a \in Nat PROVE Held(<<>>, plain, a, a)
<1> DEFINE at == [i \in 1 .. 0 + 1 |-> a]
<1>1. at \in [1 .. 0 + 1 -> Nat] /\ at[1] = a /\ at[0 + 1] = a /\ \A i \in 1 .. 0 + 1 : at[i] <= a
  OBVIOUS
<1>2. \A i \in 1 .. 0 : FALSE
  OBVIOUS
<1>3. Len(<<>>) = 0
  OBVIOUS
<1> HIDE DEF at
<1>. QED BY <1>1, <1>2, <1>3 DEF Held

LEMMA HeldBounds ==
    ASSUME NEW q \in Seq(Seq(Nat)), NEW plain, NEW a, NEW b, Held(q, plain, a, b)
    PROVE  a \in Nat /\ b \in Nat /\ a <= b
<1>1. 1 \in 1 .. Len(q) + 1 /\ Len(q) + 1 \in 1 .. Len(q) + 1
  OBVIOUS
<1>. QED BY <1>1 DEF Held

LEMMA HeldAppend ==
    ASSUME NEW q \in Seq(Seq(Nat)), NEW plain, NEW a, NEW b, Held(q, plain, a, b),
           NEW s \in Seq(Nat), Carries(s, plain, b)
    PROVE  Held(Append(q, s), plain, a, b + Len(s))
<1> DEFINE n == Len(q)
           l == Len(s)
           t == Append(q, s)
<1>1. /\ n \in Nat /\ l \in Nat /\ Len(t) = n + 1 /\ t[n + 1] = s
      /\ \A i \in 1 .. n : t[i] = q[i]
  OBVIOUS
<1>2. a \in Nat /\ b \in Nat /\ a <= b
  BY HeldBounds
<1>3. PICK at \in [1 .. n + 1 -> Nat] :
        /\ at[1] = a /\ at[n + 1] = b
        /\ \A i \in 1 .. n + 1 : at[i] <= b
        /\ \A i \in 1 .. n : at[i + 1] = at[i] + Len(q[i]) /\ Carries(q[i], plain, at[i])
  BY DEF Held
<1> HIDE DEF n, l, t
<1> DEFINE new == [i \in 1 .. (n + 1) + 1 |-> IF i = n + 2 THEN b + l ELSE at[i]]
<1>4. /\ \A i \in 1 .. n + 1 : new[i] = at[i] /\ i # n + 2
      /\ new[n + 2] = b + l /\ n + 2 = (n + 1) + 1 /\ 1 \in 1 .. n + 1 /\ n + 1 \in 1 .. n + 1
  BY <1>1
<1>5. new \in [1 .. (n + 1) + 1 -> Nat]
  BY <1>1, <1>2
<1> HIDE DEF new
<1>6. \A i \in 1 .. (n + 1) + 1 : new[i] <= b + l
  <2>1. ASSUME NEW i \in 1 .. (n + 1) + 1 PROVE new[i] <= b + l
    <3>1. CASE i = n + 2
      BY <1>1, <1>2, <1>4, <3>1
    <3>2. CASE i # n + 2
      <4>1. i \in 1 .. n + 1
        BY <1>1, <3>2
      <4>2. at[i] <= b /\ at[i] \in Nat
        BY <1>3, <4>1
      <4>. QED BY <1>1, <1>2, <1>4, <4>1, <4>2
    <3>. QED BY <3>1, <3>2
  <2>. QED BY <2>1
<1>7. ASSUME NEW i \in 1 .. n + 1
      PROVE  new[i + 1] = new[i] + Len(t[i]) /\ Carries(t[i], plain, new[i])
  <2>1. CASE i = n + 1
    <3>1. i + 1 = n + 2
      BY <1>1, <2>1
    <3>. QED BY <1>1, <1>3, <1>4, <2>1, <3>1 DEF l
  <2>2. CASE i # n + 1
    <3>1. i \in 1 .. n /\ i + 1 \in 1 .. n + 1
      BY <1>1, <2>2
    <3>. QED BY <1>1, <1>3, <1>4, <3>1
  <2>. QED BY <2>1, <2>2
<1>8. new[1] = a /\ new[(n + 1) + 1] = b + l
  BY <1>3, <1>4
<1>9. Held(t, plain, a, b + l)
  BY <1>1, <1>5, <1>6, <1>7, <1>8 DEF Held
<1>. QED BY <1>9 DEF t, l

LEMMA HeldTail ==
    ASSUME NEW q \in Seq(Seq(Nat)), q # <<>>, NEW plain, NEW a, NEW b, Held(q, plain, a, b)
    PROVE  /\ Held(Tail(q), plain, a + Len(Head(q)), b)
           /\ Carries(Head(q), plain, a) /\ a + Len(Head(q)) <= b /\ Head(q) \in Seq(Nat)
<1> DEFINE n == Len(q)
           t == Tail(q)
           h == Head(q)
<1>1. /\ n \in Nat /\ n # 0 /\ n - 1 \in Nat /\ Len(t) = n - 1 /\ h = q[1] /\ h \in Seq(Nat)
      /\ \A i \in 1 .. n - 1 : t[i] = q[i + 1]
  OBVIOUS
<1>2. a \in Nat /\ b \in Nat /\ a <= b
  BY HeldBounds
<1>3. PICK at \in [1 .. n + 1 -> Nat] :
        /\ at[1] = a /\ at[n + 1] = b
        /\ \A i \in 1 .. n + 1 : at[i] <= b
        /\ \A i \in 1 .. n : at[i + 1] = at[i] + Len(q[i]) /\ Carries(q[i], plain, at[i])
  BY DEF Held
<1> HIDE DEF n, t, h
<1> DEFINE new == [i \in 1 .. (n - 1) + 1 |-> at[i + 1]]
<1>4. /\ \A i \in 1 .. (n - 1) + 1 : i + 1 \in 1 .. n + 1 /\ new[i] = at[i + 1]
      /\ (n - 1) + 1 = n /\ 1 \in 1 .. n /\ 2 \in 1 .. n + 1 /\ 1 + 1 = 2 /\ n \in 1 .. n
  BY <1>1
<1>5. new \in [1 .. (n - 1) + 1 -> Nat]
  BY <1>4
<1> HIDE DEF new
<1>6. at[2] = a + Len(h) /\ Carries(h, plain, a) /\ at[2] <= b
  BY <1>1, <1>3, <1>4
<1>7. new[1] = a + Len(h) /\ new[(n - 1) + 1] = b /\ \A i \in 1 .. (n - 1) + 1 : new[i] <= b
  BY <1>3, <1>4, <1>6
<1>8. ASSUME NEW i \in 1 .. n - 1
      PROVE  new[i + 1] = new[i] + Len(t[i]) /\ Carries(t[i], plain, new[i])
  <2>1. i \in 1 .. (n - 1) + 1 /\ i + 1 \in 1 .. (n - 1) + 1 /\ i + 1 \in 1 .. n
    BY <1>1
  <2>. QED BY <1>1, <1>3, <1>4, <2>1
<1>9. Held(t, plain, a + Len(h), b)
  BY <1>1, <1>5, <1>7, <1>8 DEF Held
<1>. QED BY <1>1, <1>6, <1>9 DEF t, h

-----------------------------------------------------------------------------
(* What holds of an answer under way *)

AnswerRecord == [made : 0 .. MaxMade, over : BOOLEAN, wire : Seq(Nat), lost : BOOLEAN,
                 plain : BOOLEAN]
PipeRecord == [queue : Seq(Seq(Nat)), end : {"no", "closed", "error"}, heedsAbort : BOOLEAN]

EndOf(u) == IF u.plain THEN 1 ELSE 3 * u.made

\* What is read, what is queued and what is on the wire make up the answer.
Between(u, p, r, a, b) ==
    /\ r = ReaderAt(u.plain, a) /\ Held(p.queue, u.plain, a, b) /\ b <= EndOf(u)
    /\ p.end = "no" => b + Len(u.wire) = EndOf(u) /\ Carries(u.wire, u.plain, b)
    /\ p.end # "no" /\ ~u.lost => b = EndOf(u)

\* What is delivered, and that it is all.
InOrderOf(u, r) ==
    \A i \in DOMAIN r.events :
        /\ r.events[i].n = IF u.plain THEN MaxMade + 1 ELSE i
        /\ ~r.events[i].whole => i = Len(r.events) /\ (u.lost \/ u.plain)
WholeOf(c, u, r) ==
    r.end # "no" /\ c.kind = "stream" /\ ~u.lost =>
        u.over /\ Len(r.events) = IF u.plain THEN 1 ELSE u.made

Pipeline(c, u, p, r) ==
    /\ u \in AnswerRecord /\ p \in PipeRecord /\ r.end \in {"no", "closed", "error"}
    /\ u.plain => u.over /\ u.made = 0
    /\ u.lost => p.end # "no"
    /\ ~u.lost /\ p.end # "no" => u.over /\ p.end = "closed"
    /\ r.end = "no" => \E a, b \in Nat : Between(u, p, r, a, b)
    /\ r.end # "no" => p.end # "no" /\ InOrderOf(u, r) /\ WholeOf(c, u, r)

\* Before the answer begins nothing is there; a message of a WebSocket is an event,
\* and a compaction reads no events.
Transport(c, u, p, r) ==
    /\ c.at = "posting" => c.via = "http"
    /\ c.at # "open" => u = Upstream!NoUpstream /\ r = Upstream!NoReader
                        /\ p = Upstream!NoPipe
    /\ c.via = "ws" => ~u.plain /\ Len(u.wire) % 3 = 0
    /\ c.kind = "compact" => r.events = <<>> /\ r.rest = <<>>

LEMMA EndNat == ASSUME NEW u \in AnswerRecord PROVE EndOf(u) \in Nat
  BY RetryAssumption DEF EndOf, AnswerRecord

LEMMA EmptyReader == ReaderAt(FALSE, 0) = Upstream!NoReader /\ ReaderAt(TRUE, 0) = Upstream!NoReader
<1>1. 0 % 3 = 0 /\ 0 \div 3 = 0
  OBVIOUS
<1>2. \A plain \in BOOLEAN : [j \in 1 .. 0 |-> ByteAt(plain, 0 - 0 + j)] = <<>>
  OBVIOUS
<1>3. [i \in 1 .. 0 |-> [n |-> i, whole |-> TRUE]] = <<>>
  OBVIOUS
<1>. QED BY <1>1, <1>2, <1>3 DEF ReaderAt, Upstream!NoReader

LEMMA AnswerFields ==
    ASSUME NEW u \in AnswerRecord
    PROVE  /\ u.made \in 0 .. MaxMade /\ u.made \in Nat /\ u.over \in BOOLEAN /\ u.wire \in Seq(Nat)
           /\ Len(u.wire) \in Nat /\ u.lost \in BOOLEAN /\ u.plain \in BOOLEAN
  BY RetryAssumption DEF AnswerRecord

LEMMA NewAnswer ==
    ASSUME NEW m \in 0 .. MaxMade, NEW o \in BOOLEAN, NEW w \in Seq(Nat), NEW l \in BOOLEAN,
           NEW q \in BOOLEAN
    PROVE  [made |-> m, over |-> o, wire |-> w, lost |-> l, plain |-> q] \in AnswerRecord
  BY DEF AnswerRecord

\* The beginning of an answer, of a stream of events or of a plain body.
LEMMA AnswerBegins ==
    ASSUME NEW c, NEW p \in PipeRecord, p.queue = <<>>, p.end = "no", NEW plain \in BOOLEAN, NEW u,
           u = [made |-> 0, over |-> plain, wire |-> IF plain THEN <<MaxMade + 1>> ELSE <<>>,
                lost |-> FALSE, plain |-> plain]
    PROVE  Pipeline(c, u, p, Upstream!NoReader)
<1> DEFINE r == Upstream!NoReader
           w == IF plain THEN <<MaxMade + 1>> ELSE <<>>
<1>1. w \in Seq(Nat) /\ Len(w) = IF plain THEN 1 ELSE 0
  BY RetryAssumption
<1>2. Carries(w, plain, 0)
  <2>1. CASE plain
    <3>1. \A j \in 1 .. 1 : <<MaxMade + 1>>[j] = MaxMade + 1
      OBVIOUS
    <3>. QED BY <1>1, <2>1, <3>1 DEF Carries, ByteAt
  <2>2. CASE ~plain
    <3>1. \A j \in 1 .. 0 : FALSE
      OBVIOUS
    <3>. QED BY <1>1, <2>2, <3>1 DEF Carries
  <2>. QED BY <2>1, <2>2
<1> HIDE DEF w
<1>3. u = [made |-> 0, over |-> plain, wire |-> w, lost |-> FALSE, plain |-> plain]
  BY DEF w
<1>4. 0 \in 0 .. MaxMade
  BY RetryAssumption
<1>5. u \in AnswerRecord
  BY <1>1, <1>3, <1>4, NewAnswer
<1>6. u.plain = plain /\ u.made = 0 /\ u.wire = w /\ u.over = plain /\ u.lost = FALSE
  BY <1>3
<1>7. EndOf(u) = IF plain THEN 1 ELSE 0
  BY <1>6 DEF EndOf
<1>8. r.end = "no" /\ r = ReaderAt(plain, 0)
  BY EmptyReader DEF Upstream!NoReader
<1> HIDE DEF r
<1>9. Held(p.queue, plain, 0, 0)
  BY HeldNone
<1>10. 0 <= EndOf(u) /\ 0 + Len(w) = EndOf(u)
  BY <1>1, <1>7
<1>11. Between(u, p, r, 0, 0)
  BY <1>2, <1>6, <1>8, <1>9, <1>10 DEF Between
<1>12. Pipeline(c, u, p, r)
  BY <1>5, <1>6, <1>8, <1>11 DEF Pipeline
<1>. QED BY <1>12 DEF r

LEMMA ThreeBytes ==
    ASSUME NEW n \in Nat
    PROVE  ByteAt(FALSE, 3 * n + 1) = n + 1 /\ ByteAt(FALSE, 3 * n + 2) = n + 1
           /\ ByteAt(FALSE, 3 * n + 3) = 0
<1>1. (3 * n + 1) % 3 = 1 /\ (3 * n + 1) \div 3 = n
  OBVIOUS
<1>2. (3 * n + 2) % 3 = 2 /\ (3 * n + 2) \div 3 = n
  OBVIOUS
<1>3. (3 * n + 3) % 3 = 0
  OBVIOUS
<1>. QED BY <1>1, <1>2, <1>3 DEF ByteAt

LEMMA Joined ==
    ASSUME NEW w \in Seq(Nat), NEW s \in Seq(Nat)
    PROVE  /\ w \o s \in Seq(Nat) /\ Len(w \o s) = Len(w) + Len(s)
           /\ \A j \in 1 .. Len(w) : (w \o s)[j] = w[j]
           /\ \A i \in 1 .. Len(s) : (w \o s)[Len(w) + i] = s[i]
<1>1. w \o s \in Seq(Nat) /\ Len(w \o s) = Len(w) + Len(s)
  OBVIOUS
<1>2. \A j \in 1 .. Len(w) : (w \o s)[j] = w[j]
  OBVIOUS
<1>3. ASSUME NEW i \in 1 .. Len(s) PROVE (w \o s)[Len(w) + i] = s[i]
  OBVIOUS
<1>. QED BY <1>1, <1>2, <1>3

\* The next event of the answer goes on where the wire ends.
Prolongs(x, w, n) ==
    /\ x \in Seq(Nat)
    /\ \A b \in Nat : b + Len(w) = 3 * n /\ Carries(w, FALSE, b) =>
          b + Len(x) = 3 * (n + 1) /\ Carries(x, FALSE, b)
    /\ Len(w) % 3 = 0 => Len(x) % 3 = 0

LEMMA EventProlongs ==
    ASSUME NEW n \in Nat, NEW w \in Seq(Nat)
    PROVE  Prolongs(w \o Upstream!Bytes(n + 1), w, n)
<1> DEFINE more == <<n + 1, n + 1, 0>>
           l == Len(w)
           x == w \o more
<1>1. Upstream!Bytes(n + 1) = more
  BY DEF Upstream!Bytes, Upstream!EndMark
<1>2. more \in Seq(Nat) /\ Len(more) = 3 /\ more[1] = n + 1 /\ more[2] = n + 1 /\ more[3] = 0
  OBVIOUS
<1> HIDE DEF more
<1>3. /\ l \in Nat /\ x \in Seq(Nat) /\ Len(x) = l + 3
      /\ \A j \in 1 .. l : x[j] = w[j]
      /\ \A i \in 1 .. 3 : x[l + i] = more[i]
  <2>1. /\ x \in Seq(Nat) /\ Len(x) = Len(w) + Len(more)
        /\ \A j \in 1 .. Len(w) : x[j] = w[j]
        /\ \A i \in 1 .. Len(more) : x[Len(w) + i] = more[i]
    BY <1>2, Joined
  <2> HIDE DEF x
  <2>. QED BY <1>2, <2>1
<1> HIDE DEF x
<1>4. ASSUME NEW b \in Nat, b + l = 3 * n, Carries(w, FALSE, b)
      PROVE  b + Len(x) = 3 * (n + 1) /\ Carries(x, FALSE, b)
  <2> HIDE DEF l
  <2>1. b + Len(x) = 3 * (n + 1)
    BY <1>3, <1>4
  <2> SUFFICES ASSUME NEW j \in 1 .. l + 3 PROVE x[j] = ByteAt(FALSE, b + j)
    BY <1>3, <2>1 DEF Carries
  <2>2. CASE j \in 1 .. l
    BY <1>3, <1>4, <2>2 DEF Carries, l
  <2>3. CASE j \notin 1 .. l
    <3>1. PICK i \in 1 .. 3 : j = l + i
      <4>1. j - l \in 1 .. 3 /\ j = l + (j - l)
        BY <1>3, <2>3
      <4>. QED BY <4>1
    <3>2. b + j = 3 * n + i
      <4>1. l \in Nat /\ b + l = 3 * n
        BY <1>3, <1>4
      <4>. QED BY <3>1, <4>1
    <3>3. more[i] = ByteAt(FALSE, 3 * n + i)
      <4>1. i = 1 \/ i = 2 \/ i = 3
        OBVIOUS
      <4>. QED BY <1>2, <4>1, ThreeBytes
    <3>. QED BY <1>3, <3>1, <3>2, <3>3
  <2>. QED BY <2>2, <2>3
<1>5. l % 3 = 0 => Len(x) % 3 = 0
  <2> HIDE DEF l
  <2>1. l % 3 = 0 => (l + 3) % 3 = 0
    BY <1>3
  <2>. QED BY <1>3, <2>1
<1>6. Prolongs(x, w, n)
  BY <1>3, <1>4, <1>5 DEF Prolongs
<1>. QED BY <1>1, <1>6 DEF x

\* u has become v with one more event, the last one or not.
Produced(u, v, last, x) ==
    /\ last \in BOOLEAN /\ Prolongs(x, u.wire, u.made)
    /\ v = [made |-> u.made + 1, over |-> last, wire |-> x, lost |-> u.lost, plain |-> u.plain]

LEMMA MadeKept ==
    ASSUME NEW c, NEW u, NEW p, NEW r, Pipeline(c, u, p, r), p.end = "no", ~u.over, u.made < MaxMade,
           NEW v, NEW last, NEW x, Produced(u, v, last, x)
    PROVE  Pipeline(c, v, p, r) /\ ~v.plain /\ (Len(u.wire) % 3 = 0 => Len(v.wire) % 3 = 0)
<1> DEFINE n == u.made
           w == u.wire
<1>. last \in BOOLEAN /\ Prolongs(x, w, n)
    /\ v = [made |-> n + 1, over |-> last, wire |-> x, lost |-> u.lost, plain |-> u.plain]
  BY DEF Produced
<1>1. u \in AnswerRecord /\ u.plain = FALSE /\ u.lost = FALSE /\ r.end = "no"
  BY AnswerFields DEF Pipeline
<1>2. n \in Nat /\ n + 1 \in 0 .. MaxMade /\ w \in Seq(Nat) /\ Len(w) \in Nat
  BY <1>1, AnswerFields, RetryAssumption
<1>3. v = [made |-> n + 1, over |-> last, wire |-> x, lost |-> FALSE, plain |-> FALSE]
  BY <1>1
<1>4. PICK a, b \in Nat : Between(u, p, r, a, b)
  BY <1>1 DEF Pipeline
<1>5. EndOf(u) = 3 * n
  BY <1>1 DEF EndOf
<1>6. b + Len(w) = 3 * n /\ Carries(w, FALSE, b) /\ Held(p.queue, FALSE, a, b)
      /\ r = ReaderAt(FALSE, a) /\ b <= 3 * n
  BY <1>1, <1>4, <1>5 DEF Between
<1>7. x \in Seq(Nat) /\ Carries(x, FALSE, b) /\ b + Len(x) = 3 * (n + 1)
      /\ (Len(w) % 3 = 0 => Len(x) % 3 = 0)
  BY <1>6 DEF Prolongs
<1> HIDE DEF n, w
<1>8. v.plain = FALSE /\ v.made = n + 1 /\ v.wire = x /\ v.lost = FALSE /\ v.over = last
  BY <1>3
<1>9. v \in AnswerRecord
  BY <1>2, <1>3, <1>7, NewAnswer
<1>10. EndOf(v) = 3 * (n + 1)
  BY <1>8 DEF EndOf
<1>11. b <= 3 * (n + 1)
  BY <1>2, <1>6
<1>12. Between(v, p, r, a, b)
  BY <1>6, <1>7, <1>8, <1>10, <1>11 DEF Between
<1>13. p \in PipeRecord /\ (p.end # "no" <=> FALSE)
  BY DEF Pipeline
<1>14. Pipeline(c, v, p, r)
  BY <1>1, <1>8, <1>9, <1>12, <1>13 DEF Pipeline
<1>. QED BY <1>7, <1>8, <1>14 DEF w

-----------------------------------------------------------------------------
(* What becomes of it by each kind of step *)

LEMMA PipeFields ==
    ASSUME NEW p \in PipeRecord
    PROVE  p.queue \in Seq(Seq(Nat)) /\ p.end \in {"no", "closed", "error"} /\ p.heedsAbort \in BOOLEAN
  BY DEF PipeRecord

LEMMA NewPipe ==
    ASSUME NEW q \in Seq(Seq(Nat)), NEW e \in {"no", "closed", "error"}, NEW h \in BOOLEAN
    PROVE  [queue |-> q, end |-> e, heedsAbort |-> h] \in PipeRecord
  BY DEF PipeRecord

LEMMA CutWire ==
    ASSUME NEW w \in Seq(Nat), NEW k \in 1 .. Len(w), NEW plain, NEW b \in Nat, Carries(w, plain, b)
    PROVE  /\ SubSeq(w, 1, k) \in Seq(Nat) /\ Len(SubSeq(w, 1, k)) = k
           /\ Carries(SubSeq(w, 1, k), plain, b)
           /\ SubSeq(w, k + 1, Len(w)) \in Seq(Nat) /\ Len(SubSeq(w, k + 1, Len(w))) = Len(w) - k
           /\ Carries(SubSeq(w, k + 1, Len(w)), plain, b + k)
<1> DEFINE s == SubSeq(w, 1, k)
           t == SubSeq(w, k + 1, Len(w))
           l == Len(w)
<1>1. l \in Nat /\ k \in Nat /\ k <= l /\ \A j \in 1 .. l : w[j] = ByteAt(plain, b + j) /\ w[j] \in Nat
  BY DEF Carries
<1>2. s \in Seq(Nat) /\ Len(s) = k /\ \A j \in 1 .. k : s[j] = w[j]
  OBVIOUS
<1>3. t \in Seq(Nat) /\ Len(t) = l - k
  OBVIOUS
<1>4. ASSUME NEW j \in 1 .. l - k PROVE t[j] = w[k + j]
  OBVIOUS
<1> HIDE DEF s, t, l
<1>5. Carries(s, plain, b)
  <2>1. \A j \in 1 .. k : j \in 1 .. l
    BY <1>1
  <2>. QED BY <1>1, <1>2, <2>1 DEF Carries
<1>6. Carries(t, plain, b + k)
  <2> SUFFICES ASSUME NEW j \in 1 .. l - k PROVE t[j] = ByteAt(plain, (b + k) + j)
    BY <1>3 DEF Carries
  <2>1. k + j \in 1 .. l /\ b + (k + j) = (b + k) + j
    BY <1>1
  <2>. QED BY <1>1, <1>4, <2>1
<1>. QED BY <1>2, <1>3, <1>5, <1>6 DEF s, t, l

LEMMA OneChunk ==
    \A b, l, end \in Nat : \A k \in 1 .. l : b + l = end =>
        b + k \in Nat /\ b + k <= end /\ (b + k) + (l - k) = end /\ (k = l => b + k = end)
  OBVIOUS

\* A chunk of k bytes leaves the wire for the queue; a stream that closes with it is
\* at its end.
Taken(u, p, v, q, k, e) ==
    /\ k \in 1 .. Len(u.wire) /\ e \in {"no", "closed"}
    /\ e = "closed" => u.over /\ k = Len(u.wire)
    /\ v = [made |-> u.made, over |-> u.over, wire |-> SubSeq(u.wire, k + 1, Len(u.wire)),
            lost |-> u.lost, plain |-> u.plain]
    /\ q = [queue |-> Append(p.queue, SubSeq(u.wire, 1, k)), end |-> e, heedsAbort |-> p.heedsAbort]

LEMMA ChunkKept ==
    ASSUME NEW c, NEW u, NEW p, NEW r, Pipeline(c, u, p, r), p.end = "no",
           NEW v, NEW q, NEW k, NEW e, Taken(u, p, v, q, k, e)
    PROVE  Pipeline(c, v, q, r) /\ v.plain = u.plain /\ Len(v.wire) = Len(u.wire) - k
<1> DEFINE s == SubSeq(u.wire, 1, k)
           t == SubSeq(u.wire, k + 1, Len(u.wire))
<1>. /\ k \in 1 .. Len(u.wire) /\ e \in {"no", "closed"}
     /\ e = "closed" => u.over /\ k = Len(u.wire)
     /\ v = [made |-> u.made, over |-> u.over, wire |-> t, lost |-> u.lost, plain |-> u.plain]
     /\ q = [queue |-> Append(p.queue, s), end |-> e, heedsAbort |-> p.heedsAbort]
  BY DEF Taken
<1>1. /\ u \in AnswerRecord /\ p \in PipeRecord /\ r.end = "no" /\ u.lost = FALSE
      /\ u.plain => u.over /\ u.made = 0
  BY AnswerFields DEF Pipeline
<1>2. u.made \in 0 .. MaxMade /\ u.over \in BOOLEAN /\ u.wire \in Seq(Nat) /\ u.plain \in BOOLEAN
      /\ Len(u.wire) \in Nat
  BY <1>1, AnswerFields
<1>3. PICK a, b \in Nat : Between(u, p, r, a, b)
  BY <1>1 DEF Pipeline
<1>4. /\ r = ReaderAt(u.plain, a) /\ Held(p.queue, u.plain, a, b)
      /\ b + Len(u.wire) = EndOf(u) /\ Carries(u.wire, u.plain, b)
  BY <1>3 DEF Between
<1>5. /\ s \in Seq(Nat) /\ Len(s) = k /\ Carries(s, u.plain, b)
      /\ t \in Seq(Nat) /\ Len(t) = Len(u.wire) - k /\ Carries(t, u.plain, b + k)
  BY <1>2, <1>4, CutWire
<1> HIDE DEF s, t
<1>6. v.made = u.made /\ v.over = u.over /\ v.wire = t /\ v.lost = FALSE /\ v.plain = u.plain
      /\ v \in AnswerRecord
  BY <1>1, <1>2, <1>5, NewAnswer
<1>7. p.queue \in Seq(Seq(Nat)) /\ p.heedsAbort \in BOOLEAN
  BY <1>1, PipeFields
<1>8. Append(p.queue, s) \in Seq(Seq(Nat))
  BY <1>5, <1>7
<1>9. q.queue = Append(p.queue, s) /\ q.end = e /\ q \in PipeRecord
  BY <1>7, <1>8, NewPipe
<1>10. Held(q.queue, v.plain, a, b + k)
  BY <1>4, <1>5, <1>6, <1>7, <1>9, HeldAppend
<1>11. EndOf(v) = EndOf(u) /\ EndOf(u) \in Nat
  BY <1>1, <1>6, EndNat DEF EndOf
<1>12. b + k \in Nat /\ b + k <= EndOf(v) /\ (b + k) + Len(t) = EndOf(v)
       /\ (k = Len(u.wire) => b + k = EndOf(v))
  <2>1. /\ b + k \in Nat /\ b + k <= EndOf(u) /\ (b + k) + (Len(u.wire) - k) = EndOf(u)
        /\ (k = Len(u.wire) => b + k = EndOf(u))
    <3> HIDE DEF EndOf
    <3>. QED BY <1>2, <1>4, <1>11, OneChunk
  <2>. QED BY <1>5, <1>11, <2>1
<1>13. Between(v, q, r, a, b + k)
  BY <1>4, <1>5, <1>6, <1>9, <1>10, <1>12 DEF Between
<1>14. Pipeline(c, v, q, r)
  BY <1>1, <1>6, <1>9, <1>12, <1>13 DEF Pipeline
<1>. QED BY <1>5, <1>6, <1>14

\* The stream ends: with all of the answer, or it is cut short and what is queued may be lost too.
Ended(u, p, v, q, l, e, queue) ==
    /\ l \in BOOLEAN /\ e \in {"closed", "error"} /\ queue \in {p.queue, <<>>}
    /\ ~l => u.over /\ u.wire = <<>> /\ e = "closed" /\ queue = p.queue
    /\ v = [made |-> u.made, over |-> u.over, wire |-> u.wire, lost |-> l, plain |-> u.plain]
    /\ q = [queue |-> queue, end |-> e, heedsAbort |-> p.heedsAbort]

LEMMA EndKept ==
    ASSUME NEW c, NEW u, NEW p, NEW r, Pipeline(c, u, p, r), p.end = "no",
           NEW v, NEW q, NEW l, NEW e, NEW queue, Ended(u, p, v, q, l, e, queue)
    PROVE  Pipeline(c, v, q, r) /\ v.plain = u.plain /\ v.wire = u.wire
<1>. /\ l \in BOOLEAN /\ e \in {"closed", "error"} /\ queue \in {p.queue, <<>>}
     /\ ~l => u.over /\ u.wire = <<>> /\ e = "closed" /\ queue = p.queue
     /\ v = [made |-> u.made, over |-> u.over, wire |-> u.wire, lost |-> l, plain |-> u.plain]
     /\ q = [queue |-> queue, end |-> e, heedsAbort |-> p.heedsAbort]
  BY DEF Ended
<1>1. /\ u \in AnswerRecord /\ p \in PipeRecord /\ r.end = "no"
      /\ u.plain => u.over /\ u.made = 0
  BY DEF Pipeline
<1>2. u.made \in 0 .. MaxMade /\ u.over \in BOOLEAN /\ u.wire \in Seq(Nat) /\ u.plain \in BOOLEAN
  BY <1>1, AnswerFields
<1>3. p.queue \in Seq(Seq(Nat)) /\ p.heedsAbort \in BOOLEAN
  BY <1>1, PipeFields
<1>4. PICK a, b \in Nat : Between(u, p, r, a, b)
  BY <1>1 DEF Pipeline
<1>5. /\ r = ReaderAt(u.plain, a) /\ Held(p.queue, u.plain, a, b) /\ b <= EndOf(u)
      /\ b + Len(u.wire) = EndOf(u) /\ a <= b /\ EndOf(u) \in Nat
  BY <1>1, <1>3, <1>4, HeldBounds, EndNat DEF Between
<1>6. v.made = u.made /\ v.over = u.over /\ v.wire = u.wire /\ v.lost = l /\ v.plain = u.plain
      /\ v \in AnswerRecord
  BY <1>2, NewAnswer
<1>7. <<>> \in Seq(Seq(Nat))
  OBVIOUS
<1>8. q.queue = queue /\ q.end = e /\ q \in PipeRecord
  BY <1>3, <1>7, NewPipe
<1>9. EndOf(v) = EndOf(u)
  BY <1>6 DEF EndOf
<1>10. PICK d \in Nat : Held(q.queue, v.plain, a, d) /\ d <= b /\ (queue = p.queue => d = b)
  <2>1. CASE queue = p.queue
    BY <1>5, <1>6, <1>8, <2>1
  <2>2. CASE queue # p.queue
    BY <1>5, <1>6, <1>8, <2>2, HeldNone
  <2>. QED BY <2>1, <2>2
<1>11. d <= EndOf(v) /\ (~l => d = EndOf(v))
  <2>1. u.wire = <<>> => Len(u.wire) = 0
    OBVIOUS
  <2>. QED BY <1>5, <1>9, <1>10, <2>1
<1>12. Between(v, q, r, a, d)
  BY <1>5, <1>6, <1>8, <1>10, <1>11 DEF Between
<1>13. Pipeline(c, v, q, r)
  BY <1>1, <1>6, <1>8, <1>12 DEF Pipeline
<1>. QED BY <1>6, <1>13

\* A chunk is read.
LEMMA ReadKept ==
    ASSUME NEW c, NEW u, NEW p, NEW r, Pipeline(c, u, p, r), p.queue # <<>>, r.end = "no",
           NEW q, q = [queue |-> Tail(p.queue), end |-> p.end, heedsAbort |-> p.heedsAbort],
           NEW s, s = ReadAll(r, Head(p.queue))
    PROVE  Pipeline(c, u, q, s)
<1>1. u \in AnswerRecord /\ p \in PipeRecord /\ u.plain \in BOOLEAN
  BY AnswerFields DEF Pipeline
<1>2. p.queue \in Seq(Seq(Nat)) /\ p.heedsAbort \in BOOLEAN /\ p.end \in {"no", "closed", "error"}
  BY <1>1, PipeFields
<1>3. PICK a, b \in Nat : Between(u, p, r, a, b)
  BY DEF Pipeline
<1>4. r = ReaderAt(u.plain, a) /\ Held(p.queue, u.plain, a, b) /\ b <= EndOf(u) /\ EndOf(u) \in Nat
  BY <1>1, <1>3, EndNat DEF Between
<1> DEFINE h == Head(p.queue)
           t == Tail(p.queue)
<1>5. /\ Held(t, u.plain, a + Len(h), b) /\ Carries(h, u.plain, a)
      /\ a + Len(h) <= b /\ h \in Seq(Nat)
  BY <1>2, <1>4, HeldTail
<1>6. t \in Seq(Seq(Nat))
  BY <1>2
<1> HIDE DEF h, t
<1>7. Len(h) \in Nat /\ a + Len(h) \in Nat
  BY <1>5
<1>8. u.plain => a + Len(h) <= 1
  BY <1>4, <1>5, <1>7 DEF EndOf
<1>9. s = ReaderAt(u.plain, a + Len(h))
  BY <1>1, <1>4, <1>5, <1>8, ReadChunk DEF h
<1>10. q.queue = t /\ q.end = p.end /\ q \in PipeRecord
  BY <1>2, <1>6, NewPipe DEF t
<1>11. Between(u, q, s, a + Len(h), b)
  BY <1>3, <1>5, <1>9, <1>10 DEF Between
<1>12. s.end = "no"
  BY <1>9 DEF ReaderAt
<1>. QED BY <1>7, <1>10, <1>11, <1>12 DEF Pipeline

\* What was read so far is in order, and torn only at a true end.
LEMMA ReaderInOrder ==
    ASSUME NEW u, NEW r, NEW a \in Nat, u.plain \in BOOLEAN, u.plain => a <= 1, r = ReaderAt(u.plain, a)
    PROVE  InOrderOf(u, r)
<1>1. a \div 3 \in Nat /\ (a <= 1 => a \div 3 = 0)
  OBVIOUS
<1>2. r.events = [i \in 1 .. a \div 3 |-> [n |-> i, whole |-> TRUE]]
  BY DEF ReaderAt
<1>3. DOMAIN r.events = 1 .. a \div 3
      /\ \A i \in 1 .. a \div 3 : r.events[i].n = i /\ r.events[i].whole
  BY <1>2
<1>4. \A i \in 1 .. 0 : FALSE
  OBVIOUS
<1>. QED BY <1>1, <1>3, <1>4 DEF InOrderOf

LEMMA OrderNow ==
    ASSUME NEW c, NEW u, NEW p, NEW r, Pipeline(c, u, p, r)
    PROVE  InOrderOf(u, r) /\ WholeOf(c, u, r)
<1>1. CASE r.end = "no"
  <2>1. u \in AnswerRecord /\ u.plain \in BOOLEAN /\ p.queue \in Seq(Seq(Nat))
    BY AnswerFields, PipeFields DEF Pipeline
  <2>2. PICK a, b \in Nat : Between(u, p, r, a, b)
    BY <1>1 DEF Pipeline
  <2>3. a <= b /\ b <= EndOf(u) /\ r = ReaderAt(u.plain, a)
    BY <2>1, <2>2, HeldBounds DEF Between
  <2>4. u.plain => a <= 1
    BY <2>3 DEF EndOf
  <2>. QED BY <1>1, <2>1, <2>3, <2>4, ReaderInOrder DEF WholeOf
<1>2. CASE r.end # "no"
  BY <1>2 DEF Pipeline
<1>. QED BY <1>1, <1>2

\* The reader at the end of the stream: the rest of its buffer is an event too.
LEMMA LastReadKept ==
    ASSUME NEW c, NEW u, NEW p, NEW r, Pipeline(c, u, p, r), p.queue = <<>>, p.end # "no",
           r.end = "no", NEW s,
           s = [rest |-> r.rest, end |-> p.end,
                events |-> IF p.end = "closed" /\ r.rest # <<>>
                             THEN Append(r.events, Upstream!Parsed(r.rest)) ELSE r.events]
    PROVE  Pipeline(c, u, p, s)
<1>1. u \in AnswerRecord /\ p \in PipeRecord /\ u.plain \in BOOLEAN /\ u.made \in Nat
  BY AnswerFields DEF Pipeline
<1>2. PICK a, b \in Nat : Between(u, p, r, a, b)
  BY DEF Pipeline
<1>3. /\ r = ReaderAt(u.plain, a) /\ Held(<<>>, u.plain, a, b) /\ b <= EndOf(u)
      /\ ~u.lost => b = EndOf(u) /\ p.end = "closed" /\ u.over
  BY <1>2 DEF Between, Pipeline
<1>4. a = b
  <2>1. Len(<<>>) + 1 = 1
    OBVIOUS
  <2>. QED BY <1>3, <2>1 DEF Held
<1> DEFINE q == a \div 3
           m == a % 3
<1>5. q \in Nat /\ m \in 0 .. 2 /\ a = 3 * q + m
  BY Thirds
<1>6. /\ r.rest = [j \in 1 .. m |-> ByteAt(u.plain, a - m + j)]
      /\ r.events = [i \in 1 .. q |-> [n |-> i, whole |-> TRUE]]
  BY <1>3 DEF ReaderAt
<1> HIDE DEF q, m
<1>7. /\ r.events \in Seq([n : Nat, whole : BOOLEAN]) /\ Len(r.events) = q
      /\ \A i \in 1 .. q : r.events[i].n = i /\ r.events[i].whole
      /\ DOMAIN r.events = 1 .. q
  <2>1. \A i \in 1 .. q : [n |-> i, whole |-> TRUE] \in [n : Nat, whole : BOOLEAN]
    BY <1>5
  <2>. QED BY <1>5, <1>6, <2>1
<1>8. u.plain => q = 0 /\ m <= 1 /\ a = m
  <2>1. u.plain => a <= 1
    BY <1>3, <1>4 DEF EndOf
  <2>. QED BY <1>5, <2>1
<1>9. ~u.lost => u.over /\ p.end = "closed" /\ (u.plain => q = 0 /\ m = 1)
                 /\ (~u.plain => m = 0 /\ q = u.made)
  <2>1. ~u.lost => a = EndOf(u)
    BY <1>3, <1>4
  <2>2. ~u.plain /\ a = 3 * u.made => m = 0 /\ q = u.made
    BY <1>1, <1>5
  <2>3. u.plain /\ a = 1 => m = 1 /\ q = 0
    BY <1>5
  <2>. QED BY <1>3, <2>1, <2>2, <2>3 DEF EndOf
<1>10. /\ m = 0 => r.rest = <<>>
       /\ m # 0 => r.rest # <<>> /\ Len(r.rest) = m
                   /\ r.rest[1] = IF u.plain THEN MaxMade + 1 ELSE q + 1
  <2>1. m = 0 => r.rest = <<>>
    BY <1>6
  <2>2. ASSUME m # 0
        PROVE  r.rest # <<>> /\ Len(r.rest) = m /\ r.rest[1] = IF u.plain THEN MaxMade + 1 ELSE q + 1
    <3>1. m \in Nat /\ 1 \in 1 .. m /\ a - m + 1 = 3 * q + 1
      BY <1>5, <2>2
    <3>2. ByteAt(u.plain, 3 * q + 1) = IF u.plain THEN MaxMade + 1 ELSE q + 1
      <4>1. (3 * q + 1) % 3 = 1 /\ (3 * q + 1) \div 3 = q
        BY <1>5
      <4>. QED BY <4>1 DEF ByteAt
    <3>3. r.rest[1] = ByteAt(u.plain, a - m + 1) /\ DOMAIN r.rest = 1 .. m
      BY <1>6, <3>1
    <3>4. Len(r.rest) = m
      BY <1>6, <3>1
    <3>5. r.rest # <<>>
      BY <3>1, <3>3
    <3>. QED BY <3>1, <3>2, <3>3, <3>4, <3>5
  <2>. QED BY <2>1, <2>2
<1>11. s.end = p.end /\ p.end \in {"no", "closed", "error"}
  BY <1>1, PipeFields
<1>12. CASE m = 0 \/ p.end # "closed"
  <2>1. s.events = r.events
    BY <1>10, <1>12
  <2>2. InOrderOf(u, s)
    <3>1. \A i \in 1 .. 0 : FALSE
      OBVIOUS
    <3>. QED BY <1>7, <1>8, <2>1, <3>1 DEF InOrderOf
  <2>3. WholeOf(c, u, s)
    BY <1>7, <1>9, <1>12, <2>1 DEF WholeOf
  <2>. QED BY <1>11, <2>2, <2>3 DEF Pipeline
<1>13. CASE m # 0 /\ p.end = "closed"
  <2> DEFINE e == Upstream!Parsed(r.rest)
             t == Append(r.events, e)
  <2>1. s.events = t
    BY <1>10, <1>13
  <2>2. e.n = (IF u.plain THEN MaxMade + 1 ELSE q + 1) /\ e.whole = (m = 2)
        /\ e \in [n : Nat, whole : BOOLEAN]
    <3>1. e = [n |-> IF u.plain THEN MaxMade + 1 ELSE q + 1, whole |-> m = 2]
      BY <1>10, <1>13 DEF Upstream!Parsed
    <3>. QED BY <1>5, <3>1, RetryAssumption
  <2> HIDE DEF e
  <2>3. DOMAIN t = 1 .. q + 1 /\ Len(t) = q + 1 /\ t[q + 1] = e
        /\ \A i \in 1 .. q : t[i] = r.events[i]
    BY <1>5, <1>7, <2>2
  <2> HIDE DEF t
  <2>4. u.lost \/ u.plain
    BY <1>9, <1>13
  <2>5. ASSUME NEW i \in 1 .. q + 1
        PROVE  /\ t[i].n = IF u.plain THEN MaxMade + 1 ELSE i
               /\ ~t[i].whole => i = q + 1
    <3>1. CASE i = q + 1
      BY <2>2, <2>3, <3>1
    <3>2. CASE i # q + 1
      <4>1. i \in 1 .. q /\ q # 0
        BY <1>5, <3>2
      <4>. QED BY <1>7, <1>8, <2>3, <4>1
    <3>. QED BY <3>1, <3>2
  <2>6. InOrderOf(u, s)
    BY <2>1, <2>3, <2>4, <2>5 DEF InOrderOf
  <2>7. WholeOf(c, u, s)
    <3>1. ~u.lost => u.over /\ u.plain /\ q + 1 = 1
      BY <1>9, <2>4
    <3>. QED BY <2>1, <2>3, <3>1 DEF WholeOf
  <2>. QED BY <1>11, <2>6, <2>7 DEF Pipeline
<1>. QED BY <1>12, <1>13

-----------------------------------------------------------------------------
(* The steps of UpstreamStream *)

MadeOf(u, m, o, w) == [u EXCEPT !.made = m, !.over = o, !.wire = w]
WholeBody(u, w, o, g) == [u EXCEPT !.wire = w, !.over = o, !.plain = g]

LEMMA MadeShape ==
    ASSUME NEW u \in AnswerRecord, NEW m, NEW o, NEW w
    PROVE  MadeOf(u, m, o, w)
             = [made |-> m, over |-> o, wire |-> w, lost |-> u.lost, plain |-> u.plain]
<1>0. u = [made |-> u.made, over |-> u.over, wire |-> u.wire, lost |-> u.lost, plain |-> u.plain]
  BY DEF AnswerRecord
<1> DEFINE a == [u EXCEPT !.made = m]
           b == [a EXCEPT !.over = o]
           d == [b EXCEPT !.wire = w]
<1>1. [u EXCEPT !.made = m, !.over = o, !.wire = w] = d
  BY <1>0, Zenon
<1>2. a = [made |-> m, over |-> u.over, wire |-> u.wire, lost |-> u.lost, plain |-> u.plain]
  BY <1>0
<1> HIDE DEF a
<1>3. b = [made |-> m, over |-> o, wire |-> u.wire, lost |-> u.lost, plain |-> u.plain]
  BY <1>2
<1> HIDE DEF b
<1>4. d = [made |-> m, over |-> o, wire |-> w, lost |-> u.lost, plain |-> u.plain]
  BY <1>3
<1>. QED BY <1>1, <1>4 DEF MadeOf

LEMMA BodyShape ==
    ASSUME NEW u \in AnswerRecord, NEW w, NEW o, NEW g
    PROVE  WholeBody(u, w, o, g)
             = [made |-> u.made, over |-> o, wire |-> w, lost |-> u.lost, plain |-> g]
<1>0. u = [made |-> u.made, over |-> u.over, wire |-> u.wire, lost |-> u.lost, plain |-> u.plain]
  BY DEF AnswerRecord
<1> DEFINE a == [u EXCEPT !.wire = w]
           b == [a EXCEPT !.over = o]
           d == [b EXCEPT !.plain = g]
<1>1. [u EXCEPT !.wire = w, !.over = o, !.plain = g] = d
  BY <1>0, Zenon
<1>2. a = [made |-> u.made, over |-> u.over, wire |-> w, lost |-> u.lost, plain |-> u.plain]
  BY <1>0
<1> HIDE DEF a
<1>3. b = [made |-> u.made, over |-> o, wire |-> w, lost |-> u.lost, plain |-> u.plain]
  BY <1>2
<1> HIDE DEF b
<1>4. d = [made |-> u.made, over |-> o, wire |-> w, lost |-> u.lost, plain |-> g]
  BY <1>3
<1>. QED BY <1>1, <1>4 DEF a, b, WholeBody

LEMMA WireShape ==
    ASSUME NEW u \in AnswerRecord, NEW w
    PROVE  [u EXCEPT !.wire = w]
             = [made |-> u.made, over |-> u.over, wire |-> w, lost |-> u.lost, plain |-> u.plain]
  BY DEF AnswerRecord

LEMMA LostShape ==
    ASSUME NEW u \in AnswerRecord, NEW l
    PROVE  [u EXCEPT !.lost = l]
             = [made |-> u.made, over |-> u.over, wire |-> u.wire, lost |-> l, plain |-> u.plain]
  BY DEF AnswerRecord

LEMMA PipeShapes ==
    ASSUME NEW p \in PipeRecord, NEW q, NEW e, NEW h
    PROVE  /\ [p EXCEPT !.queue = q]
                = [queue |-> q, end |-> p.end, heedsAbort |-> p.heedsAbort]
           /\ [p EXCEPT !.queue = q, !.end = e]
                = [queue |-> q, end |-> e, heedsAbort |-> p.heedsAbort]
           /\ [p EXCEPT !.end = e, !.queue = q]
                = [queue |-> q, end |-> e, heedsAbort |-> p.heedsAbort]
           /\ [p EXCEPT !.end = e]
                = [queue |-> p.queue, end |-> e, heedsAbort |-> p.heedsAbort]
           /\ [p EXCEPT !.heedsAbort = h]
                = [queue |-> p.queue, end |-> p.end, heedsAbort |-> h]
<1>1. p = [queue |-> p.queue, end |-> p.end, heedsAbort |-> p.heedsAbort]
  BY DEF PipeRecord
<1>2. [p EXCEPT !.queue = q] = [queue |-> q, end |-> p.end, heedsAbort |-> p.heedsAbort]
  BY <1>1
<1>3. [p EXCEPT !.queue = q, !.end = e] = [queue |-> q, end |-> e, heedsAbort |-> p.heedsAbort]
  <2> DEFINE a == [p EXCEPT !.queue = q]
             b == [a EXCEPT !.end = e]
  <2>1. [p EXCEPT !.queue = q, !.end = e] = b
    BY <1>1, Zenon
  <2>2. a = [queue |-> q, end |-> p.end, heedsAbort |-> p.heedsAbort]
    BY <1>1
  <2> HIDE DEF a
  <2>3. b = [queue |-> q, end |-> e, heedsAbort |-> p.heedsAbort]
    BY <2>2
  <2>. QED BY <2>1, <2>3 DEF a
<1>4. [p EXCEPT !.end = e, !.queue = q] = [queue |-> q, end |-> e, heedsAbort |-> p.heedsAbort]
  <2> DEFINE a == [p EXCEPT !.end = e]
             b == [a EXCEPT !.queue = q]
  <2>1. [p EXCEPT !.end = e, !.queue = q] = b
    BY <1>1, Zenon
  <2>2. a = [queue |-> p.queue, end |-> e, heedsAbort |-> p.heedsAbort]
    BY <1>1
  <2> HIDE DEF a
  <2>3. b = [queue |-> q, end |-> e, heedsAbort |-> p.heedsAbort]
    BY <2>2
  <2>. QED BY <2>1, <2>3 DEF a
<1>5. [p EXCEPT !.end = e] = [queue |-> p.queue, end |-> e, heedsAbort |-> p.heedsAbort]
  BY <1>1
<1>6. [p EXCEPT !.heedsAbort = h] = [queue |-> p.queue, end |-> p.end, heedsAbort |-> h]
  BY <1>1
<1>. QED BY <1>2, <1>3, <1>4, <1>5, <1>6

LEMMA CallMoved ==
    ASSUME NEW c, NEW d, NEW u, NEW p, NEW r, d.kind = c.kind, Pipeline(c, u, p, r)
    PROVE  Pipeline(d, u, p, r)
  BY DEF Pipeline, WholeOf

LEMMA CallStays ==
    ASSUME NEW c, NEW d, NEW u, NEW p, NEW r, Transport(c, u, p, r), d.kind = c.kind,
           c.at # "open", d.at = "posting" => d.via = "http"
    PROVE  Transport(d, u, p, r)
<1>1. u = Upstream!NoUpstream /\ r = Upstream!NoReader /\ p = Upstream!NoPipe
  BY DEF Transport
<1>2. ~u.plain /\ Len(u.wire) = 0 /\ 0 % 3 = 0
  BY <1>1 DEF Upstream!NoUpstream
<1>3. r.events = <<>> /\ r.rest = <<>>
  BY <1>1 DEF Upstream!NoReader
<1>. QED BY <1>1, <1>2, <1>3 DEF Transport

\* Where a call stands after it was sent or sent again, or failed.
LEMMA PostMoves ==
    ASSUME x1 \in CallRecord, NEW before, Upstream!Post(before)
    PROVE  x1' \in CallRecord /\ x1'.kind = x1.kind /\ x1'.at # "open"
           /\ (x1'.at = "posting" => x1'.via = "http")
<1>1. x1' = [x1 EXCEPT !.at = "threw"] \/ x1' = [x1 EXCEPT !.at = "posting", !.via = "http"]
  BY DEF Upstream!Post
<1>. QED BY <1>1 DEF CallRecord

LEMMA StartMoves ==
    ASSUME x1 \in CallRecord, Upstream!Start
    PROVE  x1' \in CallRecord /\ x1'.kind = x1.kind /\ x1'.at # "open"
           /\ (x1'.at = "posting" => x1'.via = "http")
<1>1. CASE x1' = [x1 EXCEPT !.at = "connecting", !.via = "ws"]
  BY <1>1 DEF CallRecord
<1>2. CASE Upstream!Post(x2)
  BY <1>2, PostMoves
<1>. QED BY <1>1, <1>2 DEF Upstream!Start

StreamHeld ==
    /\ x1 \in CallRecord /\ x3 \in BOOLEAN
    /\ Transport(x1, x4, x5, x6) /\ Pipeline(x1, x4, x5, x6)

LEMMA StreamStart == Upstream!Init => StreamHeld
<1> SUFFICES ASSUME Upstream!Init PROVE StreamHeld
  OBVIOUS
<1>1. x1 \in CallRecord /\ x1.at = "idle" /\ x1.via = "http"
  BY FreshCall
<1>2. x4 = Upstream!NoUpstream /\ x5 = Upstream!NoPipe /\ x6 = Upstream!NoReader /\ x3 \in BOOLEAN
  BY DEF Upstream!Init
<1>3. x5 \in PipeRecord /\ x5.queue = <<>> /\ x5.end = "no"
  BY <1>2 DEF PipeRecord, Upstream!NoPipe
<1>4. x4 = [made |-> 0, over |-> FALSE, wire |-> IF FALSE THEN <<MaxMade + 1>> ELSE <<>>,
            lost |-> FALSE, plain |-> FALSE]
  BY <1>2 DEF Upstream!NoUpstream
<1>5. Pipeline(x1, x4, x5, x6)
  BY <1>2, <1>3, <1>4, AnswerBegins
<1>6. x6.events = <<>> /\ x6.rest = <<>>
  BY <1>2 DEF Upstream!NoReader
<1>7. Transport(x1, x4, x5, x6)
  BY <1>1, <1>2, <1>6 DEF Transport
<1>. QED BY <1>1, <1>2, <1>5, <1>7 DEF StreamHeld

LEMMA Waits ==
    ASSUME StreamHeld, x1.at # "open", x1' \in CallRecord, x1'.kind = x1.kind,
           x1'.at = "posting" => x1'.via = "http", x3' \in BOOLEAN, UNCHANGED <<x4, x5, x6>>
    PROVE  StreamHeld'
<1>1. Transport(x1', x4, x5, x6) /\ Pipeline(x1', x4, x5, x6)
  BY CallStays, CallMoved DEF StreamHeld
<1>. QED BY <1>1 DEF StreamHeld

LEMMA Begins ==
    ASSUME StreamHeld, x1.at \in {"connecting", "posting"}, x1' = [x1 EXCEPT !.at = "open"],
           x3' = x3, NEW h \in BOOLEAN, x5' = [x5 EXCEPT !.heedsAbort = h], x6' = x6,
           NEW plain \in BOOLEAN, plain => x1.via = "http",
           x4' = IF plain THEN [x4 EXCEPT !.wire = <<MaxMade + 1>>, !.over = TRUE, !.plain = TRUE]
                          ELSE x4
    PROVE  StreamHeld'
<1>1. x1 \in CallRecord /\ x3 \in BOOLEAN /\ x4 = Upstream!NoUpstream /\ x5 = Upstream!NoPipe
      /\ x6 = Upstream!NoReader /\ x4 \in AnswerRecord /\ x5 \in PipeRecord
  BY DEF StreamHeld, Transport, Pipeline
<1>2. x1' \in CallRecord /\ x1'.kind = x1.kind /\ x1'.at = "open" /\ x1'.via = x1.via
  BY <1>1 DEF CallRecord
<1>3. x5' = [queue |-> <<>>, end |-> "no", heedsAbort |-> h]
  BY <1>1, PipeShapes DEF Upstream!NoPipe
<1>4. <<>> \in Seq(Seq(Nat))
  OBVIOUS
<1>5. x5' \in PipeRecord /\ x5'.queue = <<>> /\ x5'.end = "no"
  <2>1. [queue |-> <<>>, end |-> "no", heedsAbort |-> h] \in PipeRecord
    BY <1>4 DEF PipeRecord
  <2>2. x5'.queue = <<>> /\ x5'.end = "no"
    BY <1>3
  <2>3. x5' \in PipeRecord
    BY <1>3, <2>1, Zenon
  <2>. QED BY <2>2, <2>3
<1>6. x4' = [made |-> 0, over |-> plain, wire |-> IF plain THEN <<MaxMade + 1>> ELSE <<>>,
             lost |-> FALSE, plain |-> plain]
  <2>1. CASE plain
    <3>1. x4' = [made |-> x4.made, over |-> TRUE, wire |-> <<MaxMade + 1>>, lost |-> x4.lost,
                 plain |-> TRUE]
      <4>1. x4' = WholeBody(x4, <<MaxMade + 1>>, TRUE, TRUE)
        BY <2>1 DEF WholeBody
      <4>2. WholeBody(x4, <<MaxMade + 1>>, TRUE, TRUE)
              = [made |-> x4.made, over |-> TRUE, wire |-> <<MaxMade + 1>>, lost |-> x4.lost,
                 plain |-> TRUE]
        BY <1>1, BodyShape, ZenonT(60)
      <4>. QED BY <4>1, <4>2
    <3>. QED BY <1>1, <2>1, <3>1 DEF Upstream!NoUpstream
  <2>2. CASE ~plain
    BY <1>1, <2>2 DEF Upstream!NoUpstream
  <2>. QED BY <2>1, <2>2
<1>7. Pipeline(x1', x4', x5', x6')
  BY <1>1, <1>5, <1>6, AnswerBegins
<1>8. x6'.events = <<>> /\ x6'.rest = <<>>
  BY <1>1 DEF Upstream!NoReader
<1>9. ~plain => Len(x4'.wire) % 3 = 0 /\ ~x4'.plain
  <2>1. Len(<<>>) % 3 = 0
    OBVIOUS
  <2>. QED BY <1>6, <2>1
<1>10. Transport(x1', x4', x5', x6')
  BY <1>2, <1>8, <1>9 DEF Transport, CallRecord
<1>. QED BY <1>1, <1>2, <1>7, <1>10 DEF StreamHeld

\* A step of an open body that leaves the reader and the call alone.
LEMMA Flows ==
    ASSUME StreamHeld, x1.at = "open", x1' = x1, x3' \in BOOLEAN, Pipeline(x1, x4', x5', x6'),
           x1.via = "ws" => ~x4'.plain /\ Len(x4'.wire) % 3 = 0,
           x1.kind = "compact" => x6'.events = <<>> /\ x6'.rest = <<>>
    PROVE  StreamHeld'
<1>1. Transport(x1', x4', x5', x6')
  BY DEF Transport
<1>. QED BY <1>1 DEF StreamHeld

LEMMA MakesHolds == ASSUME StreamHeld, Upstream!Makes PROVE StreamHeld'
<1>1. /\ x1.at = "open" /\ x5.end = "no" /\ ~x4.over /\ x4.made < MaxMade /\ x1' = x1 /\ x3' = x3
      /\ x5' = x5 /\ x6' = x6
  BY DEF Upstream!Makes, Upstream!Streaming
<1>2. PICK last \in BOOLEAN :
        x4' = [x4 EXCEPT !.made = @ + 1, !.over = last, !.wire = @ \o Upstream!Bytes(x4.made + 1)]
  BY DEF Upstream!Makes
<1>3. x4 \in AnswerRecord /\ x4.made \in Nat /\ x4.wire \in Seq(Nat) /\ x3 \in BOOLEAN
      /\ Pipeline(x1, x4, x5, x6)
  BY AnswerFields DEF StreamHeld, Pipeline
<1> DEFINE x == x4.wire \o Upstream!Bytes(x4.made + 1)
<1>4. Prolongs(x, x4.wire, x4.made)
  BY <1>3, EventProlongs
<1>5. x4' = [made |-> x4.made + 1, over |-> last, wire |-> x, lost |-> x4.lost, plain |-> x4.plain]
  <2>1. x4' = [x4 EXCEPT !.made = x4.made + 1, !.over = last, !.wire = x]
    BY <1>2
  <2> DEFINE m == x4.made + 1
  <2>2. x4' = MadeOf(x4, m, last, x)
    BY <2>1 DEF MadeOf
  <2> HIDE DEF x, m
  <2>3. MadeOf(x4, m, last, x)
          = [made |-> m, over |-> last, wire |-> x, lost |-> x4.lost, plain |-> x4.plain]
    BY <1>3, MadeShape
  <2>. QED BY <2>2, <2>3 DEF m
<1> HIDE DEF x
<1>6. Pipeline(x1, x4', x5, x6) /\ ~x4'.plain /\ (Len(x4.wire) % 3 = 0 => Len(x4'.wire) % 3 = 0)
  <2>1. Produced(x4, x4', last, x)
    BY <1>4, <1>5 DEF Produced
  <2>. QED BY <1>1, <1>3, <2>1, MadeKept
<1>7. /\ x1.via = "ws" => ~x4'.plain /\ Len(x4'.wire) % 3 = 0
      /\ x1.kind = "compact" => x6.events = <<>> /\ x6.rest = <<>>
  BY <1>6 DEF StreamHeld, Transport
<1>. QED BY <1>1, <1>3, <1>6, <1>7, Flows

LEMMA ChunkHolds == ASSUME StreamHeld, Upstream!ChunkArrives PROVE StreamHeld'
<1>1. /\ x1.at = "open" /\ x1.via # "ws" /\ x5.end = "no" /\ x1' = x1 /\ x3' = x3 /\ x6' = x6
  BY DEF Upstream!ChunkArrives, Upstream!Streaming, Upstream!ViaWs
<1>2. PICK k \in 1 .. Len(x4.wire) :
        /\ x5' = [x5 EXCEPT !.queue = Append(@, SubSeq(x4.wire, 1, k))]
        /\ x4' = [x4 EXCEPT !.wire = SubSeq(@, k + 1, Len(@))]
  BY DEF Upstream!ChunkArrives
<1>3. x4 \in AnswerRecord /\ x5 \in PipeRecord /\ x3 \in BOOLEAN /\ Pipeline(x1, x4, x5, x6)
  BY DEF StreamHeld, Pipeline
<1> DEFINE s == SubSeq(x4.wire, 1, k)
           t == SubSeq(x4.wire, k + 1, Len(x4.wire))
<1>4. x5' = [queue |-> Append(x5.queue, s), end |-> "no", heedsAbort |-> x5.heedsAbort]
  BY <1>1, <1>2, <1>3, PipeShapes
<1>5. x4' = [made |-> x4.made, over |-> x4.over, wire |-> t, lost |-> x4.lost, plain |-> x4.plain]
  BY <1>2, <1>3, WireShape
<1>6. Pipeline(x1, x4', x5', x6)
  <2>1. s = SubSeq(x4.wire, 1, k) /\ t = SubSeq(x4.wire, k + 1, Len(x4.wire))
    OBVIOUS
  <2> HIDE DEF s, t
  <2>2. Taken(x4, x5, x4', x5', k, "no")
    BY <1>4, <1>5, <2>1 DEF Taken
  <2>. QED BY <1>1, <1>3, <2>2, ChunkKept
<1>7. x1.kind = "compact" => x6.events = <<>> /\ x6.rest = <<>>
  BY DEF StreamHeld, Transport
<1>. QED BY <1>1, <1>3, <1>6, <1>7, Flows

LEMMA OneMessage == \A l \in Nat : l # 0 /\ l % 3 = 0 => 3 \in 1 .. l /\ (l - 3) % 3 = 0
  OBVIOUS

LEMMA MessageHolds == ASSUME StreamHeld, Upstream!MessageArrives PROVE StreamHeld'
<1>1. /\ x1.at = "open" /\ x1.via = "ws" /\ x5.end = "no" /\ x1' = x1 /\ x3' = x3 /\ x6' = x6
      /\ x4.wire # <<>>
  BY DEF Upstream!MessageArrives, Upstream!Streaming, Upstream!ViaWs
<1> DEFINE e == IF x4.over /\ Len(x4.wire) = 3 THEN "closed" ELSE "no"
           s == SubSeq(x4.wire, 1, 3)
           t == SubSeq(x4.wire, 3 + 1, Len(x4.wire))
<1>2. /\ x4' = [x4 EXCEPT !.wire = t]
      /\ x5' = [x5 EXCEPT !.queue = Append(@, s), !.end = e]
  BY DEF Upstream!MessageArrives
<1>3. x4 \in AnswerRecord /\ x5 \in PipeRecord /\ x3 \in BOOLEAN /\ Pipeline(x1, x4, x5, x6)
      /\ ~x4.plain /\ Len(x4.wire) % 3 = 0 /\ x4.wire \in Seq(Nat) /\ Len(x4.wire) \in Nat
  BY <1>1, AnswerFields DEF StreamHeld, Pipeline, Transport
<1>4. Len(x4.wire) # 0
  BY <1>1, <1>3
<1>5. 3 \in 1 .. Len(x4.wire) /\ (Len(x4.wire) - 3) % 3 = 0
  BY <1>3, <1>4, OneMessage
<1>6. x5' = [queue |-> Append(x5.queue, s), end |-> e, heedsAbort |-> x5.heedsAbort]
  BY <1>2, <1>3, PipeShapes
<1>7. x4' = [made |-> x4.made, over |-> x4.over, wire |-> t, lost |-> x4.lost, plain |-> x4.plain]
  BY <1>2, <1>3, WireShape
<1>8. e \in {"no", "closed"} /\ (e = "closed" => x4.over /\ 3 = Len(x4.wire))
  OBVIOUS
<1>9. Pipeline(x1, x4', x5', x6) /\ x4'.plain = x4.plain /\ Len(x4'.wire) = Len(x4.wire) - 3
  <2>1. s = SubSeq(x4.wire, 1, 3) /\ t = SubSeq(x4.wire, 3 + 1, Len(x4.wire))
    OBVIOUS
  <2> HIDE DEF s, t, e
  <2>2. Taken(x4, x5, x4', x5', 3, e)
    BY <1>5, <1>6, <1>7, <1>8, <2>1 DEF Taken
  <2>. QED BY <1>1, <1>3, <2>2, ChunkKept
<1>10. x1.kind = "compact" => x6.events = <<>> /\ x6.rest = <<>>
  BY DEF StreamHeld, Transport
<1>11. ~x4'.plain /\ Len(x4'.wire) % 3 = 0
  BY <1>3, <1>5, <1>9
<1>. QED BY <1>1, <1>3, <1>9, <1>10, <1>11, Flows

\* The stream ends, in whichever way.
LEMMA Ends ==
    ASSUME StreamHeld, x1.at = "open", x5.end = "no", x1' = x1, x3' \in BOOLEAN, x6' = x6,
           NEW l \in BOOLEAN, NEW e \in {"closed", "error"}, NEW queue \in {x5.queue, <<>>},
           ~l => x4.over /\ x4.wire = <<>> /\ e = "closed" /\ queue = x5.queue,
           x4' = [x4 EXCEPT !.lost = l],
           x5' = [queue |-> queue, end |-> e, heedsAbort |-> x5.heedsAbort]
    PROVE  StreamHeld'
<1>1. x4 \in AnswerRecord /\ Pipeline(x1, x4, x5, x6)
  BY DEF StreamHeld, Pipeline
<1>2. x4' = [made |-> x4.made, over |-> x4.over, wire |-> x4.wire, lost |-> l, plain |-> x4.plain]
  BY <1>1, LostShape
<1>3. Pipeline(x1, x4', x5', x6) /\ x4'.plain = x4.plain /\ x4'.wire = x4.wire
  <2>1. Ended(x4, x5, x4', x5', l, e, queue)
    BY <1>2 DEF Ended
  <2>. QED BY <1>1, <2>1, EndKept
<1>4. /\ x1.via = "ws" => ~x4.plain /\ Len(x4.wire) % 3 = 0
      /\ x1.kind = "compact" => x6.events = <<>> /\ x6.rest = <<>>
  BY DEF StreamHeld, Transport
<1>. QED BY <1>3, <1>4, Flows

LEMMA EndingsHold ==
    ASSUME StreamHeld, Upstream!HttpEnds \/ Upstream!WsCloses \/ Upstream!WsFails
    PROVE  StreamHeld'
<1>1. /\ x1.at = "open" /\ x5.end = "no" /\ x1' = x1 /\ x3' = x3 /\ x6' = x6
      /\ x5 \in PipeRecord /\ x3 \in BOOLEAN /\ x4 \in AnswerRecord /\ x4.over \in BOOLEAN
  BY AnswerFields DEF Upstream!HttpEnds, Upstream!WsCloses, Upstream!WsFails, Upstream!Streaming, StreamHeld,
     Pipeline
<1>2. CASE Upstream!HttpEnds
  <2> DEFINE l == ~(x4.over /\ x4.wire = <<>>)
  <2>1. x4' = [x4 EXCEPT !.lost = l] /\ x5' = [x5 EXCEPT !.end = "closed"]
    BY <1>2 DEF Upstream!HttpEnds
  <2>2. x5' = [queue |-> x5.queue, end |-> "closed", heedsAbort |-> x5.heedsAbort]
    BY <1>1, <2>1, PipeShapes
  <2>3. l \in BOOLEAN /\ (~l => x4.over /\ x4.wire = <<>>)
    BY <1>1
  <2> HIDE DEF l
  <2>. QED BY <1>1, <2>1, <2>2, <2>3, Ends
<1>3. CASE Upstream!WsCloses
  <2>1. x4' = [x4 EXCEPT !.lost = TRUE] /\ x5' = [x5 EXCEPT !.end = "closed"]
    BY <1>3 DEF Upstream!WsCloses
  <2>2. x5' = [queue |-> x5.queue, end |-> "closed", heedsAbort |-> x5.heedsAbort]
    BY <1>1, <2>1, PipeShapes
  <2>. QED BY <1>1, <2>1, <2>2, Ends
<1>4. CASE Upstream!WsFails
  <2>1. x4' = [x4 EXCEPT !.lost = TRUE] /\ x5' = [x5 EXCEPT !.end = "error", !.queue = <<>>]
    BY <1>4 DEF Upstream!WsFails
  <2>2. x5' = [queue |-> <<>>, end |-> "error", heedsAbort |-> x5.heedsAbort]
    BY <1>1, <2>1, PipeShapes
  <2>. QED BY <1>1, <2>1, <2>2, Ends
<1>. QED BY <1>2, <1>3, <1>4

LEMMA AbortHolds == ASSUME StreamHeld, Upstream!Abort PROVE StreamHeld'
<1>1. /\ x3' = TRUE /\ x6' = x6 /\ x1 \in CallRecord /\ x4 \in AnswerRecord /\ x5 \in PipeRecord
      /\ x4.over \in BOOLEAN
  BY AnswerFields DEF Upstream!Abort, StreamHeld, Pipeline
<1>2. CASE x1.at = "connecting"
  <2>1. x1' = [x1 EXCEPT !.at = "threw"] /\ UNCHANGED <<x4, x5>>
    BY <1>2 DEF Upstream!Abort, Upstream!Streaming
  <2>2. x1' \in CallRecord /\ x1'.kind = x1.kind /\ x1'.at = "threw"
    BY <1>1, <2>1 DEF CallRecord
  <2>. QED BY <1>1, <1>2, <2>1, <2>2, Waits
<1>3. CASE x1.at # "connecting" /\ UNCHANGED <<x4, x5>>
  <2>1. x1' = x1
    BY <1>3 DEF Upstream!Abort
  <2>. QED BY <1>1, <1>3, <2>1 DEF StreamHeld
<1>4. CASE x1.at # "connecting" /\ ~UNCHANGED <<x4, x5>>
  <2> DEFINE l == ~(x4.over /\ x4.wire = <<>>)
  <2>1. /\ x1' = x1 /\ x1.at = "open" /\ x5.end = "no"
        /\ x4' = [x4 EXCEPT !.lost = l] /\ x5' = [x5 EXCEPT !.end = "closed"]
    BY <1>4 DEF Upstream!Abort, Upstream!Streaming
  <2>2. x5' = [queue |-> x5.queue, end |-> "closed", heedsAbort |-> x5.heedsAbort]
    BY <1>1, <2>1, PipeShapes
  <2>3. l \in BOOLEAN /\ (~l => x4.over /\ x4.wire = <<>>)
    BY <1>1
  <2> HIDE DEF l
  <2>. QED BY <1>1, <2>1, <2>2, <2>3, Ends
<1>. QED BY <1>2, <1>3, <1>4

LEMMA ReadHolds == ASSUME StreamHeld, Upstream!Read PROVE StreamHeld'
<1>1. /\ x1.at = "open" /\ x1.kind = "stream" /\ x5.queue # <<>> /\ x6.end = "no"
      /\ x5' = [x5 EXCEPT !.queue = Tail(@)] /\ x1' = x1 /\ x3' = x3 /\ x4' = x4
  BY DEF Upstream!Read
<1>2. x6' = (CHOOSE h : ParsesOf(h, x6, Head(x5.queue)))[DOMAIN Head(x5.queue)]
  BY DEF Upstream!Read, Upstream!FoldLeft, Upstream!MapThenFoldSet, ParsesOf
<1>3. x6' = ReadAll(x6, Head(x5.queue))
  BY <1>2, ReadIs
<1>4. x5 \in PipeRecord /\ Pipeline(x1, x4, x5, x6) /\ x3 \in BOOLEAN
  BY DEF StreamHeld, Pipeline
<1>5. x5' = [queue |-> Tail(x5.queue), end |-> x5.end, heedsAbort |-> x5.heedsAbort]
  BY <1>1, <1>4, PipeShapes
<1>6. Pipeline(x1, x4, x5', x6')
  BY <1>1, <1>3, <1>4, <1>5, ReadKept
<1>7. x1.via = "ws" => ~x4.plain /\ Len(x4.wire) % 3 = 0
  BY DEF StreamHeld, Transport
<1>. QED BY <1>1, <1>4, <1>6, <1>7, Flows

LEMMA OverflowHolds == ASSUME StreamHeld, Upstream!Overflows PROVE StreamHeld'
<1>1. /\ x1.at = "open" /\ x1.kind = "stream" /\ x6.end = "no" /\ x1' = x1 /\ x3' = x3
      /\ x6' = [x6 EXCEPT !.end = "error"] /\ x5' = [x5 EXCEPT !.queue = <<>>, !.end = "error"]
      /\ x4' = [x4 EXCEPT !.lost = TRUE]
  BY DEF Upstream!Overflows
<1>2. Pipeline(x1, x4, x5, x6) /\ x3 \in BOOLEAN /\ x4 \in AnswerRecord /\ x5 \in PipeRecord
  BY DEF StreamHeld, Pipeline
<1>3. PICK a : x6 = ReaderAt(x4.plain, a)
  BY <1>1, <1>2 DEF Pipeline, Between
<1>4. x6' = [rest |-> x6.rest, events |-> x6.events, end |-> "error"]
  BY <1>1, <1>3 DEF ReaderAt
<1>5. x5' = [queue |-> <<>>, end |-> "error", heedsAbort |-> x5.heedsAbort] /\ x5' \in PipeRecord
  <2>1. x5' = [queue |-> <<>>, end |-> "error", heedsAbort |-> x5.heedsAbort]
    BY <1>1, <1>2, PipeShapes
  <2>. QED BY <1>2, <2>1 DEF PipeRecord
<1>6. /\ x4' \in AnswerRecord /\ x4'.lost /\ x4'.plain = x4.plain /\ x4'.over = x4.over
      /\ x4'.made = x4.made /\ x4'.wire = x4.wire
  BY <1>1, <1>2 DEF AnswerRecord
<1>7. InOrderOf(x4, x6)
  BY <1>2, OrderNow
<1>8. InOrderOf(x4', x6') /\ WholeOf(x1', x4', x6')
  BY <1>4, <1>6, <1>7 DEF InOrderOf, WholeOf
<1>9. Pipeline(x1', x4', x5', x6')
  BY <1>2, <1>4, <1>5, <1>6, <1>8 DEF Pipeline
<1>10. x1.via = "ws" => ~x4.plain /\ Len(x4.wire) % 3 = 0
  BY DEF StreamHeld, Transport
<1>11. Transport(x1', x4', x5', x6')
  BY <1>1, <1>6, <1>10 DEF Transport
<1>. QED BY <1>1, <1>2, <1>9, <1>11 DEF StreamHeld

LEMMA ReadEndHolds == ASSUME StreamHeld, Upstream!ReadEnd PROVE StreamHeld'
<1>1. /\ x1.kind = "stream" /\ x5.queue = <<>> /\ x5.end # "no" /\ x6.end = "no"
      /\ x1' = x1 /\ x3' = x3 /\ x4' = x4 /\ x5' = x5
      /\ x6' = [x6 EXCEPT !.end = x5.end,
                          !.events = IF x5.end = "closed" /\ x6.rest # <<>>
                                       THEN Append(@, Upstream!Parsed(x6.rest)) ELSE @]
  BY DEF Upstream!ReadEnd
<1>2. Pipeline(x1, x4, x5, x6) /\ x3 \in BOOLEAN /\ x1.at = "open"
  BY <1>1 DEF StreamHeld, Transport, Upstream!NoPipe
<1>3. PICK a : x6 = ReaderAt(x4.plain, a)
  BY <1>1, <1>2 DEF Pipeline, Between
<1> DEFINE ev == IF x5.end = "closed" /\ x6.rest # <<>>
                   THEN Append(x6.events, Upstream!Parsed(x6.rest)) ELSE x6.events
<1>4. x6' = [rest |-> x6.rest, end |-> x5.end, events |-> ev]
  <2>1. x6' = [x6 EXCEPT !.end = x5.end, !.events = ev]
    BY <1>1
  <2> HIDE DEF ev
  <2>. QED BY <1>3, <2>1 DEF ReaderAt
<1>5. Pipeline(x1, x4, x5, x6')
  BY <1>1, <1>2, <1>4, LastReadKept
<1>6. x1.via = "ws" => ~x4.plain /\ Len(x4.wire) % 3 = 0
  BY DEF StreamHeld, Transport
<1>. QED BY <1>1, <1>2, <1>5, <1>6, Flows

LEMMA CompactHolds == ASSUME StreamHeld, Upstream!CompactEnds PROVE StreamHeld'
<1>1. /\ x1.at = "open" /\ x1.kind = "compact" /\ x5.end = "closed" /\ x6.end = "no" /\ x3' = x3
      /\ x1 \in CallRecord /\ x3 \in BOOLEAN /\ Pipeline(x1, x4, x5, x6)
      /\ x6.events = <<>> /\ x6.rest = <<>>
      /\ x1.via = "ws" => ~x4.plain /\ Len(x4.wire) % 3 = 0
  BY DEF Upstream!CompactEnds, StreamHeld, Transport
<1>2. PICK a : x6 = ReaderAt(x4.plain, a)
  BY <1>1 DEF Pipeline, Between
<1>3. x6 = [rest |-> x6.rest, events |-> x6.events, end |-> x6.end]
  BY <1>2 DEF ReaderAt
<1>4. CASE x6' = [x6 EXCEPT !.end = "closed"] /\ UNCHANGED <<x1, x4, x5>>
  <2>1. x6' = [rest |-> <<>>, events |-> <<>>, end |-> "closed"]
    BY <1>1, <1>3, <1>4
  <2>2. \A i \in DOMAIN <<>> : FALSE
    OBVIOUS
  <2>3. InOrderOf(x4, x6') /\ WholeOf(x1, x4, x6')
    BY <1>1, <2>1, <2>2 DEF InOrderOf, WholeOf
  <2>4. Pipeline(x1, x4, x5, x6')
    BY <1>1, <2>1, <2>3 DEF Pipeline
  <2>. QED BY <1>1, <1>4, <2>1, <2>4, Flows
<1>5. CASE /\ Upstream!AfterError(502) /\ x4' = Upstream!NoUpstream /\ x5' = Upstream!NoPipe
           /\ x6' = x6
  <2>1. x1' \in CallRecord /\ x1'.kind = x1.kind /\ x1'.at \in {"delay", "threw"}
    BY <1>1, <1>5, ErrorCalls
  <2>2. x6' = Upstream!NoReader
    BY <1>1, <1>3, <1>5 DEF Upstream!NoReader
  <2>3. x5' \in PipeRecord /\ x5'.queue = <<>> /\ x5'.end = "no"
    BY <1>5 DEF PipeRecord, Upstream!NoPipe
  <2>4. x4' = [made |-> 0, over |-> FALSE, wire |-> IF FALSE THEN <<MaxMade + 1>> ELSE <<>>,
               lost |-> FALSE, plain |-> FALSE]
    BY <1>5 DEF Upstream!NoUpstream
  <2>5. Pipeline(x1', x4', x5', x6')
    BY <2>2, <2>3, <2>4, AnswerBegins
  <2>6. ~x4'.plain /\ Len(x4'.wire) % 3 = 0
    <3>1. Len(<<>>) % 3 = 0
      OBVIOUS
    <3>. QED BY <2>4, <3>1
  <2>7. Transport(x1', x4', x5', x6')
    BY <1>1, <1>5, <2>1, <2>2, <2>6 DEF Transport
  <2>. QED BY <1>1, <2>1, <2>5, <2>7 DEF StreamHeld
<1>. QED BY <1>4, <1>5 DEF Upstream!CompactEnds

LEMMA StreamStep == StreamHeld /\ Upstream!Next => StreamHeld'
<1> SUFFICES ASSUME StreamHeld, Upstream!Next PROVE StreamHeld'
  OBVIOUS
<1>1. x1 \in CallRecord /\ x3 \in BOOLEAN
  BY DEF StreamHeld
<1>2. CASE Upstream!Send \/ Upstream!DelayPasses
  <2>1. Upstream!Start /\ UNCHANGED <<x3, x4, x5, x6>> /\ x1.at \in {"idle", "delay"}
    BY <1>2 DEF Upstream!Send, Upstream!DelayPasses
  <2>. QED BY <1>1, <2>1, StartMoves, Waits
<1>3. CASE Upstream!FallBack
  <2>1. /\ Upstream!Post([x2 EXCEPT ![Len(x2)].fate = "unsent"])
        /\ UNCHANGED <<x3, x4, x5, x6>> /\ x1.at = "connecting"
    BY <1>3 DEF Upstream!FallBack
  <2>. QED BY <1>1, <2>1, PostMoves, Waits
<1>4. CASE Upstream!PostRefused \/ Upstream!PostLost
  <2>1. /\ \E status \in {429, 503, 0} : Upstream!AfterError(status)
        /\ UNCHANGED <<x3, x4, x5, x6>> /\ x1.at = "posting"
    BY <1>4 DEF Upstream!PostRefused, Upstream!PostLost
  <2>2. x1' \in CallRecord /\ x1'.kind = x1.kind /\ x1'.at \in {"delay", "threw"}
    <3>. PICK status \in {0, 429, 502, 503} : Upstream!AfterError(status)
      BY <2>1
    <3>. QED BY <1>1, ErrorCalls
  <2>. QED BY <1>1, <2>1, <2>2, Waits
<1>5. CASE Upstream!WsOpens
  <2>1. /\ x1.at = "connecting" /\ x1' = [x1 EXCEPT !.at = "open"] /\ UNCHANGED <<x3, x4, x6>>
        /\ x5' = [x5 EXCEPT !.heedsAbort = TRUE]
    BY <1>5 DEF Upstream!WsOpens
  <2>2. x4' = IF FALSE THEN [x4 EXCEPT !.wire = <<MaxMade + 1>>, !.over = TRUE, !.plain = TRUE] ELSE x4
    BY <2>1
  <2>. QED BY <2>1, <2>2, Begins
<1>6. CASE Upstream!PostAnswered
  <2>1. /\ x1.at = "posting" /\ x1' = [x1 EXCEPT !.at = "open"] /\ UNCHANGED <<x3, x6>>
        /\ x5' = [x5 EXCEPT !.heedsAbort = ~x3]
    BY <1>6 DEF Upstream!PostAnswered
  <2>2. PICK plain \in BOOLEAN :
          x4' = IF plain THEN [x4 EXCEPT !.wire = <<MaxMade + 1>>, !.over = TRUE, !.plain = TRUE] ELSE x4
    BY <1>6 DEF Upstream!PostAnswered, Upstream!Plain
  <2>3. x1.via = "http" /\ (~x3) \in BOOLEAN
    <3>1. x1.via = "http"
      BY <2>1 DEF StreamHeld, Transport
    <3>2. (~x3) \in BOOLEAN
      OBVIOUS
    <3>. QED BY <3>1, <3>2
  <2>. QED BY <2>1, <2>2, <2>3, Begins
<1>. QED BY <1>2, <1>3, <1>4, <1>5, <1>6, MakesHolds, ChunkHolds, MessageHolds, EndingsHold, AbortHolds,
         ReadHolds, OverflowHolds, ReadEndHolds, CompactHolds DEF Upstream!Next

-----------------------------------------------------------------------------
(* API key upstreams: what is said of each call is that its events frame   *)
(* it (Framed) and that its arguments are the pieces of its chunks         *)
(* (Buffered); each event an adapter yields keeps both.                    *)

EventKinds == {"text", "delta", "call", "stop", "done", "error", "completed"}
Events == [type : EventKinds, call : Nat, pieces : Seq(Nat)]

LEMMA EventFields ==
    ASSUME NEW t \in EventKinds, NEW i \in Nat, NEW p \in Seq(Nat)
    PROVE  /\ Direct!Ev(t, i, p) \in Events /\ Direct!Ev(t, i, p).type = t
           /\ Direct!Ev(t, i, p).call = i /\ Direct!Ev(t, i, p).pieces = p
  BY DEF Direct!Ev, Events

Bits(e, t, i) == IF e.type = t /\ e.call = i THEN e.pieces ELSE <<>>

LEMMA PiecesAppend ==
    ASSUME NEW s \in Seq(Events), NEW e \in Events, NEW t, NEW i
    PROVE  /\ Direct!Pieces(Append(s, e), t, i) = Direct!Pieces(s, t, i) \o Bits(e, t, i)
           /\ Direct!Pieces(s, t, i) \in Seq(Nat) /\ Direct!Pieces(<<>>, t, i) = <<>>
<1> DEFINE parts(r) == [k \in DOMAIN r |-> IF r[k].type = t /\ r[k].call = i THEN r[k].pieces ELSE <<>>]
<1>1. ASSUME NEW r \in Seq(Seq(Nat)) PROVE Direct!FlattenSeq(r) = Seqs!FlattenSeq(r)
  BY DEF Direct!FlattenSeq, Seqs!FlattenSeq
<1>2. ASSUME NEW x \in Events PROVE x.pieces \in Seq(Nat)
  BY DEF Events
<1>3. ASSUME NEW r \in Seq(Events) PROVE parts(r) \in Seq(Seq(Nat))
  <2>1. Len(r) \in Nat /\ DOMAIN r = 1 .. Len(r) /\ \A k \in 1 .. Len(r) : r[k] \in Events
    OBVIOUS
  <2>2. \A k \in 1 .. Len(r) : r[k].pieces \in Seq(Nat)
    BY <1>2, <2>1
  <2>3. <<>> \in Seq(Nat)
    OBVIOUS
  <2>4. parts(r) \in [1 .. Len(r) -> Seq(Nat)]
    BY <2>1, <2>2, <2>3
  <2>. QED BY <2>1, <2>4
<1>4. parts(Append(s, e)) = Append(parts(s), Bits(e, t, i))
  <2>1. Len(s) \in Nat /\ DOMAIN s = 1 .. Len(s)
    OBVIOUS
  <2>2. DOMAIN Append(s, e) = 1 .. Len(s) + 1 /\ Append(s, e)[Len(s) + 1] = e
        /\ \A k \in 1 .. Len(s) : Append(s, e)[k] = s[k]
    OBVIOUS
  <2>3. Len(parts(s)) = Len(s) /\ parts(s) \in Seq(Seq(Nat)) /\ Bits(e, t, i) \in Seq(Nat)
    <3>1. parts(s) \in Seq(Seq(Nat)) /\ DOMAIN parts(s) = 1 .. Len(s)
      BY <1>3, <2>1
    <3>2. <<>> \in Seq(Nat)
      OBVIOUS
    <3>3. Bits(e, t, i) \in Seq(Nat)
      BY <1>2, <3>2 DEF Bits
    <3> HIDE DEF parts
    <3>. QED BY <2>1, <3>1, <3>3, LengthIs
  <2>4. DOMAIN Append(parts(s), Bits(e, t, i)) = 1 .. Len(s) + 1
        /\ Append(parts(s), Bits(e, t, i))[Len(s) + 1] = Bits(e, t, i)
        /\ \A k \in 1 .. Len(s) : Append(parts(s), Bits(e, t, i))[k] = parts(s)[k]
    BY <2>1, <2>3
  <2>5. DOMAIN parts(Append(s, e)) = 1 .. Len(s) + 1
        /\ parts(Append(s, e))[Len(s) + 1] = Bits(e, t, i)
        /\ \A k \in 1 .. Len(s) : parts(Append(s, e))[k] = parts(s)[k]
    <3>1. \A k \in 1 .. Len(s) : k \in 1 .. Len(s) + 1
      BY <2>1
    <3>2. Len(s) + 1 \in 1 .. Len(s) + 1
      BY <2>1
    <3>. QED BY <2>1, <2>2, <3>1, <3>2 DEF Bits
  <2>6. \A k \in 1 .. Len(s) + 1 : k = Len(s) + 1 \/ k \in 1 .. Len(s)
    BY <2>1
  <2>7. \A k \in 1 .. Len(s) + 1 : parts(Append(s, e))[k] = Append(parts(s), Bits(e, t, i))[k]
    <3> HIDE DEF parts
    <3>. QED BY <2>4, <2>5, <2>6
  <2>8. parts(Append(s, e)) = [k \in 1 .. Len(s) + 1 |-> parts(Append(s, e))[k]]
    BY <2>2
  <2>9. Append(parts(s), Bits(e, t, i)) = [k \in 1 .. Len(s) + 1 |-> Append(parts(s), Bits(e, t, i))[k]]
    <3> HIDE DEF parts
    <3>1. Append(parts(s), Bits(e, t, i)) \in Seq(Seq(Nat))
      BY <2>3
    <3>. QED BY <2>4, <3>1, SequenceIs
  <2> HIDE DEF parts
  <2>. QED BY <2>7, <2>8, <2>9
<1>5. Bits(e, t, i) \in Seq(Nat)
  <2>1. <<>> \in Seq(Nat)
    OBVIOUS
  <2>. QED BY <1>2, <2>1 DEF Bits
<1>6. \A r : Direct!Pieces(r, t, i) = Direct!FlattenSeq(parts(r))
  BY DEF Direct!Pieces
<1>7. Append(s, e) \in Seq(Events) /\ <<>> \in Seq(Events) /\ parts(<<>>) = <<>> /\ <<>> \in Seq(Seq(Nat))
  OBVIOUS
<1> HIDE DEF parts
<1>8. Direct!Pieces(Append(s, e), t, i) = Seqs!FlattenSeq(Append(parts(s), Bits(e, t, i)))
  BY <1>1, <1>3, <1>4, <1>6, <1>7
<1>9. Direct!Pieces(s, t, i) = Seqs!FlattenSeq(parts(s)) /\ parts(s) \in Seq(Seq(Nat))
  BY <1>1, <1>3, <1>6
<1>10. Seqs!FlattenSeq(Append(parts(s), Bits(e, t, i))) = Seqs!FlattenSeq(parts(s)) \o Bits(e, t, i)
  BY <1>5, <1>9, FlatAppend
<1>11. Seqs!FlattenSeq(parts(s)) \in Seq(Nat)
  BY <1>9, FlatTyped
<1>12. Direct!Pieces(<<>>, t, i) = <<>>
  BY <1>1, <1>6, <1>7, FlatEmpty
<1>. QED BY <1>8, <1>9, <1>10, <1>11, <1>12

Where(es, t, i) == {k \in DOMAIN es : es[k].type = t /\ es[k].call = i}

LEMMA WhereAppend ==
    ASSUME NEW es \in Seq(Events), NEW e \in Events, NEW t, NEW i
    PROVE  /\ Where(es, t, i) \subseteq 1 .. Len(es)
           /\ e.type = t /\ e.call = i => Where(Append(es, e), t, i) = Where(es, t, i) \cup {Len(es) + 1}
           /\ ~(e.type = t /\ e.call = i) => Where(Append(es, e), t, i) = Where(es, t, i)
           /\ \A k \in 1 .. Len(es) : Append(es, e)[k] = es[k]
           /\ Append(es, e)[Len(es) + 1] = e
           /\ Len(es) \in Nat /\ DOMAIN es = 1 .. Len(es)
           /\ Append(es, e) \in Seq(Events) /\ Len(Append(es, e)) = Len(es) + 1
<1>1. Len(es) \in Nat /\ DOMAIN es = 1 .. Len(es) /\ DOMAIN Append(es, e) = 1 .. Len(es) + 1
  OBVIOUS
<1>2. \A k \in 1 .. Len(es) : Append(es, e)[k] = es[k]
  OBVIOUS
<1>3. Append(es, e)[Len(es) + 1] = e
  OBVIOUS
<1>4. Append(es, e) \in Seq(Events) /\ Len(Append(es, e)) = Len(es) + 1
  OBVIOUS
<1>5. \A k : k \in 1 .. Len(es) + 1 <=> k \in 1 .. Len(es) \/ k = Len(es) + 1
  BY <1>1
<1>6. ASSUME NEW k PROVE k \in Where(Append(es, e), t, i) <=>
        k \in Where(es, t, i) \/ (k = Len(es) + 1 /\ e.type = t /\ e.call = i)
  <2>1. k \in Where(Append(es, e), t, i) <=>
          k \in 1 .. Len(es) + 1 /\ Append(es, e)[k].type = t /\ Append(es, e)[k].call = i
    BY <1>1 DEF Where
  <2>2. k \in Where(es, t, i) <=> k \in 1 .. Len(es) /\ es[k].type = t /\ es[k].call = i
    BY <1>1 DEF Where
  <2>3. Len(es) + 1 \notin 1 .. Len(es)
    BY <1>1
  <2> DEFINE l == Len(es)
             s == Append(es, e)
  <2>4. /\ \A j \in 1 .. l : s[j] = es[j]
        /\ s[l + 1] = e
        /\ \A j : j \in 1 .. l + 1 <=> j \in 1 .. l \/ j = l + 1
        /\ k \in Where(s, t, i) <=> k \in 1 .. l + 1 /\ s[k].type = t /\ s[k].call = i
        /\ k \in Where(es, t, i) <=> k \in 1 .. l /\ es[k].type = t /\ es[k].call = i
    BY <1>2, <1>3, <1>5, <2>1, <2>2
  <2> HIDE DEF l, s
  <2>5. CASE k \in 1 .. l
    <3>1. k # l + 1
      BY <2>3, <2>5 DEF l
    <3>. QED BY <2>4, <2>5, <3>1 DEF l, s
  <2>6. CASE k = l + 1
    <3>1. k \notin 1 .. l
      BY <2>3, <2>6 DEF l
    <3>. QED BY <2>4, <2>6, <3>1 DEF l, s
  <2>7. CASE k \notin 1 .. l /\ k # l + 1
    BY <2>4, <2>7 DEF l, s
  <2>. QED BY <2>5, <2>6, <2>7
<1>7. Where(es, t, i) \subseteq 1 .. Len(es)
  BY <1>1 DEF Where
<1>. QED BY <1>1, <1>2, <1>3, <1>4, <1>6, <1>7

\* What the events say of one call: whether it was added and done, and with what.
Framed(es, i, added, done, args) ==
    /\ ~added => Where(es, "call", i) = {} /\ Where(es, "delta", i) = {}
    /\ added => \E k \in Where(es, "call", i) :
                   /\ Where(es, "call", i) = {k}
                   /\ \A j \in Where(es, "delta", i) \cup Where(es, "done", i) : k < j
    /\ ~done => Where(es, "done", i) = {}
    /\ done => added /\ \E k \in Where(es, "done", i) :
                  /\ Where(es, "done", i) = {k} /\ es[k].pieces = args
                  /\ \A j \in Where(es, "delta", i) : j < k

LEMMA FramedAppend ==
    ASSUME NEW es \in Seq(Events), NEW e \in Events, NEW i, NEW added \in BOOLEAN, NEW done \in BOOLEAN,
           NEW args, Framed(es, i, added, done, args)
    PROVE  /\ e.type \notin {"call", "delta", "done"} \/ e.call # i =>
                Framed(Append(es, e), i, added, done, args)
           /\ e.type = "call" /\ e.call = i /\ ~added /\ ~done =>
                \A q : Framed(Append(es, e), i, TRUE, FALSE, q)
           /\ e.type = "delta" /\ e.call = i /\ added /\ ~done =>
                \A q : Framed(Append(es, e), i, TRUE, FALSE, q)
           /\ e.type = "done" /\ e.call = i /\ added /\ ~done /\ e.pieces = args =>
                Framed(Append(es, e), i, TRUE, TRUE, args)
<1> DEFINE n == Len(es)
           s == Append(es, e)
           in(t) == Where(es, t, i)
           on(t) == Where(s, t, i)
<1>1. n \in Nat /\ s[n + 1] = e /\ \A k \in 1 .. n : s[k] = es[k]
  BY WhereAppend
<1>2. ASSUME NEW t PROVE in(t) \subseteq 1 .. n
                         /\ (e.type = t /\ e.call = i => on(t) = in(t) \cup {n + 1})
                         /\ (~(e.type = t /\ e.call = i) => on(t) = in(t))
  <2>1. in(t) \subseteq 1 .. n
    BY WhereAppend
  <2>2. e.type = t /\ e.call = i => on(t) = in(t) \cup {n + 1}
    BY WhereAppend
  <2>3. ~(e.type = t /\ e.call = i) => on(t) = in(t)
    BY WhereAppend
  <2>. QED BY <2>1, <2>2, <2>3
<1>3. in("call") \subseteq 1 .. n /\ in("delta") \subseteq 1 .. n /\ in("done") \subseteq 1 .. n
  BY <1>2
<1>4. \A k \in 1 .. n : k < n + 1
  BY <1>1
<1>5. ASSUME e.type \notin {"call", "delta", "done"} \/ e.call # i PROVE Framed(s, i, added, done, args)
  <2>1. on("call") = in("call") /\ on("delta") = in("delta") /\ on("done") = in("done")
    BY <1>2, <1>5
  <2> HIDE DEF n, s
  <2>. QED BY <1>1, <1>3, <2>1 DEF Framed
<1>6. ASSUME e.type = "call", e.call = i, ~added, ~done, NEW q PROVE Framed(s, i, TRUE, FALSE, q)
  <2>1. on("call") = in("call") \cup {n + 1} /\ on("delta") = in("delta") /\ on("done") = in("done")
    BY <1>2, <1>6
  <2>2. in("call") = {} /\ in("delta") = {} /\ in("done") = {}
    BY <1>6 DEF Framed
  <2>3. on("call") = {n + 1} /\ on("delta") = {} /\ on("done") = {}
    BY <2>1, <2>2
  <2> HIDE DEF n, s
  <2>. QED BY <2>3 DEF Framed
<1>7. ASSUME e.type = "delta", e.call = i, added, ~done, NEW q PROVE Framed(s, i, TRUE, FALSE, q)
  <2>1. on("call") = in("call") /\ on("delta") = in("delta") \cup {n + 1} /\ on("done") = in("done")
    BY <1>2, <1>7
  <2>2. PICK k \in in("call") : in("call") = {k} /\ \A j \in in("delta") \cup in("done") : k < j
    BY <1>7 DEF Framed
  <2>3. in("done") = {} /\ k < n + 1
    BY <1>3, <1>4, <1>7 DEF Framed
  <2>4. k \in on("call") /\ on("call") = {k} /\ \A j \in on("delta") \cup on("done") : k < j
    BY <2>1, <2>2, <2>3
  <2> HIDE DEF n, s
  <2>. QED BY <2>1, <2>3, <2>4 DEF Framed
<1>8. ASSUME e.type = "done", e.call = i, added, ~done, e.pieces = args PROVE Framed(s, i, TRUE, TRUE, args)
  <2>1. on("call") = in("call") /\ on("delta") = in("delta") /\ on("done") = in("done") \cup {n + 1}
    BY <1>2, <1>8
  <2>2. PICK k \in in("call") : in("call") = {k} /\ \A j \in in("delta") \cup in("done") : k < j
    BY <1>8 DEF Framed
  <2>3. in("done") = {} /\ k < n + 1 /\ \A j \in in("delta") : j < n + 1
    BY <1>3, <1>4, <1>8 DEF Framed
  <2>4. k \in on("call") /\ on("call") = {k} /\ \A j \in on("delta") \cup on("done") : k < j
    BY <2>1, <2>2, <2>3
  <2>5. on("done") = {n + 1} /\ n + 1 \in on("done") /\ s[n + 1].pieces = args
    BY <1>1, <1>8, <2>1, <2>3
  <2>6. \A j \in on("delta") : j < n + 1
    BY <2>1, <2>3
  <2> HIDE DEF n, s
  <2>. QED BY <2>4, <2>5, <2>6 DEF Framed
<1>. QED BY <1>5, <1>6, <1>7, <1>8

Buffer(b, i) == IF i \in DOMAIN b THEN b[i] ELSE <<>>
Frames(es, b, done) == \A i \in 1 .. MaxCalls : Framed(es, i, i \in DOMAIN b, i \in done, Buffer(b, i))

\* b2 has what b has but for call i.
OnlyOf(i, b, b2) == DOMAIN b2 = DOMAIN b \cup {i} /\ \A j \in DOMAIN b : j # i => b2[j] = b[j]

LEMMA FramesAppend ==
    ASSUME NEW es \in Seq(Events), NEW e \in Events, NEW b, NEW done, Frames(es, b, done)
    PROVE  /\ e.type \notin {"call", "delta", "done"} => Frames(Append(es, e), b, done)
           /\ \A b2 : e.type = "call" /\ e.call \notin DOMAIN b /\ e.call \notin done /\ OnlyOf(e.call, b, b2) =>
                Frames(Append(es, e), b2, done)
           /\ \A b2 : e.type = "delta" /\ e.call \in DOMAIN b /\ e.call \notin done /\ OnlyOf(e.call, b, b2) =>
                Frames(Append(es, e), b2, done)
           /\ e.type = "done" /\ e.call \in DOMAIN b /\ e.call \notin done /\ e.pieces = b[e.call] =>
                Frames(Append(es, e), b, done \cup {e.call})
<1> DEFINE s == Append(es, e)
<1>1. ASSUME NEW i \in 1 .. MaxCalls
      PROVE  LET a == i \in DOMAIN b
                 d == i \in done
                 p == Buffer(b, i)
             IN  /\ e.type \notin {"call", "delta", "done"} \/ e.call # i => Framed(s, i, a, d, p)
                 /\ e.type = "call" /\ e.call = i /\ ~a /\ ~d => \A q : Framed(s, i, TRUE, FALSE, q)
                 /\ e.type = "delta" /\ e.call = i /\ a /\ ~d => \A q : Framed(s, i, TRUE, FALSE, q)
                 /\ e.type = "done" /\ e.call = i /\ a /\ ~d /\ e.pieces = p => Framed(s, i, TRUE, TRUE, p)
  <2>1. Framed(es, i, i \in DOMAIN b, i \in done, Buffer(b, i))
    BY DEF Frames
  <2>2. (i \in DOMAIN b) \in BOOLEAN /\ (i \in done) \in BOOLEAN
    OBVIOUS
  <2>. QED BY <2>1, <2>2, FramedAppend
<1> HIDE DEF s
<1>2. ASSUME e.type \notin {"call", "delta", "done"} PROVE Frames(s, b, done)
  BY <1>1, <1>2 DEF Frames
<1>3. ASSUME NEW b2, e.type \in {"call", "delta"}, e.type = "call" <=> e.call \notin DOMAIN b,
             e.call \notin done, OnlyOf(e.call, b, b2)
      PROVE  Frames(s, b2, done)
  <2>1. ASSUME NEW i \in 1 .. MaxCalls PROVE Framed(s, i, i \in DOMAIN b2, i \in done, Buffer(b2, i))
    <3>1. CASE e.call = i
      <4>1. (i \in DOMAIN b2) = TRUE /\ (i \in done) = FALSE
        BY <1>3, <3>1 DEF OnlyOf
      <4>2. Framed(s, i, TRUE, FALSE, Buffer(b2, i))
        BY <1>1, <1>3, <3>1
      <4>. QED BY <4>1, <4>2
    <3>2. CASE e.call # i
      <4>1. (i \in DOMAIN b2) = (i \in DOMAIN b) /\ Buffer(b2, i) = Buffer(b, i)
        BY <1>3, <3>2 DEF OnlyOf, Buffer
      <4>2. Framed(s, i, i \in DOMAIN b, i \in done, Buffer(b, i))
        BY <1>1, <3>2
      <4>. QED BY <4>1, <4>2
    <3>. QED BY <3>1, <3>2
  <2>. QED BY <2>1 DEF Frames
<1>4. ASSUME e.type = "done", e.call \in DOMAIN b, e.call \notin done, e.pieces = b[e.call]
      PROVE  Frames(s, b, done \cup {e.call})
  <2>1. ASSUME NEW i \in 1 .. MaxCalls
        PROVE  Framed(s, i, i \in DOMAIN b, i \in done \cup {e.call}, Buffer(b, i))
    <3>1. CASE e.call = i
      <4>1. (i \in DOMAIN b) = TRUE /\ (i \in done \cup {e.call}) = TRUE /\ Buffer(b, i) = e.pieces
        BY <1>4, <3>1 DEF Buffer
      <4>2. Framed(s, i, TRUE, TRUE, Buffer(b, i))
        BY <1>1, <1>4, <3>1, <4>1
      <4>. QED BY <4>1, <4>2
    <3>2. CASE e.call # i
      <4>1. (i \in done \cup {e.call}) = (i \in done)
        BY <3>2
      <4>2. Framed(s, i, i \in DOMAIN b, i \in done, Buffer(b, i))
        BY <1>1, <3>2
      <4>. QED BY <4>1, <4>2
    <3>. QED BY <3>1, <3>2
  <2>. QED BY <2>1 DEF Frames
<1>5. "call" \in {"call", "delta"} /\ "delta" \in {"call", "delta"} /\ "call" # "delta"
  OBVIOUS
<1>. QED BY <1>2, <1>3, <1>4, <1>5 DEF s

\* A call is done before the next one is added.
Apart(es) ==
    \A i, j \in 1 .. MaxCalls : \A a \in Where(es, "call", i), b \in Where(es, "call", j) :
        a < b => \E d \in Where(es, "done", i) : d < b

LEMMA ApartAppend ==
    ASSUME NEW es \in Seq(Events), NEW e \in Events, Apart(es),
           e.type # "call" \/
              \A i \in 1 .. MaxCalls : Where(es, "call", i) # {} => Where(es, "done", i) # {}
    PROVE  Apart(Append(es, e))
<1> DEFINE n == Len(es)
           s == Append(es, e)
<1>1. n \in Nat
  OBVIOUS
<1>2. ASSUME NEW t, NEW i
      PROVE  /\ Where(es, t, i) \subseteq 1 .. n
             /\ e.type = t /\ e.call = i => Where(s, t, i) = Where(es, t, i) \cup {n + 1}
             /\ ~(e.type = t /\ e.call = i) => Where(s, t, i) = Where(es, t, i)
  <2>1. Where(es, t, i) \subseteq 1 .. n
    BY WhereAppend
  <2>2. e.type = t /\ e.call = i => Where(s, t, i) = Where(es, t, i) \cup {n + 1}
    BY WhereAppend
  <2>3. ~(e.type = t /\ e.call = i) => Where(s, t, i) = Where(es, t, i)
    BY WhereAppend
  <2>. QED BY <2>1, <2>2, <2>3
<1> HIDE DEF n, s
<1>3. ASSUME NEW t, NEW i, NEW k \in Where(s, t, i)
      PROVE  \/ k \in Where(es, t, i) /\ k \in 1 .. n
             \/ k = n + 1 /\ e.type = t /\ e.call = i
  BY <1>2, <1>3
<1>4. ASSUME NEW t, NEW i PROVE Where(es, t, i) \subseteq Where(s, t, i)
  BY <1>2
<1>5. ASSUME NEW i \in 1 .. MaxCalls, NEW j \in 1 .. MaxCalls,
             NEW a \in Where(s, "call", i), NEW b \in Where(s, "call", j), a < b
      PROVE  \E d \in Where(s, "done", i) : d < b
  <2>1. a \in Where(es, "call", i) /\ a \in 1 .. n
    <3>1. b \in 1 .. n \/ b = n + 1
      BY <1>3
    <3>2. a # n + 1
      BY <1>1, <1>5, <3>1
    <3>. QED BY <1>3, <3>2
  <2>2. CASE b \in Where(es, "call", j)
    <3>1. \E d \in Where(es, "done", i) : d < b
      BY <1>5, <2>1, <2>2 DEF Apart
    <3>. QED BY <1>4, <3>1
  <2>3. CASE b = n + 1 /\ e.type = "call"
    <3>1. PICK d \in Where(es, "done", i) : TRUE
      <4>1. Where(es, "done", i) # {}
        BY <2>1, <2>3
      <4>. QED BY <4>1
    <3>2. d \in 1 .. n
      BY <1>2
    <3>. QED BY <1>1, <1>4, <2>3, <3>1, <3>2
  <2>. QED BY <1>3, <2>2, <2>3
<1>6. Apart(s)
  BY <1>5 DEF Apart
<1>. QED BY <1>6 DEF s

Completed(es) == \E k \in DOMAIN es : es[k].type = "completed"
CompletedLast(es) == \A k \in DOMAIN es : es[k].type = "completed" => k = Len(es)

LEMMA CompletedAppend ==
    ASSUME NEW es \in Seq(Events), NEW e \in Events
    PROVE  /\ Completed(Append(es, e)) <=> Completed(es) \/ e.type = "completed"
           /\ ~Completed(es) => CompletedLast(Append(es, e))
<1> DEFINE n == Len(es)
           s == Append(es, e)
<1>1. /\ n \in Nat /\ DOMAIN es = 1 .. n /\ DOMAIN s = 1 .. n + 1 /\ Len(s) = n + 1
      /\ s[n + 1] = e /\ \A k \in 1 .. n : s[k] = es[k]
  OBVIOUS
<1>2. \A k : k \in 1 .. n + 1 <=> k \in 1 .. n \/ k = n + 1
  BY <1>1
<1> HIDE DEF n, s
<1>3. Completed(s) <=> Completed(es) \/ e.type = "completed"
  BY <1>1, <1>2 DEF Completed
<1>4. ~Completed(es) => CompletedLast(s)
  BY <1>1, <1>2 DEF Completed, CompletedLast
<1>. QED BY <1>3, <1>4 DEF s

SamePieces(es, cs) ==
    /\ Direct!Pieces(es, "text", 0) = Direct!Pieces(cs, "text", 0)
    /\ \A i \in 1 .. MaxCalls : Direct!Pieces(es, "delta", i) = Direct!Pieces(cs, "delta", i)
Buffered(cs, b) == \A i \in 1 .. MaxCalls : Direct!Pieces(cs, "delta", i) = Buffer(b, i)

\* Appending to one that is not of the kind changes nothing.
LEMMA PiecesOther ==
    ASSUME NEW s \in Seq(Events), NEW e \in Events, NEW t, NEW i, e.type # t \/ e.call # i
    PROVE  Direct!Pieces(Append(s, e), t, i) = Direct!Pieces(s, t, i)
<1>1. Direct!Pieces(Append(s, e), t, i) = Direct!Pieces(s, t, i) \o Bits(e, t, i)
      /\ Direct!Pieces(s, t, i) \in Seq(Nat)
  BY PiecesAppend
<1>2. Bits(e, t, i) = <<>>
  BY DEF Bits
<1> DEFINE p == Direct!Pieces(s, t, i)
<1>3. p \in Seq(Nat)
  BY <1>1
<1> HIDE DEF p
<1>4. p \o <<>> = p
  BY <1>3
<1>. QED BY <1>1, <1>2, <1>4 DEF p

LEMMA SameAppend ==
    ASSUME NEW es \in Seq(Events), NEW cs \in Seq(Events), NEW e \in Events, SamePieces(es, cs)
    PROVE  /\ SamePieces(Append(es, e), Append(cs, e))
           /\ e.type \notin {"text", "delta"} =>
                SamePieces(Append(es, e), cs) /\ SamePieces(es, Append(cs, e))
<1>1. ASSUME NEW t, NEW i, Direct!Pieces(es, t, i) = Direct!Pieces(cs, t, i)
      PROVE  Direct!Pieces(Append(es, e), t, i) = Direct!Pieces(Append(cs, e), t, i)
  <2>1. Direct!Pieces(Append(es, e), t, i) = Direct!Pieces(es, t, i) \o Bits(e, t, i)
    BY PiecesAppend
  <2>2. Direct!Pieces(Append(cs, e), t, i) = Direct!Pieces(cs, t, i) \o Bits(e, t, i)
    BY PiecesAppend
  <2>. QED BY <1>1, <2>1, <2>2
<1>2. SamePieces(Append(es, e), Append(cs, e))
  BY <1>1 DEF SamePieces
<1>3. ASSUME e.type \notin {"text", "delta"}, NEW t \in {"text", "delta"}, NEW i
      PROVE  /\ Direct!Pieces(Append(es, e), t, i) = Direct!Pieces(es, t, i)
             /\ Direct!Pieces(Append(cs, e), t, i) = Direct!Pieces(cs, t, i)
  <2>1. e.type # t
    BY <1>3
  <2>. QED BY <2>1, PiecesOther
<1>4. "text" \in {"text", "delta"} /\ "delta" \in {"text", "delta"}
  OBVIOUS
<1>5. e.type \notin {"text", "delta"} =>
        SamePieces(Append(es, e), cs) /\ SamePieces(es, Append(cs, e))
  BY <1>3, <1>4 DEF SamePieces
<1>. QED BY <1>2, <1>5

LEMMA BufferedAppend ==
    ASSUME NEW cs \in Seq(Events), NEW e \in Events, NEW b, Buffered(cs, b)
    PROVE  /\ e.type # "delta" => Buffered(Append(cs, e), b)
           /\ \A b2 : e.type = "delta" /\ OnlyOf(e.call, b, b2)
                        /\ b2[e.call] = Buffer(b, e.call) \o e.pieces => Buffered(Append(cs, e), b2)
           /\ \A b2, i : i \notin DOMAIN b /\ OnlyOf(i, b, b2) /\ b2[i] = <<>> => Buffered(cs, b2)
<1>1. e.type # "delta" => Buffered(Append(cs, e), b)
  BY PiecesOther DEF Buffered
<1>2. ASSUME NEW b2, e.type = "delta", OnlyOf(e.call, b, b2),
             b2[e.call] = Buffer(b, e.call) \o e.pieces
      PROVE  Buffered(Append(cs, e), b2)
  <2>1. ASSUME NEW i \in 1 .. MaxCalls PROVE Direct!Pieces(Append(cs, e), "delta", i) = Buffer(b2, i)
    <3>1. CASE e.call = i
      <4>1. Direct!Pieces(Append(cs, e), "delta", i) = Direct!Pieces(cs, "delta", i) \o Bits(e, "delta", i)
        BY PiecesAppend
      <4>2. Bits(e, "delta", i) = e.pieces
        BY <1>2, <3>1 DEF Bits
      <4>3. Buffer(b2, i) = b2[i]
        BY <1>2, <3>1 DEF OnlyOf, Buffer
      <4>4. Direct!Pieces(cs, "delta", i) = Buffer(b, i)
        BY DEF Buffered
      <4>. QED BY <1>2, <3>1, <4>1, <4>2, <4>3, <4>4
    <3>2. CASE e.call # i
      <4>1. Buffer(b2, i) = Buffer(b, i)
        BY <1>2, <3>2 DEF OnlyOf, Buffer
      <4>2. Direct!Pieces(Append(cs, e), "delta", i) = Direct!Pieces(cs, "delta", i)
        BY <3>2, PiecesOther
      <4>. QED BY <4>1, <4>2 DEF Buffered
    <3>. QED BY <3>1, <3>2
  <2>. QED BY <2>1 DEF Buffered
<1>3. ASSUME NEW b2, NEW i, i \notin DOMAIN b, OnlyOf(i, b, b2), b2[i] = <<>> PROVE Buffered(cs, b2)
  <2>1. \A j : Buffer(b2, j) = Buffer(b, j)
    BY <1>3 DEF OnlyOf, Buffer
  <2>. QED BY <2>1 DEF Buffered
<1>. QED BY <1>1, <1>2, <1>3

DoneEvents(b, n) == [i \in 1 .. n |-> Direct!Ev("done", i, b[i])]

LEMMA FramesDone ==
    ASSUME NEW es \in Seq(Events), NEW e \in Events, NEW b, NEW done, Frames(es, b, done),
           e.type = "done", e.call \in DOMAIN b, e.call \notin done, e.pieces = b[e.call]
    PROVE  Frames(Append(es, e), b, done \cup {e.call})
  BY FramesAppend

LEMMA ConcatAppend ==
    ASSUME NEW V, NEW s \in Seq(V), NEW t \in Seq(V), NEW x \in V
    PROVE  s \o Append(t, x) = Append(s \o t, x)
  OBVIOUS

\* An OpenAI answer that ends: every call is done, in the order they were added.
LEMMA RestDone ==
    ASSUME NEW es \in Seq(Events), NEW cs \in Seq(Events), NEW n \in 0 .. MaxCalls, NEW b,
           b \in [1 .. n -> Seq(Nat)], Frames(es, b, {}), SamePieces(es, cs), ~Completed(es)
    PROVE  LET s == es \o DoneEvents(b, n) IN
           s \in Seq(Events) /\ Frames(s, b, 1 .. n) /\ SamePieces(s, cs) /\ ~Completed(s)
           /\ DoneEvents(b, n) \in Seq(Events)
<1> DEFINE d(j) == DoneEvents(b, j)
           q(j) == es \o d(j)
           Fine(j) == d(j) \in Seq(Events) /\ Frames(q(j), b, 1 .. j) /\ SamePieces(q(j), cs) /\ ~Completed(q(j))
           bad == {j \in 0 .. n : ~Fine(j)}
<1>1. n \in Nat /\ n <= MaxCalls
  BY DirectAssumption
<1>2. ASSUME NEW j \in 1 .. n
      PROVE  LET e == Direct!Ev("done", j, b[j]) IN
             e \in Events /\ e.type = "done" /\ e.call = j /\ e.pieces = b[j]
  <2>1. "done" \in EventKinds /\ j \in Nat /\ b[j] \in Seq(Nat)
    BY <1>1 DEF EventKinds
  <2>. QED BY <2>1, EventFields
<1>3. Fine(0)
  <2>1. d(0) = <<>> /\ d(0) \in Seq(Events)
    <3>1. 1 .. 0 = {}
      OBVIOUS
    <3>. QED BY <3>1 DEF DoneEvents
  <2> HIDE DEF d
  <2>2. q(0) = es /\ 1 .. 0 = {}
    BY <2>1
  <2>. QED BY <2>1, <2>2
<1>4. ASSUME NEW j \in 1 .. n, Fine(j - 1) PROVE Fine(j)
  <2> DEFINE e == Direct!Ev("done", j, b[j])
  <2>1. j - 1 \in Nat /\ j \in Nat /\ (j - 1) + 1 = j
    BY <1>1
  <2>2. e \in Events /\ e.type = "done" /\ e.call = j /\ e.pieces = b[j]
    BY <1>2
  <2>3. d(j) = Append(d(j - 1), e) /\ d(j) \in Seq(Events)
    <3>1. d(j - 1) \in Seq(Events) /\ DOMAIN d(j - 1) = 1 .. j - 1 /\ DOMAIN d(j) = 1 .. j
      BY <1>4 DEF DoneEvents
    <3>2. Len(d(j - 1)) = j - 1
      <4> HIDE DEF d
      <4>. QED BY <2>1, <3>1, LengthIs
    <3>3. ASSUME NEW k \in 1 .. j PROVE d(j)[k] = Append(d(j - 1), e)[k]
      <4>1. CASE k = j
        <5>1. d(j)[k] = e
          BY <3>3, <4>1 DEF DoneEvents
        <5> HIDE DEF d, e
        <5>. QED BY <2>1, <3>1, <3>2, <4>1, <5>1
      <4>2. CASE k # j
        <5>1. k \in 1 .. j - 1
          BY <2>1, <4>2
        <5>2. d(j)[k] = d(j - 1)[k]
          BY <5>1, <3>3 DEF DoneEvents
        <5> HIDE DEF d, e
        <5>. QED BY <2>1, <3>1, <3>2, <5>1, <5>2
      <4>. QED BY <4>1, <4>2
    <3>4. Append(d(j - 1), e) \in Seq(Events) /\ DOMAIN Append(d(j - 1), e) = 1 .. j
      <4> HIDE DEF d, e
      <4>. QED BY <2>1, <2>2, <3>1, <3>2
    <3>5. d(j) = [k \in 1 .. j |-> d(j)[k]]
      BY <3>1 DEF DoneEvents
    <3>6. Append(d(j - 1), e) = [k \in 1 .. j |-> Append(d(j - 1), e)[k]]
      <4> HIDE DEF d, e
      <4>. QED BY <3>4, SequenceIs
    <3> HIDE DEF d, e
    <3>. QED BY <3>3, <3>4, <3>5, <3>6
  <2> HIDE DEF d, e
  <2>4. q(j) = Append(q(j - 1), e) /\ q(j - 1) \in Seq(Events)
    <3>1. d(j - 1) \in Seq(Events)
      BY <1>4
    <3>. QED BY <2>2, <2>3, <3>1, ConcatAppend
  <2>5. Frames(q(j - 1), b, 1 .. j - 1) /\ SamePieces(q(j - 1), cs) /\ ~Completed(q(j - 1))
    BY <1>4
  <2> HIDE DEF q
  <2>6. e.call \in DOMAIN b /\ e.call \notin 1 .. j - 1 /\ (1 .. j - 1) \cup {e.call} = 1 .. j
    BY <1>1, <2>1, <2>2
  <2>7. Frames(q(j), b, (1 .. j - 1) \cup {e.call})
    <3>1. e.type = "done" /\ e.pieces = b[e.call]
      BY <2>2
    <3> DEFINE r == q(j - 1)
               before == 1 .. j - 1
    <3>2. r \in Seq(Events) /\ Frames(r, b, before) /\ e.call \notin before
      BY <2>4, <2>5, <2>6
    <3> HIDE DEF r, before
    <3>3. Frames(Append(r, e), b, before \cup {e.call})
      BY <2>2, <2>6, <3>1, <3>2, FramesDone
    <3>. QED BY <2>4, <3>3 DEF r, before
  <2>8. SamePieces(q(j), cs)
    BY <2>2, <2>4, <2>5, SameAppend
  <2>9. ~Completed(q(j))
    BY <2>2, <2>4, <2>5, CompletedAppend
  <2>. QED BY <2>3, <2>6, <2>7, <2>8, <2>9
<1> HIDE DEF Fine
<1>5. bad = {}
  <2> SUFFICES ASSUME bad # {} PROVE FALSE
    OBVIOUS
  <2>1. PICK j \in bad : \A k \in bad : j <= k
    <3>1. bad \in SUBSET Nat
      BY <1>1
    <3> HIDE DEF bad
    <3>. QED BY <3>1, LeastOne
  <2>2. j \in 0 .. n /\ ~Fine(j) /\ j # 0
    BY <1>3, <2>1
  <2>3. j \in 1 .. n /\ j - 1 \in 0 .. n /\ j - 1 < j
    BY <1>1, <2>2
  <2>4. j - 1 \notin bad
    <3> HIDE DEF bad
    <3>. QED BY <1>1, <2>1, <2>2, <2>3
  <2>5. Fine(j - 1)
    BY <2>3, <2>4
  <2>. QED BY <1>4, <2>2, <2>3, <2>5
<1>6. Fine(n)
  BY <1>1, <1>5
<1>7. es \o d(n) \in Seq(Events)
  <2>1. d(n) \in Seq(Events)
    BY <1>6 DEF Fine
  <2> HIDE DEF d
  <2>. QED BY <2>1
<1>. QED BY <1>6, <1>7 DEF Fine

DoneCalls(p, b, st, es) ==
    IF p = "anthropic" THEN st ELSE IF p = "gemini" \/ Completed(es) THEN DOMAIN b ELSE {}

\* What has been sent, kept and yielded of an answer fit together.
Fits(p, cs, b, st, es) ==
    /\ cs \in Seq(Events) /\ es \in Seq(Events)
    /\ \E n \in 0 .. MaxCalls : b \in [1 .. n -> Seq(Nat)]
    /\ st \subseteq DOMAIN b
    /\ SamePieces(es, cs) /\ Buffered(cs, b)
    /\ Frames(es, b, DoneCalls(p, b, st, es))
    /\ p # "openai" => Apart(es)
    /\ p = "anthropic" /\ Completed(es) => DOMAIN b \subseteq st
    /\ CompletedLast(es)

\* ... while the body is read: nothing was added to an answer that is complete.
Growing(p, cs, b, st, es) ==
    /\ p \in Direct!Providers
    /\ Fits(p, cs, b, st, es)
    /\ Completed(es) => p = "anthropic" /\ Completed(cs)

\* The buffers with one more or one longer.
WithBuffer(b, i, v, b2) == b2 = [j \in DOMAIN b \cup {i} |-> IF j = i THEN v ELSE b[j]]

LEMMA NextBuffers ==
    ASSUME NEW n \in 0 .. MaxCalls, NEW b, b \in [1 .. n -> Seq(Nat)], NEW i \in 1 .. MaxCalls,
           i > 1 => i - 1 \in 1 .. n, NEW v \in Seq(Nat),
           NEW b2, WithBuffer(b, i, v, b2)
    PROVE  /\ \E k \in 0 .. MaxCalls : b2 \in [1 .. k -> Seq(Nat)]
           /\ OnlyOf(i, b, b2) /\ b2[i] = v /\ DOMAIN b \subseteq DOMAIN b2
<1>1. n \in Nat /\ DOMAIN b = 1 .. n
  BY DirectAssumption
<1>2. \E k \in 0 .. MaxCalls : DOMAIN b \cup {i} = 1 .. k
  <2>1. CASE i \in 1 .. n
    BY <1>1, <2>1
  <2>2. CASE i \notin 1 .. n
    <3>1. i = n + 1
      BY <1>1, <2>2, DirectAssumption
    <3>2. DOMAIN b \cup {i} = 1 .. n + 1 /\ n + 1 \in 0 .. MaxCalls
      BY <1>1, <3>1, DirectAssumption
    <3>. QED BY <3>2
  <2>. QED BY <2>1, <2>2
<1>3. PICK k \in 0 .. MaxCalls : DOMAIN b \cup {i} = 1 .. k
  BY <1>2
<1>4. b2 \in [1 .. k -> Seq(Nat)]
  BY <1>1, <1>3 DEF WithBuffer
<1>5. OnlyOf(i, b, b2) /\ b2[i] = v /\ DOMAIN b \subseteq DOMAIN b2
  BY DEF OnlyOf, WithBuffer
<1>. QED BY <1>4, <1>5

SoFar(p, b, st) == IF p = "anthropic" THEN st ELSE IF p = "gemini" THEN DOMAIN b ELSE {}

\* An answer to which the adapter still adds.
Unfinished(p, cs, b, st, es) ==
    /\ p \in Direct!Providers /\ cs \in Seq(Events) /\ es \in Seq(Events)
    /\ \E n \in 0 .. MaxCalls : b \in [1 .. n -> Seq(Nat)]
    /\ st \subseteq DOMAIN b
    /\ SamePieces(es, cs) /\ Buffered(cs, b)
    /\ Frames(es, b, SoFar(p, b, st))
    /\ p # "openai" => Apart(es)
    /\ ~Completed(es)

LEMMA UnfinishedIs ==
    ASSUME NEW p, NEW cs, NEW b, NEW st, NEW es
    PROVE  /\ Growing(p, cs, b, st, es) /\ (~Completed(cs) \/ p # "anthropic") => Unfinished(p, cs, b, st, es)
           /\ Unfinished(p, cs, b, st, es) => Growing(p, cs, b, st, es)
<1>1. ~Completed(es) => DoneCalls(p, b, st, es) = SoFar(p, b, st) /\ CompletedLast(es)
  BY DEF DoneCalls, SoFar, Completed, CompletedLast
<1>. QED BY <1>1 DEF Growing, Fits, Unfinished

LEMMA AllDone ==
    ASSUME NEW es, NEW b, NEW done, Frames(es, b, done), DOMAIN b \subseteq done
    PROVE  \A i \in 1 .. MaxCalls : Where(es, "call", i) # {} => Where(es, "done", i) # {}
<1>1. ASSUME NEW i \in 1 .. MaxCalls, Where(es, "call", i) # {} PROVE Where(es, "done", i) # {}
  <2>1. Framed(es, i, i \in DOMAIN b, i \in done, Buffer(b, i))
    BY DEF Frames
  <2>2. i \in DOMAIN b
    BY <1>1, <2>1 DEF Framed
  <2>. QED BY <2>1, <2>2 DEF Framed
<1>. QED BY <1>1

LEMMA FramesOther ==
    ASSUME NEW es \in Seq(Events), NEW e \in Events, NEW b, NEW done, Frames(es, b, done),
           e.type \notin {"call", "delta", "done"}
    PROVE  Frames(Append(es, e), b, done)
  BY FramesAppend

LEMMA FramesCall ==
    ASSUME NEW es \in Seq(Events), NEW e \in Events, NEW b, NEW done, Frames(es, b, done),
           e.type = "call", e.call \notin DOMAIN b, e.call \notin done, NEW b2, OnlyOf(e.call, b, b2)
    PROVE  Frames(Append(es, e), b2, done)
  BY FramesAppend

LEMMA FramesDelta ==
    ASSUME NEW es \in Seq(Events), NEW e \in Events, NEW b, NEW done, Frames(es, b, done),
           e.type = "delta", e.call \in DOMAIN b, e.call \notin done, NEW b2, OnlyOf(e.call, b, b2)
    PROVE  Frames(Append(es, e), b2, done)
  BY FramesAppend

LEMMA AppendIn == ASSUME NEW es \in Seq(Events), NEW e \in Events PROVE Append(es, e) \in Seq(Events)
  OBVIOUS

LEMMA TextKeeps ==
    ASSUME NEW p, NEW cs, NEW b, NEW st, NEW es, Unfinished(p, cs, b, st, es),
           NEW e \in Events, e.type = "text"
    PROVE  Unfinished(p, Append(cs, e), b, st, Append(es, e))
<1> USE DEF Unfinished
<1>1. Append(cs, e) \in Seq(Events) /\ Append(es, e) \in Seq(Events)
  BY AppendIn
<1>2. SamePieces(Append(es, e), Append(cs, e))
  BY SameAppend
<1>3. Buffered(Append(cs, e), b)
  BY BufferedAppend
<1>4. Frames(Append(es, e), b, SoFar(p, b, st))
  BY FramesOther
<1>5. p # "openai" => Apart(Append(es, e))
  BY ApartAppend
<1>6. ~Completed(Append(es, e))
  BY CompletedAppend
<1>. QED BY <1>1, <1>2, <1>3, <1>4, <1>5, <1>6

LEMMA ErrorKeeps ==
    ASSUME NEW p, NEW cs, NEW b, NEW st, NEW es, Unfinished(p, cs, b, st, es),
           NEW e \in Events, e.type = "error"
    PROVE  Unfinished(p, Append(cs, e), b, st, Append(es, e)) /\ Unfinished(p, Append(cs, e), b, st, es)
<1> USE DEF Unfinished
<1>1. Append(cs, e) \in Seq(Events) /\ Append(es, e) \in Seq(Events)
  BY AppendIn
<1>2. SamePieces(Append(es, e), Append(cs, e)) /\ SamePieces(es, Append(cs, e))
  <2>1. e.type \notin {"text", "delta"}
    OBVIOUS
  <2>. QED BY <2>1, SameAppend
<1>3. Buffered(Append(cs, e), b)
  BY BufferedAppend
<1>4. Frames(Append(es, e), b, SoFar(p, b, st))
  BY FramesOther
<1>5. p # "openai" => Apart(Append(es, e))
  BY ApartAppend
<1>6. ~Completed(Append(es, e))
  BY CompletedAppend
<1>. QED BY <1>1, <1>2, <1>3, <1>4, <1>5, <1>6

LEMMA CompletionKeeps ==
    ASSUME NEW cs, NEW b, NEW st, NEW es, Unfinished("anthropic", cs, b, st, es),
           NEW e \in Events, e.type = "completed", DOMAIN b \subseteq st
    PROVE  Growing("anthropic", Append(cs, e), b, st, Append(es, e))
<1> USE DEF Unfinished
<1>1. Append(cs, e) \in Seq(Events) /\ Append(es, e) \in Seq(Events)
  BY AppendIn
<1>2. SamePieces(Append(es, e), Append(cs, e))
  BY SameAppend
<1>3. Buffered(Append(cs, e), b)
  BY BufferedAppend
<1>4. Frames(Append(es, e), b, st)
  <2>1. Frames(es, b, st)
    BY DEF SoFar
  <2>. QED BY <2>1, FramesOther
<1>5. Apart(Append(es, e))
  BY ApartAppend
<1>6. Completed(Append(cs, e)) /\ CompletedLast(Append(es, e))
  BY CompletedAppend
<1>7. DoneCalls("anthropic", b, st, Append(es, e)) = st
  BY DEF DoneCalls
<1>. QED BY <1>1, <1>2, <1>3, <1>4, <1>5, <1>6, <1>7 DEF Growing, Fits

LEMMA CallKeeps ==
    ASSUME NEW cs, NEW b, NEW st, NEW es, Unfinished("anthropic", cs, b, st, es),
           NEW e \in Events, e.type = "call", e.call \notin DOMAIN b, DOMAIN b \subseteq st,
           NEW b2, \E k \in 0 .. MaxCalls : b2 \in [1 .. k -> Seq(Nat)],
           OnlyOf(e.call, b, b2), b2[e.call] = <<>>, DOMAIN b \subseteq DOMAIN b2
    PROVE  Unfinished("anthropic", Append(cs, e), b2, st, Append(es, e))
<1> USE DEF Unfinished
<1>1. Append(cs, e) \in Seq(Events) /\ Append(es, e) \in Seq(Events)
  BY AppendIn
<1>2. SamePieces(Append(es, e), Append(cs, e))
  BY SameAppend
<1>3. Buffered(Append(cs, e), b2)
  <2>1. Buffered(cs, b2)
    BY BufferedAppend
  <2>. QED BY <2>1, BufferedAppend
<1>4. Frames(es, b, st) /\ SoFar("anthropic", b2, st) = st
  BY DEF SoFar
<1>5. Frames(Append(es, e), b2, st)
  BY <1>4, FramesCall
<1>6. Apart(Append(es, e))
  BY <1>4, AllDone, ApartAppend
<1>7. ~Completed(Append(es, e))
  BY CompletedAppend
<1>. QED BY <1>1, <1>2, <1>3, <1>4, <1>5, <1>6, <1>7

LEMMA DeltaKeeps ==
    ASSUME NEW p, NEW cs, NEW b, NEW st, NEW es, Unfinished(p, cs, b, st, es), p # "gemini",
           NEW e \in Events, e.type = "delta", e.call \in DOMAIN b, p = "anthropic" => e.call \notin st,
           NEW b2, \E k \in 0 .. MaxCalls : b2 \in [1 .. k -> Seq(Nat)],
           OnlyOf(e.call, b, b2), b2[e.call] = b[e.call] \o e.pieces, DOMAIN b \subseteq DOMAIN b2
    PROVE  Unfinished(p, Append(cs, e), b2, st, Append(es, e))
<1> USE DEF Unfinished
<1>1. Append(cs, e) \in Seq(Events) /\ Append(es, e) \in Seq(Events)
  BY AppendIn
<1>2. SamePieces(Append(es, e), Append(cs, e))
  BY SameAppend
<1>3. Buffered(Append(cs, e), b2)
  <2>1. Buffer(b, e.call) = b[e.call]
    BY DEF Buffer
  <2>. QED BY <2>1, BufferedAppend
<1>4. SoFar(p, b2, st) = SoFar(p, b, st) /\ e.call \notin SoFar(p, b, st)
  BY DEF SoFar, Direct!Providers
<1>5. Frames(Append(es, e), b2, SoFar(p, b, st))
  BY <1>4, FramesDelta
<1>6. p # "openai" => Apart(Append(es, e))
  BY ApartAppend
<1>7. ~Completed(Append(es, e))
  BY CompletedAppend
<1>. QED BY <1>1, <1>2, <1>3, <1>4, <1>5, <1>6, <1>7

LEMMA StopKeeps ==
    ASSUME NEW cs, NEW b, NEW st, NEW es, Unfinished("anthropic", cs, b, st, es),
           NEW c \in Events, c.type = "stop",
           NEW e \in Events, e.type = "done", e.call \in DOMAIN b, e.call \notin st, e.pieces = b[e.call]
    PROVE  Unfinished("anthropic", Append(cs, c), b, st \cup {e.call}, Append(es, e))
<1> USE DEF Unfinished
<1>1. Append(cs, c) \in Seq(Events) /\ Append(es, e) \in Seq(Events)
  BY AppendIn
<1>2. SamePieces(Append(es, e), Append(cs, c))
  <2>1. e.type \notin {"text", "delta"} /\ c.type \notin {"text", "delta"}
    OBVIOUS
  <2>2. SamePieces(Append(es, e), cs)
    BY <2>1, SameAppend
  <2>. QED BY <1>1, <2>1, <2>2, SameAppend
<1>3. Buffered(Append(cs, c), b)
  BY BufferedAppend
<1>4. Frames(es, b, st) /\ SoFar("anthropic", b, st \cup {e.call}) = st \cup {e.call}
  BY DEF SoFar
<1>5. Frames(Append(es, e), b, st \cup {e.call})
  BY <1>4, FramesDone
<1>6. Apart(Append(es, e))
  BY ApartAppend
<1>7. ~Completed(Append(es, e))
  BY CompletedAppend
<1>. QED BY <1>1, <1>2, <1>3, <1>4, <1>5, <1>6, <1>7

\* A call that comes with its first arguments, and whole in Gemini.
LEMMA FirstKeeps ==
    ASSUME NEW p, NEW cs, NEW b, NEW st, NEW es, Unfinished(p, cs, b, st, es), p # "anthropic",
           NEW i, i \notin DOMAIN b,
           NEW a \in Events, a.type = "call", a.call = i,
           NEW e \in Events, e.type = "delta", e.call = i,
           NEW b2, \E k \in 0 .. MaxCalls : b2 \in [1 .. k -> Seq(Nat)],
           OnlyOf(i, b, b2), b2[i] = e.pieces, DOMAIN b \subseteq DOMAIN b2
    PROVE  /\ p = "openai" => Unfinished(p, Append(cs, e), b2, st, Append(Append(es, a), e))
           /\ \A d \in Events : p = "gemini" /\ d.type = "done" /\ d.call = i /\ d.pieces = e.pieces =>
                Unfinished(p, Append(cs, e), b2, st, Append(Append(Append(es, a), e), d))
<1> USE DEF Unfinished
<1> DEFINE es1 == Append(es, a)
           es2 == Append(es1, e)
           cs2 == Append(cs, e)
           done == SoFar(p, b, st)
<1>1. cs2 \in Seq(Events) /\ es1 \in Seq(Events) /\ es2 \in Seq(Events)
  BY AppendIn
<1>2. a.type \notin {"text", "delta"}
  OBVIOUS
<1>3. SamePieces(es1, cs)
  BY <1>2, SameAppend
<1>4. SamePieces(es2, cs2)
  <2> HIDE DEF es1
  <2>. QED BY <1>1, <1>3, SameAppend
<1>5. Buffered(cs2, b2)
  <2>1. Buffer(b, i) = <<>> /\ e.pieces \in Seq(Nat)
    BY DEF Buffer, Events
  <2>2. b2[i] = <<>> \o e.pieces
    BY <2>1
  <2>. QED BY <2>1, <2>2, BufferedAppend
<1>6. done \subseteq DOMAIN b /\ i \notin done /\ Frames(es, b, done)
      /\ (p = "openai" => done = {}) /\ (p = "gemini" => done = DOMAIN b)
  BY DEF SoFar, Direct!Providers
<1> HIDE DEF done
<1>7. Frames(es1, b2, done)
  BY <1>6, FramesCall
<1>8. Frames(es2, b2, done)
  <2>1. i \in DOMAIN b2 /\ OnlyOf(i, b2, b2)
    BY DEF OnlyOf
  <2> HIDE DEF es1
  <2>. QED BY <1>1, <1>6, <1>7, <2>1, FramesDelta
<1>9. ~Completed(es2)
  <2>1. ~Completed(es1)
    BY CompletedAppend
  <2> HIDE DEF es1
  <2>. QED BY <1>1, <2>1, CompletedAppend
<1>10. st \subseteq DOMAIN b2
  OBVIOUS
<1> HIDE DEF es1, es2, cs2
<1>11. p = "openai" => Unfinished(p, cs2, b2, st, es2)
  <2>1. p = "openai" => SoFar(p, b2, st) = {}
    BY DEF SoFar
  <2>. QED BY <1>1, <1>4, <1>5, <1>6, <1>8, <1>9, <1>10, <2>1
<1>12. ASSUME NEW d \in Events, p = "gemini", d.type = "done", d.call = i, d.pieces = e.pieces
       PROVE  Unfinished(p, cs2, b2, st, Append(es2, d))
  <2>1. Append(es2, d) \in Seq(Events)
    BY <1>1, AppendIn
  <2>2. SamePieces(Append(es2, d), cs2)
    <3>1. d.type \notin {"text", "delta"}
      BY <1>12
    <3>. QED BY <1>1, <1>4, <3>1, SameAppend
  <2>3. Frames(Append(es2, d), b2, done \cup {i})
    <3>1. i \in DOMAIN b2 /\ d.pieces = b2[i]
      BY <1>12 DEF OnlyOf
    <3>. QED BY <1>1, <1>6, <1>8, <1>12, <3>1, FramesDone
  <2>4. SoFar(p, b2, st) = done \cup {i}
    BY <1>6, <1>12 DEF SoFar, OnlyOf
  <2>5. Apart(Append(es2, d))
    <3>1. Apart(es)
      BY <1>12
    <3>2. Apart(es1)
      BY <1>6, <1>12, <3>1, AllDone, ApartAppend DEF es1
    <3>3. Apart(es2)
      BY <1>1, <3>2, ApartAppend DEF es2
    <3>. QED BY <1>1, <1>12, <3>3, ApartAppend
  <2>6. ~Completed(Append(es2, d))
    BY <1>1, <1>9, <1>12, CompletedAppend
  <2>. QED BY <1>1, <1>5, <1>10, <2>1, <2>2, <2>3, <2>4, <2>5, <2>6
<1>. QED BY <1>11, <1>12 DEF es1, es2, cs2

LEMMA MarkFields ==
    ASSUME NEW t \in EventKinds, NEW i \in Nat
    PROVE  /\ Direct!Ev(t, i, <<>>) \in Events /\ Direct!Ev(t, i, <<>>).type = t
           /\ Direct!Ev(t, i, <<>>).call = i /\ Direct!Ev(t, i, <<>>).pieces = <<>>
<1> DEFINE p == <<>>
<1>1. p \in Seq(Nat)
  OBVIOUS
<1> HIDE DEF p
<1>2. /\ Direct!Ev(t, i, p) \in Events /\ Direct!Ev(t, i, p).type = t
      /\ Direct!Ev(t, i, p).call = i /\ Direct!Ev(t, i, p).pieces = p
  BY <1>1, EventFields
<1>. QED BY <1>2 DEF p

DirectAsk == [provider : Direct!Providers, streaming : BOOLEAN,
              at : {"idle", "fetching", "body", "ended"}, gone : BOOLEAN]
Outcomes == {"success", "error", "aborted"}
Errors(es) == \E k \in DOMAIN es : es[k].type = "error"

\* The one entry of a request that has ended; a collected answer without an error succeeds.
Recorded(a, es, entries) ==
    \E o \in Outcomes : entries = <<o>> /\ (o = "success" /\ ~a.streaming => ~Errors(es))

DirectHeld ==
    /\ x1 \in DirectAsk /\ Len(x2) <= MaxChunks
    /\ Fits(x1.provider, x2, x3, x4, x5)
    /\ x1.at # "ended" => Growing(x1.provider, x2, x3, x4, x5) /\ x6 = <<>>
    /\ x1.at = "ended" => Recorded(x1, x5, x6)

LEMMA DirectStart == Direct!Init => DirectHeld
<1> SUFFICES ASSUME Direct!Init PROVE DirectHeld
  OBVIOUS
<1>1. /\ x1 \in DirectAsk /\ x1.at = "idle" /\ x2 = <<>> /\ x4 = {} /\ x5 = <<>> /\ x6 = <<>>
      /\ x3 = [i \in {} |-> <<>>]
  BY Zenon DEF Direct!Init, DirectAsk
<1>2. 1 .. 0 = {} /\ 0 \in 0 .. MaxCalls /\ x3 \in [1 .. 0 -> Seq(Nat)] /\ DOMAIN x3 = {}
  BY <1>1, DirectAssumption
<1>3. \A t, i : Where(<<>>, t, i) = {}
  BY DEF Where
<1>4. Frames(<<>>, x3, {})
  BY <1>2, <1>3 DEF Frames, Framed
<1>5. Apart(<<>>) /\ ~Completed(<<>>)
  BY <1>3 DEF Apart, Completed
<1>6. <<>> \in Seq(Events) /\ SamePieces(<<>>, <<>>)
  BY DEF SamePieces
<1>7. Buffered(<<>>, x3)
  <2>1. Direct!Ev("text", 0, <<>>) \in Events
    <3>1. "text" \in EventKinds /\ 0 \in Nat
      BY DEF EventKinds
    <3>. QED BY <3>1, MarkFields
  <2>2. \A i : Direct!Pieces(<<>>, "delta", i) = <<>>
    BY <1>6, <2>1, PiecesAppend
  <2>. QED BY <1>2, <2>2 DEF Buffered, Buffer
<1>8. SoFar(x1.provider, x3, x4) = {} /\ x1.provider \in Direct!Providers
  BY <1>1, <1>2 DEF SoFar, DirectAsk
<1>9. Unfinished(x1.provider, x2, x3, x4, x5)
  <2>1. \E n \in 0 .. MaxCalls : x3 \in [1 .. n -> Seq(Nat)]
    BY <1>2
  <2>. QED BY <1>1, <1>4, <1>5, <1>6, <1>7, <1>8, <2>1 DEF Unfinished
<1>10. Growing(x1.provider, x2, x3, x4, x5)
  BY <1>9, UnfinishedIs
<1>11. Len(x2) <= MaxChunks
  BY <1>1, DirectAssumption
<1>. QED BY <1>1, <1>10, <1>11 DEF DirectHeld, Growing

\* What a chunk finds and what is left to show of it.
LEMMA ChunkFinds ==
    ASSUME DirectHeld, NEW p, Direct!MayChunk(p)
    PROVE  /\ x1.at = "body" /\ x1.provider = p /\ Len(x2) < MaxChunks /\ Len(x2) \in Nat
           /\ Unfinished(p, x2, x3, x4, x5) /\ ~Completed(x2)
           /\ x2 \in Seq(Events) /\ x5 \in Seq(Events) /\ Direct!Piece \in Seq(Nat)
<1>1. x1.at = "body" /\ x1.provider = p /\ Len(x2) < MaxChunks /\ ~Completed(x2)
  BY DEF Direct!MayChunk, Direct!Open, Completed
<1>2. Growing(p, x2, x3, x4, x5)
  BY <1>1 DEF DirectHeld
<1>3. Unfinished(p, x2, x3, x4, x5)
  BY <1>1, <1>2, UnfinishedIs
<1>4. x2 \in Seq(Events) /\ x5 \in Seq(Events)
  BY <1>3 DEF Unfinished
<1>5. Len(x2) \in Nat
  BY <1>4
<1>6. Direct!Piece \in Seq(Nat)
  BY <1>5 DEF Direct!Piece
<1>. QED BY <1>1, <1>3, <1>4, <1>5, <1>6

LEMMA ChunkLeaves ==
    ASSUME DirectHeld, x1.at = "body", x1' = x1, x6' = x6, Len(x2) < MaxChunks,
           NEW c \in Events, x2' = Append(x2, c), x2 \in Seq(Events),
           Growing(x1.provider, x2', x3', x4', x5')
    PROVE  DirectHeld'
<1>1. Len(x2') <= MaxChunks
  <2>1. Len(x2') = Len(x2) + 1 /\ Len(x2) \in Nat
    OBVIOUS
  <2>. QED BY <2>1, DirectAssumption
<1>2. x6 = <<>>
  BY DEF DirectHeld
<1>. QED BY <1>1, <1>2 DEF DirectHeld, Growing

LEMMA OneMore == ASSUME NEW V, NEW s \in Seq(V), NEW a \in V PROVE s \o <<a>> = Append(s, a)
  OBVIOUS

Two(a, b) == <<a>> \o <<b>>

LEMMA TwoMore ==
    ASSUME NEW V, NEW s \in Seq(V), NEW a \in V, NEW b \in V
    PROVE  s \o Two(a, b) = Append(Append(s, a), b) /\ s \o (<<>> \o <<b>>) = Append(s, b)
<1>1. <<a>> \o <<b>> = Append(<<a>>, b) /\ <<a>> \in Seq(V) /\ <<>> \o <<b>> = <<b>>
  OBVIOUS
<1>2. s \o Append(<<a>>, b) = Append(s \o <<a>>, b)
  BY <1>1, ConcatAppend
<1>. QED BY <1>1, <1>2, OneMore DEF Two

LEMMA ThreeMore ==
    ASSUME NEW V, NEW s \in Seq(V), NEW a \in V, NEW b \in V, NEW c \in V
    PROVE  s \o <<a, b, c>> = Append(Append(Append(s, a), b), c)
<1>1. <<a, b, c>> = Append(<<a, b>>, c) /\ <<a, b>> \in Seq(V) /\ <<a>> \in Seq(V) /\ <<a, b>> = Append(<<a>>, b)
  OBVIOUS
<1>2. s \o Append(<<a, b>>, c) = Append(s \o <<a, b>>, c)
  BY <1>1, ConcatAppend
<1>3. s \o Append(<<a>>, b) = Append(s \o <<a>>, b)
  BY <1>1, ConcatAppend
<1>. QED BY <1>1, <1>2, <1>3, OneMore

LEMMA TextStep == ASSUME DirectHeld, Direct!TextChunk PROVE DirectHeld'
<1>1. PICK p \in Direct!Providers : Direct!MayChunk(p)
  BY DEF Direct!TextChunk
<1> DEFINE e == Direct!Ev("text", 0, Direct!Piece)
<1>2. e \in Events /\ e.type = "text"
  <2>1. "text" \in EventKinds /\ 0 \in Nat
    BY DEF EventKinds
  <2>. QED BY <1>1, <2>1, ChunkFinds, EventFields
<1>3. x2' = Append(x2, e) /\ x5' = x5 \o <<e>> /\ x1' = x1 /\ x3' = x3 /\ x4' = x4 /\ x6' = x6
  BY DEF Direct!TextChunk, Direct!Yield
<1> HIDE DEF e
<1>4. x5' = Append(x5, e)
  BY <1>1, <1>2, <1>3, ChunkFinds, OneMore
<1>5. Growing(x1.provider, x2', x3', x4', x5')
  BY <1>1, <1>2, <1>3, <1>4, ChunkFinds, TextKeeps, UnfinishedIs
<1>. QED BY <1>1, <1>2, <1>3, <1>5, ChunkFinds, ChunkLeaves

LEMMA ErrorStep == ASSUME DirectHeld, Direct!ErrorChunk PROVE DirectHeld'
<1>1. PICK p \in Direct!Providers : Direct!MayChunk(p)
  BY DEF Direct!ErrorChunk
<1> DEFINE e == Direct!Ev("error", 0, <<>>)
<1>2. e \in Events /\ e.type = "error"
  <2>1. "error" \in EventKinds /\ 0 \in Nat
    BY DEF EventKinds
  <2>. QED BY <2>1, MarkFields
<1>3. x2' = Append(x2, e) /\ (x5' = x5 \o <<e>> \/ x5' = x5 \o <<>>) /\ x1' = x1 /\ x3' = x3 /\ x4' = x4 /\ x6' = x6
  BY DEF Direct!ErrorChunk, Direct!Yield
<1> HIDE DEF e
<1>4. x5' = Append(x5, e) \/ x5' = x5
  <2>1. x5 \in Seq(Events)
    BY <1>1, ChunkFinds
  <2>2. x5 \o <<>> = x5
    BY <2>1
  <2>. QED BY <1>2, <1>3, <2>1, <2>2, OneMore
<1>5. Growing(x1.provider, x2', x3', x4', x5')
  BY <1>1, <1>2, <1>3, <1>4, ChunkFinds, ErrorKeeps, UnfinishedIs
<1>. QED BY <1>1, <1>2, <1>3, <1>5, ChunkFinds, ChunkLeaves

LEMMA CompletionStep == ASSUME DirectHeld, Direct!MessageStop PROVE DirectHeld'
<1>1. Direct!MayChunk("anthropic") /\ DOMAIN x3 \subseteq x4
  BY DEF Direct!MessageStop, Direct!Added
<1> DEFINE e == Direct!Ev("completed", 0, <<>>)
<1>2. e \in Events /\ e.type = "completed"
  <2>1. "completed" \in EventKinds /\ 0 \in Nat
    BY DEF EventKinds
  <2>. QED BY <2>1, MarkFields
<1>3. x2' = Append(x2, e) /\ x5' = x5 \o <<e>> /\ x1' = x1 /\ x3' = x3 /\ x4' = x4 /\ x6' = x6
  BY DEF Direct!MessageStop, Direct!Yield
<1> HIDE DEF e
<1>4. x5' = Append(x5, e)
  BY <1>1, <1>2, <1>3, ChunkFinds, OneMore
<1>5. Growing(x1.provider, x2', x3', x4', x5')
  BY <1>1, <1>2, <1>3, <1>4, ChunkFinds, CompletionKeeps
<1>. QED BY <1>1, <1>2, <1>3, <1>5, ChunkFinds, ChunkLeaves

\* The calls of an answer are numbered from 1 on.
LEMMA BuffersTyped ==
    ASSUME NEW p, NEW cs, NEW b, NEW st, NEW es, Unfinished(p, cs, b, st, es)
    PROVE  \E n \in 0 .. MaxCalls : b \in [1 .. n -> Seq(Nat)] /\ DOMAIN b = 1 .. n
  BY DEF Unfinished

LEMMA MoreBuffers ==
    ASSUME NEW p, NEW cs, NEW b, NEW st, NEW es, Unfinished(p, cs, b, st, es),
           NEW i \in 1 .. MaxCalls, i > 1 => i - 1 \in DOMAIN b, NEW v \in Seq(Nat),
           NEW b2, WithBuffer(b, i, v, b2)
    PROVE  /\ \E k \in 0 .. MaxCalls : b2 \in [1 .. k -> Seq(Nat)]
           /\ OnlyOf(i, b, b2) /\ b2[i] = v /\ DOMAIN b \subseteq DOMAIN b2
<1>1. PICK n \in 0 .. MaxCalls : b \in [1 .. n -> Seq(Nat)] /\ DOMAIN b = 1 .. n
  BY BuffersTyped
<1>2. i > 1 => i - 1 \in 1 .. n
  BY <1>1
<1>. QED BY <1>1, <1>2, NextBuffers

LEMMA CallEvents ==
    ASSUME NEW i \in 1 .. MaxCalls, NEW v \in Seq(Nat), NEW t \in {"delta", "done"},
           NEW u \in {"call", "stop"}
    PROVE  /\ i \in Nat
           /\ Direct!Ev(t, i, v) \in Events /\ Direct!Ev(t, i, v).type = t
           /\ Direct!Ev(t, i, v).call = i /\ Direct!Ev(t, i, v).pieces = v
           /\ Direct!Ev(u, i, <<>>) \in Events /\ Direct!Ev(u, i, <<>>).type = u
           /\ Direct!Ev(u, i, <<>>).call = i
<1>1. t \in EventKinds /\ u \in EventKinds /\ i \in Nat
  BY DirectAssumption DEF EventKinds
<1>. QED BY <1>1, EventFields, MarkFields

LEMMA BlockStartStep == ASSUME DirectHeld, Direct!AnthropicBlockStart PROVE DirectHeld'
<1>1. PICK i \in 1 .. MaxCalls :
        /\ i \notin DOMAIN x3 /\ (i > 1 => i - 1 \in DOMAIN x3)
        /\ Direct!Yield(Direct!Ev("call", i, <<>>), <<Direct!Ev("call", i, <<>>)>>)
        /\ x3' = [j \in DOMAIN x3 \cup {i} |-> IF j = i THEN <<>> ELSE x3[j]]
  BY DEF Direct!AnthropicBlockStart, Direct!Calls, Direct!Added
<1>2. Direct!MayChunk("anthropic") /\ DOMAIN x3 \subseteq x4 /\ x1' = x1 /\ x4' = x4 /\ x6' = x6
  BY DEF Direct!AnthropicBlockStart, Direct!Added
<1>3. x1.at = "body" /\ x1.provider = "anthropic" /\ Len(x2) < MaxChunks
      /\ Unfinished("anthropic", x2, x3, x4, x5) /\ x2 \in Seq(Events) /\ x5 \in Seq(Events)
  BY <1>2, ChunkFinds
<1> DEFINE e == Direct!Ev("call", i, <<>>)
           none == <<>>
<1>4. none \in Seq(Nat)
  OBVIOUS
<1>5. e \in Events /\ e.type = "call" /\ e.call = i
  <2>1. "call" \in EventKinds /\ i \in Nat
    BY DirectAssumption DEF EventKinds
  <2>. QED BY <2>1, MarkFields
<1>6. x2' = Append(x2, e) /\ x5' = x5 \o <<e>> /\ WithBuffer(x3, i, none, x3')
  BY <1>1 DEF Direct!Yield, WithBuffer
<1> HIDE DEF e, none
<1>7. x5' = Append(x5, e)
  BY <1>3, <1>5, <1>6, OneMore
<1>8. /\ \E k \in 0 .. MaxCalls : x3' \in [1 .. k -> Seq(Nat)]
      /\ OnlyOf(i, x3, x3') /\ x3'[i] = none /\ DOMAIN x3 \subseteq DOMAIN x3'
  <2>1. i \in 1 .. MaxCalls /\ (i > 1 => i - 1 \in DOMAIN x3)
    BY <1>1
  <2>2. Unfinished("anthropic", x2, x3, x4, x5) /\ WithBuffer(x3, i, none, x3')
    BY <1>3, <1>6
  <2>. QED BY <1>4, <2>1, <2>2, MoreBuffers
<1>9. x3'[i] = <<>>
  BY <1>8 DEF none
<1>10. Unfinished("anthropic", Append(x2, e), x3', x4, Append(x5, e))
  BY <1>1, <1>2, <1>3, <1>5, <1>8, <1>9, CallKeeps
<1>11. Growing(x1.provider, x2', x3', x4', x5')
  BY <1>2, <1>3, <1>6, <1>7, <1>10, UnfinishedIs
<1>. QED BY <1>2, <1>3, <1>5, <1>6, <1>11, ChunkLeaves

LEMMA BlockDeltaStep == ASSUME DirectHeld, Direct!AnthropicBlockDelta PROVE DirectHeld'
<1>1. PICK i \in DOMAIN x3 \ x4 :
        /\ Direct!Yield(Direct!Ev("delta", i, Direct!Piece), <<Direct!Ev("delta", i, Direct!Piece)>>)
        /\ x3' = [x3 EXCEPT ![i] = @ \o Direct!Piece]
  BY DEF Direct!AnthropicBlockDelta, Direct!Added
<1>2. Direct!MayChunk("anthropic") /\ x1' = x1 /\ x4' = x4 /\ x6' = x6
  BY DEF Direct!AnthropicBlockDelta
<1>3. x1.at = "body" /\ x1.provider = "anthropic" /\ Len(x2) < MaxChunks /\ Direct!Piece \in Seq(Nat)
      /\ Unfinished("anthropic", x2, x3, x4, x5) /\ x2 \in Seq(Events) /\ x5 \in Seq(Events)
  BY <1>2, ChunkFinds
<1>4. PICK n \in 0 .. MaxCalls : x3 \in [1 .. n -> Seq(Nat)] /\ DOMAIN x3 = 1 .. n
  BY <1>3, BuffersTyped
<1>5. i \in 1 .. MaxCalls
  BY <1>1, <1>4, DirectAssumption
<1> DEFINE e == Direct!Ev("delta", i, Direct!Piece)
<1>6. e \in Events /\ e.type = "delta" /\ e.call = i /\ e.pieces = Direct!Piece
  <2>1. "delta" \in EventKinds /\ i \in Nat
    BY <1>5, DirectAssumption DEF EventKinds
  <2>. QED BY <1>3, <2>1, EventFields
<1>7. x2' = Append(x2, e) /\ x5' = x5 \o <<e>>
  BY <1>1 DEF Direct!Yield
<1> HIDE DEF e
<1>8. x5' = Append(x5, e)
  BY <1>3, <1>6, <1>7, OneMore
<1>9. /\ x3' \in [1 .. n -> Seq(Nat)] /\ OnlyOf(i, x3, x3') /\ x3'[i] = x3[i] \o Direct!Piece
      /\ DOMAIN x3 \subseteq DOMAIN x3'
  <2>1. x3[i] \o Direct!Piece \in Seq(Nat)
    <3>1. x3[i] \in Seq(Nat)
      BY <1>1, <1>4
    <3>. QED BY <1>3, <3>1
  <2>. QED BY <1>1, <1>4, <2>1 DEF OnlyOf
<1>10. Unfinished("anthropic", Append(x2, e), x3', x4, Append(x5, e))
  BY <1>1, <1>3, <1>6, <1>9, DeltaKeeps
<1>11. Growing(x1.provider, x2', x3', x4', x5')
  BY <1>2, <1>3, <1>7, <1>8, <1>10, UnfinishedIs
<1>. QED BY <1>2, <1>3, <1>6, <1>7, <1>11, ChunkLeaves

LEMMA BlockStopStep == ASSUME DirectHeld, Direct!AnthropicBlockStop PROVE DirectHeld'
<1>1. PICK i \in DOMAIN x3 \ x4 :
        /\ Direct!Yield(Direct!Ev("stop", i, <<>>), <<Direct!Ev("done", i, x3[i])>>)
        /\ x4' = x4 \cup {i}
  BY DEF Direct!AnthropicBlockStop, Direct!Added
<1>2. Direct!MayChunk("anthropic") /\ x1' = x1 /\ x3' = x3 /\ x6' = x6
  BY DEF Direct!AnthropicBlockStop
<1>3. x1.at = "body" /\ x1.provider = "anthropic" /\ Len(x2) < MaxChunks
      /\ Unfinished("anthropic", x2, x3, x4, x5) /\ x2 \in Seq(Events) /\ x5 \in Seq(Events)
  BY <1>2, ChunkFinds
<1>4. PICK n \in 0 .. MaxCalls : x3 \in [1 .. n -> Seq(Nat)] /\ DOMAIN x3 = 1 .. n
  BY <1>3, BuffersTyped
<1>5. i \in 1 .. MaxCalls /\ i \in Nat /\ x3[i] \in Seq(Nat)
  BY <1>1, <1>4, DirectAssumption
<1> DEFINE e == Direct!Ev("done", i, x3[i])
           c == Direct!Ev("stop", i, <<>>)
<1>6. e \in Events /\ e.type = "done" /\ e.call = i /\ e.pieces = x3[i]
  <2>1. "done" \in EventKinds
    BY DEF EventKinds
  <2>. QED BY <1>5, <2>1, EventFields
<1>7. c \in Events /\ c.type = "stop"
  <2>1. "stop" \in EventKinds
    BY DEF EventKinds
  <2>. QED BY <1>5, <2>1, MarkFields
<1>8. x2' = Append(x2, c) /\ x5' = x5 \o <<e>>
  BY <1>1 DEF Direct!Yield
<1> HIDE DEF e, c
<1>9. x5' = Append(x5, e)
  BY <1>3, <1>6, <1>8, OneMore
<1>10. Unfinished("anthropic", Append(x2, c), x3, x4 \cup {e.call}, Append(x5, e))
  BY <1>1, <1>3, <1>6, <1>7, StopKeeps
<1>11. Growing(x1.provider, x2', x3', x4', x5')
  BY <1>1, <1>2, <1>3, <1>6, <1>8, <1>9, <1>10, UnfinishedIs
<1>. QED BY <1>2, <1>3, <1>7, <1>8, <1>11, ChunkLeaves

LEMMA GeminiStep == ASSUME DirectHeld, Direct!GeminiCallChunk PROVE DirectHeld'
<1>1. PICK i \in 1 .. MaxCalls :
        /\ i \notin DOMAIN x3 /\ (i > 1 => i - 1 \in DOMAIN x3)
        /\ Direct!Yield(Direct!Ev("delta", i, Direct!Piece),
                        <<Direct!Ev("call", i, <<>>), Direct!Ev("delta", i, Direct!Piece),
                          Direct!Ev("done", i, Direct!Piece)>>)
        /\ x3' = [j \in DOMAIN x3 \cup {i} |-> IF j = i THEN Direct!Piece ELSE x3[j]]
  BY DEF Direct!GeminiCallChunk, Direct!Calls, Direct!Added
<1>2. Direct!MayChunk("gemini") /\ x1' = x1 /\ x4' = x4 /\ x6' = x6
  BY DEF Direct!GeminiCallChunk
<1>3. x1.at = "body" /\ x1.provider = "gemini" /\ Len(x2) < MaxChunks /\ Direct!Piece \in Seq(Nat)
      /\ Unfinished("gemini", x2, x3, x4, x5) /\ x2 \in Seq(Events) /\ x5 \in Seq(Events)
  BY <1>2, ChunkFinds
<1> DEFINE v == Direct!Piece
           a == Direct!Ev("call", i, <<>>)
           e == Direct!Ev("delta", i, v)
           d == Direct!Ev("done", i, v)
<1>4. "call" \in EventKinds /\ "delta" \in EventKinds /\ "done" \in EventKinds /\ i \in Nat /\ v \in Seq(Nat)
  BY <1>3, DirectAssumption DEF EventKinds
<1>5. a \in Events /\ a.type = "call" /\ a.call = i
  BY <1>4, MarkFields
<1>6. e \in Events /\ e.type = "delta" /\ e.call = i /\ e.pieces = v
  BY <1>4, EventFields
<1>7. d \in Events /\ d.type = "done" /\ d.call = i /\ d.pieces = v
  BY <1>4, EventFields
<1>8. x2' = Append(x2, e) /\ x5' = x5 \o <<a, e, d>>
      /\ WithBuffer(x3, i, v, x3')
  BY <1>1 DEF Direct!Yield, WithBuffer
<1> HIDE DEF a, e, d, v
<1>9. x5' = Append(Append(Append(x5, a), e), d)
  BY <1>3, <1>5, <1>6, <1>7, <1>8, ThreeMore
<1>10. /\ \E k \in 0 .. MaxCalls : x3' \in [1 .. k -> Seq(Nat)]
       /\ OnlyOf(i, x3, x3') /\ x3'[i] = v /\ DOMAIN x3 \subseteq DOMAIN x3'
  <2>1. i \in 1 .. MaxCalls /\ (i > 1 => i - 1 \in DOMAIN x3)
    BY <1>1
  <2>2. Unfinished("gemini", x2, x3, x4, x5) /\ WithBuffer(x3, i, v, x3') /\ v \in Seq(Nat)
    BY <1>3, <1>4, <1>8
  <2>. QED BY <2>1, <2>2, MoreBuffers
<1>11. Unfinished("gemini", Append(x2, e), x3', x4, Append(Append(Append(x5, a), e), d))
  BY <1>1, <1>3, <1>5, <1>6, <1>7, <1>10, FirstKeeps
<1>12. Growing(x1.provider, x2', x3', x4', x5')
  BY <1>2, <1>3, <1>8, <1>9, <1>11, UnfinishedIs
<1>. QED BY <1>2, <1>3, <1>6, <1>8, <1>12, ChunkLeaves

LEMMA OpenAIStep == ASSUME DirectHeld, Direct!OpenAIToolChunk PROVE DirectHeld'
<1> DEFINE v == Direct!Piece
<1>1. PICK i \in 1 .. MaxCalls :
        /\ i > 1 => i - 1 \in DOMAIN x3
        /\ Direct!Yield(Direct!Ev("delta", i, v),
                        (IF i \in DOMAIN x3 THEN <<>> ELSE <<Direct!Ev("call", i, <<>>)>>)
                        \o <<Direct!Ev("delta", i, v)>>)
        /\ x3' = [j \in DOMAIN x3 \cup {i} |->
                    (IF j \in DOMAIN x3 THEN x3[j] ELSE <<>>) \o (IF j = i THEN v ELSE <<>>)]
  BY DEF Direct!OpenAIToolChunk, Direct!Calls, Direct!Added
<1>2. Direct!MayChunk("openai") /\ x1' = x1 /\ x4' = x4 /\ x6' = x6
  BY DEF Direct!OpenAIToolChunk
<1>3. x1.at = "body" /\ x1.provider = "openai" /\ Len(x2) < MaxChunks /\ v \in Seq(Nat)
      /\ Unfinished("openai", x2, x3, x4, x5) /\ x2 \in Seq(Events) /\ x5 \in Seq(Events)
  BY <1>2, ChunkFinds
<1>4. PICK n \in 0 .. MaxCalls : x3 \in [1 .. n -> Seq(Nat)] /\ DOMAIN x3 = 1 .. n
  BY <1>3, BuffersTyped
<1> DEFINE a == Direct!Ev("call", i, <<>>)
           e == Direct!Ev("delta", i, v)
           w == Buffer(x3, i) \o v
<1>5. "call" \in EventKinds /\ "delta" \in EventKinds /\ i \in Nat
  BY DirectAssumption DEF EventKinds
<1>6. a \in Events /\ a.type = "call" /\ a.call = i
  BY <1>5, MarkFields
<1>7. e \in Events /\ e.type = "delta" /\ e.call = i /\ e.pieces = v
  BY <1>3, <1>5, EventFields
<1>8. x2' = Append(x2, e) /\ (i \notin DOMAIN x3 => x5' = x5 \o Two(a, e))
      /\ (i \in DOMAIN x3 => x5' = x5 \o (<<>> \o <<e>>))
  BY <1>1 DEF Direct!Yield, Two
<1>9. w \in Seq(Nat) /\ WithBuffer(x3, i, w, x3')
  <2> HIDE DEF v
  <2>1. ASSUME NEW j \in DOMAIN x3 PROVE x3[j] \o <<>> = x3[j]
    <3>1. x3[j] \in Seq(Nat)
      BY <1>4
    <3>. QED BY <3>1
  <2>2. Buffer(x3, i) \in Seq(Nat)
    <3>1. <<>> \in Seq(Nat)
      OBVIOUS
    <3>. QED BY <1>4, <3>1 DEF Buffer
  <2>3. w \in Seq(Nat)
    BY <1>3, <2>2
  <2> DEFINE f(j) == (IF j \in DOMAIN x3 THEN x3[j] ELSE <<>>) \o (IF j = i THEN v ELSE <<>>)
             g(j) == IF j = i THEN w ELSE x3[j]
  <2>4. ASSUME NEW j \in DOMAIN x3 \cup {i} PROVE f(j) = g(j)
    <3>1. CASE j = i
      BY <3>1 DEF Buffer
    <3>2. CASE j # i
      BY <2>1, <3>2, <2>4
    <3>. QED BY <3>1, <3>2
  <2>5. x3' = [j \in DOMAIN x3 \cup {i} |-> f(j)]
    BY <1>1
  <2> HIDE DEF f, w
  <2>6. x3' = [j \in DOMAIN x3 \cup {i} |-> g(j)]
    <3> HIDE DEF g
    <3>. QED BY <2>4, <2>5
  <2>. QED BY <2>3, <2>6 DEF WithBuffer
<1> HIDE DEF a, e, v
<1>10. /\ \E k \in 0 .. MaxCalls : x3' \in [1 .. k -> Seq(Nat)]
       /\ OnlyOf(i, x3, x3') /\ x3'[i] = w /\ DOMAIN x3 \subseteq DOMAIN x3'
  <2> HIDE DEF w
  <2>1. i \in 1 .. MaxCalls /\ (i > 1 => i - 1 \in DOMAIN x3)
    BY <1>1
  <2>2. Unfinished("openai", x2, x3, x4, x5) /\ WithBuffer(x3, i, w, x3') /\ w \in Seq(Nat)
    BY <1>3, <1>9
  <2>. QED BY <2>1, <2>2, MoreBuffers
<1>11. Unfinished("openai", x2', x3', x4, x5')
  <2>1. CASE i \in DOMAIN x3
    <3>1. x5' = Append(x5, e)
      BY <1>3, <1>6, <1>7, <1>8, <2>1, TwoMore
    <3>2. x3'[i] = x3[i] \o e.pieces
      BY <1>7, <1>10, <2>1 DEF Buffer
    <3>. QED BY <1>3, <1>7, <1>8, <1>10, <2>1, <3>1, <3>2, DeltaKeeps
  <2>2. CASE i \notin DOMAIN x3
    <3>1. x5' = Append(Append(x5, a), e)
      <4>1. x5' = x5 \o Two(a, e) /\ a \in Events /\ e \in Events /\ x5 \in Seq(Events)
        BY <1>3, <1>6, <1>7, <1>8, <2>2
      <4>2. x5 \o Two(a, e) = Append(Append(x5, a), e)
        BY <4>1, TwoMore
      <4>. QED BY <4>1, <4>2
    <3>2. x3'[i] = e.pieces
      <4>1. <<>> \o v = v
        BY <1>3
      <4>. QED BY <1>7, <1>10, <2>2, <4>1 DEF Buffer
    <3>. QED BY <1>3, <1>6, <1>7, <1>8, <1>10, <2>2, <3>1, <3>2, FirstKeeps
  <2>. QED BY <2>1, <2>2
<1>12. Growing(x1.provider, x2', x3', x4', x5')
  BY <1>2, <1>3, <1>11, UnfinishedIs
<1>. QED BY <1>2, <1>3, <1>7, <1>8, <1>12, ChunkLeaves

\* The request moves on before it is answered or while the client leaves.
LEMMA WaitStep ==
    ASSUME DirectHeld, x1' \in DirectAsk, x1.at # "ended", x1'.at # "ended",
           x1'.provider = x1.provider, UNCHANGED <<x2, x3, x4, x5, x6>>
    PROVE  DirectHeld'
  BY DEF DirectHeld

LEMMA AskMoves ==
    ASSUME NEW a \in DirectAsk
    PROVE  /\ [a EXCEPT !.at = "fetching"] \in DirectAsk /\ [a EXCEPT !.at = "fetching"].at # "ended"
           /\ [a EXCEPT !.at = "body"] \in DirectAsk /\ [a EXCEPT !.at = "body"].at # "ended"
           /\ [a EXCEPT !.gone = TRUE] \in DirectAsk /\ [a EXCEPT !.gone = TRUE].at = a.at
           /\ [a EXCEPT !.at = "ended"] \in DirectAsk /\ [a EXCEPT !.at = "ended"].at = "ended"
           /\ [a EXCEPT !.at = "fetching"].provider = a.provider
           /\ [a EXCEPT !.at = "body"].provider = a.provider
           /\ [a EXCEPT !.gone = TRUE].provider = a.provider
           /\ [a EXCEPT !.at = "ended"].provider = a.provider
           /\ [a EXCEPT !.at = "ended"].streaming = a.streaming
  BY DEF DirectAsk

LEMMA RecordLeaves ==
    ASSUME DirectHeld, x1.at # "ended", NEW o \in Outcomes, Direct!Record(o),
           x2' = x2, x3' = x3, x4' = x4, Fits(x1.provider, x2, x3, x4, x5'),
           o = "success" /\ ~x1.streaming => ~Errors(x5')
    PROVE  DirectHeld'
<1>1. x1 \in DirectAsk /\ x6 = <<>> /\ Len(x2) <= MaxChunks
  BY DEF DirectHeld
<1>2. x1' = [x1 EXCEPT !.at = "ended"] /\ x6' = <<o>>
  BY <1>1 DEF Direct!Record
<1>3. x1' \in DirectAsk /\ x1'.at = "ended" /\ x1'.provider = x1.provider /\ x1'.streaming = x1.streaming
  BY <1>1, <1>2, AskMoves
<1>4. Recorded(x1', x5', x6')
  BY <1>2, <1>3 DEF Recorded
<1>. QED BY <1>1, <1>3, <1>4 DEF DirectHeld

\* What an adapter adds at the end of the body completes the answer.
LEMMA RestFits ==
    ASSUME DirectHeld, x1.at # "ended", x5' = x5 \o Direct!Rest
    PROVE  Fits(x1.provider, x2, x3, x4, x5')
<1> DEFINE p == x1.provider
           e == Direct!Ev("completed", 0, <<>>)
<1>1. Growing(p, x2, x3, x4, x5) /\ p \in Direct!Providers
  BY DEF DirectHeld, Growing
<1>2. x2 \in Seq(Events) /\ x5 \in Seq(Events)
  BY <1>1 DEF Growing, Fits
<1>3. e \in Events /\ e.type = "completed"
  <2>1. "completed" \in EventKinds /\ 0 \in Nat
    BY DEF EventKinds
  <2>. QED BY <2>1, MarkFields
<1>4. CASE p = "anthropic"
  <2>1. x5' = x5 \o <<>>
    BY <1>4 DEF Direct!Rest
  <2>2. x5 \o <<>> = x5
    BY <1>2
  <2>. QED BY <1>1, <2>1, <2>2 DEF Growing
<1>5. ASSUME p # "anthropic", NEW es \in Seq(Events), x5' = Append(es, e), ~Completed(es),
             SamePieces(es, x2), Frames(es, x3, DOMAIN x3), p # "openai" => Apart(es)
      PROVE  Fits(p, x2, x3, x4, x5')
  <2> HIDE DEF e
  <2>1. x5' \in Seq(Events)
    BY <1>3, <1>5, AppendIn
  <2>2. SamePieces(x5', x2)
    <3>1. e.type \notin {"text", "delta"}
      BY <1>3
    <3>. QED BY <1>2, <1>3, <1>5, <3>1, SameAppend
  <2>3. Frames(x5', x3, DOMAIN x3)
    <3>1. e.type \notin {"call", "delta", "done"}
      BY <1>3
    <3>. QED BY <1>3, <1>5, <3>1, FramesOther
  <2>4. p # "openai" => Apart(x5')
    <3>1. e.type # "call"
      BY <1>3
    <3>. QED BY <1>3, <1>5, <3>1, ApartAppend
  <2>5. Completed(x5') /\ CompletedLast(x5')
    BY <1>3, <1>5, CompletedAppend
  <2>6. DoneCalls(p, x3, x4, x5') = DOMAIN x3
    BY <1>5, <2>5 DEF DoneCalls
  <2>. QED BY <1>1, <1>5, <2>1, <2>2, <2>3, <2>4, <2>5, <2>6 DEF Growing, Fits
<1>6. p # "anthropic" => Unfinished(p, x2, x3, x4, x5)
  BY <1>1, UnfinishedIs
<1>7. CASE p = "gemini"
  <2>1. Unfinished(p, x2, x3, x4, x5)
    BY <1>6, <1>7
  <2>2. x5' = x5 \o <<e>>
    BY <1>7 DEF Direct!Rest
  <2> HIDE DEF e
  <2>3. x5' = Append(x5, e)
    BY <1>2, <1>3, <2>2, OneMore
  <2>4. SoFar(p, x3, x4) = DOMAIN x3
    BY <1>7 DEF SoFar
  <2>5. SamePieces(x5, x2) /\ Frames(x5, x3, DOMAIN x3) /\ ~Completed(x5) /\ Apart(x5)
    BY <1>7, <2>1, <2>4 DEF Unfinished
  <2>. QED BY <1>2, <1>5, <1>7, <2>3, <2>5
<1>8. CASE p = "openai"
  <2>1. Unfinished(p, x2, x3, x4, x5)
    BY <1>6, <1>8
  <2>2. PICK n \in 0 .. MaxCalls : x3 \in [1 .. n -> Seq(Nat)] /\ DOMAIN x3 = 1 .. n
    BY <2>1, BuffersTyped
  <2> DEFINE d == DoneEvents(x3, n)
  <2>3. x5' = x5 \o (d \o <<e>>)
    <3>1. Direct!Calls \cap Direct!Added = 1 .. n
      BY <2>2, DirectAssumption DEF Direct!Calls, Direct!Added
    <3>2. Direct!OpenAIRest = d \o <<e>>
      BY <3>1 DEF Direct!OpenAIRest, DoneEvents
    <3>. QED BY <1>8, <3>2 DEF Direct!Rest
  <2>4. SamePieces(x5, x2) /\ Frames(x5, x3, {}) /\ ~Completed(x5)
    BY <1>8, <2>1 DEF Unfinished, SoFar
  <2>5. /\ x5 \o d \in Seq(Events) /\ Frames(x5 \o d, x3, 1 .. n) /\ SamePieces(x5 \o d, x2)
        /\ ~Completed(x5 \o d) /\ d \in Seq(Events)
    BY <1>2, <2>2, <2>4, RestDone
  <2> HIDE DEF d, e
  <2>6. x5' = Append(x5 \o d, e)
    <3>1. d \o <<e>> = Append(d, e)
      BY <1>3, <2>5, OneMore
    <3>2. x5 \o Append(d, e) = Append(x5 \o d, e)
      BY <1>2, <1>3, <2>5, ConcatAppend
    <3>. QED BY <2>3, <3>1, <3>2
  <2>. QED BY <1>5, <1>8, <2>2, <2>5, <2>6
<1>. QED BY <1>1, <1>4, <1>7, <1>8 DEF Direct!Providers

LEMMA EndStep == ASSUME DirectHeld, Direct!BodyEnds PROVE DirectHeld'
<1>1. x1.at = "body" /\ x5' = x5 \o Direct!Rest /\ x2' = x2 /\ x3' = x3 /\ x4' = x4
  BY DEF Direct!BodyEnds, Direct!Open
<1>2. Fits(x1.provider, x2, x3, x4, x5')
  BY <1>1, RestFits
<1>3. PICK o \in Outcomes : Direct!Record(o) /\ (o = "success" /\ ~x1.streaming => ~Errors(x5'))
  <2>1. CASE x1.streaming
    <3>1. Direct!Record("success")
      BY <2>1 DEF Direct!BodyEnds
    <3>. QED BY <2>1, <3>1 DEF Outcomes
  <2>2. CASE ~x1.streaming
    <3>1. PICK tokens \in BOOLEAN :
            Direct!Record(IF Direct!CollectFails(x5 \o Direct!Rest, tokens) THEN "error" ELSE "success")
      BY <2>2 DEF Direct!BodyEnds
    <3>2. CASE Direct!CollectFails(x5 \o Direct!Rest, tokens)
      <4>1. Direct!Record("error")
        BY <3>1, <3>2
      <4>. QED BY <4>1 DEF Outcomes
    <3>3. CASE ~Direct!CollectFails(x5 \o Direct!Rest, tokens)
      <4>1. Direct!Record("success")
        BY <3>1, <3>3
      <4>2. ~Errors(x5')
        BY <1>1, <3>3 DEF Direct!CollectFails, Errors
      <4>. QED BY <4>1, <4>2 DEF Outcomes
    <3>. QED BY <3>2, <3>3
  <2>. QED BY <2>1, <2>2
<1>. QED BY <1>1, <1>2, <1>3, RecordLeaves

LEMMA BreakStep == ASSUME DirectHeld, Direct!BodyBreaks \/ Direct!FetchFails PROVE DirectHeld'
<1>1. x1.at # "ended" /\ x2' = x2 /\ x3' = x3 /\ x4' = x4 /\ x5' = x5
  BY DEF Direct!BodyBreaks, Direct!FetchFails, Direct!Open
<1>2. Direct!Record("error") \/ Direct!Record("aborted")
  BY DEF Direct!BodyBreaks, Direct!FetchFails
<1>3. Fits(x1.provider, x2, x3, x4, x5')
  BY <1>1 DEF DirectHeld
<1>4. "error" \in Outcomes /\ "aborted" \in Outcomes /\ "error" # "success" /\ "aborted" # "success"
  BY DEF Outcomes
<1>. QED BY <1>1, <1>2, <1>3, <1>4, RecordLeaves

LEMMA DirectStep ==
    ASSUME DirectHeld, Direct!Next \/ UNCHANGED <<x1, x2, x3, x4, x5, x6>>
    PROVE  DirectHeld'
<1>1. x1 \in DirectAsk
  BY DEF DirectHeld
<1>2. CASE Direct!Fetch \/ Direct!Answered \/ Direct!ClientGone
  <2>1. x1.at # "ended" /\ UNCHANGED <<x2, x3, x4, x5, x6>>
    BY <1>2 DEF Direct!Fetch, Direct!Answered, Direct!ClientGone
  <2>2. \/ x1' = [x1 EXCEPT !.at = "fetching"] \/ x1' = [x1 EXCEPT !.at = "body"]
        \/ x1' = [x1 EXCEPT !.gone = TRUE]
    BY <1>2 DEF Direct!Fetch, Direct!Answered, Direct!ClientGone
  <2>3. x1' \in DirectAsk /\ x1'.at # "ended" /\ x1'.provider = x1.provider
    BY <1>1, <2>1, <2>2, AskMoves
  <2>. QED BY <2>1, <2>3, WaitStep
<1>3. CASE UNCHANGED <<x1, x2, x3, x4, x5, x6>>
  BY <1>3 DEF DirectHeld
<1>. QED
  BY <1>2, <1>3, TextStep, ErrorStep, CompletionStep, BlockStartStep, BlockDeltaStep, BlockStopStep,
     GeminiStep, OpenAIStep, EndStep, BreakStep DEF Direct!Next

LEMMA DirectKept == ASSUME DirectHeld PROVE Direct!TypeOK /\ Direct!DirectSound
<1> DEFINE p == x1.provider
           done == DoneCalls(p, x3, x4, x5)
<1>1. /\ x1 \in DirectAsk /\ Len(x2) <= MaxChunks /\ x2 \in Seq(Events) /\ x5 \in Seq(Events)
      /\ x4 \subseteq DOMAIN x3 /\ SamePieces(x5, x2) /\ Buffered(x2, x3) /\ Frames(x5, x3, done)
      /\ p # "openai" => Apart(x5)
      /\ p = "anthropic" /\ Completed(x5) => DOMAIN x3 \subseteq x4
      /\ CompletedLast(x5)
  BY DEF DirectHeld, Fits
<1>2. PICK n \in 0 .. MaxCalls : x3 \in [1 .. n -> Seq(Nat)]
  BY DEF DirectHeld, Fits
<1>3. DOMAIN x3 \subseteq 1 .. MaxCalls
  BY <1>2, DirectAssumption
<1> HIDE DEF done
<1>4. \A t, i : Direct!At(t, i) = Where(x5, t, i)
  BY DEF Direct!At, Where
<1>5. Direct!Calls = 1 .. MaxCalls /\ Direct!Added = DOMAIN x3
  BY DEF Direct!Calls, Direct!Added
<1>6. \A t, i : Where(x5, t, i) \subseteq Nat
  BY <1>1 DEF Where
<1>7. Direct!PassedOn
  BY <1>1, <1>5 DEF Direct!PassedOn, SamePieces
<1>8. Direct!CallsFramed
  <2>1. ASSUME NEW i \in 1 .. MaxCalls, NEW d \in Where(x5, "delta", i) \cup Where(x5, "done", i)
        PROVE  /\ \E a \in Where(x5, "call", i) : a < d
               /\ x5[d].type = "done" =>
                    /\ x5[d].pieces = Direct!Pieces(x2, "delta", i)
                    /\ Where(x5, "done", i) = {d} /\ \A e \in Where(x5, "delta", i) : e < d
    <3>1. Framed(x5, i, i \in DOMAIN x3, i \in done, Buffer(x3, i))
      BY <1>1 DEF Frames
    <3>2. i \in DOMAIN x3
      BY <2>1, <3>1 DEF Framed
    <3>3. \E a \in Where(x5, "call", i) : a < d
      BY <2>1, <3>1, <3>2 DEF Framed
    <3>4. ASSUME x5[d].type = "done"
          PROVE  /\ x5[d].pieces = Buffer(x3, i) /\ Where(x5, "done", i) = {d}
                 /\ \A e \in Where(x5, "delta", i) : e < d
      <4>1. d \in Where(x5, "done", i)
        BY <2>1, <3>4 DEF Where
      <4>2. i \in done
        BY <3>1, <4>1 DEF Framed
      <4>. QED BY <3>1, <4>1, <4>2 DEF Framed
    <3>5. Direct!Pieces(x2, "delta", i) = Buffer(x3, i)
      BY <1>1 DEF Buffered
    <3>. QED BY <3>3, <3>4, <3>5
  <2>. QED BY <1>4, <1>5, <2>1 DEF Direct!CallsFramed
<1>9. Direct!CompletionIsLast
  <2>1. ASSUME NEW k \in Where(x5, "completed", 0)
        PROVE  /\ \A i \in 1 .. MaxCalls : Where(x5, "call", i) # {} => Where(x5, "done", i) # {}
               /\ \A j \in DOMAIN x5 : ~(j > k)
    <3>1. Completed(x5) /\ k = Len(x5)
      BY <1>1, <2>1 DEF Where, Completed, CompletedLast
    <3>2. DOMAIN x3 \subseteq done
      BY <1>1, <3>1 DEF done, DoneCalls
    <3>3. \A i \in 1 .. MaxCalls : Where(x5, "call", i) # {} => Where(x5, "done", i) # {}
      BY <1>1, <3>2, AllDone
    <3>4. \A j \in DOMAIN x5 : ~(j > k)
      BY <1>1, <3>1
    <3>. QED BY <3>3, <3>4
  <2>. QED BY <1>4, <1>5, <2>1 DEF Direct!CompletionIsLast
<1>10. Direct!OneCallOpen
  <2>1. CASE p # "openai"
    <3>1. Apart(x5)
      BY <1>1, <2>1
    <3>. QED BY <1>4, <1>5, <3>1 DEF Apart, Direct!OneCallOpen
  <2>2. CASE p = "openai" /\ DOMAIN x3 \subseteq {1}
    <3>1. ASSUME NEW i \in 1 .. MaxCalls, NEW j \in 1 .. MaxCalls,
                 NEW a \in Where(x5, "call", i), NEW b \in Where(x5, "call", j)
          PROVE  ~(a < b)
      <4>1. Framed(x5, i, i \in DOMAIN x3, i \in done, Buffer(x3, i))
            /\ Framed(x5, j, j \in DOMAIN x3, j \in done, Buffer(x3, j))
        BY <1>1 DEF Frames
      <4>2. i \in DOMAIN x3 /\ j \in DOMAIN x3
        BY <3>1, <4>1 DEF Framed
      <4>3. i = j
        BY <2>2, <4>2
      <4>4. a = b
        BY <3>1, <4>1, <4>2, <4>3 DEF Framed
      <4>. QED BY <1>6, <4>4
    <3>. QED BY <1>4, <1>5, <3>1 DEF Direct!OneCallOpen
  <2>3. CASE p = "openai" /\ ~(DOMAIN x3 \subseteq {1})
    BY <1>5, <2>3 DEF Direct!OneCallOpen
  <2>. QED BY <2>1, <2>2, <2>3
<1>11. /\ x6 \in Seq(Outcomes) /\ Len(x6) = IF x1.at = "ended" THEN 1 ELSE 0
       /\ "success" \in Direct!Range(x6) /\ ~x1.streaming => ~Errors(x5)
  <2>1. CASE x1.at # "ended"
    <3>1. x6 = <<>>
      BY <2>1 DEF DirectHeld
    <3>. QED BY <2>1, <3>1 DEF Direct!Range
  <2>2. CASE x1.at = "ended"
    <3>1. PICK o \in Outcomes : x6 = <<o>> /\ (o = "success" /\ ~x1.streaming => ~Errors(x5))
      BY <2>2 DEF DirectHeld, Recorded
    <3>2. Direct!Range(x6) = {o} /\ Len(x6) = 1 /\ x6 \in Seq(Outcomes)
      BY <3>1 DEF Direct!Range
    <3>. QED BY <2>2, <3>1, <3>2
  <2>. QED BY <2>1, <2>2
<1>12. ~Errors(x5) => Direct!At("error", 0) = {}
  BY <1>4 DEF Errors, Where
<1>13. Direct!DirectSound
  BY <1>7, <1>8, <1>9, <1>10, <1>11, <1>12 DEF Direct!DirectSound
<1>14. Direct!TypeOK
  BY <1>1, <1>3, <1>5, <1>11 DEF Direct!TypeOK, DirectAsk, Outcomes
<1>. QED BY <1>13, <1>14

-----------------------------------------------------------------------------
(* The parts as they run in ExchangesSpec *)

LEMMA ImportPartStart == ExchangesInit => (part = "import" => Import!ImportsInv)
  BY ImportsStart DEF ExchangesInit

LEMMA ImportPartStep ==
    ASSUME part = "import" => Import!ImportsInv, ExchangesNext \/ UNCHANGED allVars
    PROVE  (part = "import" => Import!ImportsInv)'
<1>1. part' = part
  BY DEF ExchangesNext, allVars
<1>2. CASE part = "import"
  <2>1. Import!Next \/ UNCHANGED ImportVars
    BY <1>2 DEF ExchangesNext, allVars, from1, from2, from3, from4, from5, from6, from7, from8,
                ImportVars
  <2>2. CASE UNCHANGED ImportVars
    BY <1>2, <2>2, ImportParts DEF ImportVars, ImportTypes, ExchangedApart, NothingPasted,
       NewestKept
  <2> QED
    BY <1>1, <1>2, <2>1, <2>2, ImportsStep
<1> QED
  BY <1>1, <1>2

\* The server is never sent the refresh token of two imports at once, and the
\* account keeps the one token it will still exchange, for any number of
\* imports and tokens, whatever imports, refreshes and deletions cross
\* (account-import.ts).
THEOREM ImportsHold == ExchangesSpec => []ImportsKeepToken
<1>1. (part = "import" => Import!ImportsInv) => ImportsKeepToken
  BY DEF ImportsKeepToken, Import!ImportsInv
<1>2. ExchangesInit => (part = "import" => Import!ImportsInv)
  BY ImportPartStart
<1>3. (part = "import" => Import!ImportsInv) /\ [ExchangesNext]_allVars
        => (part = "import" => Import!ImportsInv)'
  BY ImportPartStep
<1> QED
  BY <1>1, <1>2, <1>3, PTL DEF ExchangesSpec

GatesInv ==
    /\ part = "limit" => Limit!LimitInv
    /\ part = "access" => Access!AccessInv

LimitVars == <<x1, x2, x3, x4, x5>>
AccessVars == <<x1, x2, x3, x4, x5, x6, x7>>

LEMMA GatesStart == ExchangesInit => GatesInv
  BY LimitStart, AccessStart DEF ExchangesInit, GatesInv

LEMMA GatesStep ==
    ASSUME Burst <= Rate * IdleTime, GatesInv, ExchangesNext \/ UNCHANGED allVars
    PROVE  GatesInv'
<1>1. part' = part
  BY DEF ExchangesNext, allVars
<1>2. CASE part = "limit"
  <2>1. Limit!Next \/ UNCHANGED LimitVars
    BY <1>2 DEF ExchangesNext, allVars, from1, from2, from3, from4, from5, from6, LimitVars
  <2>2. CASE UNCHANGED LimitVars
    BY <1>1, <1>2, <2>2, LimitParts DEF LimitVars, LimitTypes, BurstKept, GatesInv
  <2> QED
    BY <1>1, <1>2, <2>1, <2>2, LimitStep DEF GatesInv
<1>3. CASE part = "access"
  <2>1. Access!Next \/ UNCHANGED AccessVars
    BY <1>3 DEF ExchangesNext, allVars, from1, from2, from3, from4, from5, from6, from7, from8,
                AccessVars
  <2>2. CASE UNCHANGED AccessVars
    BY <1>1, <1>3, <2>2 DEF AccessVars, GatesInv, Access!AccessInv, Access!TypeOK,
       Access!AccessSound, Access!WindowOpen
  <2> QED
    BY <1>1, <1>3, <2>1, <2>2, AccessStep DEF GatesInv
<1> QED
  BY <1>1, <1>2, <1>3 DEF GatesInv

\* No client gets more than its burst and its rate, whatever buckets are pruned
\* and come back full, provided a bucket that is idle for so long would be full
\* anyway; a session ends with its time, its logout or a restart, and each
\* failed login of a window is counted; for any clients, limits and times
\* (rateLimit, dashboard-login.ts, dashboard-session.ts).
THEOREM GatesHold ==
    ASSUME Burst <= Rate * IdleTime
    PROVE  ExchangesSpec => []GatesSound
<1>1. GatesInv => GatesSound
  <2>1. ASSUME Limit!LimitInv PROVE Limit!RateKept
    <3>1. ASSUME NEW c \in Clients \ x5 PROVE x4[c] <= Burst
      <4>1. CASE c \in DOMAIN x2
        <5>1. x1 - x2[c].refilled \in Nat
          BY <2>1, <4>1, LimitParts, LimitAssumption DEF LimitTypes
        <5>2. Fill(x2[c].tokens, x1 - x2[c].refilled) \in 0 .. Burst
          BY <2>1, <4>1, <5>1, LimitParts, FillLaws DEF LimitTypes
        <5> QED
          BY <2>1, <4>1, <5>2, LimitParts, LimitAssumption DEF LimitTypes, BurstKept
      <4>2. CASE c \notin DOMAIN x2
        BY <2>1, <4>2, LimitParts, LimitAssumption DEF BurstKept
      <4> QED
        BY <4>1, <4>2
    <3> QED
      BY <3>1 DEF Limit!RateKept
  <2> QED
    BY <2>1 DEF GatesInv, GatesSound, Limit!LimitInv, Access!AccessInv
<1>2. ExchangesInit => GatesInv
  BY GatesStart
<1>3. GatesInv /\ [ExchangesNext]_allVars => GatesInv'
  BY GatesStep
<1> QED
  BY <1>1, <1>2, <1>3, PTL DEF ExchangesSpec

UpdateVars == <<x1, x2, x3, x4, x5, x6, x7, x8, x9, x10, x11, x12>>
ViewVars == <<x1, x2, x3, x4, x5, x6, x7, x8>>

\* The invariants of the updates, the pages, the calls and the API key upstreams,
\* of each while it runs.
OthersInv ==
    /\ part = "update" => Update!UpdatesInv
    /\ part = "views" => Views!ViewsInv
    /\ part = "upstream" => Upstream!AttemptsInv /\ StreamHeld
    /\ part = "direct" => DirectHeld

LEMMA OthersStart == ExchangesInit => OthersInv
  BY UpdatesStart, ViewsStart, CallsStart, StreamStart, DirectStart DEF ExchangesInit, OthersInv

LEMMA OthersStep ==
    ASSUME OthersInv, ExchangesNext \/ UNCHANGED allVars
    PROVE  OthersInv'
<1>1. part' = part
  BY DEF ExchangesNext, allVars
<1>2. CASE part = "update"
  <2>1. Update!Next \/ UNCHANGED UpdateVars
    BY <1>2 DEF ExchangesNext, allVars, from1, from2, from3, from4, from5, from6, from7, from8,
                from9, from10, from11, from12, UpdateVars
  <2>2. CASE UNCHANGED UpdateVars
    BY <1>1, <1>2, <2>2, UpdateParts DEF UpdateVars, OthersInv, UpdateTypes, FlagSet, Resting,
       WholeBuilds, Update!OnePipeline, Update!CountsSound, Update!OfferIsNewer
  <2> QED
    BY <1>1, <1>2, <2>1, <2>2, UpdatesStep DEF OthersInv
<1>3. CASE part = "views"
  <2>1. Views!Next \/ UNCHANGED ViewVars
    BY <1>3 DEF ExchangesNext, allVars, from1, from2, from3, from4, from5, from6, from7, from8,
                from9, ViewVars
  <2>2. CASE UNCHANGED ViewVars
    BY <1>1, <1>3, <2>2, ViewParts DEF ViewVars, OthersInv, ViewsHeld, ViewTypes, Ordered, Idle,
       FreshPage, FreshLoad, Fresh, Views!ChangeFits
  <2> QED
    BY <1>1, <1>3, <2>1, <2>2, ViewsStep DEF OthersInv
<1>4. CASE part = "upstream"
  <2>1. Upstream!Next \/ UNCHANGED <<x1, x2, x3, x4, x5, x6>>
    BY <1>4 DEF ExchangesNext, allVars, from1, from2, from3, from4, from5, from6, from7
  <2>2. CASE UNCHANGED <<x1, x2, x3, x4, x5, x6>>
    BY <1>1, <1>4, <2>2, CallParts DEF OthersInv, CallsHeld, StreamHeld
  <2> QED
    BY <1>1, <1>4, <2>1, <2>2, CallsStep, StreamStep DEF OthersInv
<1>5. CASE part = "direct"
  <2>1. Direct!Next \/ UNCHANGED <<x1, x2, x3, x4, x5, x6>>
    BY <1>5 DEF ExchangesNext, allVars, from1, from2, from3, from4, from5, from6, from7
  <2> QED
    BY <1>1, <1>5, <2>1, DirectStep DEF OthersInv
<1> QED
  BY <1>1, <1>2, <1>3, <1>4, <1>5 DEF OthersInv

LEMMA OthersKept == ExchangesSpec => []OthersInv
<1>1. OthersInv /\ [ExchangesNext]_allVars => OthersInv'
  BY OthersStep
<1> QED
  BY <1>1, OthersStart, PTL DEF ExchangesSpec

\* A server runs no build that was cut short, unless a command failed or an
\* update began while a restart was pending; the checkout is never worked on
\* by two updates; and only a newer release is offered to an image: for any
\* number of commits, failures and requests (self-update.ts).
THEOREM UpdatesHold == ExchangesSpec => []UpdatesSafe
<1>1. OthersInv => UpdatesSafe
  BY DEF OthersInv, UpdatesSafe, Update!UpdatesInv
<1> QED
  BY <1>1, OthersKept, PTL

\* Once nothing is under way, the page of the proxies shows what the server
\* has, unless two answers crossed, a request failed or somebody else made the
\* change, for any number of changes (use-proxies.ts).
THEOREM ViewsHold == ExchangesSpec => []ViewsSafe
<1>1. Views!ViewsInv => Views!TypeOK /\ Views!AtRestShowsTruth
  <2>1. Views!Slots = {1, 2}
    BY DEF Views!Slots
  <2>2. ASSUME ViewsHeld PROVE Views!AtRestShowsTruth
    BY <2>1, <2>2 DEF ViewsHeld, FreshPage, Views!AtRestShowsTruth, Views!Free, Idle
  <2> QED
    BY <2>2, ViewParts DEF Views!ViewsInv
<1>2. OthersInv => ViewsSafe
  BY <1>1 DEF OthersInv, ViewsSafe
<1> QED
  BY <1>2, OthersKept, PTL

AnswersSound == part = "upstream" => Upstream!TypeOK /\ Upstream!AnswerDelivered

\* What a caller reads of an answer are its events from the first one on, in
\* order and once, torn only where the answer was cut short, and all of them
\* when it was not (a chunk too long for the buffer cuts it short too); and a
\* streamed request is sent again only when the upstream refused it or never got
\* it: for answers of any length, cut into chunks anywhere, any number of retries,
\* whichever transport carries it and whenever it is aborted (withRetry, CodexApi,
\* ws-transport.ts, native-transport.ts, parseSSEStream).
THEOREM AnswersDelivered == ExchangesSpec => []AnswersSound
<1>1. ASSUME CallsHeld, StreamHeld PROVE Upstream!TypeOK
  <2>1. x1 \in CallRecord /\ x2 \in Seq(Attempt) /\ x3 \in BOOLEAN /\ x4 \in AnswerRecord
        /\ x5 \in PipeRecord /\ x6.end \in {"no", "closed", "error"}
    BY <1>1 DEF CallsHeld, StreamHeld, Pipeline
  <2>2. \A i \in DOMAIN x2 : x2[i].fate \in {"unknown", "unsent", "refused", "accepted"}
    <3>1. \A i \in DOMAIN x2 : x2[i] \in Attempt
      BY <2>1
    <3> QED
      BY <3>1 DEF Attempt
  <2> QED
    BY <2>1, <2>2, AnswerFields, PipeFields DEF Upstream!TypeOK, CallRecord
<1>2. ASSUME Upstream!AttemptsInv, StreamHeld PROVE Upstream!AnswerDelivered
  <2>1. InOrderOf(x4, x6) /\ WholeOf(x1, x4, x6)
    BY <1>2, OrderNow DEF StreamHeld
  <2> QED
    BY <1>2, <2>1 DEF Upstream!AnswerDelivered, Upstream!AttemptsInv, Upstream!InOrder,
       Upstream!Whole, Upstream!Plain, InOrderOf, WholeOf
<1>3. OthersInv => AnswersSound
  BY <1>1, <1>2, CallParts DEF OthersInv, AnswersSound
<1> QED
  BY <1>3, OthersKept, PTL

ProvidersSound == part = "direct" => Direct!TypeOK /\ Direct!DirectSound

\* Whichever provider answers, its stream becomes events a translator can rely
\* on: text and arguments as they were sent, each call added before and done
\* once after its arguments, nothing after the completion, one call at a time
\* unless OpenAI sends several; and one entry of the history per request: for
\* any number of calls and chunks, in any order the providers may send them
\* (openai-upstream.ts, anthropic-upstream.ts, gemini-upstream.ts,
\* handleDirectRequest).
THEOREM ProvidersUnderstood == ExchangesSpec => []ProvidersSound
<1>1. OthersInv => ProvidersSound
  BY DirectKept DEF OthersInv, ProvidersSound
<1> QED
  BY <1>1, OthersKept, PTL

-----------------------------------------------------------------------------
(* The conversation of a request: nothing is lost *)

LEMMA TalkFlat == \A r : Translation!FlattenSeq(r) = Seqs!FlattenSeq(r)
  BY DEF Translation!FlattenSeq, Seqs!FlattenSeq

Talked == Translation!Messages
AnyItem == [kind : {"message", "call", "output"}, role : {"user", "assistant"},
            text : Nat, id : Nat \cup Tools, real : Nat]
Item == {x \in AnyItem : x.kind = "call" => x.role = "assistant"}
Link == {"call", "output"} \X Nat

\* What the property picks from the items and from the messages.
TextOf == [x \in Item |-> Translation!If(x.kind = "message" /\ x.text # 0, x)]
LinkOf == [x \in Item |-> Translation!If(x.kind \in {"call", "output"}, <<x.kind, x.real>>)]
SaidOf == [m \in Talked |-> Translation!If(m.text # 0, Translation!Said(m.role, m.text))]
UsedOf == [m \in Talked |->
              [j \in DOMAIN m.calls |-> <<"call", m.calls[j].id>>]
              \o [j \in DOMAIN m.results |-> <<"output", m.results[j].id>>]]

LEMMA SequenceFacts ==
    ASSUME NEW E, NEW s \in Seq(E)
    PROVE  Len(s) \in Nat /\ DOMAIN s = 1 .. Len(s) /\ \A i \in DOMAIN s : s[i] \in E
  OBVIOUS

LEMMA FamilyIs ==
    ASSUME NEW V, NEW n \in Nat, NEW g, DOMAIN g = 1 .. n, g = [i \in DOMAIN g |-> g[i]],
           \A i \in 1 .. n : g[i] \in V
    PROVE  g \in Seq(V) /\ Len(g) = n
<1>1. g \in Seq(V)
  OBVIOUS
<1>. QED BY <1>1, LengthIs

LEMMA OneOrNone ==
    ASSUME NEW V, NEW x \in V, NEW holds \in BOOLEAN
    PROVE  Translation!If(holds, x) \in Seq(V)
  BY DEF Translation!If

LEMMA MessageTypes ==
    ASSUME NEW m \in Talked
    PROVE  /\ m.role \in {"user", "assistant"} /\ m.text \in Nat
           /\ Len(m.calls) \in Nat /\ DOMAIN m.calls = 1 .. Len(m.calls)
           /\ Len(m.results) \in Nat /\ DOMAIN m.results = 1 .. Len(m.results)
           /\ \A j \in DOMAIN m.calls : m.calls[j].id \in Nat /\ m.calls[j].tool \in Tools
           /\ \A j \in DOMAIN m.results : m.results[j].id \in Nat /\ m.results[j].tool \in Tools
<1>1. m.calls \in Seq(Translation!Call) /\ m.results \in Seq(Translation!Call)
  BY DEF Talked, Translation!Messages
<1>2. m.role \in {"user", "assistant"} /\ m.text \in Nat
  BY DEF Talked, Translation!Messages
<1>3. ASSUME NEW c \in Translation!Call PROVE c.id \in Nat /\ c.tool \in Tools
  BY DEF Translation!Call
<1>4. /\ Len(m.calls) \in Nat /\ DOMAIN m.calls = 1 .. Len(m.calls)
      /\ \A j \in DOMAIN m.calls : m.calls[j] \in Translation!Call
  BY <1>1, SequenceFacts
<1>5. /\ Len(m.results) \in Nat /\ DOMAIN m.results = 1 .. Len(m.results)
      /\ \A j \in DOMAIN m.results : m.results[j] \in Translation!Call
  BY <1>1, SequenceFacts
<1>. QED BY <1>2, <1>3, <1>4, <1>5

LEMMA PickTypes ==
    /\ Maps(TextOf, Item, Seq(Item)) /\ Maps(LinkOf, Item, Seq(Link))
    /\ Maps(SaidOf, Talked, Seq(Item)) /\ Maps(UsedOf, Talked, Seq(Link))
<1>1. ASSUME NEW x \in Item PROVE TextOf[x] \in Seq(Item)
  BY OneOrNone DEF TextOf
<1>2. ASSUME NEW x \in Item PROVE LinkOf[x] \in Seq(Link)
  <2>1. CASE x.kind \in {"call", "output"}
    <3>1. <<x.kind, x.real>> \in Link
      BY <2>1 DEF Link, Item, AnyItem
    <3>. QED BY <2>1, <3>1 DEF LinkOf, Translation!If
  <2>2. CASE x.kind \notin {"call", "output"}
    <3>1. LinkOf[x] = <<>>
      BY <2>2 DEF LinkOf, Translation!If
    <3>. QED BY <3>1
  <2>. QED BY <2>1, <2>2
<1>3. ASSUME NEW m \in Talked PROVE SaidOf[m] \in Seq(Item)
  <2>1. Translation!Said(m.role, m.text) \in Item
    BY DEF Talked, Translation!Messages, Translation!Said, Item, AnyItem
  <2>2. SaidOf[m] = Translation!If(m.text # 0, Translation!Said(m.role, m.text))
    BY DEF SaidOf
  <2>. QED BY <2>1, <2>2, OneOrNone
<1>4. ASSUME NEW m \in Talked PROVE UsedOf[m] \in Seq(Link)
  <2> DEFINE a == [j \in DOMAIN m.calls |-> <<"call", m.calls[j].id>>]
             b == [j \in DOMAIN m.results |-> <<"output", m.results[j].id>>]
  <2>1. ASSUME NEW j \in DOMAIN m.calls PROVE a[j] \in Link
    BY MessageTypes DEF Link
  <2>2. ASSUME NEW j \in DOMAIN m.results PROVE b[j] \in Link
    BY MessageTypes DEF Link
  <2>3. a \in Seq(Link)
    <3>1. Len(m.calls) \in Nat /\ DOMAIN a = 1 .. Len(m.calls) /\ a = [i \in DOMAIN a |-> a[i]]
          /\ \A i \in 1 .. Len(m.calls) : a[i] \in Link
      BY <2>1, MessageTypes
    <3> HIDE DEF a
    <3>. QED BY <3>1, FamilyIs
  <2>4. b \in Seq(Link)
    <3>1. Len(m.results) \in Nat /\ DOMAIN b = 1 .. Len(m.results) /\ b = [i \in DOMAIN b |-> b[i]]
          /\ \A i \in 1 .. Len(m.results) : b[i] \in Link
      BY <2>2, MessageTypes
    <3> HIDE DEF b
    <3>. QED BY <3>1, FamilyIs
  <2>5. UsedOf[m] = a \o b
    BY DEF UsedOf
  <2> HIDE DEF a, b
  <2>. QED BY <2>3, <2>4, <2>5
<1>5. /\ TextOf \in [Item -> Seq(Item)] /\ LinkOf \in [Item -> Seq(Link)]
      /\ SaidOf \in [Talked -> Seq(Item)] /\ UsedOf \in [Talked -> Seq(Link)]
  <2>1. TextOf \in [Item -> Seq(Item)]
    BY <1>1 DEF TextOf
  <2>2. LinkOf \in [Item -> Seq(Link)]
    BY <1>2 DEF LinkOf
  <2>3. SaidOf \in [Talked -> Seq(Item)]
    BY <1>3 DEF SaidOf
  <2>4. UsedOf \in [Talked -> Seq(Link)]
    BY <1>4 DEF UsedOf
  <2>. QED BY <2>1, <2>2, <2>3, <2>4
<1>. QED BY <1>5 DEF Maps

LEMMA PickedIs ==
    /\ \A s \in Seq(Item) : Translation!Texts(s) = FlatMap(TextOf, s)
                            /\ Translation!Links(s) = FlatMap(LinkOf, s)
    /\ x1 \in Seq(Talked) => /\ Translation!SaidTexts = FlatMap(SaidOf, x1)
                             /\ Translation!Used = FlatMap(UsedOf, x1)
<1>1. ASSUME NEW s \in Seq(Item)
      PROVE  Translation!Texts(s) = FlatMap(TextOf, s) /\ Translation!Links(s) = FlatMap(LinkOf, s)
  <2>1. \A i \in DOMAIN s : s[i] \in Item
    OBVIOUS
  <2>2. [i \in DOMAIN s |-> Translation!If(s[i].kind = "message" /\ s[i].text # 0, s[i])]
          = Mapped(TextOf, s)
    BY <2>1 DEF Mapped, TextOf
  <2>3. [i \in DOMAIN s |-> Translation!If(s[i].kind \in {"call", "output"}, <<s[i].kind, s[i].real>>)]
          = Mapped(LinkOf, s)
    BY <2>1 DEF Mapped, LinkOf
  <2>. QED BY <2>2, <2>3, TalkFlat DEF FlatMap, Translation!Texts, Translation!Links,
              Translation!NoText
<1>2. ASSUME x1 \in Seq(Talked)
      PROVE  Translation!SaidTexts = FlatMap(SaidOf, x1) /\ Translation!Used = FlatMap(UsedOf, x1)
  <2>1. \A i \in DOMAIN x1 : x1[i] \in Talked
    BY <1>2
  <2>2. [i \in DOMAIN x1 |-> Translation!If(x1[i].text # 0, Translation!Said(x1[i].role, x1[i].text))]
          = Mapped(SaidOf, x1)
    BY <2>1 DEF Mapped, SaidOf
  <2>3. [i \in DOMAIN x1 |->
            [j \in DOMAIN x1[i].calls |-> <<"call", x1[i].calls[j].id>>]
            \o [j \in DOMAIN x1[i].results |-> <<"output", x1[i].results[j].id>>]]
          = Mapped(UsedOf, x1)
    BY <2>1 DEF Mapped, UsedOf
  <2>. QED BY <2>2, <2>3, TalkFlat DEF FlatMap, Translation!SaidTexts, Translation!Used,
              Translation!NoText
<1>. QED BY <1>1, <1>2

\* The items of a message: its text, and its calls or its results.
Calling(m, ids) == [i \in DOMAIN m.calls |-> Translation!Called(ids[i], m.calls[i].id)]
Resulting(m, ids) == [i \in DOMAIN m.results |-> Translation!Output(ids[i], m.results[i].id)]
OneSide(m) ==
    (m.role = "user" => m.calls = <<>>) /\ (m.role = "assistant" => m.results = <<>>)
Naming(m, ci, oi) ==
    /\ \A i \in DOMAIN m.calls : ci[i] \in Nat \cup Tools
    /\ \A i \in DOMAIN m.results : oi[i] \in Nat \cup Tools
Arranged(q, m, ci, oi) ==
    IF m.role = "user"
      THEN \/ q = Resulting(m, oi) \o Translation!TextItem(m)
           \/ q = Translation!TextItem(m) \o Resulting(m, oi)
      ELSE q = Translation!TextItem(m) \o Calling(m, ci)

LEMMA TextItemIs ==
    ASSUME NEW m \in Talked
    PROVE  /\ Translation!TextItem(m) \in Seq(Item)
           /\ \A i \in 1 .. Len(Translation!TextItem(m)) : Translation!TextItem(m)[i].kind = "message"
           /\ FlatMap(TextOf, Translation!TextItem(m)) = SaidOf[m]
           /\ FlatMap(LinkOf, Translation!TextItem(m)) = <<>>
<1> DEFINE d == Translation!Said(m.role, m.text)
           q == Translation!TextItem(m)
<1>1. d \in Item /\ d.kind = "message" /\ d.text = m.text
  BY MessageTypes DEF Translation!Said, Item, AnyItem
<1>2. q = <<>> \/ q = <<d>>
  BY DEF Translation!TextItem
<1>3. m.text # 0 => q = <<d>>
  BY DEF Translation!TextItem, Translation!NoText
<1>4. SaidOf[m] = IF m.text # 0 THEN <<d>> ELSE <<>>
  BY DEF SaidOf, Translation!If
<1>5. TextOf[d] = (IF m.text # 0 THEN <<d>> ELSE <<>>) /\ LinkOf[d] = <<>>
  BY <1>1 DEF TextOf, LinkOf, Translation!If
<1> HIDE DEF d, q
<1>6. q \in Seq(Item) /\ \A i \in 1 .. Len(q) : q[i].kind = "message"
  <2>1. CASE q = <<>>
    BY <2>1
  <2>2. CASE q = <<d>>
    <3>1. q \in Seq(Item) /\ Len(q) = 1 /\ q[1] = d
      BY <1>1, <2>2
    <3>2. \A i \in 1 .. 1 : i = 1
      OBVIOUS
    <3>. QED BY <1>1, <3>1, <3>2
  <2>. QED BY <1>2, <2>1, <2>2
<1>7. FlatMap(TextOf, q) = SaidOf[m] /\ FlatMap(LinkOf, q) = <<>>
  <2>1. CASE q = <<>>
    BY <1>3, <1>4, <2>1, FlatMapEmpty
  <2>2. CASE q = <<d>>
    <3> DEFINE none == <<>>
    <3>1. q = Append(none, d) /\ none \in Seq(Item) /\ d \in Item
      BY <1>1, <2>2
    <3>2. FlatMap(TextOf, none) = <<>> /\ FlatMap(LinkOf, none) = <<>>
      BY FlatMapEmpty
    <3>3. Maps(TextOf, Item, Seq(Item)) /\ Maps(LinkOf, Item, Seq(Link))
      BY PickTypes
    <3> HIDE DEF none
    <3>4. FlatMap(TextOf, Append(none, d)) = FlatMap(TextOf, none) \o TextOf[d]
      BY <3>1, <3>3, FlatMapAppend
    <3>5. FlatMap(LinkOf, Append(none, d)) = FlatMap(LinkOf, none) \o LinkOf[d]
      BY <3>1, <3>3, FlatMapAppend
    <3>6. <<>> \o <<>> = <<>> /\ <<>> \o <<d>> = <<d>>
      BY <1>1
    <3>. QED BY <1>4, <1>5, <3>1, <3>2, <3>4, <3>5, <3>6
  <2>. QED BY <1>2, <2>1, <2>2
<1>. QED BY <1>6, <1>7 DEF q

LEMMA CallingIs ==
    ASSUME NEW m \in Talked, NEW ci, NEW oi, Naming(m, ci, oi)
    PROVE  /\ Calling(m, ci) \in Seq(Item) /\ Len(Calling(m, ci)) = Len(m.calls)
           /\ \A i \in 1 .. Len(m.calls) :
                 /\ Calling(m, ci)[i].kind = "call" /\ Calling(m, ci)[i].id = ci[i]
                 /\ Calling(m, ci)[i].real = m.calls[i].id
           /\ FlatMap(TextOf, Calling(m, ci)) = <<>>
           /\ FlatMap(LinkOf, Calling(m, ci)) = [j \in DOMAIN m.calls |-> <<"call", m.calls[j].id>>]
<1> DEFINE q == Calling(m, ci)
           n == Len(m.calls)
           w == [j \in DOMAIN m.calls |-> <<"call", m.calls[j].id>>]
<1>1. n \in Nat /\ DOMAIN m.calls = 1 .. n /\ \A i \in 1 .. n : m.calls[i].id \in Nat
  BY MessageTypes
<1>2. ASSUME NEW i \in 1 .. n
      PROVE  /\ q[i] \in Item /\ q[i].kind = "call" /\ q[i].id = ci[i] /\ q[i].real = m.calls[i].id
             /\ w[i] = <<"call", m.calls[i].id>> /\ w[i] \in Link
  <2>1. q[i] = Translation!Called(ci[i], m.calls[i].id)
    BY <1>1 DEF Calling
  <2>2. ci[i] \in Nat \cup Tools /\ m.calls[i].id \in Nat
    BY <1>1 DEF Naming
  <2>3. w[i] = <<"call", m.calls[i].id>>
    BY <1>1
  <2>. QED BY <2>1, <2>2, <2>3 DEF Translation!Called, Translation!NoText, Item, AnyItem, Link
<1>3. DOMAIN q = 1 .. n /\ DOMAIN w = 1 .. n
      /\ q = [i \in DOMAIN q |-> q[i]] /\ w = [i \in DOMAIN w |-> w[i]]
  BY <1>1 DEF Calling
<1> HIDE DEF q, w, n
<1>4. q \in Seq(Item) /\ Len(q) = n
  <2>1. \A i \in 1 .. n : q[i] \in Item
    BY <1>2
  <2>. QED BY <1>1, <1>3, <2>1, FamilyIs
<1>5. w \in Seq(Link) /\ Len(w) = n
  <2>1. \A i \in 1 .. n : w[i] \in Link
    BY <1>2
  <2>. QED BY <1>1, <1>3, <2>1, FamilyIs
<1>6. ASSUME NEW i \in 1 .. n PROVE TextOf[q[i]] = <<>> /\ LinkOf[q[i]] = <<w[i]>>
  BY <1>2 DEF TextOf, LinkOf, Translation!If
<1>7. FlatMap(TextOf, q) = <<>>
  BY <1>4, <1>5, <1>6, PickTypes, FlatMapNone
<1>8. FlatMap(LinkOf, q) = w
  BY <1>4, <1>5, <1>6, PickTypes, FlatMapOnes
<1>. QED BY <1>2, <1>4, <1>5, <1>7, <1>8 DEF q, w, n

LEMMA ResultingIs ==
    ASSUME NEW m \in Talked, NEW ci, NEW oi, Naming(m, ci, oi)
    PROVE  /\ Resulting(m, oi) \in Seq(Item) /\ Len(Resulting(m, oi)) = Len(m.results)
           /\ \A i \in 1 .. Len(m.results) :
                 /\ Resulting(m, oi)[i].kind = "output" /\ Resulting(m, oi)[i].id = oi[i]
                 /\ Resulting(m, oi)[i].real = m.results[i].id
           /\ FlatMap(TextOf, Resulting(m, oi)) = <<>>
           /\ FlatMap(LinkOf, Resulting(m, oi))
                = [j \in DOMAIN m.results |-> <<"output", m.results[j].id>>]
<1> DEFINE q == Resulting(m, oi)
           n == Len(m.results)
           w == [j \in DOMAIN m.results |-> <<"output", m.results[j].id>>]
<1>1. n \in Nat /\ DOMAIN m.results = 1 .. n /\ \A i \in 1 .. n : m.results[i].id \in Nat
  BY MessageTypes
<1>2. ASSUME NEW i \in 1 .. n
      PROVE  /\ q[i] \in Item /\ q[i].kind = "output" /\ q[i].id = oi[i] /\ q[i].real = m.results[i].id
             /\ w[i] = <<"output", m.results[i].id>> /\ w[i] \in Link
  <2>1. q[i] = Translation!Output(oi[i], m.results[i].id)
    BY <1>1 DEF Resulting
  <2>2. oi[i] \in Nat \cup Tools /\ m.results[i].id \in Nat
    BY <1>1 DEF Naming
  <2>3. w[i] = <<"output", m.results[i].id>>
    BY <1>1
  <2>. QED BY <2>1, <2>2, <2>3 DEF Translation!Output, Translation!NoText, Item, AnyItem, Link
<1>3. DOMAIN q = 1 .. n /\ DOMAIN w = 1 .. n
      /\ q = [i \in DOMAIN q |-> q[i]] /\ w = [i \in DOMAIN w |-> w[i]]
  BY <1>1 DEF Resulting
<1> HIDE DEF q, w, n
<1>4. q \in Seq(Item) /\ Len(q) = n
  <2>1. \A i \in 1 .. n : q[i] \in Item
    BY <1>2
  <2>. QED BY <1>1, <1>3, <2>1, FamilyIs
<1>5. w \in Seq(Link) /\ Len(w) = n
  <2>1. \A i \in 1 .. n : w[i] \in Link
    BY <1>2
  <2>. QED BY <1>1, <1>3, <2>1, FamilyIs
<1>6. ASSUME NEW i \in 1 .. n PROVE TextOf[q[i]] = <<>> /\ LinkOf[q[i]] = <<w[i]>>
  BY <1>2 DEF TextOf, LinkOf, Translation!If
<1>7. FlatMap(TextOf, q) = <<>>
  BY <1>4, <1>5, <1>6, PickTypes, FlatMapNone
<1>8. FlatMap(LinkOf, q) = w
  BY <1>4, <1>5, <1>6, PickTypes, FlatMapOnes
<1>. QED BY <1>2, <1>4, <1>5, <1>7, <1>8 DEF q, w, n

\* A message's items hold its text and its calls or results, nothing more.
LEMMA ArrangedKeeps ==
    ASSUME NEW m \in Talked, OneSide(m), NEW ci, NEW oi, Naming(m, ci, oi),
           NEW q, Arranged(q, m, ci, oi)
    PROVE  q \in Seq(Item) /\ FlatMap(TextOf, q) = SaidOf[m] /\ FlatMap(LinkOf, q) = UsedOf[m]
<1> DEFINE t == Translation!TextItem(m)
           c == Calling(m, ci)
           o == Resulting(m, oi)
           wc == [j \in DOMAIN m.calls |-> <<"call", m.calls[j].id>>]
           wo == [j \in DOMAIN m.results |-> <<"output", m.results[j].id>>]
<1>1. t \in Seq(Item) /\ FlatMap(TextOf, t) = SaidOf[m] /\ FlatMap(LinkOf, t) = <<>>
  BY TextItemIs
<1>2. c \in Seq(Item) /\ FlatMap(TextOf, c) = <<>> /\ FlatMap(LinkOf, c) = wc
  BY CallingIs
<1>3. o \in Seq(Item) /\ FlatMap(TextOf, o) = <<>> /\ FlatMap(LinkOf, o) = wo
  BY ResultingIs
<1>4. UsedOf[m] = wc \o wo /\ SaidOf[m] \in Seq(Item) /\ UsedOf[m] \in Seq(Link)
  BY PickTypes DEF UsedOf, Maps
<1>5. m.role \in {"user", "assistant"}
  BY MessageTypes
<1>6. (m.calls = <<>> => wc = <<>>) /\ (m.results = <<>> => wo = <<>>)
  OBVIOUS
<1>7. /\ IF m.role = "user" THEN q = o \o t \/ q = t \o o ELSE q = t \o c
      /\ m.role = "user" => wc = <<>>
      /\ m.role = "assistant" => wo = <<>>
  BY <1>6 DEF Arranged, OneSide
<1>8. wc \in Seq(Link) /\ wo \in Seq(Link)
  <2>1. FlatMap(LinkOf, c) \in Seq(Link) /\ FlatMap(LinkOf, o) \in Seq(Link)
    BY <1>2, <1>3, PickTypes, FlatMapTyped
  <2>. QED BY <1>2, <1>3, <2>1
<1> HIDE DEF t, c, o, wc, wo
<1>9. ASSUME NEW s \in Seq(Item) PROVE s \o <<>> = s /\ <<>> \o s = s
  OBVIOUS
<1>10. ASSUME NEW s \in Seq(Link) PROVE s \o <<>> = s /\ <<>> \o s = s
  OBVIOUS
<1>11. /\ FlatMap(TextOf, o \o t) = <<>> \o SaidOf[m] /\ FlatMap(TextOf, t \o o) = SaidOf[m] \o <<>>
       /\ FlatMap(TextOf, t \o c) = SaidOf[m] \o <<>>
  <2>1. Maps(TextOf, Item, Seq(Item))
    BY PickTypes
  <2>2. \A a, b \in Seq(Item) : FlatMap(TextOf, a \o b) = FlatMap(TextOf, a) \o FlatMap(TextOf, b)
    BY <2>1, FlatMapJoin
  <2>. QED BY <1>1, <1>2, <1>3, <2>2
<1>12. /\ FlatMap(LinkOf, o \o t) = wo \o <<>> /\ FlatMap(LinkOf, t \o o) = <<>> \o wo
       /\ FlatMap(LinkOf, t \o c) = <<>> \o wc
  <2>1. Maps(LinkOf, Item, Seq(Link))
    BY PickTypes
  <2>2. \A a, b \in Seq(Item) : FlatMap(LinkOf, a \o b) = FlatMap(LinkOf, a) \o FlatMap(LinkOf, b)
    BY <2>1, FlatMapJoin
  <2>. QED BY <1>1, <1>2, <1>3, <2>2
<1>13. o \o t \in Seq(Item) /\ t \o o \in Seq(Item) /\ t \o c \in Seq(Item)
  BY <1>1, <1>2, <1>3
<1>14. CASE m.role = "user"
  <2>1. UsedOf[m] = wo /\ FlatMap(TextOf, q) = SaidOf[m] /\ FlatMap(LinkOf, q) = wo
    BY <1>4, <1>7, <1>8, <1>9, <1>10, <1>11, <1>12, <1>14
  <2>. QED BY <1>7, <1>13, <1>14, <2>1
<1>15. CASE m.role = "assistant"
  <2>1. UsedOf[m] = wc /\ FlatMap(TextOf, q) = SaidOf[m] /\ FlatMap(LinkOf, q) = wc
    BY <1>4, <1>7, <1>8, <1>9, <1>10, <1>11, <1>12, <1>15
  <2>. QED BY <1>7, <1>13, <1>15, <2>1
<1>. QED BY <1>5, <1>14, <1>15

\* A format gives for each message its items; the names of calls and results are its own.
Format(f, ci, oi) ==
    \A n \in 1 .. Len(x1) : /\ OneSide(x1[n]) /\ Naming(x1[n], ci[n], oi[n])
                            /\ Arranged(f[x1[n]], x1[n], ci[n], oi[n])

LEMMA InputIs ==
    ASSUME NEW parts \in Seq(Seq(Item))
    PROVE  /\ Translation!Input(parts) \in Seq(Item)
           /\ FlatMap(TextOf, Translation!Input(parts)) = FlatMap(TextOf, Seqs!FlattenSeq(parts))
           /\ FlatMap(LinkOf, Translation!Input(parts)) = FlatMap(LinkOf, Seqs!FlattenSeq(parts))
<1> DEFINE s == Seqs!FlattenSeq(parts)
           d == Translation!Said("user", 0)
<1>1. s \in Seq(Item)
  BY FlatTyped
<1>2. d \in Item /\ d.kind = "message" /\ d.text = 0
  BY DEF Translation!Said, Item, AnyItem
<1>3. Translation!Input(parts) = IF s = <<>> THEN <<d>> ELSE s
  BY TalkFlat DEF Translation!Input, Translation!NoText
<1>4. TextOf[d] = <<>> /\ LinkOf[d] = <<>>
  BY <1>2 DEF TextOf, LinkOf, Translation!If
<1> HIDE DEF s, d
<1> DEFINE one == <<d>>
<1>5. one \in Seq(Item) /\ Len(one) = 1 /\ one[1] = d /\ \A i \in 1 .. 1 : i = 1
  BY <1>2
<1>6. Translation!Input(parts) = IF s = <<>> THEN one ELSE s
  BY <1>3
<1> HIDE DEF one
<1>7. FlatMap(TextOf, one) = <<>> /\ FlatMap(LinkOf, one) = <<>>
  <2>1. \A i \in 1 .. Len(one) : TextOf[one[i]] = <<>> /\ LinkOf[one[i]] = <<>>
    BY <1>4, <1>5
  <2>2. Maps(TextOf, Item, Seq(Item)) /\ Maps(LinkOf, Item, Seq(Link))
    BY PickTypes
  <2>. QED BY <1>5, <2>1, <2>2, FlatMapNone
<1>8. FlatMap(TextOf, <<>>) = <<>> /\ FlatMap(LinkOf, <<>>) = <<>>
  BY FlatMapEmpty
<1>. QED BY <1>1, <1>5, <1>6, <1>7, <1>8 DEF s

LEMMA FormatKeeps ==
    ASSUME x1 \in Seq(Talked), NEW f, Maps(f, Talked, Seq(Item)), NEW ci, NEW oi, Format(f, ci, oi)
    PROVE  Translation!Input(Mapped(f, x1)) \in Seq(Item)
           /\ Translation!AllThere(Translation!Input(Mapped(f, x1)))
<1>1. \A n \in 1 .. Len(x1) : x1[n] \in Talked
  OBVIOUS
<1>2. ASSUME NEW n \in 1 .. Len(x1)
      PROVE  FlatMap(TextOf, f[x1[n]]) = SaidOf[x1[n]] /\ FlatMap(LinkOf, f[x1[n]]) = UsedOf[x1[n]]
  BY <1>1, ArrangedKeeps DEF Format
<1>3. FlatMap(TextOf, FlatMap(f, x1)) = FlatMap(SaidOf, x1)
  BY <1>2, PickTypes, FlatMapTwice
<1>4. FlatMap(LinkOf, FlatMap(f, x1)) = FlatMap(UsedOf, x1)
  BY <1>2, PickTypes, FlatMapTwice
<1> DEFINE parts == Mapped(f, x1)
           s == Translation!Input(parts)
<1>5. parts \in Seq(Seq(Item))
  BY MapTyped
<1>6. FlatMap(f, x1) = Seqs!FlattenSeq(parts)
  BY DEF FlatMap
<1> HIDE DEF parts
<1>7. /\ s \in Seq(Item) /\ FlatMap(TextOf, s) = FlatMap(SaidOf, x1)
      /\ FlatMap(LinkOf, s) = FlatMap(UsedOf, x1)
  BY <1>3, <1>4, <1>5, <1>6, InputIs
<1> HIDE DEF s
<1>8. Translation!AllThere(s)
  BY <1>7, PickedIs DEF Translation!AllThere
<1>. QED BY <1>7, <1>8 DEF s, parts

-----------------------------------------------------------------------------
(* ... and every result goes with its call *)

IsCall(x, id) == x.kind = "call" /\ x.id = id

\* Of the calls with this id before position j, the last one is the call r.
LastBefore(s, j, id, r) ==
    \E i \in 1 .. j - 1 : /\ IsCall(s[i], id) /\ s[i].real = r
                          /\ \A k \in 1 .. j - 1 : i < k => ~IsCall(s[k], id)
PairedTo(s, n) ==
    \A j \in 1 .. n : s[j].kind = "output" => LastBefore(s, j, s[j].id, s[j].real)

LEMMA PairedIs ==
    ASSUME NEW s \in Seq(Item), PairedTo(s, Len(s))
    PROVE  Translation!Paired(s)
<1>1. Len(s) \in Nat /\ DOMAIN s = 1 .. Len(s)
  OBVIOUS
<1>2. ASSUME NEW j \in 1 .. Len(s), s[j].kind = "output"
      PROVE  LET calls == {i \in 1 .. (j - 1) : s[i].kind = "call" /\ s[i].id = s[j].id}
             IN  calls # {} /\ s[CHOOSE i \in calls : \A k \in calls : k <= i].real = s[j].real
  <2> DEFINE calls == {i \in 1 .. (j - 1) : s[i].kind = "call" /\ s[i].id = s[j].id}
             last == CHOOSE i \in calls : \A k \in calls : k <= i
  <2>1. PICK i \in 1 .. j - 1 : /\ IsCall(s[i], s[j].id) /\ s[i].real = s[j].real
                                /\ \A k \in 1 .. j - 1 : i < k => ~IsCall(s[k], s[j].id)
    BY <1>2 DEF PairedTo, LastBefore
  <2>2. i \in calls /\ \A k \in calls : k <= i
    BY <1>1, <2>1 DEF IsCall
  <2>3. last \in calls /\ \A k \in calls : k <= last
    <3> HIDE DEF calls
    <3>. QED BY <2>2
  <2>4. last = i
    <3>1. calls \in SUBSET Int
      BY <1>1
    <3> HIDE DEF calls, last
    <3>. QED BY <2>2, <2>3, <3>1
  <2> HIDE DEF last
  <2>5. calls # {} /\ s[last].real = s[j].real
    BY <2>1, <2>2, <2>4
  <2>. QED BY <2>5 DEF last
<1>. QED BY <1>1, <1>2 DEF Translation!Paired

LEMMA IndexTwo ==
    ASSUME NEW s \in Seq(Item), NEW t \in Seq(Item)
    PROVE  /\ s \o t \in Seq(Item) /\ Len(s \o t) = Len(s) + Len(t)
           /\ Len(s) \in Nat /\ Len(t) \in Nat
           /\ \A i \in 1 .. Len(s) : (s \o t)[i] = s[i]
           /\ \A i \in 1 .. Len(t) : (s \o t)[Len(s) + i] = t[i]
           /\ \A j \in 1 .. Len(s) + Len(t) :
                 j \in 1 .. Len(s) \/ \E i \in 1 .. Len(t) : j = Len(s) + i
<1>1. Len(s) \in Nat /\ Len(t) \in Nat
  OBVIOUS
<1> DEFINE u == s \o t
<1>2. u \in Seq(Item) /\ Len(u) = Len(s) + Len(t)
      /\ \A i \in 1 .. Len(s) + Len(t) : u[i] = IF i <= Len(s) THEN s[i] ELSE t[i - Len(s)]
  BY ConcatProperties
<1> HIDE DEF u
<1>3. ASSUME NEW i \in 1 .. Len(s) PROVE u[i] = s[i]
  BY <1>1, <1>2
<1>4. ASSUME NEW i \in 1 .. Len(t) PROVE u[Len(s) + i] = t[i]
  <2>1. Len(s) + i \in 1 .. Len(s) + Len(t) /\ ~(Len(s) + i <= Len(s)) /\ (Len(s) + i) - Len(s) = i
    BY <1>1
  <2>. QED BY <1>2, <2>1
<1>5. ASSUME NEW j \in 1 .. Len(s) + Len(t)
      PROVE  j \in 1 .. Len(s) \/ \E i \in 1 .. Len(t) : j = Len(s) + i
  <2>1. CASE j <= Len(s)
    BY <2>1
  <2>2. CASE ~(j <= Len(s))
    <3>1. j - Len(s) \in 1 .. Len(t) /\ j = Len(s) + (j - Len(s))
      BY <1>1, <2>2
    <3>. QED BY <3>1
  <2>. QED BY <2>1, <2>2
<1>. QED BY <1>1, <1>2, <1>3, <1>4, <1>5 DEF u

\* The results of a message stand for the calls of the message before it.
Linked(p, t) ==
    \A j \in 1 .. Len(t) : t[j].kind = "output" =>
        /\ LastBefore(p, Len(p) + 1, t[j].id, t[j].real)
        /\ \A i \in 1 .. Len(t) : t[i].kind # "call"

LEMMA PairedGrows ==
    ASSUME NEW r \in Seq(Item), NEW p \in Seq(Item), NEW t \in Seq(Item),
           PairedTo(r \o p, Len(r \o p)), Linked(p, t)
    PROVE  PairedTo((r \o p) \o t, Len((r \o p) \o t))
<1> DEFINE s == r \o p
           u == s \o t
<1>1. /\ s \in Seq(Item) /\ Len(s) = Len(r) + Len(p) /\ Len(r) \in Nat /\ Len(p) \in Nat
      /\ \A i \in 1 .. Len(p) : s[Len(r) + i] = p[i]
      /\ \A j \in 1 .. Len(r) + Len(p) : j \in 1 .. Len(r) \/ \E i \in 1 .. Len(p) : j = Len(r) + i
  BY IndexTwo
<1>2. PairedTo(s, Len(s))
  OBVIOUS
<1> HIDE DEF s
<1>3. /\ u \in Seq(Item) /\ Len(u) = Len(s) + Len(t) /\ Len(s) \in Nat /\ Len(t) \in Nat
      /\ \A i \in 1 .. Len(s) : u[i] = s[i]
      /\ \A i \in 1 .. Len(t) : u[Len(s) + i] = t[i]
      /\ \A j \in 1 .. Len(s) + Len(t) : j \in 1 .. Len(s) \/ \E i \in 1 .. Len(t) : j = Len(s) + i
  BY <1>1, IndexTwo
<1> HIDE DEF u
<1>4. ASSUME NEW j \in 1 .. Len(s), u[j].kind = "output" PROVE LastBefore(u, j, u[j].id, u[j].real)
  <2>1. u[j] = s[j] /\ \A i \in 1 .. j - 1 : u[i] = s[i] /\ i \in 1 .. Len(s)
    BY <1>3
  <2>2. LastBefore(s, j, s[j].id, s[j].real)
    BY <1>2, <1>4, <2>1 DEF PairedTo
  <2>. QED BY <2>1, <2>2 DEF LastBefore
<1>5. ASSUME NEW l \in 1 .. Len(t), t[l].kind = "output"
      PROVE  LastBefore(u, Len(s) + l, t[l].id, t[l].real)
  <2> DEFINE id == t[l].id
  <2>1. PICK i \in 1 .. Len(p) : /\ IsCall(p[i], id) /\ p[i].real = t[l].real
                                 /\ \A k \in 1 .. Len(p) : i < k => ~IsCall(p[k], id)
    <3>1. LastBefore(p, Len(p) + 1, id, t[l].real)
      BY <1>5 DEF Linked
    <3>2. (Len(p) + 1) - 1 = Len(p)
      BY <1>1
    <3> HIDE DEF id
    <3>. QED BY <3>1, <3>2 DEF LastBefore
  <2>2. \A k \in 1 .. Len(t) : ~IsCall(t[k], id)
    BY <1>5 DEF Linked, IsCall
  <2> HIDE DEF id
  <2> DEFINE a == Len(r) + i
  <2>3. a \in 1 .. Len(s) /\ a \in 1 .. (Len(s) + l) - 1 /\ u[a] = p[i]
    <3>1. a \in 1 .. Len(s) /\ a \in 1 .. (Len(s) + l) - 1
      BY <1>1, <1>3
    <3>2. u[a] = s[a] /\ s[a] = p[i]
      BY <1>1, <1>3, <3>1
    <3>. QED BY <3>1, <3>2
  <2>4. ASSUME NEW k \in 1 .. (Len(s) + l) - 1, a < k PROVE ~IsCall(u[k], id)
    <3>1. k \in 1 .. Len(s) + Len(t)
      BY <1>3
    <3>2. CASE k \in 1 .. Len(s)
      <4>1. k \in 1 .. Len(r) + Len(p) /\ k \notin 1 .. Len(r)
        BY <1>1, <2>4, <3>2
      <4>2. PICK m \in 1 .. Len(p) : k = Len(r) + m
        BY <1>1, <4>1
      <4>3. i < m
        BY <1>1, <2>4, <4>2
      <4>4. u[k] = p[m]
        BY <1>1, <1>3, <3>2, <4>2
      <4>. QED BY <2>1, <4>3, <4>4
    <3>3. CASE k \notin 1 .. Len(s)
      <4>1. PICK m \in 1 .. Len(t) : k = Len(s) + m
        BY <1>3, <3>1, <3>3
      <4>. QED BY <1>3, <2>2, <4>1
    <3>. QED BY <3>2, <3>3
  <2> HIDE DEF a
  <2>. QED BY <2>1, <2>3, <2>4 DEF LastBefore, id
<1>6. ASSUME NEW j \in 1 .. Len(u), u[j].kind = "output" PROVE LastBefore(u, j, u[j].id, u[j].real)
  <2>1. CASE j \in 1 .. Len(s)
    BY <1>4, <1>6, <2>1
  <2>2. CASE j \notin 1 .. Len(s)
    <3>1. PICK l \in 1 .. Len(t) : j = Len(s) + l
      BY <1>3, <2>2
    <3>2. u[j] = t[l]
      BY <1>3, <3>1
    <3>. QED BY <1>5, <1>6, <3>1, <3>2
  <2>. QED BY <2>1, <2>2
<1>7. PairedTo(u, Len(u))
  BY <1>6 DEF PairedTo
<1>. QED BY <1>7 DEF s, u

\* Results come only after a message, and stand for its calls.
AllLinked(parts) ==
    /\ \A j \in 1 .. Len(parts[1]) : parts[1][j].kind # "output"
    /\ \A n \in 2 .. Len(parts) : Linked(parts[n - 1], parts[n])

LEMMA PartsPaired ==
    ASSUME NEW parts \in Seq(Seq(Item)), AllLinked(parts)
    PROVE  PairedTo(Seqs!FlattenSeq(parts), Len(Seqs!FlattenSeq(parts)))
<1> DEFINE Flat(m) == Seqs!FlattenSeq(First(parts, m))
           n == Len(parts)
           good == {m \in 0 .. n : PairedTo(Flat(m), Len(Flat(m)))}
<1>1. /\ n \in Nat /\ First(parts, 0) = <<>> /\ First(parts, n) = parts
      /\ \A m \in 0 .. n : First(parts, m) \in Seq(Seq(Item))
      /\ \A m \in 0 .. n - 1 : /\ m + 1 \in 1 .. n /\ parts[m + 1] \in Seq(Item)
                               /\ First(parts, m + 1) = Append(First(parts, m), parts[m + 1])
  BY FirstIs
<1>2. Flat(0) = <<>>
  BY <1>1, FlatEmpty
<1>3. ASSUME NEW m \in 0 .. n - 1
      PROVE  Flat(m) \in Seq(Item) /\ Flat(m + 1) = Flat(m) \o parts[m + 1]
  <2>1. m \in 0 .. n
    BY <1>1
  <2>2. First(parts, m) \in Seq(Seq(Item)) /\ parts[m + 1] \in Seq(Item)
        /\ First(parts, m + 1) = Append(First(parts, m), parts[m + 1])
    BY <1>1, <2>1
  <2>. QED BY <2>2, FlatTyped, FlatAppend
<1> HIDE DEF Flat
<1>4. 0 \in good
  <2>1. Len(<<>>) = 0 /\ 0 \in 0 .. n
    BY <1>1
  <2>2. PairedTo(<<>>, 0)
    BY DEF PairedTo
  <2>. QED BY <1>2, <2>1, <2>2
<1>5. ASSUME NEW m \in 0 .. n - 1, m \in good PROVE m + 1 \in good
  <2>1. m + 1 \in 0 .. n /\ m \in Nat
    BY <1>1
  <2>2. CASE m = 0
    <3> DEFINE t == parts[1]
    <3>0. m + 1 = 1
      BY <2>2
    <3>1. t \in Seq(Item) /\ Flat(1) = Flat(m) \o t /\ Flat(m) = <<>>
      <4>1. parts[m + 1] \in Seq(Item) /\ Flat(m + 1) = Flat(m) \o parts[m + 1]
        BY <1>1, <1>3
      <4>2. Flat(m) = <<>>
        BY <1>2, <2>2
      <4>. QED BY <3>0, <4>1, <4>2
    <3>2. \A j \in 1 .. Len(t) : t[j].kind # "output"
      BY DEF AllLinked
    <3> HIDE DEF t
    <3>3. Flat(1) = t
      BY <3>1
    <3>4. PairedTo(t, Len(t))
      BY <3>2 DEF PairedTo
    <3>. QED BY <2>1, <3>0, <3>3, <3>4
  <2>3. CASE m # 0
    <3> DEFINE r == Flat(m - 1)
               p == parts[m]
               t == parts[m + 1]
    <3>1. m - 1 \in 0 .. n - 1 /\ (m - 1) + 1 = m /\ m + 1 \in 2 .. n /\ (m + 1) - 1 = m
      BY <1>1, <2>1, <2>3
    <3>2. r \in Seq(Item) /\ p \in Seq(Item) /\ Flat(m) = r \o p
      BY <1>1, <1>3, <3>1
    <3>3. t \in Seq(Item) /\ Flat(m + 1) = Flat(m) \o t
      BY <1>1, <1>3
    <3>4. Linked(p, t)
      BY <3>1 DEF AllLinked
    <3>5. PairedTo(Flat(m), Len(Flat(m)))
      BY <1>5
    <3> HIDE DEF r, p, t
    <3>6. PairedTo((r \o p) \o t, Len((r \o p) \o t))
      BY <3>2, <3>3, <3>4, <3>5, PairedGrows
    <3>. QED BY <2>1, <3>2, <3>3, <3>6
  <2>. QED BY <2>2, <2>3
<1>6. n \in good
  <2>1. n \in 0 .. n
    BY <1>1
  <2> HIDE DEF good, n
  <2>. QED BY <1>1, <1>4, <1>5, <2>1, StepByStep
<1>. QED BY <1>1, <1>6 DEF Flat

\* Every result of a message has the name of the call it answers, and no later call has it.
Answered(m, p, ci, oi) ==
    \A j \in DOMAIN m.results : \E k \in DOMAIN p.calls :
        /\ ci[k] = oi[j] /\ p.calls[k].id = m.results[j].id
        /\ \A l \in DOMAIN p.calls : k < l => ci[l] # oi[j]

LEMMA CalledLast ==
    ASSUME NEW p \in Talked, p.role = "assistant", NEW ci, NEW oi, Naming(p, ci, oi),
           NEW qp, Arranged(qp, p, ci, oi), NEW id, NEW r,
           NEW k \in DOMAIN p.calls, ci[k] = id, p.calls[k].id = r,
           \A l \in DOMAIN p.calls : k < l => ci[l] # id
    PROVE  LastBefore(qp, Len(qp) + 1, id, r)
<1> DEFINE t == Translation!TextItem(p)
           c == Calling(p, ci)
           n == Len(p.calls)
<1>1. n \in Nat /\ DOMAIN p.calls = 1 .. n
  BY MessageTypes
<1>2. c \in Seq(Item) /\ Len(c) = n
      /\ \A i \in 1 .. n : c[i].kind = "call" /\ c[i].id = ci[i] /\ c[i].real = p.calls[i].id
  BY CallingIs
<1>3. t \in Seq(Item)
  BY TextItemIs
<1>4. qp = t \o c
  BY DEF Arranged
<1> HIDE DEF t, c, n
<1>5. /\ Len(qp) = Len(t) + n /\ Len(t) \in Nat
      /\ \A i \in 1 .. n : qp[Len(t) + i] = c[i]
      /\ \A j \in 1 .. Len(t) + n : j \in 1 .. Len(t) \/ \E i \in 1 .. n : j = Len(t) + i
  BY <1>2, <1>3, <1>4, IndexTwo
<1> DEFINE a == Len(t) + k
<1>6. (Len(qp) + 1) - 1 = Len(t) + n /\ k \in 1 .. n /\ a \in 1 .. Len(t) + n
  BY <1>1, <1>5
<1>7. IsCall(qp[a], id) /\ qp[a].real = r
  <2>1. qp[a] = c[k]
    BY <1>5, <1>6
  <2> HIDE DEF a
  <2>. QED BY <1>2, <1>6, <2>1 DEF IsCall
<1>8. ASSUME NEW x \in 1 .. Len(t) + n, a < x PROVE ~IsCall(qp[x], id)
  <2>1. x \notin 1 .. Len(t)
    BY <1>1, <1>5, <1>6, <1>8
  <2>2. PICK l \in 1 .. n : x = Len(t) + l
    BY <1>5, <2>1
  <2>3. k < l
    BY <1>1, <1>5, <1>6, <1>8, <2>2
  <2>4. ci[l] # id /\ qp[x] = c[l]
    BY <1>1, <1>5, <2>2, <2>3
  <2>. QED BY <1>2, <2>4 DEF IsCall
<1> HIDE DEF a
<1>. QED BY <1>6, <1>7, <1>8 DEF LastBefore

\* What a message is of: texts and one kind more.
LEMMA KindsIn ==
    ASSUME NEW m \in Talked, NEW ci, NEW oi, Naming(m, ci, oi), NEW q, Arranged(q, m, ci, oi),
           NEW j \in 1 .. Len(q)
    PROVE  \/ q[j].kind = "message"
           \/ m.role = "assistant" /\ q[j].kind = "call"
           \/ /\ m.role = "user" /\ q[j].kind = "output"
              /\ \E a \in DOMAIN m.results : q[j].id = oi[a] /\ q[j].real = m.results[a].id
<1> DEFINE t == Translation!TextItem(m)
           c == Calling(m, ci)
           o == Resulting(m, oi)
<1>1. t \in Seq(Item) /\ \A i \in 1 .. Len(t) : t[i].kind = "message"
  BY TextItemIs
<1>2. c \in Seq(Item) /\ \A i \in 1 .. Len(c) : c[i].kind = "call"
  <2>1. c \in Seq(Item) /\ Len(c) = Len(m.calls) /\ \A i \in 1 .. Len(m.calls) : c[i].kind = "call"
    BY CallingIs
  <2>. QED BY <2>1
<1>3. o \in Seq(Item) /\ \A i \in 1 .. Len(o) :
         /\ o[i].kind = "output"
         /\ \E a \in DOMAIN m.results : o[i].id = oi[a] /\ o[i].real = m.results[a].id
  <2>1. /\ o \in Seq(Item) /\ Len(o) = Len(m.results)
        /\ \A i \in 1 .. Len(m.results) :
              o[i].kind = "output" /\ o[i].id = oi[i] /\ o[i].real = m.results[i].id
    BY ResultingIs
  <2>2. DOMAIN m.results = 1 .. Len(m.results)
    BY MessageTypes
  <2> HIDE DEF o
  <2>. QED BY <2>1, <2>2
<1>4. m.role \in {"user", "assistant"}
  BY MessageTypes
<1>5. IF m.role = "user" THEN q = o \o t \/ q = t \o o ELSE q = t \o c
  BY DEF Arranged
<1> HIDE DEF t, c, o
<1>6. ASSUME NEW a \in Seq(Item), NEW b \in Seq(Item), q = a \o b
      PROVE  (\E i \in 1 .. Len(a) : q[j] = a[i]) \/ (\E i \in 1 .. Len(b) : q[j] = b[i])
  <2>1. /\ Len(q) = Len(a) + Len(b)
        /\ \A i \in 1 .. Len(a) : q[i] = a[i]
        /\ \A i \in 1 .. Len(b) : q[Len(a) + i] = b[i]
        /\ \A l \in 1 .. Len(a) + Len(b) : l \in 1 .. Len(a) \/ \E i \in 1 .. Len(b) : l = Len(a) + i
    BY <1>6, IndexTwo
  <2>2. j \in 1 .. Len(a) + Len(b)
    BY <2>1
  <2>3. CASE j \in 1 .. Len(a)
    BY <2>1, <2>3
  <2>4. CASE j \notin 1 .. Len(a)
    <3>1. PICK i \in 1 .. Len(b) : j = Len(a) + i
      BY <2>1, <2>2, <2>4
    <3>2. q[j] = b[i]
      BY <2>1, <3>1
    <3>. QED BY <3>2
  <2>. QED BY <2>3, <2>4
<1>7. CASE m.role = "user" /\ q = o \o t
  <2>1. (\E i \in 1 .. Len(o) : q[j] = o[i]) \/ (\E i \in 1 .. Len(t) : q[j] = t[i])
    BY <1>1, <1>3, <1>6, <1>7
  <2>. QED BY <1>1, <1>3, <1>7, <2>1
<1>8. CASE m.role = "user" /\ q = t \o o
  <2>1. (\E i \in 1 .. Len(t) : q[j] = t[i]) \/ (\E i \in 1 .. Len(o) : q[j] = o[i])
    BY <1>1, <1>3, <1>6, <1>8
  <2>. QED BY <1>1, <1>3, <1>8, <2>1
<1>9. CASE m.role = "assistant"
  <2>1. q = t \o c
    BY <1>5, <1>9
  <2>. QED BY <1>1, <1>2, <1>6, <1>9, <2>1
<1>. QED BY <1>4, <1>5, <1>7, <1>8, <1>9

\* The messages take turns, and each format finds for a result its call.
TakeTurns(ci, oi) ==
    /\ x1 # <<>> => x1[1].role = "user" /\ x1[1].results = <<>>
    /\ \A n \in 2 .. Len(x1) :
          /\ x1[n].role # x1[n - 1].role
          /\ x1[n].role = "user" => Answered(x1[n], x1[n - 1], ci[n - 1], oi[n])

LEMMA FormatPaired ==
    ASSUME x1 \in Seq(Talked), NEW f, Maps(f, Talked, Seq(Item)), NEW ci, NEW oi,
           Format(f, ci, oi), TakeTurns(ci, oi)
    PROVE  Translation!Paired(Translation!Input(Mapped(f, x1)))
<1> DEFINE parts == Mapped(f, x1)
           s == Seqs!FlattenSeq(parts)
           d == Translation!Said("user", 0)
<1>1. /\ Len(x1) \in Nat /\ DOMAIN x1 = 1 .. Len(x1) /\ \A n \in 1 .. Len(x1) : x1[n] \in Talked
      /\ x1 = <<>> <=> Len(x1) = 0
  OBVIOUS
<1>2. parts \in Seq(Seq(Item)) /\ Len(parts) = Len(x1) /\ \A n \in 1 .. Len(x1) : parts[n] = f[x1[n]]
  <2>1. parts \in Seq(Seq(Item)) /\ Len(parts) = Len(x1)
    BY MapTyped
  <2>2. \A n \in 1 .. Len(x1) : parts[n] = f[x1[n]]
    BY <1>1 DEF Mapped
  <2>. QED BY <2>1, <2>2
<1>3. Translation!Input(parts) = IF s = <<>> THEN <<d>> ELSE s
  BY TalkFlat DEF Translation!Input, Translation!NoText
<1>4. d \in Item /\ d.kind = "message"
  BY DEF Translation!Said, Item, AnyItem
<1>5. \A n \in 1 .. Len(x1) : /\ Naming(x1[n], ci[n], oi[n]) /\ OneSide(x1[n])
                              /\ Arranged(parts[n], x1[n], ci[n], oi[n])
  BY <1>2 DEF Format
<1> HIDE DEF parts, d
<1>6. CASE s = <<>>
  <2> DEFINE one == <<d>>
  <2>1. one \in Seq(Item) /\ Len(one) = 1 /\ one[1] = d /\ \A i \in 1 .. 1 : i = 1
    BY <1>4
  <2>2. Translation!Input(parts) = one
    BY <1>3, <1>6
  <2> HIDE DEF one
  <2>3. PairedTo(one, Len(one))
    BY <1>4, <2>1 DEF PairedTo
  <2>. QED BY <2>1, <2>2, <2>3, PairedIs DEF parts
<1>7. CASE s # <<>>
  <2>1. x1 # <<>>
    <3>1. CASE x1 = <<>>
      <4>1. parts = <<>>
        BY <1>1, <1>2, <3>1
      <4>. QED BY <1>7, <4>1, FlatEmpty
    <3>. QED BY <3>1
  <2>2. ASSUME NEW j \in 1 .. Len(parts[1]) PROVE parts[1][j].kind # "output"
    <3>1. 1 \in 1 .. Len(x1) /\ x1[1] \in Talked
      BY <1>1, <2>1
    <3>2. x1[1].results = <<>> /\ DOMAIN x1[1].results = {}
      BY <2>1 DEF TakeTurns
    <3>3. Naming(x1[1], ci[1], oi[1]) /\ Arranged(parts[1], x1[1], ci[1], oi[1])
      BY <1>5, <3>1
    <3>. QED BY <3>1, <3>2, <3>3, KindsIn
  <2>3. ASSUME NEW n \in 2 .. Len(parts) PROVE Linked(parts[n - 1], parts[n])
    <3> DEFINE m == x1[n]
               p == x1[n - 1]
               q == parts[n]
               qp == parts[n - 1]
    <3>1. n \in 2 .. Len(x1) /\ n \in 1 .. Len(x1) /\ n - 1 \in 1 .. Len(x1)
      BY <1>1, <1>2
    <3>2. m \in Talked /\ p \in Talked
      BY <1>1, <3>1
    <3>3. Naming(m, ci[n], oi[n]) /\ Arranged(q, m, ci[n], oi[n])
      BY <1>5, <3>1
    <3>4. Naming(p, ci[n - 1], oi[n - 1]) /\ Arranged(qp, p, ci[n - 1], oi[n - 1])
      BY <1>5, <3>1
    <3>5. m.role # p.role /\ (m.role = "user" => Answered(m, p, ci[n - 1], oi[n]))
      BY <3>1 DEF TakeTurns
    <3>6. m.role \in {"user", "assistant"} /\ p.role \in {"user", "assistant"}
      BY <3>2, MessageTypes
    <3> HIDE DEF m, p, q, qp
    <3>7. ASSUME NEW j \in 1 .. Len(q), q[j].kind = "output"
          PROVE  /\ LastBefore(qp, Len(qp) + 1, q[j].id, q[j].real)
                 /\ \A i \in 1 .. Len(q) : q[i].kind # "call"
      <4>1. /\ m.role = "user"
            /\ \E a \in DOMAIN m.results : q[j].id = oi[n][a] /\ q[j].real = m.results[a].id
        BY <3>2, <3>3, <3>7, KindsIn
      <4>2. PICK a \in DOMAIN m.results : q[j].id = oi[n][a] /\ q[j].real = m.results[a].id
        BY <4>1
      <4>3. PICK k \in DOMAIN p.calls :
               /\ ci[n - 1][k] = oi[n][a] /\ p.calls[k].id = m.results[a].id
               /\ \A l \in DOMAIN p.calls : k < l => ci[n - 1][l] # oi[n][a]
        BY <3>5, <4>1 DEF Answered
      <4>4. p.role = "assistant"
        BY <3>5, <3>6, <4>1
      <4>5. LastBefore(qp, Len(qp) + 1, oi[n][a], m.results[a].id)
        BY <3>2, <3>4, <4>3, <4>4, CalledLast
      <4>6. \A i \in 1 .. Len(q) : q[i].kind # "call"
        BY <3>2, <3>3, <4>1, KindsIn
      <4>. QED BY <4>2, <4>5, <4>6
    <3>8. Linked(qp, q)
      BY <3>7 DEF Linked
    <3>. QED BY <3>8 DEF q, qp
  <2>4. AllLinked(parts)
    BY <2>2, <2>3 DEF AllLinked
  <2>5. PairedTo(s, Len(s)) /\ s \in Seq(Item)
    BY <1>2, <2>4, PartsPaired, FlatTyped
  <2> HIDE DEF s
  <2>6. Translation!Input(parts) = s
    BY <1>3, <1>7
  <2>. QED BY <2>5, <2>6, PairedIs DEF parts
<1>. QED BY <1>6, <1>7

-----------------------------------------------------------------------------
(* The formats that name calls by an id, and the one that names the function *)

RealCalls(m) == [i \in DOMAIN m.calls |-> m.calls[i].id]
RealResults(m) == [i \in DOMAIN m.results |-> m.results[i].id]
ToolCalls(m) == [i \in DOMAIN m.calls |-> m.calls[i].tool]
ToolResults(m) == [i \in DOMAIN m.results |-> m.results[i].tool]

LEMMA RealNaming ==
    ASSUME NEW m \in Talked
    PROVE  /\ Naming(m, RealCalls(m), RealResults(m)) /\ Naming(m, ToolCalls(m), ToolResults(m))
           /\ \A i \in DOMAIN m.calls :
                 RealCalls(m)[i] = m.calls[i].id /\ ToolCalls(m)[i] = m.calls[i].tool
           /\ \A i \in DOMAIN m.results :
                 RealResults(m)[i] = m.results[i].id /\ ToolResults(m)[i] = m.results[i].tool
<1>1. /\ \A j \in DOMAIN m.calls : m.calls[j].id \in Nat /\ m.calls[j].tool \in Tools
      /\ \A j \in DOMAIN m.results : m.results[j].id \in Nat /\ m.results[j].tool \in Tools
  BY MessageTypes
<1>. QED BY <1>1 DEF Naming, RealCalls, RealResults, ToolCalls, ToolResults

LEMMA NoSide ==
    ASSUME NEW m \in Talked, OneSide(m), NEW ci, NEW oi
    PROVE  /\ m.role = "user" => Calling(m, ci) = <<>>
           /\ m.role = "assistant" => Resulting(m, oi) = <<>>
  BY DEF OneSide, Calling, Resulting

LEMMA OpenAIArranged ==
    ASSUME NEW m \in Talked
    PROVE  Arranged(Translation!OpenAIItems(m), m, RealCalls(m), RealResults(m))
<1>1. [i \in DOMAIN m.results |-> Translation!Output(m.results[i].id, m.results[i].id)]
        = Resulting(m, RealResults(m))
  BY RealNaming DEF Resulting
<1>2. [i \in DOMAIN m.calls |-> Translation!Called(m.calls[i].id, m.calls[i].id)]
        = Calling(m, RealCalls(m))
  BY RealNaming DEF Calling
<1>. QED BY <1>1, <1>2 DEF Arranged, Translation!OpenAIItems

LEMMA LegacyArranged ==
    ASSUME NEW m \in Talked
    PROVE  Arranged(Translation!LegacyItems(m), m, ToolCalls(m), ToolResults(m))
<1>1. [i \in DOMAIN m.results |-> Translation!Output(m.results[i].tool, m.results[i].id)]
        = Resulting(m, ToolResults(m))
  BY RealNaming DEF Resulting
<1>2. [i \in DOMAIN m.calls |-> Translation!Called(m.calls[i].tool, m.calls[i].id)]
        = Calling(m, ToolCalls(m))
  BY RealNaming DEF Calling
<1>. QED BY <1>1, <1>2 DEF Arranged, Translation!LegacyItems

LEMMA AnthropicArranged ==
    ASSUME NEW m \in Talked, OneSide(m)
    PROVE  Arranged(Translation!AnthropicItems(m), m, RealCalls(m), RealResults(m))
<1> DEFINE t == Translation!TextItem(m)
           c == Calling(m, RealCalls(m))
           o == Resulting(m, RealResults(m))
<1>1. [i \in DOMAIN m.results |-> Translation!Output(m.results[i].id, m.results[i].id)] = o
  BY RealNaming DEF Resulting
<1>2. [i \in DOMAIN m.calls |-> Translation!Called(m.calls[i].id, m.calls[i].id)] = c
  BY RealNaming DEF Calling
<1>3. Translation!AnthropicItems(m) = (t \o c) \o o
  BY <1>1, <1>2 DEF Translation!AnthropicItems
<1>4. t \in Seq(Item) /\ c \in Seq(Item)
  BY TextItemIs, CallingIs, RealNaming
<1>5. (m.role = "user" => c = <<>>) /\ (m.role = "assistant" => o = <<>>)
  BY NoSide
<1>6. m.role \in {"user", "assistant"}
  BY MessageTypes
<1>7. Arranged(Translation!AnthropicItems(m), m, RealCalls(m), RealResults(m))
        <=> IF m.role = "user" THEN (t \o c) \o o = o \o t \/ (t \o c) \o o = t \o o
                               ELSE (t \o c) \o o = t \o c
  BY <1>3 DEF Arranged
<1> HIDE DEF t, c, o
<1>8. t \o <<>> = t /\ (t \o c) \o <<>> = t \o c
  <2>1. t \o c \in Seq(Item)
    BY <1>4
  <2>. QED BY <1>4, <2>1
<1>. QED BY <1>5, <1>6, <1>7, <1>8

\* The conversation, as the turns make it.
LEMMA TurnsAre ==
    ASSUME x1 \in Seq(Talked), Translation!InTurns
    PROVE  /\ Len(x1) \in Nat /\ DOMAIN x1 = 1 .. Len(x1)
           /\ \A n \in 1 .. Len(x1) : x1[n] \in Talked /\ OneSide(x1[n])
           /\ x1 # <<>> => x1[1].role = "user" /\ x1[1].results = <<>>
           /\ \A n \in 2 .. Len(x1) :
                 /\ n \in 1 .. Len(x1) /\ n - 1 \in 1 .. Len(x1)
                 /\ x1[n].role # x1[n - 1].role
                 /\ x1[n].role = "user" => Translation!Answers(x1[n].results, x1[n - 1].calls)
           /\ \A n \in 1 .. Len(x1) : \A a, b \in DOMAIN x1[n].calls :
                 a < b => x1[n].calls[a].id < x1[n].calls[b].id
<1>1. /\ Len(x1) \in Nat /\ DOMAIN x1 = 1 .. Len(x1) /\ \A n \in 1 .. Len(x1) : x1[n] \in Talked
      /\ (x1 # <<>> => 1 \in 1 .. Len(x1))
  OBVIOUS
<1>2. \A n \in 2 .. Len(x1) : n \in 1 .. Len(x1) /\ n - 1 \in 1 .. Len(x1) /\ n > 1
  BY <1>1
<1>3. \A n \in DOMAIN x1 :
        /\ OneSide(x1[n])
        /\ n = 1 => x1[n].role = "user" /\ x1[n].results = <<>>
        /\ n > 1 => x1[n].role # x1[n - 1].role
        /\ n > 1 /\ x1[n].role = "user" => Translation!Answers(x1[n].results, x1[n - 1].calls)
        /\ \A a, b \in DOMAIN x1[n].calls : a < b => x1[n].calls[a].id < x1[n].calls[b].id
  BY DEF Translation!InTurns, OneSide
<1>4. ASSUME NEW n \in 2 .. Len(x1)
      PROVE  /\ n \in 1 .. Len(x1) /\ n - 1 \in 1 .. Len(x1)
             /\ x1[n].role # x1[n - 1].role
             /\ x1[n].role = "user" => Translation!Answers(x1[n].results, x1[n - 1].calls)
  BY <1>1, <1>2, <1>3
<1>5. x1 # <<>> => x1[1].role = "user" /\ x1[1].results = <<>>
  BY <1>1, <1>3
<1>. QED BY <1>1, <1>3, <1>4, <1>5

LEMMA AnswersAre ==
    ASSUME NEW results, NEW calls, Translation!Answers(results, calls)
    PROVE  \E p \in [DOMAIN calls -> DOMAIN calls] :
              /\ DOMAIN results = DOMAIN calls
              /\ \A j \in DOMAIN calls : results[j] = calls[p[j]]
<1>1. PICK p \in Translation!Bijection(DOMAIN calls, DOMAIN calls) : results = [i \in DOMAIN calls |-> calls[p[i]]]
  BY DEF Translation!Answers
<1>2. p \in [DOMAIN calls -> DOMAIN calls]
  BY <1>1 DEF Translation!Bijection, Translation!Injection
<1>3. DOMAIN results = DOMAIN calls /\ \A j \in DOMAIN calls : results[j] = calls[p[j]]
  BY <1>1
<1>. QED BY <1>2, <1>3

\* A conversation has all its parts in a format, and each result with its call.
LEMMA FormatCarries ==
    ASSUME x1 \in Seq(Talked), Translation!InTurns, NEW f, NEW ci, NEW oi,
           \A m \in Talked : OneSide(m) => f[m] \in Seq(Item),
           \A n \in 1 .. Len(x1) : /\ Naming(x1[n], ci[n], oi[n])
                                   /\ Arranged(f[x1[n]], x1[n], ci[n], oi[n])
    PROVE  LET s == Translation!Input([i \in DOMAIN x1 |-> f[x1[i]]])
           IN  /\ s \in Seq(Item) /\ Translation!AllThere(s)
               /\ (\A n \in 2 .. Len(x1) : x1[n].role = "user" =>
                      Answered(x1[n], x1[n - 1], ci[n - 1], oi[n]))
                    => Translation!Paired(s)
<1> DEFINE g == [m \in Talked |-> IF OneSide(m) THEN f[m] ELSE <<>>]
<1>1. /\ Len(x1) \in Nat /\ DOMAIN x1 = 1 .. Len(x1)
      /\ \A n \in 1 .. Len(x1) : x1[n] \in Talked /\ OneSide(x1[n])
      /\ x1 # <<>> => x1[1].role = "user" /\ x1[1].results = <<>>
      /\ \A n \in 2 .. Len(x1) : x1[n].role # x1[n - 1].role
  BY TurnsAre
<1>2. g \in [Talked -> Seq(Item)]
  <2>1. \A m \in Talked : g[m] \in Seq(Item)
    OBVIOUS
  <2>. QED BY <2>1
<1>3. \A n \in 1 .. Len(x1) : g[x1[n]] = f[x1[n]]
  BY <1>1
<1> HIDE DEF g
<1>4. Mapped(g, x1) = [i \in DOMAIN x1 |-> f[x1[i]]]
  BY <1>1, <1>3 DEF Mapped
<1>5. Maps(g, Talked, Seq(Item)) /\ Format(g, ci, oi)
  BY <1>1, <1>2, <1>3 DEF Maps, Format
<1>6. /\ Translation!Input(Mapped(g, x1)) \in Seq(Item)
      /\ Translation!AllThere(Translation!Input(Mapped(g, x1)))
  BY <1>5, FormatKeeps
<1>7. ASSUME \A n \in 2 .. Len(x1) : x1[n].role = "user" =>
                Answered(x1[n], x1[n - 1], ci[n - 1], oi[n])
      PROVE  Translation!Paired(Translation!Input(Mapped(g, x1)))
  <2>1. TakeTurns(ci, oi)
    BY <1>1, <1>7 DEF TakeTurns
  <2>. QED BY <1>5, <2>1, FormatPaired
<1>. QED BY <1>4, <1>6, <1>7

LEMMA RealAnswered ==
    ASSUME NEW m \in Talked, NEW p \in Talked, Translation!Answers(m.results, p.calls),
           \A a, b \in DOMAIN p.calls : a < b => p.calls[a].id < p.calls[b].id
    PROVE  Answered(m, p, RealCalls(p), RealResults(m))
<1>1. PICK q \in [DOMAIN p.calls -> DOMAIN p.calls] :
        DOMAIN m.results = DOMAIN p.calls /\ \A j \in DOMAIN p.calls : m.results[j] = p.calls[q[j]]
  BY AnswersAre
<1>2. ASSUME NEW j \in DOMAIN m.results
      PROVE  /\ q[j] \in DOMAIN p.calls
             /\ RealCalls(p)[q[j]] = RealResults(m)[j] /\ p.calls[q[j]].id = m.results[j].id
             /\ \A l \in DOMAIN p.calls : q[j] < l => RealCalls(p)[l] # RealResults(m)[j]
  <2>1. j \in DOMAIN p.calls /\ q[j] \in DOMAIN p.calls /\ m.results[j] = p.calls[q[j]]
    BY <1>1
  <2>2. RealCalls(p)[q[j]] = p.calls[q[j]].id /\ RealResults(m)[j] = p.calls[q[j]].id
    BY <2>1 DEF RealCalls, RealResults
  <2>3. ASSUME NEW l \in DOMAIN p.calls, q[j] < l PROVE RealCalls(p)[l] # RealResults(m)[j]
    <3>1. p.calls[q[j]].id < p.calls[l].id /\ p.calls[q[j]].id \in Nat /\ p.calls[l].id \in Nat
      BY <2>1, <2>3, MessageTypes
    <3>2. RealCalls(p)[l] = p.calls[l].id
      BY DEF RealCalls
    <3>. QED BY <2>2, <3>1, <3>2
  <2>. QED BY <2>1, <2>2, <2>3
<1>. QED BY <1>2 DEF Answered

LEMMA ToolAnswered ==
    ASSUME NEW m \in Talked, NEW p \in Talked, Translation!Answers(m.results, p.calls),
           Len(p.calls) <= 1
    PROVE  Answered(m, p, ToolCalls(p), ToolResults(m))
<1>1. PICK q \in [DOMAIN p.calls -> DOMAIN p.calls] :
        DOMAIN m.results = DOMAIN p.calls /\ \A j \in DOMAIN p.calls : m.results[j] = p.calls[q[j]]
  BY AnswersAre
<1>2. DOMAIN p.calls = 1 .. Len(p.calls) /\ Len(p.calls) \in Nat
  BY MessageTypes
<1>3. \A k, l \in DOMAIN p.calls : ~(k < l)
  BY <1>2
<1>4. ASSUME NEW j \in DOMAIN m.results
      PROVE  /\ q[j] \in DOMAIN p.calls
             /\ ToolCalls(p)[q[j]] = ToolResults(m)[j] /\ p.calls[q[j]].id = m.results[j].id
  <2>1. j \in DOMAIN p.calls /\ q[j] \in DOMAIN p.calls /\ m.results[j] = p.calls[q[j]]
    BY <1>1
  <2>. QED BY <2>1 DEF ToolCalls, ToolResults
<1>. QED BY <1>3, <1>4 DEF Answered

\* What the property says of a format.
Sound(items) == items \in Seq(Item) /\ Translation!AllThere(items)

LEMMA OpenAISound ==
    ASSUME x1 \in Seq(Talked), Translation!InTurns
    PROVE  Sound(Translation!OpenAIInput) /\ Translation!Paired(Translation!OpenAIInput)
<1> DEFINE f == [m \in Talked |-> Translation!OpenAIItems(m)]
           ci == [n \in DOMAIN x1 |-> RealCalls(x1[n])]
           oi == [n \in DOMAIN x1 |-> RealResults(x1[n])]
<1>1. ASSUME NEW m \in Talked, OneSide(m) PROVE f[m] \in Seq(Item)
  BY <1>1, OpenAIArranged, RealNaming, ArrangedKeeps
<1>2. ASSUME NEW n \in 1 .. Len(x1)
      PROVE  Naming(x1[n], ci[n], oi[n]) /\ Arranged(f[x1[n]], x1[n], ci[n], oi[n])
  <2>1. x1[n] \in Talked /\ n \in DOMAIN x1
    BY TurnsAre
  <2>. QED BY <2>1, OpenAIArranged, RealNaming
<1>3. ASSUME NEW n \in 2 .. Len(x1), x1[n].role = "user"
      PROVE  Answered(x1[n], x1[n - 1], ci[n - 1], oi[n])
  <2>1. /\ n \in DOMAIN x1 /\ n - 1 \in DOMAIN x1 /\ x1[n] \in Talked /\ x1[n - 1] \in Talked
        /\ Translation!Answers(x1[n].results, x1[n - 1].calls)
        /\ \A a, b \in DOMAIN x1[n - 1].calls : a < b => x1[n - 1].calls[a].id < x1[n - 1].calls[b].id
    BY <1>3, TurnsAre
  <2>. QED BY <2>1, RealAnswered
<1>4. Translation!OpenAIInput = Translation!Input([i \in DOMAIN x1 |-> f[x1[i]]])
  <2>1. \A i \in DOMAIN x1 : f[x1[i]] = Translation!OpenAIItems(x1[i])
    BY TurnsAre
  <2>. QED BY <2>1 DEF Translation!OpenAIInput
<1> HIDE DEF f, ci, oi
<1>. QED BY <1>1, <1>2, <1>3, <1>4, FormatCarries DEF Sound

LEMMA AnthropicSound ==
    ASSUME x1 \in Seq(Talked), Translation!InTurns
    PROVE  Sound(Translation!AnthropicInput) /\ Translation!Paired(Translation!AnthropicInput)
<1> DEFINE f == [m \in Talked |-> Translation!AnthropicItems(m)]
           ci == [n \in DOMAIN x1 |-> RealCalls(x1[n])]
           oi == [n \in DOMAIN x1 |-> RealResults(x1[n])]
<1>1. ASSUME NEW m \in Talked, OneSide(m) PROVE f[m] \in Seq(Item)
  BY <1>1, AnthropicArranged, RealNaming, ArrangedKeeps
<1>2. ASSUME NEW n \in 1 .. Len(x1)
      PROVE  Naming(x1[n], ci[n], oi[n]) /\ Arranged(f[x1[n]], x1[n], ci[n], oi[n])
  <2>1. x1[n] \in Talked /\ OneSide(x1[n]) /\ n \in DOMAIN x1
    BY TurnsAre
  <2>. QED BY <2>1, AnthropicArranged, RealNaming
<1>3. ASSUME NEW n \in 2 .. Len(x1), x1[n].role = "user"
      PROVE  Answered(x1[n], x1[n - 1], ci[n - 1], oi[n])
  <2>1. /\ n \in DOMAIN x1 /\ n - 1 \in DOMAIN x1 /\ x1[n] \in Talked /\ x1[n - 1] \in Talked
        /\ Translation!Answers(x1[n].results, x1[n - 1].calls)
        /\ \A a, b \in DOMAIN x1[n - 1].calls : a < b => x1[n - 1].calls[a].id < x1[n - 1].calls[b].id
    BY <1>3, TurnsAre
  <2>. QED BY <2>1, RealAnswered
<1>4. Translation!AnthropicInput = Translation!Input([i \in DOMAIN x1 |-> f[x1[i]]])
  <2>1. \A i \in DOMAIN x1 : f[x1[i]] = Translation!AnthropicItems(x1[i])
    BY TurnsAre
  <2>. QED BY <2>1 DEF Translation!AnthropicInput
<1> HIDE DEF f, ci, oi
<1>. QED BY <1>1, <1>2, <1>3, <1>4, FormatCarries DEF Sound

LEMMA LegacySound ==
    ASSUME x1 \in Seq(Talked), Translation!InTurns, Translation!OneCallAtATime
    PROVE  Sound(Translation!LegacyInput) /\ Translation!Paired(Translation!LegacyInput)
<1> DEFINE f == [m \in Talked |-> Translation!LegacyItems(m)]
           ci == [n \in DOMAIN x1 |-> ToolCalls(x1[n])]
           oi == [n \in DOMAIN x1 |-> ToolResults(x1[n])]
<1>1. ASSUME NEW m \in Talked, OneSide(m) PROVE f[m] \in Seq(Item)
  BY <1>1, LegacyArranged, RealNaming, ArrangedKeeps
<1>2. ASSUME NEW n \in 1 .. Len(x1)
      PROVE  Naming(x1[n], ci[n], oi[n]) /\ Arranged(f[x1[n]], x1[n], ci[n], oi[n])
  <2>1. x1[n] \in Talked /\ n \in DOMAIN x1
    BY TurnsAre
  <2>. QED BY <2>1, LegacyArranged, RealNaming
<1>3. ASSUME NEW n \in 2 .. Len(x1), x1[n].role = "user"
      PROVE  Answered(x1[n], x1[n - 1], ci[n - 1], oi[n])
  <2>1. /\ n \in DOMAIN x1 /\ n - 1 \in DOMAIN x1 /\ x1[n] \in Talked /\ x1[n - 1] \in Talked
        /\ Translation!Answers(x1[n].results, x1[n - 1].calls)
    BY <1>3, TurnsAre
  <2>2. Len(x1[n - 1].calls) <= 1
    BY <2>1 DEF Translation!OneCallAtATime
  <2>. QED BY <2>1, <2>2, ToolAnswered
<1>4. Translation!LegacyInput = Translation!Input([i \in DOMAIN x1 |-> f[x1[i]]])
  <2>1. \A i \in DOMAIN x1 : f[x1[i]] = Translation!LegacyItems(x1[i])
    BY TurnsAre
  <2>. QED BY <2>1 DEF Translation!LegacyInput
<1> HIDE DEF f, ci, oi
<1>. QED BY <1>1, <1>2, <1>3, <1>4, FormatCarries DEF Sound

-----------------------------------------------------------------------------
(* The Gemini format, with the ids it makes up *)

Part == [kind : {"call", "response"}, tool : Tools, real : Nat]
Numbering == [n : Nat, ids : [Tools -> Seq(Nat)], items : Seq(Item)]
PartStep == [s \in Numbering |-> [p \in Part |-> Translation!GeminiPart(s, p)]]
PartsFold(base, parts) ==
    Translation!FoldLeft(Translation!GeminiPart, base, parts)
PartsFolds(h, base, parts) ==
    h = [t \in SUBSET DOMAIN parts |->
            IF t = {} THEN base
            ELSE Translation!GeminiPart(h[t \ {Translation!Max(t)}], parts[Translation!Max(t)])]

LEMMA PartsFoldIs ==
    ASSUME NEW base, NEW parts
    PROVE  PartsFold(base, parts) = (CHOOSE h : PartsFolds(h, base, parts))[DOMAIN parts]
  BY DEF PartsFold, PartsFolds, Translation!FoldLeft, Translation!MapThenFoldSet

LEMMA ItemsTyped ==
    ASSUME NEW id \in Nat, NEW real \in Nat
    PROVE  Translation!Called(id, real) \in Item /\ Translation!Output(id, real) \in Item
  BY DEF Translation!Called, Translation!Output, Translation!NoText, Item, AnyItem

LEMMA GeminiPartTyped ==
    ASSUME NEW s \in Numbering, NEW p \in Part
    PROVE  /\ Translation!GeminiPart(s, p) \in Numbering
           /\ p.kind = "call" =>
                 /\ Translation!GeminiPart(s, p).n = s.n + 1
                 /\ Translation!GeminiPart(s, p).items = Append(s.items, Translation!Called(s.n, p.real))
           /\ p.kind = "response" /\ s.ids[p.tool] = <<>> =>
                 /\ Translation!GeminiPart(s, p).n = s.n + 1
                 /\ Translation!GeminiPart(s, p).ids = s.ids
                 /\ Translation!GeminiPart(s, p).items = Append(s.items, Translation!Output(s.n, p.real))
<1> DEFINE q == Translation!GeminiPart(s, p)
           w == s.ids[p.tool]
<1>1. s.n \in Nat /\ s.n + 1 \in Nat /\ s.ids \in [Tools -> Seq(Nat)] /\ s.items \in Seq(Item)
      /\ s = [n |-> s.n, ids |-> s.ids, items |-> s.items]
  BY DEF Numbering
<1>2. p.kind \in {"call", "response"} /\ p.tool \in Tools /\ p.real \in Nat
  BY DEF Part
<1>3. w \in Seq(Nat)
  BY <1>1, <1>2
<1>4. CASE p.kind = "call"
  <2> DEFINE ids == [s.ids EXCEPT ![p.tool] = Append(w, s.n)]
             items == Append(s.items, Translation!Called(s.n, p.real))
  <2>1. q = [n |-> s.n + 1, ids |-> ids, items |-> items]
    BY <1>4 DEF Translation!GeminiPart
  <2>2. ids \in [Tools -> Seq(Nat)]
    BY <1>1, <1>2, <1>3
  <2>3. items \in Seq(Item)
    BY <1>1, <1>2, ItemsTyped
  <2> HIDE DEF q, ids
  <2>4. q \in Numbering
    <3> HIDE DEF items
    <3>. QED BY <1>1, <2>1, <2>2, <2>3 DEF Numbering
  <2>5. q.n = s.n + 1 /\ q.items = items
    BY <2>1
  <2>. QED BY <1>4, <2>4, <2>5 DEF q
<1>5. CASE p.kind = "response" /\ w # <<>>
  <2> DEFINE ids == [s.ids EXCEPT ![p.tool] = Tail(w)]
             items == Append(s.items, Translation!Output(Head(w), p.real))
  <2>1. q = [n |-> s.n, ids |-> ids, items |-> items]
    <3>1. q = [s EXCEPT !.ids[p.tool] = Tail(@), !.items = Append(@, Translation!Output(Head(w), p.real))]
      BY <1>5 DEF Translation!GeminiPart
    <3>. QED BY <1>1, <3>1 DEF Numbering
  <2>2. Head(w) \in Nat /\ Tail(w) \in Seq(Nat)
    BY <1>3, <1>5
  <2>3. ids \in [Tools -> Seq(Nat)]
    BY <1>1, <1>2, <2>2
  <2>4. items \in Seq(Item)
    BY <1>1, <1>2, <2>2, ItemsTyped
  <2> HIDE DEF q, ids, items, w
  <2>5. q \in Numbering
    BY <1>1, <2>1, <2>3, <2>4 DEF Numbering
  <2>. QED BY <1>5, <2>5 DEF q, w
<1>6. CASE p.kind = "response" /\ w = <<>>
  <2> DEFINE items == Append(s.items, Translation!Output(s.n, p.real))
  <2>1. q = [n |-> s.n + 1, ids |-> s.ids, items |-> items]
    <3>1. q = [s EXCEPT !.n = @ + 1, !.items = Append(@, Translation!Output(s.n, p.real))]
      BY <1>6 DEF Translation!GeminiPart
    <3>. QED BY <1>1, <3>1
  <2>2. items \in Seq(Item)
    BY <1>1, <1>2, ItemsTyped
  <2> HIDE DEF q
  <2>3. q \in Numbering
    <3> HIDE DEF items
    <3>. QED BY <1>1, <2>1, <2>2 DEF Numbering
  <2>4. q.n = s.n + 1 /\ q.ids = s.ids /\ q.items = items
    BY <2>1
  <2>. QED BY <1>6, <2>3, <2>4 DEF q
<1>. QED BY <1>2, <1>4, <1>5, <1>6

LEMMA PartsRun ==
    ASSUME NEW base \in Numbering, NEW parts \in Seq(Part)
    PROVE  RunTo(Numbering, parts, base, PartStep, PartsFold(base, parts))
<1> DEFINE n == Len(parts)
           h == CHOOSE h : PartsFolds(h, base, parts)
<1>1. n \in Nat /\ DOMAIN parts = 1 .. n /\ \A i \in 1 .. n : parts[i] \in Part
  OBVIOUS
<1>2. PartStep \in [Numbering -> [Part -> Numbering]]
      /\ \A s \in Numbering, p \in Part : PartStep[s][p] = Translation!GeminiPart(s, p)
  BY GeminiPartTyped DEF PartStep
<1>3. \A t : Translation!Max(t) = Seqs!Max(t)
  BY DEF Translation!Max, Seqs!Max
<1>4. \E g : PartsFolds(g, base, parts)
  <2>0. PICK g : RunFolds(g, Numbering, parts, base, PartStep)
    BY <1>2, RunExists
  <2>1. /\ \A t \in SUBSET (1 .. n) : g[t] \in Numbering
        /\ g = [t \in SUBSET (1 .. n) |->
                  IF t = {} THEN base ELSE PartStep[g[t \ {Seqs!Max(t)}]][parts[Seqs!Max(t)]]]
    BY <2>0 DEF RunFolds
  <2>2. ASSUME NEW t \in SUBSET (1 .. n)
        PROVE  (IF t = {} THEN base ELSE PartStep[g[t \ {Seqs!Max(t)}]][parts[Seqs!Max(t)]])
                 = IF t = {} THEN base
                   ELSE Translation!GeminiPart(g[t \ {Translation!Max(t)}], parts[Translation!Max(t)])
    <3>1. CASE t # {}
      <4>1. Seqs!Max(t) \in 1 .. n
        BY <1>1, <3>1, LastPosition
      <4>2. parts[Seqs!Max(t)] \in Part /\ g[t \ {Seqs!Max(t)}] \in Numbering
        BY <1>1, <2>1, <4>1
      <4>. QED BY <1>2, <1>3, <3>1, <4>2
    <3>. QED BY <3>1
  <2>3. PartsFolds(g, base, parts)
    BY <1>1, <2>1, <2>2 DEF PartsFolds
  <2>. QED BY <2>3
<1>5. PartsFolds(h, base, parts)
  BY <1>4
<1>6. PartsFold(base, parts) = h[1 .. n]
  BY <1>1, PartsFoldIs
<1> HIDE DEF h
<1>7. h[1 .. 0] = base
  <2>1. 1 .. 0 = {} /\ 1 .. 0 \in SUBSET DOMAIN parts
    BY SMTT(60), <1>1
  <2>. QED BY <1>5, <2>1 DEF PartsFolds
<1>8. ASSUME NEW j \in 1 .. n, h[1 .. j - 1] \in Numbering
      PROVE  h[1 .. j] = PartStep[h[1 .. j - 1]][parts[j]]
  <2>1. j \in Nat /\ j # 0 /\ 1 .. j # {} /\ 1 .. j \in SUBSET DOMAIN parts
        /\ (1 .. j) \ {j} = 1 .. j - 1
    <3>1. j \in Nat /\ j # 0 /\ j \in 1 .. j
      BY <1>1
    <3>2. 1 .. j \in SUBSET DOMAIN parts
      BY <1>1
    <3>3. (1 .. j) \ {j} = 1 .. j - 1
      BY <3>1
    <3>. QED BY <3>1, <3>2, <3>3
  <2>2. Translation!Max(1 .. j) = j
    BY <1>3, <2>1, LastOfRange
  <2>3. h[1 .. j] = Translation!GeminiPart(h[1 .. j - 1], parts[j])
    BY <1>5, <2>1, <2>2 DEF PartsFolds
  <2>. QED BY <1>1, <1>2, <1>8, <2>3
<1>9. RunSteps(h, Numbering, parts, base, PartStep)
  BY <1>7, <1>8 DEF RunSteps
<1>10. RunTo(Numbering, parts, base, PartStep, h[1 .. Len(parts)])
  BY <1>2, <1>9, RunOf
<1>. QED BY <1>6, <1>10

LEMMA AppendAfter ==
    ASSUME NEW V, NEW a \in Seq(V), NEW b \in Seq(V), NEW e \in V
    PROVE  a \o Append(b, e) = Append(a \o b, e) /\ a \o <<>> = a
<1>1. Append(b, e) = b \o <<e>> /\ <<e>> \in Seq(V)
  BY AppendIs
<1>2. (a \o b) \o <<e>> = a \o (b \o <<e>>)
  BY <1>1, JoinThree
<1>3. Append(a \o b, e) = (a \o b) \o <<e>>
  <2>1. a \o b \in Seq(V)
    OBVIOUS
  <2>. QED BY <2>1, AppendIs
<1>. QED BY <1>1, <1>2, <1>3

\* A run of calls, and one of responses to calls of other contents, numbers its parts from 0.
NumberedAs(parts, c, kind) ==
    /\ Len(c) = Len(parts)
    /\ \A i \in 1 .. Len(parts) :
          /\ parts[i].kind = kind
          /\ c[i] = IF kind = "call" THEN Translation!Called(i - 1, parts[i].real)
                                     ELSE Translation!Output(i - 1, parts[i].real)

LEMMA NumberedParts ==
    ASSUME NEW base \in Numbering, base.n = 0, \A t \in Tools : base.ids[t] = <<>>,
           NEW parts \in Seq(Part), NEW c \in Seq(Item),
           NEW kind \in {"call", "response"}, NumberedAs(parts, c, kind)
    PROVE  PartsFold(base, parts).items = base.items \o c
<1> DEFINE n == Len(parts)
<1>1. n \in Nat /\ Len(c) = n /\ \A i \in 1 .. n : parts[i] \in Part
  BY DEF NumberedAs
<1>2. PICK v \in [0 .. n -> Numbering] : Run(v, parts, base, PartStep) /\ v[n] = PartsFold(base, parts)
  BY PartsRun DEF RunTo
<1>3. v[0] = base /\ \A j \in 1 .. n : v[j] = PartStep[v[j - 1]][parts[j]]
  BY <1>2 DEF Run
<1> DEFINE good == {j \in 0 .. n : /\ v[j].n = j /\ v[j].items = base.items \o First(c, j)
                                   /\ kind = "response" => \A t \in Tools : v[j].ids[t] = <<>>}
<1>4. base.items \in Seq(Item) /\ \A s \in Numbering : s.n \in Nat
  BY DEF Numbering
<1>5. First(c, 0) = <<>> /\ First(c, n) = c
  BY <1>1, FirstIs
<1>6. 0 \in good
  <2>1. base.items \o <<>> = base.items
    BY <1>4, AppendAfter
  <2>. QED BY <1>1, <1>3, <1>5, <2>1
<1>7. ASSUME NEW m \in 0 .. n - 1, m \in good PROVE m + 1 \in good
  <2> DEFINE s == v[m]
             p == parts[m + 1]
             e == c[m + 1]
             q == v[m + 1]
             a == First(c, m)
             b == First(c, m + 1)
  <2>1. m + 1 \in 1 .. n /\ m \in 0 .. n /\ (m + 1) - 1 = m /\ m + 1 \in 0 .. n /\ m \in Nat
    BY <1>1
  <2>2. s \in Numbering /\ p \in Part
    BY <1>1, <1>2, <2>1
  <2>3. q = PartStep[s][p]
    BY <1>3, <2>1
  <2>4. /\ s.n = m /\ s.items = base.items \o a
        /\ kind = "response" => \A t \in Tools : s.ids[t] = <<>>
    BY <1>7
  <2>5. /\ p.kind = kind
        /\ e = IF kind = "call" THEN Translation!Called(m, p.real) ELSE Translation!Output(m, p.real)
    BY <2>1 DEF NumberedAs
  <2>6. a \in Seq(Item) /\ e \in Item /\ b = Append(a, e)
    <3>1. m \in 0 .. Len(c) - 1 /\ m \in 0 .. Len(c)
      BY <1>1, <2>1
    <3>. QED BY <3>1, FirstIs
  <2> HIDE DEF s, p, e, q, a, b, n
  <2>7. p.tool \in Tools
    BY <2>2 DEF Part
  <2>8. q = Translation!GeminiPart(s, p)
    BY <2>2, <2>3 DEF PartStep
  <2>9. /\ q.n = m + 1
        /\ q.items = Append(s.items, e)
        /\ kind = "response" => q.ids = s.ids
    <3>1. CASE kind = "call"
      BY <2>2, <2>4, <2>5, <2>8, <3>1, GeminiPartTyped
    <3>2. CASE kind = "response"
      BY ZenonT(60), <2>2, <2>4, <2>5, <2>7, <2>8, <3>2, GeminiPartTyped
    <3>. QED BY <3>1, <3>2
  <2>10. Append(base.items \o a, e) = base.items \o b
    <3> DEFINE r == base.items
    <3>1. r \in Seq(Item)
      BY <1>4
    <3> HIDE DEF r
    <3>2. r \o Append(a, e) = Append(r \o a, e)
      BY <2>6, <3>1, AppendAfter
    <3>. QED BY <2>6, <3>2 DEF r
  <2>11. /\ q.n = m + 1 /\ q.items = base.items \o b
         /\ kind = "response" => \A t \in Tools : q.ids[t] = <<>>
    BY <2>4, <2>9, <2>10
  <2>. QED BY <2>1, <2>11 DEF q, b
<1>8. n \in good
  <2>1. n \in 0 .. n
    BY <1>1
  <2> HIDE DEF good, n
  <2>. QED BY <1>1, <1>6, <1>7, <2>1, StepByStep
<1>. QED BY <1>2, <1>5, <1>8

MadeUp == [i \in Nat |-> i - 1]

LEMMA MadeUpNaming == ASSUME NEW m \in Talked PROVE Naming(m, MadeUp, MadeUp)
<1>1. \A i \in Nat : i # 0 => MadeUp[i] = i - 1 /\ MadeUp[i] \in Nat
  BY DEF MadeUp
<1>2. DOMAIN m.calls = 1 .. Len(m.calls) /\ Len(m.calls) \in Nat
      /\ DOMAIN m.results = 1 .. Len(m.results) /\ Len(m.results) \in Nat
  BY MessageTypes
<1>3. \A i \in DOMAIN m.calls : i \in Nat /\ i # 0
  BY <1>2
<1>4. \A i \in DOMAIN m.results : i \in Nat /\ i # 0
  BY <1>2
<1>. QED BY <1>1, <1>3, <1>4 DEF Naming

LEMMA GeminiArranged ==
    ASSUME NEW m \in Talked, OneSide(m)
    PROVE  Arranged(Translation!GeminiItems(m), m, MadeUp, MadeUp)
<1> DEFINE cp == [i \in DOMAIN m.calls |->
                    [kind |-> "call", tool |-> m.calls[i].tool, real |-> m.calls[i].id]]
           rp == [i \in DOMAIN m.results |->
                    [kind |-> "response", tool |-> m.results[i].tool, real |-> m.results[i].id]]
           t == Translation!TextItem(m)
           start == [n |-> 0, ids |-> [x \in Tools |-> <<>>], items |-> t]
           c == Calling(m, MadeUp)
           o == Resulting(m, MadeUp)
<1>1. Translation!GeminiItems(m) = PartsFold(start, cp \o rp).items
  BY DEF Translation!GeminiItems, PartsFold
<1>2. /\ m.role \in {"user", "assistant"}
      /\ Len(m.calls) \in Nat /\ DOMAIN m.calls = 1 .. Len(m.calls)
      /\ Len(m.results) \in Nat /\ DOMAIN m.results = 1 .. Len(m.results)
      /\ \A j \in DOMAIN m.calls : m.calls[j].id \in Nat /\ m.calls[j].tool \in Tools
      /\ \A j \in DOMAIN m.results : m.results[j].id \in Nat /\ m.results[j].tool \in Tools
  BY MessageTypes
<1>3. t \in Seq(Item)
  BY TextItemIs
<1>4. start \in Numbering /\ start.n = 0 /\ start.items = t /\ \A x \in Tools : start.ids[x] = <<>>
  <2>1. [x \in Tools |-> <<>>] \in [Tools -> Seq(Nat)]
    OBVIOUS
  <2> HIDE DEF t
  <2>. QED BY <1>3, <2>1 DEF Numbering
<1>5. c \in Seq(Item) /\ Len(c) = Len(m.calls) /\ o \in Seq(Item) /\ Len(o) = Len(m.results)
  BY MadeUpNaming, CallingIs, ResultingIs
<1>6. cp \in Seq(Part) /\ Len(cp) = Len(m.calls) /\ NumberedAs(cp, c, "call")
  <2>1. ASSUME NEW i \in 1 .. Len(m.calls)
        PROVE  /\ cp[i] \in Part /\ cp[i].kind = "call"
               /\ c[i] = Translation!Called(i - 1, cp[i].real)
    <3>1. cp[i] = [kind |-> "call", tool |-> m.calls[i].tool, real |-> m.calls[i].id]
      BY <1>2
    <3>2. m.calls[i].id \in Nat /\ m.calls[i].tool \in Tools
      BY <1>2
    <3>3. i \in Nat /\ MadeUp[i] = i - 1
      BY <1>2 DEF MadeUp
    <3>4. c[i] = Translation!Called(MadeUp[i], m.calls[i].id)
      BY <1>2 DEF Calling
    <3>. QED BY <3>1, <3>2, <3>3, <3>4 DEF Part
  <2>2. DOMAIN cp = 1 .. Len(m.calls) /\ cp = [i \in DOMAIN cp |-> cp[i]]
    BY <1>2
  <2> HIDE DEF cp, c
  <2>3. \A i \in 1 .. Len(m.calls) : cp[i] \in Part
    BY <2>1
  <2>4. cp \in Seq(Part) /\ Len(cp) = Len(m.calls)
    BY <1>2, <2>2, <2>3, FamilyIs
  <2>. QED BY <1>5, <2>1, <2>4 DEF NumberedAs
<1>7. rp \in Seq(Part) /\ Len(rp) = Len(m.results) /\ NumberedAs(rp, o, "response")
  <2>1. ASSUME NEW i \in 1 .. Len(m.results)
        PROVE  /\ rp[i] \in Part /\ rp[i].kind = "response"
               /\ o[i] = Translation!Output(i - 1, rp[i].real)
    <3>1. rp[i] = [kind |-> "response", tool |-> m.results[i].tool, real |-> m.results[i].id]
      BY <1>2
    <3>2. m.results[i].id \in Nat /\ m.results[i].tool \in Tools
      BY <1>2
    <3>3. i \in Nat /\ MadeUp[i] = i - 1
      BY <1>2 DEF MadeUp
    <3>4. o[i] = Translation!Output(MadeUp[i], m.results[i].id)
      BY <1>2 DEF Resulting
    <3>. QED BY <3>1, <3>2, <3>3, <3>4 DEF Part
  <2>2. DOMAIN rp = 1 .. Len(m.results) /\ rp = [i \in DOMAIN rp |-> rp[i]]
    BY <1>2
  <2> HIDE DEF rp, o
  <2>3. \A i \in 1 .. Len(m.results) : rp[i] \in Part
    BY <2>1
  <2>4. rp \in Seq(Part) /\ Len(rp) = Len(m.results)
    BY <1>2, <2>2, <2>3, FamilyIs
  <2>. QED BY <1>5, <2>1, <2>4 DEF NumberedAs
<1>8. (m.role = "user" => cp = <<>>) /\ (m.role = "assistant" => rp = <<>>)
  BY DEF OneSide
<1>9. Arranged(Translation!GeminiItems(m), m, MadeUp, MadeUp)
        <=> LET q == Translation!GeminiItems(m)
            IN  IF m.role = "user" THEN q = o \o t \/ q = t \o o ELSE q = t \o c
  BY DEF Arranged
<1> HIDE DEF cp, rp, t, start, c, o
<1>10. CASE m.role = "user"
  <2>1. cp \o rp = rp
    BY <1>7, <1>8, <1>10
  <2>2. PartsFold(start, rp).items = start.items \o o
    BY <1>4, <1>5, <1>7, NumberedParts
  <2>. QED BY <1>1, <1>4, <1>9, <1>10, <2>1, <2>2
<1>11. CASE m.role = "assistant"
  <2>1. cp \o rp = cp
    BY <1>6, <1>8, <1>11
  <2>2. PartsFold(start, cp).items = start.items \o c
    BY <1>4, <1>5, <1>6, NumberedParts
  <2>. QED BY <1>1, <1>4, <1>9, <1>11, <2>1, <2>2
<1>. QED BY <1>2, <1>10, <1>11

\* Answers in the order of the calls are the calls.
LEMMA InOrderSame ==
    ASSUME NEW m \in Talked, NEW p \in Talked, Translation!Answers(m.results, p.calls),
           \A a, b \in DOMAIN p.calls : a < b => p.calls[a].id < p.calls[b].id,
           \A a, b \in DOMAIN m.results : a < b => m.results[a].id < m.results[b].id
    PROVE  DOMAIN m.results = DOMAIN p.calls
           /\ \A j \in DOMAIN p.calls : m.results[j] = p.calls[j]
<1> DEFINE n == Len(p.calls)
<1>1. PICK q \in [DOMAIN p.calls -> DOMAIN p.calls] :
        DOMAIN m.results = DOMAIN p.calls /\ \A j \in DOMAIN p.calls : m.results[j] = p.calls[q[j]]
  BY AnswersAre
<1>2. n \in Nat /\ DOMAIN p.calls = 1 .. n /\ \A i \in 1 .. n : p.calls[i].id \in Nat
  BY MessageTypes
<1>3. \A j \in 1 .. n : q[j] \in 1 .. n
  BY <1>1, <1>2
<1>4. ASSUME NEW a \in 1 .. n, NEW b \in 1 .. n, a < b PROVE q[a] < q[b]
  <2>1. q[a] \in 1 .. n /\ q[b] \in 1 .. n
    BY <1>3
  <2>2. p.calls[q[a]].id < p.calls[q[b]].id
    <3>1. m.results[a].id < m.results[b].id
      BY <1>1, <1>2, <1>4
    <3>2. a \in DOMAIN p.calls /\ b \in DOMAIN p.calls
      BY <1>2
    <3>3. m.results[a] = p.calls[q[a]] /\ m.results[b] = p.calls[q[b]]
      BY <1>1, <3>2
    <3>. QED BY <3>1, <3>3
  <2>3. CASE q[b] < q[a]
    <3>1. p.calls[q[b]].id < p.calls[q[a]].id
      BY <1>2, <2>1, <2>3
    <3>2. p.calls[q[a]].id \in Nat /\ p.calls[q[b]].id \in Nat
      BY <1>2, <2>1
    <3>. QED BY <2>2, <3>1, <3>2
  <2>4. CASE q[a] = q[b]
    <3>1. p.calls[q[a]].id \in Nat
      BY <1>2, <2>1
    <3>. QED BY <2>2, <2>4, <3>1
  <2>5. CASE ~(q[b] < q[a]) /\ q[a] # q[b]
    <3>1. q[a] \in Nat /\ q[b] \in Nat
      BY <1>2, <2>1
    <3>. QED BY <2>5, <3>1
  <2>. QED BY <2>3, <2>4, <2>5
<1> HIDE DEF n
<1>5. \A j \in 1 .. n : q[j] >= j
  <2> DEFINE good == {j \in 0 .. n : j # 0 => q[j] >= j}
  <2>1. 0 \in good
    BY <1>2
  <2>2. ASSUME NEW j \in 0 .. n - 1, j \in good PROVE j + 1 \in good
    <3>1. j + 1 \in 1 .. n /\ j + 1 \in 0 .. n /\ j \in Nat
      BY <1>2
    <3>2. q[j + 1] \in 1 .. n
      BY <1>3, <3>1
    <3>3. CASE j = 0
      BY <1>2, <3>1, <3>2, <3>3
    <3>4. CASE j # 0
      <4>1. j \in 1 .. n /\ j < j + 1
        BY <1>2, <3>1, <3>4
      <4>2. q[j] < q[j + 1] /\ q[j] >= j /\ q[j] \in 1 .. n
        BY <1>3, <1>4, <2>2, <3>1, <3>4, <4>1
      <4>3. q[j + 1] >= j + 1
        BY <1>2, <3>1, <3>2, <4>2
      <4>. QED BY <3>1, <4>3
    <3>. QED BY <3>3, <3>4
  <2>3. \A j \in 0 .. n : j \in good
    <3> HIDE DEF good
    <3>. QED BY <1>2, <2>1, <2>2, StepByStep
  <2>. QED BY <1>2, <2>3
<1>6. \A j \in 1 .. n : q[j] <= j
  <2> DEFINE good == {j \in 0 .. n : j # n => q[n - j] <= n - j}
  <2>1. 0 \in good
    <3>1. CASE n = 0
      BY <1>2, <3>1
    <3>2. CASE n # 0
      <4>1. n \in 1 .. n /\ n - 0 = n /\ 0 \in 0 .. n
        BY <1>2, <3>2
      <4>2. q[n] \in 1 .. n
        BY <1>3, <4>1
      <4>. QED BY <1>2, <4>1, <4>2
    <3>. QED BY <3>1, <3>2
  <2>2. ASSUME NEW j \in 0 .. n - 1, j \in good PROVE j + 1 \in good
    <3>1. j + 1 \in 0 .. n /\ j # n /\ n - j \in 1 .. n
      BY <1>2
    <3>2. q[n - j] <= n - j /\ q[n - j] \in 1 .. n
      BY <1>3, <2>2, <3>1
    <3>3. CASE j + 1 = n
      BY <3>1, <3>3
    <3>4. CASE j + 1 # n
      <4>1. n - (j + 1) \in 1 .. n /\ n - (j + 1) < n - j
        BY <1>2, <3>1, <3>4
      <4>2. q[n - (j + 1)] < q[n - j] /\ q[n - (j + 1)] \in 1 .. n
        BY <1>3, <1>4, <3>1, <4>1
      <4>3. q[n - (j + 1)] <= n - (j + 1)
        BY <1>2, <3>2, <4>1, <4>2
      <4>. QED BY <3>1, <4>3
    <3>. QED BY <3>3, <3>4
  <2>3. \A j \in 0 .. n : j \in good
    <3> HIDE DEF good
    <3>. QED BY <1>2, <2>1, <2>2, StepByStep
  <2>4. ASSUME NEW j \in 1 .. n PROVE q[j] <= j
    <3>1. n - j \in 0 .. n /\ n - j # n /\ n - (n - j) = j
      BY <1>2
    <3>2. n - j \in good
      BY <2>3, <3>1
    <3>. QED BY <3>1, <3>2
  <2>. QED BY <2>4
<1>7. \A j \in 1 .. n : q[j] = j
  <2>1. \A j \in 1 .. n : q[j] \in Nat /\ j \in Nat
    BY <1>2, <1>3
  <2>. QED BY <1>5, <1>6, <2>1
<1>. QED BY <1>1, <1>2, <1>7

LEMMA MadeUpAnswered ==
    ASSUME NEW m \in Talked, NEW p \in Talked,
           DOMAIN m.results = DOMAIN p.calls, \A j \in DOMAIN p.calls : m.results[j] = p.calls[j]
    PROVE  Answered(m, p, MadeUp, MadeUp)
<1>1. DOMAIN p.calls = 1 .. Len(p.calls) /\ Len(p.calls) \in Nat
  BY MessageTypes
<1>2. ASSUME NEW j \in DOMAIN m.results
      PROVE  /\ j \in DOMAIN p.calls
             /\ MadeUp[j] = MadeUp[j] /\ p.calls[j].id = m.results[j].id
             /\ \A l \in DOMAIN p.calls : j < l => MadeUp[l] # MadeUp[j]
  <2>1. \A l \in DOMAIN p.calls : l \in Nat /\ MadeUp[l] = l - 1
    BY <1>1 DEF MadeUp
  <2>2. j \in DOMAIN p.calls
    OBVIOUS
  <2>. QED BY <2>1, <2>2
<1>. QED BY <1>2 DEF Answered

LEMMA GeminiSound ==
    ASSUME x1 \in Seq(Talked), Translation!InTurns
    PROVE  /\ Sound(Translation!GeminiInput)
           /\ Translation!ResultsInOrder => Translation!Paired(Translation!GeminiInput)
<1> DEFINE f == [m \in Talked |-> Translation!GeminiItems(m)]
           ci == [n \in DOMAIN x1 |-> MadeUp]
<1>1. ASSUME NEW m \in Talked, OneSide(m) PROVE f[m] \in Seq(Item)
  BY <1>1, GeminiArranged, MadeUpNaming, ArrangedKeeps
<1>2. ASSUME NEW n \in 1 .. Len(x1)
      PROVE  Naming(x1[n], ci[n], ci[n]) /\ Arranged(f[x1[n]], x1[n], ci[n], ci[n])
  <2>1. x1[n] \in Talked /\ OneSide(x1[n]) /\ n \in DOMAIN x1
    BY TurnsAre
  <2>. QED BY <2>1, GeminiArranged, MadeUpNaming
<1>3. ASSUME Translation!ResultsInOrder, NEW n \in 2 .. Len(x1), x1[n].role = "user"
      PROVE  Answered(x1[n], x1[n - 1], ci[n - 1], ci[n])
  <2>1. /\ n \in DOMAIN x1 /\ n - 1 \in DOMAIN x1 /\ x1[n] \in Talked /\ x1[n - 1] \in Talked
        /\ Translation!Answers(x1[n].results, x1[n - 1].calls)
        /\ \A a, b \in DOMAIN x1[n - 1].calls : a < b => x1[n - 1].calls[a].id < x1[n - 1].calls[b].id
    BY <1>3, TurnsAre
  <2>2. \A a, b \in DOMAIN x1[n].results : a < b => x1[n].results[a].id < x1[n].results[b].id
    BY <1>3, <2>1 DEF Translation!ResultsInOrder
  <2>3. /\ DOMAIN x1[n].results = DOMAIN x1[n - 1].calls
        /\ \A j \in DOMAIN x1[n - 1].calls : x1[n].results[j] = x1[n - 1].calls[j]
    BY <2>1, <2>2, InOrderSame
  <2>4. Answered(x1[n], x1[n - 1], MadeUp, MadeUp)
    BY <2>1, <2>3, MadeUpAnswered
  <2>. QED BY <2>1, <2>4
<1>4. Translation!GeminiInput = Translation!Input([i \in DOMAIN x1 |-> f[x1[i]]])
  <2>1. \A i \in DOMAIN x1 : f[x1[i]] = Translation!GeminiItems(x1[i])
    BY TurnsAre
  <2>. QED BY <2>1 DEF Translation!GeminiInput
<1> HIDE DEF f, ci
<1>. QED BY <1>1, <1>2, <1>3, <1>4, FormatCarries DEF Sound

-----------------------------------------------------------------------------
(* The messages of the other providers *)

AnyPiece == [role : {"user", "assistant", "tool"}, items : Seq(Item), open : BOOLEAN]
Piece == {m \in AnyPiece : \A i \in 1 .. Len(m.items) :
             m.role = m.items[i].role \/ (m.role = "tool" /\ m.items[i].kind = "output")}
OpenAIPiece == {m \in Piece : m.open => m.role = "assistant"}
ItemsOf == [m \in AnyPiece |-> m.items]

LEMMA ItemsOfIs == Maps(ItemsOf, AnyPiece, Seq(Item)) /\ \A m \in AnyPiece : ItemsOf[m] = m.items
<1>1. \A m \in AnyPiece : ItemsOf[m] = m.items /\ m.items \in Seq(Item)
  BY DEF ItemsOf, AnyPiece
<1>2. ItemsOf \in [AnyPiece -> Seq(Item)]
  BY <1>1 DEF ItemsOf
<1>. QED BY <1>1, <1>2 DEF Maps

LEMMA NewPiece ==
    ASSUME NEW x \in Item, NEW role \in {"user", "assistant", "tool"}, NEW open \in BOOLEAN,
           role = x.role \/ (role = "tool" /\ x.kind = "output")
    PROVE  /\ Translation!New(role, x, open) \in Piece
           /\ Translation!New(role, x, open).items = <<x>>
           /\ Translation!New(role, x, open).role = role
           /\ Translation!New(role, x, open).open = open
<1> DEFINE one == <<x>>
<1>1. one \in Seq(Item) /\ Len(one) = 1 /\ one[1] = x /\ \A i \in 1 .. 1 : i = 1
  OBVIOUS
<1>2. Translation!New(role, x, open) = [role |-> role, items |-> one, open |-> open]
  BY DEF Translation!New
<1> HIDE DEF one
<1>3. [role |-> role, items |-> one, open |-> open] \in AnyPiece
  BY <1>1 DEF AnyPiece
<1>. QED BY <1>1, <1>2, <1>3 DEF Piece, one

LEMMA PieceWith ==
    ASSUME NEW m \in AnyPiece, NEW s
    PROVE  [m EXCEPT !.items = s] = [role |-> m.role, items |-> s, open |-> m.open]
  BY DEF AnyPiece

LEMMA JoinedPiece ==
    ASSUME NEW m \in Piece, NEW x \in Item, m.role = x.role
    PROVE  /\ [m EXCEPT !.items = Append(@, x)] \in Piece
           /\ [m EXCEPT !.items = Append(@, x)].items = m.items \o <<x>>
           /\ [m EXCEPT !.items = Append(@, x)].role = m.role
           /\ [m EXCEPT !.items = Append(@, x)].open = m.open
<1> DEFINE old == m.items
           new == Append(old, x)
           e == [m EXCEPT !.items = Append(@, x)]
<1>1. /\ old \in Seq(Item) /\ m.role \in {"user", "assistant", "tool"} /\ m.open \in BOOLEAN
      /\ m = [role |-> m.role, items |-> m.items, open |-> m.open]
  BY DEF Piece, AnyPiece
<1>2. \A i \in 1 .. Len(old) : m.role = old[i].role \/ (m.role = "tool" /\ old[i].kind = "output")
  BY DEF Piece
<1>3. e = [role |-> m.role, items |-> new, open |-> m.open]
  <2>1. m \in AnyPiece /\ e = [m EXCEPT !.items = new]
    BY DEF Piece
  <2> HIDE DEF e, new
  <2>. QED BY <2>1, PieceWith
<1> HIDE DEF old, e
<1>4. /\ Len(old) \in Nat /\ new \in Seq(Item) /\ Len(new) = Len(old) + 1 /\ new[Len(old) + 1] = x
      /\ \A i \in 1 .. Len(old) : new[i] = old[i]
  BY <1>1, AppendIs
<1>5. new = old \o <<x>>
  BY <1>1
<1> HIDE DEF new
<1>6. \A i \in 1 .. Len(new) : i \in 1 .. Len(old) \/ i = Len(old) + 1
  BY <1>4
<1>7. \A i \in 1 .. Len(new) : m.role = new[i].role \/ (m.role = "tool" /\ new[i].kind = "output")
  BY <1>2, <1>4, <1>6
<1>8. e \in AnyPiece
  BY <1>1, <1>3, <1>4 DEF AnyPiece
<1>9. e \in Piece
  BY <1>3, <1>7, <1>8 DEF Piece
<1>. QED BY <1>3, <1>5, <1>9 DEF e, old

\* One item more, in a message of its own or in the last one.
LEMMA PieceAdded ==
    ASSUME NEW P \in SUBSET AnyPiece, NEW out \in Seq(P), NEW x \in Item, NEW e \in P, e.items = <<x>>
    PROVE  /\ Append(out, e) \in Seq(P)
           /\ FlatMap(ItemsOf, Append(out, e)) = FlatMap(ItemsOf, out) \o <<x>>
<1>1. out \in Seq(AnyPiece) /\ e \in AnyPiece
  OBVIOUS
<1>2. FlatMap(ItemsOf, Append(out, e)) = FlatMap(ItemsOf, out) \o ItemsOf[e]
  BY <1>1, ItemsOfIs, FlatMapAppend
<1>3. ItemsOf[e] = <<x>>
  BY <1>1, ItemsOfIs
<1>. QED BY <1>2, <1>3

LEMMA PieceGrown ==
    ASSUME NEW P \in SUBSET AnyPiece, NEW out \in Seq(P), out # <<>>, NEW x \in Item,
           [out[Len(out)] EXCEPT !.items = Append(@, x)] \in P,
           [out[Len(out)] EXCEPT !.items = Append(@, x)].items = out[Len(out)].items \o <<x>>
    PROVE  /\ [out EXCEPT ![Len(out)].items = Append(@, x)] \in Seq(P)
           /\ FlatMap(ItemsOf, [out EXCEPT ![Len(out)].items = Append(@, x)])
                = FlatMap(ItemsOf, out) \o <<x>>
<1> DEFINE d == out[Len(out)]
           e == [d EXCEPT !.items = Append(@, x)]
           q == [out EXCEPT ![Len(out)].items = Append(@, x)]
           one == <<x>>
<1>1. /\ Len(out) \in Nat /\ DOMAIN out = 1 .. Len(out) /\ Len(out) \in 1 .. Len(out) /\ d \in P
      /\ out \in Seq(AnyPiece) /\ one \in Seq(Item)
  OBVIOUS
<1>2. q = [out EXCEPT ![Len(out)] = e]
  BY <1>1
<1>3. e \in P /\ e.items = d.items \o one
  OBVIOUS
<1>4. q \in Seq(P)
  <2> HIDE DEF e, q
  <2>. QED BY <1>1, <1>2, <1>3
<1>5. Grows(ItemsOf, d, e, one)
  <2>1. ItemsOf[d] = d.items /\ ItemsOf[e] = e.items
    BY <1>1, <1>3, ItemsOfIs
  <2>. QED BY <1>3, <2>1 DEF Grows
<1>6. e \in AnyPiece
  BY <1>3
<1> HIDE DEF e, q, one
<1>7. FlatMap(ItemsOf, [out EXCEPT ![Len(out)] = e]) = FlatMap(ItemsOf, out) \o one
  <2>1. Maps(ItemsOf, AnyPiece, Seq(Item)) /\ out \in Seq(AnyPiece) /\ one \in Seq(Item)
    BY <1>1, ItemsOfIs
  <2>2. Grows(ItemsOf, out[Len(out)], e, one)
    BY <1>5
  <2> HIDE DEF d
  <2>3. /\ FlatMap(ItemsOf, [out EXCEPT ![Len(out)] = e]) = FlatMap(ItemsOf, out) \o one
        /\ FlatMap(ItemsOf, out) \in Seq(Item)
    BY <1>6, <2>1, <2>2, FlatMapGrow
  <2>. QED BY <2>3
<1>. QED BY <1>2, <1>4, <1>7 DEF q, one

\* A provider's messages, built item by item.
Adds(op, P) ==
    \A out \in Seq(P) : \A x \in Item :
        op[out][x] \in Seq(P) /\ FlatMap(ItemsOf, op[out][x]) = FlatMap(ItemsOf, out) \o <<x>>

LEMMA FoldCarried ==
    ASSUME NEW P \in SUBSET Piece, NEW op, Adds(op, P), NEW items \in Seq(Item), NEW out,
           RunTo(Seq(P), items, <<>>, op, out)
    PROVE  Translation!Carried(out, items)
<1> DEFINE n == Len(items)
<1>1. PICK v \in [0 .. n -> Seq(P)] : Run(v, items, <<>>, op) /\ v[n] = out
  BY DEF RunTo
<1>2. v[0] = <<>> /\ \A j \in 1 .. n : v[j] = op[v[j - 1]][items[j]]
  BY <1>1 DEF Run
<1>3. n \in Nat /\ First(items, 0) = <<>> /\ First(items, n) = items
  BY FirstIs
<1> DEFINE good == {j \in 0 .. n : FlatMap(ItemsOf, v[j]) = First(items, j)}
<1>4. 0 \in good
  BY <1>2, <1>3, FlatMapEmpty
<1>5. ASSUME NEW m \in 0 .. n - 1, m \in good PROVE m + 1 \in good
  <2> DEFINE a == v[m]
             b == v[m + 1]
             x == items[m + 1]
             r == First(items, m)
  <2>1. m + 1 \in 1 .. n /\ m \in 0 .. n /\ (m + 1) - 1 = m /\ m + 1 \in 0 .. n
    BY <1>3
  <2>2. a \in Seq(P) /\ b = op[a][x] /\ FlatMap(ItemsOf, a) = r
    BY <1>1, <1>2, <1>5, <2>1
  <2>3. x \in Item /\ r \in Seq(Item) /\ First(items, m + 1) = Append(r, x)
    BY <2>1, FirstIs
  <2> HIDE DEF a, b, x, r, n
  <2>4. FlatMap(ItemsOf, b) = r \o <<x>>
    BY <2>2, <2>3 DEF Adds
  <2>5. FlatMap(ItemsOf, b) = First(items, m + 1)
    <3>1. Append(r, x) = r \o <<x>>
      BY <2>3, AppendIs
    <3>. QED BY <2>3, <2>4, <3>1
  <2>. QED BY <2>1, <2>5 DEF b
<1>6. n \in good
  <2>1. n \in 0 .. n
    BY <1>3
  <2> HIDE DEF good, n
  <2>. QED BY <1>3, <1>4, <1>5, <2>1, StepByStep
<1>7. out \in Seq(P) /\ FlatMap(ItemsOf, out) = items
  BY <1>1, <1>3, <1>6
<1>8. \A i \in DOMAIN out : out[i] \in P /\ out[i] \in Piece /\ out[i] \in AnyPiece
  BY <1>7 DEF Piece
<1>9. Translation!FlattenSeq([i \in DOMAIN out |-> out[i].items]) = items
  <2>1. [i \in DOMAIN out |-> out[i].items] = Mapped(ItemsOf, out)
    BY <1>8, ItemsOfIs DEF Mapped
  <2>. QED BY <1>7, <2>1, TalkFlat DEF FlatMap
<1>10. ASSUME NEW m \in Translation!Range(out), NEW x \in Translation!Range(m.items)
       PROVE  m.role = x.role \/ (m.role = "tool" /\ x.kind = "output")
  <2>1. PICK i \in DOMAIN out : m = out[i]
    BY DEF Translation!Range
  <2>2. m \in Piece
    BY <1>8, <2>1
  <2>3. m.items \in Seq(Item)
    BY <2>2 DEF Piece, AnyPiece
  <2>4. PICK k \in DOMAIN m.items : x = m.items[k]
    BY DEF Translation!Range
  <2>5. k \in 1 .. Len(m.items)
    BY <2>3, <2>4
  <2>. QED BY <2>2, <2>4, <2>5 DEF Piece
<1>. QED BY <1>9, <1>10 DEF Translation!Carried

LEMMA OpenAIMessageStep ==
    ASSUME NEW out \in Seq(OpenAIPiece), NEW x \in Item
    PROVE  /\ Translation!OpenAIMessage(out, x) \in Seq(OpenAIPiece)
           /\ FlatMap(ItemsOf, Translation!OpenAIMessage(out, x)) = FlatMap(ItemsOf, out) \o <<x>>
<1> DEFINE P == OpenAIPiece
           q == Translation!OpenAIMessage(out, x)
           d == out[Len(out)]
<1>1. P \in SUBSET AnyPiece /\ out \in Seq(P)
  BY DEF OpenAIPiece, Piece
<1>2. /\ x.role \in {"user", "assistant", "tool"} /\ x.kind \in {"message", "call", "output"}
      /\ x.kind = "call" => x.role = "assistant"
  BY DEF Item, AnyItem
<1>3. CASE x.kind = "message"
  <2> DEFINE e == Translation!New(x.role, x, FALSE)
  <2>1. q = Append(out, e)
    BY <1>3 DEF Translation!OpenAIMessage
  <2>2. e \in P /\ e.items = <<x>>
    BY <1>2, NewPiece DEF OpenAIPiece
  <2> HIDE DEF e, q
  <2>. QED BY <1>1, <2>1, <2>2, PieceAdded DEF q
<1>4. CASE x.kind = "call" /\ out # <<>> /\ d.open
  <2>1. q = [out EXCEPT ![Len(out)].items = Append(@, x)]
    BY <1>4 DEF Translation!OpenAIMessage, Translation!Last
  <2>2. d \in P
    BY <1>4
  <2>3. d \in Piece /\ d.role = x.role
    BY <1>2, <1>4, <2>2 DEF OpenAIPiece
  <2> HIDE DEF d, q
  <2>4. /\ [d EXCEPT !.items = Append(@, x)] \in P
        /\ [d EXCEPT !.items = Append(@, x)].items = d.items \o <<x>>
    BY <1>4, <2>2, <2>3, JoinedPiece DEF OpenAIPiece
  <2>. QED BY <1>1, <1>4, <2>1, <2>4, PieceGrown DEF d, q
<1>5. CASE x.kind = "call" /\ ~(out # <<>> /\ d.open)
  <2> DEFINE e == Translation!New("assistant", x, TRUE)
  <2>1. q = Append(out, e)
    BY <1>5 DEF Translation!OpenAIMessage, Translation!Last
  <2>2. e \in P /\ e.items = <<x>>
    BY <1>2, <1>5, NewPiece DEF OpenAIPiece
  <2> HIDE DEF e, q
  <2>. QED BY <1>1, <2>1, <2>2, PieceAdded DEF q
<1>6. CASE x.kind = "output"
  <2> DEFINE e == Translation!New("tool", x, FALSE)
  <2>1. q = Append(out, e)
    BY <1>6 DEF Translation!OpenAIMessage
  <2>2. e \in P /\ e.items = <<x>>
    BY <1>2, <1>6, NewPiece DEF OpenAIPiece
  <2> HIDE DEF e, q
  <2>. QED BY <1>1, <2>1, <2>2, PieceAdded DEF q
<1>. QED BY <1>2, <1>3, <1>4, <1>5, <1>6

OpOpenAIMessage == [out \in Seq(OpenAIPiece) |-> [x \in Item |-> Translation!OpenAIMessage(out, x)]]
FoldsOpenAIMessage(h, items) ==
    h = [t \in SUBSET DOMAIN items |->
            IF t = {} THEN <<>>
            ELSE Translation!OpenAIMessage(h[t \ {Translation!Max(t)}], items[Translation!Max(t)])]

LEMMA OpenAIMessageFold ==
    ASSUME NEW items
    PROVE  Translation!OpenAIMessages(items) = (CHOOSE h : FoldsOpenAIMessage(h, items))[DOMAIN items]
  BY DEF FoldsOpenAIMessage, Translation!OpenAIMessages, Translation!FoldLeft, Translation!MapThenFoldSet

LEMMA OpenAIMessageRun ==
    ASSUME NEW items \in Seq(Item)
    PROVE  Translation!Carried(Translation!OpenAIMessages(items), items)
<1> DEFINE n == Len(items)
           V == Seq(OpenAIPiece)
           op == OpOpenAIMessage
           h == CHOOSE h : FoldsOpenAIMessage(h, items)
<1>1. n \in Nat /\ DOMAIN items = 1 .. n /\ \A i \in 1 .. n : items[i] \in Item
  OBVIOUS
<1>2. /\ op \in [V -> [Item -> V]]
      /\ \A s \in V, x \in Item : op[s][x] = Translation!OpenAIMessage(s, x)
      /\ <<>> \in V
  <2>1. \A s \in V, x \in Item : Translation!OpenAIMessage(s, x) \in V
    BY OpenAIMessageStep
  <2>2. <<>> \in V
    OBVIOUS
  <2> HIDE DEF V
  <2>3. op = [s \in V |-> [x \in Item |-> Translation!OpenAIMessage(s, x)]]
    BY DEF OpOpenAIMessage, V
  <2> HIDE DEF op
  <2>. QED BY <2>1, <2>2, <2>3
<1>3. \A t : Translation!Max(t) = Seqs!Max(t)
  BY DEF Translation!Max, Seqs!Max
<1>4. Translation!OpenAIMessages(items) = h[1 .. n]
  BY <1>1, OpenAIMessageFold
<1>5. Adds(op, OpenAIPiece)
  BY <1>2, OpenAIMessageStep DEF Adds
<1>6. OpenAIPiece \in SUBSET Piece
  BY DEF OpenAIPiece, Piece
<1> HIDE DEF op, V
<1>7. \E g : FoldsOpenAIMessage(g, items)
  <2>1. PICK g : RunFolds(g, V, items, <<>>, op)
    BY <1>2, RunExists
  <2>2. /\ \A t \in SUBSET (1 .. n) : g[t] \in V
        /\ g = [t \in SUBSET (1 .. n) |->
                  IF t = {} THEN <<>> ELSE op[g[t \ {Seqs!Max(t)}]][items[Seqs!Max(t)]]]
    BY <2>1 DEF RunFolds
  <2>3. ASSUME NEW t \in SUBSET (1 .. n)
        PROVE  (IF t = {} THEN <<>> ELSE op[g[t \ {Seqs!Max(t)}]][items[Seqs!Max(t)]])
                 = IF t = {} THEN <<>>
                   ELSE Translation!OpenAIMessage(g[t \ {Translation!Max(t)}], items[Translation!Max(t)])
    <3>1. CASE t # {}
      <4>1. Seqs!Max(t) \in 1 .. n
        BY <1>1, <3>1, LastPosition
      <4>2. items[Seqs!Max(t)] \in Item /\ g[t \ {Seqs!Max(t)}] \in V
        BY <1>1, <2>2, <4>1
      <4>. QED BY <1>2, <1>3, <3>1, <4>2
    <3>. QED BY <3>1
  <2>4. FoldsOpenAIMessage(g, items)
    BY <1>1, <2>2, <2>3 DEF FoldsOpenAIMessage
  <2>. QED BY <2>4
<1>8. FoldsOpenAIMessage(h, items)
  BY <1>7
<1> HIDE DEF h
<1>9. h[1 .. 0] = <<>>
  <2>1. 1 .. 0 = {} /\ 1 .. 0 \in SUBSET DOMAIN items
    BY <1>1
  <2>. QED BY <1>8, <2>1 DEF FoldsOpenAIMessage
<1>10. ASSUME NEW j \in 1 .. n, h[1 .. j - 1] \in V PROVE h[1 .. j] = op[h[1 .. j - 1]][items[j]]
  <2>1. j \in Nat /\ j # 0 /\ j \in 1 .. j
    BY <1>1
  <2>2. 1 .. j \in SUBSET DOMAIN items
    BY <1>1
  <2>3. (1 .. j) \ {j} = 1 .. j - 1
    BY <2>1
  <2>4. Translation!Max(1 .. j) = j
    BY <1>3, <2>1, LastOfRange
  <2>5. h[1 .. j] = Translation!OpenAIMessage(h[1 .. j - 1], items[j])
    BY <1>8, <2>1, <2>2, <2>3, <2>4 DEF FoldsOpenAIMessage
  <2>. QED BY <1>1, <1>2, <1>10, <2>5
<1>11. RunSteps(h, V, items, <<>>, op)
  BY <1>9, <1>10 DEF RunSteps
<1>12. RunTo(V, items, <<>>, op, h[1 .. Len(items)])
  BY <1>2, <1>11, RunOf
<1>13. RunTo(Seq(OpenAIPiece), items, <<>>, op, Translation!OpenAIMessages(items))
  BY <1>4, <1>12 DEF V
<1>. QED BY <1>5, <1>6, <1>13, FoldCarried

LEMMA AnthropicMessageStep ==
    ASSUME NEW out \in Seq(Piece), NEW x \in Item
    PROVE  /\ Translation!AnthropicMessage(out, x) \in Seq(Piece)
           /\ FlatMap(ItemsOf, Translation!AnthropicMessage(out, x)) = FlatMap(ItemsOf, out) \o <<x>>
<1> DEFINE P == Piece
           q == Translation!AnthropicMessage(out, x)
           d == out[Len(out)]
<1>1. P \in SUBSET AnyPiece /\ out \in Seq(P)
  BY DEF Piece
<1>2. /\ x.role \in {"user", "assistant", "tool"} /\ x.kind \in {"message", "call", "output"}
      /\ x.kind = "call" => x.role = "assistant"
  BY DEF Item, AnyItem
<1>3. CASE x.kind # "message" /\ out # <<>> /\ d.open /\ d.role = x.role
  <2>1. q = [out EXCEPT ![Len(out)].items = Append(@, x)]
    BY <1>3 DEF Translation!AnthropicMessage, Translation!Last
  <2>2. d \in Piece /\ d.role = x.role
    BY <1>3
  <2> HIDE DEF d, q
  <2>3. /\ [d EXCEPT !.items = Append(@, x)] \in P
        /\ [d EXCEPT !.items = Append(@, x)].items = d.items \o <<x>>
    BY <2>2, JoinedPiece
  <2>4. /\ [out[Len(out)] EXCEPT !.items = Append(@, x)] \in P
        /\ [out[Len(out)] EXCEPT !.items = Append(@, x)].items = out[Len(out)].items \o <<x>>
        /\ out # <<>>
    BY <1>3, <2>3 DEF d
  <2>5. /\ [out EXCEPT ![Len(out)].items = Append(@, x)] \in Seq(P)
        /\ FlatMap(ItemsOf, [out EXCEPT ![Len(out)].items = Append(@, x)])
             = FlatMap(ItemsOf, out) \o <<x>>
    BY <1>1, <2>4, PieceGrown
  <2>. QED BY <2>1, <2>5 DEF q
<1>4. CASE ~(x.kind # "message" /\ out # <<>> /\ d.open /\ d.role = x.role)
  <2>1. PICK open \in BOOLEAN : q = Append(out, Translation!New(x.role, x, open))
    BY <1>4 DEF Translation!AnthropicMessage, Translation!Last
  <2> DEFINE e == Translation!New(x.role, x, open)
  <2>2. e \in P /\ e.items = <<x>>
    BY <1>2, NewPiece
  <2> HIDE DEF e, q
  <2>. QED BY <1>1, <2>1, <2>2, PieceAdded DEF e, q
<1>. QED BY <1>3, <1>4

OpAnthropicMessage == [out \in Seq(Piece) |-> [x \in Item |-> Translation!AnthropicMessage(out, x)]]
FoldsAnthropicMessage(h, items) ==
    h = [t \in SUBSET DOMAIN items |->
            IF t = {} THEN <<>>
            ELSE Translation!AnthropicMessage(h[t \ {Translation!Max(t)}], items[Translation!Max(t)])]

LEMMA AnthropicMessageFold ==
    ASSUME NEW items
    PROVE  Translation!AnthropicMessages(items) = (CHOOSE h : FoldsAnthropicMessage(h, items))[DOMAIN items]
  BY DEF FoldsAnthropicMessage, Translation!AnthropicMessages, Translation!FoldLeft, Translation!MapThenFoldSet

LEMMA AnthropicMessageRun ==
    ASSUME NEW items \in Seq(Item)
    PROVE  Translation!Carried(Translation!AnthropicMessages(items), items)
<1> DEFINE n == Len(items)
           V == Seq(Piece)
           op == OpAnthropicMessage
           h == CHOOSE h : FoldsAnthropicMessage(h, items)
<1>1. n \in Nat /\ DOMAIN items = 1 .. n /\ \A i \in 1 .. n : items[i] \in Item
  OBVIOUS
<1>2. /\ op \in [V -> [Item -> V]]
      /\ \A s \in V, x \in Item : op[s][x] = Translation!AnthropicMessage(s, x)
      /\ <<>> \in V
  <2>1. \A s \in V, x \in Item : Translation!AnthropicMessage(s, x) \in V
    BY AnthropicMessageStep
  <2>2. <<>> \in V
    OBVIOUS
  <2> HIDE DEF V
  <2>3. op = [s \in V |-> [x \in Item |-> Translation!AnthropicMessage(s, x)]]
    BY DEF OpAnthropicMessage, V
  <2> HIDE DEF op
  <2>. QED BY <2>1, <2>2, <2>3
<1>3. \A t : Translation!Max(t) = Seqs!Max(t)
  BY DEF Translation!Max, Seqs!Max
<1>4. Translation!AnthropicMessages(items) = h[1 .. n]
  BY <1>1, AnthropicMessageFold
<1>5. Adds(op, Piece)
  BY <1>2, AnthropicMessageStep DEF Adds
<1>6. Piece \in SUBSET Piece
  BY DEF Piece
<1> HIDE DEF op, V
<1>7. \E g : FoldsAnthropicMessage(g, items)
  <2>1. PICK g : RunFolds(g, V, items, <<>>, op)
    BY <1>2, RunExists
  <2>2. /\ \A t \in SUBSET (1 .. n) : g[t] \in V
        /\ g = [t \in SUBSET (1 .. n) |->
                  IF t = {} THEN <<>> ELSE op[g[t \ {Seqs!Max(t)}]][items[Seqs!Max(t)]]]
    BY <2>1 DEF RunFolds
  <2>3. ASSUME NEW t \in SUBSET (1 .. n)
        PROVE  (IF t = {} THEN <<>> ELSE op[g[t \ {Seqs!Max(t)}]][items[Seqs!Max(t)]])
                 = IF t = {} THEN <<>>
                   ELSE Translation!AnthropicMessage(g[t \ {Translation!Max(t)}], items[Translation!Max(t)])
    <3>1. CASE t # {}
      <4>1. Seqs!Max(t) \in 1 .. n
        BY <1>1, <3>1, LastPosition
      <4>2. items[Seqs!Max(t)] \in Item /\ g[t \ {Seqs!Max(t)}] \in V
        BY <1>1, <2>2, <4>1
      <4>. QED BY <1>2, <1>3, <3>1, <4>2
    <3>. QED BY <3>1
  <2>4. FoldsAnthropicMessage(g, items)
    BY <1>1, <2>2, <2>3 DEF FoldsAnthropicMessage
  <2>. QED BY <2>4
<1>8. FoldsAnthropicMessage(h, items)
  BY <1>7
<1> HIDE DEF h
<1>9. h[1 .. 0] = <<>>
  <2>1. 1 .. 0 = {} /\ 1 .. 0 \in SUBSET DOMAIN items
    BY <1>1
  <2>. QED BY <1>8, <2>1 DEF FoldsAnthropicMessage
<1>10. ASSUME NEW j \in 1 .. n, h[1 .. j - 1] \in V PROVE h[1 .. j] = op[h[1 .. j - 1]][items[j]]
  <2>1. j \in Nat /\ j # 0 /\ j \in 1 .. j
    BY <1>1
  <2>2. 1 .. j \in SUBSET DOMAIN items
    BY <1>1
  <2>3. (1 .. j) \ {j} = 1 .. j - 1
    BY <2>1
  <2>4. Translation!Max(1 .. j) = j
    BY <1>3, <2>1, LastOfRange
  <2>5. h[1 .. j] = Translation!AnthropicMessage(h[1 .. j - 1], items[j])
    BY <1>8, <2>1, <2>2, <2>3, <2>4 DEF FoldsAnthropicMessage
  <2>. QED BY <1>1, <1>2, <1>10, <2>5
<1>11. RunSteps(h, V, items, <<>>, op)
  BY <1>9, <1>10 DEF RunSteps
<1>12. RunTo(V, items, <<>>, op, h[1 .. Len(items)])
  BY <1>2, <1>11, RunOf
<1>13. RunTo(Seq(Piece), items, <<>>, op, Translation!AnthropicMessages(items))
  BY <1>4, <1>12 DEF V
<1>. QED BY <1>5, <1>6, <1>13, FoldCarried

LEMMA GeminiContentStep ==
    ASSUME NEW out \in Seq(Piece), NEW x \in Item
    PROVE  /\ Translation!GeminiContent(out, x) \in Seq(Piece)
           /\ FlatMap(ItemsOf, Translation!GeminiContent(out, x)) = FlatMap(ItemsOf, out) \o <<x>>
<1> DEFINE P == Piece
           q == Translation!GeminiContent(out, x)
           d == out[Len(out)]
<1>1. P \in SUBSET AnyPiece /\ out \in Seq(P)
  BY DEF Piece
<1>2. /\ x.role \in {"user", "assistant", "tool"} /\ x.kind \in {"message", "call", "output"}
      /\ x.kind = "call" => x.role = "assistant"
  BY DEF Item, AnyItem
<1>3. CASE x.kind # "message" /\ out # <<>> /\ d.role = x.role
  <2>1. q = [out EXCEPT ![Len(out)].items = Append(@, x)]
    BY <1>3 DEF Translation!GeminiContent, Translation!Last
  <2>2. d \in Piece /\ d.role = x.role
    BY <1>3
  <2> HIDE DEF d, q
  <2>3. /\ [d EXCEPT !.items = Append(@, x)] \in P
        /\ [d EXCEPT !.items = Append(@, x)].items = d.items \o <<x>>
    BY <2>2, JoinedPiece
  <2>4. /\ [out[Len(out)] EXCEPT !.items = Append(@, x)] \in P
        /\ [out[Len(out)] EXCEPT !.items = Append(@, x)].items = out[Len(out)].items \o <<x>>
        /\ out # <<>>
    BY <1>3, <2>3 DEF d
  <2>5. /\ [out EXCEPT ![Len(out)].items = Append(@, x)] \in Seq(P)
        /\ FlatMap(ItemsOf, [out EXCEPT ![Len(out)].items = Append(@, x)])
             = FlatMap(ItemsOf, out) \o <<x>>
    BY <1>1, <2>4, PieceGrown
  <2>. QED BY <2>1, <2>5 DEF q
<1>4. CASE ~(x.kind # "message" /\ out # <<>> /\ d.role = x.role)
  <2>1. PICK open \in BOOLEAN : q = Append(out, Translation!New(x.role, x, open))
    BY <1>4 DEF Translation!GeminiContent, Translation!Last
  <2> DEFINE e == Translation!New(x.role, x, open)
  <2>2. e \in P /\ e.items = <<x>>
    BY <1>2, NewPiece
  <2> HIDE DEF e, q
  <2>. QED BY <1>1, <2>1, <2>2, PieceAdded DEF e, q
<1>. QED BY <1>3, <1>4

OpGeminiContent == [out \in Seq(Piece) |-> [x \in Item |-> Translation!GeminiContent(out, x)]]
FoldsGeminiContent(h, items) ==
    h = [t \in SUBSET DOMAIN items |->
            IF t = {} THEN <<>>
            ELSE Translation!GeminiContent(h[t \ {Translation!Max(t)}], items[Translation!Max(t)])]

LEMMA GeminiContentFold ==
    ASSUME NEW items
    PROVE  Translation!GeminiContents(items) = (CHOOSE h : FoldsGeminiContent(h, items))[DOMAIN items]
  BY DEF FoldsGeminiContent, Translation!GeminiContents, Translation!FoldLeft, Translation!MapThenFoldSet

LEMMA GeminiContentRun ==
    ASSUME NEW items \in Seq(Item)
    PROVE  Translation!Carried(Translation!GeminiContents(items), items)
<1> DEFINE n == Len(items)
           V == Seq(Piece)
           op == OpGeminiContent
           h == CHOOSE h : FoldsGeminiContent(h, items)
<1>1. n \in Nat /\ DOMAIN items = 1 .. n /\ \A i \in 1 .. n : items[i] \in Item
  OBVIOUS
<1>2. /\ op \in [V -> [Item -> V]]
      /\ \A s \in V, x \in Item : op[s][x] = Translation!GeminiContent(s, x)
      /\ <<>> \in V
  <2>1. \A s \in V, x \in Item : Translation!GeminiContent(s, x) \in V
    BY GeminiContentStep
  <2>2. <<>> \in V
    OBVIOUS
  <2> HIDE DEF V
  <2>3. op = [s \in V |-> [x \in Item |-> Translation!GeminiContent(s, x)]]
    BY DEF OpGeminiContent, V
  <2> HIDE DEF op
  <2>. QED BY <2>1, <2>2, <2>3
<1>3. \A t : Translation!Max(t) = Seqs!Max(t)
  BY DEF Translation!Max, Seqs!Max
<1>4. Translation!GeminiContents(items) = h[1 .. n]
  BY <1>1, GeminiContentFold
<1>5. Adds(op, Piece)
  BY <1>2, GeminiContentStep DEF Adds
<1>6. Piece \in SUBSET Piece
  BY DEF Piece
<1> HIDE DEF op, V
<1>7. \E g : FoldsGeminiContent(g, items)
  <2>1. PICK g : RunFolds(g, V, items, <<>>, op)
    BY <1>2, RunExists
  <2>2. /\ \A t \in SUBSET (1 .. n) : g[t] \in V
        /\ g = [t \in SUBSET (1 .. n) |->
                  IF t = {} THEN <<>> ELSE op[g[t \ {Seqs!Max(t)}]][items[Seqs!Max(t)]]]
    BY <2>1 DEF RunFolds
  <2>3. ASSUME NEW t \in SUBSET (1 .. n)
        PROVE  (IF t = {} THEN <<>> ELSE op[g[t \ {Seqs!Max(t)}]][items[Seqs!Max(t)]])
                 = IF t = {} THEN <<>>
                   ELSE Translation!GeminiContent(g[t \ {Translation!Max(t)}], items[Translation!Max(t)])
    <3>1. CASE t # {}
      <4>1. Seqs!Max(t) \in 1 .. n
        BY <1>1, <3>1, LastPosition
      <4>2. items[Seqs!Max(t)] \in Item /\ g[t \ {Seqs!Max(t)}] \in V
        BY <1>1, <2>2, <4>1
      <4>. QED BY <1>2, <1>3, <3>1, <4>2
    <3>. QED BY <3>1
  <2>4. FoldsGeminiContent(g, items)
    BY <1>1, <2>2, <2>3 DEF FoldsGeminiContent
  <2>. QED BY <2>4
<1>8. FoldsGeminiContent(h, items)
  BY <1>7
<1> HIDE DEF h
<1>9. h[1 .. 0] = <<>>
  <2>1. 1 .. 0 = {} /\ 1 .. 0 \in SUBSET DOMAIN items
    BY <1>1
  <2>. QED BY <1>8, <2>1 DEF FoldsGeminiContent
<1>10. ASSUME NEW j \in 1 .. n, h[1 .. j - 1] \in V PROVE h[1 .. j] = op[h[1 .. j - 1]][items[j]]
  <2>1. j \in Nat /\ j # 0 /\ j \in 1 .. j
    BY <1>1
  <2>2. 1 .. j \in SUBSET DOMAIN items
    BY <1>1
  <2>3. (1 .. j) \ {j} = 1 .. j - 1
    BY <2>1
  <2>4. Translation!Max(1 .. j) = j
    BY <1>3, <2>1, LastOfRange
  <2>5. h[1 .. j] = Translation!GeminiContent(h[1 .. j - 1], items[j])
    BY <1>8, <2>1, <2>2, <2>3, <2>4 DEF FoldsGeminiContent
  <2>. QED BY <1>1, <1>2, <1>10, <2>5
<1>11. RunSteps(h, V, items, <<>>, op)
  BY <1>9, <1>10 DEF RunSteps
<1>12. RunTo(V, items, <<>>, op, h[1 .. Len(items)])
  BY <1>2, <1>11, RunOf
<1>13. RunTo(Seq(Piece), items, <<>>, op, Translation!GeminiContents(items))
  BY <1>4, <1>12 DEF V
<1>. QED BY <1>5, <1>6, <1>13, FoldCarried

-----------------------------------------------------------------------------
(* The conversation as it grows *)

LEMMA PartsAreItems ==
    ASSUME NEW items \in Seq(Item)
    PROVE  Translation!GeminiParts(items) \in Seq(Item)
<1>1. \A x \in Item : Translation!Part(x) \in Item
  BY DEF Translation!Part, Item, AnyItem
<1>2. Len(items) \in Nat /\ DOMAIN items = 1 .. Len(items) /\ \A i \in DOMAIN items : items[i] \in Item
  OBVIOUS
<1>3. \A i \in 1 .. Len(items) : Translation!Part(items[i]) \in Item
  BY <1>1, <1>2
<1>4. Translation!GeminiParts(items) = [i \in 1 .. Len(items) |-> Translation!Part(items[i])]
  BY <1>2 DEF Translation!GeminiParts
<1> HIDE DEF Item
<1>. QED BY <1>2, <1>3, <1>4

LEMMA TalkCarried ==
    ASSUME Translation!TalkInv
    PROVE  Translation!ConversationCarried
<1>1. x1 \in Seq(Talked) /\ Translation!InTurns
  BY DEF Translation!TalkInv, Talked
<1>2. ASSUME NEW items, Sound(items)
      PROVE  /\ Translation!AllThere(items)
             /\ Translation!Carried(Translation!OpenAIMessages(items), items)
             /\ Translation!Carried(Translation!AnthropicMessages(items), items)
             /\ Translation!Carried(Translation!GeminiContents(Translation!GeminiParts(items)),
                                    Translation!GeminiParts(items))
  BY <1>2, OpenAIMessageRun, AnthropicMessageRun, PartsAreItems, GeminiContentRun DEF Sound
<1>3. /\ Sound(Translation!OpenAIInput) /\ Translation!Paired(Translation!OpenAIInput)
      /\ Sound(Translation!AnthropicInput) /\ Translation!Paired(Translation!AnthropicInput)
      /\ Sound(Translation!GeminiInput)
      /\ Translation!ResultsInOrder => Translation!Paired(Translation!GeminiInput)
  BY <1>1, OpenAISound, AnthropicSound, GeminiSound
<1>4. Translation!OneCallAtATime =>
         Translation!AllThere(Translation!LegacyInput) /\ Translation!Paired(Translation!LegacyInput)
  BY <1>1, LegacySound DEF Sound
<1>. QED BY <1>2, <1>3, <1>4 DEF Translation!ConversationCarried

\* What a message may be after the ones before it.
Follows(s, m) ==
    /\ m.role = "user" => m.calls = <<>>
    /\ m.role = "assistant" => m.results = <<>>
    /\ s = <<>> => m.role = "user" /\ m.results = <<>>
    /\ s # <<>> => m.role # s[Len(s)].role
    /\ s # <<>> /\ m.role = "user" => Translation!Answers(m.results, s[Len(s)].calls)
    /\ \A a, b \in DOMAIN m.calls : a < b => m.calls[a].id < m.calls[b].id

LEMMA TalkGrows ==
    ASSUME Translation!TalkInv, NEW m \in Talked, Follows(x1, m), x1' = Append(x1, m)
    PROVE  Translation!TalkInv'
<1> DEFINE k == Len(x1)
<1>1. /\ x1 \in Seq(Talked) /\ k \in Nat /\ DOMAIN x1 = 1 .. k /\ (x1 = <<>> <=> k = 0)
      /\ Translation!InTurns
  BY DEF Translation!TalkInv, Talked
<1>2. /\ x1' \in Seq(Talked) /\ DOMAIN x1' = 1 .. k + 1
      /\ x1'[k + 1] = m /\ \A n \in 1 .. k : x1'[n] = x1[n]
  BY <1>1, AppendIs
<1>3. \A n \in 1 .. k + 1 : n \in 1 .. k \/ n = k + 1
  BY <1>1
<1> DEFINE Turned(n) ==
             /\ x1'[n].role = "user" => x1'[n].calls = <<>>
             /\ x1'[n].role = "assistant" => x1'[n].results = <<>>
             /\ n = 1 => x1'[n].role = "user" /\ x1'[n].results = <<>>
             /\ n > 1 => x1'[n].role # x1'[n - 1].role
             /\ n > 1 /\ x1'[n].role = "user" => Translation!Answers(x1'[n].results, x1'[n - 1].calls)
             /\ \A a, b \in DOMAIN x1'[n].calls : a < b => x1'[n].calls[a].id < x1'[n].calls[b].id
<1>4. ASSUME NEW n \in 1 .. k PROVE Turned(n)
  <2>1. x1'[n] = x1[n] /\ (n > 1 => x1'[n - 1] = x1[n - 1])
    <3>1. n > 1 => n - 1 \in 1 .. k
      BY <1>1
    <3>. QED BY <1>2, <3>1
  <2>2. /\ x1[n].role = "user" => x1[n].calls = <<>>
        /\ x1[n].role = "assistant" => x1[n].results = <<>>
        /\ n = 1 => x1[n].role = "user" /\ x1[n].results = <<>>
        /\ n > 1 => x1[n].role # x1[n - 1].role
        /\ n > 1 /\ x1[n].role = "user" => Translation!Answers(x1[n].results, x1[n - 1].calls)
        /\ \A a, b \in DOMAIN x1[n].calls : a < b => x1[n].calls[a].id < x1[n].calls[b].id
    BY <1>1 DEF Translation!InTurns
  <2>. QED BY <2>1, <2>2
<1>5. Turned(k + 1)
  <2>1. (k + 1 = 1 => x1 = <<>>) /\ (k + 1 > 1 => x1 # <<>> /\ k \in 1 .. k) /\ (k + 1) - 1 = k
    BY <1>1
  <2>2. k + 1 > 1 => x1'[(k + 1) - 1] = x1[k]
    BY <1>2, <2>1
  <2> HIDE DEF k
  <2>3. /\ m.role = "user" => m.calls = <<>>
        /\ m.role = "assistant" => m.results = <<>>
        /\ x1 = <<>> => m.role = "user" /\ m.results = <<>>
        /\ x1 # <<>> => m.role # x1[k].role
        /\ x1 # <<>> /\ m.role = "user" => Translation!Answers(m.results, x1[k].calls)
        /\ \A a, b \in DOMAIN m.calls : a < b => m.calls[a].id < m.calls[b].id
    BY DEF Follows, k
  <2>. QED BY <1>2, <2>1, <2>2, <2>3
<1>6. \A n \in DOMAIN x1' : Turned(n)
  <2> HIDE DEF k, Turned
  <2>. QED BY <1>2, <1>3, <1>4, <1>5
<1>7. Translation!InTurns'
  <2> HIDE DEF k
  <2>. QED BY <1>6 DEF Translation!InTurns
<1>. QED BY <1>2, <1>7 DEF Translation!TalkInv, Talked

LEMMA LastOfTalk ==
    ASSUME x1 \in Seq(Talked), x1 # <<>>
    PROVE  Translation!Last(x1) = x1[Len(x1)] /\ x1[Len(x1)] \in Talked
<1>1. Len(x1) \in 1 .. Len(x1)
  OBVIOUS
<1>. QED BY <1>1 DEF Translation!Last

LEMMA AssistantKeeps ==
    ASSUME Translation!TalkInv, Translation!AssistantSaid
    PROVE  Translation!TalkInv'
<1>1. PICK text \in {Translation!NoText, Translation!Fresh}, n \in 0 .. MaxTogether :
        \E tools \in [1 .. n -> Tools] :
           x1' = Append(x1, Translation!Message("assistant", text, Translation!CallsOf(tools), <<>>))
  BY DEF Translation!AssistantSaid
<1>2. PICK tools \in [1 .. n -> Tools] :
        x1' = Append(x1, Translation!Message("assistant", text, Translation!CallsOf(tools), <<>>))
  BY <1>1
<1> DEFINE c == Translation!CallsOf(tools)
           m == Translation!Message("assistant", text, c, <<>>)
           b == MaxTogether * Len(x1)
<1>3. x1 \in Seq(Talked) /\ Len(x1) \in Nat
  BY DEF Translation!TalkInv, Talked
<1>4. b \in Nat /\ n \in Nat /\ text \in Nat
  BY <1>3, TalkAssumption DEF Translation!NoText, Translation!Fresh
<1>5. DOMAIN c = 1 .. n /\ c = [i \in DOMAIN c |-> c[i]]
      /\ \A i \in 1 .. n : c[i] = [id |-> b + i, tool |-> tools[i]]
  BY DEF Translation!CallsOf
<1> HIDE DEF b, c
<1>6. \A i \in 1 .. n : c[i] \in Translation!Call /\ c[i].id = b + i
  <2>1. \A i \in 1 .. n : b + i \in Nat /\ tools[i] \in Tools
    BY <1>4
  <2>. QED BY <1>5, <2>1 DEF Translation!Call
<1>7. c \in Seq(Translation!Call)
  BY <1>4, <1>5, <1>6, FamilyIs
<1>8. /\ m \in Talked /\ m.role = "assistant" /\ m.calls = c /\ m.results = <<>>
  <2>1. m = [role |-> "assistant", text |-> text, calls |-> c, results |-> <<>>]
    BY DEF Translation!Message
  <2>2. <<>> \in Seq(Translation!Call)
    OBVIOUS
  <2> HIDE DEF m
  <2>3. m \in Talked
    BY <1>4, <1>7, <2>1, <2>2 DEF Talked, Translation!Messages
  <2>. QED BY <2>1, <2>3
<1>9. \A i, j \in DOMAIN c : i < j => c[i].id < c[j].id
  <2>1. ASSUME NEW i \in 1 .. n, NEW j \in 1 .. n, i < j PROVE c[i].id < c[j].id
    <3>1. b + i < b + j
      BY <1>4, <2>1
    <3>. QED BY <1>6, <3>1
  <2>. QED BY <1>5, <2>1
<1>10. x1 # <<>> /\ x1[Len(x1)].role # "assistant"
  <2>1. Translation!Speaker # "assistant"
    BY DEF Translation!AssistantSaid, Translation!Turn
  <2>. QED BY <1>3, <2>1, LastOfTalk DEF Translation!Speaker
<1>11. x1' = Append(x1, m)
  BY <1>2 DEF c
<1> HIDE DEF m
<1>12. Follows(x1, m)
  BY <1>8, <1>9, <1>10 DEF Follows
<1>. QED BY <1>8, <1>11, <1>12, TalkGrows

LEMMA UserKeeps ==
    ASSUME Translation!TalkInv, Translation!UserSays
    PROVE  Translation!TalkInv'
<1> DEFINE calls == IF x1 = <<>> THEN <<>> ELSE Translation!Last(x1).calls
<1>1. PICK text \in {Translation!NoText, Translation!Fresh},
           p \in Translation!Bijection(DOMAIN calls, DOMAIN calls) :
        x1' = Append(x1, Translation!Message("user", text, <<>>, [i \in DOMAIN calls |-> calls[p[i]]]))
  BY DEF Translation!UserSays
<1> DEFINE r == [i \in DOMAIN calls |-> calls[p[i]]]
           m == Translation!Message("user", text, <<>>, r)
<1>2. x1 \in Seq(Talked) /\ Len(x1) \in Nat /\ text \in Nat
  BY DEF Translation!TalkInv, Talked, Translation!NoText, Translation!Fresh
<1>3. calls \in Seq(Translation!Call) /\ (x1 = <<>> => calls = <<>>)
      /\ (x1 # <<>> => calls = x1[Len(x1)].calls)
  <2>1. CASE x1 = <<>>
    BY <2>1
  <2>2. CASE x1 # <<>>
    BY <1>2, <2>2, LastOfTalk DEF Talked, Translation!Messages
  <2>. QED BY <2>1, <2>2
<1>4. Translation!Answers(r, calls)
  BY DEF Translation!Answers
<1>5. p \in [DOMAIN calls -> DOMAIN calls]
  BY DEF Translation!Bijection, Translation!Injection
<1>6. x1' = Append(x1, m)
  BY <1>1
<1>7. Len(calls) \in Nat /\ DOMAIN calls = 1 .. Len(calls)
      /\ \A i \in DOMAIN calls : calls[i] \in Translation!Call
  BY <1>3, SequenceFacts
<1> HIDE DEF calls
<1>8. r \in Seq(Translation!Call)
  <2>1. DOMAIN r = 1 .. Len(calls) /\ r = [i \in DOMAIN r |-> r[i]]
    BY <1>7
  <2>2. \A i \in 1 .. Len(calls) : r[i] \in Translation!Call
    BY <1>5, <1>7
  <2> HIDE DEF r
  <2>. QED BY <1>7, <2>1, <2>2, FamilyIs
<1>9. calls = <<>> => r = <<>>
  OBVIOUS
<1> HIDE DEF r
<1>10. m \in Talked /\ m.role = "user" /\ m.calls = <<>> /\ m.results = r
  <2>1. m = [role |-> "user", text |-> text, calls |-> <<>>, results |-> r]
    BY DEF Translation!Message
  <2>2. <<>> \in Seq(Translation!Call)
    OBVIOUS
  <2> HIDE DEF m
  <2>3. m \in Talked
    BY <1>2, <1>8, <2>1, <2>2 DEF Talked, Translation!Messages
  <2>. QED BY <2>1, <2>3
<1>11. x1 # <<>> => x1[Len(x1)].role # "user"
  <2>1. Translation!Speaker # "user"
    BY DEF Translation!UserSays, Translation!Turn
  <2>. QED BY <1>2, <2>1, LastOfTalk DEF Translation!Speaker
<1> HIDE DEF m
<1>12. Follows(x1, m)
  <2>1. \A a, b \in DOMAIN m.calls : a < b => m.calls[a].id < m.calls[b].id
    <3>1. DOMAIN m.calls = {}
      BY <1>10
    <3>. QED BY <3>1
  <2>. QED BY <1>3, <1>4, <1>9, <1>10, <1>11, <2>1 DEF Follows
<1>. QED BY <1>6, <1>10, <1>12, TalkGrows

TalksInv == part = "translation" => Translation!TalkInv

LEMMA TalksStart == ExchangesInit => TalksInv
<1>1. Translation!Init => Translation!TalkInv
  BY DEF Translation!Init, Translation!TalkInv, Translation!InTurns
<1>. QED BY <1>1 DEF ExchangesInit, TalksInv

LEMMA TalksStep ==
    ASSUME TalksInv, ExchangesNext \/ UNCHANGED allVars
    PROVE  TalksInv'
<1>1. part' = part
  BY DEF ExchangesNext, allVars
<1>2. CASE part = "translation"
  <2>1. Translation!Next \/ UNCHANGED x1
    BY <1>2 DEF ExchangesNext, allVars, from1
  <2>2. Translation!TalkInv
    BY <1>2 DEF TalksInv
  <2>3. ASSUME UNCHANGED x1 PROVE Translation!TalkInv'
    BY <2>2, <2>3 DEF Translation!TalkInv, Translation!InTurns
  <2>4. Translation!TalkInv'
    BY <2>1, <2>2, <2>3, AssistantKeeps, UserKeeps DEF Translation!Next
  <2> QED
    BY <2>4 DEF TalksInv
<1> QED
  BY <1>1, <1>2 DEF TalksInv

LEMMA TalksKept == ExchangesSpec => []TalksInv
<1>1. TalksInv /\ [ExchangesNext]_allVars => TalksInv'
  BY TalksStep
<1> QED
  BY <1>1, TalksStart, PTL DEF ExchangesSpec

\* Whatever is said in a conversation reaches the upstream: every text, every call
\* and every result, in order, from each client format and in the messages of each
\* provider; and each result is attached to the call it answers, by the ids of the
\* formats that have them, by the function where there is one call at a time, and
\* by the ids made up for Gemini as long as results come in the order of the calls.
\* The messages to a Gemini provider are the exception: they hold neither the ids
\* nor the names of functions, and what is said of them is the order only.
\* For conversations of any length, any number of calls in a message, and results
\* in any order (*-to-codex.ts, codex-request-to-*.ts).
THEOREM TalksHold == ExchangesSpec => []TalksSound
<1>1. TalksInv => TalksSound
  BY TalkCarried DEF TalksInv, TalksSound
<1> QED
  BY <1>1, TalksKept, PTL
=============================================================================
