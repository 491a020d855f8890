------------------------- MODULE ProxyHandlerProofs -------------------------
(* The types of ProxyHandler, how its requests end, and the slots of the    *)
(* pool with their release: for any number of accounts and requests and any *)
(* setting of the limit.                                                    *)
EXTENDS ProxyHandler, TLAPS, FiniteSetTheorems

-----------------------------------------------------------------------------
(* What the operators of the pool return *)

LEMMA RefreshedType == \A e \in Entry : Refreshed(e) \in Entry
  BY DEF Refreshed, LimitLifted, Entry, Statuses, Limits, Tokens

LEMMA PunishedType == \A e \in Entry, o \in AccountErrors : Punished(e, o) \in Entry
  <1> SUFFICES ASSUME NEW e \in Entry, NEW o \in AccountErrors
               PROVE  Punished(e, o) \in Entry
    OBVIOUS
  <1>1. \A s \in Statuses : Marked(e, s) \in Entry
    BY DEF Marked, Entry
  <1>2. LimitMarked(e) \in Entry
    BY DEF LimitMarked, Entry, Statuses, Limits
  <1> QED
    BY <1>1, <1>2 DEF Punished, Statuses, AccountErrors

LEMMA MarkedTypes ==
  /\ \A e \in Entry, s \in Statuses : Marked(e, s) \in Entry
  /\ \A e \in Entry : LimitMarked(e) \in Entry /\ UsageReset(e) \in Entry
  /\ \A e \in Entry, tok \in Tokens :
        TokenUpdated(e, tok) \in Entry /\ Readded(e, tok) \in Entry /\ NewEntry(tok) \in Entry
  BY ZenonT(60) DEF Marked, LimitMarked, UsageReset, TokenUpdated, Readded, NewEntry,
         StatusOfToken, Entry, Statuses, Limits, Tokens

LEMMA RecheckedType ==
  ASSUME NEW e \in [Accounts -> Entry]
  PROVE  Rechecked(e) \in [Accounts -> Entry]
  BY RefreshedType DEF Rechecked

LEMMA MutatedType ==
  ASSUME NEW e \in [Accounts -> Entry], NEW a \in Accounts, NEW x \in Entry
  PROVE  Mutated(e, a, x) \in [Accounts -> Entry]
  BY DEF Mutated

LEMMA SlotListType ==
  ASSUME NEW l \in SlotList
  PROVE  /\ Popped(l) \in SlotList
         /\ Pushed(l) \in SlotList
         /\ [l EXCEPT !.stale = 0] \in SlotList
         /\ NoSlots \in SlotList
  BY DEF Popped, Pushed, SlotList, NoSlots

LEMMA SlotsType ==
  ASSUME NEW s \in [Accounts -> SlotList], NEW a \in Accounts, NEW guard
  PROVE  /\ Cleared(s, a) \in [Accounts -> SlotList]
         /\ Swept(s) \in [Accounts -> SlotList]
         /\ GuardedRelease(s, a, guard) \in [Accounts -> SlotList]
         /\ [Swept(s) EXCEPT ![a] = Pushed(@)] \in [Accounts -> SlotList]
  <1>1. Swept(s) \in [Accounts -> SlotList]
    BY SlotListType DEF Swept
  <1> QED
    BY <1>1, SlotListType DEF Cleared, GuardedRelease, Release

LEMMA DebitedType ==
  ASSUME NEW d \in [Accounts -> Int], NEW a \in Accounts, NEW guard
  PROVE  Debited(d, a, guard) \in [Accounts -> Int]
  BY DEF Debited

LEMMA ChoicesSubset ==
  ASSUME NEW e, NEW s, NEW excluded, NEW suited, NEW preferred
  PROVE  Choices(e, s, excluded, suited, preferred)
           \subseteq Available(e, s, excluded, suited)
  BY DEF Choices

-----------------------------------------------------------------------------
(* Type correctness *)

LEMMA InitType == Init => TypeOK
  <1> SUFFICES ASSUME Init PROVE TypeOK
    OBVIOUS
  <1>1. NewEntry("valid") \in Entry
    BY DEF NewEntry, StatusOfToken, Entry, Statuses, Limits, Tokens
  <1>2. NoSlots \in SlotList
    BY DEF NoSlots, SlotList
  <1>3. PoolTypeOK
    BY <1>1, <1>2 DEF Init, PoolInit, PoolTypeOK
  <1> QED
    BY <1>3, ProxyAssumption DEF Init, TypeOK, Places, Kinds

LEMMA ReturnType ==
  ASSUME TypeOK, NEW r \in Requests, Return(r)
  PROVE  /\ pc' \in [Requests -> Places]
         /\ kind' \in [Requests -> Kinds]
         /\ cur' \in [Requests -> Accounts \cup {NoAccount}]
         /\ origin' \in [Requests -> Accounts \cup {NoAccount}]
         /\ tried' \in [Requests -> SUBSET Accounts]
         /\ released' \in [Requests -> SUBSET Accounts]
         /\ modelRetried' \in [Requests -> BOOLEAN]
         /\ empties' \in [Requests -> 0 .. MaxEmptyRetries]
  BY ProxyAssumption DEF TypeOK, Return, Places, Kinds

LEMMA LogType ==
  ASSUME TypeOK, NEW r \in Requests, NEW n \in 0 .. 2, Log(r, n)
  PROVE  logged' \in [Requests -> 0 .. 2]
  BY DEF TypeOK, Log

\* A request that waits has an account.
CurOK == \A r \in Requests : pc[r] # "idle" => cur[r] \in Accounts

OriginOK ==
    \A r \in Requests : pc[r] \in {"collecting", "again"} => origin[r] \in Accounts

Typed == TypeOK /\ CurOK /\ OriginOK

LEMMA FinishType ==
  ASSUME Typed, NEW r \in Requests, pc[r] # "idle", Finish(r)
  PROVE  Typed'
  <1> USE DEF Typed
  <1>0. cur[r] \in Accounts
    BY DEF CurOK
  <1>1. slots' \in [Accounts -> SlotList]
    BY <1>0, SlotsType DEF Finish, TypeOK, PoolTypeOK
  <1>2. owed' \in [Requests -> [Accounts -> Int]]
    BY <1>0, DebitedType DEF Finish, TypeOK
  <1>3. logged' \in [Requests -> 0 .. 2]
    BY LogType DEF Finish
  <1>4. PoolTypeOK'
    BY <1>1 DEF Finish, TypeOK, PoolTypeOK
  <1>5. TypeOK'
    BY <1>2, <1>3, <1>4, ReturnType DEF TypeOK, Finish
  <1>6. CurOK' /\ OriginOK'
    BY DEF Finish, Return, CurOK, OriginOK, TypeOK
  <1> QED
    BY <1>5, <1>6

LEMMA TakeType ==
  ASSUME TypeOK, NEW a \in Accounts, NEW e \in [Accounts -> Entry],
         NEW s \in [Accounts -> SlotList], Take(a, e, s) \/ TakeNone(e, s),
         UNCHANGED <<live, gone>>
  PROVE  PoolTypeOK'
  <1>1. entry' \in [Accounts -> Entry]
    BY RecheckedType DEF Take, TakeNone
  <1>2. slots' \in [Accounts -> SlotList]
    <2>1. /\ Swept(s) \in [Accounts -> SlotList]
          /\ [Swept(s) EXCEPT ![a] = Pushed(@)] \in [Accounts -> SlotList]
      BY SlotsType
    <2> QED
      BY <2>1 DEF Take, TakeNone
  <1> QED
    BY <1>1, <1>2 DEF TypeOK, PoolTypeOK

LEMMA GiveUpType ==
  ASSUME Typed, NEW r \in Requests, pc[r] # "idle",
         NEW e \in [Accounts -> Entry], NEW s \in [Accounts -> SlotList],
         NEW d \in [Accounts -> Int], NEW n \in 0 .. 2,
         GiveUp(r, e, s, d, n), UNCHANGED <<live, gone, refreshing, off>>
  PROVE  Typed'
  <1> USE DEF Typed
  <1>1. PoolTypeOK'
    BY TakeType DEF GiveUp, CurOK
  <1>2. logged' \in [Requests -> 0 .. 2]
    BY LogType DEF GiveUp
  <1>3. TypeOK'
    BY <1>1, <1>2, ReturnType DEF TypeOK, GiveUp
  <1>4. CurOK' /\ OriginOK'
    BY DEF GiveUp, Return, CurOK, OriginOK, TypeOK
  <1> QED
    BY <1>3, <1>4

LEMMA FailoverType ==
  ASSUME Typed, NEW r \in Requests, pc[r] = "upstream",
         NEW e \in [Accounts -> Entry], NEW s \in [Accounts -> SlotList],
         NEW d \in [Accounts -> Int], NEW guard \in SUBSET Accounts,
         NEW mr \in BOOLEAN, Failover(r, e, s, d, guard, mr)
  PROVE  Typed'
  <1> USE DEF Typed
  <1> DEFINE candidates == Choices(e, s, tried[r], Suited[r], NoAccount)
  <1>1. ASSUME NEW a \in candidates, FailoverTo(r, a, e, s, d, guard, mr)
        PROVE  Typed'
    <2>1. a \in Accounts
      BY ChoicesSubset DEF Available, TypeOK, PoolTypeOK
    <2>2. PoolTypeOK'
      BY <1>1, <2>1, TakeType DEF Failover, FailoverTo
    <2>3. TypeOK'
      BY <1>1, <2>1, <2>2 DEF TypeOK, Failover, FailoverTo
    <2>4. CurOK' /\ OriginOK'
      BY <1>1, <2>1 DEF CurOK, OriginOK, TypeOK, FailoverTo
    <2> QED
      BY <2>3, <2>4
  <1>2. CASE GiveUp(r, e, s, d, IF kind[r] = "compact" THEN 1 ELSE 0)
    BY <1>2, GiveUpType DEF Failover
  <1> QED
    BY <1>1, <1>2 DEF Failover

LEMMA MarkType ==
  ASSUME TypeOK, NEW a \in Accounts, NEW x \in Entry
  PROVE  /\ Mutated(entry, a, x) \in [Accounts -> Entry]
         /\ Cleared(slots, a) \in [Accounts -> SlotList]
         /\ GuardedRelease(slots, a, {}) \in [Accounts -> SlotList]
  BY MutatedType, SlotsType DEF TypeOK, PoolTypeOK

\* Every step of a request keeps the types.
LEMMA RequestStepType ==
  ASSUME Typed, NEW r \in Requests, RequestStep(r) \/ RateLimitEvent(r)
  PROVE  Typed'
  <1> USE DEF Typed
  <1>0. cur[r] \in Accounts => LimitMarked(entry[cur[r]]) \in Entry
    BY MarkedTypes DEF TypeOK, PoolTypeOK
  <1>1. ASSUME NEW o \in {"ok", "limited"}, UpstreamAnswers(r, o) PROVE Typed'
    <2>1. cur[r] \in Accounts
      BY <1>1 DEF UpstreamAnswers, CurOK
    <2>2. PoolTypeOK'
      <3>1. /\ Mutated(entry, cur[r], LimitMarked(entry[cur[r]])) \in [Accounts -> Entry]
            /\ Cleared(slots, cur[r]) \in [Accounts -> SlotList]
        BY <1>0, <2>1, MarkType
      <3> QED
        BY <1>1, <3>1 DEF UpstreamAnswers, TypeOK, PoolTypeOK
    <2>3. TypeOK'
      BY <1>1, <2>2 DEF UpstreamAnswers, TypeOK, Places
    <2>4. CurOK' /\ OriginOK'
      BY <1>1, <2>1 DEF UpstreamAnswers, TypeOK, CurOK, OriginOK
    <2> QED
      BY <2>3, <2>4
  <1>2. CASE CompactAnswers(r)
    BY <1>2, FinishType DEF CompactAnswers
  <1>3. ASSUME NEW o \in AccountErrors, AccountRejected(r, o) PROVE Typed'
    <2>1. cur[r] \in Accounts
      BY <1>3 DEF AccountRejected, CurOK
    <2>2. Punished(entry[cur[r]], o) \in Entry
      BY <2>1, PunishedType DEF TypeOK, PoolTypeOK
    <2>3. /\ owed[r] \in [Accounts -> Int]
          /\ released[r] \in SUBSET Accounts
          /\ modelRetried[r] \in BOOLEAN
      BY DEF TypeOK
    <2> QED
      BY <1>3, <2>1, <2>2, <2>3, MarkType, FailoverType DEF AccountRejected
  <1>4. CASE ModelRejected(r)
    <2>1. cur[r] \in Accounts
      BY <1>4 DEF ModelRejected, CurOK
    <2>2. /\ Debited(owed[r], cur[r], released[r]) \in [Accounts -> Int]
          /\ released[r] \cup {cur[r]} \in SUBSET Accounts
          /\ (kind[r] # "compact") \in BOOLEAN
      BY <2>1, DebitedType DEF TypeOK
    <2>3. /\ GuardedRelease(slots, cur[r], released[r]) \in [Accounts -> SlotList]
          /\ entry \in [Accounts -> Entry]
      BY <2>1, SlotsType DEF TypeOK, PoolTypeOK
    <2> QED
      BY <1>4, <2>2, <2>3, FailoverType DEF ModelRejected
  <1>5. CASE UpstreamFails(r)
    BY <1>5, FinishType DEF UpstreamFails
  <1>6. CASE StreamEnds(r)
    BY <1>6, FinishType DEF StreamEnds
  <1>7. CASE CollectEnds(r)
    BY <1>7, FinishType DEF CollectEnds
  <1>8. CASE CollectEmpty(r)
    <2> DEFINE s == GuardedRelease(slots, cur[r], released[r])
               d == Debited(owed[r], cur[r], released[r])
               candidates == Choices(entry, s, {}, Suited[r], NoAccount)
    <2>1. cur[r] \in Accounts
      BY <1>8 DEF CollectEmpty, CurOK
    <2>2. /\ s \in [Accounts -> SlotList]
          /\ d \in [Accounts -> Int]
          /\ entry \in [Accounts -> Entry]
      BY <2>1, SlotsType, DebitedType DEF TypeOK, PoolTypeOK
    <2>3. ASSUME NEW a \in candidates, AgainOn(r, a, s, d) PROVE Typed'
      <3>1. a \in Accounts
        BY ChoicesSubset DEF Available, TypeOK, PoolTypeOK
      <3>2. PoolTypeOK'
        BY <1>8, <2>2, <2>3, <3>1, TakeType DEF CollectEmpty, AgainOn
      <3>3. empties[r] + 1 \in 0 .. MaxEmptyRetries
        BY <1>8, ProxyAssumption DEF CollectEmpty, TypeOK
      <3>4. TypeOK'
        BY <1>8, <2>1, <2>2, <2>3, <3>1, <3>2, <3>3 DEF TypeOK, AgainOn, CollectEmpty, Places
      <3>5. CurOK' /\ OriginOK'
        BY <1>8, <2>3, <3>1 DEF CurOK, OriginOK, TypeOK, AgainOn, CollectEmpty
      <3> QED
        BY <3>4, <3>5
    <2>4. CASE GiveUp(r, entry, s, d, 0)
      BY <1>8, <2>2, <2>4, GiveUpType DEF CollectEmpty
    <2> QED
      BY <1>8, <2>3, <2>4 DEF CollectEmpty
  <1>9. CASE AgainAnswers(r)
    <2>1. TypeOK'
      BY <1>9 DEF AgainAnswers, TypeOK, PoolTypeOK, poolVars, Places
    <2> QED
      BY <1>9, <2>1 DEF AgainAnswers, CurOK, OriginOK, TypeOK
  <1>10. CASE AgainFails(r)
    BY <1>10, FinishType DEF AgainFails
  <1>11. CASE AgainThrows(r)
    <2>1. cur[r] \in Accounts /\ origin[r] \in Accounts
      BY <1>11 DEF AgainThrows, CurOK, OriginOK
    <2>2. slots' \in [Accounts -> SlotList]
      BY <1>11, <2>1, SlotsType DEF AgainThrows, TypeOK, PoolTypeOK
    <2>3. owed' \in [Requests -> [Accounts -> Int]]
      BY <1>11, <2>1, DebitedType DEF AgainThrows, TypeOK
    <2>4. PoolTypeOK'
      BY <1>11, <2>2 DEF AgainThrows, TypeOK, PoolTypeOK
    <2>5. logged' \in [Requests -> 0 .. 2]
      BY <1>11, LogType DEF AgainThrows
    <2>6. TypeOK'
      BY <1>11, <2>3, <2>4, <2>5, ReturnType DEF TypeOK, AgainThrows
    <2> QED
      BY <1>11, <2>6 DEF AgainThrows, Return, CurOK, OriginOK, TypeOK
  <1>12. CASE RateLimitEvent(r)
    <2>1. cur[r] \in Accounts
      BY <1>12 DEF RateLimitEvent, CurOK
    <2>2. PoolTypeOK'
      <3>1. /\ Mutated(entry, cur[r], LimitMarked(entry[cur[r]])) \in [Accounts -> Entry]
            /\ Cleared(slots, cur[r]) \in [Accounts -> SlotList]
        BY <1>0, <2>1, MarkType
      <3> QED
        BY <1>12, <3>1 DEF RateLimitEvent, TypeOK, PoolTypeOK
    <2> QED
      BY <1>12, <2>2 DEF RateLimitEvent, reqVars, TypeOK, CurOK, OriginOK
  <1> QED
    BY <1>1, <1>2, <1>3, <1>4, <1>5, <1>6, <1>7, <1>8, <1>9, <1>10, <1>11, <1>12
       DEF RequestStep

LEMMA StartRequestType ==
  ASSUME Typed, NEW r \in Requests, NEW k \in Kinds,
         NEW p \in Accounts \cup {NoAccount}, StartRequest(r, k, p)
  PROVE  Typed'
  <1> USE DEF Typed
  <1> DEFINE candidates == Choices(entry, slots, {}, Suited[r], p)
  <1>0. entry \in [Accounts -> Entry] /\ slots \in [Accounts -> SlotList]
    BY DEF TypeOK, PoolTypeOK
  <1>1. ASSUME NEW a \in candidates, StartOn(r, k, a) PROVE Typed'
    <2>1. a \in Accounts
      BY ChoicesSubset DEF Available, TypeOK, PoolTypeOK
    <2>2. PoolTypeOK'
      BY <1>0, <1>1, <2>1, TakeType DEF StartRequest, StartOn
    <2>3. TypeOK'
      BY SMTT(60), <1>1, <2>1, <2>2 DEF TypeOK, StartRequest, StartOn, Places
    <2>4. CurOK' /\ OriginOK'
      BY <1>1, <2>1 DEF CurOK, OriginOK, TypeOK, StartOn
    <2> QED
      BY <2>3, <2>4
  <1>2. CASE Refuse(r, k)
    <2>1. entry' \in [Accounts -> Entry] /\ slots' \in [Accounts -> SlotList]
      <3>1. Swept(slots) \in [Accounts -> SlotList]
        BY <1>0, SlotListType DEF Swept
      <3> QED
        BY <1>0, <1>2, <3>1, RecheckedType DEF Refuse, TakeNone
    <2>2. TypeOK'
      BY <1>2, <2>1 DEF TypeOK, PoolTypeOK, StartRequest, Refuse
    <2> QED
      BY <1>2, <2>2 DEF CurOK, OriginOK, TypeOK, Refuse
  <1> QED
    BY <1>1, <1>2 DEF StartRequest

\* A step of another actor: what is left to show is the type of the pool.
LEMMA OtherType ==
  ASSUME Typed, UNCHANGED reqVars, PoolTypeOK', refreshing' \subseteq Accounts,
         off' \subseteq Accounts
  PROVE  Typed'
  BY DEF Typed, TypeOK, CurOK, OriginOK, reqVars

OtherStep(a) ==
    \/ RefreshBegins(a) \/ RefreshEnds(a)
    \/ \E s \in {"active", "disabled"} : Switch(a, s)
    \/ Remove(a)
    \/ \E tok \in Tokens : Add(a, tok)
    \/ Reset(a)
    \/ SlotTimesOut(a) \/ LimitTimesOut(a) \/ TokenTimesOut(a)

LEMMA OtherStepType ==
  ASSUME Typed, NEW a \in Accounts, OtherStep(a)
  PROVE  Typed'
  <1>0. /\ entry \in [Accounts -> Entry]
        /\ slots \in [Accounts -> SlotList]
        /\ live \subseteq Accounts
        /\ gone \subseteq Accounts \ live
        /\ refreshing \subseteq Accounts
        /\ off \subseteq Accounts
        /\ entry[a] \in Entry
        /\ slots[a] \in SlotList
    BY DEF Typed, TypeOK, PoolTypeOK
  <1> USE DEF PoolTypeOK
  <1>1. ASSUME NEW s \in Statuses, SchedulerMark(a, s) PROVE PoolTypeOK'
    <2>1. /\ Mutated(entry, a, Marked(entry[a], s)) \in [Accounts -> Entry]
          /\ Cleared(slots, a) \in [Accounts -> SlotList]
      BY <1>0, MarkedTypes, MutatedType, SlotsType
    <2> QED
      BY <1>0, <1>1, <2>1 DEF SchedulerMark
  <1>2. CASE RefreshBegins(a)
    BY <1>0, <1>1, <1>2, OtherType DEF RefreshBegins, Statuses
  <1>3. CASE RefreshEnds(a)
    <2>1. CASE SchedulerUpdateToken(a)
      <3>1. Mutated(entry, a, TokenUpdated(entry[a], "valid")) \in [Accounts -> Entry]
        BY <1>0, MarkedTypes, MutatedType DEF Tokens
      <3>2. PoolTypeOK'
        BY <1>0, <2>1, <3>1 DEF SchedulerUpdateToken
      <3> QED
        BY <1>0, <1>3, <3>2, OtherType DEF RefreshEnds
    <2>2. CASE SchedulerMark(a, "active") \/ SchedulerMark(a, "expired")
      BY <1>0, <1>1, <1>3, <2>2, OtherType DEF RefreshEnds, Statuses
    <2> QED
      BY <1>3, <2>1, <2>2 DEF RefreshEnds
  <1>4. ASSUME NEW s \in {"active", "disabled"}, Switch(a, s) PROVE Typed'
    <2>1. Marked(entry[a], s) \in Entry /\ Cleared(slots, a) \in [Accounts -> SlotList]
      BY <1>0, MarkedTypes, SlotsType DEF Statuses
    <2>2. PoolTypeOK'
      BY <1>0, <1>4, <2>1 DEF Switch, SetStatus
    <2> QED
      BY <1>0, <1>4, <2>2, OtherType DEF Switch
  <1>5. CASE Remove(a)
    <2>1. Cleared(slots, a) \in [Accounts -> SlotList]
      BY <1>0, SlotsType
    <2>2. PoolTypeOK'
      BY <1>0, <1>5, <2>1 DEF Remove, RemoveAccount
    <2> QED
      BY <1>0, <1>5, <2>2, OtherType DEF Remove
  <1>6. ASSUME NEW tok \in Tokens, Add(a, tok) PROVE Typed'
    <2>1. Readded(entry[a], tok) \in Entry /\ NewEntry(tok) \in Entry
      BY <1>0, MarkedTypes
    <2>2. PoolTypeOK'
      BY <1>0, <1>6, <2>1 DEF Add, AddAccount
    <2> QED
      BY <1>0, <1>6, <2>2, OtherType DEF Add
  <1>7. CASE Reset(a)
    <2>1. UsageReset(entry[a]) \in Entry
      BY <1>0, MarkedTypes
    <2>2. PoolTypeOK'
      BY <1>0, <1>7, <2>1 DEF Reset, ResetUsage
    <2> QED
      BY <1>0, <1>7, <2>2, OtherType DEF Reset
  <1>8. CASE SlotTimesOut(a)
    <2>1. [stale |-> slots[a].stale + 1, fresh |-> slots[a].fresh - 1] \in SlotList
      BY <1>0, <1>8 DEF SlotTimesOut, SlotAges, SlotList
    <2>2. PoolTypeOK'
      BY <1>0, <1>8, <2>1 DEF SlotTimesOut, SlotAges
    <2> QED
      BY <1>0, <1>8, <2>2, OtherType DEF SlotTimesOut
  <1>9. CASE LimitTimesOut(a)
    <2>1. [entry[a] EXCEPT !.limit = "passed"] \in Entry
      BY <1>0 DEF Entry, Limits
    <2>2. PoolTypeOK'
      BY <1>0, <1>9, <2>1 DEF LimitTimesOut, LimitPasses
    <2> QED
      BY <1>0, <1>9, <2>2, OtherType DEF LimitTimesOut
  <1>10. CASE TokenTimesOut(a)
    <2>1. [entry[a] EXCEPT !.token = "lapsed"] \in Entry
      BY <1>0 DEF Entry, Tokens
    <2>2. PoolTypeOK'
      BY <1>0, <1>10, <2>1 DEF TokenTimesOut, TokenLapses
    <2> QED
      BY <1>0, <1>10, <2>2, OtherType DEF TokenTimesOut
  <1> QED
    BY <1>2, <1>3, <1>4, <1>5, <1>6, <1>7, <1>8, <1>9, <1>10 DEF OtherStep

LEMMA NextType == Typed /\ [Next]_vars => Typed'
  <1> SUFFICES ASSUME Typed, [Next]_vars PROVE Typed'
    OBVIOUS
  <1>1. CASE UNCHANGED vars
    BY <1>1 DEF vars, poolVars, reqVars, Typed, TypeOK, PoolTypeOK, CurOK, OriginOK
  <1>2. ASSUME NEW r \in Requests, RequestStep(r) \/ RateLimitEvent(r) PROVE Typed'
    BY <1>2, RequestStepType
  <1>3. ASSUME NEW r \in Requests, NEW k \in Kinds, NEW p \in Accounts \cup {NoAccount},
               StartRequest(r, k, p)
        PROVE  Typed'
    BY <1>3, StartRequestType
  <1>4. ASSUME NEW a \in Accounts, OtherStep(a) PROVE Typed'
    BY <1>4, OtherStepType
  <1>5. CASE List
    <2>1. PoolTypeOK'
      BY <1>5, RecheckedType DEF List, ListAccounts, Typed, TypeOK, PoolTypeOK
    <2> QED
      BY <1>5, <2>1, OtherType DEF List, Typed, TypeOK
  <1> QED
    BY <1>1, <1>2, <1>3, <1>4, <1>5 DEF Next, OtherStep

LEMMA TypedInvariant == Spec => []Typed
  <1>1. Init => Typed
    BY InitType DEF Init, Typed, CurOK, OriginOK
  <1> QED
    BY <1>1, NextType, PTL DEF Spec

\* Whatever the requests, the dashboard, the refresh scheduler and the clock
\* do, every variable of the handler keeps its type; in particular no count of
\* slots and no retry counter leaves its range (proxy-handler.ts,
\* account-lifecycle.ts).
THEOREM TypeCorrect == Spec => []TypeOK
  <1>1. Typed => TypeOK
    BY DEF Typed
  <1> QED
    BY <1>1, TypedInvariant, PTL

-----------------------------------------------------------------------------
(* How requests end: none gives an account back twice (the guard of         *)
(* releaseAccount does its work on every path of handleProxyRequest and     *)
(* handleNonStreaming), and all but those refused are recorded.             *)

\* While a request waits, either the account it waits on is already in the
\* guard or the request owes that account a release; and once the repeated
\* createResponse of handleNonStreaming may throw, the account of the retry
\* loop is in the guard.
OwedOK(r) ==
    /\ \A a \in Accounts : owed[r][a] >= 0
    /\ pc[r] # "idle" /\ cur[r] \notin released[r] => owed[r][cur[r]] >= 1
    /\ pc[r] = "again" => origin[r] \in released[r]
    /\ pc[r] = "collecting" => origin[r] = cur[r] \/ origin[r] \in released[r]

Owed == Typed /\ \A r \in Requests : OwedOK(r)

LEMMA DebitedOwed ==
  ASSUME NEW d \in [Accounts -> Int], NEW c \in Accounts, NEW guard,
         \A a \in Accounts : d[a] >= 0, c \notin guard => d[c] >= 1
  PROVE  /\ Debited(d, c, guard) \in [Accounts -> Int]
         /\ \A a \in Accounts : Debited(d, c, guard)[a] >= 0
  BY DEF Debited

LEMMA FinishOwed ==
  ASSUME Owed, NEW r \in Requests, pc[r] # "idle", Finish(r)
  PROVE  \A q \in Requests : OwedOK(q)'
  <1>1. /\ cur[r] \in Accounts
        /\ owed \in [Requests -> [Accounts -> Int]]
        /\ pc \in [Requests -> Places]
        /\ cur \in [Requests -> Accounts \cup {NoAccount}]
        /\ origin \in [Requests -> Accounts \cup {NoAccount}]
        /\ released \in [Requests -> SUBSET Accounts]
    BY DEF Owed, Typed, CurOK, TypeOK
  <1>2. \A a \in Accounts : Debited(owed[r], cur[r], released[r])[a] >= 0
    BY <1>1, DebitedOwed DEF Owed, OwedOK
  <1>3. OwedOK(r)'
    BY <1>1, <1>2 DEF Finish, Return, OwedOK
  <1>4. ASSUME NEW q \in Requests \ {r} PROVE OwedOK(q)'
    BY <1>1, <1>4 DEF Finish, Return, Owed, OwedOK
  <1> QED
    BY <1>3, <1>4

LEMMA GiveUpOwed ==
  ASSUME Owed, NEW r \in Requests, NEW e, NEW s, NEW d \in [Accounts -> Int],
         \A a \in Accounts : d[a] >= 0, NEW n, GiveUp(r, e, s, d, n)
  PROVE  \A q \in Requests : OwedOK(q)'
  <1>1. /\ owed \in [Requests -> [Accounts -> Int]]
        /\ pc \in [Requests -> Places]
        /\ cur \in [Requests -> Accounts \cup {NoAccount}]
        /\ origin \in [Requests -> Accounts \cup {NoAccount}]
        /\ released \in [Requests -> SUBSET Accounts]
    BY DEF Owed, Typed, TypeOK
  <1>2. OwedOK(r)'
    BY <1>1 DEF GiveUp, Return, OwedOK
  <1>3. ASSUME NEW q \in Requests \ {r} PROVE OwedOK(q)'
    BY <1>1, <1>3 DEF GiveUp, Return, Owed, OwedOK
  <1> QED
    BY <1>2, <1>3

LEMMA FailoverOwed ==
  ASSUME Owed, NEW r \in Requests, pc[r] = "upstream", NEW e, NEW s,
         NEW d \in [Accounts -> Int], \A a \in Accounts : d[a] >= 0,
         NEW guard \in SUBSET Accounts, NEW mr, Failover(r, e, s, d, guard, mr)
  PROVE  \A q \in Requests : OwedOK(q)'
  <1>1. /\ owed \in [Requests -> [Accounts -> Int]]
        /\ pc \in [Requests -> Places]
        /\ cur \in [Requests -> Accounts \cup {NoAccount}]
        /\ origin \in [Requests -> Accounts \cup {NoAccount}]
        /\ released \in [Requests -> SUBSET Accounts]
        /\ live \subseteq Accounts
    BY DEF Owed, Typed, TypeOK, PoolTypeOK
  <1>2. ASSUME NEW a \in Choices(e, s, tried[r], Suited[r], NoAccount),
               FailoverTo(r, a, e, s, d, guard, mr)
        PROVE  \A q \in Requests : OwedOK(q)'
    <2>1. a \in Accounts
      BY <1>1, ChoicesSubset DEF Available
    <2>2. OwedOK(r)'
      BY <1>1, <1>2, <2>1 DEF FailoverTo, OwedOK
    <2>3. ASSUME NEW q \in Requests \ {r} PROVE OwedOK(q)'
      BY <1>1, <1>2, <2>3 DEF FailoverTo, Owed, OwedOK
    <2> QED
      BY <2>2, <2>3
  <1>3. CASE GiveUp(r, e, s, d, IF kind[r] = "compact" THEN 1 ELSE 0)
    BY <1>3, GiveUpOwed
  <1> QED
    BY <1>2, <1>3 DEF Failover

LEMMA RequestStepOwed ==
  ASSUME Owed, NEW r \in Requests, RequestStep(r)
  PROVE  \A q \in Requests : OwedOK(q)'
  <1>0. /\ owed \in [Requests -> [Accounts -> Int]]
        /\ pc \in [Requests -> Places]
        /\ cur \in [Requests -> Accounts \cup {NoAccount}]
        /\ origin \in [Requests -> Accounts \cup {NoAccount}]
        /\ released \in [Requests -> SUBSET Accounts]
        /\ live \subseteq Accounts
        /\ pc[r] # "idle" => cur[r] \in Accounts
        /\ pc[r] \in {"collecting", "again"} => origin[r] \in Accounts
        /\ OwedOK(r)
    BY DEF Owed, Typed, TypeOK, PoolTypeOK, CurOK, OriginOK
  <1>a. ASSUME pc[r] # "idle"
        PROVE  /\ Debited(owed[r], cur[r], released[r]) \in [Accounts -> Int]
               /\ \A a \in Accounts : Debited(owed[r], cur[r], released[r])[a] >= 0
    BY <1>0, <1>a, DebitedOwed DEF OwedOK
  <1>1. ASSUME NEW o \in {"ok", "limited"}, UpstreamAnswers(r, o)
        PROVE  \A q \in Requests : OwedOK(q)'
    <2>1. OwedOK(r)'
      BY <1>0, <1>1 DEF UpstreamAnswers, OwedOK
    <2>2. ASSUME NEW q \in Requests \ {r} PROVE OwedOK(q)'
      BY <1>0, <1>1, <2>2 DEF UpstreamAnswers, Owed, OwedOK
    <2> QED
      BY <2>1, <2>2
  <1>2. CASE CompactAnswers(r) \/ UpstreamFails(r) \/ StreamEnds(r) \/ CollectEnds(r)
             \/ AgainFails(r)
    BY <1>2, FinishOwed DEF CompactAnswers, UpstreamFails, StreamEnds, CollectEnds, AgainFails
  <1>3. ASSUME NEW o \in AccountErrors, AccountRejected(r, o)
        PROVE  \A q \in Requests : OwedOK(q)'
    <2>1. owed[r] \in [Accounts -> Int] /\ released[r] \in SUBSET Accounts
      BY <1>0
    <2>2. \A a \in Accounts : owed[r][a] >= 0
      BY <1>0 DEF OwedOK
    <2> QED
      BY <1>3, <2>1, <2>2, FailoverOwed DEF AccountRejected
  <1>4. CASE ModelRejected(r)
    <2>1. released[r] \cup {cur[r]} \in SUBSET Accounts
      BY <1>0, <1>4 DEF ModelRejected
    <2>2. pc[r] = "upstream"
      BY <1>4 DEF ModelRejected
    <2> QED
      BY <1>4, <2>1, <2>2, <1>a, FailoverOwed DEF ModelRejected
  <1>5. CASE CollectEmpty(r)
    <2> DEFINE s == GuardedRelease(slots, cur[r], released[r])
               d == Debited(owed[r], cur[r], released[r])
    <2>1. pc[r] = "collecting"
      BY <1>5 DEF CollectEmpty
    <2>2. d \in [Accounts -> Int] /\ \A a \in Accounts : d[a] >= 0
      BY <2>1, <1>a
    <2>3. ASSUME NEW a \in Choices(entry, s, {}, Suited[r], NoAccount), AgainOn(r, a, s, d)
          PROVE  \A q \in Requests : OwedOK(q)'
      <3>1. a \in Accounts
        BY <1>0, ChoicesSubset DEF Available
      <3>2. owed'[r] = [d EXCEPT ![a] = @ + 1]
        BY <1>0, <2>3 DEF AgainOn
      <3>3. OwedOK(r)'
        <4> HIDE DEF d
        <4>1. /\ \A b \in Accounts : owed'[r][b] >= 0
              /\ owed'[r][a] >= 1
          BY <2>2, <3>1, <3>2
        <4> QED
          BY <1>0, <2>1, <2>3, <4>1 DEF AgainOn, OwedOK
      <3>4. ASSUME NEW q \in Requests \ {r} PROVE OwedOK(q)'
        BY <1>0, <2>3, <3>4 DEF AgainOn, Owed, OwedOK
      <3> QED
        BY <3>3, <3>4
    <2>4. CASE GiveUp(r, entry, s, d, 0)
      BY <2>2, <2>4, GiveUpOwed
    <2> QED
      BY <1>5, <2>3, <2>4 DEF CollectEmpty
  <1>6. CASE AgainAnswers(r)
    <2>1. OwedOK(r)'
      BY <1>0, <1>6 DEF AgainAnswers, OwedOK
    <2>2. ASSUME NEW q \in Requests \ {r} PROVE OwedOK(q)'
      BY <1>0, <1>6, <2>2 DEF AgainAnswers, Owed, OwedOK
    <2> QED
      BY <2>1, <2>2
  <1>7. CASE AgainThrows(r)
    <2>1. pc[r] = "again" /\ origin[r] \in released[r]
      BY <1>0, <1>7 DEF AgainThrows, OwedOK
    <2>2. owed' = [owed EXCEPT ![r] = Debited(owed[r], cur[r], released[r])]
      BY <1>0, <1>7, <2>1 DEF AgainThrows, Debited
    <2>3. OwedOK(r)'
      BY <1>0, <1>7, <1>a, <2>1, <2>2 DEF AgainThrows, Return, OwedOK
    <2>4. ASSUME NEW q \in Requests \ {r} PROVE OwedOK(q)'
      BY <1>0, <1>7, <2>4 DEF AgainThrows, Return, Owed, OwedOK
    <2> QED
      BY <2>3, <2>4
  <1> QED
    BY <1>1, <1>2, <1>3, <1>4, <1>5, <1>6, <1>7 DEF RequestStep

LEMMA StartRequestOwed ==
  ASSUME Owed, NEW r \in Requests, NEW k, NEW p, StartRequest(r, k, p)
  PROVE  \A q \in Requests : OwedOK(q)'
  <1>0. /\ owed \in [Requests -> [Accounts -> Int]]
        /\ pc \in [Requests -> Places]
        /\ cur \in [Requests -> Accounts \cup {NoAccount}]
        /\ live \subseteq Accounts
    BY DEF Owed, Typed, TypeOK, PoolTypeOK
  <1>1. ASSUME NEW a \in Choices(entry, slots, {}, Suited[r], p), StartOn(r, k, a)
        PROVE  \A q \in Requests : OwedOK(q)'
    <2>1. a \in Accounts
      BY <1>0, ChoicesSubset DEF Available
    <2>2. OwedOK(r)'
      BY <1>0, <1>1, <2>1 DEF StartOn, OwedOK
    <2>3. ASSUME NEW q \in Requests \ {r} PROVE OwedOK(q)'
      BY <1>0, <1>1, <2>3 DEF StartOn, Owed, OwedOK
    <2> QED
      BY <2>2, <2>3
  <1>2. CASE Refuse(r, k)
    <2>1. OwedOK(r)'
      BY <1>0, <1>2 DEF StartRequest, Refuse, OwedOK
    <2>2. ASSUME NEW q \in Requests \ {r} PROVE OwedOK(q)'
      BY <1>0, <1>2, <2>2 DEF Refuse, Owed, OwedOK
    <2> QED
      BY <2>1, <2>2
  <1> QED
    BY <1>1, <1>2 DEF StartRequest

\* On no path through the retry loops, their catch clauses and the exception
\* that leaves handleNonStreaming for the catch of handleProxyRequest does a
\* request release an account more often than it acquired it (releaseAccount,
\* account-acquisition.ts).
THEOREM ReleasedAtMostOnce == Spec => []NoDoubleRelease
  <1>1. Init => Owed
    <2>1. Init => Typed
      BY InitType DEF Init, Typed, CurOK, OriginOK
    <2> QED
      BY <2>1 DEF Init, Owed, OwedOK
  <1>2. Owed /\ [Next]_vars => Owed'
    <2> SUFFICES ASSUME Owed, [Next]_vars PROVE (\A q \in Requests : OwedOK(q))'
      BY NextType DEF Owed
    <2>1. CASE UNCHANGED reqVars
      BY <2>1 DEF reqVars, Owed, OwedOK
    <2>2. ASSUME NEW r \in Requests, RequestStep(r) PROVE \A q \in Requests : OwedOK(q)'
      BY <2>2, RequestStepOwed
    <2>3. ASSUME NEW r \in Requests, NEW k \in Kinds, NEW p \in Accounts \cup {NoAccount},
                 StartRequest(r, k, p)
          PROVE  \A q \in Requests : OwedOK(q)'
      BY <2>3, StartRequestOwed
    <2>4. ASSUME NEW a \in Accounts, OtherStep(a) PROVE UNCHANGED reqVars
      BY <2>4 DEF OtherStep, RefreshBegins, RefreshEnds, Switch, Remove, Add, Reset,
                  SlotTimesOut, LimitTimesOut, TokenTimesOut
    <2>5. ASSUME NEW r \in Requests, RateLimitEvent(r) PROVE UNCHANGED reqVars
      BY <2>5 DEF RateLimitEvent
    <2>6. CASE UNCHANGED vars \/ List
      BY <2>1, <2>6 DEF vars, List
    <2> QED
      BY <2>1, <2>2, <2>3, <2>4, <2>5, <2>6 DEF Next, OtherStep
  <1>3. Owed => NoDoubleRelease
    BY DEF Owed, OwedOK, NoDoubleRelease
  <1> QED
    BY <1>1, <1>2, <1>3, PTL DEF Spec

-----------------------------------------------------------------------------
(* How a request ends *)

\* A second acquire finds what the first one left.
LEMMA RecheckedTwice ==
  ASSUME live \subseteq Accounts, NEW e \in [Accounts -> Entry],
         NEW s \in [Accounts -> SlotList], NEW excluded, NEW suited
  PROVE  Available(Rechecked(e), Swept(s), excluded, suited)
            = Available(e, s, excluded, suited)
  <1>1. \A x \in Entry : Refreshed(Refreshed(x)).status = Refreshed(x).status
    BY DEF Refreshed, LimitLifted, Entry, Statuses, Limits, Tokens
  <1>2. \A a \in Accounts : Rechecked(Rechecked(e))[a].status = Rechecked(e)[a].status
    BY <1>1 DEF Rechecked
  <1>3. \A l \in SlotList : [[l EXCEPT !.stale = 0] EXCEPT !.stale = 0] = [l EXCEPT !.stale = 0]
    BY DEF SlotList
  <1>4. Swept(Swept(s)) = Swept(s)
    BY <1>3 DEF Swept
  <1> QED
    BY <1>2, <1>4 DEF Available

\* A request that gives up has found no account it had not tried.
Refused(r) == Choices(entry', slots', tried[r], Suited[r], NoAccount) = {}

LEMMA GivesUpRefused ==
  ASSUME Typed, NEW r \in Requests, NEW e \in [Accounts -> Entry],
         NEW s \in [Accounts -> SlotList], NEW excluded \in SUBSET tried[r],
         Choices(e, s, excluded, Suited[r], NoAccount) = {}, TakeNone(e, s)
  PROVE  Refused(r)
  <1>1. Available(e, s, excluded, Suited[r]) = {}
    BY DEF Choices
  <1>2. Available(e, s, tried[r], Suited[r]) = {}
    BY <1>1 DEF Available
  <1>3. Available(entry', slots', tried[r], Suited[r]) = {}
    <2>1. live \subseteq Accounts
      BY DEF Typed, TypeOK, PoolTypeOK
    <2>2. Available(Rechecked(e), Swept(s), tried[r], Suited[r]) = {}
      BY <1>2, <2>1, RecheckedTwice
    <2>3. entry' = Rechecked(e) /\ slots' = Swept(s)
      BY DEF TakeNone
    <2> QED
      BY <2>2, <2>3
  <1> QED
    BY <1>3 DEF Refused, Choices

\* Every other end of a request is recorded.
Recorded(r) == pc[r] # "idle" /\ pc'[r] = "idle" /\ logged'[r] = 0 => Refused(r)

LEMMA FailoverRecorded ==
  ASSUME Typed, NEW r \in Requests, pc[r] # "idle", NEW e \in [Accounts -> Entry],
         NEW s \in [Accounts -> SlotList], NEW d, NEW guard, NEW mr,
         Failover(r, e, s, d, guard, mr)
  PROVE  Recorded(r)
  <1>1. ASSUME NEW a, FailoverTo(r, a, e, s, d, guard, mr) PROVE Recorded(r)
    BY <1>1 DEF FailoverTo, Recorded
  <1>2. ASSUME NEW n, Choices(e, s, tried[r], Suited[r], NoAccount) = {}, GiveUp(r, e, s, d, n)
        PROVE  Recorded(r)
    BY <1>2, GivesUpRefused DEF GiveUp, Recorded
  <1> QED
    BY <1>1, <1>2 DEF Failover

LEMMA RequestStepRecorded ==
  ASSUME Typed, NEW r \in Requests, RequestStep(r)
  PROVE  Recorded(r)
  <1>0. /\ pc \in [Requests -> Places]
        /\ logged \in [Requests -> 0 .. 2]
        /\ entry \in [Accounts -> Entry]
        /\ slots \in [Accounts -> SlotList]
        /\ pc[r] # "idle" => cur[r] \in Accounts
    BY DEF Typed, TypeOK, PoolTypeOK, CurOK
  <1>1. ASSUME NEW o \in {"ok", "limited"}, UpstreamAnswers(r, o) PROVE Recorded(r)
    BY <1>0, <1>1 DEF UpstreamAnswers, Recorded
  <1>2. CASE Finish(r) \/ AgainThrows(r)
    <2>1. logged'[r] # 0
      BY <1>0, <1>2 DEF Finish, AgainThrows, Log
    <2> QED
      BY <2>1 DEF Recorded
  <1>3. CASE CompactAnswers(r) \/ UpstreamFails(r) \/ StreamEnds(r) \/ CollectEnds(r)
             \/ AgainFails(r)
    BY <1>2, <1>3 DEF CompactAnswers, UpstreamFails, StreamEnds, CollectEnds, AgainFails
  <1>4. ASSUME NEW o \in AccountErrors, AccountRejected(r, o) PROVE Recorded(r)
    <2>1. pc[r] # "idle" /\ cur[r] \in Accounts
      BY <1>0, <1>4 DEF AccountRejected
    <2>2. Punished(entry[cur[r]], o) \in Entry
      BY <1>0, <2>1, PunishedType
    <2>3. /\ Mutated(entry, cur[r], Punished(entry[cur[r]], o)) \in [Accounts -> Entry]
          /\ Cleared(slots, cur[r]) \in [Accounts -> SlotList]
      BY <2>1, <2>2, MarkType DEF Typed
    <2> QED
      BY <1>4, <2>1, <2>3, FailoverRecorded DEF AccountRejected
  <1>5. CASE ModelRejected(r)
    <2>1. pc[r] # "idle" /\ cur[r] \in Accounts
      BY <1>0, <1>5 DEF ModelRejected
    <2>2. GuardedRelease(slots, cur[r], released[r]) \in [Accounts -> SlotList]
      BY <1>0, <2>1, SlotsType
    <2> QED
      BY <1>0, <1>5, <2>1, <2>2, FailoverRecorded DEF ModelRejected
  <1>6. CASE CollectEmpty(r)
    <2> DEFINE s == GuardedRelease(slots, cur[r], released[r])
               d == Debited(owed[r], cur[r], released[r])
    <2>1. s \in [Accounts -> SlotList]
      BY <1>0, <1>6, SlotsType DEF CollectEmpty
    <2>2. ASSUME NEW a, AgainOn(r, a, s, d) PROVE Recorded(r)
      BY <1>0, <2>2 DEF AgainOn, Recorded
    <2>3. ASSUME Choices(entry, s, {}, Suited[r], NoAccount) = {}, GiveUp(r, entry, s, d, 0)
          PROVE  Recorded(r)
      <3>1. TakeNone(entry, s) /\ {} \in SUBSET tried[r]
        BY <2>3 DEF GiveUp
      <3> HIDE DEF s
      <3> QED
        BY <1>0, <2>1, <2>3, <3>1, GivesUpRefused DEF Recorded
    <2> QED
      BY <1>6, <2>2, <2>3 DEF CollectEmpty
  <1>7. CASE AgainAnswers(r)
    BY <1>0, <1>7 DEF AgainAnswers, Recorded
  <1> QED
    BY <1>1, <1>2, <1>3, <1>4, <1>5, <1>6, <1>7 DEF RequestStep

\* A request that ends without a record in the ledger ended because there was
\* no account left for it that it had not tried (finalizeRequestHistory).
THEOREM OthersRecorded == Spec => OnlyRefusalsUnrecorded
  <1>1. Typed /\ [Next]_vars => \A r \in Requests : Recorded(r)
    <2> SUFFICES ASSUME Typed, [Next]_vars, NEW r \in Requests PROVE Recorded(r)
      OBVIOUS
    <2>0. pc \in [Requests -> Places]
      BY DEF Typed, TypeOK
    <2>1. CASE UNCHANGED pc
      BY <2>1 DEF Recorded
    <2>2. ASSUME NEW q \in Requests, RequestStep(q) PROVE Recorded(r)
      <3>1. CASE q = r
        BY <2>2, <3>1, RequestStepRecorded
      <3>2. CASE q # r
        <4>1. pc'[r] = pc[r]
          BY <2>0, <2>2, <3>2
             DEF RequestStep, UpstreamAnswers, CompactAnswers, AccountRejected, ModelRejected,
                 UpstreamFails, StreamEnds, CollectEnds, CollectEmpty, AgainAnswers, AgainFails,
                 AgainThrows, Finish, Failover, FailoverTo, GiveUp, AgainOn, Return
        <4> QED
          BY <4>1 DEF Recorded
      <3> QED
        BY <3>1, <3>2
    <2>3. ASSUME NEW q \in Requests, NEW k \in Kinds, NEW p \in Accounts \cup {NoAccount},
                 StartRequest(q, k, p)
          PROVE  Recorded(r)
      BY <2>0, <2>3 DEF StartRequest, StartOn, Refuse, Recorded
    <2>4. ASSUME NEW q \in Requests, RateLimitEvent(q) PROVE UNCHANGED pc
      BY <2>4 DEF RateLimitEvent, reqVars
    <2>5. ASSUME NEW a \in Accounts, OtherStep(a) PROVE UNCHANGED pc
      BY <2>5 DEF OtherStep, RefreshBegins, RefreshEnds, Switch, Remove, Add, Reset,
                  SlotTimesOut, LimitTimesOut, TokenTimesOut, reqVars
    <2>6. CASE UNCHANGED vars \/ List
      BY <2>1, <2>6 DEF vars, reqVars, List
    <2> QED
      BY <2>1, <2>2, <2>3, <2>4, <2>5, <2>6 DEF Next, OtherStep
  <1>2. (\A r \in Requests : Recorded(r)) <=>
           \A r \in Requests :
             pc[r] # "idle" /\ pc'[r] = "idle" /\ logged'[r] = 0
                => Choices(entry', slots', tried[r], Suited[r], NoAccount) = {}
    BY DEF Recorded, Refused
  <1> QED
    BY <1>1, <1>2, TypedInvariant, PTL DEF Spec, OnlyRefusalsUnrecorded


-----------------------------------------------------------------------------
(* The slots alone *)

\* Slots s are sound for the accounts L of the pool: no account is over the
\* limit and an account outside the pool holds none.
Sound(s, L) ==
    \A a \in Accounts : Held(s[a]) <= MaxConcurrent /\ (a \notin L => s[a] = NoSlots)

LEMMA SoundOps ==
  ASSUME NEW s \in [Accounts -> SlotList], Sound(s, live), NEW a \in Accounts, NEW guard
  PROVE  /\ Sound(Cleared(s, a), live)
         /\ Sound(GuardedRelease(s, a, guard), live)
         /\ Sound(Swept(s), live)
  <1>1. \A l \in SlotList : /\ Held(Popped(l)) <= Held(l)
                            /\ Held([l EXCEPT !.stale = 0]) <= Held(l)
                            /\ Held(l) \in Nat
    BY DEF SlotList, Held, Popped
  <1>2. Popped(NoSlots) = NoSlots /\ [NoSlots EXCEPT !.stale = 0] = NoSlots /\ Held(NoSlots) = 0
    BY DEF NoSlots, Popped, Held
  <1>3. \A l \in SlotList : Popped(l) \in SlotList /\ [l EXCEPT !.stale = 0] \in SlotList
    BY SlotListType
  <1>4. Sound(Cleared(s, a), live)
    BY <1>2, MaxConcurrentAssumption DEF Sound, Cleared
  <1>5. Sound(GuardedRelease(s, a, guard), live)
    <2>1. /\ Popped(s[a]) \in SlotList
          /\ Held(Popped(s[a])) \in Nat
          /\ Held(Popped(s[a])) <= Held(s[a])
          /\ Held(s[a]) \in Nat
          /\ Held(s[a]) <= MaxConcurrent
          /\ a \notin live => Popped(s[a]) = NoSlots
      BY <1>1, <1>2, <1>3 DEF Sound
    <2>2. Held(Popped(s[a])) <= MaxConcurrent
      BY <2>1, MaxConcurrentAssumption
    <2> QED
      BY <2>1, <2>2 DEF Sound, GuardedRelease, Release
  <1>6. Sound(Swept(s), live)
    <2> SUFFICES ASSUME NEW b \in Accounts
                 PROVE  /\ Held(Swept(s)[b]) <= MaxConcurrent
                        /\ b \notin live => Swept(s)[b] = NoSlots
      BY DEF Sound
    <2>1. Swept(s)[b] = [s[b] EXCEPT !.stale = 0]
      BY DEF Swept
    <2>2. s[b] \in SlotList /\ Held(s[b]) <= MaxConcurrent /\ (b \notin live => s[b] = NoSlots)
      BY DEF Sound
    <2>3. Held([s[b] EXCEPT !.stale = 0]) <= Held(s[b]) /\ Held(s[b]) \in Nat
      BY <2>2, <1>1
    <2>4. Held([s[b] EXCEPT !.stale = 0]) \in Nat
      BY <2>2, <1>1, <1>3
    <2> QED
      BY <2>1, <2>2, <2>3, <2>4, <1>2, MaxConcurrentAssumption
  <1> QED
    BY <1>4, <1>5, <1>6

\* The slot acquire adds is within the limit, because acquire has just
\* counted the fresh slots of the account it selects.
LEMMA SoundTake ==
  ASSUME NEW s \in [Accounts -> SlotList], Sound(s, live), NEW e, NEW excluded, NEW suited,
         NEW a \in Accounts, a \in Available(e, s, excluded, suited)
  PROVE  Sound([Swept(s) EXCEPT ![a] = Pushed(@)], live)
  <1>1. Swept(s) \in [Accounts -> SlotList] /\ Sound(Swept(s), live)
    BY SlotsType, SoundOps
  <1>2. a \in live /\ Held(Swept(s)[a]) < MaxConcurrent
    BY DEF Available
  <1>3. Swept(s)[a].stale = 0
    BY DEF Swept, SlotList
  <1>4. Held(Pushed(Swept(s)[a])) <= MaxConcurrent
    <2>1. Swept(s)[a] \in SlotList
      BY <1>1
    <2> QED
      BY <2>1, <1>2, <1>3, MaxConcurrentAssumption DEF Held, Pushed, SlotList
  <1> QED
    BY <1>1, <1>2, <1>4 DEF Sound

-----------------------------------------------------------------------------
(* The steps *)

SlotsSound == Typed /\ Sound(slots, live)

LEMMA FailoverSound ==
  ASSUME Typed, NEW r \in Requests, cur[r] \in Accounts, NEW e,
         NEW s \in [Accounts -> SlotList], Sound(s, live),
         NEW d, NEW guard, NEW mr, Failover(r, e, s, d, guard, mr)
  PROVE  Sound(slots', live')
  <1> DEFINE candidates == Choices(e, s, tried[r], Suited[r], NoAccount)
  <1>1. ASSUME NEW a \in candidates, FailoverTo(r, a, e, s, d, guard, mr)
        PROVE  Sound(slots', live')
    <2>1. a \in Available(e, s, tried[r], Suited[r])
      BY ChoicesSubset
    <2>2. a \in Accounts
      BY <2>1 DEF Available, Typed, TypeOK, PoolTypeOK
    <2> QED
      BY <1>1, <2>1, <2>2, SoundTake DEF Failover, FailoverTo, Take
  <1>2. CASE GiveUp(r, e, s, d, IF kind[r] = "compact" THEN 1 ELSE 0)
    BY <1>2, SoundOps DEF Failover, GiveUp, TakeNone
  <1> QED
    BY <1>1, <1>2 DEF Failover

LEMMA FinishSound ==
  ASSUME SlotsSound, NEW r \in Requests, pc[r] # "idle", Finish(r)
  PROVE  Sound(slots', live')
  <1>1. cur[r] \in Accounts /\ slots \in [Accounts -> SlotList]
    BY DEF SlotsSound, Typed, CurOK, TypeOK, PoolTypeOK
  <1> QED
    BY <1>1, SoundOps DEF Finish, SlotsSound

LEMMA RequestStepSound ==
  ASSUME SlotsSound, NEW r \in Requests, RequestStep(r) \/ RateLimitEvent(r)
  PROVE  Sound(slots', live')
  <1>0. slots \in [Accounts -> SlotList] /\ Typed /\ Sound(slots, live)
    BY DEF SlotsSound, Typed, TypeOK, PoolTypeOK
  <1>a. pc[r] # "idle" => cur[r] \in Accounts
    BY <1>0 DEF Typed, CurOK
  <1>1. ASSUME NEW o \in {"ok", "limited"}, UpstreamAnswers(r, o) PROVE Sound(slots', live')
    BY <1>1, <1>0, <1>a, SoundOps DEF UpstreamAnswers
  <1>2. CASE CompactAnswers(r) \/ UpstreamFails(r) \/ StreamEnds(r) \/ CollectEnds(r)
             \/ AgainFails(r)
    BY <1>2, FinishSound DEF CompactAnswers, UpstreamFails, StreamEnds, CollectEnds, AgainFails
  <1>3. ASSUME NEW o \in AccountErrors, AccountRejected(r, o) PROVE Sound(slots', live')
    <2>1. /\ cur[r] \in Accounts
          /\ Cleared(slots, cur[r]) \in [Accounts -> SlotList]
          /\ Sound(Cleared(slots, cur[r]), live)
      BY <1>3, <1>0, <1>a, SlotsType, SoundOps DEF AccountRejected
    <2> QED
      BY <1>3, <1>0, <2>1, FailoverSound DEF AccountRejected
  <1>4. CASE ModelRejected(r)
    <2>1. /\ cur[r] \in Accounts
          /\ GuardedRelease(slots, cur[r], released[r]) \in [Accounts -> SlotList]
          /\ Sound(GuardedRelease(slots, cur[r], released[r]), live)
      BY <1>4, <1>0, <1>a, SlotsType, SoundOps DEF ModelRejected
    <2> QED
      BY <1>4, <1>0, <2>1, FailoverSound DEF ModelRejected
  <1>5. CASE CollectEmpty(r)
    <2> DEFINE s == GuardedRelease(slots, cur[r], released[r])
               d == Debited(owed[r], cur[r], released[r])
               candidates == Choices(entry, s, {}, Suited[r], NoAccount)
    <2>1. s \in [Accounts -> SlotList] /\ Sound(s, live) /\ cur[r] \in Accounts
      BY <1>5, <1>0, <1>a, SlotsType, SoundOps DEF CollectEmpty
    <2>2. ASSUME NEW a \in candidates, AgainOn(r, a, s, d) PROVE Sound(slots', live')
      <3>1. a \in Available(entry, s, {}, Suited[r])
        BY ChoicesSubset
      <3>2. a \in Accounts
        BY <3>1, <1>0 DEF Available, Typed, TypeOK, PoolTypeOK
      <3> QED
        BY <1>5, <2>1, <2>2, <3>1, <3>2, SoundTake DEF CollectEmpty, AgainOn, Take
    <2>3. CASE GiveUp(r, entry, s, d, 0)
      BY <1>5, <2>1, <2>3, SoundOps DEF CollectEmpty, GiveUp, TakeNone
    <2> QED
      BY <1>5, <2>2, <2>3 DEF CollectEmpty
  <1>6. CASE AgainAnswers(r)
    BY <1>6, <1>0 DEF AgainAnswers, poolVars
  <1>7. CASE AgainThrows(r)
    <2>1. cur[r] \in Accounts /\ origin[r] \in Accounts
      BY <1>7, <1>0 DEF AgainThrows, Typed, CurOK, OriginOK
    <2>2. /\ GuardedRelease(slots, cur[r], released[r]) \in [Accounts -> SlotList]
          /\ Sound(GuardedRelease(slots, cur[r], released[r]), live)
      BY <1>0, <2>1, SlotsType, SoundOps
    <2> QED
      BY <1>7, <2>1, <2>2, SoundOps DEF AgainThrows
  <1>8. CASE RateLimitEvent(r)
    BY <1>8, <1>0, <1>a, SoundOps DEF RateLimitEvent
  <1> QED
    BY <1>1, <1>2, <1>3, <1>4, <1>5, <1>6, <1>7, <1>8 DEF RequestStep

LEMMA StartRequestSound ==
  ASSUME SlotsSound, NEW r \in Requests, NEW k, NEW p, StartRequest(r, k, p)
  PROVE  Sound(slots', live')
  <1>0. slots \in [Accounts -> SlotList] /\ Sound(slots, live) /\ live \subseteq Accounts
    BY DEF SlotsSound, Typed, TypeOK, PoolTypeOK
  <1>1. ASSUME NEW a \in Choices(entry, slots, {}, Suited[r], p), StartOn(r, k, a)
        PROVE  Sound(slots', live')
    <2>1. a \in Available(entry, slots, {}, Suited[r])
      BY ChoicesSubset
    <2>2. a \in Accounts
      BY <2>1, <1>0 DEF Available
    <2> QED
      BY <1>0, <1>1, <2>1, <2>2, SoundTake DEF StartRequest, StartOn, Take
  <1>2. CASE Refuse(r, k)
    <2>1. slots' = Swept(slots) /\ live' = live
      BY <1>2 DEF StartRequest, Refuse, TakeNone
    <2>2. CASE Accounts = {}
      BY <2>2 DEF Sound
    <2>3. ASSUME NEW a \in Accounts PROVE Sound(Swept(slots), live)
      BY <1>0, SoundOps
    <2> QED
      BY <2>1, <2>2, <2>3
  <1> QED
    BY <1>1, <1>2 DEF StartRequest

LEMMA OtherStepSound ==
  ASSUME SlotsSound, NEW a \in Accounts, OtherStep(a)
  PROVE  Sound(slots', live')
  <1>0. /\ slots \in [Accounts -> SlotList]
        /\ Sound(slots, live)
        /\ Sound(Cleared(slots, a), live)
    BY SoundOps DEF SlotsSound, Typed, TypeOK, PoolTypeOK
  <1>1. CASE RefreshBegins(a) \/ RefreshEnds(a)
    BY <1>0, <1>1 DEF RefreshBegins, RefreshEnds, SchedulerMark, SchedulerUpdateToken
  <1>2. CASE \E s \in {"active", "disabled"} : Switch(a, s)
    BY <1>0, <1>2 DEF Switch, SetStatus
  <1>3. CASE Remove(a)
    BY <1>0, <1>3 DEF Remove, RemoveAccount, Sound, Cleared
  <1>4. CASE \E tok \in Tokens : Add(a, tok)
    BY <1>0, <1>4 DEF Add, AddAccount, Sound
  <1>5. CASE Reset(a) \/ LimitTimesOut(a) \/ TokenTimesOut(a)
    BY <1>0, <1>5 DEF Reset, ResetUsage, LimitTimesOut, LimitPasses, TokenTimesOut, TokenLapses
  <1>6. CASE SlotTimesOut(a)
    <2> DEFINE l == [stale |-> slots[a].stale + 1, fresh |-> slots[a].fresh - 1]
    <2>1. slots' = [slots EXCEPT ![a] = l] /\ live' = live /\ slots[a].fresh > 0
      BY <1>6 DEF SlotTimesOut, SlotAges
    <2>2. slots[a] \in SlotList /\ Held(slots[a]) <= MaxConcurrent
      BY <1>0 DEF Sound
    <2>3. Held(l) = Held(slots[a]) /\ slots[a] # NoSlots
      BY <2>1, <2>2 DEF Held, SlotList, NoSlots
    <2>4. a \in live
      BY <1>0, <2>3 DEF Sound
    <2>5. Held(l) <= MaxConcurrent
      BY <2>2, <2>3
    <2> HIDE DEF l
    <2> QED
      BY <1>0, <2>1, <2>4, <2>5 DEF Sound
  <1> QED
    BY <1>1, <1>2, <1>3, <1>4, <1>5, <1>6 DEF OtherStep

LEMMA SlotsSoundInvariant == Spec => []SlotsSound
  <1>1. Init => SlotsSound
    <2>1. Init => Typed
      BY InitType DEF Init, Typed, CurOK, OriginOK
    <2> QED
      BY <2>1, MaxConcurrentAssumption
         DEF Init, PoolInit, SlotsSound, Sound, Held, NoSlots
  <1>2. SlotsSound /\ [Next]_vars => SlotsSound'
    <2> SUFFICES ASSUME SlotsSound, [Next]_vars PROVE Sound(slots', live')
      BY NextType DEF SlotsSound
    <2>1. CASE UNCHANGED vars \/ List
      BY <2>1 DEF vars, poolVars, SlotsSound, List, ListAccounts
    <2>2. ASSUME NEW r \in Requests, RequestStep(r) \/ RateLimitEvent(r)
          PROVE  Sound(slots', live')
      BY <2>2, RequestStepSound
    <2>3. ASSUME NEW r \in Requests, NEW k \in Kinds, NEW p \in Accounts \cup {NoAccount},
                 StartRequest(r, k, p)
          PROVE  Sound(slots', live')
      BY <2>3, StartRequestSound
    <2>4. ASSUME NEW a \in Accounts, OtherStep(a) PROVE Sound(slots', live')
      BY <2>4, OtherStepSound
    <2> QED
      BY <2>1, <2>2, <2>3, <2>4 DEF Next, OtherStep
  <1> QED
    BY <1>1, <1>2, PTL DEF Spec

\* No account ever has more slots taken than auth.max_concurrent_per_account
\* (acquire, account-lifecycle.ts).
THEOREM SlotsStayWithinLimit == Spec => []SlotsWithinLimit
  <1>1. SlotsSound => SlotsWithinLimit
    BY DEF SlotsSound, Sound, SlotsWithinLimit
  <1> QED
    BY <1>1, SlotsSoundInvariant, PTL

\* A removed account keeps no slots, although requests in flight on it release
\* it later (removeAccount, account-registry.ts; popSlot, account-lifecycle.ts).
THEOREM RemovedStayWithoutSlots == Spec => []RemovedHoldNoSlots
  <1>1. SlotsSound => RemovedHoldNoSlots
    BY DEF SlotsSound, Sound, RemovedHoldNoSlots
  <1> QED
    BY <1>1, SlotsSoundInvariant, PTL

-----------------------------------------------------------------------------
(* A slot stands for a request, when no answer is empty *)

On(c, a) == {q \in Requests : c[q] = a}

\* The requests c, but r is on account b.
Moved(c, r, b) == [c EXCEPT ![r] = b]

\* The slots s are covered by requests that are on the accounts c names.
Covered(s, c) == \A a \in Accounts : Held(s[a]) <= Cardinality(On(c, a))

LEMMA OnFinite ==
  ASSUME NEW c, NEW a
  PROVE  IsFiniteSet(On(c, a)) /\ Cardinality(On(c, a)) \in Nat
  <1>1. On(c, a) \in SUBSET Requests
    BY DEF On
  <1>2. IsFiniteSet(On(c, a))
    BY <1>1, FS_Subset, ProxyAssumption
  <1> QED
    BY <1>2, FS_CardinalityType

\* Request r moves to account b.
LEMMA OnMoves ==
  ASSUME NEW c \in [Requests -> Accounts \cup {NoAccount}], NEW r \in Requests,
         NEW b \in Accounts \cup {NoAccount}, b # c[r]
  PROVE  /\ \A a : a # c[r] /\ a # b => On(Moved(c, r, b), a) = On(c, a)
         /\ Cardinality(On(Moved(c, r, b), b)) = Cardinality(On(c, b)) + 1
         /\ Cardinality(On(Moved(c, r, b), c[r])) = Cardinality(On(c, c[r])) - 1
  <1>1. ASSUME NEW a, a # c[r], a # b PROVE On(Moved(c, r, b), a) = On(c, a)
    BY <1>1 DEF On, Moved
  <1>2. /\ On(Moved(c, r, b), b) = On(c, b) \cup {r}
        /\ On(Moved(c, r, b), c[r]) = On(c, c[r]) \ {r}
        /\ r \notin On(c, b) /\ r \in On(c, c[r])
    BY DEF On, Moved
  <1>3. Cardinality(On(Moved(c, r, b), b)) = Cardinality(On(c, b)) + 1
    BY <1>2, OnFinite, FS_AddElement
  <1>4. Cardinality(On(Moved(c, r, b), c[r])) = Cardinality(On(c, c[r])) - 1
    BY <1>2, OnFinite, FS_RemoveElement
  <1> QED
    BY <1>1, <1>3, <1>4

LEMMA HeldOps ==
  ASSUME NEW l \in SlotList
  PROVE  /\ Held(l) \in Nat
         /\ Held(NoSlots) = 0
         /\ Held(Pushed(l)) = Held(l) + 1
         /\ Held([l EXCEPT !.stale = 0]) \in Nat
         /\ Held([l EXCEPT !.stale = 0]) <= Held(l)
         /\ Held(Popped(l)) = IF Held(l) = 0 THEN 0 ELSE Held(l) - 1
  BY DEF SlotList, Held, NoSlots, Pushed, Popped

\* The sweep of acquire and a status mutation take slots away only.
LEMMA CoveredOps ==
  ASSUME NEW s \in [Accounts -> SlotList], NEW c \in [Requests -> Accounts \cup {NoAccount}],
         Covered(s, c), NEW a \in Accounts
  PROVE  Covered(Swept(s), c) /\ Covered(Cleared(s, a), c)
  <1>2. Covered(Swept(s), c)
    <2> SUFFICES ASSUME NEW b \in Accounts PROVE Held(Swept(s)[b]) <= Cardinality(On(c, b))
      BY DEF Covered
    <2>1. Swept(s)[b] = [s[b] EXCEPT !.stale = 0]
      BY DEF Swept
    <2>2. Held(s[b]) <= Cardinality(On(c, b)) /\ Cardinality(On(c, b)) \in Nat
      BY OnFinite DEF Covered
    <2>3. /\ Held([s[b] EXCEPT !.stale = 0]) <= Held(s[b])
          /\ Held(s[b]) \in Nat /\ Held([s[b] EXCEPT !.stale = 0]) \in Nat
      BY HeldOps
    <2> QED
      BY <2>1, <2>2, <2>3
  <1>3. Covered(Cleared(s, a), c)
    <2> SUFFICES ASSUME NEW b \in Accounts
                 PROVE  Held(Cleared(s, a)[b]) <= Cardinality(On(c, b))
      BY DEF Covered
    <2>1. Cleared(s, a)[b] = s[b] \/ Cleared(s, a)[b] = NoSlots
      BY DEF Cleared
    <2>2. Held(s[b]) <= Cardinality(On(c, b)) /\ s[b] \in SlotList
      BY DEF Covered
    <2>3. Held(NoSlots) = 0 /\ Cardinality(On(c, b)) \in Nat
      BY <2>2, HeldOps, OnFinite
    <2> QED
      BY <2>1, <2>2, <2>3
  <1> QED
    BY <1>2, <1>3

\* A request that gives its slot back, or whose account loses all slots, may
\* leave its account.
LEMMA CoveredLeave ==
  ASSUME NEW s \in [Accounts -> SlotList], NEW c \in [Requests -> Accounts \cup {NoAccount}],
         Covered(s, c), NEW r \in Requests, c[r] \in Accounts
  PROVE  /\ Covered(Release(s, c[r]), Moved(c, r, NoAccount))
         /\ Sound(s, live) => Covered(Cleared(s, c[r]), Moved(c, r, NoAccount))
  <1> DEFINE d == Moved(c, r, NoAccount)
  <1>1. NoAccount # c[r] /\ NoAccount \notin Accounts
    BY ProxyAssumption
  <1>2. /\ \A b \in Accounts : b # c[r] => On(d, b) = On(c, b)
        /\ Cardinality(On(d, c[r])) = Cardinality(On(c, c[r])) - 1
        /\ Cardinality(On(c, c[r])) \in Nat
        /\ Cardinality(On(d, c[r])) \in Nat
    <2>2. \A b : Cardinality(On(d, b)) \in Nat /\ Cardinality(On(c, b)) \in Nat
      BY OnFinite
    <2>3. \A b : b # c[r] /\ b # NoAccount => On(d, b) = On(c, b)
      BY <1>1, OnMoves
    <2>4. Cardinality(On(d, c[r])) = Cardinality(On(c, c[r])) - 1
      BY <1>1, OnMoves
    <2> QED
      BY <1>1, <2>2, <2>3, <2>4
  <1>3. s[c[r]] \in SlotList /\ Held(s[c[r]]) <= Cardinality(On(c, c[r]))
    BY DEF Covered
  <1> HIDE DEF d
  <1>4. Covered(Release(s, c[r]), d)
    <2> SUFFICES ASSUME NEW b \in Accounts
                 PROVE  Held(Release(s, c[r])[b]) <= Cardinality(On(d, b))
      BY DEF Covered
    <2>1. CASE b = c[r]
      <3>1. Release(s, c[r])[b] = Popped(s[c[r]])
        BY <2>1 DEF Release
      <3>2. /\ Held(s[c[r]]) \in Nat
            /\ Held(Popped(s[c[r]])) = IF Held(s[c[r]]) = 0 THEN 0 ELSE Held(s[c[r]]) - 1
        BY <1>3, HeldOps
      <3>3. Held(Popped(s[c[r]])) <= Cardinality(On(d, c[r]))
        BY <1>2, <1>3, <3>2
      <3> QED
        BY <2>1, <3>1, <3>3
    <2>2. CASE b # c[r]
      BY <1>2, <2>2 DEF Release, Covered
    <2> QED
      BY <2>1, <2>2
  <1>5. ASSUME Sound(s, live) PROVE Covered(Cleared(s, c[r]), d)
    <2> SUFFICES ASSUME NEW b \in Accounts
                 PROVE  Held(Cleared(s, c[r])[b]) <= Cardinality(On(d, b))
      BY DEF Covered
    <2>1. CASE b = c[r]
      <3>1. Cleared(s, c[r])[b] = NoSlots
        BY <1>5, <2>1 DEF Cleared, Sound
      <3>2. Held(NoSlots) = 0
        BY <1>3, HeldOps
      <3> QED
        BY <1>2, <2>1, <3>1, <3>2
    <2>2. CASE b # c[r]
      BY <1>2, <2>2 DEF Cleared, Covered
    <2> QED
      BY <2>1, <2>2
  <1> QED
    BY <1>4, <1>5 DEF d

\* acquire: one slot more and one request more.
LEMMA CoveredTake ==
  ASSUME NEW s \in [Accounts -> SlotList], NEW c \in [Requests -> Accounts \cup {NoAccount}],
         Covered(s, c), NEW r \in Requests, c[r] = NoAccount, NEW a \in Accounts
  PROVE  Covered([Swept(s) EXCEPT ![a] = Pushed(@)], Moved(c, r, a))
  <1> DEFINE t == Swept(s)
             d == Moved(c, r, a)
  <1>1. a # c[r] /\ NoAccount \notin Accounts
    BY ProxyAssumption
  <1>2. /\ \A b \in Accounts : b # a => On(d, b) = On(c, b)
        /\ Cardinality(On(d, a)) = Cardinality(On(c, a)) + 1
        /\ Cardinality(On(c, a)) \in Nat
    <2>2. \A b : b # c[r] /\ b # a => On(d, b) = On(c, b)
      BY <1>1, OnMoves
    <2>3. Cardinality(On(d, a)) = Cardinality(On(c, a)) + 1
      BY <1>1, OnMoves
    <2> QED
      BY <1>1, <2>2, <2>3, OnFinite
  <1>3. t \in [Accounts -> SlotList] /\ Covered(t, c)
    BY SlotsType, CoveredOps
  <1>4. t[a] \in SlotList /\ Held(t[a]) <= Cardinality(On(c, a))
    BY <1>3 DEF Covered
  <1> HIDE DEF t, d
  <1>5. Held(Pushed(t[a])) <= Cardinality(On(d, a))
    <2>1. Held(Pushed(t[a])) = Held(t[a]) + 1 /\ Held(t[a]) \in Nat
      BY <1>4, HeldOps
    <2> QED
      BY <1>2, <1>4, <2>1
  <1>6. Covered([t EXCEPT ![a] = Pushed(@)], d)
    <2> SUFFICES ASSUME NEW b \in Accounts
                 PROVE  Held([t EXCEPT ![a] = Pushed(@)][b]) <= Cardinality(On(d, b))
      BY DEF Covered
    <2>1. CASE b = a
      BY <1>3, <1>5, <2>1
    <2>2. CASE b # a
      BY <1>2, <1>3, <2>2 DEF Covered
    <2> QED
      BY <2>1, <2>2
  <1> QED
    BY <1>6 DEF t, d

\* Without empty answers the account of a request is never in the guard: it
\* is put there when the request leaves it, and accounts once tried are
\* excluded.
GuardOK(r) ==
    /\ pc[r] # "again"
    /\ pc[r] = "idle" => cur[r] = NoAccount /\ released[r] = {}
    /\ pc[r] # "idle" => cur[r] \in tried[r]
    /\ released[r] \subseteq tried[r] \ {cur[r]}

Standing == SlotsSound /\ Covered(slots, cur) /\ \A r \in Requests : GuardOK(r)

\* What a step makes of the slots and the requests.
Stands == Covered(slots', cur') /\ \A q \in Requests : GuardOK(q)'

LEMMA FinishStands ==
  ASSUME Standing, NEW r \in Requests, pc[r] # "idle", Finish(r)
  PROVE  Stands
  <1>1. /\ cur[r] \in Accounts
        /\ cur \in [Requests -> Accounts \cup {NoAccount}]
        /\ slots \in [Accounts -> SlotList]
        /\ pc \in [Requests -> Places]
        /\ tried \in [Requests -> SUBSET Accounts]
        /\ released \in [Requests -> SUBSET Accounts]
        /\ cur[r] \notin released[r]
    BY DEF Standing, SlotsSound, Typed, CurOK, TypeOK, PoolTypeOK, GuardOK
  <1>2. slots' = Release(slots, cur[r]) /\ cur' = Moved(cur, r, NoAccount)
    BY <1>1 DEF Finish, GuardedRelease, Return, Moved
  <1>3. Covered(slots', cur')
    BY <1>1, <1>2, CoveredLeave DEF Standing
  <1>4. ASSUME NEW q \in Requests PROVE GuardOK(q)'
    <2>1. GuardOK(q)
      BY DEF Standing
    <2>2. CASE q = r
      BY <1>1, <2>2 DEF Finish, Return, GuardOK
    <2>3. CASE q # r
      BY <1>1, <2>1, <2>3 DEF Finish, Return, GuardOK
    <2> QED
      BY <2>2, <2>3
  <1> QED
    BY <1>3, <1>4 DEF Stands

\* s and guard are what is left when the request has left its account.
LEMMA FailoverStands ==
  ASSUME Standing, NEW r \in Requests, pc[r] = "upstream", NEW e,
         NEW s \in [Accounts -> SlotList], Covered(s, Moved(cur, r, NoAccount)),
         NEW d, NEW guard \in SUBSET tried[r], NEW mr, Failover(r, e, s, d, guard, mr)
  PROVE  Stands
  <1> DEFINE c == Moved(cur, r, NoAccount)
  <1>1. /\ cur \in [Requests -> Accounts \cup {NoAccount}]
        /\ pc \in [Requests -> Places]
        /\ tried \in [Requests -> SUBSET Accounts]
        /\ released \in [Requests -> SUBSET Accounts]
        /\ live \subseteq Accounts
    BY DEF Standing, SlotsSound, Typed, TypeOK, PoolTypeOK
  <1>2. /\ c \in [Requests -> Accounts \cup {NoAccount}]
        /\ c[r] = NoAccount
        /\ \A a : Moved(c, r, a) = Moved(cur, r, a)
    BY <1>1 DEF Moved
  <1>3. ASSUME NEW a \in Choices(e, s, tried[r], Suited[r], NoAccount),
               FailoverTo(r, a, e, s, d, guard, mr)
        PROVE  Stands
    <2>1. a \in Accounts \ tried[r]
      BY <1>1, ChoicesSubset DEF Available
    <2>2. slots' = [Swept(s) EXCEPT ![a] = Pushed(@)] /\ cur' = Moved(c, r, a)
      BY <1>2, <1>3 DEF FailoverTo, Take, Moved
    <2>3. Covered(slots', cur')
      <3> HIDE DEF c
      <3>1. Covered(s, c)
        BY DEF c
      <3> QED
        BY <1>2, <2>1, <2>2, <3>1, CoveredTake DEF Moved
    <2>4. ASSUME NEW q \in Requests PROVE GuardOK(q)'
      <3>1. GuardOK(q)
        BY DEF Standing
      <3>2. CASE q = r
        BY <1>1, <1>3, <2>1, <3>2 DEF FailoverTo, GuardOK
      <3>3. CASE q # r
        BY <1>1, <1>3, <3>1, <3>3 DEF FailoverTo, GuardOK
      <3> QED
        BY <3>2, <3>3
    <2> QED
      BY <2>3, <2>4 DEF Stands
  <1>4. CASE GiveUp(r, e, s, d, IF kind[r] = "compact" THEN 1 ELSE 0)
    <2>1. slots' = Swept(s) /\ cur' = c
      BY <1>4 DEF GiveUp, TakeNone, Return, Moved
    <2>2. Covered(slots', cur')
      <3> HIDE DEF c
      <3>1. Covered(s, c)
        BY DEF c
      <3>2. CASE Accounts = {}
        BY <3>2 DEF Covered
      <3>3. ASSUME NEW a \in Accounts PROVE Covered(Swept(s), c)
        BY <1>2, <3>1, CoveredOps
      <3> QED
        BY <2>1, <3>2, <3>3 DEF Covered
    <2>3. ASSUME NEW q \in Requests PROVE GuardOK(q)'
      <3>1. GuardOK(q)
        BY DEF Standing
      <3>2. CASE q = r
        BY <1>1, <1>4, <3>2 DEF GiveUp, Return, GuardOK
      <3>3. CASE q # r
        BY <1>1, <1>4, <3>1, <3>3 DEF GiveUp, Return, GuardOK
      <3> QED
        BY <3>2, <3>3
    <2> QED
      BY <2>2, <2>3 DEF Stands
  <1> QED
    BY <1>3, <1>4 DEF Failover

LEMMA RequestStepStands ==
  ASSUME Standing, "empty" \notin Outcomes, NEW r \in Requests,
         RequestStep(r) \/ RateLimitEvent(r)
  PROVE  Stands
  <1>0. /\ cur \in [Requests -> Accounts \cup {NoAccount}]
        /\ slots \in [Accounts -> SlotList]
        /\ pc \in [Requests -> Places]
        /\ tried \in [Requests -> SUBSET Accounts]
        /\ released \in [Requests -> SUBSET Accounts]
        /\ pc[r] # "idle" => cur[r] \in Accounts
        /\ Covered(slots, cur)
        /\ Sound(slots, live)
        /\ GuardOK(r)
        /\ \A q \in Requests : GuardOK(q)
    BY DEF Standing, SlotsSound, Typed, CurOK, TypeOK, PoolTypeOK
  <1>a. pc[r] # "again"
    BY <1>0 DEF GuardOK
  <1>1. ASSUME NEW o \in {"ok", "limited"}, UpstreamAnswers(r, o) PROVE Stands
    <2>1. Covered(slots', cur')
      <3>1. Covered(Cleared(slots, cur[r]), cur)
        BY <1>0, <1>1, CoveredOps DEF UpstreamAnswers
      <3> QED
        BY <1>0, <1>1, <3>1 DEF UpstreamAnswers
    <2>2. ASSUME NEW q \in Requests PROVE GuardOK(q)'
      BY <1>0, <1>1 DEF UpstreamAnswers, GuardOK
    <2> QED
      BY <2>1, <2>2 DEF Stands
  <1>2. CASE CompactAnswers(r) \/ UpstreamFails(r) \/ StreamEnds(r) \/ CollectEnds(r)
             \/ AgainFails(r)
    BY <1>2, FinishStands DEF CompactAnswers, UpstreamFails, StreamEnds, CollectEnds, AgainFails
  <1>3. ASSUME NEW o \in AccountErrors, AccountRejected(r, o) PROVE Stands
    <2>1. pc[r] = "upstream" /\ cur[r] \in Accounts
      BY <1>0, <1>3 DEF AccountRejected
    <2>2. /\ Covered(Cleared(slots, cur[r]), Moved(cur, r, NoAccount))
          /\ Cleared(slots, cur[r]) \in [Accounts -> SlotList]
      BY <1>0, <2>1, CoveredLeave, SlotsType
    <2>3. released[r] \in SUBSET tried[r]
      BY <1>0 DEF GuardOK
    <2> QED
      BY <1>3, <2>1, <2>2, <2>3, FailoverStands DEF AccountRejected
  <1>4. CASE ModelRejected(r)
    <2>1. pc[r] = "upstream" /\ cur[r] \in Accounts /\ cur[r] \notin released[r]
      BY <1>0, <1>4 DEF ModelRejected, GuardOK
    <2>2. /\ Covered(GuardedRelease(slots, cur[r], released[r]), Moved(cur, r, NoAccount))
          /\ GuardedRelease(slots, cur[r], released[r]) \in [Accounts -> SlotList]
      BY <1>0, <2>1, CoveredLeave, SlotsType DEF GuardedRelease
    <2>3. released[r] \cup {cur[r]} \in SUBSET tried[r]
      BY <1>0, <2>1 DEF GuardOK
    <2> QED
      BY <1>4, <2>1, <2>2, <2>3, FailoverStands DEF ModelRejected
  <1>5. CASE RateLimitEvent(r)
    <2>1. cur[r] \in Accounts /\ slots' = Cleared(slots, cur[r]) /\ UNCHANGED reqVars
      BY <1>0, <1>5 DEF RateLimitEvent
    <2>2. Covered(Cleared(slots, cur[r]), cur)
      BY <1>0, <2>1, CoveredOps
    <2> QED
      BY <1>0, <2>1, <2>2 DEF Stands, reqVars, GuardOK
  <1> QED
    BY <1>a, <1>1, <1>2, <1>3, <1>4, <1>5
       DEF RequestStep, CollectEmpty, AgainAnswers, AgainThrows

LEMMA StartRequestStands ==
  ASSUME Standing, NEW r \in Requests, NEW k, NEW p, StartRequest(r, k, p)
  PROVE  Stands
  <1>0. /\ cur \in [Requests -> Accounts \cup {NoAccount}]
        /\ slots \in [Accounts -> SlotList]
        /\ pc \in [Requests -> Places]
        /\ tried \in [Requests -> SUBSET Accounts]
        /\ released \in [Requests -> SUBSET Accounts]
        /\ live \subseteq Accounts
        /\ Covered(slots, cur)
        /\ pc[r] = "idle" /\ cur[r] = NoAccount /\ released[r] = {}
        /\ \A q \in Requests : GuardOK(q)
    BY DEF Standing, SlotsSound, Typed, TypeOK, PoolTypeOK, GuardOK, StartRequest
  <1>1. ASSUME NEW a \in Choices(entry, slots, {}, Suited[r], p), StartOn(r, k, a)
        PROVE  Stands
    <2>1. a \in Accounts
      BY <1>0, ChoicesSubset DEF Available
    <2>2. slots' = [Swept(slots) EXCEPT ![a] = Pushed(@)] /\ cur' = Moved(cur, r, a)
      BY <1>1 DEF StartOn, Take, Moved
    <2>3. Covered(slots', cur')
      BY <1>0, <2>1, <2>2, CoveredTake
    <2>4. ASSUME NEW q \in Requests PROVE GuardOK(q)'
      <3>1. CASE q = r
        BY <1>0, <1>1, <3>1 DEF StartOn, GuardOK
      <3>2. CASE q # r
        BY <1>0, <1>1, <3>2 DEF StartOn, GuardOK
      <3> QED
        BY <3>1, <3>2
    <2> QED
      BY <2>3, <2>4 DEF Stands
  <1>2. CASE Refuse(r, k)
    <2>1. slots' = Swept(slots) /\ UNCHANGED <<pc, cur, tried, released>>
      BY <1>2 DEF Refuse, TakeNone
    <2>2. Covered(slots', cur')
      <3>1. CASE Accounts = {}
        BY <3>1 DEF Covered
      <3>2. ASSUME NEW a \in Accounts PROVE Covered(Swept(slots), cur)
        BY <1>0, CoveredOps
      <3> QED
        BY <2>1, <3>1, <3>2 DEF Covered
    <2> QED
      BY <1>0, <2>1, <2>2 DEF Stands, GuardOK
  <1> QED
    BY <1>1, <1>2 DEF StartRequest

LEMMA OtherStepStands ==
  ASSUME Standing, NEW a \in Accounts, OtherStep(a)
  PROVE  Stands
  <1>0. /\ slots \in [Accounts -> SlotList]
        /\ Covered(slots, cur)
        /\ Covered(Cleared(slots, a), cur)
        /\ \A q \in Requests : GuardOK(q)
    BY CoveredOps DEF Standing, SlotsSound, Typed, TypeOK, PoolTypeOK
  <1>1. UNCHANGED reqVars
    BY DEF OtherStep, RefreshBegins, RefreshEnds, Switch, Remove, Add, Reset,
           SlotTimesOut, LimitTimesOut, TokenTimesOut
  <1>2. Covered(slots', cur)
    <2>1. CASE SlotTimesOut(a)
      <3> DEFINE l == [stale |-> slots[a].stale + 1, fresh |-> slots[a].fresh - 1]
      <3>1. slots' = [slots EXCEPT ![a] = l] /\ slots[a].fresh > 0
        BY <2>1 DEF SlotTimesOut, SlotAges
      <3>2. slots[a] \in SlotList
        BY <1>0
      <3>3. Held(l) = Held(slots[a])
        BY <3>1, <3>2 DEF Held, SlotList
      <3> HIDE DEF l
      <3> QED
        BY <1>0, <3>1, <3>3 DEF Covered
    <2>2. CASE ~SlotTimesOut(a)
      BY <1>0, <2>2 DEF OtherStep, RefreshBegins, RefreshEnds, SchedulerMark, SchedulerUpdateToken,
         Switch, SetStatus, Remove, RemoveAccount, Add, AddAccount, Reset, ResetUsage,
         LimitTimesOut, LimitPasses, TokenTimesOut, TokenLapses
    <2> QED
      BY <2>1, <2>2
  <1> QED
    BY <1>0, <1>1, <1>2 DEF Stands, reqVars, GuardOK

\* Every slot stands for a request in flight ("Each entry = one in-flight
\* request", account-lifecycle.ts), as long as no answer of the upstream is
\* empty: after an empty answer the code may keep a slot for nobody.
THEOREM SlotsStandForRequests ==
  ASSUME "empty" \notin Outcomes
  PROVE  Spec => []NoPhantomSlots
  <1>1. Init => Covered(slots, cur) /\ \A r \in Requests : GuardOK(r)
    <2> SUFFICES ASSUME Init PROVE Covered(slots, cur) /\ \A r \in Requests : GuardOK(r)
      OBVIOUS
    <2>1. \A r \in Requests : GuardOK(r)
      BY DEF Init, GuardOK
    <2>2. ASSUME NEW a \in Accounts PROVE Held(slots[a]) <= Cardinality(On(cur, a))
      BY OnFinite DEF Init, PoolInit, Held, NoSlots
    <2> QED
      BY <2>1, <2>2 DEF Covered
  <1>2. Standing /\ SlotsSound' /\ [Next]_vars => Stands
    <2> SUFFICES ASSUME Standing, [Next]_vars PROVE Stands
      OBVIOUS
    <2>1. CASE UNCHANGED vars \/ List
      BY <2>1 DEF vars, poolVars, reqVars, Standing, Stands, GuardOK, List, ListAccounts
    <2>2. ASSUME NEW r \in Requests, RequestStep(r) \/ RateLimitEvent(r) PROVE Stands
      BY <2>2, RequestStepStands
    <2>3. ASSUME NEW r \in Requests, NEW k \in Kinds, NEW p \in Accounts \cup {NoAccount},
                 StartRequest(r, k, p)
          PROVE  Stands
      BY <2>3, StartRequestStands
    <2>4. ASSUME NEW a \in Accounts, OtherStep(a) PROVE Stands
      BY <2>4, OtherStepStands
    <2> QED
      BY <2>1, <2>2, <2>3, <2>4 DEF Next, OtherStep
  <1>3. Stands /\ SlotsSound' => Standing'
    BY DEF Stands, Standing
  <1>4. Covered(slots, cur) /\ SlotsSound /\ (\A r \in Requests : GuardOK(r)) => Standing
    BY DEF Standing
  <1>5. Standing => NoPhantomSlots
    BY DEF Standing, Covered, On, NoPhantomSlots, Holders
  <1> QED
    BY <1>1, <1>2, <1>3, <1>4, <1>5, SlotsSoundInvariant, PTL DEF Spec
=============================================================================
