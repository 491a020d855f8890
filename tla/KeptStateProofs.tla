-------------------------- MODULE KeptStateProofs ---------------------------
(***************************************************************************)
(* Proofs about what the server keeps (MCKeptState): the logins, the       *)
(* conversations, the settings, the catalogue of models, the cookie jar,   *)
(* the request history and the usage statistics.  Each part has an         *)
(* inductive invariant, stated at the end of its module; it is proved of   *)
(* the part alone and then of the part as it runs in KeptSpec.             *)
(***************************************************************************)
EXTENDS MCKeptState, FoldLemmas, FiniteSetTheorems, SequenceTheorems, TLAPS

-----------------------------------------------------------------------------
(* Logins *)

LoginVars == <<x1, x2, x3, x4, x5, x6, x7>>

LEMMA LoginsStart == OAuth!Init => OAuth!LoginsInv
  BY LoginAssumption DEF OAuth!Init, OAuth!LoginsInv, OAuth!TypeOK, OAuth!NothingBefore,
         OAuth!SessionSpent, OAuth!OneExchange, OAuth!ToldTruth, OAuth!OneCallbackServer,
         OAuth!ExchangesOf, OAuth!NoSession, OAuth!NoExchange, OAuth!ServerStates, OAuth!Slots

LEMMA LoginTypes ==
    ASSUME OAuth!LoginsInv, OAuth!Next
    PROVE  OAuth!TypeOK'
<1> USE LoginAssumption DEF OAuth!LoginsInv, OAuth!TypeOK, OAuth!ServerStates, OAuth!Slots,
            OAuth!NoSession, OAuth!NewSession, OAuth!NoExchange, OAuth!Peeked, OAuth!Closing
<1>1. ASSUME NEW l \in Logins, OAuth!StartOAuthFlow(l) PROVE OAuth!TypeOK'
  BY <1>1 DEF OAuth!StartOAuthFlow
<1>2. ASSUME NEW l \in Logins, OAuth!CallbackRefused(l) PROVE OAuth!TypeOK'
  BY <1>2 DEF OAuth!CallbackRefused
<1>3. ASSUME NEW l \in Logins, OAuth!ServerCloses(l) PROVE OAuth!TypeOK'
  BY <1>3 DEF OAuth!ServerCloses
<1>4. ASSUME NEW l \in Logins, OAuth!SessionAges(l) PROVE OAuth!TypeOK'
  BY <1>4 DEF OAuth!SessionAges
<1>5. ASSUME NEW l \in Logins, OAuth!CompletedAges(l) PROVE OAuth!TypeOK'
  BY <1>5 DEF OAuth!CompletedAges
<1>6. ASSUME NEW l \in Logins, NEW s \in Logins \cup {NoLogin}, OAuth!CodeArrives(l, s)
      PROVE  OAuth!TypeOK'
  <2>1. PICK h \in OAuth!Slots : x5' = [x5 EXCEPT ![h] = [login |-> l, server |-> s]]
    BY <1>6 DEF OAuth!CodeArrives
  <2>. QED BY ZenonT(60), <1>6, <2>1 DEF OAuth!CodeArrives
<1>7. ASSUME NEW l \in Logins, NEW s \in Logins \cup {NoLogin}, OAuth!CodeTooLate(l, s)
      PROVE  OAuth!TypeOK'
  BY <1>7 DEF OAuth!CodeTooLate
<1>8. ASSUME NEW h \in OAuth!Slots, OAuth!ExchangeSucceeds(h) PROVE OAuth!TypeOK'
  BY <1>8 DEF OAuth!ExchangeSucceeds
<1>9. ASSUME NEW h \in OAuth!Slots, OAuth!ExchangeFails(h) PROVE OAuth!TypeOK'
  BY <1>9 DEF OAuth!ExchangeFails
<1>10. CASE OAuth!Sweep
  BY <1>10 DEF OAuth!Sweep
<1>. QED BY <1>1, <1>2, <1>3, <1>4, <1>5, <1>6, <1>7, <1>8, <1>9, <1>10 DEF OAuth!Next

\* A login that has not begun is one that a step leaves alone.
Untouched(m) ==
    /\ x3[m] = "unused" /\ x1'[m] = x1[m] /\ x6'[m] = x6[m]
    /\ OAuth!ExchangesOf(m)' = OAuth!ExchangesOf(m)

LEMMA NothingBeforeKept ==
    ASSUME OAuth!LoginsInv, OAuth!Next, OAuth!TypeOK'
    PROVE  OAuth!NothingBefore'
<1> USE LoginAssumption DEF OAuth!LoginsInv, OAuth!TypeOK, OAuth!Slots, OAuth!ServerStates
<1> SUFFICES ASSUME NEW m \in Logins, x3'[m] = "unused"
             PROVE  Untouched(m)
  BY DEF OAuth!NothingBefore, OAuth!NoSession, Untouched
<1>0. x3[m] = "unused" =>
          ~x1[m].pending /\ ~x1[m].exchanging /\ ~x1[m].old /\ x1[m] = OAuth!NoSession
          /\ \A h \in OAuth!Slots : x5[h].login # m
  <2>1. x3[m] = "unused" => x1[m] = OAuth!NoSession /\ OAuth!ExchangesOf(m) = {}
    BY DEF OAuth!NothingBefore
  <2>2. x3[m] = "unused" => \A h \in OAuth!Slots : x5[h].login # m
    BY <2>1 DEF OAuth!ExchangesOf
  <2>. QED BY <2>1, <2>2 DEF OAuth!NoSession
<1>1. ASSUME NEW l \in Logins, OAuth!StartOAuthFlow(l) PROVE Untouched(m)
  BY <1>0, <1>1 DEF OAuth!StartOAuthFlow, Untouched, OAuth!Closing,
      OAuth!ExchangesOf, OAuth!MayAcquire, OAuth!Peeked, OAuth!NoSession
<1>2. ASSUME NEW l \in Logins, OAuth!CallbackRefused(l) PROVE Untouched(m)
  BY <1>0, <1>2 DEF OAuth!CallbackRefused, Untouched, OAuth!Closing,
      OAuth!ExchangesOf, OAuth!MayAcquire, OAuth!Peeked, OAuth!NoSession
<1>3. ASSUME NEW l \in Logins, OAuth!ServerCloses(l) PROVE Untouched(m)
  BY <1>0, <1>3 DEF OAuth!ServerCloses, Untouched, OAuth!Closing,
      OAuth!ExchangesOf, OAuth!MayAcquire, OAuth!Peeked, OAuth!NoSession
<1>4. ASSUME NEW l \in Logins, OAuth!SessionAges(l) PROVE Untouched(m)
  BY <1>0, <1>4 DEF OAuth!SessionAges, Untouched, OAuth!Closing,
      OAuth!ExchangesOf, OAuth!MayAcquire, OAuth!Peeked, OAuth!NoSession
<1>5. ASSUME NEW l \in Logins, OAuth!CompletedAges(l) PROVE Untouched(m)
  BY <1>0, <1>5 DEF OAuth!CompletedAges, Untouched, OAuth!Closing,
      OAuth!ExchangesOf, OAuth!MayAcquire, OAuth!Peeked, OAuth!NoSession
<1>6. ASSUME NEW l \in Logins, NEW s \in Logins \cup {NoLogin}, OAuth!CodeArrives(l, s)
      PROVE  Untouched(m)
  BY <1>0, <1>6 DEF OAuth!CodeArrives, Untouched, OAuth!Closing,
      OAuth!ExchangesOf, OAuth!MayAcquire, OAuth!Peeked, OAuth!NoSession
<1>7. ASSUME NEW l \in Logins, NEW s \in Logins \cup {NoLogin}, OAuth!CodeTooLate(l, s)
      PROVE  Untouched(m)
  BY <1>0, <1>7 DEF OAuth!CodeTooLate, Untouched, OAuth!Closing,
      OAuth!ExchangesOf, OAuth!MayAcquire, OAuth!Peeked, OAuth!NoSession
<1>8. ASSUME NEW h \in OAuth!Slots, OAuth!ExchangeSucceeds(h) PROVE Untouched(m)
  <2> DEFINE l == x5[h].login
  <2>1. /\ l \in Logins
        /\ x1' = [x1 EXCEPT ![l] = OAuth!NoSession] /\ x6' = [x6 EXCEPT ![l] = @ + 1]
        /\ x5' = [x5 EXCEPT ![h] = OAuth!NoExchange]
    BY <1>8 DEF OAuth!ExchangeSucceeds
  <2>2. x3[m] = "unused"
    BY <1>8 DEF OAuth!ExchangeSucceeds, OAuth!Closing
  <2>3. m # l
    BY <1>0, <2>2
  <2>4. x1'[m] = x1[m] /\ x6'[m] = x6[m]
    BY <2>1, <2>3
  <2>5. OAuth!ExchangesOf(m)' = OAuth!ExchangesOf(m)
    BY <2>1, <2>3 DEF OAuth!ExchangesOf, OAuth!NoExchange
  <2>. QED BY <2>2, <2>4, <2>5 DEF Untouched
<1>9. ASSUME NEW h \in OAuth!Slots, OAuth!ExchangeFails(h) PROVE Untouched(m)
  <2> DEFINE l == x5[h].login
  <2>1. /\ l \in Logins
        /\ x1' = [x1 EXCEPT ![l].exchanging = FALSE] /\ x6' = x6
        /\ x5' = [x5 EXCEPT ![h] = OAuth!NoExchange]
    BY <1>9 DEF OAuth!ExchangeFails
  <2>2. x3[m] = "unused"
    BY <1>9 DEF OAuth!ExchangeFails, OAuth!Closing
  <2>3. m # l
    BY <1>0, <2>2
  <2>4. x1'[m] = x1[m] /\ x6'[m] = x6[m]
    BY <2>1, <2>3
  <2>5. OAuth!ExchangesOf(m)' = OAuth!ExchangesOf(m)
    BY <2>1, <2>3 DEF OAuth!ExchangesOf, OAuth!NoExchange
  <2>. QED BY <2>2, <2>4, <2>5 DEF Untouched
<1>10. CASE OAuth!Sweep
  BY <1>0, <1>10 DEF OAuth!Sweep, Untouched, OAuth!ExchangesOf, OAuth!Peeked, OAuth!NoSession
<1>. QED BY <1>1, <1>2, <1>3, <1>4, <1>5, <1>6, <1>7, <1>8, <1>9, <1>10 DEF OAuth!Next

LEMMA SessionSpentKept ==
    ASSUME OAuth!LoginsInv, OAuth!Next, OAuth!TypeOK'
    PROVE  OAuth!SessionSpent'
<1> USE LoginAssumption DEF OAuth!LoginsInv, OAuth!TypeOK, OAuth!Slots, OAuth!ServerStates,
            OAuth!NoSession, OAuth!NewSession, OAuth!NoExchange, OAuth!Peeked, OAuth!Closing,
            OAuth!NothingBefore, OAuth!SessionSpent, OAuth!OneExchange, OAuth!ToldTruth,
            OAuth!OneCallbackServer, OAuth!ExchangesOf, OAuth!MayAcquire
<1>1. ASSUME NEW l \in Logins, OAuth!StartOAuthFlow(l) PROVE OAuth!SessionSpent'
  BY <1>1 DEF OAuth!StartOAuthFlow
<1>2. ASSUME NEW l \in Logins, OAuth!CallbackRefused(l) PROVE OAuth!SessionSpent'
  BY <1>2 DEF OAuth!CallbackRefused
<1>3. ASSUME NEW l \in Logins, OAuth!ServerCloses(l) PROVE OAuth!SessionSpent'
  BY <1>3 DEF OAuth!ServerCloses
<1>4. ASSUME NEW l \in Logins, OAuth!SessionAges(l) PROVE OAuth!SessionSpent'
  BY <1>4 DEF OAuth!SessionAges
<1>5. ASSUME NEW l \in Logins, OAuth!CompletedAges(l) PROVE OAuth!SessionSpent'
  BY <1>5 DEF OAuth!CompletedAges
<1>6. ASSUME NEW l \in Logins, NEW s \in Logins \cup {NoLogin}, OAuth!CodeArrives(l, s)
      PROVE  OAuth!SessionSpent'
  BY <1>6 DEF OAuth!CodeArrives
<1>7. ASSUME NEW l \in Logins, NEW s \in Logins \cup {NoLogin}, OAuth!CodeTooLate(l, s)
      PROVE  OAuth!SessionSpent'
  BY <1>7 DEF OAuth!CodeTooLate
<1>8. ASSUME NEW h \in OAuth!Slots, OAuth!ExchangeSucceeds(h) PROVE OAuth!SessionSpent'
  BY <1>8 DEF OAuth!ExchangeSucceeds
<1>9. ASSUME NEW h \in OAuth!Slots, OAuth!ExchangeFails(h) PROVE OAuth!SessionSpent'
  BY <1>9 DEF OAuth!ExchangeFails
<1>10. CASE OAuth!Sweep
  BY <1>10 DEF OAuth!Sweep
<1>. QED BY <1>1, <1>2, <1>3, <1>4, <1>5, <1>6, <1>7, <1>8, <1>9, <1>10 DEF OAuth!Next

LEMMA OneExchangeKept ==
    ASSUME OAuth!LoginsInv, OAuth!Next, OAuth!TypeOK'
    PROVE  OAuth!OneExchange'
<1> USE LoginAssumption DEF OAuth!LoginsInv, OAuth!TypeOK, OAuth!Slots, OAuth!ServerStates,
            OAuth!NoSession, OAuth!NewSession, OAuth!NoExchange, OAuth!Peeked, OAuth!Closing,
            OAuth!NothingBefore, OAuth!SessionSpent, OAuth!OneExchange, OAuth!ToldTruth,
            OAuth!OneCallbackServer, OAuth!ExchangesOf, OAuth!MayAcquire
<1>1. ASSUME NEW l \in Logins, OAuth!StartOAuthFlow(l) PROVE OAuth!OneExchange'
  BY <1>1 DEF OAuth!StartOAuthFlow
<1>2. ASSUME NEW l \in Logins, OAuth!CallbackRefused(l) PROVE OAuth!OneExchange'
  BY <1>2 DEF OAuth!CallbackRefused
<1>3. ASSUME NEW l \in Logins, OAuth!ServerCloses(l) PROVE OAuth!OneExchange'
  BY <1>3 DEF OAuth!ServerCloses
<1>4. ASSUME NEW l \in Logins, OAuth!SessionAges(l) PROVE OAuth!OneExchange'
  BY <1>4 DEF OAuth!SessionAges
<1>5. ASSUME NEW l \in Logins, OAuth!CompletedAges(l) PROVE OAuth!OneExchange'
  BY <1>5 DEF OAuth!CompletedAges
<1>6. ASSUME NEW l \in Logins, NEW s \in Logins \cup {NoLogin}, OAuth!CodeArrives(l, s)
      PROVE  OAuth!OneExchange'
  BY <1>6 DEF OAuth!CodeArrives
<1>7. ASSUME NEW l \in Logins, NEW s \in Logins \cup {NoLogin}, OAuth!CodeTooLate(l, s)
      PROVE  OAuth!OneExchange'
  BY <1>7 DEF OAuth!CodeTooLate
<1>8. ASSUME NEW h \in OAuth!Slots, OAuth!ExchangeSucceeds(h) PROVE OAuth!OneExchange'
  <2>0. PICK l \in Logins : l = x5[h].login
    BY <1>8 DEF OAuth!ExchangeSucceeds
  <2>1. /\ x6' = [x6 EXCEPT ![l] = @ + 1]
        /\ x5' = [x5 EXCEPT ![h] = OAuth!NoExchange]
    BY <1>8, <2>0 DEF OAuth!ExchangeSucceeds
  <2>2. h \in OAuth!ExchangesOf(l) /\ x6[l] = 0
    BY <2>0, <2>1
  <2>3. OAuth!ExchangesOf(l)' = {}
    <3> SUFFICES ASSUME NEW g \in OAuth!Slots, x5'[g].login = l PROVE FALSE
      BY DEF OAuth!ExchangesOf
    <3>1. g # h
      BY <2>1
    <3>2. g \in OAuth!ExchangesOf(l)
      BY <2>1, <3>1
    <3>. QED BY <2>2, <3>1, <3>2
  <2>4. ASSUME NEW m \in Logins, m # l
        PROVE  OAuth!ExchangesOf(m)' = OAuth!ExchangesOf(m) /\ x6'[m] = x6[m]
    BY <2>0, <2>1, <2>2, <2>4
  <2>5. x6'[l] = 1
    BY <2>1, <2>2
  <2>6. OAuth!OneExchange
    OBVIOUS
  <2> SUFFICES ASSUME NEW m \in Logins
               PROVE  /\ \A g, k \in OAuth!ExchangesOf(m)' : g = k
                      /\ x6'[m] \in {0, 1}
                      /\ x6'[m] = 1 => OAuth!ExchangesOf(m)' = {}
    BY DEF OAuth!OneExchange
  <2> HIDE DEF OAuth!ExchangesOf, OAuth!LoginsInv, OAuth!TypeOK
  <2>7. CASE m = l
    BY <2>3, <2>5, <2>7
  <2>8. CASE m # l
    BY <2>4, <2>6, <2>8 DEF OAuth!OneExchange
  <2>. QED BY <2>7, <2>8
<1>9. ASSUME NEW h \in OAuth!Slots, OAuth!ExchangeFails(h) PROVE OAuth!OneExchange'
  BY <1>9 DEF OAuth!ExchangeFails
<1>10. CASE OAuth!Sweep
  BY <1>10 DEF OAuth!Sweep
<1>. QED BY <1>1, <1>2, <1>3, <1>4, <1>5, <1>6, <1>7, <1>8, <1>9, <1>10 DEF OAuth!Next

LEMMA ToldTruthKept ==
    ASSUME OAuth!LoginsInv, OAuth!Next, OAuth!TypeOK'
    PROVE  OAuth!ToldTruth'
<1> USE LoginAssumption DEF OAuth!LoginsInv, OAuth!TypeOK, OAuth!Slots, OAuth!ServerStates,
            OAuth!NoSession, OAuth!NewSession, OAuth!NoExchange, OAuth!Peeked, OAuth!Closing,
            OAuth!NothingBefore, OAuth!SessionSpent, OAuth!OneExchange, OAuth!ToldTruth,
            OAuth!OneCallbackServer, OAuth!ExchangesOf, OAuth!MayAcquire
<1>1. ASSUME NEW l \in Logins, OAuth!StartOAuthFlow(l) PROVE OAuth!ToldTruth'
  BY <1>1 DEF OAuth!StartOAuthFlow
<1>2. ASSUME NEW l \in Logins, OAuth!CallbackRefused(l) PROVE OAuth!ToldTruth'
  BY <1>2 DEF OAuth!CallbackRefused
<1>3. ASSUME NEW l \in Logins, OAuth!ServerCloses(l) PROVE OAuth!ToldTruth'
  BY <1>3 DEF OAuth!ServerCloses
<1>4. ASSUME NEW l \in Logins, OAuth!SessionAges(l) PROVE OAuth!ToldTruth'
  BY <1>4 DEF OAuth!SessionAges
<1>5. ASSUME NEW l \in Logins, OAuth!CompletedAges(l) PROVE OAuth!ToldTruth'
  BY <1>5 DEF OAuth!CompletedAges
<1>6. ASSUME NEW l \in Logins, NEW s \in Logins \cup {NoLogin}, OAuth!CodeArrives(l, s)
      PROVE  OAuth!ToldTruth'
  BY <1>6 DEF OAuth!CodeArrives
<1>7. ASSUME NEW l \in Logins, NEW s \in Logins \cup {NoLogin}, OAuth!CodeTooLate(l, s)
      PROVE  OAuth!ToldTruth'
  BY <1>7 DEF OAuth!CodeTooLate
<1>8. ASSUME NEW h \in OAuth!Slots, OAuth!ExchangeSucceeds(h) PROVE OAuth!ToldTruth'
  BY <1>8 DEF OAuth!ExchangeSucceeds
<1>9. ASSUME NEW h \in OAuth!Slots, OAuth!ExchangeFails(h) PROVE OAuth!ToldTruth'
  BY <1>9 DEF OAuth!ExchangeFails
<1>10. CASE OAuth!Sweep
  BY <1>10 DEF OAuth!Sweep
<1>. QED BY <1>1, <1>2, <1>3, <1>4, <1>5, <1>6, <1>7, <1>8, <1>9, <1>10 DEF OAuth!Next

LEMMA OneCallbackServerKept ==
    ASSUME OAuth!LoginsInv, OAuth!Next, OAuth!TypeOK'
    PROVE  OAuth!OneCallbackServer'
<1> USE LoginAssumption DEF OAuth!LoginsInv, OAuth!TypeOK, OAuth!Slots, OAuth!ServerStates,
            OAuth!NoSession, OAuth!NewSession, OAuth!NoExchange, OAuth!Peeked, OAuth!Closing,
            OAuth!NothingBefore, OAuth!SessionSpent, OAuth!OneExchange, OAuth!ToldTruth,
            OAuth!OneCallbackServer, OAuth!ExchangesOf, OAuth!MayAcquire
<1>1. ASSUME NEW l \in Logins, OAuth!StartOAuthFlow(l) PROVE OAuth!OneCallbackServer'
  BY <1>1 DEF OAuth!StartOAuthFlow
<1>2. ASSUME NEW l \in Logins, OAuth!CallbackRefused(l) PROVE OAuth!OneCallbackServer'
  BY <1>2 DEF OAuth!CallbackRefused
<1>3. ASSUME NEW l \in Logins, OAuth!ServerCloses(l) PROVE OAuth!OneCallbackServer'
  BY <1>3 DEF OAuth!ServerCloses
<1>4. ASSUME NEW l \in Logins, OAuth!SessionAges(l) PROVE OAuth!OneCallbackServer'
  BY <1>4 DEF OAuth!SessionAges
<1>5. ASSUME NEW l \in Logins, OAuth!CompletedAges(l) PROVE OAuth!OneCallbackServer'
  BY <1>5 DEF OAuth!CompletedAges
<1>6. ASSUME NEW l \in Logins, NEW s \in Logins \cup {NoLogin}, OAuth!CodeArrives(l, s)
      PROVE  OAuth!OneCallbackServer'
  BY <1>6 DEF OAuth!CodeArrives
<1>7. ASSUME NEW l \in Logins, NEW s \in Logins \cup {NoLogin}, OAuth!CodeTooLate(l, s)
      PROVE  OAuth!OneCallbackServer'
  BY <1>7 DEF OAuth!CodeTooLate
<1>8. ASSUME NEW h \in OAuth!Slots, OAuth!ExchangeSucceeds(h) PROVE OAuth!OneCallbackServer'
  BY <1>8 DEF OAuth!ExchangeSucceeds
<1>9. ASSUME NEW h \in OAuth!Slots, OAuth!ExchangeFails(h) PROVE OAuth!OneCallbackServer'
  BY <1>9 DEF OAuth!ExchangeFails
<1>10. CASE OAuth!Sweep
  BY <1>10 DEF OAuth!Sweep
<1>. QED BY <1>1, <1>2, <1>3, <1>4, <1>5, <1>6, <1>7, <1>8, <1>9, <1>10 DEF OAuth!Next

LEMMA LoginsRest ==
    ASSUME OAuth!LoginsInv, UNCHANGED LoginVars PROVE OAuth!LoginsInv'
  BY DEF OAuth!LoginsInv, LoginVars, OAuth!TypeOK, OAuth!NothingBefore, OAuth!SessionSpent,
         OAuth!OneExchange, OAuth!ToldTruth, OAuth!OneCallbackServer, OAuth!ExchangesOf

LEMMA LoginsStep ==
    ASSUME OAuth!LoginsInv, OAuth!Next \/ UNCHANGED LoginVars PROVE OAuth!LoginsInv'
<1>1. CASE OAuth!Next
  <2>1. OAuth!TypeOK'
    BY <1>1, LoginTypes
  <2>. QED BY <1>1, <2>1, NothingBeforeKept, SessionSpentKept, OneExchangeKept, ToldTruthKept,
              OneCallbackServerKept DEF OAuth!LoginsInv
<1>2. CASE UNCHANGED LoginVars
  BY <1>2, LoginsRest
<1>. QED BY <1>1, <1>2

\* The instance counts as FiniteSets does.
LEMMA SameCardinality == ASSUME NEW S PROVE OAuth!Cardinality(S) = Cardinality(S)
  BY DEF OAuth!Cardinality, Cardinality

\* What the invariant says of one login: at most one exchange, and none after
\* an account.
LEMMA LoginsSafe ==
    ASSUME OAuth!LoginsInv
    PROVE  OAuth!TypeOK /\ OAuth!CodeExchangedOnce /\ OAuth!CompletedHasAccount
           /\ OAuth!OneCallbackServer
<1>1. OAuth!CodeExchangedOnce
  <2> SUFFICES ASSUME NEW l \in Logins
               PROVE  Cardinality(OAuth!ExchangesOf(l)) + x6[l] <= 1
    BY SameCardinality DEF OAuth!CodeExchangedOnce
  <2>1. /\ \A g, h \in OAuth!ExchangesOf(l) : g = h
        /\ x6[l] \in {0, 1}
        /\ x6[l] = 1 => OAuth!ExchangesOf(l) = {}
    BY DEF OAuth!LoginsInv, OAuth!OneExchange
  <2>2. CASE OAuth!ExchangesOf(l) = {}
    BY <2>1, <2>2, FS_EmptySet
  <2>3. CASE OAuth!ExchangesOf(l) # {}
    <3>1. PICK h \in OAuth!ExchangesOf(l) : OAuth!ExchangesOf(l) = {h}
      BY <2>1, <2>3
    <3>2. Cardinality(OAuth!ExchangesOf(l)) = 1
      BY <3>1, FS_Singleton
    <3>. QED BY <2>1, <2>3, <3>2
  <2>. QED BY <2>2, <2>3
<1>2. OAuth!CompletedHasAccount
  BY DEF OAuth!LoginsInv, OAuth!TypeOK, OAuth!ToldTruth, OAuth!CompletedHasAccount,
         OAuth!ToldSuccess, OAuth!Completed, OAuth!Peeked, OAuth!NoSession
<1>. QED BY <1>1, <1>2 DEF OAuth!LoginsInv

-----------------------------------------------------------------------------
(* The catalogue of models *)

CatalogueVars == <<x1, x2, x3, x4, x5, x6, x7>>

LEMMA NoPlansEmpty == DOMAIN Catalogue!NoPlans = {}
  BY DEF Catalogue!NoPlans

LEMMA NotStartedTyped ==
    Catalogue!NotStarted \in [stopped : BOOLEAN, timer : Catalogue!Timers,
                              attempt : 0 .. MaxFetchRetries, initial : BOOLEAN]
  BY CatalogueAssumption DEF Catalogue!NotStarted, Catalogue!Timers

LEMMA CatalogueStart == Catalogue!Init => Catalogue!ModelsInv
<1> SUFFICES ASSUME Catalogue!Init PROVE Catalogue!ModelsInv
  OBVIOUS
<1>1. /\ x1 = FALSE /\ x2 = {} /\ DOMAIN x3 = {} /\ x4 = Catalogue!NotStarted /\ x6 = {}
      /\ x5 = [f \in Catalogue!Fetchers |-> Catalogue!NoFetch]
      /\ x7 \in (SUBSET Models) \cup {Unreadable}
  BY NoPlansEmpty DEF Catalogue!Init
<1>2. x5 \in [Catalogue!Fetchers -> [waits : BOOLEAN, plans : SUBSET Plans, any : BOOLEAN]]
  BY <1>1 DEF Catalogue!NoFetch
<1>3. Catalogue!NoFetchDown
  BY <1>1 DEF Catalogue!NoFetchDown, Catalogue!NoFetch
<1>4. Catalogue!TypeOK
  BY <1>1, <1>2, NotStartedTyped DEF Catalogue!TypeOK
<1>. QED BY <1>1, <1>3, <1>4 DEF Catalogue!ModelsInv, Catalogue!PlansKnown, Catalogue!FetchLoopGoesOn

\* loadStatic: what the files list is known, and no plan yet.
LEMMA LoadStaticTyped ==
    ASSUME Catalogue!TypeOK, NEW static \in SUBSET Models, Catalogue!LoadStatic(static)
    PROVE  x2' \subseteq Models /\ DOMAIN x3' = {}
  BY NoPlansEmpty DEF Catalogue!TypeOK, Catalogue!LoadStatic

\* What a loop that stopped or goes on looks like after a fetch.
LEMMA LoopAfterTyped ==
    ASSUME Catalogue!TypeOK, NEW success \in BOOLEAN
    PROVE  /\ Catalogue!LoopAfter(success)
                  \in [stopped : BOOLEAN, timer : Catalogue!Timers,
                       attempt : 0 .. MaxFetchRetries, initial : BOOLEAN]
           /\ Catalogue!LoopAfter(success).stopped = x4.stopped
           /\ ~x4.stopped => Catalogue!LoopAfter(success).timer # "none"
           /\ x4.stopped => Catalogue!LoopAfter(success).timer = x4.timer
<1> DEFINE Loops == [stopped : BOOLEAN, timer : Catalogue!Timers,
                     attempt : 0 .. MaxFetchRetries, initial : BOOLEAN]
           after == Catalogue!LoopAfter(success)
<1>1. x4 \in Loops
  BY DEF Catalogue!TypeOK
<1>2. CASE x4.initial /\ ~success /\ ~x4.stopped /\ x4.attempt < MaxFetchRetries
  <2>1. after = [x4 EXCEPT !.timer = "initial", !.attempt = @ + 1]
    BY <1>2 DEF Catalogue!LoopAfter
  <2>2. x4.attempt + 1 \in 0 .. MaxFetchRetries
    BY <1>1, <1>2, CatalogueAssumption
  <2>. QED BY <1>1, <1>2, <2>1, <2>2 DEF Catalogue!Timers
<1>3. CASE ~(x4.initial /\ ~success /\ ~x4.stopped /\ x4.attempt < MaxFetchRetries)
  <2>1. after = IF x4.stopped THEN x4 ELSE [x4 EXCEPT !.timer = "hourly", !.initial = FALSE]
    BY <1>3 DEF Catalogue!LoopAfter, Catalogue!Hourly
  <2>. QED BY <1>1, <2>1 DEF Catalogue!Timers
<1>. QED BY <1>2, <1>3

LEMMA CatalogueTypes ==
    ASSUME Catalogue!ModelsInv, Catalogue!Next PROVE Catalogue!TypeOK'
<1> USE CatalogueAssumption
    DEF Catalogue!ModelsInv, Catalogue!TypeOK, Catalogue!Fetchers, Catalogue!Timers,
        Catalogue!NoFetch, Catalogue!Begin
<1>1. CASE Catalogue!Start
  <2>1. PICK static \in SUBSET Models : Catalogue!LoadStatic(static)
    BY <1>1 DEF Catalogue!Start
  <2>2. x2' \subseteq Models /\ DOMAIN x3' = {}
    BY <2>1, LoadStaticTyped
  <2>. QED BY <1>1, <2>2 DEF Catalogue!Start
<1>2. CASE Catalogue!Stop
  BY <1>2 DEF Catalogue!Stop
<1>3. CASE Catalogue!Exit
  <2>1. x7' \in (SUBSET Models) \cup {Unreadable}
    BY <1>3 DEF Catalogue!Exit
  <2>. QED BY <1>3, <2>1, NotStartedTyped DEF Catalogue!Exit
<1>4. CASE Catalogue!LoopTimer
  BY <1>4 DEF Catalogue!LoopTimer
<1>5. CASE Catalogue!Trigger
  BY <1>5 DEF Catalogue!Trigger
<1>6. CASE Catalogue!Reload
  <2>1. PICK static \in SUBSET Models : Catalogue!LoadStatic(static)
    BY <1>6 DEF Catalogue!Reload
  <2>2. x2' \subseteq Models /\ DOMAIN x3' = {}
    BY <2>1, LoadStaticTyped
  <2>. QED BY <1>6, <2>2 DEF Catalogue!Reload
<1>7. ASSUME NEW w \in SUBSET Models, Catalogue!WriteEnds(w) PROVE Catalogue!TypeOK'
  <2>1. x7' \in (SUBSET Models) \cup {Unreadable}
    BY <1>7 DEF Catalogue!WriteEnds
  <2>. QED BY <1>7, <2>1 DEF Catalogue!WriteEnds
<1>8. ASSUME NEW f \in Catalogue!Fetchers, Catalogue!Settled(f) PROVE Catalogue!TypeOK'
  BY <1>8, LoopAfterTyped DEF Catalogue!Settled, Catalogue!Ended
<1>9. ASSUME NEW f \in Catalogue!Fetchers, NEW p \in Plans, NEW list \in SUBSET Models,
             Catalogue!Answered(f, p, list)
      PROVE  Catalogue!TypeOK'
  BY <1>9 DEF Catalogue!Answered, Catalogue!Apply
<1>. QED BY <1>1, <1>2, <1>3, <1>4, <1>5, <1>6, <1>7, <1>8, <1>9 DEF Catalogue!Next

LEMMA PlansKnownKept ==
    ASSUME Catalogue!ModelsInv, Catalogue!Next PROVE Catalogue!PlansKnown'
<1> USE DEF Catalogue!ModelsInv, Catalogue!TypeOK, Catalogue!PlansKnown, Catalogue!NoPlans,
            Catalogue!LoadStatic, Catalogue!Begin
<1>1. CASE Catalogue!Start
  BY <1>1 DEF Catalogue!Start
<1>2. CASE Catalogue!Stop
  BY <1>2 DEF Catalogue!Stop
<1>3. CASE Catalogue!Exit
  BY <1>3 DEF Catalogue!Exit
<1>4. CASE Catalogue!LoopTimer
  BY <1>4 DEF Catalogue!LoopTimer
<1>5. CASE Catalogue!Trigger
  BY <1>5 DEF Catalogue!Trigger
<1>6. CASE Catalogue!Reload
  BY <1>6 DEF Catalogue!Reload
<1>7. ASSUME NEW w \in SUBSET Models, Catalogue!WriteEnds(w) PROVE Catalogue!PlansKnown'
  BY <1>7 DEF Catalogue!WriteEnds
<1>8. ASSUME NEW f \in Catalogue!Fetchers, Catalogue!Settled(f) PROVE Catalogue!PlansKnown'
  BY <1>8 DEF Catalogue!Settled
<1>9. ASSUME NEW f \in Catalogue!Fetchers, NEW p \in Plans, NEW list \in SUBSET Models,
             Catalogue!Answered(f, p, list)
      PROVE  Catalogue!PlansKnown'
  BY <1>9 DEF Catalogue!Answered, Catalogue!Apply
<1>. QED BY <1>1, <1>2, <1>3, <1>4, <1>5, <1>6, <1>7, <1>8, <1>9 DEF Catalogue!Next

LEMMA FetchLoopKept ==
    ASSUME Catalogue!ModelsInv, Catalogue!Next
    PROVE  Catalogue!NoFetchDown' /\ Catalogue!FetchLoopGoesOn'
<1> USE DEF Catalogue!ModelsInv, Catalogue!TypeOK, Catalogue!NoFetchDown,
            Catalogue!FetchLoopGoesOn, Catalogue!Fetchers, Catalogue!Timers,
            Catalogue!NoFetch, Catalogue!NotStarted, Catalogue!Begin
<1> DEFINE Goal == Catalogue!NoFetchDown' /\ Catalogue!FetchLoopGoesOn'
<1>1. CASE Catalogue!Start
  BY <1>1 DEF Catalogue!Start
<1>2. CASE Catalogue!Stop
  BY <1>2 DEF Catalogue!Stop
<1>3. CASE Catalogue!Exit
  BY <1>3 DEF Catalogue!Exit
<1>4. CASE Catalogue!LoopTimer
  <2>1. PICK plans \in SUBSET Plans :
            Catalogue!Begin("loop", plans, [x4 EXCEPT !.timer = "none"])
    BY <1>4 DEF Catalogue!LoopTimer
  <2>2. /\ x4'.stopped = x4.stopped /\ x4'.timer = "none"
        /\ x5'["loop"].waits
    BY <2>1
  <2>. QED BY <1>4, <2>2 DEF Catalogue!LoopTimer
<1>5. CASE Catalogue!Trigger
  BY <1>5 DEF Catalogue!Trigger
<1>6. CASE Catalogue!Reload
  BY <1>6 DEF Catalogue!Reload
<1>7. ASSUME NEW w \in SUBSET Models, Catalogue!WriteEnds(w) PROVE Goal
  BY <1>7 DEF Catalogue!WriteEnds
<1>8. ASSUME NEW f \in Catalogue!Fetchers, Catalogue!Settled(f) PROVE Goal
  BY <1>8, LoopAfterTyped DEF Catalogue!Settled, Catalogue!Ended
<1>9. ASSUME NEW f \in Catalogue!Fetchers, NEW p \in Plans, NEW list \in SUBSET Models,
             Catalogue!Answered(f, p, list)
      PROVE  Goal
  BY <1>9 DEF Catalogue!Answered
<1>. QED BY <1>1, <1>2, <1>3, <1>4, <1>5, <1>6, <1>7, <1>8, <1>9 DEF Catalogue!Next

LEMMA CatalogueStep ==
    ASSUME Catalogue!ModelsInv, Catalogue!Next \/ UNCHANGED CatalogueVars
    PROVE  Catalogue!ModelsInv'
<1>1. CASE Catalogue!Next
  BY <1>1, CatalogueTypes, PlansKnownKept, FetchLoopKept DEF Catalogue!ModelsInv
<1>2. CASE UNCHANGED CatalogueVars
  BY <1>2 DEF CatalogueVars, Catalogue!ModelsInv, Catalogue!TypeOK, Catalogue!PlansKnown,
         Catalogue!NoFetchDown, Catalogue!FetchLoopGoesOn
<1>. QED BY <1>1, <1>2

LEMMA FrontOfTwo == ASSUME NEW x, NEW y PROVE Catalogue!Front(<<x, y>>) = <<x>>
<1>1. <<x, y>> \in Seq({x, y}) /\ Len(<<x, y>>) = 2
  OBVIOUS
<1>2. Catalogue!Front(<<x, y>>) = SubSeq(<<x, y>>, 1, 1)
  BY <1>1 DEF Catalogue!Front
<1>3. SubSeq(<<x, y>>, 1, 1) = [i \in 1 .. 1 |-> <<x, y>>[i]]
  BY <1>1, SubSeqProperties
<1>. QED BY <1>2, <1>3

LEMMA FrontOfThree ==
    ASSUME NEW x, NEW y, NEW z PROVE Catalogue!Front(<<x, y, z>>) = <<x, y>>
<1>1. <<x, y, z>> \in Seq({x, y, z}) /\ Len(<<x, y, z>>) = 3
  OBVIOUS
<1>2. Catalogue!Front(<<x, y, z>>) = SubSeq(<<x, y, z>>, 1, 2)
  BY <1>1 DEF Catalogue!Front
<1>3. SubSeq(<<x, y, z>>, 1, 2) = [i \in 1 .. 2 |-> <<x, y, z>>[i]]
  BY <1>1, SubSeqProperties
<1>. QED BY <1>2, <1>3

\* A name that is an id with suffixes loses them, and the id is then found.
LEMMA SuffixesTaken ==
    ASSUME NEW m, NEW e \in Efforts, NEW t \in Tiers
    PROVE  /\ Catalogue!Without(Catalogue!Without(<<m, e>>, Tiers), Efforts) = <<m>>
           /\ Catalogue!Without(Catalogue!Without(<<m, t>>, Tiers), Efforts) = <<m>>
           /\ Catalogue!Without(Catalogue!Without(<<m, e, t>>, Tiers), Efforts) = <<m>>
<1>1. ASSUME NEW s PROVE Catalogue!Without(<<m>>, s) = <<m>>
  BY DEF Catalogue!Without
<1>2. ASSUME NEW x, NEW s, x \in s PROVE Catalogue!Without(<<m, x>>, s) = <<m>>
  BY <1>2, FrontOfTwo DEF Catalogue!Without, Catalogue!Last
<1>3. ASSUME NEW x, NEW s, x \notin s PROVE Catalogue!Without(<<m, x>>, s) = <<m, x>>
  BY <1>3 DEF Catalogue!Without, Catalogue!Last
<1>4. Catalogue!Without(<<m, e, t>>, Tiers) = <<m, e>>
  BY FrontOfThree DEF Catalogue!Without, Catalogue!Last
<1>5. Catalogue!Without(Catalogue!Without(<<m, e>>, Tiers), Efforts) = <<m>>
  BY <1>1, <1>2, <1>3
<1>6. Catalogue!Without(Catalogue!Without(<<m, t>>, Tiers), Efforts) = <<m>>
  BY <1>1, <1>2
<1>. QED BY <1>2, <1>4, <1>5, <1>6

LEMMA CatalogueSafe ==
    ASSUME Catalogue!ModelsInv
    PROVE  Catalogue!TypeOK /\ Catalogue!RoutedIsKnown /\ Catalogue!FetchLoopGoesOn
<1> SUFFICES ASSUME x1, NEW m \in Models, Catalogue!PlansOf(m) # {}
             PROVE  /\ Catalogue!ModelNamed(<<m>>) = m
                    /\ \A e \in Efforts, t \in Tiers :
                          /\ Catalogue!ModelNamed(<<m, e>>) = m
                          /\ Catalogue!ModelNamed(<<m, t>>) = m
                          /\ Catalogue!ModelNamed(<<m, e, t>>) = m
  BY DEF Catalogue!ModelsInv, Catalogue!RoutedIsKnown
<1>1. m \in x2 /\ m \notin DOMAIN AliasOf
  BY CatalogueAssumption
     DEF Catalogue!ModelsInv, Catalogue!TypeOK, Catalogue!PlansKnown, Catalogue!PlansOf
<1>2. Catalogue!Known(<<m>>) /\ Catalogue!Resolve(<<m>>) = m
  BY <1>1 DEF Catalogue!Known, Catalogue!Resolve
<1>3. ASSUME NEW e, NEW t
      PROVE  ~Catalogue!Known(<<m, e>>) /\ ~Catalogue!Known(<<m, e, t>>)
  BY DEF Catalogue!Known
<1>. QED BY <1>2, <1>3, SuffixesTaken DEF Catalogue!ModelNamed

-----------------------------------------------------------------------------
(* Settings *)

SettingVars == <<x1, x2, x3, x4, x5, x6, x7, x8, x9, x10, x11, x12, x13, x14>>

\* What may stand in the file of a setting, and what was saved of it.
Values0 == {-2, Config!NotSet, 0, 1, 2, Config!Unfit}

LEMMA EnvTyped ==
    /\ EnvPort \in Int /\ (EnvPort = Config!NotSet \/ EnvPort \in Nat)
    /\ EnvProxy \in Int /\ (EnvProxy = Config!NotSet \/ EnvProxy \in Nat)
  BY SettingsAssumption DEF Config!NotSet

\* A file that is read gives each setting a value, and the key its own.
LEMMA EffectiveTyped ==
    ASSUME NEW file \in [Config!Fields -> Values0],
           file = Config!Broken \/ \A f \in Config!Fields : file[f] # -2
    PROVE  /\ Config!Effective(file) \in [Config!Fields -> Nat]
           /\ Config!Effective(file)["key"] =
                  IF file # Config!Broken /\ file["key"] # Config!NotSet THEN file["key"] ELSE 0
<1>1. /\ Config!Merged(file) \in [Config!Fields -> Nat]
      /\ Config!Merged(file)["key"] =
            IF file # Config!Broken /\ file["key"] # Config!NotSet THEN file["key"] ELSE 0
  <2>1. ASSUME NEW f \in Config!Fields, file # Config!Broken, file[f] # Config!NotSet
        PROVE  file[f] \in Nat
    BY <2>1 DEF Values0, Config!NotSet, Config!Unfit
  <2>. QED BY <2>1 DEF Config!Merged, Config!Fields
<1>2. /\ Config!Effective(file) \in [Config!Fields -> Nat]
      /\ Config!Effective(file)["key"] = Config!Merged(file)["key"]
  <2> DEFINE port == IF EnvPort # Config!NotSet THEN EnvPort ELSE Config!Merged(file)["port"]
             free == (file = Config!Broken \/ file["proxy"] = Config!NotSet)
                     /\ EnvProxy # Config!NotSet
             proxy == IF free THEN EnvProxy ELSE Config!Merged(file)["proxy"]
  <2>1. port \in Nat /\ proxy \in Nat
    BY <1>1, EnvTyped DEF Config!Fields
  <2>2. Config!Effective(file) = [Config!Merged(file) EXCEPT !["port"] = port, !["proxy"] = proxy]
    BY <1>1 DEF Config!Effective, Config!Fields
  <2> HIDE DEF port, proxy
  <2>. QED BY <1>1, <2>1, <2>2 DEF Config!Fields
<1>. QED BY <1>1, <1>2

\* A file that was saved is no broken one, and is read as EffectiveTyped says.
LEMMA FileTyped ==
    ASSUME NEW file \in [Config!Fields -> Values0],
           \A f \in Config!Fields : file[f] # -2
    PROVE  /\ file # Config!Broken
           /\ Config!Effective(file) \in [Config!Fields -> Nat]
           /\ Config!Effective(file)["key"] =
                  IF file["key"] # Config!NotSet THEN file["key"] ELSE 0
<1>1. file # Config!Broken
  <2>1. file["key"] # -2 /\ Config!Broken["key"] = -2
    BY DEF Config!Fields, Config!Broken
  <2>. QED BY <2>1
<1>. QED BY <1>1, EffectiveTyped

\* The file that is there, in every state of the invariant.
LEMMA LocalTyped ==
    ASSUME Config!SettingsInv
    PROVE  /\ x1 \in [Config!Fields -> Values0]
           /\ x1 = Config!Broken \/ \A f \in Config!Fields : x1[f] # -2
           /\ Config!Effective(x1) \in [Config!Fields -> Nat]
           /\ Config!Effective(x1)["key"] \in Config!Keys
<1>1. x1 \in [Config!Fields -> Values0]
  BY DEF Config!SettingsInv, Config!TypeOK, Values0
<1>2. ASSUME x1 # Config!Broken, NEW f \in Config!Fields PROVE x1[f] # -2
  BY <1>2 DEF Config!SettingsInv, Config!TypeOK, Config!FileInForce, Config!NotSet
<1>3. x1 # Config!Broken => x1["key"] \in {Config!NotSet} \cup Config!Keys
  BY DEF Config!SettingsInv, Config!KeysKnown
<1>. QED BY <1>1, <1>2, <1>3, EffectiveTyped DEF Config!Keys

\* The part of the invariant that says nothing of what a request took away.
FilesInv ==
    /\ Config!TypeOK /\ Config!KeysKnown /\ Config!FileInForce /\ Config!KeySeen
    /\ Config!VersionInForce

LEMMA SettingsStart == Config!Init => Config!SettingsInv
<1> SUFFICES ASSUME Config!Init PROVE Config!SettingsInv
  OBVIOUS
<1> DEFINE first == Config!FirstLocal
<1>1. /\ first \in [Config!Fields -> Values0]
      /\ first \in [Config!Fields -> {-2, Config!NotSet, 0, 1, 2, Config!Unfit}]
      /\ first \in [Config!Fields -> {Config!NotSet} \cup Nat]
      /\ \A f \in Config!Fields : first[f] # -2
      /\ first["key"] = 1
  BY DEF Config!FirstLocal, Config!Fields, Config!NotSet, Config!Unfit, Values0
<1>2. /\ first # Config!Broken
      /\ Config!Effective(first) \in [Config!Fields -> Nat]
      /\ Config!Effective(first)["key"] = 1
  BY <1>1, FileTyped DEF Config!NotSet
<1> HIDE DEF first
<1>3. /\ x1 = first /\ x2 = Config!Effective(first) /\ x11 = first
      /\ x3 = 1 /\ x4 = 0 /\ x5 = 1 /\ x6 = 1 /\ x10 = 0
      /\ x7 = [p \in Posts |-> Config!Idle] /\ x8 = [c \in Checks |-> Config!NoCheck]
      /\ x9 = FALSE /\ x12 = FALSE /\ x13 = FALSE /\ x14 = FALSE
  BY DEF Config!Init, first
<1>4. Config!TypeOK
  <2>1. x7 \in [Posts -> [key : {Config!NotSet} \cup Nat]]
    BY <1>3 DEF Config!Idle
  <2>2. x8 \in [Checks -> [saw : {Config!NotSet} \cup Nat, got : {Config!NotSet} \cup Nat]]
    BY <1>3 DEF Config!NoCheck
  <2>3. {x3, x4, x5, x6, x10} \subseteq Nat /\ {x9, x12, x13, x14} \subseteq BOOLEAN
    <3>1. x3 = 1 /\ x4 = 0 /\ x5 = 1 /\ x6 = 1 /\ x10 = 0
      BY <1>3
    <3>2. x9 = FALSE /\ x12 = FALSE /\ x13 = FALSE /\ x14 = FALSE
      BY <1>3
    <3>3. {x3, x4, x5, x6, x10} \subseteq Nat
      BY <3>1
    <3>4. {x9, x12, x13, x14} \subseteq BOOLEAN
      BY <3>2
    <3>. QED BY <3>3, <3>4
  <2>4. x1 \in [Config!Fields -> {-2, Config!NotSet, 0, 1, 2, Config!Unfit}]
    BY <1>1, <1>3
  <2>. QED BY <1>1, <1>2, <1>3, <2>1, <2>2, <2>3, <2>4 DEF Config!TypeOK
<1>5. Config!KeysKnown
  BY <1>1, <1>2, <1>3 DEF Config!KeysKnown, Config!Keys, Config!Idle
<1>6. Config!KeySeen
  BY <1>3 DEF Config!KeySeen, Config!Reading
<1>. QED BY <1>3, <1>4, <1>5, <1>6
         DEF Config!SettingsInv, Config!FileInForce, Config!KeyStays, Config!VersionInForce

\* A value is written into the file, and into what was saved, and nothing else.
LEMMA PatchedTyped ==
    ASSUME NEW S, NEW file \in [Config!Fields -> S], NEW f \in Config!Fields, NEW v \in S
    PROVE  /\ Config!Patched(file, Config!Only(f, v)) \in [Config!Fields -> S]
           /\ \A g \in Config!Fields :
                Config!Patched(file, Config!Only(f, v))[g] = IF g = f THEN v ELSE file[g]
  BY DEF Config!Patched, Config!Only

\* A save keeps all that is not about what a request took away.
LEMMA SaveKept ==
    ASSUME Config!SettingsInv, NEW p \in Posts, NEW f \in Config!Fields,
           NEW v \in {0, 1, 2, Config!Unfit}, f = "key" => v \in Config!Keys,
           Config!Save(p, Config!Only(f, v)), x12' \in BOOLEAN
    PROVE  /\ FilesInv' /\ (x13 => x13')
           /\ f = "key" => x2'["key"] \in {x2["key"], v}
<1> DEFINE file == Config!Patched(x1, Config!Only(f, v))
<1>0. /\ x7' = [x7 EXCEPT ![p] = Config!Idle]
      /\ UNCHANGED <<x10, x3, x4, x6, x8, x9>>
  BY DEF Config!Save
<1>1. /\ x7' \in [Posts -> [key : {Config!NotSet} \cup Nat]]
      /\ x7'[p] = Config!Idle
      /\ \A q \in Posts \ {p} : x7'[q] = x7[q]
      /\ \A q \in Posts : x7'[q].key \in {Config!NotSet} \cup Config!Keys
  BY <1>0 DEF Config!SettingsInv, Config!TypeOK, Config!KeysKnown, Config!Idle, Config!NotSet
<1>2. CASE x1 = Config!Broken
  <2>1. UNCHANGED <<x1, x2, x5, x14, x11, x13>>
    BY <1>2 DEF Config!Save
  <2>2. Config!TypeOK'
    BY <1>0, <1>1, <2>1 DEF Config!SettingsInv, Config!TypeOK
  <2>3. Config!KeysKnown' /\ Config!FileInForce' /\ Config!VersionInForce'
    BY <1>0, <1>1, <1>2, <2>1
       DEF Config!SettingsInv, Config!KeysKnown, Config!FileInForce, Config!VersionInForce
  <2>4. Config!KeySeen'
    BY <1>1, <2>1 DEF Config!SettingsInv, Config!KeySeen, Config!Reading
  <2>. QED BY <2>1, <2>2, <2>3, <2>4 DEF FilesInv
<1>3. CASE x1 # Config!Broken
  <2>1. /\ x1' = file
        /\ Config!Reload(file)
        /\ x11' = Config!Patched(x11, Config!Only(f, v))
        /\ x13' = (x13 \/ \E q \in Posts \ {p} :
                             Config!Reading(q) /\ x7[q].key # x2'["key"])
    BY <1>3 DEF Config!Save, Config!Patched
  <2>2. x1 = x11
    BY <1>3 DEF Config!SettingsInv, Config!FileInForce
  <2>3. /\ file \in [Config!Fields -> Values0]
        /\ \A g \in Config!Fields : file[g] = IF g = f THEN v ELSE x1[g]
    <3>1. x1 \in [Config!Fields -> Values0] /\ v \in Values0
      BY LocalTyped DEF Values0
    <3>2. file \in [Config!Fields -> Values0]
      BY <3>1, PatchedTyped
    <3>3. \A g \in Config!Fields : file[g] = IF g = f THEN v ELSE x1[g]
      BY DEF Config!Patched, Config!Only
    <3>. QED BY <3>2, <3>3
  <2>4. /\ x1 \in [Config!Fields -> {Config!NotSet} \cup Nat]
        /\ v \in {Config!NotSet} \cup Nat
    BY <2>2 DEF Config!SettingsInv, Config!TypeOK, Config!Unfit
  <2>5. file \in [Config!Fields -> {Config!NotSet} \cup Nat]
    BY <2>4, PatchedTyped
  <2>6. \A g \in Config!Fields : file[g] # -2
    BY <2>5 DEF Config!NotSet
  <2>7. /\ file # Config!Broken
        /\ Config!Effective(file) \in [Config!Fields -> Nat]
        /\ Config!Effective(file)["key"] =
               IF file["key"] # Config!NotSet THEN file["key"] ELSE 0
    BY <2>3, <2>6, FileTyped
  <2>8. file["key"] \in {Config!NotSet} \cup Config!Keys
    BY <1>3, <2>3 DEF Config!SettingsInv, Config!KeysKnown, Config!Fields
  <2>9. Config!Effective(file)["key"] \in Config!Keys
    BY <2>7, <2>8 DEF Config!Keys
  <2>10. x11' = file
    BY <2>1, <2>2
  <2>11. file \in [Config!Fields -> {-2, Config!NotSet, 0, 1, 2, Config!Unfit}]
    BY <2>3 DEF Values0
  <2> HIDE DEF file
  <2>12. \/ x2' = Config!Effective(file) /\ x5' = x3 /\ x14' = TRUE
         \/ ~Config!Parses(Config!Effective(file)) /\ UNCHANGED <<x2, x5, x14>>
    BY <2>1 DEF Config!Reload
  <2>13. Config!Parses(Config!Effective(file)) => x2' = Config!Effective(file)
    BY <2>12
  <2>14. /\ x2' \in [Config!Fields -> Nat] /\ x2'["key"] \in Config!Keys
         /\ x5' \in Nat /\ x14' \in BOOLEAN /\ x13' \in BOOLEAN
    BY <2>1, <2>7, <2>9, <2>12 DEF Config!SettingsInv, Config!TypeOK, Config!KeysKnown
  <2>15. Config!TypeOK'
    BY <1>0, <1>1, <2>1, <2>5, <2>10, <2>11, <2>14 DEF Config!SettingsInv, Config!TypeOK
  <2>16. Config!KeysKnown'
    BY <1>1, <2>1, <2>8, <2>14 DEF Config!KeysKnown
  <2>17. Config!FileInForce'
    BY <2>1, <2>10, <2>13 DEF Config!FileInForce
  <2>18. Config!KeySeen'
    BY <1>1, <2>1 DEF Config!KeySeen, Config!Reading
  <2>19. Config!VersionInForce'
    BY <1>0, <2>12 DEF Config!SettingsInv, Config!VersionInForce
  <2>20. f = "key" => x2'["key"] \in {x2["key"], v}
    BY <2>3, <2>7, <2>12 DEF Config!Fields, Config!NotSet, Config!Unfit
  <2>. QED BY <2>1, <2>15, <2>16, <2>17, <2>18, <2>19, <2>20 DEF FilesInv
<1>. QED BY <1>2, <1>3

\* Whoever waits, the key it saw is one a request may set.
LEMMA KeyOfReader ==
    ASSUME Config!SettingsInv, NEW p \in Posts, Config!Reading(p)
    PROVE  x7[p].key \in Config!Keys
<1>1. x7[p] \in [key : {Config!NotSet} \cup Nat] /\ x7[p] # [key |-> Config!NotSet]
  BY DEF Config!SettingsInv, Config!TypeOK, Config!Reading, Config!Idle
<1>2. x7[p].key # Config!NotSet
  BY <1>1
<1>. QED BY <1>2 DEF Config!SettingsInv, Config!KeysKnown

\* A remote request that takes a key away saw none, so the key had changed.
LEMMA SaveKeyKept ==
    ASSUME Config!SettingsInv, NEW p \in Posts, Config!SaveKey(p)
    PROVE  Config!SettingsInv'
<1>1. PICK remote \in BOOLEAN, v \in {0, 2, x7[p].key} :
         /\ v = 0 => Config!MayClear(p, remote)
         /\ Config!Save(p, Config!Only("key", v))
         /\ x12' = (x12 \/ (remote /\ x2["key"] # 0 /\ x2'["key"] = 0))
  BY DEF Config!SaveKey
<1>2. x7[p].key \in Config!Keys /\ Config!Reading(p)
  BY KeyOfReader DEF Config!SaveKey
<1>3. v \in {0, 1, 2, Config!Unfit} /\ v \in Config!Keys
  BY <1>1, <1>2 DEF Config!Keys
<1>4. x12' \in BOOLEAN
  BY <1>1
<1>5. /\ FilesInv' /\ (x13 => x13')
      /\ x2'["key"] \in {x2["key"], v}
  BY <1>1, <1>3, <1>4, SaveKept DEF Config!Fields
<1>6. Config!KeyStays'
  <2> SUFFICES ASSUME x12' PROVE x13'
    BY DEF Config!KeyStays
  <2>1. CASE x12
    BY <1>5, <2>1 DEF Config!SettingsInv, Config!KeyStays
  <2>2. CASE remote /\ x2["key"] # 0 /\ x2'["key"] = 0
    <3>1. x7[p].key = 0
      BY <1>1, <1>5, <2>2 DEF Config!MayClear
    <3>2. x13
      BY <1>2, <2>2, <3>1 DEF Config!SettingsInv, Config!KeySeen
    <3>. QED BY <1>5, <3>2
  <2>. QED BY <1>1, <2>1, <2>2
<1>. QED BY <1>5, <1>6 DEF Config!SettingsInv, FilesInv

\* The other settings have nothing to do with the key.
LEMMA SaveOtherKept ==
    ASSUME Config!SettingsInv, NEW p \in Posts,
           NEW f \in Config!Fields \ {"key"}, NEW v \in {0, 1, 2, Config!Unfit},
           Config!Save(p, Config!Only(f, v)), x12' = x12
    PROVE  Config!SettingsInv'
<1>1. x12' \in BOOLEAN
  BY DEF Config!SettingsInv, Config!TypeOK
<1>2. FilesInv' /\ (x13 => x13')
  BY <1>1, SaveKept
<1>3. Config!KeyStays'
  BY <1>2 DEF Config!SettingsInv, Config!KeyStays
<1>. QED BY <1>2, <1>3 DEF Config!SettingsInv, FilesInv

LEMMA SaveSectionsKept ==
    ASSUME Config!SettingsInv, NEW p \in Posts,
           Config!SaveGeneral(p) \/ Config!SaveRotation(p) \/ Config!SaveQuota(p)
    PROVE  Config!SettingsInv'
<1>1. /\ x12' = x12
      /\ \E f \in Config!Fields \ {"key"}, v \in {0, 1, 2, Config!Unfit} :
            Config!Save(p, Config!Only(f, v))
  <2>1. CASE Config!SaveGeneral(p)
    BY <2>1 DEF Config!SaveGeneral, Config!Fields
  <2>2. CASE Config!SaveRotation(p)
    BY <2>2 DEF Config!SaveRotation, Config!Fields
  <2>3. CASE Config!SaveQuota(p)
    BY <2>3 DEF Config!SaveQuota, Config!Fields
  <2>. QED BY <2>1, <2>2, <2>3
<1>. QED BY <1>1, SaveOtherKept

\* A start, or a full update that succeeded, reads the files again.
LEMMA ReadAgain ==
    ASSUME Config!SettingsInv, Config!Parses(Config!Effective(x1)),
           x1' = x1, x11' = x11, x2' = Config!Effective(x1)
    PROVE  /\ x2' \in [Config!Fields -> Nat]
           /\ x2'["key"] \in Config!Keys
           /\ Config!FileInForce'
  BY LocalTyped DEF Config!SettingsInv, Config!FileInForce

LEMMA SettingsOthersKept ==
    ASSUME Config!SettingsInv, Config!Next,
           ~\E p \in Posts : Config!SaveKey(p) \/ Config!SaveGeneral(p)
                             \/ Config!SaveRotation(p) \/ Config!SaveQuota(p)
    PROVE  Config!SettingsInv'
<1> USE DEF Config!SettingsInv, Config!fileVars, Config!versionVars
<1>1. ASSUME NEW p \in Posts, Config!PostArrives(p) PROVE Config!SettingsInv'
  <2> USE <1>1 DEF Config!PostArrives
  <2>1. Config!TypeOK'
    <3>1. x2["key"] \in Nat /\ x10 \in Nat /\ x10' = x10 + 1
      BY DEF Config!TypeOK, Config!Fields
    <3>2. x7' \in [Posts -> [key : {Config!NotSet} \cup Nat]]
      BY <3>1 DEF Config!TypeOK
    <3>. QED BY <3>1, <3>2 DEF Config!TypeOK
  <2>2. Config!KeysKnown'
    BY DEF Config!KeysKnown, Config!TypeOK
  <2>3. Config!KeySeen'
    BY DEF Config!KeySeen, Config!Reading, Config!TypeOK
  <2>4. Config!FileInForce' /\ Config!KeyStays' /\ Config!VersionInForce'
    BY DEF Config!FileInForce, Config!KeyStays, Config!VersionInForce
  <2>. QED BY <2>1, <2>2, <2>3, <2>4
<1>2. ASSUME NEW p \in Posts, Config!Refused(p) PROVE Config!SettingsInv'
  <2> USE <1>2 DEF Config!Refused
  <2>1. Config!TypeOK'
    BY DEF Config!TypeOK, Config!Idle
  <2>2. Config!KeysKnown'
    BY DEF Config!KeysKnown, Config!TypeOK, Config!Idle
  <2>3. Config!KeySeen'
    BY DEF Config!KeySeen, Config!Reading, Config!TypeOK
  <2>4. Config!FileInForce' /\ Config!KeyStays' /\ Config!VersionInForce'
    BY DEF Config!FileInForce, Config!KeyStays, Config!VersionInForce
  <2>. QED BY <2>1, <2>2, <2>3, <2>4
<1>3. CASE Config!Garbled
  <2> USE <1>3 DEF Config!Garbled
  <2>1. Config!TypeOK'
    BY DEF Config!TypeOK, Config!Broken
  <2>2. Config!KeysKnown' /\ Config!FileInForce'
    BY DEF Config!KeysKnown, Config!FileInForce
  <2>3. Config!KeySeen' /\ Config!KeyStays' /\ Config!VersionInForce'
    BY DEF Config!KeySeen, Config!Reading, Config!KeyStays, Config!VersionInForce
  <2>. QED BY <2>1, <2>2, <2>3
<1>4. CASE Config!Restarts
  <2> USE <1>4 DEF Config!Restarts
  <2>1. /\ x1' = x1 /\ x11' = x11 /\ x2' = Config!Effective(x1) /\ x5' = x3 /\ x14' = TRUE
        /\ Config!Parses(Config!Effective(x1))
    BY DEF Config!Reload
  <2>2. /\ x2' \in [Config!Fields -> Nat] /\ x2'["key"] \in Config!Keys
        /\ Config!FileInForce'
    BY <2>1, ReadAgain
  <2>3. Config!TypeOK'
    BY <2>1, <2>2 DEF Config!TypeOK, Config!Idle, Config!NoCheck
  <2>4. Config!KeysKnown'
    BY <2>1, <2>2 DEF Config!KeysKnown, Config!Idle
  <2>5. Config!KeySeen' /\ Config!KeyStays' /\ Config!VersionInForce'
    BY <2>1 DEF Config!KeySeen, Config!Reading, Config!KeyStays, Config!VersionInForce
  <2>. QED BY <2>2, <2>3, <2>4, <2>5
<1>5. CASE Config!Published
  BY <1>5 DEF Config!Published, Config!TypeOK, Config!KeysKnown, Config!FileInForce,
              Config!KeySeen, Config!Reading, Config!KeyStays, Config!VersionInForce
<1>6. ASSUME NEW c \in Checks, Config!CheckBegins(c) PROVE Config!SettingsInv'
  <2> USE <1>6 DEF Config!CheckBegins
  <2>1. Config!TypeOK'
    BY DEF Config!TypeOK
  <2>. QED BY <2>1 DEF Config!KeysKnown, Config!FileInForce,
              Config!KeySeen, Config!Reading, Config!KeyStays, Config!VersionInForce
<1>7. ASSUME NEW c \in Checks, Config!Served(c) PROVE Config!SettingsInv'
  <2> USE <1>7 DEF Config!Served
  <2>1. Config!TypeOK'
    <3>1. x6 \in Nat
      BY DEF Config!TypeOK
    <3>2. x8' \in [Checks -> [saw : {Config!NotSet} \cup Nat, got : {Config!NotSet} \cup Nat]]
      BY <3>1 DEF Config!TypeOK
    <3>. QED BY <3>2 DEF Config!TypeOK
  <2>. QED BY <2>1 DEF Config!KeysKnown, Config!FileInForce,
              Config!KeySeen, Config!Reading, Config!KeyStays, Config!VersionInForce
<1>8. ASSUME NEW c \in Checks, Config!CheckFails(c) PROVE Config!SettingsInv'
  <2> USE <1>8 DEF Config!CheckFails
  <2>1. Config!TypeOK'
    BY DEF Config!TypeOK, Config!NoCheck
  <2>. QED BY <2>1 DEF Config!KeysKnown, Config!FileInForce,
              Config!KeySeen, Config!Reading, Config!KeyStays, Config!VersionInForce
<1>9. ASSUME NEW c \in Checks, Config!CheckEnds(c) PROVE Config!SettingsInv'
  <2> USE <1>9 DEF Config!CheckEnds
  <2>1. \/ UNCHANGED <<x4, x5, x9, x14>>
        \/ x8[c].got \in Nat /\ x4' = x8[c].got /\ x5' = x8[c].got /\ x14' = FALSE
           /\ x9' \in BOOLEAN
    BY DEF Config!TypeOK, Config!Applied, Config!FullUpdateTriggered
  <2>2. Config!TypeOK'
    BY <2>1 DEF Config!TypeOK, Config!NoCheck
  <2>3. Config!VersionInForce'
    BY <2>1 DEF Config!VersionInForce
  <2>. QED BY <2>2, <2>3 DEF Config!KeysKnown, Config!FileInForce,
              Config!KeySeen, Config!Reading, Config!KeyStays
<1>10. CASE Config!ChildDone
  <2> USE <1>10 DEF Config!ChildDone
  <2>1. \/ /\ Config!Parses(Config!Effective(x1))
           /\ x2' = Config!Effective(x1) /\ x5' = x4 /\ x14' = TRUE
        \/ UNCHANGED <<x2, x5, x14>>
    OBVIOUS
  <2>2. /\ x2' \in [Config!Fields -> Nat] /\ x2'["key"] \in Config!Keys
        /\ Config!FileInForce'
    <3>1. CASE Config!Parses(Config!Effective(x1)) /\ x2' = Config!Effective(x1)
      BY <3>1, ReadAgain
    <3>2. CASE x2' = x2
      BY <3>2 DEF Config!TypeOK, Config!KeysKnown, Config!FileInForce
    <3>. QED BY <2>1, <3>1, <3>2
  <2>3. Config!TypeOK'
    BY <2>1, <2>2 DEF Config!TypeOK
  <2>4. Config!KeysKnown'
    BY <2>2 DEF Config!KeysKnown
  <2>5. Config!KeySeen' /\ Config!KeyStays' /\ Config!VersionInForce'
    BY <2>1 DEF Config!KeySeen, Config!Reading, Config!KeyStays, Config!VersionInForce
  <2>. QED BY <2>2, <2>3, <2>4, <2>5
<1>11. CASE Config!ChildFails
  BY <1>11 DEF Config!ChildFails, Config!TypeOK, Config!KeysKnown, Config!FileInForce,
               Config!KeySeen, Config!Reading, Config!KeyStays, Config!VersionInForce
<1>. QED BY <1>1, <1>2, <1>3, <1>4, <1>5, <1>6, <1>7, <1>8, <1>9, <1>10, <1>11 DEF Config!Next

LEMMA SettingsStep ==
    ASSUME Config!SettingsInv, Config!Next \/ UNCHANGED SettingVars
    PROVE  Config!SettingsInv'
<1>1. CASE Config!Next
  BY <1>1, SaveKeyKept, SaveSectionsKept, SettingsOthersKept
<1>2. CASE UNCHANGED SettingVars
  BY <1>2 DEF SettingVars, Config!SettingsInv, Config!TypeOK, Config!KeysKnown, Config!FileInForce,
              Config!KeySeen, Config!Reading, Config!KeyStays, Config!VersionInForce
<1>. QED BY <1>1, <1>2

\* What is in force of a file that parses: the setting that was saved, under
\* what the environment says.
LEMMA SettingsSafe ==
    ASSUME Config!SettingsInv
    PROVE  Config!TypeOK /\ Config!SavedIsInForce /\ Config!KeyStays /\ Config!VersionInForce
<1>1. Config!SavedIsInForce
  <2> SUFFICES ASSUME Config!Parses(Config!Effective(x1)), x1 # Config!Broken
               PROVE  /\ x1 = x11
                      /\ \A f \in Config!Fields :
                           x2[f] = IF f = "port" /\ EnvPort # Config!NotSet THEN EnvPort
                                   ELSE IF x11[f] # Config!NotSet THEN x11[f]
                                   ELSE IF f = "proxy" /\ EnvProxy # Config!NotSet
                                        THEN EnvProxy ELSE 0
    BY DEF Config!SavedIsInForce
  <2>1. x1 = x11 /\ x2 = Config!Effective(x1)
    BY DEF Config!SettingsInv, Config!FileInForce
  <2>. QED BY <2>1 DEF Config!Effective, Config!Merged, Config!Fields
<1>. QED BY <1>1 DEF Config!SettingsInv

-----------------------------------------------------------------------------
(* Conversations *)

TalkVars == <<x1, x2, x3, x4, x5, x6>>

LEMMA TalksStart == Talks!Init => Talks!TalksInv
  BY TalkAssumption
     DEF Talks!Init, Talks!TalksInv, Talks!TalkTyped, Talks!TypeOK, Talks!AnswersTrue,
         Talks!FollowUps, Talks!Remembered, Talks!LinksKnown, Talks!EntriesTrue, Talks!ChainKept,
         Talks!Nothing, Talks!Idle, Talks!Handler, Talks!None, Talks!NoTurn

LEMMA TalkTypesKept ==
    ASSUME Talks!TalksInv, Talks!Next PROVE Talks!TalkTyped'
<1> USE TalkAssumption DEF Talks!TalksInv, Talks!TalkTyped, Talks!TypeOK, Talks!EntriesTrue
<1>0. \A n \in DOMAIN x1 : x1[n].conv \in Nat
  <2> SUFFICES ASSUME NEW n \in DOMAIN x1 PROVE x1[n].conv \in Nat
    OBVIOUS
  <2>1. x3[n] \in Talks!Response /\ x1[n].conv = x3[n].conv
    OBVIOUS
  <2>. QED BY <2>1 DEF Talks!Response
<1>1. CASE Talks!Cleanup
  BY <1>1 DEF Talks!Cleanup, Talks!Keep
<1>2. CASE Talks!Restart
  BY <1>2 DEF Talks!Restart, Talks!Nothing, Talks!Idle, Talks!Handler, Talks!None, Talks!NoTurn
<1>3. CASE Talks!Tick
  BY <1>3 DEF Talks!Tick
<1>4. ASSUME NEW r \in Asks, NEW prev \in 0 .. Len(x3), Talks!Ask(r, prev) PROVE Talks!TalkTyped'
  <2>1. PICK q \in Talks!Handler : x2' = [x2 EXCEPT ![r] = q]
    <3> DEFINE known == Talks!Live(prev)
               conv == IF known THEN x1[prev].conv ELSE x4 + 1
               turn == IF known THEN x1[prev].turn ELSE Talks!NoTurn
               timely == prev \in DOMAIN x6 /\ x5 - x6[prev] <= TTL
    <3>1. PICK a \in TalkAccounts :
             x2' = [x2 EXCEPT ![r] =
                [at |-> "sent", prev |-> prev, account |-> a, first |-> a, conv |-> conv,
                 turn |-> turn, got |-> Talks!NoTurn, id |-> Talks!None, again |-> FALSE,
                 timely |-> timely]]
      BY <1>4 DEF Talks!Ask, Talks!Chosen
    <3>2. conv \in Nat /\ turn \in Nat
      BY <1>0 DEF Talks!Live, Talks!NoTurn
    <3>3. timely \in BOOLEAN
      OBVIOUS
    <3> HIDE DEF known, conv, turn, timely
    <3>4. [at |-> "sent", prev |-> prev, account |-> a, first |-> a, conv |-> conv,
           turn |-> turn, got |-> Talks!NoTurn, id |-> Talks!None, again |-> FALSE,
           timely |-> timely] \in Talks!Handler
      BY <3>2, <3>3 DEF Talks!Handler, Talks!None, Talks!NoTurn
    <3>. QED BY <3>1, <3>4
  <2>2. DOMAIN x1' \subseteq DOMAIN x1 /\ \A n \in DOMAIN x1' : x1'[n] = x1[n]
    BY <1>4 DEF Talks!Ask, Talks!LookedUp, Talks!Keep
  <2>3. x4' \in 0 .. MaxConvs
    BY <1>4 DEF Talks!Ask
  <2>4. UNCHANGED <<x3, x5, x6>>
    BY <1>4 DEF Talks!Ask
  <2>. QED BY <2>1, <2>2, <2>3, <2>4 DEF Talks!Handler
<1>5. ASSUME NEW r \in Asks, Talks!FailsOver(r) PROVE Talks!TalkTyped'
  <2>1. PICK a \in TalkAccounts : x2' = [x2 EXCEPT ![r] = [x2[r] EXCEPT !.account = a]]
    BY <1>5 DEF Talks!FailsOver
  <2>2. [x2[r] EXCEPT !.account = a] \in Talks!Handler
    BY ZenonT(60) DEF Talks!Handler
  <2>3. x2' \in [Asks -> Talks!Handler]
    BY <2>1, <2>2
  <2>. QED BY <1>5, <2>3 DEF Talks!FailsOver, Talks!Handler
<1>6. ASSUME NEW r \in Asks, Talks!GivesUp(r) PROVE Talks!TalkTyped'
  BY <1>6 DEF Talks!GivesUp, Talks!Handler, Talks!Idle, Talks!None, Talks!NoTurn
<1>7. ASSUME NEW r \in Asks, Talks!Answered(r) PROVE Talks!TalkTyped'
  <2>1. PICK turn \in {Talks!NoTurn, Len(x3) + 1} :
           /\ x3' = Append(x3, [account |-> x2[r].account, conv |-> x2[r].conv, turn |-> turn,
                                prev |-> x2[r].prev, again |-> x2[r].again,
                                timely |-> x2[r].timely])
           /\ x2' = [x2 EXCEPT ![r] = [x2[r] EXCEPT !.at = "answered", !.id = Len(x3) + 1,
                                          !.got = IF x2[r].again THEN @ ELSE turn]]
    BY <1>7 DEF Talks!Answered
  <2>2. x2[r] \in Talks!Handler /\ turn \in Nat
    BY DEF Talks!NoTurn
  <2>3. [account |-> x2[r].account, conv |-> x2[r].conv, turn |-> turn, prev |-> x2[r].prev,
         again |-> x2[r].again, timely |-> x2[r].timely] \in Talks!Response
    BY <2>2 DEF Talks!Handler, Talks!Response
  <2>4. x3' \in Seq(Talks!Response) /\ Len(x3') = Len(x3) + 1
    BY <2>1, <2>3
  <2>5. [x2[r] EXCEPT !.at = "answered", !.id = Len(x3) + 1,
                      !.got = IF x2[r].again THEN @ ELSE turn] \in Talks!Handler
    <3> DEFINE got == IF x2[r].again THEN x2[r].got ELSE turn
    <3>1. got \in Nat
      BY <2>2 DEF Talks!Handler
    <3>2. ASSUME NEW q \in Talks!Handler, NEW id \in Nat, NEW g \in Nat
          PROVE  [q EXCEPT !.at = "answered", !.id = id, !.got = g] \in Talks!Handler
      BY DEF Talks!Handler
    <3>3. Len(x3) + 1 \in Nat
      OBVIOUS
    <3> HIDE DEF got
    <3>4. [x2[r] EXCEPT !.at = "answered", !.id = Len(x3) + 1, !.got = got] \in Talks!Handler
      BY <2>2, <3>1, <3>2, <3>3
    <3>. QED BY <3>4 DEF got
  <2>6. x2' \in [Asks -> Talks!Handler]
    BY <2>1, <2>5
  <2>7. Len(x3') <= MaxResponses /\ UNCHANGED <<x1, x4, x5, x6>>
    BY <1>7, <2>4 DEF Talks!Answered
  <2>. QED BY SMTT(60), <2>4, <2>6, <2>7 DEF Talks!Handler
<1>8. ASSUME NEW r \in Asks, Talks!Ends(r) PROVE Talks!TalkTyped'
  BY <1>8 DEF Talks!Ends, Talks!AnswersTrue, Talks!Recorded, Talks!Handler, Talks!Idle,
              Talks!None, Talks!NoTurn
<1>9. ASSUME NEW r \in Asks, Talks!EndsUnseen(r) PROVE Talks!TalkTyped'
  BY <1>9 DEF Talks!EndsUnseen, Talks!Handler, Talks!Idle, Talks!None, Talks!NoTurn
<1>10. ASSUME NEW r \in Asks, Talks!Empty(r) PROVE Talks!TalkTyped'
  <2>1. PICK a \in TalkAccounts :
           x2' = [x2 EXCEPT ![r] = [x2[r] EXCEPT !.at = "sent", !.account = a,
                                                 !.id = Talks!None, !.again = TRUE]]
    BY <1>10 DEF Talks!Empty
  <2>2. [x2[r] EXCEPT !.at = "sent", !.account = a, !.id = Talks!None, !.again = TRUE]
           \in Talks!Handler
    <3>1. x2[r] \in Talks!Handler /\ Talks!None \in Nat
      BY DEF Talks!None
    <3>. QED BY <3>1 DEF Talks!Handler
  <2>3. x2' \in [Asks -> Talks!Handler]
    BY <2>1, <2>2
  <2>. QED BY <1>10, <2>3 DEF Talks!Empty, Talks!Handler
<1>. QED BY <1>1, <1>2, <1>3, <1>4, <1>5, <1>6, <1>7, <1>8, <1>9, <1>10 DEF Talks!Next

LEMMA AnswersTrueKept ==
    ASSUME Talks!TalksInv, Talks!Next, Talks!TalkTyped' PROVE Talks!AnswersTrue'
<1> USE TalkAssumption DEF Talks!TalksInv, Talks!AnswersTrue, Talks!TalkTyped, Talks!TypeOK
<1>1. CASE Talks!Cleanup
  BY <1>1 DEF Talks!Cleanup, Talks!Keep, Talks!Expired
<1>2. CASE Talks!Restart
  BY <1>2 DEF Talks!Restart, Talks!Nothing, Talks!Idle
<1>3. CASE Talks!Tick
  BY <1>3 DEF Talks!Tick
<1>4. ASSUME NEW r \in Asks, NEW prev \in 0 .. Len(x3), Talks!Ask(r, prev) PROVE Talks!AnswersTrue'
  BY <1>4 DEF Talks!Ask, Talks!Keep, Talks!Live, Talks!Expired, Talks!LookedUp, Talks!Chosen
<1>5. ASSUME NEW r \in Asks, Talks!FailsOver(r) PROVE Talks!AnswersTrue'
  BY <1>5 DEF Talks!FailsOver
<1>6. ASSUME NEW r \in Asks, Talks!GivesUp(r) PROVE Talks!AnswersTrue'
  BY <1>6 DEF Talks!GivesUp, Talks!Idle
<1>7. ASSUME NEW r \in Asks, Talks!Answered(r) PROVE Talks!AnswersTrue'
  BY <1>7 DEF Talks!Answered
<1>8. ASSUME NEW r \in Asks, Talks!Ends(r) PROVE Talks!AnswersTrue'
  BY <1>8 DEF Talks!Ends, Talks!Idle, Talks!Recorded
<1>9. ASSUME NEW r \in Asks, Talks!EndsUnseen(r) PROVE Talks!AnswersTrue'
  BY <1>9 DEF Talks!EndsUnseen, Talks!Idle
<1>10. ASSUME NEW r \in Asks, Talks!Empty(r) PROVE Talks!AnswersTrue'
  BY <1>10 DEF Talks!Empty
<1>. QED BY <1>1, <1>2, <1>3, <1>4, <1>5, <1>6, <1>7, <1>8, <1>9, <1>10 DEF Talks!Next

LEMMA FollowUpsKept ==
    ASSUME Talks!TalksInv, Talks!Next, Talks!TalkTyped' PROVE Talks!FollowUps'
<1> USE TalkAssumption DEF Talks!TalksInv, Talks!FollowUps, Talks!EntriesTrue, Talks!TalkTyped, Talks!TypeOK
<1>1. CASE Talks!Cleanup
  BY <1>1 DEF Talks!Cleanup, Talks!Keep, Talks!Expired
<1>2. CASE Talks!Restart
  BY <1>2 DEF Talks!Restart, Talks!Nothing, Talks!Idle
<1>3. CASE Talks!Tick
  BY <1>3 DEF Talks!Tick
<1>4. ASSUME NEW r \in Asks, NEW prev \in 0 .. Len(x3), Talks!Ask(r, prev) PROVE Talks!FollowUps'
  <2>1. ASSUME NEW q \in Asks, q # r PROVE x2'[q] = x2[q]
    BY <1>4, <2>1 DEF Talks!Ask
  <2> DEFINE conv == IF Talks!Live(prev) THEN x1[prev].conv ELSE x4 + 1
             timely == prev \in DOMAIN x6 /\ x5 - x6[prev] <= TTL
  <2>2. /\ x3' = x3
        /\ x2'[r].prev = prev
        /\ x2'[r].timely => timely
        /\ x2'[r].conv = conv
    <3>1. PICK a, turn : x2' = [x2 EXCEPT ![r] =
                [at |-> "sent", prev |-> prev, account |-> a, first |-> a, conv |-> conv,
                 turn |-> turn, got |-> Talks!NoTurn, id |-> Talks!None, again |-> FALSE,
                 timely |-> timely]]
      BY ZenonT(60), <1>4 DEF Talks!Ask
    <3> HIDE DEF conv, timely
    <3>2. x2'[r] = [at |-> "sent", prev |-> prev, account |-> a, first |-> a, conv |-> conv,
                 turn |-> turn, got |-> Talks!NoTurn, id |-> Talks!None, again |-> FALSE,
                 timely |-> timely]
      BY <3>1
    <3>. QED BY <1>4, <3>2 DEF Talks!Ask
  <2>3. ASSUME x2'[r].timely
        PROVE  prev \in DOMAIN x3 /\ x2'[r].conv = x3[prev].conv
    <3>1. /\ prev \in DOMAIN x6 /\ prev \in DOMAIN x3
          /\ prev \in DOMAIN x1 /\ x1[prev].at = x6[prev]
      BY <2>2, <2>3 DEF Talks!Remembered
    <3>2. Talks!Live(prev)
      BY <2>2, <2>3, <3>1 DEF Talks!Live, Talks!Expired
    <3>. QED BY <2>2, <3>1, <3>2
  <2>. QED BY <2>1, <2>2, <2>3
<1>5. ASSUME NEW r \in Asks, Talks!FailsOver(r) PROVE Talks!FollowUps'
  BY <1>5 DEF Talks!FailsOver
<1>6. ASSUME NEW r \in Asks, Talks!GivesUp(r) PROVE Talks!FollowUps'
  BY <1>6 DEF Talks!GivesUp, Talks!Idle
<1>7. ASSUME NEW r \in Asks, Talks!Answered(r) PROVE Talks!FollowUps'
  BY <1>7 DEF Talks!Answered
<1>8. ASSUME NEW r \in Asks, Talks!Ends(r) PROVE Talks!FollowUps'
  BY <1>8 DEF Talks!Ends, Talks!Idle, Talks!Recorded
<1>9. ASSUME NEW r \in Asks, Talks!EndsUnseen(r) PROVE Talks!FollowUps'
  BY <1>9 DEF Talks!EndsUnseen, Talks!Idle
<1>10. ASSUME NEW r \in Asks, Talks!Empty(r) PROVE Talks!FollowUps'
  BY <1>10 DEF Talks!Empty
<1>. QED BY <1>1, <1>2, <1>3, <1>4, <1>5, <1>6, <1>7, <1>8, <1>9, <1>10 DEF Talks!Next

LEMMA RememberedKept ==
    ASSUME Talks!TalksInv, Talks!Next, Talks!TalkTyped' PROVE Talks!Remembered'
<1> USE TalkAssumption DEF Talks!TalksInv, Talks!Remembered, Talks!TalkTyped, Talks!TypeOK
<1>1. CASE Talks!Cleanup
  BY <1>1 DEF Talks!Cleanup, Talks!Keep, Talks!Expired
<1>2. CASE Talks!Restart
  BY <1>2 DEF Talks!Restart, Talks!Nothing, Talks!Idle
<1>3. CASE Talks!Tick
  BY <1>3 DEF Talks!Tick
<1>4. ASSUME NEW r \in Asks, NEW prev \in 0 .. Len(x3), Talks!Ask(r, prev) PROVE Talks!Remembered'
  BY <1>4 DEF Talks!Ask, Talks!Keep, Talks!Live, Talks!Expired, Talks!LookedUp, Talks!Chosen
<1>5. ASSUME NEW r \in Asks, Talks!FailsOver(r) PROVE Talks!Remembered'
  BY <1>5 DEF Talks!FailsOver
<1>6. ASSUME NEW r \in Asks, Talks!GivesUp(r) PROVE Talks!Remembered'
  BY <1>6 DEF Talks!GivesUp, Talks!Idle
<1>7. ASSUME NEW r \in Asks, Talks!Answered(r) PROVE Talks!Remembered'
  BY <1>7 DEF Talks!Answered
<1>8. ASSUME NEW r \in Asks, Talks!Ends(r) PROVE Talks!Remembered'
  BY <1>8 DEF Talks!Ends, Talks!Idle, Talks!Recorded
<1>9. ASSUME NEW r \in Asks, Talks!EndsUnseen(r) PROVE Talks!Remembered'
  BY <1>9 DEF Talks!EndsUnseen, Talks!Idle
<1>10. ASSUME NEW r \in Asks, Talks!Empty(r) PROVE Talks!Remembered'
  BY <1>10 DEF Talks!Empty
<1>. QED BY <1>1, <1>2, <1>3, <1>4, <1>5, <1>6, <1>7, <1>8, <1>9, <1>10 DEF Talks!Next

LEMMA LinksKnownKept ==
    ASSUME Talks!TalksInv, Talks!Next, Talks!TalkTyped' PROVE Talks!LinksKnown'
<1> USE TalkAssumption DEF Talks!TalksInv, Talks!LinksKnown, Talks!FollowUps, Talks!TalkTyped, Talks!TypeOK
<1>1. CASE Talks!Cleanup
  BY <1>1 DEF Talks!Cleanup, Talks!Keep, Talks!Expired
<1>2. CASE Talks!Restart
  BY <1>2 DEF Talks!Restart, Talks!Nothing, Talks!Idle
<1>3. CASE Talks!Tick
  BY <1>3 DEF Talks!Tick
<1>4. ASSUME NEW r \in Asks, NEW prev \in 0 .. Len(x3), Talks!Ask(r, prev) PROVE Talks!LinksKnown'
  BY <1>4 DEF Talks!Ask, Talks!Keep, Talks!Live, Talks!Expired, Talks!LookedUp, Talks!Chosen
<1>5. ASSUME NEW r \in Asks, Talks!FailsOver(r) PROVE Talks!LinksKnown'
  BY <1>5 DEF Talks!FailsOver
<1>6. ASSUME NEW r \in Asks, Talks!GivesUp(r) PROVE Talks!LinksKnown'
  BY <1>6 DEF Talks!GivesUp, Talks!Idle
<1>7. ASSUME NEW r \in Asks, Talks!Answered(r) PROVE Talks!LinksKnown'
  BY <1>7 DEF Talks!Answered
<1>8. ASSUME NEW r \in Asks, Talks!Ends(r) PROVE Talks!LinksKnown'
  BY <1>8 DEF Talks!Ends, Talks!Idle, Talks!Recorded
<1>9. ASSUME NEW r \in Asks, Talks!EndsUnseen(r) PROVE Talks!LinksKnown'
  BY <1>9 DEF Talks!EndsUnseen, Talks!Idle
<1>10. ASSUME NEW r \in Asks, Talks!Empty(r) PROVE Talks!LinksKnown'
  BY <1>10 DEF Talks!Empty
<1>. QED BY <1>1, <1>2, <1>3, <1>4, <1>5, <1>6, <1>7, <1>8, <1>9, <1>10 DEF Talks!Next

LEMMA EntriesTrueKept ==
    ASSUME Talks!TalksInv, Talks!Next, Talks!TalkTyped' PROVE Talks!EntriesTrue'
<1> USE TalkAssumption DEF Talks!TalksInv, Talks!EntriesTrue, Talks!AnswersTrue, Talks!TalkTyped, Talks!TypeOK
<1>1. CASE Talks!Cleanup
  BY <1>1 DEF Talks!Cleanup, Talks!Keep, Talks!Expired
<1>2. CASE Talks!Restart
  BY <1>2 DEF Talks!Restart, Talks!Nothing, Talks!Idle
<1>3. CASE Talks!Tick
  BY <1>3 DEF Talks!Tick
<1>4. ASSUME NEW r \in Asks, NEW prev \in 0 .. Len(x3), Talks!Ask(r, prev) PROVE Talks!EntriesTrue'
  BY <1>4 DEF Talks!Ask, Talks!Keep, Talks!Live, Talks!Expired, Talks!LookedUp, Talks!Chosen
<1>5. ASSUME NEW r \in Asks, Talks!FailsOver(r) PROVE Talks!EntriesTrue'
  BY <1>5 DEF Talks!FailsOver
<1>6. ASSUME NEW r \in Asks, Talks!GivesUp(r) PROVE Talks!EntriesTrue'
  BY <1>6 DEF Talks!GivesUp, Talks!Idle
<1>7. ASSUME NEW r \in Asks, Talks!Answered(r) PROVE Talks!EntriesTrue'
  BY <1>7 DEF Talks!Answered
<1>8. ASSUME NEW r \in Asks, Talks!Ends(r) PROVE Talks!EntriesTrue'
  BY <1>8 DEF Talks!Ends, Talks!Idle, Talks!Recorded
<1>9. ASSUME NEW r \in Asks, Talks!EndsUnseen(r) PROVE Talks!EntriesTrue'
  BY <1>9 DEF Talks!EndsUnseen, Talks!Idle
<1>10. ASSUME NEW r \in Asks, Talks!Empty(r) PROVE Talks!EntriesTrue'
  BY <1>10 DEF Talks!Empty
<1>. QED BY <1>1, <1>2, <1>3, <1>4, <1>5, <1>6, <1>7, <1>8, <1>9, <1>10 DEF Talks!Next

LEMMA ChainKeptKept ==
    ASSUME Talks!TalksInv, Talks!Next, Talks!TalkTyped' PROVE Talks!ChainKept'
<1> USE TalkAssumption DEF Talks!TalksInv, Talks!ChainKept, Talks!LinksKnown, Talks!FollowUps, Talks!TalkTyped, Talks!TypeOK
<1>1. CASE Talks!Cleanup
  BY <1>1 DEF Talks!Cleanup, Talks!Keep, Talks!Expired
<1>2. CASE Talks!Restart
  BY <1>2 DEF Talks!Restart, Talks!Nothing, Talks!Idle
<1>3. CASE Talks!Tick
  BY <1>3 DEF Talks!Tick
<1>4. ASSUME NEW r \in Asks, NEW prev \in 0 .. Len(x3), Talks!Ask(r, prev) PROVE Talks!ChainKept'
  BY <1>4 DEF Talks!Ask, Talks!Keep, Talks!Live, Talks!Expired, Talks!LookedUp, Talks!Chosen
<1>5. ASSUME NEW r \in Asks, Talks!FailsOver(r) PROVE Talks!ChainKept'
  BY <1>5 DEF Talks!FailsOver
<1>6. ASSUME NEW r \in Asks, Talks!GivesUp(r) PROVE Talks!ChainKept'
  BY <1>6 DEF Talks!GivesUp, Talks!Idle
<1>7. ASSUME NEW r \in Asks, Talks!Answered(r) PROVE Talks!ChainKept'
  BY <1>7 DEF Talks!Answered
<1>8. ASSUME NEW r \in Asks, Talks!Ends(r) PROVE Talks!ChainKept'
  BY <1>8 DEF Talks!Ends, Talks!Idle, Talks!Recorded
<1>9. ASSUME NEW r \in Asks, Talks!EndsUnseen(r) PROVE Talks!ChainKept'
  BY <1>9 DEF Talks!EndsUnseen, Talks!Idle
<1>10. ASSUME NEW r \in Asks, Talks!Empty(r) PROVE Talks!ChainKept'
  BY <1>10 DEF Talks!Empty
<1>. QED BY <1>1, <1>2, <1>3, <1>4, <1>5, <1>6, <1>7, <1>8, <1>9, <1>10 DEF Talks!Next

LEMMA TalksStep ==
    ASSUME Talks!TalksInv, Talks!Next \/ UNCHANGED TalkVars PROVE Talks!TalksInv'
<1>1. CASE Talks!Next
  <2>1. Talks!TalkTyped'
    BY <1>1, TalkTypesKept
  <2>. QED BY <1>1, <2>1, AnswersTrueKept, FollowUpsKept, RememberedKept, LinksKnownKept,
              EntriesTrueKept, ChainKeptKept DEF Talks!TalksInv
<1>2. CASE UNCHANGED TalkVars
  BY <1>2 DEF TalkVars, Talks!TalksInv, Talks!TalkTyped, Talks!TypeOK, Talks!AnswersTrue,
              Talks!FollowUps, Talks!Remembered, Talks!LinksKnown, Talks!EntriesTrue,
              Talks!ChainKept
<1>. QED BY <1>1, <1>2

-----------------------------------------------------------------------------
(* The cookie jar *)

JarVars == <<x1, x2, x3, x4, x5, x6, x7, x8>>
Jars == [JarAccounts -> Jar!Cookies]

LEMMA NoJarTyped == Jar!NoCookies \in Jar!Cookies /\ Jar!NoJar \in Jars
  BY DEF Jar!NoCookies, Jar!Cookies, Jar!NoJar, Jars

LEMMA IdleTyped == Jar!Idle \in Jar!Save /\ Jar!Idle.phase = "idle"
  BY NoJarTyped DEF Jar!Idle, Jar!Save, Jars

LEMMA JarStart == Jar!Init => Jar!JarInv
<1> SUFFICES ASSUME Jar!Init PROVE Jar!JarInv
  OBVIOUS
<1>1. Jar!JarTyped
  <2>1. x5 \in [Jar!Handles -> Jar!Save] /\ x2 \in Jars
    BY IdleTyped, NoJarTyped DEF Jar!Init
  <2>2. x6 \in Jar!File
    BY DEF Jar!Init, Jar!File
  <2>3. x4 \in 0 .. MaxTime
    BY JarAssumption DEF Jar!Init
  <2>. QED BY <2>1, <2>2, <2>3 DEF Jar!Init, Jar!JarTyped, Jars
<1>2. Jar!UnderWay = {}
  BY IdleTyped DEF Jar!Init, Jar!UnderWay
<1>3. Jar!SavesApart /\ Jar!SaveCurrent
  BY <1>2 DEF Jar!Init, Jar!SavesApart, Jar!SaveCurrent
<1>4. Jar!CookiesSurvive
  BY DEF Jar!Init, Jar!CookiesSurvive
<1>. QED BY <1>1, <1>3, <1>4 DEF Jar!JarInv

\* There are more files than saves, so that one is free for the next: fewer
\* than all are open or lead somewhere while there is no temporary one.
LEMMA UnusedFree ==
    ASSUME Jar!JarTyped, x6.tmp = Jar!NoFile
    PROVE  Jar!Unused(x6) \in Jar!Inodes /\ Jar!Unused(x6) # x6.json
<1> DEFINE open == {x5[h].inode : h \in Jar!Handles}
           taken == {x6.tmp, x6.json} \cup open
<1>1. IsFiniteSet(Jar!Handles) /\ Cardinality(Jar!Handles) = MaxSaves
  BY JarAssumption, FS_Interval DEF Jar!Handles
<1>2. IsFiniteSet(open) /\ Cardinality(open) <= MaxSaves
  <2>1. [h \in Jar!Handles |-> x5[h].inode] \in Surjection(Jar!Handles, open)
    BY DEF Surjection
  <2> HIDE DEF open
  <2>. QED BY <1>1, <2>1, FS_Surjection
<1> HIDE DEF open
<1>3. /\ IsFiniteSet({x6.json} \cup open)
      /\ Cardinality({x6.json} \cup open) <= MaxSaves + 1
  <2>1. {x6.json} \cup open = open \cup {x6.json}
    OBVIOUS
  <2>2. Cardinality(open) \in Nat
    BY <1>2, FS_CardinalityType
  <2>3. /\ IsFiniteSet(open \cup {x6.json})
        /\ Cardinality(open \cup {x6.json}) =
              IF x6.json \in open THEN Cardinality(open) ELSE Cardinality(open) + 1
    BY <1>2, FS_AddElement
  <2>. QED BY <1>2, <2>1, <2>2, <2>3, JarAssumption
<1>4. IsFiniteSet(Jar!Inodes) /\ Cardinality(Jar!Inodes) = MaxSaves + 2
  BY JarAssumption, FS_Interval DEF Jar!Inodes
<1>5. \E i \in Jar!Inodes : i \notin taken
  <2> SUFFICES ASSUME Jar!Inodes \subseteq taken PROVE FALSE
    OBVIOUS
  <2>1. Jar!NoFile \notin Jar!Inodes
    BY JarAssumption DEF Jar!NoFile, Jar!Inodes
  <2>2. Jar!Inodes \subseteq {x6.json} \cup open
    BY <2>1
  <2>3. Cardinality(Jar!Inodes) <= Cardinality({x6.json} \cup open)
    BY <1>3, <2>2, FS_Subset
  <2>4. Cardinality({x6.json} \cup open) \in Nat
    BY <1>3, FS_CardinalityType
  <2>. QED BY <1>3, <1>4, <2>3, <2>4, JarAssumption
<1>. QED BY <1>5 DEF Jar!Unused, open

\* open(path.tmp, "w"): the temporary file is there, empty, and not the saved one.
LEMMA OpenedFile ==
    ASSUME Jar!JarTyped, Jar!SaveCurrent
    PROVE  /\ Jar!Opened(x6) \in Jar!File
           /\ Jar!Opened(x6).tmp \in Jar!Inodes
           /\ Jar!Opened(x6).tmp # x6.json
           /\ Jar!Opened(x6).json = x6.json
           /\ Jar!Opened(x6).holds[Jar!Opened(x6).tmp] = Torn
           /\ \A i \in Jar!Inodes : i # Jar!Opened(x6).tmp =>
                Jar!Opened(x6).holds[i] = x6.holds[i]
<1> DEFINE i == IF x6.tmp = Jar!NoFile THEN Jar!Unused(x6) ELSE x6.tmp
<1>1. i \in Jar!Inodes /\ i # x6.json
  BY UnusedFree DEF Jar!JarTyped, Jar!File, Jar!SaveCurrent
<1>2. Jar!Opened(x6) = [x6 EXCEPT !.tmp = i, !.holds[i] = Torn]
  BY DEF Jar!Opened
<1> HIDE DEF i
<1>3. x6 \in Jar!File
  BY DEF Jar!JarTyped
<1> DEFINE f == Jar!Opened(x6)
<1>4. f.holds = [x6.holds EXCEPT ![i] = Torn] /\ f.tmp = i /\ f.json = x6.json
  BY <1>2, <1>3 DEF Jar!File
<1>5. f.holds \in [Jar!Inodes -> [JarAccounts -> Jar!Cookies] \cup {Torn}]
  BY <1>3, <1>4 DEF Jar!File
<1>6. f = [tmp |-> i, json |-> x6.json, holds |-> f.holds]
  BY <1>2, <1>3, <1>4 DEF Jar!File
<1> HIDE DEF f
<1>7. f \in Jar!File
  BY <1>1, <1>3, <1>5, <1>6 DEF Jar!File
<1>. QED BY <1>1, <1>3, <1>4, <1>7 DEF Jar!File, f

\* rename: the temporary file is the saved one, with what it holds.
LEMMA RenamedFile ==
    ASSUME NEW f \in Jar!File, f.tmp \in Jar!Inodes
    PROVE  /\ Jar!Renamed(f) \in Jar!File
           /\ Jar!Renamed(f).json = f.tmp /\ Jar!Renamed(f).tmp = Jar!NoFile
           /\ Jar!Renamed(f).holds[f.tmp] = f.holds[f.tmp]
<1> DEFINE g == [f EXCEPT !.json = f.tmp, !.tmp = Jar!NoFile]
           kept == {g.tmp, g.json} \cup {x5'[h].inode : h \in Jar!Handles}
           holds == [i \in Jar!Inodes |-> IF i \in kept THEN g.holds[i] ELSE Torn]
<1>1. g \in Jar!File /\ g.json = f.tmp /\ g.tmp = Jar!NoFile /\ g.holds = f.holds
  BY DEF Jar!File
<1>2. Jar!Renamed(f) = [g EXCEPT !.holds = holds]
  BY DEF Jar!Renamed, Jar!Forgotten
<1>3. f.tmp \in kept
  BY <1>1
<1> HIDE DEF g, kept
<1>4. holds \in [Jar!Inodes -> Jars \cup {Torn}] /\ holds[f.tmp] = f.holds[f.tmp]
  BY <1>1, <1>3 DEF Jar!File, Jars
<1> HIDE DEF holds
<1>. QED BY <1>1, <1>2, <1>4 DEF Jar!File, Jars

\* A save that begins, when the jar is now what it writes.
LEMMA BeginSaveKept ==
    ASSUME Jar!JarInv, x1, NEW contents \in Jars, Jar!BeginSave(contents), x2' = contents,
           UNCHANGED <<x1, x4, x6, x7>>
    PROVE  Jar!JarInv'
<1>1. PICK h \in Jar!Handles \ Jar!UnderWay :
         /\ x3' = FALSE
         /\ x5' = [g \in Jar!Handles |->
                IF g = h THEN [phase |-> "open", snap |-> contents, inode |-> Jar!NoFile,
                               alone |-> Jar!UnderWay = {}]
                ELSE [x5[g] EXCEPT !.alone = FALSE]]
         /\ x8' = (x8 \/ Jar!UnderWay # {})
  BY DEF Jar!BeginSave
<1>2. Jar!JarTyped /\ Jar!SavesApart /\ Jar!SaveCurrent /\ Jar!CookiesSurvive
  BY DEF Jar!JarInv
<1>3. x5 \in [Jar!Handles -> Jar!Save]
  BY <1>2 DEF Jar!JarTyped
<1>4. /\ x5'[h].phase = "open" /\ x5'[h].snap = contents
      /\ x5'[h].alone = (Jar!UnderWay = {})
      /\ x5'[h] \in Jar!Save
  BY <1>1 DEF Jar!Save, Jars
<1>5. ASSUME NEW g \in Jar!Handles, g # h
      PROVE  /\ x5'[g] \in Jar!Save /\ x5'[g].phase = x5[g].phase /\ ~x5'[g].alone
             /\ x5'[g].snap = x5[g].snap
  BY <1>1, <1>3, <1>5 DEF Jar!Save
<1>6. Jar!UnderWay' = Jar!UnderWay \cup {h}
  BY <1>4, <1>5 DEF Jar!UnderWay
<1>7. Jar!JarTyped'
  <2>1. x5' \in [Jar!Handles -> Jar!Save]
    BY <1>1, <1>4, <1>5
  <2>. QED BY <1>1, <1>2, <2>1 DEF Jar!JarTyped, Jars
<1>8. Jar!SavesApart'
  BY <1>1, <1>2, <1>4, <1>5, <1>6 DEF Jar!SavesApart, Jar!JarTyped, Jar!UnderWay
<1>9. Jar!SaveCurrent'
  BY <1>1, <1>2, <1>4, <1>5, <1>6 DEF Jar!SaveCurrent, Jar!UnderWay
<1>10. Jar!CookiesSurvive'
  BY <1>1, <1>2, <1>4, <1>6 DEF Jar!CookiesSurvive, Jar!JarTyped
<1>. QED BY <1>7, <1>8, <1>9, <1>10 DEF Jar!JarInv

\* A change that has a save due.
LEMMA ScheduleKept ==
    ASSUME Jar!JarInv, x2' \in Jars, Jar!Schedule, UNCHANGED <<x1, x4, x6, x7>>
    PROVE  Jar!JarInv'
  BY DEF Jar!JarInv, Jar!Schedule, Jar!JarTyped, Jar!SavesApart, Jar!SaveCurrent,
         Jar!CookiesSurvive, Jar!UnderWay, Jars

LEMMA UnexpiredTyped ==
    ASSUME NEW j \in Jars PROVE Jar!Unexpired(j) \in Jars
  BY DEF Jars, Jar!Cookies, Jar!Unexpired

LEMMA OnDiskTyped == ASSUME Jar!JarTyped PROVE Jar!OnDisk \in Jars
  BY NoJarTyped DEF Jar!JarTyped, Jar!File, Jar!OnDisk, Jars

\* What the operations on the jar do.
LEMMA ChangesKept ==
    ASSUME Jar!JarInv
    PROVE  /\ \A a \in JarAccounts, some \in SUBSET Names :
                /\ \A set \in [some -> Jar!Cookie] : Jar!Capture(a, set) => Jar!JarInv'
                /\ \A set \in [some -> Values] : Jar!SetCookies(a, set) => Jar!JarInv'
           /\ \A a \in JarAccounts : Jar!Clear(a) => Jar!JarInv'
           /\ Jar!Cleanup => Jar!JarInv'
           /\ Jar!TimerFires => Jar!JarInv'
<1>0. x2 \in Jars
  BY DEF Jar!JarInv, Jar!JarTyped, Jars
<1>1. ASSUME NEW a \in JarAccounts, NEW some \in SUBSET Names, NEW set \in [some -> Jar!Cookie],
             Jar!Capture(a, set)
      PROVE  Jar!JarInv'
  <2> DEFINE changed == {n \in DOMAIN set : x2[a][n] # set[n]}
             cookies == [n \in Names |-> IF n \in changed THEN set[n] ELSE x2[a][n]]
             new == [x2 EXCEPT ![a] = cookies]
  <2>1. /\ x1 /\ x2' = new
        /\ Jar!BeginSave(x2') \/ Jar!Schedule
        /\ UNCHANGED <<x1, x4, x6, x7>>
    BY <1>1 DEF Jar!Capture
  <2>2. cookies \in Jar!Cookies
    BY <1>0 DEF Jar!Cookies, Jars
  <2> HIDE DEF cookies
  <2>3. new \in Jars
    BY <1>0, <2>2 DEF Jars
  <2> HIDE DEF new
  <2>4. x2' \in Jars
    BY <2>1, <2>3
  <2>5. CASE Jar!BeginSave(x2')
    BY <2>1, <2>4, <2>5, BeginSaveKept
  <2>6. CASE Jar!Schedule
    BY <2>1, <2>4, <2>6, ScheduleKept
  <2>. QED BY <2>1, <2>5, <2>6
<1>2. ASSUME NEW a \in JarAccounts, NEW some \in SUBSET Names, NEW set \in [some -> Values],
             Jar!SetCookies(a, set)
      PROVE  Jar!JarInv'
  <2> DEFINE cookies == [n \in Names |->
               IF n \in DOMAIN set THEN [value |-> set[n], expires |-> Jar!Never] ELSE x2[a][n]]
  <2>1. cookies \in Jar!Cookies
    BY <1>0 DEF Jar!Cookies, Jar!Cookie, Jar!Expiries, Jars
  <2>2. x2' = [x2 EXCEPT ![a] = cookies] /\ Jar!Schedule /\ UNCHANGED <<x1, x4, x6, x7>>
    BY <1>2 DEF Jar!SetCookies
  <2> HIDE DEF cookies
  <2>3. x2' \in Jars
    BY <1>0, <2>1, <2>2 DEF Jars
  <2>. QED BY <2>2, <2>3, ScheduleKept
<1>3. ASSUME NEW a \in JarAccounts, Jar!Clear(a) PROVE Jar!JarInv'
  <2>1. x2' \in Jars
    BY <1>0, <1>3, NoJarTyped DEF Jar!Clear, Jars
  <2>. QED BY <1>3, <2>1, ScheduleKept DEF Jar!Clear
<1>4. CASE Jar!Cleanup
  <2>1. x2' \in Jars
    BY <1>0, <1>4, UnexpiredTyped DEF Jar!Cleanup
  <2>. QED BY <1>4, <2>1, ScheduleKept DEF Jar!Cleanup
<1>5. CASE Jar!TimerFires
  BY <1>0, <1>5, BeginSaveKept DEF Jar!TimerFires
<1>. QED BY <1>1, <1>2, <1>3, <1>4, <1>5

\* The steps of a save.  One that met no other has the temporary file to itself.
LEMMA SaveOpensKept ==
    ASSUME Jar!JarInv, NEW h \in Jar!Handles, Jar!SaveOpens(h) PROVE Jar!JarInv'
<1>1. Jar!JarTyped /\ Jar!SavesApart /\ Jar!SaveCurrent /\ Jar!CookiesSurvive
  BY DEF Jar!JarInv
<1> DEFINE f == Jar!Opened(x6)
<1>2. /\ f \in Jar!File /\ f.tmp \in Jar!Inodes /\ f.tmp # x6.json /\ f.json = x6.json
      /\ f.holds[f.tmp] = Torn
      /\ \A i \in Jar!Inodes : i # f.tmp => f.holds[i] = x6.holds[i]
  BY <1>1, OpenedFile
<1>3. /\ x1 /\ x5[h].phase = "open" /\ x6' = f
      /\ x5' = [x5 EXCEPT ![h] = [x5[h] EXCEPT !.phase = "write", !.inode = f.tmp]]
      /\ UNCHANGED <<x1, x2, x3, x4, x7, x8>>
  BY DEF Jar!SaveOpens
<1> HIDE DEF f
<1>4. x5 \in [Jar!Handles -> Jar!Save] /\ x6 \in Jar!File
  BY <1>1 DEF Jar!JarTyped
<1>5. /\ x5'[h] \in Jar!Save /\ x5'[h].phase = "write" /\ x5'[h].inode = f.tmp
      /\ x5'[h].alone = x5[h].alone /\ x5'[h].snap = x5[h].snap
      /\ \A g \in Jar!Handles : g # h => x5'[g] = x5[g]
      /\ x5' \in [Jar!Handles -> Jar!Save]
  BY <1>2, <1>3, <1>4 DEF Jar!Save
<1>6. Jar!UnderWay' = Jar!UnderWay /\ h \in Jar!UnderWay
  BY <1>3, <1>5 DEF Jar!UnderWay
<1>7. Jar!NoFile \notin Jar!Inodes
  BY JarAssumption DEF Jar!NoFile, Jar!Inodes
<1>8. Jar!JarTyped'
  BY <1>1, <1>2, <1>3, <1>5 DEF Jar!JarTyped
<1>9. Jar!SavesApart'
  BY <1>1, <1>3, <1>5, <1>6 DEF Jar!SavesApart
<1>10. Jar!SaveCurrent'
  BY <1>1, <1>2, <1>3, <1>5, <1>6, <1>7 DEF Jar!SaveCurrent, Jar!SavesApart
<1>11. Jar!OnDisk' = Jar!OnDisk
  BY <1>2, <1>3, <1>4, <1>7 DEF Jar!OnDisk, Jar!File
<1>12. x6.json # Jar!NoFile => x6'.json = x6.json /\ x6'.holds[x6.json] = x6.holds[x6.json]
  BY <1>2, <1>3, <1>4 DEF Jar!File
<1>13. \A g \in Jar!Handles : x5'[g].snap = x5[g].snap
  BY <1>5
<1>14. Jar!CookiesSurvive'
  BY <1>1, <1>2, <1>3, <1>6, <1>11, <1>12, <1>13 DEF Jar!CookiesSurvive, Jar!UnderWay
<1>. QED BY <1>8, <1>9, <1>10, <1>14 DEF Jar!JarInv

LEMMA SaveWritesKept ==
    ASSUME Jar!JarInv, NEW h \in Jar!Handles, Jar!SaveWrites(h) PROVE Jar!JarInv'
<1>1. Jar!JarTyped /\ Jar!SavesApart /\ Jar!SaveCurrent /\ Jar!CookiesSurvive
  BY DEF Jar!JarInv
<1> DEFINE i == x5[h].inode
<1>2. PICK c \in Jar!Mixtures(x6.holds[i], x5[h].snap) : x6' = [x6 EXCEPT !.holds[i] = c]
  BY DEF Jar!SaveWrites
<1>3. /\ x1 /\ x5[h].phase = "write"
      /\ x5' = [x5 EXCEPT ![h] = [x5[h] EXCEPT !.phase = "rename"]]
      /\ UNCHANGED <<x1, x2, x3, x4, x7, x8>>
  BY DEF Jar!SaveWrites
<1>4. x5 \in [Jar!Handles -> Jar!Save] /\ x6 \in Jar!File /\ x5[h] \in Jar!Save
  BY <1>1 DEF Jar!JarTyped
<1>5. /\ x5'[h] \in Jar!Save /\ x5'[h].phase = "rename" /\ x5'[h].inode = i
      /\ x5'[h].alone = x5[h].alone /\ x5'[h].snap = x5[h].snap
      /\ \A g \in Jar!Handles : g # h => x5'[g] = x5[g]
      /\ x5' \in [Jar!Handles -> Jar!Save]
  BY <1>3, <1>4 DEF Jar!Save
<1>6. Jar!UnderWay' = Jar!UnderWay /\ h \in Jar!UnderWay
  BY <1>3, <1>5 DEF Jar!UnderWay
<1>7. c \in {x5[h].snap, Torn} /\ (x6.holds[i] = Torn => c = x5[h].snap)
  BY <1>2 DEF Jar!Mixtures
<1>8. /\ x6'.tmp = x6.tmp /\ x6'.json = x6.json /\ x6' \in Jar!File
      /\ \A k \in Jar!Inodes : k # i => x6'.holds[k] = x6.holds[k]
      /\ i \in Jar!Inodes => x6'.holds[i] = c
  <2>1. c \in Jars \cup {Torn}
    BY <1>4, <1>7 DEF Jar!Save, Jars
  <2>2. x6' = [tmp |-> x6.tmp, json |-> x6.json, holds |-> [x6.holds EXCEPT ![i] = c]]
    BY <1>2, <1>4 DEF Jar!File
  <2>3. [x6.holds EXCEPT ![i] = c] \in [Jar!Inodes -> Jars \cup {Torn}]
    BY <1>4, <2>1 DEF Jar!File, Jars
  <2>. QED BY <1>4, <2>2, <2>3 DEF Jar!File, Jars
<1> HIDE DEF i
<1>9. x5[h].alone => i = x6.tmp /\ i # Jar!NoFile /\ i # x6.json /\ x6.holds[i] = Torn
  BY <1>1, <1>3, <1>6 DEF Jar!SaveCurrent, i
<1>10. i \in Jar!Inodes \cup {Jar!NoFile}
  BY <1>4 DEF Jar!Save, i
<1>11. Jar!JarTyped'
  BY <1>1, <1>3, <1>5, <1>8 DEF Jar!JarTyped
<1>12. Jar!SavesApart'
  BY <1>1, <1>3, <1>5, <1>6 DEF Jar!SavesApart
<1>13. Jar!SaveCurrent'
  <2>1. x6'.tmp = Jar!NoFile \/ x6'.tmp # x6'.json
    BY <1>1, <1>8 DEF Jar!SaveCurrent
  <2>2. ASSUME NEW g \in Jar!UnderWay, x5'[g].alone PROVE g = h
    BY <1>1, <1>5, <1>6, <2>2 DEF Jar!SavesApart, Jar!UnderWay
  <2>3. ASSUME x5'[h].alone
        PROVE  /\ x6'.tmp # Jar!NoFile /\ x5'[h].inode = x6'.tmp
               /\ x6'.holds[x6'.tmp] = x5'[h].snap
               /\ x3' \/ x5'[h].snap = x2'
    BY <1>1, <1>3, <1>5, <1>6, <1>7, <1>8, <1>9, <1>10, <2>3 DEF Jar!SaveCurrent
  <2>. QED BY <1>5, <1>6, <2>1, <2>2, <2>3 DEF Jar!SaveCurrent
<1>14. Jar!CookiesSurvive'
  <2> SUFFICES ASSUME ~x8 PROVE Jar!CookiesSurvive'
    BY <1>3 DEF Jar!CookiesSurvive
  <2>1. i # x6.json
    BY <1>1, <1>6, <1>9 DEF Jar!SavesApart
  <2>2. x6.json # Jar!NoFile => x6'.holds[x6.json] = x6.holds[x6.json]
    BY <1>4, <1>8, <2>1 DEF Jar!File
  <2>3. Jar!OnDisk' = Jar!OnDisk
    BY <1>8, <2>2 DEF Jar!OnDisk
  <2>4. \A g \in Jar!Handles : x5'[g].snap = x5[g].snap
    BY <1>5
  <2>. QED BY <1>1, <1>3, <1>6, <1>8, <2>2, <2>3, <2>4 DEF Jar!CookiesSurvive, Jar!UnderWay
<1>. QED BY <1>11, <1>12, <1>13, <1>14 DEF Jar!JarInv

\* A save leaves: the others are the ones they were.
LEMMA Leaves ==
    ASSUME Jar!JarTyped, NEW h \in Jar!Handles, x5' = [x5 EXCEPT ![h] = Jar!Idle]
    PROVE  /\ x5' \in [Jar!Handles -> Jar!Save]
           /\ Jar!UnderWay' = Jar!UnderWay \ {h}
           /\ \A g \in Jar!Handles : g # h => x5'[g] = x5[g]
  BY IdleTyped DEF Jar!JarTyped, Jar!UnderWay

LEMMA SaveEndsKept ==
    ASSUME Jar!JarInv, NEW h \in Jar!Handles, Jar!SaveEnds(h) PROVE Jar!JarInv'
<1>1. Jar!JarTyped /\ Jar!SavesApart /\ Jar!SaveCurrent /\ Jar!CookiesSurvive
  BY DEF Jar!JarInv
<1>2. /\ x1 /\ x5[h].phase = "rename" /\ h \in Jar!UnderWay
      /\ x5' = [x5 EXCEPT ![h] = Jar!Idle]
      /\ x8' = (x8 /\ ~x5[h].alone)
      /\ UNCHANGED <<x1, x2, x3, x4>>
  BY DEF Jar!SaveEnds, Jar!UnderWay
<1>3. /\ x5' \in [Jar!Handles -> Jar!Save]
      /\ Jar!UnderWay' = Jar!UnderWay \ {h}
      /\ \A g \in Jar!Handles : g # h => x5'[g] = x5[g]
  BY <1>1, <1>2, Leaves
<1>4. \/ x6.tmp = Jar!NoFile /\ x6' = x6 /\ x7' = TRUE
      \/ x6.tmp # Jar!NoFile /\ x6' = Jar!Renamed(x6) /\ x7' = FALSE
  BY DEF Jar!SaveEnds
<1>5. x6 \in Jar!File /\ x6.tmp \in Jar!Inodes \cup {Jar!NoFile}
  BY <1>1 DEF Jar!JarTyped, Jar!File
<1>6. x6.tmp # Jar!NoFile =>
          /\ x6' \in Jar!File /\ x6'.json = x6.tmp /\ x6'.tmp = Jar!NoFile
          /\ x6'.holds[x6.tmp] = x6.holds[x6.tmp]
  BY <1>4, <1>5, RenamedFile
<1>7. Jar!JarTyped'
  BY <1>1, <1>2, <1>3, <1>4, <1>5, <1>6 DEF Jar!JarTyped
<1>8. Jar!SavesApart'
  BY <1>1, <1>2, <1>3 DEF Jar!SavesApart, Jar!UnderWay
<1>9. \A g \in Jar!UnderWay' : ~x5'[g].alone
  BY <1>1, <1>2, <1>3 DEF Jar!SavesApart, Jar!UnderWay
<1>10. Jar!SaveCurrent'
  BY <1>1, <1>4, <1>6, <1>9 DEF Jar!SaveCurrent
<1>11. Jar!CookiesSurvive'
  <2> SUFFICES ASSUME ~x8' PROVE Jar!CookiesSurvive'
    BY DEF Jar!CookiesSurvive
  <2>1. x5[h].alone
    BY <1>1, <1>2 DEF Jar!SavesApart
  <2>2. /\ x6.tmp # Jar!NoFile /\ x6.holds[x6.tmp] = x5[h].snap
        /\ x3 \/ x5[h].snap = x2
    BY <1>1, <1>2, <2>1 DEF Jar!SaveCurrent
  <2>3. x5[h].snap \in Jars
    BY <1>1 DEF Jar!JarTyped, Jar!Save, Jars
  <2>4. x5[h].snap # Torn
    BY <2>3, JarAssumption DEF Jars
  <2>5. x6'.json = x6.tmp /\ x6'.holds[x6.tmp] = x5[h].snap
    BY <1>6, <2>2
  <2>6. Jar!OnDisk' = x5[h].snap
    BY <2>2, <2>4, <2>5 DEF Jar!OnDisk
  <2>. QED BY <1>2, <2>2, <2>4, <2>5, <2>6 DEF Jar!CookiesSurvive
<1>. QED BY <1>7, <1>8, <1>10, <1>11 DEF Jar!JarInv

LEMMA SaveFailsKept ==
    ASSUME Jar!JarInv, NEW h \in Jar!Handles, Jar!SaveFails(h) PROVE Jar!JarInv'
<1>1. Jar!JarTyped /\ Jar!SavesApart /\ Jar!SaveCurrent /\ Jar!CookiesSurvive
  BY DEF Jar!JarInv
<1>2. /\ x5' = [x5 EXCEPT ![h] = Jar!Idle] /\ x7' = TRUE
      /\ UNCHANGED <<x1, x2, x3, x4, x6, x8>>
  BY DEF Jar!SaveFails
<1>3. /\ x5' \in [Jar!Handles -> Jar!Save]
      /\ Jar!UnderWay' = Jar!UnderWay \ {h}
      /\ \A g \in Jar!Handles : g # h => x5'[g] = x5[g]
  BY <1>1, <1>2, Leaves
<1>4. Jar!JarTyped'
  BY <1>1, <1>2, <1>3 DEF Jar!JarTyped
<1>5. Jar!SavesApart'
  BY <1>1, <1>2, <1>3 DEF Jar!SavesApart, Jar!UnderWay
<1>6. Jar!SaveCurrent'
  BY <1>1, <1>2, <1>3 DEF Jar!SaveCurrent, Jar!UnderWay
<1>7. Jar!CookiesSurvive'
  BY <1>1, <1>2 DEF Jar!CookiesSurvive
<1>. QED BY <1>4, <1>5, <1>6, <1>7 DEF Jar!JarInv

\* The life of the server: a start loads what is on the disk.
LEMMA OpenKept == ASSUME Jar!JarInv, Jar!Open PROVE Jar!JarInv'
<1>1. Jar!JarTyped /\ Jar!SavesApart /\ Jar!SaveCurrent /\ Jar!CookiesSurvive
  BY DEF Jar!JarInv
<1>2. /\ ~x1 /\ x1' = TRUE /\ x2' = Jar!Unexpired(Jar!OnDisk) /\ x7' = FALSE
      /\ x3' = (x2' # Jar!OnDisk) /\ UNCHANGED <<x4, x5, x6, x8>>
  BY DEF Jar!Open
<1>3. x2' \in Jars /\ x3' \in BOOLEAN
  BY <1>1, <1>2, OnDiskTyped, UnexpiredTyped
<1>4. Jar!UnderWay = {} /\ Jar!UnderWay' = {}
  BY <1>1, <1>2 DEF Jar!SavesApart, Jar!UnderWay
<1>5. Jar!OnDisk' = Jar!OnDisk
  BY <1>2 DEF Jar!OnDisk
<1>6. Jar!JarTyped'
  BY <1>1, <1>2, <1>3 DEF Jar!JarTyped, Jars
<1>7. Jar!SavesApart' /\ Jar!SaveCurrent'
  BY <1>1, <1>2, <1>4 DEF Jar!SavesApart, Jar!SaveCurrent
<1>8. Jar!CookiesSurvive'
  BY <1>1, <1>2, <1>5 DEF Jar!CookiesSurvive
<1>. QED BY <1>6, <1>7, <1>8 DEF Jar!JarInv

\* A server that stops has no saves under way.
LEMMA GoneTyped ==
    ASSUME Jar!JarTyped, Jar!Gone, x6' \in Jar!File, x7' \in BOOLEAN, x8' \in BOOLEAN
    PROVE  Jar!JarTyped' /\ Jar!UnderWay' = {} /\ ~x1'
<1>1. x5' \in [Jar!Handles -> Jar!Save] /\ x2' \in Jars /\ Jar!UnderWay' = {}
  BY IdleTyped, NoJarTyped DEF Jar!Gone, Jar!UnderWay
<1>. QED BY <1>1 DEF Jar!Gone, Jar!JarTyped, Jars

LEMMA StopsKept == ASSUME Jar!JarInv, Jar!Crash \/ Jar!Destroy PROVE Jar!JarInv'
<1>1. Jar!JarTyped /\ Jar!SavesApart /\ Jar!SaveCurrent /\ Jar!CookiesSurvive
  BY DEF Jar!JarInv
<1>2. Jar!Gone
  BY DEF Jar!Crash, Jar!Destroy
<1>3. x6 \in Jar!File /\ x7 \in BOOLEAN /\ x8 \in BOOLEAN /\ x2 \in Jars
  BY <1>1 DEF Jar!JarTyped, Jars
<1>4. CASE x6' = x6 /\ (x8' = x8 \/ x8' = (x8 \/ Jar!UnderWay # {})) /\ x7' \in BOOLEAN
  <2>1. Jar!JarTyped' /\ Jar!UnderWay' = {} /\ ~x1'
    BY <1>1, <1>2, <1>3, <1>4, GoneTyped
  <2>2. Jar!SavesApart' /\ Jar!SaveCurrent'
    BY <1>1, <1>4, <2>1 DEF Jar!SavesApart, Jar!SaveCurrent
  <2>3. ~x8' => ~x8
    BY <1>4
  <2>4. ~x8' => (x6'.json # Jar!NoFile => x6'.holds[x6'.json] # Torn)
    BY <1>1, <1>4, <2>3 DEF Jar!CookiesSurvive
  <2>5. Jar!CookiesSurvive'
    BY <2>1, <2>4 DEF Jar!CookiesSurvive
  <2>. QED BY <2>1, <2>2, <2>5 DEF Jar!JarInv
<1>5. CASE /\ x6' = Jar!Renamed([Jar!Opened(x6) EXCEPT !.holds[Jar!Opened(x6).tmp] = x2])
           /\ x7' = FALSE /\ x8' = (x8 \/ Jar!UnderWay # {})
  <2> DEFINE f == Jar!Opened(x6)
             g == [f EXCEPT !.holds[f.tmp] = x2]
  <2>1. f \in Jar!File /\ f.tmp \in Jar!Inodes
    BY <1>1, OpenedFile
  <2> HIDE DEF f
  <2>2. g = [tmp |-> f.tmp, json |-> f.json, holds |-> [f.holds EXCEPT ![f.tmp] = x2]]
    BY <2>1 DEF Jar!File
  <2>3. [f.holds EXCEPT ![f.tmp] = x2] \in [Jar!Inodes -> Jars \cup {Torn}]
    BY <1>3, <2>1 DEF Jar!File, Jars
  <2>4. g \in Jar!File /\ g.tmp = f.tmp /\ g.holds[f.tmp] = x2
    BY <2>1, <2>2, <2>3 DEF Jar!File, Jars
  <2>5. x6' = Jar!Renamed(g)
    BY <1>5 DEF f
  <2> HIDE DEF g
  <2>6. /\ x6' \in Jar!File /\ x6'.json = f.tmp /\ x6'.tmp = Jar!NoFile
        /\ x6'.holds[f.tmp] = x2
    BY <2>1, <2>4, <2>5, RenamedFile
  <2>7. Jar!JarTyped' /\ Jar!UnderWay' = {} /\ ~x1'
    BY <1>1, <1>2, <1>3, <1>5, <2>6, GoneTyped
  <2>8. Jar!SavesApart' /\ Jar!SaveCurrent'
    BY <2>6, <2>7 DEF Jar!SavesApart, Jar!SaveCurrent
  <2>9. x2 # Torn
    BY <1>3, JarAssumption DEF Jars
  <2>10. Jar!CookiesSurvive'
    BY <2>6, <2>7, <2>9 DEF Jar!CookiesSurvive
  <2>. QED BY <2>7, <2>8, <2>10 DEF Jar!JarInv
<1>. QED BY <1>3, <1>4, <1>5 DEF Jar!Crash, Jar!Destroy

LEMMA JarStep ==
    ASSUME Jar!JarInv, Jar!Next \/ UNCHANGED JarVars PROVE Jar!JarInv'
<1>1. CASE Jar!Tick
  BY <1>1, JarAssumption
     DEF Jar!Tick, Jar!JarInv, Jar!JarTyped, Jar!SavesApart, Jar!SaveCurrent,
         Jar!CookiesSurvive, Jar!UnderWay, Jar!OnDisk
<1>2. CASE UNCHANGED JarVars
  BY <1>2 DEF JarVars, Jar!JarInv, Jar!JarTyped, Jar!SavesApart, Jar!SaveCurrent,
              Jar!CookiesSurvive, Jar!UnderWay, Jar!OnDisk
<1>3. ASSUME NEW a \in JarAccounts, NEW some \in SUBSET Names,
             \/ \E set \in [some -> Jar!Cookie] : Jar!Capture(a, set)
             \/ \E set \in [some -> Values] : Jar!SetCookies(a, set)
      PROVE  Jar!JarInv'
  BY <1>3, ChangesKept
<1>4. CASE (\E a \in JarAccounts : Jar!Clear(a)) \/ Jar!Cleanup \/ Jar!TimerFires
  BY <1>4, ChangesKept
<1>5. CASE \E h \in Jar!Handles : Jar!SaveOpens(h) \/ Jar!SaveWrites(h) \/ Jar!SaveEnds(h)
                                  \/ Jar!SaveFails(h)
  BY <1>5, SaveOpensKept, SaveWritesKept, SaveEndsKept, SaveFailsKept
<1>6. CASE Jar!Open \/ Jar!Crash \/ Jar!Destroy
  BY <1>6, OpenKept, StopsKept
<1>. QED BY <1>1, <1>2, <1>3, <1>4, <1>5, <1>6 DEF Jar!Next

LEMMA JarSafe == ASSUME Jar!JarInv PROVE Jar!TypeOK /\ Jar!CookiesSurvive
  BY DEF Jar!JarInv, Jar!JarTyped, Jar!TypeOK, Jar!Save, Jar!File

-----------------------------------------------------------------------------
(* The request history *)

HistoryVars == <<x1, x2, x3, x4, x5, x6, x7>>

\* The records after the first k.
Dropped(rs, k) == [n \in 1 .. Len(rs) - k |-> rs[n + k]]

LEMMA DroppedTyped ==
    ASSUME NEW rs \in History!Ledgers, History!InTime(rs), NEW k \in 0 .. Len(rs)
    PROVE  /\ Dropped(rs, k) \in History!Ledgers
           /\ Len(Dropped(rs, k)) = Len(rs) - k
           /\ History!InTime(Dropped(rs, k))
<1> DEFINE d == Dropped(rs, k)
<1>1. \A n \in 1 .. Len(rs) - k : n + k \in 1 .. Len(rs) /\ rs[n + k] \in History!Record
  BY DEF History!Ledgers
<1>2. Len(rs) - k \in Nat
  BY DEF History!Ledgers
<1>3. d \in Seq(History!Record) /\ Len(d) = Len(rs) - k
  BY <1>1, <1>2 DEF Dropped
<1>. QED BY <1>1, <1>2, <1>3 DEF History!Ledgers, History!InTime, Dropped

LEMMA HistoryCounts == ASSUME NEW S PROVE History!Cardinality(S) = Cardinality(S)
  BY DEF History!Cardinality, Cardinality

\* Of records in the order of time, the first ones are dropped.
LEMMA UnexpiredIsRest ==
    ASSUME NEW rs \in History!Ledgers, History!InTime(rs), x5 \in Nat
    PROVE  \E k \in 0 .. Len(rs) :
               /\ History!Unexpired(rs) = Dropped(rs, k)
               /\ \A i \in 1 .. k : History!Expired(rs[i])
<1> DEFINE kept == {i \in DOMAIN rs : ~History!Expired(rs[i])}
<1>1. Len(rs) \in Nat /\ DOMAIN rs = 1 .. Len(rs)
  BY DEF History!Ledgers
<1>2. PICK k \in 0 .. Len(rs) : kept = k + 1 .. Len(rs)
  <2>1. CASE kept = {}
    <3>1. kept = Len(rs) + 1 .. Len(rs)
      BY <1>1, <2>1
    <3>. QED BY <1>1, <3>1
  <2>2. CASE kept # {}
    <3>1. kept \in SUBSET Nat
      BY <1>1
    <3>2. PICK m \in kept : \A i \in kept : m <= i
      BY <2>2, <3>1, LeastOne
    <3>3. ASSUME NEW i \in m .. Len(rs) PROVE i \in kept
      <4>1. m \in DOMAIN rs /\ i \in DOMAIN rs /\ m <= i /\ ~History!Expired(rs[m])
        BY <1>1, <3>2, <3>3
      <4>2. rs[m].at <= rs[i].at
        BY <4>1 DEF History!InTime
      <4>3. rs[m] \in History!Record /\ rs[i] \in History!Record
        BY <1>1, <4>1 DEF History!Ledgers
      <4>4. rs[m].at \in Nat /\ rs[i].at \in Nat
        BY <4>3, HistoryAssumption DEF History!Record
      <4>. QED BY <4>1, <4>2, <4>4, HistoryAssumption DEF History!Expired
    <3>4. kept = m .. Len(rs)
      BY <1>1, <3>1, <3>2, <3>3
    <3>5. m - 1 \in 0 .. Len(rs) /\ m = (m - 1) + 1
      BY <1>1, <3>2
    <3>. QED BY <3>4, <3>5
  <2>. QED BY <2>1, <2>2
<1>3. ASSUME NEW a \in Int, NEW b \in Int, a <= b + 1
      PROVE  History!Cardinality(a .. b) = b - a + 1
  <2>1. Cardinality(a .. b) = IF a > b THEN 0 ELSE b - a + 1
    BY FS_Interval
  <2>. QED BY <1>3, <2>1, HistoryCounts
<1>4. History!Cardinality(kept) = Len(rs) - k
  <2>1. k + 1 \in Int /\ Len(rs) \in Int /\ k + 1 <= Len(rs) + 1
    BY <1>1
  <2>2. History!Cardinality(k + 1 .. Len(rs)) = Len(rs) - (k + 1) + 1
    BY <1>3, <2>1
  <2>3. Len(rs) - (k + 1) + 1 = Len(rs) - k
    BY <2>1
  <2> HIDE DEF kept
  <2>. QED BY <1>2, <2>2, <2>3
<1>5. ASSUME NEW i \in kept PROVE History!Cardinality({j \in kept : j <= i}) = i - k
  <2> DEFINE below == {j \in kept : j <= i}
  <2>1. i \in Int /\ k \in Int /\ k + 1 <= i + 1 /\ i <= Len(rs)
    BY <1>1, <1>2, <1>5
  <2>2. below \subseteq k + 1 .. i
    <3>1. ASSUME NEW j \in kept, j <= i PROVE j \in k + 1 .. i
      BY <1>1, <1>2, <2>1, <3>1
    <3>. QED BY <3>1
  <2>3. k + 1 .. i \subseteq below
    <3>1. ASSUME NEW j \in k + 1 .. i PROVE j \in k + 1 .. Len(rs) /\ j <= i
      BY <1>1, <2>1, <3>1
    <3> HIDE DEF kept
    <3>. QED BY <1>2, <3>1
  <2>4. History!Cardinality(k + 1 .. i) = i - (k + 1) + 1
    BY <1>3, <2>1
  <2>5. i - (k + 1) + 1 = i - k
    BY <2>1
  <2>6. below = k + 1 .. i
    BY <2>2, <2>3
  <2> HIDE DEF below
  <2>7. History!Cardinality(below) = i - k
    BY <2>4, <2>5, <2>6
  <2>. QED BY <2>7 DEF below
<1>6. ASSUME NEW n \in 1 .. Len(rs) - k
      PROVE  (CHOOSE i \in kept : History!Cardinality({j \in kept : j <= i}) = n) = n + k
  <2>1. n + k \in kept
    BY <1>1, <1>2, <1>6
  <2>2. \A i \in kept : History!Cardinality({j \in kept : j <= i}) = n <=> i = n + k
    BY <1>1, <1>2, <1>5, <1>6
  <2> HIDE DEF kept
  <2>. QED BY <2>1, <2>2
<1>7. History!Unexpired(rs) = [n \in 1 .. History!Cardinality(kept) |->
          rs[CHOOSE i \in kept : History!Cardinality({j \in kept : j <= i}) = n]]
  BY DEF History!Unexpired
<1>8. History!Unexpired(rs) = Dropped(rs, k)
  <2> HIDE DEF kept
  <2>. QED BY <1>4, <1>6, <1>7 DEF Dropped
<1>9. ASSUME NEW i \in 1 .. k PROVE History!Expired(rs[i])
  BY <1>1, <1>2, <1>9
<1>. QED BY <1>8, <1>9

\* rs are the last of all the records, and what is missing is too old now.
Follows(rs, all, now) ==
    /\ Len(rs) <= Len(all)
    /\ \A i \in 1 .. Len(rs) : rs[i] = all[Len(all) - Len(rs) + i]
    /\ \A i \in 1 .. Len(all) - Len(rs) : all[i].at + MaxAge < now

LEMMA ReverseIs ==
    ASSUME NEW s \in History!Ledgers
    PROVE  /\ History!Reverse(s) \in Seq(History!Record)
           /\ Len(History!Reverse(s)) = Len(s)
           /\ \A i \in 1 .. Len(s) : History!Reverse(s)[i] = s[Len(s) - i + 1]
<1>1. Len(s) \in Nat /\ s \in [1 .. Len(s) -> History!Record]
  BY DEF History!Ledgers
<1>2. \A i \in 1 .. Len(s) : Len(s) - i + 1 \in 1 .. Len(s)
  BY <1>1
<1>. QED BY <1>1, <1>2 DEF History!Reverse

LEMMA SuffixIs ==
    ASSUME NEW s \in History!Ledgers, NEW t \in History!Ledgers
    PROVE  History!IsSuffix(s, t) <=>
             /\ Len(s) <= Len(t)
             /\ \A i \in 1 .. Len(s) : s[i] = t[Len(t) - Len(s) + i]
<1> DEFINE rs == History!Reverse(s)
           rt == History!Reverse(t)
<1>1. Len(s) \in Nat /\ Len(t) \in Nat
  BY DEF History!Ledgers
<1>2. /\ rs \in Seq(History!Record) /\ Len(rs) = Len(s)
      /\ \A i \in 1 .. Len(s) : rs[i] = s[Len(s) - i + 1]
      /\ rt \in Seq(History!Record) /\ Len(rt) = Len(t)
      /\ \A i \in 1 .. Len(t) : rt[i] = t[Len(t) - i + 1]
  BY ReverseIs
<1> HIDE DEF rs, rt
<1>3. History!IsSuffix(s, t) <=>
        Len(rs) <= Len(rt) /\ SubSeq(rs, 1, Len(rs)) = SubSeq(rt, 1, Len(rs))
  BY DEF History!IsSuffix, History!IsPrefix, rs, rt
<1>4. SUFFICES ASSUME Len(s) <= Len(t)
               PROVE  SubSeq(rs, 1, Len(rs)) = SubSeq(rt, 1, Len(rs)) <=>
                        \A i \in 1 .. Len(s) : s[i] = t[Len(t) - Len(s) + i]
  BY <1>2, <1>3
<1>5. /\ SubSeq(rs, 1, Len(rs)) = [i \in 1 .. Len(s) |-> rs[i]]
      /\ SubSeq(rt, 1, Len(rs)) = [i \in 1 .. Len(s) |-> rt[i]]
  BY <1>1, <1>2, <1>4
<1>6. SubSeq(rs, 1, Len(rs)) = SubSeq(rt, 1, Len(rs)) <=> \A i \in 1 .. Len(s) : rs[i] = rt[i]
  BY <1>5
<1>7. ASSUME \A i \in 1 .. Len(s) : rs[i] = rt[i], NEW i \in 1 .. Len(s)
      PROVE  s[i] = t[Len(t) - Len(s) + i]
  <2>1. Len(s) - i + 1 \in 1 .. Len(s) /\ Len(s) - i + 1 \in 1 .. Len(t)
    BY <1>1, <1>4
  <2>2. rs[Len(s) - i + 1] = s[Len(s) - (Len(s) - i + 1) + 1]
    BY <1>2, <2>1
  <2>3. rt[Len(s) - i + 1] = t[Len(t) - (Len(s) - i + 1) + 1]
    BY <1>2, <2>1
  <2>4. Len(s) - (Len(s) - i + 1) + 1 = i /\ Len(t) - (Len(s) - i + 1) + 1 = Len(t) - Len(s) + i
    BY <1>1
  <2>. QED BY <1>7, <2>1, <2>2, <2>3, <2>4
<1>8. ASSUME \A i \in 1 .. Len(s) : s[i] = t[Len(t) - Len(s) + i], NEW i \in 1 .. Len(s)
      PROVE  rs[i] = rt[i]
  <2>1. Len(s) - i + 1 \in 1 .. Len(s) /\ i \in 1 .. Len(t)
    BY <1>1, <1>4
  <2>2. s[Len(s) - i + 1] = t[Len(t) - Len(s) + (Len(s) - i + 1)]
    BY <1>8, <2>1
  <2>3. Len(t) - Len(s) + (Len(s) - i + 1) = Len(t) - i + 1
    BY <1>1
  <2>. QED BY <1>2, <2>1, <2>2, <2>3
<1>. QED BY <1>6, <1>7, <1>8

LEMMA SurvivesIs ==
    ASSUME NEW rs \in History!Ledgers, x6 \in History!Ledgers
    PROVE  History!Survives(rs) <=> Follows(rs, x6, x5)
  BY SuffixIs DEF History!Survives, Follows, History!Expired

LEMMA FollowsDropped ==
    ASSUME NEW rs \in History!Ledgers, NEW all \in History!Ledgers, NEW now \in Nat,
           History!InTime(rs), Follows(rs, all, now),
           NEW k \in 0 .. Len(rs), \A i \in 1 .. k : rs[i].at + MaxAge < now
    PROVE  Follows(Dropped(rs, k), all, now)
<1> DEFINE d == Dropped(rs, k)
<1>1. Len(rs) \in Nat /\ Len(all) \in Nat /\ Len(d) = Len(rs) - k
  BY DroppedTyped DEF History!Ledgers
<1>2. ASSUME NEW i \in 1 .. Len(d) PROVE d[i] = all[Len(all) - Len(d) + i]
  <2>1. d[i] = rs[i + k] /\ i + k \in 1 .. Len(rs)
    BY <1>1 DEF Dropped
  <2>2. rs[i + k] = all[Len(all) - Len(rs) + (i + k)]
    BY <2>1 DEF Follows
  <2>3. Len(all) - Len(rs) + (i + k) = Len(all) - Len(d) + i
    BY <1>1
  <2>. QED BY <2>1, <2>2, <2>3
<1>3. ASSUME NEW i \in 1 .. Len(all) - Len(d) PROVE all[i].at + MaxAge < now
  <2>1. CASE i <= Len(all) - Len(rs)
    BY <1>1, <2>1 DEF Follows
  <2>2. CASE i > Len(all) - Len(rs)
    <3>1. i - (Len(all) - Len(rs)) \in 1 .. k /\ i - (Len(all) - Len(rs)) \in 1 .. Len(rs)
      BY <1>1, <2>2
    <3>2. rs[i - (Len(all) - Len(rs))] = all[Len(all) - Len(rs) + (i - (Len(all) - Len(rs)))]
      BY <3>1 DEF Follows
    <3>3. Len(all) - Len(rs) + (i - (Len(all) - Len(rs))) = i
      BY <1>1
    <3>. QED BY <3>1, <3>2, <3>3
  <2>. QED BY <1>1, <2>1, <2>2
<1>4. Len(d) <= Len(all)
  BY <1>1 DEF Follows
<1> HIDE DEF d
<1>5. Follows(d, all, now)
  BY <1>2, <1>3, <1>4 DEF Follows
<1>. QED BY <1>5 DEF d

LEMMA FollowsAppended ==
    ASSUME NEW rs \in History!Ledgers, NEW all \in History!Ledgers, NEW now,
           Follows(rs, all, now), NEW r \in History!Record
    PROVE  Follows(Append(rs, r), Append(all, r), now)
<1>1. /\ Len(rs) \in Nat /\ Len(all) \in Nat /\ Len(rs) <= Len(all)
      /\ Len(Append(rs, r)) = Len(rs) + 1 /\ Len(Append(all, r)) = Len(all) + 1
  BY DEF History!Ledgers, Follows
<1>2. ASSUME NEW i \in 1 .. Len(rs) + 1
      PROVE  Append(rs, r)[i] = Append(all, r)[Len(all) + 1 - (Len(rs) + 1) + i]
  <2>1. Len(all) + 1 - (Len(rs) + 1) + i = Len(all) - Len(rs) + i
    BY <1>1
  <2>2. CASE i = Len(rs) + 1
    BY <1>1, <2>1, <2>2 DEF History!Ledgers
  <2>3. CASE i # Len(rs) + 1
    <3>1. i \in 1 .. Len(rs) /\ Len(all) - Len(rs) + i \in 1 .. Len(all)
      BY <1>1, <2>3
    <3>. QED BY <1>1, <2>1, <3>1 DEF Follows, History!Ledgers
  <2>. QED BY <2>2, <2>3
<1>3. ASSUME NEW i \in 1 .. Len(all) + 1 - (Len(rs) + 1)
      PROVE  Append(all, r)[i].at + MaxAge < now
  <2>1. i \in 1 .. Len(all) - Len(rs) /\ i \in 1 .. Len(all)
    BY <1>1
  <2>. QED BY <1>1, <2>1 DEF Follows, History!Ledgers
<1> DEFINE a == Append(rs, r)
           b == Append(all, r)
<1>4. /\ Len(a) <= Len(b)
      /\ \A i \in 1 .. Len(a) : a[i] = b[Len(b) - Len(a) + i]
      /\ \A i \in 1 .. Len(b) - Len(a) : b[i].at + MaxAge < now
  BY <1>1, <1>2, <1>3
<1> HIDE DEF a, b
<1>5. Follows(a, b, now)
  BY <1>4 DEF Follows
<1>. QED BY <1>5 DEF a, b

\* A file is sound if its records are in the order of time.
SoundFile(c) == c \in {Missing, Unreadable} \/ (c \in History!Ledgers /\ History!InTime(c))

LEMMA SoundFiles ==
    ASSUME NEW c
    PROVE  /\ History!Readable(c) /\ SoundFile(c) => c \in History!Ledgers /\ History!InTime(c)
           /\ c \in History!Ledgers => History!Readable(c)
           /\ SoundFile(c) <=> /\ c \in {Missing, Unreadable} \/ c \in History!Ledgers
                               /\ History!Readable(c) => History!InTime(c)
  BY HistoryAssumption DEF SoundFile, History!Readable

LEMMA EmptyLedger == <<>> \in History!Ledgers /\ History!InTime(<<>>)
  BY DEF History!Ledgers, History!InTime

\* What pruning makes of records and files.
LEMMA PrunedSound ==
    ASSUME x5 \in Nat, NEW rs \in History!Ledgers, History!InTime(rs),
           NEW f, SoundFile(f.ledger), SoundFile(f.spare), NEW s \in History!Pruned(rs, f)
    PROVE  /\ s.records \in History!Ledgers /\ History!InTime(s.records)
           /\ SoundFile(s.ledger) /\ SoundFile(s.spare)
           /\ s.ledger \in {f.ledger, s.records}
           /\ rs = <<>> => s.records = rs /\ s.ledger = f.ledger /\ s.spare = f.spare
           /\ \A all \in History!Ledgers : Follows(rs, all, x5) => Follows(s.records, all, x5)
<1>1. CASE rs # <<>> /\ History!Expired(Head(rs))
  <2>1. PICK k \in 0 .. Len(rs) :
            /\ History!Unexpired(rs) = Dropped(rs, k)
            /\ \A i \in 1 .. k : History!Expired(rs[i])
    BY UnexpiredIsRest
  <2> DEFINE d == Dropped(rs, k)
  <2>2. d \in History!Ledgers /\ History!InTime(d)
    BY DroppedTyped
  <2>3. \A all \in History!Ledgers : Follows(rs, all, x5) => Follows(d, all, x5)
    BY <2>1, FollowsDropped DEF History!Expired
  <2> HIDE DEF d
  <2>4. /\ s.records = d
        /\ \/ s.ledger = d /\ s.spare = Missing
           \/ s.ledger = f.ledger /\ s.spare = d
           \/ s.ledger = f.ledger /\ s.spare = Unreadable
    BY <1>1, <2>1 DEF History!Pruned, History!Replacements, d
  <2>. QED BY <1>1, <2>2, <2>3, <2>4 DEF SoundFile
<1>2. CASE ~(rs # <<>> /\ History!Expired(Head(rs)))
  <2>1. s.records = rs /\ s.ledger = f.ledger /\ s.spare = f.spare
    BY <1>2 DEF History!Pruned
  <2>. QED BY <2>1
<1>. QED BY <1>1, <1>2

LEMMA LedgerTyped ==
    ASSUME History!LedgerInv
    PROVE  /\ x1 \in BOOLEAN /\ x7 \in BOOLEAN /\ x5 \in 0 .. MaxClock /\ x5 \in Nat
           /\ x2 \in History!Ledgers /\ History!InTime(x2)
           /\ x6 \in History!Ledgers /\ History!InTime(x6)
           /\ SoundFile(x3) /\ SoundFile(x4)
  BY SoundFiles, HistoryAssumption DEF History!LedgerInv, History!TypeOK, History!AllInTime

\* What the invariant comes to after a step, if the clock stands.
LEMMA LedgerAgain ==
    ASSUME x1' \in BOOLEAN, x7' \in BOOLEAN, x5' = x5, x5 \in 0 .. MaxClock,
           x2' \in History!Ledgers, History!InTime(x2'),
           x6' \in History!Ledgers, History!InTime(x6'),
           SoundFile(x3'), SoundFile(x4'),
           ~x7' => /\ x3' # Unreadable
                   /\ x3' = Missing => x4' = Missing /\ x6' = <<>>
                   /\ x3' # Missing => Follows(x3', x6', x5)
                   /\ x1' => Follows(x2', x6', x5)
    PROVE  History!LedgerInv'
<1>1. History!TypeOK'
  BY SoundFiles DEF History!TypeOK, SoundFile
<1>2. History!AllInTime'
  BY SoundFiles DEF History!AllInTime, History!InTime, History!Readable, SoundFile
<1>3. ASSUME NEW rs \in History!Ledgers, Follows(rs, x6', x5) PROVE History!Survives(rs)'
  BY <1>3, SuffixIs DEF History!Survives, Follows, History!Expired
<1>4. History!LedgerKept'
  BY <1>3 DEF History!LedgerKept, SoundFile
<1>5. History!LedgerSurvives'
  BY <1>3 DEF History!LedgerSurvives
<1>. QED BY <1>1, <1>2, <1>4, <1>5 DEF History!LedgerInv

LEMMA HistoryStart == History!Init => History!LedgerInv
<1> SUFFICES ASSUME History!Init PROVE History!LedgerInv
  OBVIOUS
<1>1. /\ x1 = FALSE /\ x2 = <<>> /\ x3 = Missing /\ x4 = Missing /\ x5 = 0
      /\ x6 = <<>> /\ x7 = FALSE
  BY DEF History!Init
<1>2. History!TypeOK
  <2>1. 0 \in 0 .. MaxClock
    BY HistoryAssumption
  <2>. QED BY <1>1, <2>1, EmptyLedger DEF History!TypeOK
<1>3. History!AllInTime
  BY <1>1, EmptyLedger DEF History!AllInTime, History!Readable
<1>4. History!LedgerKept /\ History!LedgerSurvives
  BY <1>1, HistoryAssumption DEF History!LedgerKept, History!LedgerSurvives
<1>. QED BY <1>2, <1>3, <1>4 DEF History!LedgerInv

LEMMA OpenLedgerKept == ASSUME History!LedgerInv, History!Open PROVE History!LedgerInv'
<1>1. PICK l \in History!Loads : \E s \in History!Pruned(l.records, l) : History!Become(s)
  BY DEF History!Open
<1>2. PICK s \in History!Pruned(l.records, l) : History!Become(s)
  BY <1>1
<1>3. /\ l.records \in History!Ledgers /\ History!InTime(l.records)
      /\ SoundFile(l.ledger) /\ SoundFile(l.spare)
  BY <1>1, LedgerTyped, EmptyLedger, SoundFiles, HistoryAssumption
     DEF History!Loads, History!Readable, SoundFile
<1>4. ASSUME ~x7
      PROVE  /\ l.ledger = x3 /\ l.spare = x4
             /\ l.records = IF x3 = Missing THEN <<>> ELSE x3
  BY <1>1, <1>4, HistoryAssumption
     DEF History!Loads, History!LedgerInv, History!LedgerKept, History!Readable
<1>5. ASSUME ~x7, x3 # Missing PROVE Follows(x3, x6, x5) /\ x3 \in History!Ledgers
  BY <1>5, LedgerTyped, SurvivesIs DEF History!LedgerInv, History!LedgerKept, SoundFile
<1>6. ASSUME ~x7, x3 = Missing PROVE Follows(<<>>, x6, x5) /\ x4 = Missing /\ x6 = <<>>
  BY <1>6 DEF History!LedgerInv, History!LedgerKept, Follows
<1>7. /\ s.records \in History!Ledgers /\ History!InTime(s.records)
      /\ SoundFile(s.ledger) /\ SoundFile(s.spare)
      /\ s.ledger \in {l.ledger, s.records}
      /\ l.records = <<>> => s.records = l.records /\ s.ledger = l.ledger /\ s.spare = l.spare
      /\ Follows(l.records, x6, x5) => Follows(s.records, x6, x5)
  BY <1>3, LedgerTyped, PrunedSound
<1>8. /\ x1' = TRUE /\ x5' = x5 /\ x6' = x6 /\ x7' = x7
      /\ x2' = s.records /\ x3' = s.ledger /\ x4' = s.spare
  BY <1>2 DEF History!Open, History!Become
<1>9. ASSUME ~x7
      PROVE  /\ s.ledger # Unreadable
             /\ s.ledger = Missing => s.spare = Missing /\ x6 = <<>>
             /\ s.ledger # Missing => Follows(s.ledger, x6, x5)
             /\ Follows(s.records, x6, x5)
  <2>1. CASE x3 = Missing
    BY <1>4, <1>6, <1>7, <1>9, <2>1, HistoryAssumption
  <2>2. CASE x3 # Missing
    BY <1>4, <1>5, <1>7, <1>9, <2>2, HistoryAssumption
  <2>. QED BY <2>1, <2>2
<1>. QED BY <1>7, <1>8, <1>9, LedgerTyped, LedgerAgain

LEMMA RecordedKept ==
    ASSUME History!LedgerInv, NEW o \in Outcomes, NEW k \in GroupKeys,
           History!Recorded([at |-> x5, outcome |-> o, key |-> k])
    PROVE  History!LedgerInv'
<1> DEFINE r == [at |-> x5, outcome |-> o, key |-> k]
<1>1. r \in History!Record /\ r.at = x5
  BY LedgerTyped DEF History!Record
<1>2. History!Recorded(r)
  OBVIOUS
<1> HIDE DEF r
<1>3. PICK f \in History!Appended(r) :
          /\ x7' = (x7 \/ f.cut)
          /\ \E s \in History!Pruned(Append(x2, r), [ledger |-> f.ledger, spare |-> x4]) :
                 History!Become(s)
  BY <1>2 DEF History!Recorded
<1> DEFINE g == [ledger |-> f.ledger, spare |-> x4]
<1>4. PICK s \in History!Pruned(Append(x2, r), g) : History!Become(s)
  BY <1>3
<1>5. ASSUME NEW rs \in History!Ledgers, History!InTime(rs)
      PROVE  Append(rs, r) \in History!Ledgers /\ History!InTime(Append(rs, r))
  <2>1. /\ Len(rs) \in Nat /\ DOMAIN rs = 1 .. Len(rs) /\ rs \in Seq(History!Record)
        /\ Append(rs, r) \in Seq(History!Record)
        /\ DOMAIN Append(rs, r) = 1 .. Len(rs) + 1
        /\ Append(rs, r)[Len(rs) + 1] = r
        /\ \A i \in 1 .. Len(rs) : Append(rs, r)[i] = rs[i]
    BY <1>1, <1>5 DEF History!Ledgers
  <2>2. ASSUME NEW i \in 1 .. Len(rs) + 1, NEW j \in 1 .. Len(rs) + 1, i <= j
        PROVE  Append(rs, r)[i].at <= Append(rs, r)[j].at /\ Append(rs, r)[j].at <= x5
    <3>1. CASE j = Len(rs) + 1
      <4>1. CASE i = j
        BY <1>1, <2>1, <3>1, <4>1, LedgerTyped
      <4>2. CASE i # j
        <5>1. i \in 1 .. Len(rs) /\ i <= i
          BY <2>1, <3>1, <4>2
        <5>. QED BY <1>1, <1>5, <2>1, <3>1, <5>1, LedgerTyped DEF History!InTime
      <4>. QED BY <4>1, <4>2
    <3>2. CASE j # Len(rs) + 1
      <4>1. i \in 1 .. Len(rs) /\ j \in 1 .. Len(rs)
        BY <2>1, <2>2, <3>2
      <4>. QED BY <1>5, <2>1, <2>2, <4>1 DEF History!InTime
    <3>. QED BY <3>1, <3>2
  <2>. QED BY <2>1, <2>2 DEF History!Ledgers, History!InTime
<1>6. Append(x2, r) \in History!Ledgers /\ History!InTime(Append(x2, r))
      /\ Append(x6, r) \in History!Ledgers /\ History!InTime(Append(x6, r))
      /\ Append(x2, r) # <<>>
  BY <1>1, <1>5, LedgerTyped DEF History!Ledgers
<1>7. <<r>> \in History!Ledgers /\ History!InTime(<<r>>)
  BY <1>1, LedgerTyped DEF History!Ledgers, History!InTime
<1>8. f.ledger \in {x3, Unreadable} \/ f.ledger = <<r>> \/ (f.ledger = Append(x3, r) /\ History!Readable(x3))
  BY <1>3 DEF History!Appended
<1>9. SoundFile(f.ledger) /\ SoundFile(x4)
  BY <1>5, <1>7, <1>8, LedgerTyped, SoundFiles DEF SoundFile
<1>10. /\ s.records \in History!Ledgers /\ History!InTime(s.records)
       /\ SoundFile(s.ledger) /\ SoundFile(s.spare)
       /\ s.ledger \in {f.ledger, s.records}
       /\ \A all \in History!Ledgers :
             Follows(Append(x2, r), all, x5) => Follows(s.records, all, x5)
  <2>1. g.ledger = f.ledger /\ g.spare = x4
    OBVIOUS
  <2> HIDE DEF g
  <2>. QED BY <1>4, <1>6, <1>9, <2>1, LedgerTyped, PrunedSound
<1>11. /\ x1 /\ x1' = x1 /\ x5' = x5 /\ x6' = Append(x6, r)
       /\ x2' = s.records /\ x3' = s.ledger /\ x4' = s.spare
  BY <1>2, <1>4 DEF History!Recorded, History!Become
<1>12. ASSUME ~x7'
       PROVE  /\ f.ledger \in History!Ledgers /\ Follows(f.ledger, Append(x6, r), x5)
              /\ Follows(Append(x2, r), Append(x6, r), x5)
  <2>1. ~x7 /\ ~f.cut
    BY <1>3, <1>12
  <2> DEFINE whole == IF History!Readable(x3) THEN Append(x3, r)
                      ELSE IF x3 = Missing THEN <<r>> ELSE Unreadable
  <2>2. f.ledger = whole
    <3>1. \/ f = [ledger |-> whole, cut |-> FALSE]
          \/ f = [ledger |-> x3, cut |-> TRUE]
          \/ f = [ledger |-> Unreadable, cut |-> TRUE]
      BY <1>3 DEF History!Appended
    <3> HIDE DEF whole
    <3>2. ASSUME NEW l, f = [ledger |-> l, cut |-> TRUE] PROVE FALSE
      <4>1. f.cut = TRUE
        BY <3>2
      <4>. QED BY <2>1, <4>1
    <3>3. f = [ledger |-> whole, cut |-> FALSE]
      BY <3>1, <3>2
    <3>. QED BY <3>3
  <2>3. Follows(x2, x6, x5)
    BY <1>11, <2>1, LedgerTyped, SurvivesIs DEF History!LedgerInv, History!LedgerSurvives
  <2>4. Follows(Append(x2, r), Append(x6, r), x5)
    BY <1>1, <2>3, LedgerTyped, FollowsAppended
  <2>5. CASE x3 = Missing
    <3>1. x6 = <<>> /\ f.ledger = <<r>>
      BY <2>1, <2>2, <2>5 DEF History!LedgerInv, History!LedgerKept, History!Readable
    <3>2. Follows(<<>>, <<>>, x5)
      BY DEF Follows
    <3>3. Append(<<>>, r) = <<r>>
      OBVIOUS
    <3>4. Follows(<<r>>, <<r>>, x5)
      BY <1>1, <3>2, <3>3, EmptyLedger, FollowsAppended
    <3>. QED BY <1>7, <2>4, <3>1, <3>3, <3>4
  <2>6. CASE x3 # Missing
    <3>1. History!Readable(x3) /\ x3 \in History!Ledgers /\ Follows(x3, x6, x5)
      BY <2>1, <2>6, LedgerTyped, SurvivesIs
         DEF History!LedgerInv, History!LedgerKept, History!Readable, SoundFile
    <3>2. f.ledger = Append(x3, r)
      BY <2>2, <3>1
    <3>. QED BY <1>1, <1>5, <2>4, <3>1, <3>2, LedgerTyped, SoundFiles, FollowsAppended
  <2>. QED BY <2>5, <2>6
<1>13. ASSUME ~x7'
       PROVE  /\ s.ledger \in History!Ledgers /\ Follows(s.ledger, Append(x6, r), x5)
              /\ Follows(s.records, Append(x6, r), x5)
  BY <1>6, <1>10, <1>12, <1>13
<1>14. x7' \in BOOLEAN
  BY <1>3, LedgerTyped DEF History!Appended
<1>. QED BY <1>6, <1>10, <1>11, <1>13, <1>14, LedgerTyped, HistoryAssumption, LedgerAgain

LEMMA TickKept == ASSUME History!LedgerInv, History!Tick PROVE History!LedgerInv'
<1>1. x5' = x5 + 1 /\ x5' \in 0 .. MaxClock /\ UNCHANGED <<x1, x2, x3, x4, x6, x7>>
  BY LedgerTyped, HistoryAssumption DEF History!Tick
<1>2. History!TypeOK'
  BY <1>1 DEF History!LedgerInv, History!TypeOK
<1>3. ASSUME NEW rs \in History!Ledgers, NEW i \in DOMAIN rs PROVE rs[i].at \in Nat
  <2>1. rs[i] \in History!Record
    BY <1>3 DEF History!Ledgers
  <2>. QED BY <2>1, HistoryAssumption DEF History!Record
<1>4. ASSUME NEW rs \in History!Ledgers, History!InTime(rs) PROVE History!InTime(rs)'
  BY <1>1, <1>3, <1>4, LedgerTyped DEF History!InTime
<1>5. History!AllInTime'
  BY <1>1, <1>4, LedgerTyped, SoundFiles DEF History!LedgerInv, History!AllInTime, History!Readable
<1>6. ASSUME NEW rs \in History!Ledgers, History!Survives(rs) PROVE History!Survives(rs)'
  <2>1. Len(rs) \in Nat /\ Len(x6) \in Nat /\ DOMAIN x6 = 1 .. Len(x6)
    BY LedgerTyped DEF History!Ledgers
  <2>2. ASSUME NEW i \in 1 .. Len(x6) - Len(rs) PROVE x6[i].at + MaxAge < x5'
    <3>1. i \in DOMAIN x6 /\ x6[i].at + MaxAge < x5
      BY <1>6, <2>1 DEF History!Survives, History!Expired
    <3>. QED BY <1>1, <1>3, <3>1, LedgerTyped, HistoryAssumption
  <2>. QED BY <1>1, <1>6, <2>2 DEF History!Survives, History!Expired
<1>7. History!LedgerKept' /\ History!LedgerSurvives'
  BY <1>1, <1>6, LedgerTyped DEF History!LedgerInv, History!LedgerKept, History!LedgerSurvives, SoundFile
<1>. QED BY <1>2, <1>5, <1>7 DEF History!LedgerInv

LEMMA HistoryStep ==
    ASSUME History!LedgerInv, History!Next \/ UNCHANGED HistoryVars
    PROVE  History!LedgerInv'
<1>1. CASE History!Open
  BY <1>1, OpenLedgerKept
<1>2. CASE History!StopsInRecovery
  <2>1. x7
    BY <1>2 DEF History!StopsInRecovery, History!LedgerInv, History!LedgerKept
  <2>. QED BY <1>2, <2>1, LedgerTyped, HistoryAssumption, LedgerAgain
       DEF History!StopsInRecovery, SoundFile
<1>3. CASE History!Exit
  <2>1. ~x7 /\ x3 # Missing => Follows(x3, x6, x5)
    BY LedgerTyped, SurvivesIs DEF History!LedgerInv, History!LedgerKept, SoundFile
  <2>. QED BY <1>3, <2>1, LedgerTyped, EmptyLedger, LedgerAgain
       DEF History!Exit, History!LedgerInv, History!LedgerKept
<1>4. CASE History!Tick
  BY <1>4, TickKept
<1>5. ASSUME NEW o \in Outcomes, NEW k \in GroupKeys,
             History!Recorded([at |-> x5, outcome |-> o, key |-> k])
      PROVE  History!LedgerInv'
  BY <1>5, RecordedKept
<1>6. CASE UNCHANGED HistoryVars
  BY <1>6 DEF HistoryVars, History!LedgerInv, History!TypeOK, History!AllInTime, History!InTime,
              History!LedgerKept, History!LedgerSurvives, History!Survives, History!Expired
<1>. QED BY <1>1, <1>2, <1>3, <1>4, <1>5, <1>6 DEF History!Next

-----------------------------------------------------------------------------
(* The usage statistics *)

UsageVars == <<x1, x2, x3, x4, x5, x6, x7>>

\* What the accounts of S have counted of k, which PoolTotals adds up.
Counted(u, k, S) == Usage!MapThenSumSet(LAMBDA a : u[a][k], S)
Counts(u, k, S) == \A a \in S : u[a][k] \in Nat

Pick(s) == CHOOSE x \in s : TRUE
SumsOf(h, u, k, S) ==
    h = [s \in SUBSET S |-> IF s = {} THEN 0 ELSE u[Pick(s)][k] + h[s \ {Pick(s)}]]

LEMMA CountedIs ==
    ASSUME NEW u, NEW k, NEW S
    PROVE  Counted(u, k, S) = (CHOOSE h : SumsOf(h, u, k, S))[S]
  BY DEF Counted, SumsOf, Pick, Usage!MapThenSumSet, Usage!MapThenFoldSet

LEMMA SumsExist ==
    ASSUME NEW u, NEW k, NEW S, IsFiniteSet(S), Counts(u, k, S)
    PROVE  \E h \in [SUBSET S -> Nat] : SumsOf(h, u, k, S)
<1> DEFINE pick == [s \in SUBSET S |-> Pick(s)]
           g == [a \in S |-> [n \in Nat |-> u[a][k] + n]]
<1>1. \A s \in SUBSET S : s # {} => pick[s] \in s /\ pick[s] = Pick(s)
  BY DEF Pick
<1>2. g \in [S -> [Nat -> Nat]]
  BY DEF Counts
<1>3. \E h \in [SUBSET S -> Nat] : Folded(h, S, pick, g, 0)
  <2> HIDE DEF pick, g
  <2>. QED BY <1>1, <1>2, FoldExists
<1>4. PICK h \in [SUBSET S -> Nat] : Folded(h, S, pick, g, 0)
  BY <1>3
<1>5. ASSUME NEW s \in SUBSET S
      PROVE  h[s] = IF s = {} THEN 0 ELSE u[Pick(s)][k] + h[s \ {Pick(s)}]
  <2>1. CASE s = {}
    BY <1>4, <2>1 DEF Folded
  <2>2. CASE s # {}
    <3>1. h[s] = g[pick[s]][h[s \ {pick[s]}]]
      BY <1>4, <2>2 DEF Folded
    <3>2. Pick(s) \in S /\ pick[s] = Pick(s)
      BY <1>1, <2>2
    <3>3. h[s \ {Pick(s)}] \in Nat
      OBVIOUS
    <3> HIDE DEF pick
    <3>4. h[s] = g[Pick(s)][h[s \ {Pick(s)}]]
      BY <3>1, <3>2
    <3>. QED BY <2>2, <3>2, <3>3, <3>4
  <2>. QED BY <2>1, <2>2
<1>. QED BY <1>5 DEF SumsOf

LEMMA SumsAgree ==
    ASSUME NEW u, NEW k, NEW S, IsFiniteSet(S), NEW T \in SUBSET S,
           NEW h, SumsOf(h, u, k, S), NEW g, SumsOf(g, u, k, T)
    PROVE  \A s \in SUBSET T : h[s] = g[s]
<1> DEFINE bad == {s \in SUBSET T : h[s] # g[s]}
<1>1. SUFFICES ASSUME bad # {} PROVE FALSE
  OBVIOUS
<1>2. IsFiniteSet(T)
  BY FS_Subset
<1>3. PICK s \in bad : \A t \in bad : Cardinality(s) <= Cardinality(t)
  BY <1>1, <1>2, SmallestSet
<1>4. s \in SUBSET T /\ s \in SUBSET S /\ h[s] # g[s] /\ IsFiniteSet(s)
  BY <1>2, <1>3, FS_Subset
<1>5. /\ h[s] = IF s = {} THEN 0 ELSE u[Pick(s)][k] + h[s \ {Pick(s)}]
      /\ g[s] = IF s = {} THEN 0 ELSE u[Pick(s)][k] + g[s \ {Pick(s)}]
  BY <1>4 DEF SumsOf
<1>6. s # {}
  BY <1>4, <1>5
<1>7. Pick(s) \in s
  BY <1>6 DEF Pick
<1>8. Cardinality(s \ {Pick(s)}) < Cardinality(s)
      /\ Cardinality(s) \in Nat /\ Cardinality(s \ {Pick(s)}) \in Nat
  BY <1>4, <1>7, OneFewer
<1>9. s \ {Pick(s)} \in SUBSET T /\ s \ {Pick(s)} \notin bad
  <2> HIDE DEF bad
  <2>. QED BY <1>3, <1>4, <1>8
<1>. QED BY <1>4, <1>5, <1>6, <1>9

\* The sum is that of the account picked and of the others.
LEMMA CountedFirst ==
    ASSUME NEW u, NEW k, NEW S, IsFiniteSet(S), Counts(u, k, S)
    PROVE  /\ Counted(u, k, S) \in Nat
           /\ S = {} => Counted(u, k, S) = 0
           /\ S # {} => Pick(S) \in S
                        /\ Counted(u, k, S) = u[Pick(S)][k] + Counted(u, k, S \ {Pick(S)})
<1> DEFINE H(T) == CHOOSE h : SumsOf(h, u, k, T)
<1>1. ASSUME NEW T \in SUBSET S PROVE SumsOf(H(T), u, k, T) /\ H(T)[T] \in Nat
  <2>1. IsFiniteSet(T) /\ Counts(u, k, T)
    BY FS_Subset DEF Counts
  <2>2. PICK h \in [SUBSET T -> Nat] : SumsOf(h, u, k, T)
    BY <2>1, SumsExist
  <2>3. SumsOf(H(T), u, k, T)
    BY <2>2
  <2>4. H(T)[T] = h[T]
    BY <2>1, <2>2, <2>3, SumsAgree
  <2>. QED BY <2>2, <2>3, <2>4
<1>2. \A T : Counted(u, k, T) = H(T)[T]
  BY CountedIs
<1> HIDE DEF H
<1>3. CASE S = {}
  BY <1>1, <1>2, <1>3 DEF SumsOf
<1>4. CASE S # {}
  <2> DEFINE T == S \ {Pick(S)}
  <2>1. Pick(S) \in S /\ T \in SUBSET S
    BY <1>4 DEF Pick
  <2>2. H(S)[S] = u[Pick(S)][k] + H(S)[T]
    BY <1>1, <1>4 DEF SumsOf
  <2>3. H(S)[T] = H(T)[T]
    <3>1. S \in SUBSET S /\ T \in SUBSET T
      OBVIOUS
    <3> HIDE DEF T
    <3>2. SumsOf(H(S), u, k, S) /\ SumsOf(H(T), u, k, T)
      BY <1>1, <2>1, <3>1
    <3>3. ASSUME NEW h, SumsOf(h, u, k, S), NEW g, SumsOf(g, u, k, T)
          PROVE  h[T] = g[T]
      BY <2>1, <3>1, <3>3, SumsAgree
    <3>. QED BY <3>2, <3>3
  <2>. QED BY <1>1, <1>2, <1>4, <2>1, <2>2, <2>3
<1>. QED BY <1>3, <1>4

\* ... and of any other account and the rest.
LEMMA CountedAny ==
    ASSUME NEW u, NEW k, NEW S, IsFiniteSet(S), Counts(u, k, S), NEW a \in S
    PROVE  Counted(u, k, S) = u[a][k] + Counted(u, k, S \ {a})
<1> DEFINE Fits(s) == \A b \in s : Counted(u, k, s) = u[b][k] + Counted(u, k, s \ {b})
           bad == {s \in SUBSET S : ~Fits(s)}
<1>1. SUFFICES ASSUME bad # {} PROVE FALSE
  <2>1. CASE bad = {}
    <3>1. Fits(S)
      BY <2>1
    <3>. QED BY <3>1
  <2>. QED BY <1>1, <2>1
<1>2. PICK s \in bad : \A t \in bad : Cardinality(s) <= Cardinality(t)
  <2>1. bad \in SUBSET (SUBSET S)
    OBVIOUS
  <2> HIDE DEF bad
  <2>. QED BY <1>1, <2>1, SmallestSet
<1>3. s \in SUBSET S /\ ~Fits(s)
  BY <1>2
<1>4. PICK b \in s : Counted(u, k, s) # u[b][k] + Counted(u, k, s \ {b})
  BY <1>3
<1>5. \A t \in SUBSET S : IsFiniteSet(t) /\ Counts(u, k, t) /\ Counted(u, k, t) \in Nat
  BY FS_Subset, CountedFirst DEF Counts
<1> DEFINE p == Pick(s)
<1>6. p \in s /\ Counted(u, k, s) = u[p][k] + Counted(u, k, s \ {p})
  BY <1>3, <1>4, <1>5, CountedFirst
<1>7. p # b
  BY <1>4, <1>6
<1> HIDE DEF p
<1>8. ASSUME NEW x \in s PROVE Fits(s \ {x})
  <2>1. /\ s \ {x} \in SUBSET S
        /\ Cardinality(s \ {x}) < Cardinality(s)
        /\ Cardinality(s) \in Nat /\ Cardinality(s \ {x}) \in Nat
    BY <1>3, <1>5, OneFewer
  <2>2. s \ {x} \notin bad
    <3> HIDE DEF bad
    <3>. QED BY <1>2, <2>1
  <2>. QED BY <2>1, <2>2
<1>9. Counted(u, k, s \ {p}) = u[b][k] + Counted(u, k, (s \ {p}) \ {b})
  BY <1>6, <1>7, <1>8
<1>10. Counted(u, k, s \ {b}) = u[p][k] + Counted(u, k, (s \ {b}) \ {p})
  BY <1>6, <1>7, <1>8
<1>11. (s \ {b}) \ {p} = (s \ {p}) \ {b}
  OBVIOUS
<1>12. u[b][k] \in Nat /\ u[p][k] \in Nat /\ Counted(u, k, (s \ {p}) \ {b}) \in Nat
  BY <1>3, <1>5, <1>6 DEF Counts
<1> DEFINE rest == Counted(u, k, (s \ {p}) \ {b})
<1>13. /\ Counted(u, k, s) = u[p][k] + (u[b][k] + rest)
       /\ Counted(u, k, s \ {b}) = u[p][k] + rest
  BY <1>6, <1>9, <1>10, <1>11
<1> HIDE DEF rest
<1>14. rest \in Nat
  BY <1>12 DEF rest
<1>15. u[p][k] + (u[b][k] + rest) = u[b][k] + (u[p][k] + rest)
  BY <1>12, <1>14
<1>. QED BY <1>4, <1>13, <1>15

\* What one account has counted, if it is there.
CountOf(u, k, S, a) == IF a \in S THEN u[a][k] ELSE 0

LEMMA CountedWithout ==
    ASSUME NEW u, NEW k, NEW D, IsFiniteSet(D), Counts(u, k, D), NEW s, NEW x \in s
    PROVE  /\ Counted(u, k, s \cap D) \in Nat /\ Counted(u, k, (s \ {x}) \cap D) \in Nat
           /\ Counted(u, k, s \cap D)
                 = Counted(u, k, (s \ {x}) \cap D) + CountOf(u, k, D, x)
<1> DEFINE all == s \cap D
           rest == (s \ {x}) \cap D
<1>1. IsFiniteSet(all) /\ IsFiniteSet(rest) /\ Counts(u, k, all) /\ Counts(u, k, rest)
  BY FS_Subset DEF Counts
<1>2. Counted(u, k, all) \in Nat /\ Counted(u, k, rest) \in Nat
  BY <1>1, CountedFirst
<1>3. CASE x \in D
  <2>1. x \in all /\ rest = all \ {x}
    BY <1>3
  <2> HIDE DEF all, rest
  <2>2. Counted(u, k, all) = u[x][k] + Counted(u, k, rest)
    BY <1>1, <2>1, CountedAny
  <2>3. u[x][k] \in Nat
    BY <1>3 DEF Counts
  <2>4. Counted(u, k, all) = Counted(u, k, rest) + u[x][k]
    BY <1>2, <2>2, <2>3
  <2>. QED BY <1>2, <1>3, <2>4 DEF all, rest, CountOf
<1>4. CASE x \notin D
  <2>1. rest = all
    BY <1>4
  <2> HIDE DEF all, rest
  <2>2. Counted(u, k, all) = Counted(u, k, rest) + 0
    BY <1>2, <2>1
  <2>. QED BY <1>2, <1>4, <2>2 DEF all, rest, CountOf
<1>. QED BY <1>3, <1>4

\* A pool that has counted no more of any account has no more in all.
LEMMA CountedAtMost ==
    ASSUME NEW u, NEW v, NEW k, NEW D, NEW E, IsFiniteSet(D), IsFiniteSet(E),
           Counts(u, k, D), Counts(v, k, E),
           \A a \in D : u[a][k] <= IF a \in E THEN v[a][k] ELSE 0
    PROVE  Counted(u, k, D) <= Counted(v, k, E)
<1> DEFINE W == D \cup E
           bad == {s \in SUBSET W : ~(Counted(u, k, s \cap D) <= Counted(v, k, s \cap E))}
<1>1. IsFiniteSet(W) /\ D = W \cap D /\ E = W \cap E
  BY FS_Union
<1>2. CASE bad = {}
  <2>1. W \in SUBSET W /\ W \notin bad
    BY <1>2
  <2>2. Counted(u, k, W \cap D) <= Counted(v, k, W \cap E)
    BY <2>1
  <2> HIDE DEF W
  <2>. QED BY <1>1, <2>2
<1>3. CASE bad # {}
  <2>1. PICK s \in bad : \A t \in bad : Cardinality(s) <= Cardinality(t)
    <3>1. bad \in SUBSET (SUBSET W)
      OBVIOUS
    <3> HIDE DEF bad, W
    <3>. QED BY <1>1, <1>3, <3>1, SmallestSet
  <2>2. s \in SUBSET W /\ ~(Counted(u, k, s \cap D) <= Counted(v, k, s \cap E)) /\ IsFiniteSet(s)
    BY <1>1, <2>1, FS_Subset
  <2>3. CASE s = {}
    <3>1. s \cap D = {} /\ s \cap E = {}
      BY <2>3
    <3>2. Counts(u, k, {}) /\ Counts(v, k, {}) /\ IsFiniteSet({})
      BY FS_EmptySet DEF Counts
    <3>3. Counted(u, k, {}) = 0 /\ Counted(v, k, {}) = 0
      BY <3>2, CountedFirst
    <3>4. Counted(u, k, s \cap D) = 0 /\ Counted(v, k, s \cap E) = 0
      BY <3>1, <3>3
    <3>. QED BY <2>2, <3>4
  <2>4. CASE s # {}
    <3>1. PICK x \in s : TRUE
      BY <2>4
    <3> DEFINE t == s \ {x}
    <3>2. /\ t \in SUBSET W /\ Cardinality(t) < Cardinality(s)
          /\ Cardinality(t) \in Nat /\ Cardinality(s) \in Nat
      BY <2>2, OneFewer
    <3>3. t \notin bad
      <4> HIDE DEF bad, t
      <4>. QED BY <2>1, <3>2
    <3>4. Counted(u, k, t \cap D) <= Counted(v, k, t \cap E)
      BY <3>2, <3>3
    <3>5. /\ CountOf(u, k, D, x) \in Nat /\ CountOf(v, k, E, x) \in Nat
          /\ CountOf(u, k, D, x) <= CountOf(v, k, E, x)
      BY DEF Counts, CountOf
    <3> HIDE DEF t
    <3>6. /\ Counted(u, k, (s \ {x}) \cap D) \in Nat
          /\ Counted(u, k, s \cap D) = Counted(u, k, (s \ {x}) \cap D) + CountOf(u, k, D, x)
      BY CountedWithout
    <3>7. /\ Counted(v, k, (s \ {x}) \cap E) \in Nat
          /\ Counted(v, k, s \cap E) = Counted(v, k, (s \ {x}) \cap E) + CountOf(v, k, E, x)
      BY CountedWithout
    <3>. QED BY <2>2, <3>4, <3>5, <3>6, <3>7 DEF t
  <2>. QED BY <2>3, <2>4
<1>. QED BY <1>2, <1>3

\* The pools there can be.
PoolTyped(u) == DOMAIN u \subseteq UsageAccounts /\ \A a \in DOMAIN u : u[a] \in Usage!Totals

LEMMA TotalsAre ==
    ASSUME NEW u, PoolTyped(u)
    PROVE  /\ IsFiniteSet(DOMAIN u)
           /\ \A k \in Counters : Counts(u, k, DOMAIN u)
           /\ \A k \in Counters : Usage!PoolTotals(u)[k] = Counted(u, k, DOMAIN u)
           /\ Usage!PoolTotals(u) \in Usage!Totals
<1>1. IsFiniteSet(DOMAIN u)
  BY UsageAssumption, FS_Subset DEF PoolTyped
<1>2. \A k \in Counters : Counts(u, k, DOMAIN u)
  BY DEF PoolTyped, Counts, Usage!Totals
<1>3. Usage!PoolTotals(u) = [k \in Counters |-> Counted(u, k, DOMAIN u)]
  BY DEF Usage!PoolTotals, Counted
<1>4. \A k \in Counters : Counted(u, k, DOMAIN u) \in Nat
  BY <1>1, <1>2, CountedFirst
<1>. QED BY <1>1, <1>2, <1>3, <1>4 DEF Usage!Totals

\* Of two pools, the second has counted at least as much of every account.
CountsMore(u, v) ==
    \A a \in DOMAIN u : \A k \in Counters : u[a][k] <= IF a \in DOMAIN v THEN v[a][k] ELSE 0

LEMMA TotalsMore ==
    ASSUME NEW u, NEW v, PoolTyped(u), PoolTyped(v), CountsMore(u, v)
    PROVE  \A k \in Counters : Usage!PoolTotals(u)[k] <= Usage!PoolTotals(v)[k]
<1> TAKE k \in Counters
<1>1. \A a \in DOMAIN u : u[a][k] <= IF a \in DOMAIN v THEN v[a][k] ELSE 0
  BY DEF CountsMore
<1>2. Counted(u, k, DOMAIN u) <= Counted(v, k, DOMAIN v)
  BY <1>1, TotalsAre, CountedAtMost
<1>. QED BY <1>2, TotalsAre

\* A request adds what it used.
LEMMA TotalsGrown ==
    ASSUME NEW u, PoolTyped(u), NEW a \in DOMAIN u, NEW amount \in Usage!Totals
    PROVE  /\ PoolTyped([u EXCEPT ![a] = Usage!Plus(@, amount)])
           /\ \A k \in Counters :
                 Usage!PoolTotals([u EXCEPT ![a] = Usage!Plus(@, amount)])[k]
                    = Usage!PoolTotals(u)[k] + amount[k]
<1> DEFINE v == [u EXCEPT ![a] = Usage!Plus(@, amount)]
<1>1. /\ DOMAIN v = DOMAIN u /\ v[a] = Usage!Plus(u[a], amount)
      /\ \A b \in DOMAIN u : b # a => v[b] = u[b]
  OBVIOUS
<1> HIDE DEF v
<1>2. u[a] \in Usage!Totals /\ Usage!Plus(u[a], amount) \in Usage!Totals
      /\ \A k \in Counters : Usage!Plus(u[a], amount)[k] = u[a][k] + amount[k]
  BY DEF PoolTyped, Usage!Plus, Usage!Totals
<1>3. PoolTyped(v)
  BY <1>1, <1>2 DEF PoolTyped
<1>4. ASSUME NEW k \in Counters PROVE Usage!PoolTotals(v)[k] = Usage!PoolTotals(u)[k] + amount[k]
  <2> DEFINE others == DOMAIN u \ {a}
  <2>1. /\ Counted(u, k, DOMAIN u) = u[a][k] + Counted(u, k, others)
        /\ Counted(v, k, DOMAIN u) = v[a][k] + Counted(v, k, others)
    BY <1>1, <1>3, TotalsAre, CountedAny
  <2>2. IsFiniteSet(others) /\ Counts(u, k, others) /\ Counts(v, k, others)
    BY <1>1, <1>3, TotalsAre, FS_Subset DEF Counts
  <2>3. \A b \in others : u[b][k] = v[b][k] /\ u[b][k] \in Nat
    BY <1>1, <2>2 DEF Counts
  <2>4. Counted(u, k, others) \in Nat /\ Counted(v, k, others) \in Nat
    BY <2>2, CountedFirst
  <2> HIDE DEF others
  <2>5. Counted(u, k, others) <= Counted(v, k, others)
    BY <2>2, <2>3, CountedAtMost
  <2>6. Counted(v, k, others) <= Counted(u, k, others)
    BY <2>2, <2>3, CountedAtMost
  <2>7. v[a][k] = u[a][k] + amount[k] /\ u[a][k] \in Nat /\ amount[k] \in Nat
    BY <1>1, <1>2 DEF Usage!Totals
  <2>8. /\ Usage!PoolTotals(u)[k] = Counted(u, k, DOMAIN u)
        /\ Usage!PoolTotals(v)[k] = Counted(v, k, DOMAIN u)
    BY <1>1, <1>3, TotalsAre
  <2>. QED BY <2>1, <2>4, <2>5, <2>6, <2>7, <2>8
<1>. QED BY <1>3, <1>4 DEF v

\* What bucketize adds up, over sets of positions.
BucketsOf(h, points) ==
    h = [s \in SUBSET DOMAIN points |->
            IF s = {} THEN Usage!Zero
            ELSE Usage!Plus(h[s \ {Usage!Max(s)}], points[Usage!Max(s)])]

LEMMA BucketIs ==
    ASSUME NEW points
    PROVE  Usage!Bucket(points) = (CHOOSE h : BucketsOf(h, points))[DOMAIN points]
  BY DEF Usage!Bucket, BucketsOf, Usage!FoldLeft, Usage!MapThenFoldSet

LEMMA LastPoint ==
    ASSUME NEW n \in Nat, NEW s \in SUBSET (1 .. n), s # {}
    PROVE  Usage!Max(s) \in s /\ \A i \in s : i <= Usage!Max(s)
<1>1. Usage!Max(s) = Seqs!Max(s)
  BY DEF Usage!Max, Seqs!Max
<1>. QED BY <1>1, LastPosition

LEMMA LastPointOf == ASSUME NEW j \in Nat, j # 0 PROVE Usage!Max(1 .. j) = j
<1>1. Usage!Max(1 .. j) = Seqs!Max(1 .. j)
  BY DEF Usage!Max, Seqs!Max
<1>. QED BY <1>1, LastOfRange

LEMMA BucketsExist ==
    ASSUME NEW n \in Nat, NEW points, DOMAIN points = 1 .. n,
           \A i \in 1 .. n : points[i] \in Usage!Totals
    PROVE  \E h \in [SUBSET (1 .. n) -> Usage!Totals] : BucketsOf(h, points)
<1> DEFINE S == 1 .. n
           V == Usage!Totals
           pick == [s \in SUBSET S |-> Usage!Max(s)]
           g == [i \in S |-> [t \in V |-> Usage!Plus(t, points[i])]]
<1>1. IsFiniteSet(S)
  BY FS_Interval
<1>2. \A s \in SUBSET S : s # {} => pick[s] \in s /\ pick[s] = Usage!Max(s)
  BY LastPoint
<1>3. Usage!Zero \in V /\ \A t \in V, i \in S : Usage!Plus(t, points[i]) \in V
  BY DEF Usage!Zero, Usage!Plus, Usage!Totals
<1>4. g \in [S -> [V -> V]]
  BY <1>3
<1>5. \E h \in [SUBSET S -> V] : Folded(h, S, pick, g, Usage!Zero)
  <2> HIDE DEF pick, g, S, V
  <2>. QED BY <1>1, <1>2, <1>3, <1>4, FoldExists
<1>6. PICK h \in [SUBSET S -> V] : Folded(h, S, pick, g, Usage!Zero)
  BY <1>5
<1>7. ASSUME NEW s \in SUBSET S
      PROVE  h[s] = IF s = {} THEN Usage!Zero
                    ELSE Usage!Plus(h[s \ {Usage!Max(s)}], points[Usage!Max(s)])
  <2>1. CASE s = {}
    BY <1>6, <2>1 DEF Folded
  <2>2. CASE s # {}
    <3>1. h[s] = g[pick[s]][h[s \ {pick[s]}]]
      BY <1>6, <2>2 DEF Folded
    <3>2. Usage!Max(s) \in S /\ pick[s] = Usage!Max(s)
      BY <1>2, <2>2
    <3>3. h[s \ {Usage!Max(s)}] \in V
      BY <1>6
    <3> HIDE DEF pick
    <3>4. h[s] = g[Usage!Max(s)][h[s \ {Usage!Max(s)}]]
      BY <3>1, <3>2
    <3> HIDE DEF V, S
    <3>. QED BY <2>2, <3>2, <3>3, <3>4
  <2>. QED BY <2>1, <2>2
<1>. QED BY <1>6, <1>7 DEF BucketsOf

\* The differences of totals that only grow add up to the difference of the
\* last and the first.
LEMMA DifferencesAddUp ==
    ASSUME NEW w \in Seq(Usage!Totals), w # <<>>, Usage!Growing(w)
    PROVE  Usage!Bucket(Usage!HistoryOf(w)) = Usage!Minus(w[Len(w)], w[1])
<1> DEFINE n == Len(w) - 1
           points == Usage!HistoryOf(w)
<1>1. n \in Nat /\ Len(w) \in Nat /\ \A i \in 1 .. n : i \in 1 .. Len(w) /\ i + 1 \in 1 .. Len(w)
  OBVIOUS
<1>2. \A i \in 1 .. n + 1 : w[i] \in Usage!Totals
  BY <1>1
<1>3. DOMAIN points = 1 .. n /\ \A i \in 1 .. n : points[i] = Usage!Minus(w[i + 1], w[i])
  <2>1. CASE Len(w) < 2
    <3>1. Len(w) \in Nat /\ Len(w) # 0
      OBVIOUS
    <3>2. Len(w) = 1
      <4>1. \A m \in Nat : m # 0 /\ m < 2 => m = 1
        OBVIOUS
      <4>. QED BY <2>1, <3>1, <4>1
    <3>3. n = 0
      BY <3>2
    <3>. QED BY <2>1, <3>3 DEF Usage!HistoryOf
  <2>2. CASE ~(Len(w) < 2)
    <3>1. points = [i \in 1 .. n |-> Usage!AtLeastZero(Usage!Minus(w[i + 1], w[i]))]
      BY <2>2 DEF Usage!HistoryOf
    <3>2. ASSUME NEW i \in 1 .. n
          PROVE  Usage!AtLeastZero(Usage!Minus(w[i + 1], w[i])) = Usage!Minus(w[i + 1], w[i])
      <4>1. w[i] \in [Counters -> Nat] /\ w[i + 1] \in [Counters -> Nat]
        BY <1>1 DEF Usage!Totals
      <4>2. \A k \in Counters : w[i][k] <= w[i + 1][k]
        BY <1>1, <4>1 DEF Usage!Growing, Usage!AtMost, Usage!SomeLess
      <4>. QED BY <4>1, <4>2 DEF Usage!AtLeastZero, Usage!Minus
    <3>. QED BY <3>1, <3>2
  <2>. QED BY <2>1, <2>2
<1>4. \A i \in 1 .. n : points[i] \in Usage!Totals
  <2> SUFFICES ASSUME NEW i \in 1 .. n PROVE Usage!Minus(w[i + 1], w[i]) \in Usage!Totals
    BY <1>3
  <2>1. w[i] \in [Counters -> Nat] /\ w[i + 1] \in [Counters -> Nat]
    BY <1>1 DEF Usage!Totals
  <2>2. \A k \in Counters : w[i][k] <= w[i + 1][k]
    BY <1>1, <2>1 DEF Usage!Growing, Usage!AtMost, Usage!SomeLess
  <2>. QED BY <2>1, <2>2 DEF Usage!Minus, Usage!Totals
<1> HIDE DEF points, n
<1> DEFINE h == CHOOSE h : BucketsOf(h, points)
<1>5. BucketsOf(h, points)
  BY <1>1, <1>3, <1>4, BucketsExist
<1>6. Usage!Bucket(points) = h[1 .. n]
  BY <1>3, BucketIs
<1> HIDE DEF h
<1> DEFINE bad == {j \in 0 .. n : h[1 .. j] # Usage!Minus(w[j + 1], w[1])}
<1>7. ASSUME bad # {} PROVE FALSE
  <2>1. PICK j \in bad : \A i \in bad : j <= i
    <3>1. bad \in SUBSET Nat
      BY <1>1
    <3> HIDE DEF bad
    <3>. QED BY <1>7, <3>1, LeastOne
  <2>2. j \in 0 .. n /\ 1 .. j \in SUBSET (1 .. n) /\ h[1 .. j] # Usage!Minus(w[j + 1], w[1])
    BY <1>1, <2>1
  <2>3. h[1 .. j] = IF 1 .. j = {} THEN Usage!Zero
                    ELSE Usage!Plus(h[(1 .. j) \ {Usage!Max(1 .. j)}], points[Usage!Max(1 .. j)])
    BY <1>3, <1>5, <2>2 DEF BucketsOf
  <2>4. w[1] \in [Counters -> Nat] /\ w[j + 1] \in [Counters -> Nat]
    <3>1. 1 \in 1 .. n + 1 /\ j + 1 \in 1 .. n + 1
      BY <1>1, <2>2
    <3>. QED BY <1>2, <3>1 DEF Usage!Totals
  <2>5. CASE j = 0
    <3>1. 1 .. j = {} /\ j + 1 = 1
      BY <2>5
    <3>2. h[1 .. j] = Usage!Zero
      BY <2>3, <3>1
    <3>3. Usage!Minus(w[1], w[1]) = Usage!Zero
      BY <2>4 DEF Usage!Minus, Usage!Zero
    <3>. QED BY <2>2, <3>1, <3>2, <3>3
  <2>6. CASE j # 0
    <3>1. j \in Nat /\ j - 1 \in 0 .. n /\ (1 .. j) \ {j} = 1 .. j - 1 /\ 1 .. j # {}
          /\ j \in 1 .. n /\ (j - 1) + 1 = j
      BY <1>1, <2>2, <2>6
    <3>2. j - 1 \notin bad
      <4> HIDE DEF bad
      <4>. QED BY <2>1, <3>1
    <3>3. h[1 .. j - 1] = Usage!Minus(w[j], w[1])
      BY <3>1, <3>2
    <3>4. Usage!Max(1 .. j) = j
      BY <2>6, <3>1, LastPointOf
    <3>5. h[1 .. j] = Usage!Plus(Usage!Minus(w[j], w[1]), Usage!Minus(w[j + 1], w[j]))
      BY <1>3, <2>3, <3>1, <3>3, <3>4
    <3>6. Usage!Plus(Usage!Minus(w[j], w[1]), Usage!Minus(w[j + 1], w[j])) = Usage!Minus(w[j + 1], w[1])
      <4>1. w[j] \in [Counters -> Nat]
        BY <1>1, <1>2, <3>1 DEF Usage!Totals
      <4>2. ASSUME NEW k \in Counters
            PROVE  (w[j][k] - w[1][k]) + (w[j + 1][k] - w[j][k]) = w[j + 1][k] - w[1][k]
        <5>1. w[j][k] \in Nat /\ w[1][k] \in Nat /\ w[j + 1][k] \in Nat
          BY <2>4, <4>1
        <5>. QED BY <5>1
      <4>. QED BY <4>2 DEF Usage!Plus, Usage!Minus
    <3>. QED BY <2>2, <3>5, <3>6
  <2>. QED BY <2>5, <2>6
<1>8. n \in 0 .. n /\ n + 1 = Len(w)
  BY <1>1 DEF n
<1>9. h[1 .. n] = Usage!Minus(w[n + 1], w[1])
  BY <1>7, <1>8
<1>. QED BY <1>6, <1>8, <1>9 DEF points

LEMMA AtMostIs ==
    ASSUME NEW x \in Usage!Totals, NEW y \in Usage!Totals
    PROVE  Usage!AtMost(x, y) <=> \A k \in Counters : x[k] <= y[k]
  BY DEF Usage!AtMost, Usage!SomeLess, Usage!Totals

LEMMA TotalsClosed ==
    /\ Usage!Zero \in Usage!Totals
    /\ \A x, y \in Usage!Totals :
          /\ Usage!Plus(x, y) \in Usage!Totals
          /\ \A k \in Counters : Usage!Plus(x, y)[k] = x[k] + y[k]
    /\ \A x \in Usage!Totals : \A k \in Counters : x[k] \in Nat
  BY DEF Usage!Zero, Usage!Plus, Usage!Totals

\* The last snapshots of totals that only grow.
LEMMA SuffixGrows ==
    ASSUME NEW ss \in Seq(Usage!Totals), Usage!Growing(ss), NEW first \in 1 .. Len(ss)
    PROVE  LET w == SubSeq(ss, first, Len(ss))
           IN  /\ w \in Seq(Usage!Totals) /\ w # <<>> /\ Usage!Growing(w)
               /\ w[Len(w)] = ss[Len(ss)] /\ w[1] = ss[first]
<1> DEFINE w == SubSeq(ss, first, Len(ss))
           n == Len(ss) - first + 1
<1>1. Len(ss) \in Nat /\ n \in Nat /\ n >= 1 /\ first \in Nat
  OBVIOUS
<1>2. w \in Seq(Usage!Totals) /\ Len(w) = n /\ \A i \in 1 .. n : w[i] = ss[first + i - 1]
  BY <1>1
<1>3. w # <<>>
  <2> HIDE DEF w, n
  <2>1. Len(w) # 0
    BY <1>1, <1>2
  <2>. QED BY <2>1
<1>4. w[n] = ss[Len(ss)] /\ w[1] = ss[first]
  <2>1. n \in 1 .. n /\ 1 \in 1 .. n /\ first + n - 1 = Len(ss) /\ first + 1 - 1 = first
    BY <1>1
  <2> HIDE DEF n, w
  <2>. QED BY <1>2, <2>1
<1>5. ASSUME NEW i \in 1 .. n - 1 PROVE Usage!AtMost(w[i], w[i + 1])
  <2>1. /\ i \in 1 .. n /\ i + 1 \in 1 .. n
        /\ first + i - 1 \in 1 .. Len(ss) - 1 /\ first + (i + 1) - 1 = (first + i - 1) + 1
    BY <1>1
  <2>2. Usage!AtMost(ss[first + i - 1], ss[(first + i - 1) + 1])
    BY <2>1 DEF Usage!Growing
  <2> HIDE DEF n, w
  <2>. QED BY <1>2, <2>1, <2>2
<1> HIDE DEF w, n
<1>6. Usage!Growing(w)
  BY <1>2, <1>5 DEF Usage!Growing
<1>. QED BY <1>2, <1>3, <1>4, <1>6 DEF w

LEMMA AppendedGrows ==
    ASSUME NEW ss \in Seq(Usage!Totals), Usage!Growing(ss), NEW t \in Usage!Totals,
           ss # <<>> => Usage!AtMost(ss[Len(ss)], t)
    PROVE  LET all == Append(ss, t)
           IN  all \in Seq(Usage!Totals) /\ Usage!Growing(all) /\ Len(all) \in Nat /\ all[Len(all)] = t
<1> DEFINE all == Append(ss, t)
<1>1. /\ Len(ss) \in Nat /\ all \in Seq(Usage!Totals) /\ Len(all) = Len(ss) + 1
      /\ all[Len(ss) + 1] = t /\ \A i \in 1 .. Len(ss) : all[i] = ss[i]
  OBVIOUS
<1> HIDE DEF all
<1>2. ASSUME NEW i \in 1 .. Len(all) - 1 PROVE Usage!AtMost(all[i], all[i + 1])
  <2>1. i \in 1 .. Len(ss)
    BY <1>1
  <2>2. CASE i = Len(ss)
    <3>1. ss # <<>>
      BY <2>1
    <3>. QED BY <1>1, <2>1, <2>2, <3>1
  <2>3. CASE i # Len(ss)
    <3>1. i \in 1 .. Len(ss) - 1 /\ i + 1 \in 1 .. Len(ss)
      BY <1>1, <2>1, <2>3
    <3>. QED BY <1>1, <2>1, <3>1 DEF Usage!Growing
  <2>. QED BY <2>2, <2>3
<1>. QED BY <1>1, <1>2 DEF Usage!Growing, all

\* The baseline a snapshot goes with: the totals do not shrink, and grow only
\* with what the pool counts.
LEMMA AbsorbedSound ==
    ASSUME Usage!TypeOK, NEW live \in Usage!Totals
    PROVE  LET base == Usage!Absorbed(live)
               ss == x4.snapshots
           IN  /\ base \in Usage!Totals
               /\ ss = <<>> => base = x4.baseline
               /\ ss # <<>> =>
                    /\ ss[Len(ss)] \in Usage!Totals
                    /\ \A k \in Counters :
                          /\ ss[Len(ss)][k] <= base[k] + live[k]
                          /\ base[k] + live[k] \in {ss[Len(ss)][k], x4.baseline[k] + live[k]}
<1> DEFINE base == Usage!Absorbed(live)
           ss == x4.snapshots
           b == x4.baseline
           l == ss[Len(ss)]
           lost == Usage!Plus(b, Usage!AtLeastZero(Usage!Minus(Usage!Minus(l, b), live)))
<1>1. b \in [Counters -> Nat] /\ live \in [Counters -> Nat] /\ ss \in Seq(Usage!Totals)
  BY DEF Usage!TypeOK, Usage!Totals
<1>2. CASE ss = <<>>
  BY <1>1, <1>2 DEF Usage!Absorbed, Usage!Totals
<1>3. CASE ss # <<>>
  <2>1. l \in [Counters -> Nat]
    BY <1>1, <1>3 DEF Usage!Totals
  <2>2. base = IF Usage!SomeLess(live, Usage!Minus(l, b)) THEN lost ELSE b
    BY <1>3 DEF Usage!Absorbed, Usage!Last
  <2> HIDE DEF base, l, b, ss
  <2>3. CASE Usage!SomeLess(live, Usage!Minus(l, b))
    <3>1. base = [k \in Counters |-> b[k] + IF l[k] - b[k] - live[k] < 0 THEN 0 ELSE l[k] - b[k] - live[k]]
      BY <2>2, <2>3 DEF Usage!Plus, Usage!AtLeastZero, Usage!Minus
    <3>2. ASSUME NEW k \in Counters
          PROVE  /\ base[k] \in Nat /\ l[k] <= base[k] + live[k]
                 /\ base[k] + live[k] \in {l[k], b[k] + live[k]}
      <4>1. l[k] \in Nat /\ b[k] \in Nat /\ live[k] \in Nat
        BY <1>1, <2>1
      <4>2. base[k] = b[k] + IF l[k] - b[k] - live[k] < 0 THEN 0 ELSE l[k] - b[k] - live[k]
        BY <3>1
      <4>. QED BY <4>1, <4>2
    <3>3. base \in [Counters -> Nat]
      BY <3>1, <3>2
    <3>. QED BY <1>3, <2>1, <3>2, <3>3 DEF base, l, b, ss, Usage!Totals
  <2>4. CASE ~Usage!SomeLess(live, Usage!Minus(l, b))
    <3>1. base = b
      BY <2>2, <2>4
    <3>2. ASSUME NEW k \in Counters PROVE l[k] <= base[k] + live[k]
      <4>1. l[k] \in Nat /\ b[k] \in Nat /\ live[k] \in Nat
        BY <1>1, <2>1
      <4>2. ~(live[k] < l[k] - b[k])
        BY <2>4 DEF Usage!SomeLess, Usage!Minus
      <4>. QED BY <3>1, <4>1, <4>2
    <3>. QED BY <1>1, <1>3, <2>1, <3>1, <3>2 DEF base, l, b, ss, Usage!Totals
  <2>. QED BY <2>3, <2>4
<1>. QED BY <1>2, <1>3

LEMMA UsageStart == Usage!Init => Usage!UsageInv
<1> SUFFICES ASSUME Usage!Init PROVE Usage!UsageInv
  OBVIOUS
<1>1. /\ x1 = FALSE /\ x2 = [a \in UsageAccounts |-> Usage!Zero] /\ x3 = x2
      /\ x4.snapshots = <<>> /\ x4.baseline = Usage!Zero /\ x7 = FALSE
      /\ x6 \in Usage!Totals
      /\ \/ x5.snapshots = <<>> /\ x5.baseline = Usage!Zero
         \/ x5.snapshots = <<x6>> /\ x5.baseline = Usage!NoBaseline
  <2>1. [Counters -> 0 .. 1] \subseteq Usage!Totals
    BY DEF Usage!Totals
  <2>. QED BY <2>1, TotalsClosed DEF Usage!Init, Usage!NoStore
<1>2. <<>> \in Seq(Usage!Totals) /\ Len(<<>>) = 0 /\ <<x6>> \in Seq(Usage!Totals) /\ Len(<<x6>>) = 1
  BY <1>1
<1>3. Usage!TypeOK
  <2>1. PoolTyped(x2) /\ PoolTyped(x3)
    BY <1>1, TotalsClosed DEF PoolTyped
  <2>2. x4.snapshots \in Seq(Usage!Totals) /\ x5.snapshots \in Seq(Usage!Totals)
    BY <1>1, <1>2
  <2>. QED BY <1>1, <2>1, <2>2, TotalsClosed DEF Usage!TypeOK, PoolTyped
<1>4. Usage!TotalsGrow
  BY <1>1, <1>2 DEF Usage!TotalsGrow, Usage!Growing
<1>5. PoolTyped(x3) /\ CountsMore(x3, [a \in {} |-> Usage!Zero]) /\ PoolTyped([a \in {} |-> Usage!Zero])
  BY <1>1, TotalsClosed DEF PoolTyped, CountsMore, Usage!Zero
<1>6. \A k \in Counters : Usage!PoolTotals(x3)[k] = 0
  <2> TAKE k \in Counters
  <2>1. Counts([a \in {} |-> Usage!Zero], k, {}) /\ IsFiniteSet({})
    BY FS_EmptySet DEF Counts
  <2>2. Counted([a \in {} |-> Usage!Zero], k, {}) = 0
    BY <2>1, CountedFirst
  <2>3. Usage!PoolTotals([a \in {} |-> Usage!Zero])[k] = 0
    BY <1>5, <2>2, TotalsAre
  <2>4. Usage!PoolTotals(x3)[k] <= 0
    BY <1>5, <2>3, TotalsMore
  <2>5. Usage!PoolTotals(x3)[k] \in Nat
    BY <1>5, TotalsAre, TotalsClosed
  <2>. QED BY <2>4, <2>5
<1>7. Usage!BaselineOf(x5) = Usage!Zero /\ Usage!Live = x3
  BY <1>1 DEF Usage!BaselineOf, Usage!Live
<1>8. Usage!AtMost(Usage!Plus(Usage!Zero, Usage!PoolTotals(x3)), x6)
  <2>1. Usage!PoolTotals(x3) \in Usage!Totals
    BY <1>5, TotalsAre
  <2>2. \A k \in Counters : Usage!Plus(Usage!Zero, Usage!PoolTotals(x3))[k] = 0
    BY <1>6, <2>1, TotalsClosed DEF Usage!Zero
  <2>3. \A k \in Counters : 0 <= x6[k]
    BY <1>1, TotalsClosed
  <2>. QED BY <1>1, <2>1, <2>2, <2>3, TotalsClosed, AtMostIs
<1>9. Usage!AtMost(x6, x6)
  BY <1>1, TotalsClosed, AtMostIs
<1>10. x5.snapshots # <<>> => Usage!Last(x5.snapshots) = x6
  BY <1>1, <1>2 DEF Usage!Last
<1>11. Usage!NothingTwice
  BY <1>1, <1>7, <1>8, <1>9, <1>10 DEF Usage!NothingTwice
<1>. QED BY <1>3, <1>4, <1>11 DEF Usage!UsageInv

\* What the invariant says, without its operators.
Held(runs, pool, saved, st, file, used, twice) ==
    /\ runs \in BOOLEAN /\ twice \in BOOLEAN
    /\ PoolTyped(pool) /\ PoolTyped(saved)
    /\ st.snapshots \in Seq(Usage!Totals) /\ st.baseline \in Usage!Totals
    /\ file.snapshots \in Seq(Usage!Totals)
    /\ file.baseline \in Usage!Totals \cup {Usage!NoBaseline}
    /\ used \in Usage!Totals
    /\ Usage!Growing(st.snapshots) /\ Usage!Growing(file.snapshots)
    /\ ~twice =>
         \A k \in Counters :
           /\ file.snapshots # <<>> => file.snapshots[Len(file.snapshots)][k] <= used[k]
           /\ st.snapshots # <<>> => st.snapshots[Len(st.snapshots)][k] <= used[k]
           /\ Usage!BaselineOf(file)[k] + Usage!PoolTotals(IF runs THEN pool ELSE saved)[k] <= used[k]
           /\ runs => st.baseline[k] + Usage!PoolTotals(pool)[k] <= used[k]

LEMMA LastTyped ==
    ASSUME NEW ss \in Seq(Usage!Totals), ss # <<>>
    PROVE  Usage!Last(ss) = ss[Len(ss)] /\ ss[Len(ss)] \in Usage!Totals
<1>1. Len(ss) \in Nat /\ Len(ss) # 0
  OBVIOUS
<1>2. Len(ss) \in 1 .. Len(ss)
  BY <1>1
<1>. QED BY <1>2 DEF Usage!Last

LEMMA BaselineTyped ==
    ASSUME NEW file, file.baseline \in Usage!Totals \cup {Usage!NoBaseline}
    PROVE  Usage!BaselineOf(file) \in Usage!Totals
  BY TotalsClosed DEF Usage!BaselineOf

LEMMA HeldIs == Usage!UsageInv <=> Held(x1, x2, x3, x4, x5, x6, x7)
<1>1. Usage!TypeOK <=>
        /\ x1 \in BOOLEAN /\ x7 \in BOOLEAN
        /\ PoolTyped(x2) /\ PoolTyped(x3)
        /\ x4.snapshots \in Seq(Usage!Totals) /\ x4.baseline \in Usage!Totals
        /\ x5.snapshots \in Seq(Usage!Totals)
        /\ x5.baseline \in Usage!Totals \cup {Usage!NoBaseline}
        /\ x6 \in Usage!Totals
  BY DEF Usage!TypeOK, PoolTyped
<1>2. ASSUME Usage!TypeOK
      PROVE  Usage!NothingTwice <=>
        (~x7 => \A k \in Counters :
           /\ x5.snapshots # <<>> => x5.snapshots[Len(x5.snapshots)][k] <= x6[k]
           /\ x4.snapshots # <<>> => x4.snapshots[Len(x4.snapshots)][k] <= x6[k]
           /\ Usage!BaselineOf(x5)[k] + Usage!PoolTotals(IF x1 THEN x2 ELSE x3)[k] <= x6[k]
           /\ x1 => x4.baseline[k] + Usage!PoolTotals(x2)[k] <= x6[k])
  <2>1. ASSUME NEW ss \in Seq(Usage!Totals), ss # <<>>
        PROVE  Usage!AtMost(Usage!Last(ss), x6) <=> \A k \in Counters : ss[Len(ss)][k] <= x6[k]
    BY <1>1, <1>2, <2>1, LastTyped, AtMostIs
  <2>2. ASSUME NEW b \in Usage!Totals, NEW t \in Usage!Totals
        PROVE  Usage!AtMost(Usage!Plus(b, t), x6) <=> \A k \in Counters : b[k] + t[k] <= x6[k]
    <3>1. Usage!Plus(b, t) \in Usage!Totals /\ \A k \in Counters : Usage!Plus(b, t)[k] = b[k] + t[k]
      BY TotalsClosed
    <3>. QED BY <1>1, <1>2, <3>1, AtMostIs
  <2>3. Usage!PoolTotals(x2) \in Usage!Totals /\ Usage!PoolTotals(x3) \in Usage!Totals
    BY <1>1, <1>2, TotalsAre
  <2>4. Usage!BaselineOf(x5) \in Usage!Totals /\ x4.baseline \in Usage!Totals
    BY <1>1, <1>2, BaselineTyped
  <2>5. Usage!Live = (IF x1 THEN x2 ELSE x3) /\ Usage!PoolTotals(Usage!Live) \in Usage!Totals
    BY <2>3 DEF Usage!Live
  <2>6. x5.snapshots # <<>> => (Usage!AtMost(Usage!Last(x5.snapshots), x6)
           <=> \A k \in Counters : x5.snapshots[Len(x5.snapshots)][k] <= x6[k])
    BY <1>1, <1>2, <2>1
  <2>7. x4.snapshots # <<>> => (Usage!AtMost(Usage!Last(x4.snapshots), x6)
           <=> \A k \in Counters : x4.snapshots[Len(x4.snapshots)][k] <= x6[k])
    BY <1>1, <1>2, <2>1
  <2>8. Usage!AtMost(Usage!Plus(Usage!BaselineOf(x5), Usage!PoolTotals(Usage!Live)), x6)
           <=> \A k \in Counters :
                 Usage!BaselineOf(x5)[k] + Usage!PoolTotals(IF x1 THEN x2 ELSE x3)[k] <= x6[k]
    BY <2>2, <2>4, <2>5
  <2>9. Usage!AtMost(Usage!Plus(x4.baseline, Usage!PoolTotals(x2)), x6)
           <=> \A k \in Counters : x4.baseline[k] + Usage!PoolTotals(x2)[k] <= x6[k]
    BY <2>2, <2>3, <2>4
  <2>. QED BY <2>6, <2>7, <2>8, <2>9 DEF Usage!NothingTwice
<1>. QED BY <1>1, <1>2 DEF Held, Usage!UsageInv, Usage!TotalsGrow

LEMMA HeldIsNext == Usage!UsageInv' <=> Held(x1', x2', x3', x4', x5', x6', x7')
<1>1. (Usage!UsageInv <=> Held(x1, x2, x3, x4, x5, x6, x7))'
  BY HeldIs, PTL
<1>. QED BY <1>1

\* A step of the pool, after which it counts no more than before.
LEMMA PoolStepKept ==
    ASSUME Usage!UsageInv, UNCHANGED <<x4, x5, x6>>,
           x1' \in BOOLEAN, x1' => x1, x7' \in BOOLEAN, x7 => x7',
           PoolTyped(x2'), PoolTyped(x3'),
           ~x7' => CountsMore(IF x1' THEN x2' ELSE x3', IF x1 THEN x2 ELSE x3)
    PROVE  Usage!UsageInv'
<1>1. Held(x1, x2, x3, x4, x5, x6, x7)
  BY HeldIs
<1> DEFINE now == IF x1 THEN x2 ELSE x3
           then == IF x1' THEN x2' ELSE x3'
<1>2. PoolTyped(now) /\ PoolTyped(then)
  BY <1>1 DEF Held
<1>3. Usage!PoolTotals(now) \in Usage!Totals /\ Usage!PoolTotals(then) \in Usage!Totals
  BY <1>2, TotalsAre
<1>4. ~x7' => \A k \in Counters : Usage!PoolTotals(then)[k] <= Usage!PoolTotals(now)[k]
  BY <1>2, TotalsMore
<1>5. Usage!BaselineOf(x5) \in Usage!Totals /\ x4.baseline \in Usage!Totals /\ x6 \in Usage!Totals
  BY <1>1, BaselineTyped DEF Held
<1>6. ASSUME ~x7', NEW k \in Counters
      PROVE  /\ Usage!BaselineOf(x5)[k] + Usage!PoolTotals(then)[k] <= x6[k]
             /\ x1' => x4.baseline[k] + Usage!PoolTotals(then)[k] <= x6[k]
  <2>1. /\ Usage!BaselineOf(x5)[k] \in Nat /\ x4.baseline[k] \in Nat /\ x6[k] \in Nat
        /\ Usage!PoolTotals(now)[k] \in Nat /\ Usage!PoolTotals(then)[k] \in Nat
    BY <1>3, <1>5, TotalsClosed
  <2>2. Usage!PoolTotals(then)[k] <= Usage!PoolTotals(now)[k]
    BY <1>4, <1>6
  <2>3. /\ Usage!BaselineOf(x5)[k] + Usage!PoolTotals(now)[k] <= x6[k]
        /\ x1 => x4.baseline[k] + Usage!PoolTotals(now)[k] <= x6[k]
    BY <1>1, <1>6 DEF Held
  <2> HIDE DEF now, then
  <2>. QED BY <2>1, <2>2, <2>3
<1>7. Held(x1', x2', x3', x4, x5, x6, x7')
  BY <1>1, <1>6 DEF Held
<1>. QED BY <1>7, HeldIsNext

\* The pool as it is at the end of a step that only changes it.
LEMMA PoolOnlyKept ==
    ASSUME Usage!UsageInv, x1, x1' = x1, UNCHANGED <<x4, x5, x6, x7>>,
           PoolTyped(x2'), x3' \in {x2', x3, x2}, CountsMore(x2', x2)
    PROVE  Usage!UsageInv'
<1>1. PoolTyped(x2) /\ PoolTyped(x3) /\ x7 \in BOOLEAN
  BY HeldIs DEF Held
<1>. QED BY <1>1, PoolStepKept

LEMMA CountsSame == ASSUME NEW u, PoolTyped(u) PROVE CountsMore(u, u)
  BY TotalsClosed DEF PoolTyped, CountsMore

LEMMA PoolKept ==
    ASSUME Usage!UsageInv,
           Usage!Flush \/ Usage!Crash \/ Usage!Close
             \/ \E a \in UsageAccounts :
                   Usage!ResetUsage(a) \/ Usage!RemoveAccount(a) \/ Usage!AddAccount(a)
    PROVE  Usage!UsageInv'
<1>1. /\ x1 \in BOOLEAN /\ x7 \in BOOLEAN /\ PoolTyped(x2) /\ PoolTyped(x3)
      /\ CountsMore(x2, x2) /\ CountsMore(x3, x3)
  BY HeldIs, CountsSame DEF Held
<1>2. CASE Usage!Flush
  <2>1. x1 /\ x1' = x1 /\ x2' = x2 /\ x3' = x2 /\ UNCHANGED <<x4, x5, x6, x7>>
    BY <1>2 DEF Usage!Flush
  <2>. QED BY <1>1, <2>1, PoolOnlyKept
<1>3. CASE Usage!Crash
  <2>1. /\ x1 /\ x1' = FALSE /\ x7' = (x7 \/ Usage!CountedAgain)
        /\ x2' = x2 /\ x3' = x3 /\ UNCHANGED <<x4, x5, x6>>
    BY <1>3 DEF Usage!Crash
  <2>2. Usage!CountedAgain \in BOOLEAN
    BY DEF Usage!CountedAgain
  <2>3. ASSUME ~Usage!CountedAgain PROVE CountsMore(x3, x2)
    <3> SUFFICES ASSUME NEW a \in DOMAIN x3, NEW k \in Counters
                 PROVE  x3[a][k] <= IF a \in DOMAIN x2 THEN x2[a][k] ELSE 0
      BY DEF CountsMore
    <3>1. ~((IF a \in DOMAIN x2 THEN x2[a] ELSE Usage!Zero)[k] < x3[a][k])
      BY <2>3 DEF Usage!CountedAgain, Usage!SomeLess
    <3>2. x3[a][k] \in Nat
      BY <1>1, TotalsClosed DEF PoolTyped
    <3>3. CASE a \in DOMAIN x2
      <4>1. x2[a][k] \in Nat
        BY <1>1, <3>3, TotalsClosed DEF PoolTyped
      <4>. QED BY <3>1, <3>2, <3>3, <4>1
    <3>4. CASE a \notin DOMAIN x2
      <4>1. Usage!Zero[k] = 0
        BY DEF Usage!Zero
      <4>. QED BY <3>1, <3>2, <3>4, <4>1
    <3>. QED BY <3>3, <3>4
  <2>. QED BY <1>1, <2>1, <2>2, <2>3, PoolStepKept
<1>4. CASE Usage!Close
  <2>1. x1 /\ x1' = FALSE /\ x2' = x2 /\ x3' = x2 /\ UNCHANGED <<x4, x5, x6, x7>>
    BY <1>4 DEF Usage!Close
  <2>. QED BY <1>1, <2>1, PoolStepKept
<1>5. ASSUME NEW a \in UsageAccounts, Usage!ResetUsage(a) PROVE Usage!UsageInv'
  <2>1. /\ x1 /\ x1' = x1 /\ a \in DOMAIN x2 /\ x3' = x3 /\ UNCHANGED <<x4, x5, x6, x7>>
        /\ x2' = [x2 EXCEPT ![a] = Usage!Zero]
    BY <1>5 DEF Usage!ResetUsage
  <2>2. PoolTyped(x2')
    BY <1>1, <2>1, TotalsClosed DEF PoolTyped
  <2>3. CountsMore(x2', x2)
    BY <1>1, <2>1, TotalsClosed DEF CountsMore, PoolTyped, Usage!Zero
  <2>. QED BY <2>1, <2>2, <2>3, PoolOnlyKept
<1>6. ASSUME NEW a \in UsageAccounts, Usage!RemoveAccount(a) PROVE Usage!UsageInv'
  <2>1. /\ x1 /\ x1' = x1 /\ x3' = x3 /\ UNCHANGED <<x4, x5, x6, x7>>
        /\ x2' = [b \in DOMAIN x2 \ {a} |-> x2[b]]
    BY <1>6 DEF Usage!RemoveAccount
  <2>2. PoolTyped(x2')
    BY <1>1, <2>1 DEF PoolTyped
  <2>3. CountsMore(x2', x2)
    BY <1>1, <2>1, TotalsClosed DEF CountsMore, PoolTyped
  <2>. QED BY <2>1, <2>2, <2>3, PoolOnlyKept
<1>7. ASSUME NEW a \in UsageAccounts, Usage!AddAccount(a) PROVE Usage!UsageInv'
  <2>1. /\ x1 /\ x1' = x1 /\ a \notin DOMAIN x2 /\ x3' = x2' /\ UNCHANGED <<x4, x5, x6, x7>>
        /\ x2' = [b \in DOMAIN x2 \cup {a} |-> IF b = a THEN Usage!Zero ELSE x2[b]]
    BY <1>7 DEF Usage!AddAccount
  <2>2. PoolTyped(x2')
    BY <1>1, <2>1, TotalsClosed DEF PoolTyped
  <2>3. CountsMore(x2', x2)
    BY <1>1, <2>1, TotalsClosed DEF CountsMore, PoolTyped, Usage!Zero
  <2>. QED BY <2>1, <2>2, <2>3, PoolOnlyKept
<1>. QED BY <1>2, <1>3, <1>4, <1>5, <1>6, <1>7

LEMMA SnapshotKept == ASSUME Usage!UsageInv, Usage!Snapshot PROVE Usage!UsageInv'
<1> DEFINE live == Usage!PoolTotals(x2)
           base == Usage!Absorbed(live)
           ss == x4.snapshots
           total == Usage!Plus(base, live)
           all == Append(ss, total)
<1>1. Held(x1, x2, x3, x4, x5, x6, x7) /\ Usage!TypeOK
  BY HeldIs DEF Usage!UsageInv
<1>2. live \in Usage!Totals /\ ss \in Seq(Usage!Totals) /\ Usage!Growing(ss)
      /\ x4.baseline \in Usage!Totals /\ x6 \in Usage!Totals
  BY <1>1, TotalsAre DEF Held
<1>3. /\ base \in Usage!Totals
      /\ ss = <<>> => base = x4.baseline
      /\ ss # <<>> =>
            /\ ss[Len(ss)] \in Usage!Totals
            /\ \A k \in Counters :
                  /\ ss[Len(ss)][k] <= base[k] + live[k]
                  /\ base[k] + live[k] \in {ss[Len(ss)][k], x4.baseline[k] + live[k]}
  BY <1>1, <1>2, AbsorbedSound
<1>4. PICK first \in 1 .. Len(all) :
          x4' = [snapshots |-> SubSeq(all, first, Len(all)), baseline |-> base]
  BY DEF Usage!Snapshot
<1>5. /\ x1 /\ x5' \in {x4', x5} /\ UNCHANGED <<x1, x2, x3, x6, x7>>
  BY DEF Usage!Snapshot
<1> HIDE DEF live, base, all
<1>6. total \in Usage!Totals /\ \A k \in Counters : total[k] = base[k] + live[k]
  BY <1>2, <1>3, TotalsClosed
<1> HIDE DEF total
<1>7. ss # <<>> => Usage!AtMost(ss[Len(ss)], total)
  BY <1>3, <1>6, AtMostIs
<1>8. all \in Seq(Usage!Totals) /\ Usage!Growing(all) /\ all[Len(all)] = total
  BY <1>2, <1>6, <1>7, AppendedGrows DEF all
<1> DEFINE w == SubSeq(all, first, Len(all))
<1>9. /\ w \in Seq(Usage!Totals) /\ w # <<>> /\ Usage!Growing(w) /\ w[Len(w)] = total
  BY <1>8, SuffixGrows
<1> HIDE DEF ss, w
<1>10. x4'.snapshots = w /\ x4'.baseline = base
  BY <1>4 DEF w
<1>11. ASSUME ~x7, NEW k \in Counters PROVE total[k] <= x6[k]
  <2>1. x4.baseline[k] + live[k] <= x6[k] /\ (ss # <<>> => ss[Len(ss)][k] <= x6[k])
    BY <1>1, <1>5, <1>11 DEF Held, live, ss
  <2>2. total[k] = base[k] + live[k]
    BY <1>6
  <2>. QED BY <1>3, <2>1, <2>2
<1>12. \A k \in Counters : Usage!BaselineOf(x4')[k] <= base[k] /\ Usage!BaselineOf(x4')[k] \in Nat
                          /\ base[k] \in Nat /\ live[k] \in Nat /\ x6[k] \in Nat
  BY <1>2, <1>3, <1>10, TotalsClosed DEF Usage!BaselineOf, Usage!Zero
<1>13. ASSUME ~x7, NEW k \in Counters
       PROVE  /\ x5'.snapshots # <<>> => x5'.snapshots[Len(x5'.snapshots)][k] <= x6[k]
              /\ Usage!BaselineOf(x5')[k] + live[k] <= x6[k]
              /\ base[k] + live[k] <= x6[k]
  <2>1. base[k] + live[k] <= x6[k]
    BY <1>6, <1>11, <1>13
  <2>2. CASE x5' = x4'
    <3>1. Usage!BaselineOf(x4')[k] + live[k] <= x6[k]
      BY <1>12, <2>1
    <3>2. w[Len(w)][k] <= x6[k]
      BY <1>9, <1>11, <1>13
    <3>. QED BY <1>10, <2>1, <2>2, <3>1, <3>2
  <2>3. CASE x5' = x5
    BY <1>1, <1>5, <1>13, <2>1, <2>3 DEF Held, live
  <2>. QED BY <1>5, <2>2, <2>3
<1>14. /\ x5'.snapshots \in Seq(Usage!Totals) /\ Usage!Growing(x5'.snapshots)
       /\ x5'.baseline \in Usage!Totals \cup {Usage!NoBaseline}
  BY <1>1, <1>3, <1>5, <1>9, <1>10 DEF Held
<1>15. Held(x1', x2', x3', x4', x5', x6', x7')
  BY <1>1, <1>3, <1>5, <1>9, <1>10, <1>11, <1>13, <1>14 DEF Held, live
<1>. QED BY <1>15, HeldIsNext

LEMMA StartKept == ASSUME Usage!UsageInv, Usage!Start PROVE Usage!UsageInv'
<1> DEFINE live == Usage!PoolTotals(x3)
           base == Usage!Recovered(x5, live)
           ss == x5.snapshots
           found == [snapshots |-> ss, baseline |-> base]
<1>1. Held(x1, x2, x3, x4, x5, x6, x7)
  BY HeldIs
<1>2. live \in Usage!Totals /\ ss \in Seq(Usage!Totals) /\ Usage!Growing(ss) /\ x6 \in Usage!Totals
  BY <1>1, TotalsAre DEF Held
<1>3. /\ ~x1 /\ x1' = TRUE /\ x2' = x3 /\ x4' = found /\ x5' \in {found, x5}
      /\ UNCHANGED <<x3, x6, x7>>
  BY DEF Usage!Start
<1>4. /\ base \in Usage!Totals
      /\ \A k \in Counters :
            \/ base[k] = Usage!BaselineOf(x5)[k]
            \/ ss # <<>> /\ base[k] + live[k] = ss[Len(ss)][k]
  <2>1. CASE x5.baseline # Usage!NoBaseline
    BY <1>1, <2>1 DEF Held, Usage!Recovered, Usage!BaselineOf
  <2>2. CASE x5.baseline = Usage!NoBaseline /\ ss = <<>>
    BY <2>2, TotalsClosed DEF Usage!Recovered, Usage!BaselineOf
  <2>3. CASE x5.baseline = Usage!NoBaseline /\ ss # <<>>
    <3> DEFINE l == ss[Len(ss)]
    <3>1. Usage!Last(ss) = l /\ l \in [Counters -> Nat]
      BY <1>2, <2>3, LastTyped DEF Usage!Totals
    <3>2. base = Usage!AtLeastZero(Usage!Minus(l, live))
      BY <2>3, <3>1 DEF Usage!Recovered
    <3>3. Usage!BaselineOf(x5) = Usage!Zero
      BY <2>3 DEF Usage!BaselineOf
    <3> HIDE DEF l, base, live
    <3>4. base = [k \in Counters |-> IF l[k] - live[k] < 0 THEN 0 ELSE l[k] - live[k]]
      BY <3>2 DEF Usage!AtLeastZero, Usage!Minus
    <3>5. ASSUME NEW k \in Counters
          PROVE  base[k] \in Nat /\ (base[k] = 0 \/ base[k] + live[k] = l[k])
      <4>1. l[k] \in Nat /\ live[k] \in Nat
        BY <1>2, <3>1, TotalsClosed
      <4>2. base[k] = IF l[k] - live[k] < 0 THEN 0 ELSE l[k] - live[k]
        BY <3>4
      <4>. QED BY <4>1, <4>2
    <3>6. base \in Usage!Totals
      BY <3>4, <3>5 DEF Usage!Totals
    <3>. QED BY <2>3, <3>3, <3>5, <3>6 DEF l, Usage!Zero
  <2>. QED BY <2>1, <2>2, <2>3
<1> HIDE DEF live, base
<1>5. ASSUME ~x7, NEW k \in Counters
      PROVE  /\ ss # <<>> => ss[Len(ss)][k] <= x6[k]
             /\ Usage!BaselineOf(x5)[k] + live[k] <= x6[k]
             /\ base[k] + live[k] <= x6[k]
  <2>1. /\ ss # <<>> => ss[Len(ss)][k] <= x6[k]
        /\ Usage!BaselineOf(x5)[k] + live[k] <= x6[k]
    BY <1>1, <1>3, <1>5 DEF Held, live
  <2>. QED BY <1>4, <2>1
<1>6. found.snapshots = ss /\ found.baseline = base
  OBVIOUS
<1> HIDE DEF found, ss
<1>7. \A k \in Counters : Usage!BaselineOf(found)[k] <= base[k] /\ Usage!BaselineOf(found)[k] \in Nat
                          /\ base[k] \in Nat /\ live[k] \in Nat /\ x6[k] \in Nat
  BY <1>2, <1>4, <1>6, TotalsClosed DEF Usage!BaselineOf, Usage!Zero
<1>8. x5'.snapshots = ss /\ x5'.baseline \in Usage!Totals \cup {Usage!NoBaseline}
  BY <1>1, <1>3, <1>4, <1>6 DEF Held, ss
<1>9. ASSUME ~x7, NEW k \in Counters PROVE Usage!BaselineOf(x5')[k] + live[k] <= x6[k]
  <2>1. Usage!BaselineOf(found)[k] + live[k] <= x6[k]
    BY <1>5, <1>7, <1>9
  <2>2. Usage!BaselineOf(x5)[k] + live[k] <= x6[k]
    BY <1>5, <1>9
  <2>. QED BY <1>3, <2>1, <2>2
<1>10. x4'.snapshots = ss /\ x4'.baseline = base
  BY <1>3, <1>6
<1>11. Held(x1', x2', x3', x4', x5', x6', x7')
  BY <1>1, <1>2, <1>3, <1>4, <1>5, <1>8, <1>9, <1>10 DEF Held, live
<1>. QED BY <1>11, HeldIsNext

LEMMA RecordUsageKept ==
    ASSUME Usage!UsageInv, NEW a \in UsageAccounts, NEW amount \in [Counters -> 0 .. 1],
           Usage!RecordUsage(a, amount)
    PROVE  Usage!UsageInv'
<1>1. Held(x1, x2, x3, x4, x5, x6, x7)
  BY HeldIs
<1>2. /\ x1 /\ a \in DOMAIN x2 /\ x6' = Usage!Plus(x6, amount)
      /\ x2' = [x2 EXCEPT ![a] = Usage!Plus(@, amount)]
      /\ UNCHANGED <<x1, x3, x4, x5, x7>>
  BY DEF Usage!RecordUsage
<1>3. amount \in Usage!Totals
  BY DEF Usage!Totals
<1>4. /\ PoolTyped(x2')
      /\ \A k \in Counters : Usage!PoolTotals(x2')[k] = Usage!PoolTotals(x2)[k] + amount[k]
  BY <1>1, <1>2, <1>3, TotalsGrown DEF Held
<1>5. x6' \in Usage!Totals /\ \A k \in Counters : x6'[k] = x6[k] + amount[k]
  BY <1>1, <1>2, <1>3, TotalsClosed DEF Held
<1>6. Usage!PoolTotals(x2) \in Usage!Totals /\ Usage!BaselineOf(x5) \in Usage!Totals
  BY <1>1, TotalsAre, BaselineTyped DEF Held
<1>7. ASSUME ~x7, NEW k \in Counters
      PROVE  /\ x5.snapshots # <<>> => x5.snapshots[Len(x5.snapshots)][k] <= x6'[k]
             /\ x4.snapshots # <<>> => x4.snapshots[Len(x4.snapshots)][k] <= x6'[k]
             /\ Usage!BaselineOf(x5)[k] + Usage!PoolTotals(x2')[k] <= x6'[k]
             /\ x4.baseline[k] + Usage!PoolTotals(x2')[k] <= x6'[k]
  <2>1. /\ x6[k] \in Nat /\ amount[k] \in Nat /\ x4.baseline[k] \in Nat
        /\ Usage!PoolTotals(x2)[k] \in Nat /\ Usage!BaselineOf(x5)[k] \in Nat
    BY <1>1, <1>3, <1>6, TotalsClosed DEF Held
  <2>2. ASSUME NEW ss \in Seq(Usage!Totals), ss # <<>>, ss[Len(ss)][k] <= x6[k]
        PROVE  ss[Len(ss)][k] <= x6[k] + amount[k]
    <3>1. ss[Len(ss)][k] \in Nat
      BY <2>2, LastTyped, TotalsClosed
    <3>. QED BY <2>1, <2>2, <3>1
  <2>3. /\ x5.snapshots # <<>> => x5.snapshots[Len(x5.snapshots)][k] <= x6[k]
        /\ x4.snapshots # <<>> => x4.snapshots[Len(x4.snapshots)][k] <= x6[k]
        /\ Usage!BaselineOf(x5)[k] + Usage!PoolTotals(x2)[k] <= x6[k]
        /\ x4.baseline[k] + Usage!PoolTotals(x2)[k] <= x6[k]
        /\ x4.snapshots \in Seq(Usage!Totals) /\ x5.snapshots \in Seq(Usage!Totals)
    BY <1>1, <1>2, <1>7 DEF Held
  <2>4. /\ x5.snapshots # <<>> => x5.snapshots[Len(x5.snapshots)][k] <= x6'[k]
        /\ x4.snapshots # <<>> => x4.snapshots[Len(x4.snapshots)][k] <= x6'[k]
    BY <1>5, <2>2, <2>3
  <2>5. Usage!PoolTotals(x2')[k] = Usage!PoolTotals(x2)[k] + amount[k] /\ x6'[k] = x6[k] + amount[k]
    BY <1>4, <1>5
  <2>. QED BY <2>1, <2>3, <2>4, <2>5
<1>8. Held(x1, x2', x3, x4, x5, x6', x7)
  BY <1>1, <1>2, <1>4, <1>5, <1>7 DEF Held
<1>. QED BY <1>2, <1>8, HeldIsNext

LEMMA UsageStep ==
    ASSUME Usage!UsageInv, Usage!Next \/ UNCHANGED UsageVars
    PROVE  Usage!UsageInv'
<1>1. CASE Usage!Snapshot
  BY <1>1, SnapshotKept
<1>2. CASE Usage!Start
  BY <1>2, StartKept
<1>3. ASSUME NEW a \in UsageAccounts, NEW amount \in [Counters -> 0 .. 1], Usage!RecordUsage(a, amount)
      PROVE  Usage!UsageInv'
  BY <1>3, RecordUsageKept
<1>4. CASE UNCHANGED UsageVars
  <2>1. Held(x1', x2', x3', x4', x5', x6', x7')
    BY <1>4, HeldIs DEF UsageVars
  <2>. QED BY <2>1, HeldIsNext
<1>. QED BY <1>1, <1>2, <1>3, <1>4, PoolKept DEF Usage!Next

LEMMA UsageSafe == ASSUME Usage!UsageInv PROVE Usage!TypeOK /\ Usage!HistoryAddsUp
<1> DEFINE ss == x4.snapshots
<1>1. ss \in Seq(Usage!Totals) /\ Usage!Growing(ss)
  BY HeldIs DEF Held
<1>2. ASSUME NEW i \in 1 .. Len(ss)
      PROVE  LET window == SubSeq(ss, i, Len(ss))
             IN  Usage!Bucket(Usage!HistoryOf(window)) = Usage!Minus(Usage!Last(window), Head(window))
  <2> DEFINE window == SubSeq(ss, i, Len(ss))
  <2>1. window \in Seq(Usage!Totals) /\ window # <<>> /\ Usage!Growing(window)
    BY <1>1, SuffixGrows
  <2> HIDE DEF window
  <2>2. Usage!Last(window) = window[Len(window)] /\ Head(window) = window[1]
    BY <2>1 DEF Usage!Last
  <2>3. Usage!Bucket(Usage!HistoryOf(window)) = Usage!Minus(Usage!Last(window), Head(window))
    BY <2>1, <2>2, DifferencesAddUp
  <2>. QED BY <2>3 DEF window
<1>. QED BY <1>2 DEF Usage!UsageInv, Usage!NothingTwice, Usage!HistoryAddsUp

-----------------------------------------------------------------------------
(* What the dashboard reads of the history *)

\* What the dashboard reads: the recent records, and those of one time.
LEMMA HistoryFlat == ASSUME NEW s PROVE History!FlattenSeq(s) = Seqs!FlattenSeq(s)
  BY DEF History!FlattenSeq, Seqs!FlattenSeq

RecentRecords(hours) == {r \in History!Record : History!Recent(r, hours)}
RecentAt(hours, t) == {r \in RecentRecords(hours) : r.at = t}
ByTime(hours) == [i \in 1 .. MaxClock + 1 |-> RecentAt(hours, MaxClock + 1 - i)]

LEMMA AtOneTime ==
    ASSUME x2 \in History!Ledgers, NEW hours, NEW t
    PROVE  [i \in DOMAIN x2 |-> IF /\ x2[i].at = t /\ History!Recent(x2[i], hours)
                                   /\ x2[i].outcome \in Outcomes
                                THEN <<x2[i]>> ELSE <<>>]
             = Mapped(Chooser(RecentAt(hours, t), History!Record), x2)
<1>1. ASSUME NEW i \in DOMAIN x2
      PROVE  (IF /\ x2[i].at = t /\ History!Recent(x2[i], hours) /\ x2[i].outcome \in Outcomes
              THEN <<x2[i]>> ELSE <<>>) = Chooser(RecentAt(hours, t), History!Record)[x2[i]]
  <2>1. x2[i] \in History!Record
    BY DEF History!Ledgers
  <2>2. x2[i].outcome \in Outcomes
    BY <2>1 DEF History!Record
  <2>3. x2[i] \in RecentAt(hours, t) <=> x2[i].at = t /\ History!Recent(x2[i], hours)
    BY <2>1 DEF RecentAt, RecentRecords
  <2>. QED BY <2>1, <2>2, <2>3, ChooserIs
<1>. QED BY <1>1 DEF Mapped

LEMMA MatchingIs ==
    ASSUME x2 \in History!Ledgers, NEW hours
    PROVE  History!Matching(hours, Outcomes)
             = Seqs!FlattenSeq(Picked(ByTime(hours), x2, History!Record))
<1> DEFINE of(t) == Seqs!FlattenSeq([i \in DOMAIN x2 |->
                       IF /\ x2[i].at = t /\ History!Recent(x2[i], hours)
                          /\ x2[i].outcome \in Outcomes
                         THEN <<x2[i]>> ELSE <<>>])
<1>1. History!Matching(hours, Outcomes)
        = Seqs!FlattenSeq([i \in 1 .. MaxClock + 1 |-> of(MaxClock + 1 - i)])
  BY HistoryFlat DEF History!Matching
<1>2. \A t : of(t) = FlatMap(Chooser(RecentAt(hours, t), History!Record), x2)
  BY AtOneTime DEF FlatMap
<1> HIDE DEF of
<1>3. [i \in 1 .. MaxClock + 1 |-> of(MaxClock + 1 - i)] = Picked(ByTime(hours), x2, History!Record)
  <2>1. DOMAIN ByTime(hours) = 1 .. MaxClock + 1
        /\ \A i \in 1 .. MaxClock + 1 : ByTime(hours)[i] = RecentAt(hours, MaxClock + 1 - i)
    BY DEF ByTime
  <2>. QED BY <1>2, <2>1 DEF Picked
<1>. QED BY <1>1, <1>3

RecentPositions(hours) == {i \in DOMAIN x2 : History!Recent(x2[i], hours)}

LEMMA MatchingLength ==
    ASSUME x2 \in History!Ledgers, NEW hours
    PROVE  /\ History!Matching(hours, Outcomes) \in Seq(History!Record)
           /\ Len(History!Matching(hours, Outcomes)) = Cardinality(RecentPositions(hours))
<1> DEFINE P == ByTime(hours)
           n == MaxClock + 1
<1>1. n \in Nat /\ DOMAIN P = 1 .. n /\ \A i \in 1 .. n : P[i] = RecentAt(hours, n - i)
  BY HistoryAssumption DEF ByTime
<1>2. \A r \in History!Record : r.at \in 0 .. MaxClock
  BY DEF History!Record
<1> HIDE DEF P
<1>3. Disjoint(P, n)
  <2>1. ASSUME NEW i \in 1 .. n, NEW j \in 1 .. n, i # j PROVE P[i] \cap P[j] = {}
    <3>1. n - i # n - j
      BY <1>1, <2>1
    <3>2. P[i] = RecentAt(hours, n - i) /\ P[j] = RecentAt(hours, n - j)
      BY <1>1
    <3> HIDE DEF n
    <3>. QED BY <3>1, <3>2 DEF RecentAt
  <2>. QED BY <2>1 DEF Disjoint
<1>4. Joint(P, n) = RecentRecords(hours)
  <2>1. ASSUME NEW r \in RecentRecords(hours) PROVE \E i \in 1 .. n : r \in P[i]
    <3>1. r.at \in 0 .. MaxClock
      BY <1>2 DEF RecentRecords
    <3> DEFINE i == n - r.at
    <3>2. i \in 1 .. n /\ n - i = r.at
      BY <3>1, HistoryAssumption
    <3>3. r \in RecentAt(hours, n - i)
      BY <3>2 DEF RecentAt
    <3> HIDE DEF i, n
    <3>. QED BY <1>1, <3>2, <3>3
  <2>2. ASSUME NEW i \in 1 .. n, NEW r \in P[i] PROVE r \in RecentRecords(hours)
    <3>1. P[i] = RecentAt(hours, n - i)
      BY <1>1
    <3>. QED BY <2>2, <3>1 DEF RecentAt
  <2> HIDE DEF n
  <2>. QED BY <2>1, <2>2 DEF Joint
<1>5. Positions(x2, Joint(P, n)) = RecentPositions(hours)
  <2>1. DOMAIN x2 = 1 .. Len(x2) /\ \A i \in 1 .. Len(x2) : x2[i] \in History!Record
    BY DEF History!Ledgers
  <2> HIDE DEF n
  <2>. QED BY <1>4, <2>1 DEF Positions, RecentPositions, RecentRecords
<1>6. x2 \in Seq(History!Record)
  BY DEF History!Ledgers
<1>7. History!Matching(hours, Outcomes) = Seqs!FlattenSeq(Picked(P, x2, History!Record))
  BY MatchingIs DEF P
<1> HIDE DEF n
<1>8. /\ Seqs!FlattenSeq(Picked(P, x2, History!Record)) \in Seq(History!Record)
      /\ Len(Seqs!FlattenSeq(Picked(P, x2, History!Record))) = Cardinality(Positions(x2, Joint(P, n)))
  BY <1>1, <1>3, <1>6, PartsLength
<1>. QED BY <1>5, <1>7, <1>8

LEMMA PagesShow ==
    ASSUME x2 \in History!Ledgers, NEW hours, NEW size \in 1 .. MaxRecords, MaxRecords \in Nat
    PROVE  History!FlattenSeq([p \in 1 .. Len(History!Matching(hours, Outcomes)) |->
                                  History!Page(hours, Outcomes, p, size)])
             = History!Matching(hours, Outcomes)
<1> DEFINE all == History!Matching(hours, Outcomes)
<1>1. all \in Seq(History!Record)
  BY MatchingLength
<1>2. size \in Nat /\ 1 <= size
  OBVIOUS
<1>3. \A p : History!Page(hours, Outcomes, p, size) = PageOf(all, size, p)
  BY DEF History!Page, PageOf, PageEnd
<1>4. [p \in 1 .. Len(all) |-> History!Page(hours, Outcomes, p, size)]
        = [p \in 1 .. Len(all) |-> PageOf(all, size, p)]
  BY <1>3
<1> HIDE DEF all
<1>5. Seqs!FlattenSeq([p \in 1 .. Len(all) |-> PageOf(all, size, p)]) = all
  BY <1>1, <1>2, PagesJoin
<1>. QED BY <1>4, <1>5, HistoryFlat DEF all

\* The sizes of the groups that g makes of a finite set add up to those it puts in S.
Fibre(I, g, T) == {i \in I : g[i] \in T}

LEMMA FibresAddUp ==
    ASSUME NEW I, IsFiniteSet(I), NEW g, NEW S, IsFiniteSet(S), NEW u, NEW k,
           \A a \in S : u[a][k] = Cardinality(Fibre(I, g, {a}))
    PROVE  Counted(u, k, S) = Cardinality(Fibre(I, g, S))
<1> DEFINE bad == {T \in SUBSET S : Counted(u, k, T) # Cardinality(Fibre(I, g, T))}
<1>1. ASSUME NEW T PROVE IsFiniteSet(Fibre(I, g, T)) /\ Cardinality(Fibre(I, g, T)) \in Nat
  <2>1. Fibre(I, g, T) \in SUBSET I
    BY DEF Fibre
  <2>. QED BY <2>1, FS_Subset, FS_CardinalityType
<1>2. ASSUME NEW T \in SUBSET S PROVE IsFiniteSet(T) /\ Counts(u, k, T)
  BY <1>1, FS_Subset DEF Counts
<1>3. ASSUME bad # {} PROVE FALSE
  <2>1. PICK T \in bad : \A t \in bad : Cardinality(T) <= Cardinality(t)
    BY <1>3, SmallestSet
  <2>2. T \in SUBSET S /\ Counted(u, k, T) # Cardinality(Fibre(I, g, T)) /\ IsFiniteSet(T)
        /\ Counts(u, k, T)
    BY <1>2, <2>1
  <2>3. T # {}
    <3>1. Counted(u, k, {}) = 0
      <4>1. IsFiniteSet({}) /\ Counts(u, k, {})
        BY <1>2
      <4>. QED BY <4>1, CountedFirst
    <3>2. Fibre(I, g, {}) = {} /\ Cardinality({}) = 0
      BY FS_EmptySet DEF Fibre
    <3>. QED BY <2>2, <3>1, <3>2
  <2> DEFINE p == Pick(T)
             rest == T \ {p}
  <2>4. p \in T /\ Counted(u, k, T) = u[p][k] + Counted(u, k, rest)
    BY <2>2, <2>3, CountedFirst
  <2>5. Cardinality(rest) < Cardinality(T) /\ Cardinality(T) \in Nat /\ Cardinality(rest) \in Nat
    BY <2>2, <2>4, OneFewer
  <2> HIDE DEF p
  <2>6. rest \in SUBSET S /\ rest \notin bad
    <3>1. rest \in SUBSET S
      BY <2>2
    <3> HIDE DEF bad, rest
    <3>. QED BY <2>1, <2>5, <3>1
  <2>7. Counted(u, k, rest) = Cardinality(Fibre(I, g, rest))
    BY <2>6
  <2> DEFINE A == Fibre(I, g, {p})
             B == Fibre(I, g, rest)
  <2>8. Fibre(I, g, T) = A \cup B /\ A \cap B = {}
    BY <2>4 DEF Fibre
  <2>9. u[p][k] = Cardinality(A)
    BY <2>2, <2>4
  <2>10. IsFiniteSet(A) /\ IsFiniteSet(B) /\ Cardinality(A) \in Nat /\ Cardinality(B) \in Nat
    BY <1>1
  <2> HIDE DEF A, B, rest
  <2>11. Cardinality(A \cup B) = Cardinality(A) + Cardinality(B) - Cardinality(A \cap B)
    BY <2>10, FS_Union
  <2>12. Cardinality(A \cap B) = 0
    <3>1. Cardinality({}) = 0
      BY FS_EmptySet
    <3>. QED BY <2>8, <3>1
  <2>13. Cardinality(A \cup B) = Cardinality(A) + Cardinality(B)
    BY <2>10, <2>11, <2>12
  <2>14. Counted(u, k, rest) = Cardinality(B)
    BY <2>7 DEF B
  <2>. QED BY <2>2, <2>4, <2>8, <2>9, <2>13, <2>14
<1>4. S \in SUBSET S
  OBVIOUS
<1>. QED BY <1>3, <1>4

SumsOfGroups(f, hours, S) ==
    f = [s \in SUBSET S |-> IF s = {} THEN 0
           ELSE History!GroupCount(hours, Pick(s), Outcomes) + f[s \ {Pick(s)}]]

LEMMA GroupSumIs ==
    ASSUME NEW hours, NEW S
    PROVE  History!MapThenSumSet(LAMBDA k : History!GroupCount(hours, k, Outcomes), S)
             = (CHOOSE f : SumsOfGroups(f, hours, S))[S]
  BY DEF SumsOfGroups, Pick, History!MapThenSumSet, History!MapThenFoldSet

\* The groups together count the recent records.
LEMMA GroupsAddUp ==
    ASSUME x2 \in History!Ledgers, NEW hours
    PROVE  History!MapThenSumSet(LAMBDA k : History!GroupCount(hours, k, Outcomes),
                                 History!Groups(hours))
             = Cardinality(RecentPositions(hours))
<1> DEFINE S == History!Groups(hours)
           I == RecentPositions(hours)
           g == [i \in I |-> x2[i].key]
           u == [a \in S |-> [c \in {0} |-> History!GroupCount(hours, a, Outcomes)]]
<1>1. IsFiniteSet(I)
  <2>1. Len(x2) \in Nat /\ DOMAIN x2 = 1 .. Len(x2)
    BY DEF History!Ledgers
  <2>2. IsFiniteSet(DOMAIN x2)
    BY <2>1, FS_Interval
  <2>. QED BY <2>2, FS_Subset DEF RecentPositions
<1>2. S = {x2[i].key : i \in I}
  BY DEF History!Groups, RecentPositions
<1>3. IsFiniteSet(S)
  <2>1. g \in [I -> S] /\ \A a \in S : \E i \in I : g[i] = a
    BY <1>2
  <2>2. g \in Surjection(I, S)
    BY <2>1 DEF Surjection
  <2> HIDE DEF S, I, g
  <2>. QED BY <1>1, <2>2, FS_Surjection
<1>4. \A i \in I : x2[i].outcome \in Outcomes
  <2>1. ASSUME NEW i \in I PROVE x2[i].outcome \in Outcomes
    <3>1. i \in DOMAIN x2
      BY DEF RecentPositions
    <3>2. x2[i] \in History!Record
      BY <3>1 DEF History!Ledgers
    <3>. QED BY <3>2 DEF History!Record
  <2>. QED BY <2>1
<1>5. ASSUME NEW a PROVE History!GroupCount(hours, a, Outcomes) = Cardinality(Fibre(I, g, {a}))
  <2>1. {i \in DOMAIN x2 : /\ History!Recent(x2[i], hours) /\ x2[i].key = a
                           /\ x2[i].outcome \in Outcomes} = Fibre(I, g, {a})
    BY <1>4 DEF RecentPositions, Fibre
  <2>. QED BY <2>1, HistoryCounts DEF History!GroupCount
<1>6. \A a \in S : u[a][0] = History!GroupCount(hours, a, Outcomes)
  OBVIOUS
<1>7. Fibre(I, g, S) = I
  BY <1>2 DEF Fibre
<1>8. Counts(u, 0, S)
  <2>1. ASSUME NEW a \in S PROVE u[a][0] \in Nat
    <3>1. Fibre(I, g, {a}) \in SUBSET I
      BY DEF Fibre
    <3> HIDE DEF I, g, u, S
    <3>2. Cardinality(Fibre(I, g, {a})) \in Nat
      BY <1>1, <3>1, FS_Subset, FS_CardinalityType
    <3>. QED BY <1>5, <1>6, <3>2
  <2>. QED BY <2>1 DEF Counts
<1> HIDE DEF S, I, g, u
<1>9. Counted(u, 0, S) = Cardinality(I)
  BY <1>1, <1>3, <1>5, <1>6, <1>7, FibresAddUp
<1>10. \A f : SumsOfGroups(f, hours, S) <=> SumsOf(f, u, 0, S)
  <2>1. \A s \in SUBSET S : s # {} => u[Pick(s)][0] = History!GroupCount(hours, Pick(s), Outcomes)
    BY <1>6 DEF Pick
  <2>. QED BY <2>1 DEF SumsOfGroups, SumsOf
<1> DEFINE h1 == CHOOSE f : SumsOfGroups(f, hours, S)
           h2 == CHOOSE f : SumsOf(f, u, 0, S)
<1>11. SumsOf(h1, u, 0, S) /\ SumsOf(h2, u, 0, S)
  <2>1. PICK f : SumsOf(f, u, 0, S)
    BY <1>3, <1>8, SumsExist
  <2>2. SumsOfGroups(f, hours, S)
    BY <1>10, <2>1
  <2>. QED BY <1>10, <2>1, <2>2
<1> HIDE DEF h1, h2
<1>12. h1[S] = h2[S]
  <2>1. S \in SUBSET S
    OBVIOUS
  <2>. QED BY <1>3, <1>11, <2>1, SumsAgree
<1>13. Counted(u, 0, S) = h2[S]
  BY CountedIs DEF h2
<1>. QED BY <1>9, <1>12, <1>13, GroupSumIs DEF h1, S, I

LEMMA HistoryShown ==
    ASSUME History!TypeOK
    PROVE  History!PagesShowAll
<1>1. x2 \in History!Ledgers
  BY DEF History!TypeOK
<1>. QED BY <1>1, PagesShow, MatchingLength, GroupsAddUp, HistoryAssumption DEF History!PagesShowAll

-----------------------------------------------------------------------------
(* The parts as they run in KeptSpec *)

\* What holds of the logins holds of them whichever part was chosen to run.
LEMMA LoginsPartStart == KeptInit => (part = "logins" => OAuth!LoginsInv)
  BY LoginsStart DEF KeptInit

LEMMA LoginsPartStep ==
    ASSUME part = "logins" => OAuth!LoginsInv, KeptNext \/ UNCHANGED allVars
    PROVE  (part = "logins" => OAuth!LoginsInv)'
<1>1. part' = part
  BY DEF KeptNext, allVars
<1>2. CASE part = "logins"
  <2>1. OAuth!Next \/ UNCHANGED LoginVars
    BY <1>2 DEF KeptNext, allVars, from1, from7, LoginVars
  <2>. QED BY <1>1, <1>2, <2>1, LoginsStep
<1>. QED BY <1>1, <1>2

\* The code of a login is exchanged once, whoever brings it, a login that is
\* said to be completed has its account, and one callback server listens
\* (oauth-pkce.ts, routes/auth.ts).
THEOREM LoginsHold == KeptSpec => []LoginsSound
<1>1. (part = "logins" => OAuth!LoginsInv) => LoginsSound
  BY LoginsSafe DEF LoginsSound
<1>. QED BY LoginsPartStart, LoginsPartStep, <1>1, PTL DEF KeptSpec

LEMMA CataloguePartStart == KeptInit => (part = "catalogue" => Catalogue!ModelsInv)
  BY CatalogueStart DEF KeptInit

LEMMA CataloguePartStep ==
    ASSUME part = "catalogue" => Catalogue!ModelsInv, KeptNext \/ UNCHANGED allVars
    PROVE  (part = "catalogue" => Catalogue!ModelsInv)'
<1>1. part' = part
  BY DEF KeptNext, allVars
<1>2. CASE part = "catalogue"
  <2>1. Catalogue!Next \/ UNCHANGED CatalogueVars
    BY <1>2 DEF KeptNext, allVars, from1, from7, CatalogueVars
  <2>. QED BY <1>1, <1>2, <2>1, CatalogueStep
<1>. QED BY <1>1, <1>2

\* A model some plan is routed to is one the catalogue knows, under its id and
\* with any suffixes, for any lists, aliases and orders of the answers
\* (ModelStore), provided no model is named as an alias.
THEOREM RoutedModelsKnown == KeptSpec => []RoutedIsKnown
<1>1. (part = "catalogue" => Catalogue!ModelsInv) => RoutedIsKnown
  BY CatalogueSafe DEF RoutedIsKnown
<1>. QED BY CataloguePartStart, CataloguePartStep, <1>1, PTL DEF KeptSpec

\* A running server has exactly one of a timer and a fetch of its loop, for any
\* number of retries, until the loop is stopped (ModelFetcher).
THEOREM FetchLoopHolds == KeptSpec => []FetchLoopGoesOn
<1>1. (part = "catalogue" => Catalogue!ModelsInv) => FetchLoopGoesOn
  BY CatalogueSafe DEF FetchLoopGoesOn
<1>. QED BY CataloguePartStart, CataloguePartStep, <1>1, PTL DEF KeptSpec

LEMMA SettingsPartStart == KeptInit => (part = "settings" => Config!SettingsInv)
  BY SettingsStart DEF KeptInit

LEMMA SettingsPartStep ==
    ASSUME part = "settings" => Config!SettingsInv, KeptNext \/ UNCHANGED allVars
    PROVE  (part = "settings" => Config!SettingsInv)'
<1>1. part' = part
  BY DEF KeptNext, allVars
<1>2. CASE part = "settings"
  <2>1. Config!Next \/ UNCHANGED SettingVars
    BY <1>2 DEF KeptNext, allVars, from1, from7, from8, from9, from10, from11, from12,
                from13, from14, SettingVars
  <2>. QED BY <1>1, <1>2, <2>1, SettingsStep
<1>. QED BY <1>1, <1>2

\* What was saved last is in force and in the file, under any environment; a
\* remote request takes a key away only if the key changed meanwhile; the
\* version in force is the one applied, until the files are read again
\* (config.ts, routes/admin/settings.ts, update-checker.ts).
THEOREM SettingsHold == KeptSpec => []SettingsSound
<1>1. (part = "settings" => Config!SettingsInv) => SettingsSound
  BY SettingsSafe DEF SettingsSound
<1>. QED BY SettingsPartStart, SettingsPartStep, <1>1, PTL DEF KeptSpec

LEMMA TalksPartStart == KeptInit => (part = "talks" => Talks!TalksInv)
  BY TalksStart DEF KeptInit

LEMMA TalksPartStep ==
    ASSUME part = "talks" => Talks!TalksInv, KeptNext \/ UNCHANGED allVars
    PROVE  (part = "talks" => Talks!TalksInv)'
<1>1. part' = part
  BY DEF KeptNext, allVars
<1>2. CASE part = "talks"
  <2>1. Talks!Next \/ UNCHANGED TalkVars
    BY <1>2 DEF KeptNext, allVars, from1, from7, TalkVars
  <2>. QED BY <1>1, <1>2, <2>1, TalksStep
<1>. QED BY <1>1, <1>2

\* The table of conversations says of a response what is true of it, and a
\* timely follow-up has its conversation, for any number of requests, failovers
\* and links, whatever the time to live (SessionAffinityMap, /v1/responses).
THEOREM ConversationsHold == KeptSpec => []ConversationsKept
<1>1. (part = "talks" => Talks!TalksInv) => ConversationsKept
  BY DEF ConversationsKept, Talks!ConversationsKept, Talks!TalksInv, Talks!TalkTyped
<1>. QED BY TalksPartStart, TalksPartStep, <1>1, PTL DEF KeptSpec

LEMMA JarPartStart == KeptInit => (part = "jar" => Jar!JarInv)
  BY JarStart DEF KeptInit

LEMMA JarPartStep ==
    ASSUME part = "jar" => Jar!JarInv, KeptNext \/ UNCHANGED allVars
    PROVE  (part = "jar" => Jar!JarInv)'
<1>1. part' = part
  BY DEF KeptNext, allVars
<1>2. CASE part = "jar"
  <2>1. Jar!Next \/ UNCHANGED JarVars
    BY <1>2 DEF KeptNext, allVars, from1, from7, from8, JarVars
  <2>. QED BY <1>1, <1>2, <2>1, JarStep
<1>. QED BY <1>1, <1>2

\* cookies.json is whole whenever no two saves overlapped, and every change is
\* in it, in a save under way, or has a save due; for any accounts, cookies and
\* number of saves that may be under way (persistAsync, schedulePersist).
THEOREM CookiesHold == KeptSpec => []CookiesSurvive
<1>1. (part = "jar" => Jar!JarInv) => CookiesSurvive
  BY JarSafe DEF CookiesSurvive
<1>. QED BY JarPartStart, JarPartStep, <1>1, PTL DEF KeptSpec

LEMMA HistoryPartStart == KeptInit => (part = "history" => History!LedgerInv)
  BY HistoryStart DEF KeptInit

LEMMA HistoryPartStep ==
    ASSUME part = "history" => History!LedgerInv, KeptNext \/ UNCHANGED allVars
    PROVE  (part = "history" => History!LedgerInv)'
<1>1. part' = part
  BY DEF KeptNext, allVars
<1>2. CASE part = "history"
  <2>1. History!Next \/ UNCHANGED HistoryVars
    BY <1>2 DEF KeptNext, allVars, from1, from7, from8, HistoryVars
  <2>. QED BY <1>1, <1>2, <2>1, HistoryStep
<1>. QED BY <1>1, <1>2

\* Unless an append failed, the ledger in memory is what was recorded less only
\* what is too old, after any number of restarts and broken rewrites, for any MAX_AGE;
\* whatever it holds, the pages of any size show each record of a query once, and
\* the groups of an aggregate count the same records (RequestHistoryStore,
\* createFsRequestHistoryPersistence).
THEOREM LedgerHolds == KeptSpec => []LedgerSound
<1>1. (part = "history" => History!LedgerInv) => LedgerSound
  <2>1. History!LedgerInv => History!TypeOK /\ History!LedgerSurvives
    BY DEF History!LedgerInv
  <2>. QED BY <2>1, HistoryShown DEF LedgerSound
<1>. QED BY HistoryPartStart, HistoryPartStep, <1>1, PTL DEF KeptSpec

LEMMA UsagePartStart == KeptInit => (part = "usage" => Usage!UsageInv)
  BY UsageStart DEF KeptInit

LEMMA UsagePartStep ==
    ASSUME part = "usage" => Usage!UsageInv, KeptNext \/ UNCHANGED allVars
    PROVE  (part = "usage" => Usage!UsageInv)'
<1>1. part' = part
  BY DEF KeptNext, allVars
<1>2. CASE part = "usage"
  <2>1. Usage!Next \/ UNCHANGED UsageVars
    BY <1>2 DEF KeptNext, allVars, from1, from7, from8, UsageVars
  <2>. QED BY <1>1, <1>2, <2>1, UsageStep
<1>. QED BY <1>1, <1>2

\* Unless a crash brought counters back that had been reset or removed, the last
\* snapshot is at most what was served; and in any window of snapshots the
\* buckets add up to the last less the first, for any finite set of accounts
\* and any counters (UsageStatsStore.recordSnapshot, recoverBaseline, getHistory).
THEOREM UsageAddsUp == KeptSpec => []HistoryAddsUp
<1>1. (part = "usage" => Usage!UsageInv) => HistoryAddsUp
  BY UsageSafe DEF HistoryAddsUp
<1>. QED BY UsagePartStart, UsagePartStep, <1>1, PTL DEF KeptSpec

=============================================================================
