--------------------------- MODULE Conversations ----------------------------
(***************************************************************************)
(* Conversations across requests: which account made a response, in which  *)
(* conversation and with which turn state (src/auth/session-affinity.ts),  *)
(* as handleProxyRequest and handleNonStreaming look it up and record it   *)
(* (src/routes/shared/proxy-handler.ts).                                   *)
(*                                                                         *)
(* Data abstraction: responses and conversations are numbered.  Which      *)
(* accounts are free is open at every acquire (ProxyHandler models that).  *)
(* The turn state that comes with a response is named by its number, or *)
(* NoTurn.                                                                 *)
(***************************************************************************)
EXTENDS Naturals, Sequences

CONSTANTS
    Accounts,
    Asks,          \* request handlers
    TTL,           \* of an entry of the SessionAffinityMap
    MaxResponses,  \* bound: responses the upstream makes
    MaxConvs,      \* bound: conversations begun
    MaxMinutes     \* bound: the clock stops here

VARIABLES
    affinity,   \* SessionAffinityMap.map: by response, account, conv, turn and at
    asks,       \* the handlers
    responses,  \* upstream: each response with its account, conv, turn, prev
    convs,      \* conversations named so far
    minutes,    \* the clock
    ended       \* history: when the answer with a response ended, in this run of the server

convVars == <<affinity, asks, responses, convs, minutes, ended>>

NoTurn == 0
None == 0
Idle == [at |-> "idle", prev |-> None, account |-> None, conv |-> 0, turn |-> NoTurn,
         got |-> NoTurn, id |-> None, again |-> FALSE, timely |-> FALSE, first |-> None]
Nothing == [n \in {} |-> 0]

TypeOK ==
    /\ DOMAIN affinity \subseteq 1 .. Len(responses)
    /\ \A r \in Asks : asks[r].at \in {"idle", "sent", "answered"}
    /\ Len(responses) <= MaxResponses
    /\ convs \in 0 .. MaxConvs /\ minutes \in 0 .. MaxMinutes
    /\ DOMAIN ended \subseteq 1 .. Len(responses)

Init ==
    /\ affinity = Nothing
    /\ asks = [r \in Asks |-> Idle]
    /\ responses = <<>>
    /\ convs = 0
    /\ minutes = 0
    /\ ended = Nothing

-----------------------------------------------------------------------------
(* SessionAffinityMap *)

Expired(n) == minutes - affinity[n].at > TTL
Live(n) == n \in DOMAIN affinity /\ ~Expired(n)
Keep(f, S) == [n \in S |-> f[n]]

\* getEntry deletes an entry that it finds expired.
LookedUp(n) == Keep(affinity, IF Live(n) THEN DOMAIN affinity ELSE DOMAIN affinity \ {n})

\* Mutant of Recorded: the entry names the account first asked.
RecordedForFirst(q) ==
    [n \in DOMAIN affinity \cup {q.id} |->
        IF n = q.id THEN [account |-> q.first, conv |-> q.conv, turn |-> q.got, at |-> minutes]
        ELSE affinity[n]]

Recorded(q) ==
    [n \in DOMAIN affinity \cup {q.id} |->
        IF n = q.id THEN [account |-> q.account, conv |-> q.conv, turn |-> q.got, at |-> minutes]
        ELSE affinity[n]]

-----------------------------------------------------------------------------
(* Requests *)

\* acquire: the preferred account if it is among the free ones.
Chosen(preferred) ==
    {a \in Accounts : \E free \in SUBSET Accounts :
        a \in free /\ (preferred \in free => a = preferred)}

\* handleProxyRequest: what a known previous response decides.
Ask(r, prev) ==
    /\ asks[r].at = "idle"
    /\ LET known == Live(prev)
           conv  == IF known THEN affinity[prev].conv ELSE convs + 1
       IN  /\ conv <= MaxConvs
           /\ \E a \in Chosen(IF known THEN affinity[prev].account ELSE None) :
                 asks' = [asks EXCEPT ![r] =
                    [at |-> "sent", prev |-> prev, account |-> a, first |-> a, conv |-> conv,
                     turn |-> IF known THEN affinity[prev].turn ELSE NoTurn,
                     got |-> NoTurn, id |-> None, again |-> FALSE,
                     timely |-> prev \in DOMAIN ended /\ minutes - ended[prev] <= TTL]]
           /\ convs' = IF known THEN convs ELSE convs + 1
    /\ affinity' = LookedUp(prev)
    /\ UNCHANGED <<responses, minutes, ended>>

\* An error: the request goes on with another account and the same turn state.
FailsOver(r) ==
    /\ asks[r].at = "sent" /\ ~asks[r].again
    /\ \E a \in Accounts \ {asks[r].account} : asks' = [asks EXCEPT ![r].account = a]
    /\ UNCHANGED <<affinity, responses, convs, minutes, ended>>

GivesUp(r) ==
    /\ asks[r].at = "sent"
    /\ asks' = [asks EXCEPT ![r] = Idle]
    /\ UNCHANGED <<affinity, responses, convs, minutes, ended>>

\* The upstream makes a response; the header with its turn state may be missing.
\* handleNonStreaming does not read the header of a response after an empty one.
Answered(r) ==
    /\ asks[r].at = "sent"
    /\ Len(responses) < MaxResponses
    /\ \E turn \in {NoTurn, Len(responses) + 1} :
          /\ responses' = Append(responses, [account |-> asks[r].account, conv |-> asks[r].conv,
                                             turn |-> turn, prev |-> asks[r].prev,
                                             again |-> asks[r].again, timely |-> asks[r].timely])
          /\ asks' = [asks EXCEPT ![r].at = "answered", ![r].id = Len(responses) + 1,
                                  ![r].got = IF asks[r].again THEN @ ELSE turn]
    /\ UNCHANGED <<affinity, convs, minutes, ended>>

\* The answer ends, is broken off by the client or fails after response.created.
Ends(r) ==
    /\ asks[r].at = "answered"
    /\ affinity' = Recorded(asks[r])
    /\ ended' = [n \in DOMAIN ended \cup {asks[r].id} |-> IF n = asks[r].id THEN minutes ELSE ended[n]]
    /\ asks' = [asks EXCEPT ![r] = Idle]
    /\ UNCHANGED <<responses, convs, minutes>>

\* The connection breaks before the id is seen, or collecting fails.
EndsUnseen(r) ==
    /\ asks[r].at = "answered"
    /\ asks' = [asks EXCEPT ![r] = Idle]
    /\ UNCHANGED <<affinity, responses, convs, minutes, ended>>

\* An empty answer, not streamed: any account, the same request.
Empty(r) ==
    /\ asks[r].at = "answered"
    /\ \E a \in Accounts :
          asks' = [asks EXCEPT ![r].at = "sent", ![r].account = a, ![r].id = None, ![r].again = TRUE]
    /\ UNCHANGED <<affinity, responses, convs, minutes, ended>>

Cleanup ==
    /\ affinity' = Keep(affinity, {n \in DOMAIN affinity : ~Expired(n)})
    /\ affinity' # affinity
    /\ UNCHANGED <<asks, responses, convs, minutes, ended>>

Restart ==
    /\ affinity' = Nothing
    /\ asks' = [r \in Asks |-> Idle]
    /\ ended' = Nothing
    /\ UNCHANGED <<responses, convs, minutes>>

Tick ==
    /\ minutes < MaxMinutes
    /\ minutes' = minutes + 1
    /\ UNCHANGED <<affinity, asks, responses, convs, ended>>

Next ==
    \/ Cleanup \/ Restart \/ Tick
    \/ \E r \in Asks :
          \/ \E prev \in 0 .. Len(responses) : Ask(r, prev)
          \/ FailsOver(r) \/ GivesUp(r) \/ Answered(r) \/ Ends(r) \/ EndsUnseen(r) \/ Empty(r)

Spec == Init /\ [][Next]_convVars

-----------------------------------------------------------------------------
(* Properties *)

\* An entry names the account that made the response, whichever account was
\* asked first, and its conversation; and the turn state that came with it,
\* unless an empty answer went before.
EntriesTrue ==
    \A n \in DOMAIN affinity :
        /\ affinity[n].account = responses[n].account
        /\ affinity[n].conv = responses[n].conv
        /\ responses[n].again \/ affinity[n].turn = responses[n].turn

\* A follow-up asked within TTL of the end of the answer before it belongs to
\* the same conversation, over failovers, retries and any number of links.
ChainKept ==
    \A n \in DOMAIN responses :
        responses[n].timely => responses[n].conv = responses[responses[n].prev].conv

\* What the server remembers of responses is true, and conversations go on.
ConversationsKept == EntriesTrue /\ ChainKept
-----------------------------------------------------------------------------
(* What the properties rest on, for the proofs *)

Response == [account : Accounts \cup {None}, conv : Nat, turn : Nat, prev : Nat,
             again : BOOLEAN, timely : BOOLEAN]

Handler == [at : {"idle", "sent", "answered"}, prev : Nat, account : Accounts \cup {None},
            conv : Nat, turn : Nat, got : Nat, id : Nat, again : BOOLEAN, timely : BOOLEAN,
            first : Accounts \cup {None}]

TalkTyped ==
    /\ TypeOK
    /\ responses \in Seq(Response)
    /\ asks \in [Asks -> Handler]
    /\ \A n \in DOMAIN affinity : affinity[n].turn \in Nat /\ affinity[n].at \in Nat
    /\ \A n \in DOMAIN ended : ended[n] \in Nat

\* What a handler is about to record is true of its response.
AnswersTrue ==
    \A r \in Asks : asks[r].at = "answered" =>
        /\ asks[r].id \in DOMAIN responses
        /\ asks[r].account = responses[asks[r].id].account
        /\ asks[r].conv = responses[asks[r].id].conv
        /\ responses[asks[r].id].again \/ asks[r].got = responses[asks[r].id].turn

\* A timely follow-up has the conversation of the response before.
FollowUps ==
    \A r \in Asks : asks[r].timely =>
        asks[r].prev \in DOMAIN responses /\ asks[r].conv = responses[asks[r].prev].conv

\* Within TTL of its end a response is in the table, with that time.
Remembered ==
    \A n \in DOMAIN ended : minutes - ended[n] <= TTL =>
        n \in DOMAIN affinity /\ affinity[n].at = ended[n]

\* What a timely response follows is known.
LinksKnown ==
    \A n \in DOMAIN responses : responses[n].timely => responses[n].prev \in DOMAIN responses

TalksInv ==
    /\ TalkTyped /\ AnswersTrue /\ FollowUps /\ Remembered /\ LinksKnown
    /\ EntriesTrue /\ ChainKept
=============================================================================
