------------------------- MODULE RequestTranslation -------------------------
(***************************************************************************)
(* The conversation of a request, from the format of the client to the     *)
(* input items of Codex (src/translation/*-to-codex.ts) and, for accounts  *)
(* that are API keys, on to the messages of another provider               *)
(* (src/translation/codex-request-to-*.ts).                                *)
(*                                                                         *)
(* Data abstraction: a text is a number, 0 the empty one.  Calls are       *)
(* numbered as the client knows them; "real" is that number carried along  *)
(* by the model, "id" what the format has of it, if it has one.  System    *)
(* texts, images and the settings of a request (model, effort, tools) are  *)
(* left out.                                                               *)
(***************************************************************************)
EXTENDS Naturals, Sequences, SequencesExt

CONSTANTS
    Tools,        \* the functions a model may call
    MaxTogether,  \* bound: calls of one message
    MaxMessages   \* bound: messages of a conversation

VARIABLE talk     \* the conversation so far, as the client means it

NoText == 0

\* A message: the assistant's may have calls, the user's the results of the calls before.
Message(role, text, calls, results) ==
    [role |-> role, text |-> text, calls |-> calls, results |-> results]

-----------------------------------------------------------------------------
(* Input items of Codex *)

Said(role, text) == [kind |-> "message", role |-> role, text |-> text, id |-> 0, real |-> 0]
Called(id, real) == [kind |-> "call", role |-> "assistant", text |-> NoText, id |-> id, real |-> real]
Output(id, real) == [kind |-> "output", role |-> "user", text |-> NoText, id |-> id, real |-> real]

\* The text of a message is an item unless it is empty and there are calls or results.
TextItem(m) ==
    IF m.text # NoText \/ (m.calls = <<>> /\ m.results = <<>>) THEN <<Said(m.role, m.text)>> ELSE <<>>

\* OpenAI: results are messages of their own, before the user's next text.
OpenAIItems(m) ==
    LET outputs == [i \in DOMAIN m.results |-> Output(m.results[i].id, m.results[i].id)]
        calls == [i \in DOMAIN m.calls |-> Called(m.calls[i].id, m.calls[i].id)]
    IN  IF m.role = "user" THEN outputs \o TextItem(m) ELSE TextItem(m) \o calls

\* The legacy form names a call by its function only.
LegacyItems(m) ==
    LET outputs == [i \in DOMAIN m.results |-> Output(m.results[i].tool, m.results[i].id)]
        calls == [i \in DOMAIN m.calls |-> Called(m.calls[i].tool, m.calls[i].id)]
    IN  IF m.role = "user" THEN outputs \o TextItem(m) ELSE TextItem(m) \o calls

\* Anthropic: the blocks of one message; its text comes before its calls and results.
AnthropicItems(m) ==
    TextItem(m) \o [i \in DOMAIN m.calls |-> Called(m.calls[i].id, m.calls[i].id)]
                \o [i \in DOMAIN m.results |-> Output(m.results[i].id, m.results[i].id)]

\* Mutant of GeminiPart: every response is given the same id, the next to be used.
GeminiPartSameId(s, part) ==
    IF part.kind = "call"
      THEN [n |-> s.n + 1, ids |-> s.ids, items |-> Append(s.items, Called(s.n, part.real))]
      ELSE [s EXCEPT !.items = Append(@, Output(s.n, part.real))]

\* Gemini: parts have no call ids, so partsToInputItems makes them up, from 0 in each
\* content; a response takes the earliest unmatched call of its function there, or a new id.
GeminiPart(s, part) ==
    LET waiting == s.ids[part.tool]
    IN  CASE part.kind = "call" ->
                [n |-> s.n + 1,
                 ids |-> [s.ids EXCEPT ![part.tool] = Append(@, s.n)],
                 items |-> Append(s.items, Called(s.n, part.real))]
          [] part.kind = "response" /\ waiting # <<>> ->
                [s EXCEPT !.ids[part.tool] = Tail(@),
                          !.items = Append(@, Output(Head(waiting), part.real))]
          [] OTHER -> [s EXCEPT !.n = @ + 1, !.items = Append(@, Output(s.n, part.real))]

GeminiItems(m) ==
    LET parts == [i \in DOMAIN m.calls |->
                    [kind |-> "call", tool |-> m.calls[i].tool, real |-> m.calls[i].id]]
                 \o [i \in DOMAIN m.results |->
                    [kind |-> "response", tool |-> m.results[i].tool, real |-> m.results[i].id]]
        start == [n |-> 0, ids |-> [t \in Tools |-> <<>>], items |-> TextItem(m)]
    IN  FoldLeft(GeminiPart, start, parts).items

\* A request has at least one item.
Input(parts) ==
    IF FlattenSeq(parts) = <<>> THEN <<Said("user", NoText)>> ELSE FlattenSeq(parts)

OpenAIInput == Input([i \in DOMAIN talk |-> OpenAIItems(talk[i])])
LegacyInput == Input([i \in DOMAIN talk |-> LegacyItems(talk[i])])
AnthropicInput == Input([i \in DOMAIN talk |-> AnthropicItems(talk[i])])
GeminiInput == Input([i \in DOMAIN talk |-> GeminiItems(talk[i])])

-----------------------------------------------------------------------------
(* Messages of the other providers: a role and the items inside *)

New(role, item, open) == [role |-> role, items |-> <<item>>, open |-> open]

\* Calls in a row are one message; open says that a call may join.
OpenAIMessage(out, item) ==
    LET joins == out # <<>> /\ Last(out).open
    IN  CASE item.kind = "message" -> Append(out, New(item.role, item, FALSE))
          [] item.kind = "call" /\ joins -> [out EXCEPT ![Len(out)].items = Append(@, item)]
          [] item.kind = "call" /\ ~joins -> Append(out, New("assistant", item, TRUE))
          [] OTHER -> Append(out, New("tool", item, FALSE))

\* Calls join an assistant message of blocks, results a user message of blocks.
AnthropicMessage(out, item) ==
    CASE item.kind = "message" -> Append(out, New(item.role, item, FALSE))
      [] item.kind # "message" /\ out # <<>> /\ Last(out).open /\ Last(out).role = item.role ->
            [out EXCEPT ![Len(out)].items = Append(@, item)]
      [] OTHER -> Append(out, New(item.role, item, TRUE))

\* A part for Gemini has no call id (0 here), and a functionResponse no name either.
Part(item) == [item EXCEPT !.id = 0]

\* Every Gemini content is a list of parts, so calls and results join what is before them.
GeminiContent(out, part) ==
    IF part.kind # "message" /\ out # <<>> /\ Last(out).role = part.role
      THEN [out EXCEPT ![Len(out)].items = Append(@, part)]
      ELSE Append(out, New(part.role, part, TRUE))

OpenAIMessages(items) == FoldLeft(OpenAIMessage, <<>>, items)
AnthropicMessages(items) == FoldLeft(AnthropicMessage, <<>>, items)
GeminiParts(items) == [i \in DOMAIN items |-> Part(items[i])]
GeminiContents(parts) == FoldLeft(GeminiContent, <<>>, parts)

-----------------------------------------------------------------------------
(* The client *)

Init == talk = <<>>

Speaker == IF talk = <<>> THEN "assistant" ELSE Last(talk).role
Turn(role) == Len(talk) < MaxMessages /\ Speaker # role

Fresh == Len(talk) + 1

CallsOf(tools) ==
    [i \in DOMAIN tools |-> [id |-> MaxTogether * Len(talk) + i, tool |-> tools[i]]]

\* The assistant answered with a text, or some calls, or both.
AssistantSaid ==
    /\ Turn("assistant")
    /\ \E text \in {NoText, Fresh}, n \in 0 .. MaxTogether : \E tools \in [1 .. n -> Tools] :
          talk' = Append(talk, Message("assistant", text, CallsOf(tools), <<>>))

\* The user goes on, with the results of all calls in any order.
UserSays ==
    /\ Turn("user")
    /\ LET calls == IF talk = <<>> THEN <<>> ELSE Last(talk).calls
       IN  \E text \in {NoText, Fresh}, p \in Bijection(DOMAIN calls, DOMAIN calls) :
              talk' = Append(talk, Message("user", text, <<>>, [i \in DOMAIN calls |-> calls[p[i]]]))

Next == AssistantSaid \/ UserSays

Spec == Init /\ [][Next]_talk

-----------------------------------------------------------------------------
(* Properties *)

If(holds, x) == IF holds THEN <<x>> ELSE <<>>

Texts(items) ==
    FlattenSeq([i \in DOMAIN items |->
        If(items[i].kind = "message" /\ items[i].text # NoText, items[i])])
Links(items) ==
    FlattenSeq([i \in DOMAIN items |->
        If(items[i].kind \in {"call", "output"}, <<items[i].kind, items[i].real>>)])

SaidTexts ==
    FlattenSeq([i \in DOMAIN talk |->
        If(talk[i].text # NoText, Said(talk[i].role, talk[i].text))])
Used ==
    FlattenSeq([i \in DOMAIN talk |->
        [j \in DOMAIN talk[i].calls |-> <<"call", talk[i].calls[j].id>>]
        \o [j \in DOMAIN talk[i].results |-> <<"output", talk[i].results[j].id>>]])

\* Nothing of the conversation is lost or changes its order among its kind.
AllThere(items) == Texts(items) = SaidTexts /\ Links(items) = Used

\* An output belongs to the last call before it with its id.
Paired(items) ==
    \A j \in DOMAIN items : items[j].kind = "output" =>
        LET calls == {i \in 1 .. (j - 1) : items[i].kind = "call" /\ items[i].id = items[j].id}
        IN  calls # {} /\ items[CHOOSE i \in calls : \A k \in calls : k <= i].real = items[j].real

\* What the ids made up for Gemini rely on: results in the order of the calls.
ResultsInOrder ==
    \A i \in DOMAIN talk : \A a, b \in DOMAIN talk[i].results :
        a < b => talk[i].results[a].id < talk[i].results[b].id

OneCallAtATime == \A i \in DOMAIN talk : Len(talk[i].calls) <= 1

\* A provider's messages hold these parts, none lost, in their order, calls with the assistant.
Carried(messages, parts) ==
    /\ FlattenSeq([i \in DOMAIN messages |-> messages[i].items]) = parts
    /\ \A m \in Range(messages) : \A x \in Range(m.items) :
          m.role = x.role \/ (m.role = "tool" /\ x.kind = "output")

\* A request reaches the upstream with every text, call and result of the conversation in
\* order, whatever format it came in and whatever provider it goes to.  For Codex, OpenAI
\* and Anthropic each result has the id of the call it answers; if it came in Gemini's
\* format, which has none, only if the results are in the order of the calls, and in the
\* legacy one with one call at a time.  A Gemini provider is sent neither ids nor the
\* functions of the results: all that tells them apart there is their order.
ConversationCarried ==
    /\ \A items \in {OpenAIInput, AnthropicInput, GeminiInput} :
          /\ AllThere(items)
          /\ Carried(OpenAIMessages(items), items)
          /\ Carried(AnthropicMessages(items), items)
          /\ Carried(GeminiContents(GeminiParts(items)), GeminiParts(items))
    /\ Paired(OpenAIInput)
    /\ Paired(AnthropicInput)
    /\ ResultsInOrder => Paired(GeminiInput)
    /\ OneCallAtATime => AllThere(LegacyInput) /\ Paired(LegacyInput)

-----------------------------------------------------------------------------
(* What the property rests on, for the proofs *)

Call == [id : Nat, tool : Tools]
Messages ==
    [role : {"user", "assistant"}, text : Nat, calls : Seq(Call), results : Seq(Call)]

\* The user answers all the calls of the message before, in any order.
Answers(results, calls) ==
    \E p \in Bijection(DOMAIN calls, DOMAIN calls) : results = [i \in DOMAIN calls |-> calls[p[i]]]

\* The user and the assistant take turns, and ids grow.
InTurns ==
    \A n \in DOMAIN talk :
        LET m == talk[n] IN
        /\ m.role = "user" => m.calls = <<>>
        /\ m.role = "assistant" => m.results = <<>>
        /\ n = 1 => m.role = "user" /\ m.results = <<>>
        /\ n > 1 => m.role # talk[n - 1].role
        /\ n > 1 /\ m.role = "user" => Answers(m.results, talk[n - 1].calls)
        /\ \A a, b \in DOMAIN m.calls : a < b => m.calls[a].id < m.calls[b].id

TalkInv == talk \in Seq(Messages) /\ InTurns
=============================================================================
