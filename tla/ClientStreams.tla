--------------------------- MODULE ClientStreams ----------------------------
(***************************************************************************)
(* The answer of the Codex upstream, event by event, on its way to a       *)
(* client of each of the four formats (src/translation/codex-to-*.ts and   *)
(* the passthrough of src/routes/responses.ts), both streamed and          *)
(* collected.  The same events are given to every translator; what its     *)
(* client has put together so far is part of the translator's state.       *)
(*                                                                         *)
(* Data abstraction: a piece of text or of arguments is the number of the  *)
(* event that brought it, so a text is a sequence of numbers; 0 stands for *)
(* a text the proxy makes up ("[Error] ...").  The upstream is well        *)
(* formed: at most one function call is open at a time.                    *)
(***************************************************************************)
EXTENDS Naturals, Sequences, SequencesExt

CONSTANT MaxEvents   \* bound: events of one answer

VARIABLES
    want,     \* what the request asked for: reasoning, tuples converted back
    sent,     \* the events the upstream has sent
    open,     \* the function call being sent, 0 outside one
    ended,    \* how the answer ended: "no", "end", "broken" or "gone"
    known,    \* itemIdToCallInfo: the items whose call id is known
    openai,   \* streamCodexToOpenAI and its client
    anthropic,
    gemini,
    codex,    \* streamPassthrough and its client
    gathered  \* what a collecting translator has gathered

streamVars == <<want, sent, open, ended, known, openai, anthropic, gemini, codex, gathered>>

NoCall == [call |-> 0]
MadeUp == <<0>>
Terminal == {"completed", "incomplete", "failed"}
Usages == {"none", "zero", "some"}

Text(s) == s.text \o s.buffer

Finished == \E i \in DOMAIN sent : sent[i].type \in Terminal
Completed == \E i \in DOMAIN sent : sent[i].type = "completed"
Failed == \E i \in DOMAIN sent : sent[i].type = "failed"

-----------------------------------------------------------------------------
(* codex-event-extractor.ts: the call an item id stands for.  The upstream *)
(* names the item on deltas and done, and the call only when it is added.  *)
(* Item i brings call i.                                                   *)

Resolve(items, item) == IF item \in items THEN [call |-> item] ELSE [item |-> item]

Extracted(items, e) ==
    IF e.type \in {"call", "delta", "done"} THEN [e EXCEPT !.call = Resolve(items, e.call)] ELSE e

Registered(items, e) == IF e.type = "call" THEN items \cup {e.call} ELSE items

-----------------------------------------------------------------------------
(* OpenAI chat completions *)

OpenAIStart == [text |-> <<>>, buffer |-> <<>>, reasoning |-> <<>>, calls |-> <<>>,
                content |-> FALSE, streamed |-> {}, finish |-> "none", done |-> FALSE,
                usage |-> 0]

ToolCallIndex(s, c) ==
    IF \E i \in DOMAIN s.calls : s.calls[i].call = c
      THEN CHOOSE i \in DOMAIN s.calls : s.calls[i].call = c
      ELSE 1

OpenAICall(s, e) == [s EXCEPT !.calls = Append(@, [call |-> e.call, args |-> <<>>]),
                              !.content = TRUE]

OpenAIArguments(s, c, args) ==
    IF s.calls = <<>> THEN s ELSE [s EXCEPT !.calls[ToolCallIndex(s, c)].args = @ \o args]

OpenAIDelta(s, e) == [OpenAIArguments(s, e.call, e.pieces) EXCEPT !.streamed = @ \cup {e.call}]

\* Mutant of OpenAIDone: the arguments are always sent when they are done.
OpenAIDoneAgain(s, e) == OpenAIArguments(s, e.call, e.pieces)

OpenAIDone(s, e) == IF e.call \in s.streamed THEN s ELSE OpenAIArguments(s, e.call, e.pieces)

OpenAIReasoning(s, e) ==
    IF want.reasoning THEN [s EXCEPT !.reasoning = @ \o e.pieces, !.content = TRUE] ELSE s

OpenAIText(s, e) ==
    IF want.tuple THEN [s EXCEPT !.buffer = @ \o e.pieces, !.content = TRUE]
                  ELSE [s EXCEPT !.text = @ \o e.pieces, !.content = TRUE]

\* The buffered text is sent as one chunk; an answer without content becomes an error text.
OpenAICompleted(s, e) ==
    [s EXCEPT !.text = IF s.content THEN Text(s) ELSE MadeUp,
              !.buffer = <<>>,
              !.finish = IF s.calls # <<>> THEN "tool_calls" ELSE "stop",
              !.usage = IF e.usage = "none" THEN @ ELSE @ + 1]

OpenAIError(s) == [s EXCEPT !.text = @ \o MadeUp, !.finish = "stop", !.done = TRUE]

OpenAIOn(s, e) ==
    CASE s.done -> s
      [] e.type = "text" -> OpenAIText(s, e)
      [] e.type = "reasoning" -> OpenAIReasoning(s, e)
      [] e.type = "call" -> OpenAICall(s, e)
      [] e.type = "delta" -> OpenAIDelta(s, e)
      [] e.type = "done" -> OpenAIDone(s, e)
      [] e.type = "completed" -> OpenAICompleted(s, e)
      [] e.type = "failed" -> OpenAIError(s)
      [] OTHER -> s

OpenAIEnd(s) == [s EXCEPT !.done = TRUE]

-----------------------------------------------------------------------------
(* Anthropic messages: numbered blocks that are started, filled and        *)
(* stopped.  A client cannot make sense of a block started at a number     *)
(* that is taken, or of a delta or stop for a block that is not open.      *)

AnthropicStart == [blocks |-> <<>>, index |-> 0, thinking |-> FALSE, text |-> FALSE,
                   tools |-> FALSE, content |-> FALSE, streamed |-> {}, stop |-> "none",
                   stopped |-> FALSE, nonsense |-> FALSE, usage |-> 0]

BlockOpen(s) == s.index < Len(s.blocks) /\ s.blocks[s.index + 1].open

BlockStart(s, kind, c) ==
    LET block == [kind |-> kind, call |-> c, data |-> <<>>, open |-> TRUE]
    IN  IF s.index < Len(s.blocks)
          THEN [s EXCEPT !.blocks[s.index + 1] = block, !.nonsense = TRUE]
          ELSE [s EXCEPT !.blocks = Append(@, block)]

BlockDelta(s, pieces) ==
    IF BlockOpen(s) THEN [s EXCEPT !.blocks[s.index + 1].data = @ \o pieces]
                    ELSE [s EXCEPT !.nonsense = TRUE]

BlockStop(s) ==
    IF BlockOpen(s) THEN [s EXCEPT !.blocks[s.index + 1].open = FALSE, !.index = @ + 1]
                    ELSE [s EXCEPT !.nonsense = TRUE, !.index = @ + 1]

CloseThinking(s) == IF s.thinking THEN [BlockStop(s) EXCEPT !.thinking = FALSE] ELSE s
CloseText(s) == IF s.text THEN [BlockStop(s) EXCEPT !.text = FALSE] ELSE s
EnsureText(s) == IF s.text THEN s ELSE [BlockStart(s, "text", NoCall) EXCEPT !.text = TRUE]

AnthropicReasoning(s, e) ==
    LET closed == CloseText(s)
        opened == IF closed.thinking THEN closed
                  ELSE [BlockStart(closed, "reasoning", NoCall) EXCEPT !.thinking = TRUE]
    IN  IF want.reasoning THEN [BlockDelta(opened, e.pieces) EXCEPT !.content = TRUE] ELSE s

AnthropicCall(s, e) ==
    [BlockStart(CloseText(CloseThinking(s)), "call", e.call) EXCEPT
        !.tools = TRUE, !.content = TRUE]

AnthropicDelta(s, e) == [BlockDelta(s, e.pieces) EXCEPT !.streamed = @ \cup {e.call}]

AnthropicDone(s, e) ==
    BlockStop(IF e.call \in s.streamed THEN s ELSE BlockDelta(s, e.pieces))

\* Mutant of AnthropicText: the thinking block is left open under the text.
AnthropicTextInside(s, e) ==
    [BlockDelta(EnsureText(s), e.pieces) EXCEPT !.content = TRUE]

AnthropicText(s, e) ==
    [BlockDelta(EnsureText(CloseThinking(s)), e.pieces) EXCEPT !.content = TRUE]

AnthropicCompleted(s, e) ==
    LET counted == [s EXCEPT !.usage = IF e.usage = "none" THEN @ ELSE @ + 1]
    IN  IF s.content THEN counted ELSE BlockDelta(EnsureText(counted), MadeUp)

AnthropicError(s) ==
    [CloseText(BlockDelta(EnsureText(CloseThinking(s)), MadeUp)) EXCEPT
        !.stop = "error", !.stopped = TRUE]

AnthropicOn(s, e) ==
    CASE s.stopped -> s
      [] e.type = "text" -> AnthropicText(s, e)
      [] e.type = "reasoning" -> AnthropicReasoning(s, e)
      [] e.type = "call" -> AnthropicCall(s, e)
      [] e.type = "delta" -> AnthropicDelta(s, e)
      [] e.type = "done" -> AnthropicDone(s, e)
      [] e.type = "completed" -> AnthropicCompleted(s, e)
      [] e.type = "failed" -> AnthropicError(s)
      [] OTHER -> s

AnthropicEnd(s) ==
    IF s.stopped THEN s
    ELSE [CloseText(CloseThinking(s)) EXCEPT
             !.stop = IF s.tools THEN "tool_use" ELSE "end_turn", !.stopped = TRUE]

-----------------------------------------------------------------------------
(* Gemini: a sequence of parts; a function call is one part, sent when its *)
(* arguments are complete.                                                 *)

GeminiStart == [parts |-> <<>>, buffer |-> <<>>, content |-> FALSE, finish |-> "none", usage |-> 0]

Part(kind, c, pieces) == <<[kind |-> kind, call |-> c, data |-> pieces]>>

GeminiDone(s, e) == [s EXCEPT !.parts = @ \o Part("call", e.call, e.pieces), !.content = TRUE]

GeminiText(s, e) ==
    IF want.tuple
      THEN [s EXCEPT !.buffer = @ \o e.pieces, !.content = TRUE]
      ELSE [s EXCEPT !.parts = @ \o Part("text", NoCall, e.pieces), !.content = TRUE]

GeminiCompleted(s, e) ==
    LET flushed == IF s.buffer = <<>> THEN s.parts ELSE s.parts \o Part("text", NoCall, s.buffer)
    IN  [s EXCEPT !.parts = IF s.content THEN flushed ELSE Part("text", NoCall, MadeUp),
                  !.buffer = <<>>, !.finish = "STOP",
                  !.usage = IF e.usage = "none" THEN @ ELSE @ + 1]

GeminiError(s) == [s EXCEPT !.parts = @ \o Part("text", NoCall, MadeUp), !.finish = "OTHER"]

GeminiOn(s, e) ==
    CASE s.finish = "OTHER" -> s
      [] e.type = "text" -> GeminiText(s, e)
      [] e.type = "done" -> GeminiDone(s, e)
      [] e.type = "completed" -> GeminiCompleted(s, e)
      [] e.type = "failed" -> GeminiError(s)
      [] OTHER -> s

-----------------------------------------------------------------------------
(* The responses route passes the events on; with a tuple schema the text  *)
(* is held back and sent, converted, just before the completed event.      *)

CodexStart == [text |-> <<>>, buffer |-> <<>>, others |-> <<>>, usage |-> 0]

CodexOn(s, e) ==
    CASE e.type = "text" /\ want.tuple -> [s EXCEPT !.buffer = @ \o e.pieces]
      [] e.type = "text" /\ ~want.tuple -> [s EXCEPT !.text = @ \o e.pieces]
      [] e.type = "completed" ->
            [s EXCEPT !.text = Text(s), !.buffer = <<>>, !.others = Append(@, e),
                      !.usage = IF e.usage = "none" THEN @ ELSE @ + 1]
      [] OTHER -> [s EXCEPT !.others = Append(@, e)]

-----------------------------------------------------------------------------
(* Collecting: the answer to a client that does not stream *)

GatherStart == [text |-> <<>>, reasoning |-> <<>>, calls |-> <<>>, tokens |-> FALSE,
                result |-> "none"]

Gather(s, e) ==
    CASE e.type = "text" -> [s EXCEPT !.text = @ \o e.pieces]
      [] e.type = "reasoning" -> [s EXCEPT !.reasoning = @ \o e.pieces]
      [] e.type = "done" -> [s EXCEPT !.calls = Append(@, [call |-> e.call, args |-> e.pieces])]
      [] e.type \in {"completed", "incomplete"} ->
            [s EXCEPT !.tokens = IF e.usage = "none" THEN @ ELSE e.usage = "some",
                      !.result = e.type]
      [] e.type = "failed" -> [s EXCEPT !.result = "failed"]
      [] OTHER -> s

Empty == gathered.text = <<>> /\ gathered.calls = <<>> /\ ~gathered.tokens

OneBlock(kind, data) ==
    IF data = <<>> THEN <<>> ELSE <<[kind |-> kind, call |-> NoCall, data |-> data, open |-> FALSE]>>

CallBlocks == [i \in DOMAIN gathered.calls |->
                  [kind |-> "call", call |-> gathered.calls[i].call,
                   data |-> gathered.calls[i].args, open |-> FALSE]]

\* What each collecting translator answers with once the stream has ended.
CollectedOpenAI ==
    [failed |-> gathered.result = "failed" \/ Empty,
     text |-> gathered.text,
     reasoning |-> IF want.reasoning THEN gathered.reasoning ELSE <<>>,
     calls |-> gathered.calls,
     finish |-> IF gathered.calls # <<>> THEN "tool_calls" ELSE "stop"]

CollectedAnthropic ==
    [failed |-> gathered.result = "failed" \/ Empty,
     blocks |-> OneBlock("reasoning", IF want.reasoning THEN gathered.reasoning ELSE <<>>)
                \o OneBlock("text", gathered.text) \o CallBlocks,
     stop |-> IF gathered.calls # <<>> THEN "tool_use" ELSE "end_turn"]

CollectedGemini ==
    [failed |-> gathered.result = "failed" \/ Empty,
     parts |-> OneBlock("text", gathered.text) \o CallBlocks,
     finish |-> "STOP"]

CollectedPassthrough == [failed |-> gathered.result # "completed"]

-----------------------------------------------------------------------------
(* The upstream *)

Init ==
    /\ want \in [reasoning : BOOLEAN, tuple : BOOLEAN]
    /\ sent = <<>>
    /\ open = 0
    /\ ended = "no"
    /\ known = {}
    /\ openai = OpenAIStart
    /\ anthropic = AnthropicStart
    /\ gemini = GeminiStart
    /\ codex = CodexStart
    /\ gathered = GatherStart

\* An event goes through the extractor to every translator.
Event(type, c, pieces, usage) ==
    LET raw == [type |-> type, call |-> c, pieces |-> pieces, usage |-> usage]
        e == Extracted(Registered(known, raw), raw)
    IN  /\ ended = "no"
        /\ Len(sent) < MaxEvents
        /\ ~Finished
        /\ sent' = Append(sent, raw)
        /\ known' = Registered(known, raw)
        /\ openai' = OpenAIOn(openai, e)
        /\ anthropic' = AnthropicOn(anthropic, e)
        /\ gemini' = GeminiOn(gemini, e)
        /\ codex' = CodexOn(codex, raw)
        /\ gathered' = Gather(gathered, e)
        /\ UNCHANGED <<want, ended>>

NewPiece == <<Len(sent) + 1>>

SendText == open = 0 /\ Event("text", 0, NewPiece, "none") /\ UNCHANGED open
SendReasoning == open = 0 /\ Event("reasoning", 0, NewPiece, "none") /\ UNCHANGED open

AddCall ==
    LET c == Len(sent) + 1
    IN  open = 0 /\ Event("call", c, <<>>, "none") /\ open' = c

SendDelta == open # 0 /\ Event("delta", open, NewPiece, "none") /\ UNCHANGED open

PiecesOfCall(c) ==
    FlattenSeq([i \in DOMAIN sent |-> IF sent[i].type = "delta" /\ sent[i].call = c
                                        THEN sent[i].pieces ELSE <<>>])

\* The done event repeats all the arguments, streamed before or not.
SendDone ==
    LET deltas == PiecesOfCall(open)
    IN  /\ open # 0
        /\ Event("done", open, IF deltas = <<>> THEN NewPiece ELSE deltas, "none")
        /\ open' = 0

Complete == open = 0 /\ \E u \in Usages : Event("completed", 0, <<>>, u) /\ UNCHANGED open
Truncate == \E u \in Usages : Event("incomplete", 0, <<>>, u) /\ UNCHANGED open
Fail == Event("failed", 0, <<>>, "none") /\ UNCHANGED open

\* The upstream's body ends: a translator that has not returned says its last words.
BodyEnds ==
    /\ ended = "no"
    /\ ended' = "end"
    /\ openai' = OpenAIEnd(openai)
    /\ anthropic' = AnthropicEnd(anthropic)
    /\ UNCHANGED <<want, sent, open, known, gemini, codex, gathered>>

\* streamResponse: the body breaks (an error event is written), or the client is gone.
StreamStops ==
    /\ ended = "no"
    /\ ended' \in {"broken", "gone"}
    /\ UNCHANGED <<want, sent, open, known, openai, anthropic, gemini, codex, gathered>>

Next == SendText \/ SendReasoning \/ AddCall \/ SendDelta \/ SendDone
            \/ Complete \/ Truncate \/ Fail \/ BodyEnds \/ StreamStops

Spec == Init /\ [][Next]_streamVars

-----------------------------------------------------------------------------
(* What a client should have *)

TypeOK ==
    /\ want \in [reasoning : BOOLEAN, tuple : BOOLEAN]
    /\ Len(sent) <= MaxEvents
    /\ open \in 0 .. MaxEvents
    /\ ended \in {"no", "end", "broken", "gone"}
    /\ known \subseteq 1 .. MaxEvents

SentPieces(type) ==
    FlattenSeq([i \in DOMAIN sent |-> IF sent[i].type = type THEN sent[i].pieces ELSE <<>>])

SentCalls ==
    FlattenSeq([i \in DOMAIN sent |->
        IF sent[i].type = "done"
          THEN <<[call |-> [call |-> sent[i].call], args |-> sent[i].pieces]>>
          ELSE <<>>])

Nothing == /\ SentPieces("text") = <<>> /\ SentCalls = <<>>
           /\ want.reasoning => SentPieces("reasoning") = <<>>

\* Every piece a client reads in blocks or parts of these kinds, one by one, with the kind.
Kinds == {"text", "reasoning", "call"}

Fragment(kinds, b) ==
    IF b.kind \in kinds
      THEN [i \in DOMAIN b.data |-> [kind |-> b.kind, call |-> b.call, piece |-> b.data[i]]]
      ELSE <<>>

Read(kinds, blocks) == FlattenSeq([b \in DOMAIN blocks |-> Fragment(kinds, blocks[b])])

\* The same of what was sent: text, reasoning, and each call's arguments when it is done.
AsBlock(e) ==
    IF e.type = "done" THEN [kind |-> "call", call |-> [call |-> e.call], data |-> e.pieces]
    ELSE [kind |-> IF e.type \in {"text", "reasoning"} THEN e.type ELSE "other",
          call |-> NoCall, data |-> e.pieces]

Content(kinds) == FlattenSeq([i \in DOMAIN sent |-> Fragment(kinds, AsBlock(sent[i]))])

Spoken == {"text", "call"}
Shown == IF want.reasoning THEN Kinds ELSE Spoken

\* While it streams, no client has seen anything but what was sent, in order and once.
OnlyWhatWasSent ==
    ~Failed /\ ~Completed =>
        /\ Text(openai) = SentPieces("text")
        /\ Text(codex) = SentPieces("text")
        /\ IsPrefix(SentCalls, openai.calls)
        /\ Read({"text"}, anthropic.blocks) = Content({"text"})
        /\ IsPrefix(Content(Shown), Read(Kinds, anthropic.blocks))

\* After a completed answer each client has all of it: texts, the reasoning it asked for,
\* every call with its full arguments, and the right reason for the end.
CompletedIsWhole ==
    Completed /\ ended = "end" =>
        /\ openai.text = IF Nothing THEN MadeUp ELSE SentPieces("text")
        /\ openai.reasoning = IF want.reasoning THEN SentPieces("reasoning") ELSE <<>>
        /\ openai.calls = SentCalls
        /\ openai.finish = IF SentCalls = <<>> THEN "stop" ELSE "tool_calls"
        /\ openai.done
        /\ ~Nothing => Read(Kinds, anthropic.blocks) = Content(Shown)
        /\ anthropic.stop = IF SentCalls = <<>> THEN "end_turn" ELSE "tool_use"
        /\ Content(Spoken) # <<>> /\ ~want.tuple => Read(Kinds, gemini.parts) = Content(Spoken)
        /\ \A k \in Spoken : Content(Spoken) # <<>> => Read({k}, gemini.parts) = Content({k})
        /\ gemini.finish = "STOP"
        /\ codex.text = SentPieces("text")
        /\ Last(codex.others).type = "completed"
        /\ openai.usage = anthropic.usage /\ openai.usage = gemini.usage
        /\ openai.usage = codex.usage

\* The collected answers say what the streamed ones said.
CollectedAgrees ==
    Completed /\ ended = "end" /\ Content(Spoken) # <<>> =>
        /\ ~CollectedOpenAI.failed /\ ~CollectedPassthrough.failed
        /\ CollectedOpenAI.text = openai.text
        /\ CollectedOpenAI.reasoning = openai.reasoning
        /\ CollectedOpenAI.calls = openai.calls
        /\ CollectedOpenAI.finish = openai.finish
        /\ CollectedAnthropic.stop = anthropic.stop
        /\ \A k \in Kinds :
              Read({k}, CollectedAnthropic.blocks) = Read({k}, anthropic.blocks)
        /\ \A k \in Spoken : Read({k}, CollectedGemini.parts) = Read({k}, gemini.parts)

\* The blocks of the Anthropic stream are started, filled and stopped one after another.
\* An answer that fails or stops inside a function call is the exception.
BlocksBalanced ==
    /\ anthropic.nonsense => Failed /\ open # 0
    /\ anthropic.stopped /\ open = 0 =>
          \A b \in DOMAIN anthropic.blocks : ~anthropic.blocks[b].open

\* From the answers of the upstream each client, whatever its format and whether it streams
\* or not, puts together the same texts and calls, whole, in order and once.
StreamsKept == OnlyWhatWasSent /\ CompletedIsWhole /\ CollectedAgrees /\ BlocksBalanced
=============================================================================
