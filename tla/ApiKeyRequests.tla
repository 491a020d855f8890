-------------------------- MODULE ApiKeyRequests ----------------------------
(***************************************************************************)
(* A request answered by an API-key upstream instead of a Codex account:   *)
(* handleDirectRequest (src/routes/shared/proxy-handler.ts) and the three  *)
(* adapters that turn the provider's stream into Codex events              *)
(* (src/proxy/openai-upstream.ts, anthropic-upstream.ts,                   *)
(* gemini-upstream.ts).                                                    *)
(*                                                                         *)
(* Data abstraction: a piece of text or arguments is the number of the     *)
(* chunk that brought it; a call is the index the provider gives it.       *)
(***************************************************************************)
EXTENDS Naturals, Sequences, SequencesExt

CONSTANTS
    MaxCalls,   \* bound: function calls of an answer
    MaxChunks   \* bound: chunks of an answer

VARIABLES
    ask,      \* the request: provider, streaming or not, and where it is
    chunks,   \* what the provider has sent
    buffers,  \* the adapter's toolCalls / toolBlocks: index -> argBuffer
    stopped,  \* Anthropic: the blocks the provider has stopped
    events,   \* the Codex events the adapter has yielded
    entries   \* the entries of the request history

directVars == <<ask, chunks, buffers, stopped, events, entries>>

Providers == {"openai", "anthropic", "gemini"}
Calls == 1 .. MaxCalls

Ev(type, call, pieces) == [type |-> type, call |-> call, pieces |-> pieces]
Piece == <<Len(chunks) + 1>>
Open == ask.at = "body"
Added == DOMAIN buffers

TypeOK ==
    /\ ask.provider \in Providers
    /\ ask.at \in {"idle", "fetching", "body", "ended"}
    /\ Len(chunks) <= MaxChunks
    /\ Added \subseteq Calls /\ stopped \subseteq Calls
    /\ entries \in Seq({"success", "error", "aborted"})

Init ==
    /\ ask \in [provider : Providers, streaming : BOOLEAN, at : {"idle"}, gone : {FALSE}]
    /\ chunks = <<>>
    /\ buffers = [i \in {} |-> <<>>]
    /\ stopped = {}
    /\ events = <<>>
    /\ entries = <<>>

Record(outcome) ==
    /\ entries' = Append(entries, outcome)
    /\ ask' = [ask EXCEPT !.at = "ended"]

-----------------------------------------------------------------------------
(* The request *)

Fetch ==
    /\ ask.at = "idle"
    /\ ask' = [ask EXCEPT !.at = "fetching"]
    /\ UNCHANGED <<chunks, buffers, stopped, events, entries>>

\* createResponse throws: a network error, a status outside 2xx, or the client's abort.
FetchFails ==
    /\ ask.at = "fetching"
    /\ Record("error")
    /\ UNCHANGED <<chunks, buffers, stopped, events>>

Answered ==
    /\ ask.at = "fetching" /\ ~ask.gone
    /\ ask' = [ask EXCEPT !.at = "body"]
    /\ UNCHANGED <<chunks, buffers, stopped, events, entries>>

\* The client goes away: the controller aborts the fetch or the body.
ClientGone ==
    /\ ask.at \in {"fetching", "body"} /\ ~ask.gone
    /\ ask' = [ask EXCEPT !.gone = TRUE]
    /\ UNCHANGED <<chunks, buffers, stopped, events, entries>>

-----------------------------------------------------------------------------
(* The adapters: one chunk of the provider, and the events it becomes *)

Yield(chunk, evs) ==
    /\ chunks' = Append(chunks, chunk)
    /\ events' = events \o evs

MayChunk(provider) ==
    /\ Open /\ ask.provider = provider /\ Len(chunks) < MaxChunks
    /\ \A k \in DOMAIN chunks : chunks[k].type \notin {"error", "completed"}

TextChunk ==
    /\ \E p \in Providers : MayChunk(p)
    /\ ask.provider = "anthropic" => Added \subseteq stopped
    /\ Yield(Ev("text", 0, Piece), <<Ev("text", 0, Piece)>>)
    /\ UNCHANGED <<ask, buffers, stopped, entries>>

\* OpenAI: the first chunk of a call names it; any call may go on in any order.
OpenAIToolChunk ==
    /\ MayChunk("openai")
    /\ \E i \in Calls :
          /\ i > 1 => (i - 1) \in Added
          /\ Yield(Ev("delta", i, Piece),
                   (IF i \in Added THEN <<>> ELSE <<Ev("call", i, <<>>)>>)
                   \o <<Ev("delta", i, Piece)>>)
          /\ buffers' = [j \in Added \cup {i} |->
                           (IF j \in Added THEN buffers[j] ELSE <<>>) \o (IF j = i THEN Piece ELSE <<>>)]
    /\ UNCHANGED <<ask, stopped, entries>>

AnthropicBlockStart ==
    /\ MayChunk("anthropic") /\ Added \subseteq stopped
    /\ \E i \in Calls \ Added :
          /\ i > 1 => (i - 1) \in Added
          /\ Yield(Ev("call", i, <<>>), <<Ev("call", i, <<>>)>>)
          /\ buffers' = [j \in Added \cup {i} |-> IF j = i THEN <<>> ELSE buffers[j]]
    /\ UNCHANGED <<ask, stopped, entries>>

AnthropicBlockDelta ==
    /\ MayChunk("anthropic")
    /\ \E i \in Added \ stopped :
          /\ Yield(Ev("delta", i, Piece), <<Ev("delta", i, Piece)>>)
          /\ buffers' = [buffers EXCEPT ![i] = @ \o Piece]
    /\ UNCHANGED <<ask, stopped, entries>>

AnthropicBlockStop ==
    /\ MayChunk("anthropic")
    /\ \E i \in Added \ stopped :
          /\ Yield(Ev("stop", i, <<>>), <<Ev("done", i, buffers[i])>>)
          /\ stopped' = stopped \cup {i}
    /\ UNCHANGED <<ask, buffers, entries>>

\* Gemini: a call comes whole, in one part.
GeminiCallChunk ==
    /\ MayChunk("gemini")
    /\ \E i \in Calls \ Added :
          /\ i > 1 => (i - 1) \in Added
          /\ Yield(Ev("delta", i, Piece),
                   <<Ev("call", i, <<>>), Ev("delta", i, Piece), Ev("done", i, Piece)>>)
          /\ buffers' = [j \in Added \cup {i} |-> IF j = i THEN Piece ELSE buffers[j]]
    /\ UNCHANGED <<ask, stopped, entries>>

\* An error event: only the Anthropic adapter passes it on, the others find no choices in it.
ErrorChunk ==
    /\ \E p \in Providers : MayChunk(p)
    /\ Yield(Ev("error", 0, <<>>),
             IF ask.provider = "anthropic" THEN <<Ev("error", 0, <<>>)>> ELSE <<>>)
    /\ UNCHANGED <<ask, buffers, stopped, entries>>

\* Mutant of OpenAIRest: done is left to the deltas.
OpenAIRestCompleted == <<Ev("completed", 0, <<>>)>>

\* What an adapter yields when the body has ended.
OpenAIRest ==
    [i \in Calls \cap Added |-> Ev("done", i, buffers[i])] \o <<Ev("completed", 0, <<>>)>>

Rest ==
    CASE ask.provider = "openai" -> OpenAIRest
      [] ask.provider = "gemini" -> <<Ev("completed", 0, <<>>)>>
      [] OTHER -> <<>>

\* Anthropic says itself that the message is complete.
MessageStop ==
    /\ MayChunk("anthropic") /\ Added \subseteq stopped
    /\ Yield(Ev("completed", 0, <<>>), <<Ev("completed", 0, <<>>)>>)
    /\ UNCHANGED <<ask, buffers, stopped, entries>>

\* A collected answer fails on an error event, or when nothing came (no tokens either).
CollectFails(evs, tokens) ==
    \/ \E i \in DOMAIN evs : evs[i].type = "error"
    \/ ~tokens /\ \A i \in DOMAIN evs : evs[i].type \notin {"text", "done"}

\* The body ends, whole or cut short; a streamed answer then counts as a success.
BodyEnds ==
    /\ Open
    /\ events' = events \o Rest
    /\ IF ask.streaming THEN Record("success")
       ELSE \E tokens \in BOOLEAN :
               Record(IF CollectFails(events \o Rest, tokens) THEN "error" ELSE "success")
    /\ UNCHANGED <<chunks, buffers, stopped>>

\* The body breaks, by itself or by the abort; or a write to the client fails.
BodyBreaks ==
    /\ Open
    /\ \/ Record("error")
       \/ ask.streaming /\ ask.gone /\ Record("aborted")
    /\ UNCHANGED <<chunks, buffers, stopped, events>>

Next == Fetch \/ FetchFails \/ Answered \/ ClientGone
           \/ TextChunk \/ OpenAIToolChunk \/ AnthropicBlockStart \/ AnthropicBlockDelta
           \/ AnthropicBlockStop \/ GeminiCallChunk \/ ErrorChunk \/ MessageStop
           \/ BodyEnds \/ BodyBreaks

Spec == Init /\ [][Next]_directVars

-----------------------------------------------------------------------------
(* Properties *)

Pieces(s, type, i) ==
    FlattenSeq([k \in DOMAIN s |-> IF s[k].type = type /\ s[k].call = i THEN s[k].pieces ELSE <<>>])

At(type, i) == {k \in DOMAIN events : events[k].type = type /\ events[k].call = i}

\* Text and arguments come out as the provider sent them, call by call.
PassedOn ==
    /\ Pieces(events, "text", 0) = Pieces(chunks, "text", 0)
    /\ \A i \in Calls : Pieces(events, "delta", i) = Pieces(chunks, "delta", i)

\* A call is added before its arguments and done once, after them, with all of them.
CallsFramed ==
    \A i \in Calls : \A d \in At("delta", i) \cup At("done", i) :
        /\ \E a \in At("call", i) : a < d
        /\ events[d].type = "done" =>
              /\ events[d].pieces = Pieces(chunks, "delta", i)
              /\ At("done", i) = {d} /\ \A e \in At("delta", i) : e < d

\* Once completed an answer has every call done; nothing follows the completion.
CompletionIsLast ==
    \A k \in At("completed", 0) :
        /\ \A i \in Calls : At("call", i) # {} => At("done", i) # {}
        /\ \A j \in DOMAIN events : j > k => events[j].type \in {"completed", "error"}

\* At most one call is open at a time, as the translators to the client rely on, except in
\* an OpenAI answer with several calls.
OneCallOpen ==
    ask.provider # "openai" \/ Added \subseteq {1} =>
        \A i, j \in Calls : \A a \in At("call", i), b \in At("call", j) :
            a < b => \E d \in At("done", i) : d < b

\* Whatever provider answers, its stream becomes a stream of Codex events that a translator
\* can rely on, and the request leaves one entry in the history when it has ended.
DirectSound ==
    /\ PassedOn /\ CallsFramed /\ CompletionIsLast /\ OneCallOpen
    /\ Len(entries) = IF ask.at = "ended" THEN 1 ELSE 0
    /\ "success" \in Range(entries) /\ ~ask.streaming => At("error", 0) = {}
=============================================================================
