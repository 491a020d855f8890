--------------------------- MODULE UpstreamStream ---------------------------
(***************************************************************************)
(* One request to the Codex upstream: withRetry around createResponse or   *)
(* createCompactResponse (src/utils/retry.ts, src/proxy/codex-api.ts), the *)
(* WebSocket transport with its fallback to HTTP (src/proxy/               *)
(* ws-transport.ts), the native transport and its Rust side               *)
(* (src/tls/native-transport.ts, native/src/lib.rs), and the event parser  *)
(* that reads the body (src/proxy/codex-sse.ts).                           *)
(*                                                                         *)
(* Data abstraction: event n of the answer is two bytes n and an end mark  *)
(* (the blank line) 0.  HTTP cuts the bytes into chunks anywhere; a        *)
(* WebSocket message is one whole event.                                   *)
(***************************************************************************)
EXTENDS Naturals, Sequences, SequencesExt

CONSTANTS
    MaxRetries,  \* of withRetry
    MaxMade,     \* bound: events of an answer
    MaxBuffer    \* MAX_SSE_BUFFER, in bytes of this model

VARIABLES
    call,       \* the request: kind, useWebSocket, attempt and where it is
    posts,      \* history: every attempt, and what became of it upstream
    signalled,  \* the AbortSignal
    upstream,   \* the answering side: events made, bytes not sent, whether over or lost
    pipe,       \* the ReadableStream: chunks queued and how it ended
    reader      \* parseSSEStream: the rest of the buffer, events delivered, how it ended

upstreamVars == <<call, posts, signalled, upstream, pipe, reader>>

EndMark == 0
Plain == MaxMade + 1    \* a body that is no event stream

Bytes(n) == <<n, n, EndMark>>
NoUpstream == [made |-> 0, over |-> FALSE, wire |-> <<>>, lost |-> FALSE, plain |-> FALSE]
NoPipe == [queue |-> <<>>, end |-> "no", heedsAbort |-> FALSE]
NoReader == [rest |-> <<>>, events |-> <<>>, end |-> "no"]

TypeOK ==
    /\ call.at \in {"idle", "connecting", "posting", "delay", "open", "threw"}
    /\ call.kind \in {"stream", "compact"} /\ call.attempt \in 0 .. MaxRetries
    /\ \A i \in DOMAIN posts : posts[i].fate \in {"unknown", "unsent", "refused", "accepted"}
    /\ signalled \in BOOLEAN
    /\ upstream.made \in 0 .. MaxMade
    /\ pipe.end \in {"no", "closed", "error"}
    /\ reader.end \in {"no", "closed", "error"}

Init ==
    /\ call \in [kind : {"stream"}, ws : BOOLEAN, attempt : {0}, at : {"idle"}, via : {"http"}]
             \cup [kind : {"compact"}, ws : {FALSE}, attempt : {0}, at : {"idle"}, via : {"http"}]
    /\ posts = <<>>
    /\ signalled = FALSE
    /\ upstream = NoUpstream
    /\ pipe = NoPipe
    /\ reader = NoReader

Fate(f) == posts' = [posts EXCEPT ![Len(posts)].fate = f]
Accepted == {i \in DOMAIN posts : posts[i].fate = "accepted"}

-----------------------------------------------------------------------------
(* Sending *)

\* createResponseViaHttp, createCompactResponse: an aborted request is not sent.
Post(before) ==
    IF signalled
      THEN call' = [call EXCEPT !.at = "threw"] /\ posts' = before
      ELSE /\ call' = [call EXCEPT !.at = "posting", !.via = "http"]
           /\ posts' = Append(before, [via |-> "http", prev |-> FALSE, fate |-> "unknown"])

\* createWebSocketResponse rejects at once under an aborted signal; createResponse then posts.
Start ==
    IF call.ws /\ ~signalled
      THEN /\ call' = [call EXCEPT !.at = "connecting", !.via = "ws"]
           /\ posts' = Append(posts, [via |-> "ws", prev |-> TRUE, fate |-> "unknown"])
      ELSE Post(posts)

Send ==
    /\ call.at = "idle"
    /\ Start
    /\ UNCHANGED <<signalled, upstream, pipe, reader>>

\* The WebSocket does not open: the same request by HTTP, without the conversation.
FallBack ==
    /\ call.at = "connecting"
    /\ Post([posts EXCEPT ![Len(posts)].fate = "unsent"])
    /\ UNCHANGED <<signalled, upstream, pipe, reader>>

WsOpens ==
    /\ call.at = "connecting"
    /\ call' = [call EXCEPT !.at = "open"]
    /\ Fate("accepted")
    /\ pipe' = [pipe EXCEPT !.heedsAbort = TRUE]
    /\ UNCHANGED <<signalled, upstream, reader>>

\* Mutant of Retryable: a failure of the transport is tried again too.
RetryableOrLost(status) == (status >= 500 \/ status = 0) /\ call.attempt < MaxRetries

\* withRetry: only a server error is tried again, after a delay.
Retryable(status) == status >= 500 /\ status < 600 /\ call.attempt < MaxRetries

AfterError(status) ==
    call' = IF Retryable(status) THEN [call EXCEPT !.at = "delay", !.attempt = @ + 1]
                                 ELSE [call EXCEPT !.at = "threw"]

PostRefused ==
    /\ call.at = "posting"
    /\ \E status \in {429, 503} : AfterError(status)
    /\ Fate("refused")
    /\ UNCHANGED <<signalled, upstream, pipe, reader>>

\* The transport fails before an answer, whether or not the request arrived: status 0.
PostLost ==
    /\ call.at = "posting"
    /\ AfterError(0)
    /\ \E f \in {"unsent", "accepted"} : Fate(f)
    /\ UNCHANGED <<signalled, upstream, pipe, reader>>

DelayPasses ==
    /\ call.at = "delay"
    /\ Start
    /\ UNCHANGED <<signalled, upstream, pipe, reader>>

\* The answer begins.  The listener for the abort is added only now: an abort that
\* came before it is never noticed.
PostAnswered ==
    /\ call.at = "posting"
    /\ call' = [call EXCEPT !.at = "open"]
    /\ Fate("accepted")
    /\ \E plain \in BOOLEAN :
          upstream' = IF plain THEN [upstream EXCEPT !.wire = <<Plain>>, !.over = TRUE, !.plain = TRUE]
                               ELSE upstream
    /\ pipe' = [pipe EXCEPT !.heedsAbort = ~signalled]
    /\ UNCHANGED <<signalled, reader>>

-----------------------------------------------------------------------------
(* The body *)

Streaming == call.at = "open" /\ pipe.end = "no"
ViaWs == call.via = "ws"

\* The upstream makes the next event, the terminal one or not.
Makes ==
    /\ Streaming /\ ~upstream.over /\ upstream.made < MaxMade
    /\ \E last \in BOOLEAN :
          upstream' = [upstream EXCEPT !.made = @ + 1, !.over = last,
                                       !.wire = @ \o Bytes(upstream.made + 1)]
    /\ UNCHANGED <<call, posts, signalled, pipe, reader>>

\* A chunk of the HTTP body is queued by onChunk; any number of bytes.
ChunkArrives ==
    /\ Streaming /\ ~ViaWs
    /\ \E k \in 1 .. Len(upstream.wire) :
          /\ pipe' = [pipe EXCEPT !.queue = Append(@, SubSeq(upstream.wire, 1, k))]
          /\ upstream' = [upstream EXCEPT !.wire = SubSeq(@, k + 1, Len(@))]
    /\ UNCHANGED <<call, posts, signalled, reader>>

\* A message: queued as an event; after the terminal one the stream is closed.
MessageArrives ==
    /\ Streaming /\ ViaWs /\ upstream.wire # <<>>
    /\ upstream' = [upstream EXCEPT !.wire = SubSeq(@, 4, Len(@))]
    /\ pipe' = [pipe EXCEPT !.queue = Append(@, SubSeq(upstream.wire, 1, 3)),
                            !.end = IF upstream.over /\ Len(upstream.wire) = 3 THEN "closed" ELSE "no"]
    /\ UNCHANGED <<call, posts, signalled, reader>>

\* The body is at its end, or the Rust side meets an error: on_chunk(None) either way.
HttpEnds ==
    /\ Streaming /\ ~ViaWs
    /\ pipe' = [pipe EXCEPT !.end = "closed"]
    /\ upstream' = [upstream EXCEPT !.lost = ~(upstream.over /\ upstream.wire = <<>>)]
    /\ UNCHANGED <<call, posts, signalled, reader>>

\* The socket is closed by the other side, or after an abort.
WsCloses ==
    /\ Streaming /\ ViaWs
    /\ pipe' = [pipe EXCEPT !.end = "closed"]
    /\ upstream' = [upstream EXCEPT !.lost = TRUE]
    /\ UNCHANGED <<call, posts, signalled, reader>>

\* An error of the socket errors the stream: what is queued is lost with it.
WsFails ==
    /\ Streaming /\ ViaWs
    /\ pipe' = [pipe EXCEPT !.end = "error", !.queue = <<>>]
    /\ upstream' = [upstream EXCEPT !.lost = TRUE]
    /\ UNCHANGED <<call, posts, signalled, reader>>

\* The caller aborts: while the socket connects this rejects, and the fallback is not sent.
Abort ==
    /\ ~signalled /\ call.at # "idle"
    /\ signalled' = TRUE
    /\ IF call.at = "connecting"
         THEN call' = [call EXCEPT !.at = "threw"] /\ Fate("unsent")
         ELSE UNCHANGED <<call, posts>>
    /\ IF Streaming /\ ~ViaWs /\ pipe.heedsAbort
         THEN /\ pipe' = [pipe EXCEPT !.end = "closed"]
              /\ upstream' = [upstream EXCEPT !.lost = ~(upstream.over /\ upstream.wire = <<>>)]
         ELSE UNCHANGED <<pipe, upstream>>
    /\ UNCHANGED reader

-----------------------------------------------------------------------------
(* parseSSEStream *)

Parsed(rest) == [n |-> rest[1], whole |-> Len(rest) = 2]

\* One byte more: the end mark makes an event of the buffer.
Parse(r, byte) ==
    IF byte # EndMark THEN [r EXCEPT !.rest = Append(@, byte)]
    ELSE [r EXCEPT !.events = Append(@, Parsed(r.rest)), !.rest = <<>>]

\* The chunk would take the buffer over its limit.
TooLong(chunk) == Len(reader.rest) + Len(chunk) > MaxBuffer

\* Mutant of Read: every chunk starts a new buffer.
ReadAfresh ==
    /\ call.at = "open" /\ call.kind = "stream" /\ pipe.queue # <<>> /\ reader.end = "no"
    /\ ~TooLong(Head(pipe.queue))
    /\ reader' = FoldLeft(LAMBDA r, b : IF b = EndMark /\ r.rest = <<>> THEN r ELSE Parse(r, b),
                          [reader EXCEPT !.rest = <<>>], Head(pipe.queue))
    /\ pipe' = [pipe EXCEPT !.queue = Tail(@)]
    /\ UNCHANGED <<call, posts, signalled, upstream>>

Read ==
    /\ call.at = "open" /\ call.kind = "stream" /\ pipe.queue # <<>> /\ reader.end = "no"
    /\ ~TooLong(Head(pipe.queue))
    /\ reader' = FoldLeft(Parse, reader, Head(pipe.queue))
    /\ pipe' = [pipe EXCEPT !.queue = Tail(@)]
    /\ UNCHANGED <<call, posts, signalled, upstream>>

\* The reader throws on it before it looks for events, and nobody reads what still comes:
\* the answer counts as cut short.
Overflows ==
    /\ call.at = "open" /\ call.kind = "stream" /\ pipe.queue # <<>> /\ reader.end = "no"
    /\ TooLong(Head(pipe.queue))
    /\ reader' = [reader EXCEPT !.end = "error"]
    /\ pipe' = [pipe EXCEPT !.queue = <<>>, !.end = "error"]
    /\ upstream' = [upstream EXCEPT !.lost = TRUE]
    /\ UNCHANGED <<call, posts, signalled>>

\* The end: the rest of the buffer is an event too, whole or not; a plain body an error event.
ReadEnd ==
    /\ call.kind = "stream" /\ pipe.queue = <<>> /\ pipe.end # "no" /\ reader.end = "no"
    /\ reader' = [reader EXCEPT
                    !.end = pipe.end,
                    !.events = IF pipe.end = "closed" /\ reader.rest # <<>>
                                 THEN Append(@, Parsed(reader.rest)) ELSE @]
    /\ UNCHANGED <<call, posts, signalled, upstream, pipe>>

\* createCompactResponse reads the body to its end; one that is not JSON counts as status 502.
CompactEnds ==
    /\ call.at = "open" /\ call.kind = "compact" /\ pipe.end = "closed"
    /\ reader.end = "no"
    /\ \/ /\ ~upstream.lost /\ ~signalled
          /\ reader' = [reader EXCEPT !.end = "closed"]
          /\ UNCHANGED <<call, upstream, pipe>>
       \/ /\ upstream.lost
          /\ AfterError(502)
          /\ upstream' = NoUpstream /\ pipe' = NoPipe
          /\ UNCHANGED reader
    /\ UNCHANGED <<posts, signalled>>

Next == Send \/ FallBack \/ WsOpens \/ PostLost \/ PostRefused \/ DelayPasses \/ PostAnswered
           \/ Makes \/ ChunkArrives \/ MessageArrives \/ HttpEnds \/ WsCloses \/ WsFails
           \/ Abort \/ Read \/ Overflows \/ ReadEnd \/ CompactEnds

Spec == Init /\ [][Next]_upstreamVars

-----------------------------------------------------------------------------
(* Properties *)

\* A streamed request is never sent again once the upstream may have accepted it; a
\* compaction may, when its answer could not be read.
AcceptedOnce ==
    call.kind = "stream" =>
        \A i \in DOMAIN posts : i < Len(posts) => posts[i].fate \in {"unsent", "refused"}

\* What the reader delivers are the events of the answer from the first one on, in order
\* and once; only the last may be torn, and only of an answer cut short.
InOrder ==
    \A i \in DOMAIN reader.events :
        /\ reader.events[i].n = IF upstream.plain THEN Plain ELSE i
        /\ ~reader.events[i].whole =>
              i = Len(reader.events) /\ (upstream.lost \/ upstream.plain)

\* An answer that was not cut short is delivered to its last event.
Whole ==
    reader.end # "no" /\ call.kind = "stream" /\ ~upstream.lost =>
        upstream.over /\ Len(reader.events) = IF upstream.plain THEN 1 ELSE upstream.made

\* The events a request yields are those of the one answer it was given.
AnswerDelivered == AcceptedOnce /\ InOrder /\ Whole
-----------------------------------------------------------------------------
(* What AcceptedOnce rests on, for the proofs: only the last attempt may   *)
(* have reached the upstream, and when another one comes it has not.       *)

Untaken(i) == posts[i].fate \in {"unsent", "refused"}

AttemptsInv ==
    /\ posts \in Seq([via : {"http", "ws"}, prev : BOOLEAN,
                      fate : {"unknown", "unsent", "refused", "accepted"}])
    /\ call \in [kind : {"stream", "compact"}, ws : BOOLEAN, attempt : 0 .. MaxRetries,
                 at : {"idle", "connecting", "posting", "delay", "open", "threw"},
                 via : {"http", "ws"}]
    /\ call.at = "idle" => posts = <<>>
    /\ call.at \in {"connecting", "posting"} => posts # <<>>
    /\ AcceptedOnce
    /\ call.kind = "stream" /\ call.at = "delay" => posts # <<>> /\ Untaken(Len(posts))
=============================================================================
