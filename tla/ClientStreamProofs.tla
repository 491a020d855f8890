------------------------- MODULE ClientStreamProofs -------------------------
(***************************************************************************)
(* Every client reads what the upstream said: proofs about the translators  *)
(* of a stream (ClientStreams as the part "streams" of MCExchanges).        *)
(*                                                                          *)
(* The invariant, ClientsHeld, says of every client what it has, as a       *)
(* reading of the events sent so far, with the text a schema holds back and *)
(* the call that is being sent counted in; the state of each translator     *)
(* (which blocks are open, which calls were streamed) is tied to the same   *)
(* events.  Then: what one event more adds to what was sent, what one block *)
(* more adds to what is read, and each translator, event by event.          *)
(***************************************************************************)
EXTENDS ExchangeProofs

-----------------------------------------------------------------------------
(* Streams to the clients *)

SentEvent == [type : {"text", "reasoning", "call", "delta", "done"} \cup Streams!Terminal,
              call : Nat, pieces : Seq(Nat), usage : Streams!Usages]

CallId == [call : Nat]
BlockKinds == Streams!Kinds \cup {"other"}
PieceRead == [kind : BlockKinds, call : CallId, piece : Nat]
PartRecord == [kind : BlockKinds, call : CallId, data : Seq(Nat)]
BlockRecord == [kind : BlockKinds, call : CallId, data : Seq(Nat), open : BOOLEAN]
CallArgs == [call : CallId, args : Seq(Nat)]

OpenAIRecord ==
    [text : Seq(Nat), buffer : Seq(Nat), reasoning : Seq(Nat), calls : Seq(CallArgs),
     content : BOOLEAN, streamed : SUBSET CallId, finish : {"none", "stop", "tool_calls"},
     done : BOOLEAN, usage : Nat]
AnthropicRecord ==
    [blocks : Seq(BlockRecord), index : Nat, thinking : BOOLEAN, text : BOOLEAN,
     tools : BOOLEAN, content : BOOLEAN, streamed : SUBSET CallId,
     stop : {"none", "error", "tool_use", "end_turn"}, stopped : BOOLEAN,
     nonsense : BOOLEAN, usage : Nat]
GeminiRecord ==
    [parts : Seq(PartRecord), buffer : Seq(Nat), content : BOOLEAN,
     finish : {"none", "STOP", "OTHER"}, usage : Nat]
CodexRecord == [text : Seq(Nat), buffer : Seq(Nat), others : Seq(SentEvent), usage : Nat]
GatherRecord ==
    [text : Seq(Nat), reasoning : Seq(Nat), calls : Seq(CallArgs), tokens : BOOLEAN,
     result : {"none", "completed", "incomplete", "failed"}]

Id(c) == [call |-> c]
Marked(kind, c, data) == [i \in DOMAIN data |-> [kind |-> kind, call |-> c, piece |-> data[i]]]

\* What is read of a block by a client that reads some kinds of blocks.
Shows(kinds, kind, c, data) == IF kind \in kinds THEN Marked(kind, c, data) ELSE <<>>

\* The call that is being sent, as the last of those a client has.
WithCall(calls, o, args) == IF o = 0 THEN calls ELSE Append(calls, [call |-> Id(o), args |-> args])
OpenPieces(kinds, o, args) ==
    IF o # 0 /\ "call" \in kinds THEN Marked("call", Id(o), args) ELSE <<>>

Going == ~Streams!Completed /\ ~Streams!Failed

\* What the upstream has sent is well formed.
SentHeld ==
    /\ x1 \in [reasoning : BOOLEAN, tuple : BOOLEAN]
    /\ x2 \in Seq(SentEvent) /\ Len(x2) <= MaxEvents
    /\ x3 \in {0} \cup x5
    /\ x4 \in {"no", "end", "broken", "gone"}
    /\ x5 \subseteq 1 .. Len(x2)
    /\ Streams!Completed => x3 = 0 /\ ~Streams!Failed
    /\ \A c \in Nat \ x5 : Streams!PiecesOfCall(c) = <<>>

\* Two ways to say what was sent.
AsCall == [a \in CallArgs |-> [kind |-> "call", call |-> a.call, data |-> a.args, open |-> FALSE]]

SaidTwice ==
    /\ Streams!Content({"text"}) = Marked("text", Id(0), Streams!SentPieces("text"))
    /\ Streams!Content({"reasoning"}) = Marked("reasoning", Id(0), Streams!SentPieces("reasoning"))
    /\ \A k \in SUBSET Streams!Kinds :
          Streams!Content(k \cap {"call"}) = Streams!Read(k, Mapped(AsCall, Streams!SentCalls))
    /\ Streams!Content(Streams!Spoken) = <<>> <=>
          Streams!SentPieces("text") = <<>> /\ Streams!SentCalls = <<>>
    /\ Streams!Content({}) = <<>>

\* The OpenAI format, while events come: w is what the request asked for.
Distinct(q) == \A i, j \in DOMAIN q : q[i].call = q[j].call => i = j
OfCalls(q, ids) == \A i \in DOMAIN q : q[i].call \in {Id(c) : c \in ids}

OpenAIHas(w, s, texts, reasons, calls) ==
    /\ s \in OpenAIRecord
    /\ IF w.tuple THEN s.text = <<>> /\ s.buffer = texts ELSE s.text = texts /\ s.buffer = <<>>
    /\ s.reasoning = IF w.reasoning THEN reasons ELSE <<>>
    /\ s.calls = calls
    /\ s.content <=> texts # <<>> \/ calls # <<>> \/ (w.reasoning /\ reasons # <<>>)
    /\ s.usage = 0

Pieces == [c \in Nat |-> Streams!PiecesOfCall(c)]
Streamed(marks, pieces) == \A c \in Nat : Id(c) \in marks <=> pieces[c] # <<>>

OpenAIReady(w, s, texts, reasons, calls, ids, pieces) ==
    /\ OpenAIHas(w, s, texts, reasons, calls)
    /\ Distinct(s.calls) /\ OfCalls(s.calls, ids)
    /\ Streamed(s.streamed, pieces)

OpenAISending ==
    /\ OpenAIReady(x1, x6, Streams!SentPieces("text"), Streams!SentPieces("reasoning"),
                   WithCall(Streams!SentCalls, x3, Streams!PiecesOfCall(x3)), x5, Pieces)
    /\ x4 # "end" => ~x6.done

OpenAIWhole ==
    /\ x6 \in OpenAIRecord
    /\ x6.text = IF Streams!Nothing THEN <<0>> ELSE Streams!SentPieces("text")
    /\ x6.reasoning = IF x1.reasoning THEN Streams!SentPieces("reasoning") ELSE <<>>
    /\ x6.calls = Streams!SentCalls
    /\ x6.finish = IF Streams!SentCalls = <<>> THEN "stop" ELSE "tool_calls"
    /\ x4 = "end" => x6.done

\* No block is open, or just the last one.
Settled(s) ==
    /\ s.index = Len(s.blocks) /\ ~s.nonsense
    /\ \A b \in 1 .. s.index : ~s.blocks[b].open
EndsWith(s, kind, c) ==
    /\ Len(s.blocks) = s.index + 1 /\ ~s.nonsense
    /\ s.blocks[s.index + 1].open /\ s.blocks[s.index + 1].kind = kind
    /\ s.blocks[s.index + 1].call = c
    /\ \A b \in 1 .. s.index : ~s.blocks[b].open

Balanced(s, o) ==
    /\ s.thinking => EndsWith(s, "reasoning", Id(0)) /\ ~s.text /\ o = 0
    /\ s.text => EndsWith(s, "text", Id(0)) /\ o = 0
    /\ o # 0 => EndsWith(s, "call", Id(o))
    /\ ~s.thinking /\ ~s.text /\ o = 0 => Settled(s)

AllClosed(s) == ~s.nonsense /\ \A b \in DOMAIN s.blocks : ~s.blocks[b].open

\* What was sent of what the request asked for, the call that is open included.
SaidBefore(kinds) ==
    Streams!Content(kinds \cap Streams!Shown) \o OpenPieces(kinds, x3, Streams!PiecesOfCall(x3))

AnthropicSending ==
    /\ x7 \in AnthropicRecord
    /\ \A k \in SUBSET Streams!Kinds : Streams!Read(k, x7.blocks) = SaidBefore(k)
    /\ x7.usage = 0
    /\ ~x7.nonsense
    /\ x4 = "end" /\ x3 = 0 => AllClosed(x7)
    /\ x4 # "end" => /\ ~x7.stopped
                     /\ Balanced(x7, x3)
                     /\ x7.streamed = x6.streamed
                     /\ x7.content <=> x6.content
                     /\ x7.thinking \/ x7.text => x7.content
                     /\ x7.tools <=> x6.calls # <<>>

AnthropicWhole ==
    /\ x7 \in AnthropicRecord
    /\ ~Streams!Nothing => \A k \in SUBSET Streams!Kinds :
          Streams!Read(k, x7.blocks) = Streams!Content(k \cap Streams!Shown)
    /\ ~x7.nonsense
    /\ x4 # "end" => ~x7.stopped /\ Balanced(x7, 0) /\ (x7.tools <=> Streams!SentCalls # <<>>)
    /\ x4 = "end" => /\ AllClosed(x7)
                     /\ x7.stop = IF Streams!SentCalls = <<>> THEN "end_turn" ELSE "tool_use"

AnthropicFailed == x3 = 0 => x7.stopped /\ AllClosed(x7)

GeminiSending ==
    /\ x8 \in GeminiRecord
    /\ x8.buffer = IF x1.tuple THEN Streams!SentPieces("text") ELSE <<>>
    /\ x8.content <=> Streams!Content(Streams!Spoken) # <<>>
    /\ x8.finish = "none" /\ x8.usage = 0
    /\ \A k \in SUBSET Streams!Kinds :
          Streams!Read(k, x8.parts)
            = Streams!Content(k \cap (IF x1.tuple THEN {"call"} ELSE Streams!Spoken))

GeminiWhole ==
    /\ x8.finish = "STOP"
    /\ Streams!Content(Streams!Spoken) # <<>> =>
          /\ ~x1.tuple => \A k \in SUBSET Streams!Kinds :
               Streams!Read(k, x8.parts) = Streams!Content(k \cap Streams!Spoken)
          /\ \A k \in Streams!Spoken : Streams!Read({k}, x8.parts) = Streams!Content({k})

CodexSending ==
    /\ x9 \in CodexRecord
    /\ IF x1.tuple THEN x9.text = <<>> /\ x9.buffer = Streams!SentPieces("text")
                   ELSE x9.text = Streams!SentPieces("text") /\ x9.buffer = <<>>
    /\ x9.usage = 0

CodexWhole ==
    /\ x9.text = Streams!SentPieces("text")
    /\ Streams!Last(x9.others).type = "completed"

GatheredAll ==
    /\ x10 \in GatherRecord
    /\ x10.text = Streams!SentPieces("text") /\ x10.reasoning = Streams!SentPieces("reasoning")
    /\ x10.calls = Streams!SentCalls

SameUsage == x6.usage = x7.usage /\ x6.usage = x8.usage /\ x6.usage = x9.usage

Sending == OpenAISending /\ AnthropicSending /\ GeminiSending /\ CodexSending /\ GatheredAll
Whole == OpenAIWhole /\ AnthropicWhole /\ GeminiWhole /\ CodexWhole /\ GatheredAll
            /\ x10.result = "completed" /\ SameUsage

ClientsHeld ==
    /\ SentHeld /\ SaidTwice
    /\ Going => Sending
    /\ Streams!Completed => Whole
    /\ Streams!Failed => AnthropicFailed

-----------------------------------------------------------------------------
(* What was sent, one event more *)

LEMMA EventParts ==
    ASSUME NEW e \in SentEvent
    PROVE  /\ e.type \in {"text", "reasoning", "call", "delta", "done"} \cup Streams!Terminal
           /\ e.call \in Nat /\ e.pieces \in Seq(Nat) /\ e.usage \in Streams!Usages
  BY DEF SentEvent

LEMMA MarkedTyped ==
    ASSUME NEW kind \in BlockKinds, NEW c \in CallId, NEW d \in Seq(Nat)
    PROVE  /\ Marked(kind, c, d) \in Seq(PieceRead) /\ Len(Marked(kind, c, d)) = Len(d)
           /\ \A i \in 1 .. Len(d) : Marked(kind, c, d)[i] = [kind |-> kind, call |-> c, piece |-> d[i]]
<1>1. Len(d) \in Nat /\ DOMAIN d = 1 .. Len(d) /\ \A i \in 1 .. Len(d) : d[i] \in Nat
  OBVIOUS
<1>2. \A p \in Nat : [kind |-> kind, call |-> c, piece |-> p] \in PieceRead
  BY DEF PieceRead
<1>3. Marked(kind, c, d) \in [1 .. Len(d) -> PieceRead]
      /\ \A i \in 1 .. Len(d) : Marked(kind, c, d)[i] = [kind |-> kind, call |-> c, piece |-> d[i]]
  BY <1>1, <1>2 DEF Marked
<1>4. Marked(kind, c, d) \in Seq(PieceRead)
  BY <1>1, <1>3
<1>. QED BY <1>1, <1>3, <1>4, LengthIs

LEMMA JoinIs ==
    ASSUME NEW V, NEW a \in Seq(V), NEW b \in Seq(V)
    PROVE  /\ a \o b \in Seq(V) /\ Len(a \o b) = Len(a) + Len(b)
           /\ Len(a) \in Nat /\ Len(b) \in Nat
           /\ \A i \in 1 .. Len(a) : (a \o b)[i] = a[i]
           /\ \A i \in 1 .. Len(b) : (a \o b)[Len(a) + i] = b[i]
  OBVIOUS

LEMMA PlaceIs ==
    ASSUME NEW m \in Nat, NEW n \in Nat, NEW i \in 1 .. m + n
    PROVE  i \in 1 .. m \/ \E j \in 1 .. n : i = m + j
<1>1. i > m => i - m \in 1 .. n /\ i = m + (i - m)
  OBVIOUS
<1>. QED BY <1>1

LEMMA MarkedJoin ==
    ASSUME NEW kind \in BlockKinds, NEW c \in CallId, NEW d \in Seq(Nat), NEW p \in Seq(Nat)
    PROVE  Marked(kind, c, d \o p) = Marked(kind, c, d) \o Marked(kind, c, p)
<1> DEFINE m(q) == Marked(kind, c, q)
           r == d \o p
           R(x) == [kind |-> kind, call |-> c, piece |-> x]
<1>1. /\ r \in Seq(Nat) /\ Len(r) = Len(d) + Len(p) /\ Len(d) \in Nat /\ Len(p) \in Nat
      /\ \A i \in 1 .. Len(d) : r[i] = d[i]
      /\ \A i \in 1 .. Len(p) : r[Len(d) + i] = p[i]
  BY JoinIs
<1> HIDE DEF r
<1>2. m(r) \in Seq(PieceRead) /\ Len(m(r)) = Len(r) /\ \A i \in 1 .. Len(r) : m(r)[i] = R(r[i])
  BY <1>1, MarkedTyped
<1>3. m(d) \in Seq(PieceRead) /\ Len(m(d)) = Len(d) /\ \A i \in 1 .. Len(d) : m(d)[i] = R(d[i])
  BY MarkedTyped
<1>4. m(p) \in Seq(PieceRead) /\ Len(m(p)) = Len(p) /\ \A i \in 1 .. Len(p) : m(p)[i] = R(p[i])
  BY MarkedTyped
<1> HIDE DEF m, R
<1> DEFINE u == m(d) \o m(p)
<1>5. /\ u \in Seq(PieceRead) /\ Len(u) = Len(m(d)) + Len(m(p))
      /\ \A i \in 1 .. Len(m(d)) : u[i] = m(d)[i]
      /\ \A i \in 1 .. Len(m(p)) : u[Len(m(d)) + i] = m(p)[i]
  <2>1. m(d) \in Seq(PieceRead) /\ m(p) \in Seq(PieceRead)
    BY <1>3, <1>4
  <2>. QED BY <2>1, JoinIs
<1> HIDE DEF u
<1>6. ASSUME NEW i \in 1 .. Len(r) PROVE m(r)[i] = u[i]
  <2> DEFINE a == Len(d)
             b == Len(p)
  <2>1. a \in Nat /\ b \in Nat /\ i \in 1 .. a + b
    BY <1>1, <1>6
  <2> HIDE DEF a, b
  <2>2. CASE i \in 1 .. a
    BY <1>1, <1>2, <1>3, <1>5, <2>2 DEF a
  <2>3. ASSUME NEW j \in 1 .. b, i = a + j PROVE m(r)[i] = u[i]
    <3>1. r[a + j] = p[j] /\ u[a + j] = m(p)[j] /\ m(p)[j] = R(p[j])
      BY <1>1, <1>3, <1>4, <1>5, <2>3 DEF a, b
    <3>2. m(r)[a + j] = R(r[a + j])
      BY <1>2, <1>6, <2>3
    <3>. QED BY <2>3, <3>1, <3>2
  <2>. QED BY <2>1, <2>2, <2>3, PlaceIs
<1>7. m(r) = u
  <2>1. Len(m(r)) = Len(u)
    BY <1>1, <1>2, <1>3, <1>4, <1>5
  <2>2. \A i \in 1 .. Len(u) : m(r)[i] = u[i]
    BY <1>2, <1>6, <2>1
  <2>3. m(r) \in Seq(PieceRead) /\ u \in Seq(PieceRead)
    BY <1>2, <1>5
  <2>. QED BY <2>1, <2>2, <2>3, SameSequence
<1>. QED BY <1>7 DEF m, r, u

LEMMA MarkedEmpty == ASSUME NEW kind, NEW c PROVE Marked(kind, c, <<>>) = <<>>
  BY DEF Marked

LEMMA FragmentIs ==
    ASSUME NEW k, NEW b
    PROVE  Streams!Fragment(k, b) = IF b.kind \in k THEN Marked(b.kind, b.call, b.data) ELSE <<>>
  BY DEF Streams!Fragment, Marked

LEMMA AsBlockIs ==
    ASSUME NEW e \in SentEvent
    PROVE  /\ Streams!AsBlock(e) \in PartRecord
           /\ e.type = "done" => Streams!AsBlock(e) = [kind |-> "call", call |-> Id(e.call), data |-> e.pieces]
           /\ e.type = "text" => Streams!AsBlock(e) = [kind |-> "text", call |-> Id(0), data |-> e.pieces]
           /\ e.type = "reasoning" =>
                 Streams!AsBlock(e) = [kind |-> "reasoning", call |-> Id(0), data |-> e.pieces]
           /\ e.type \notin {"text", "reasoning", "done"} =>
                 Streams!AsBlock(e) = [kind |-> "other", call |-> Id(0), data |-> e.pieces]
<1>1. e.call \in Nat /\ e.pieces \in Seq(Nat) /\ 0 \in Nat
  BY EventParts
<1>2. ASSUME NEW kind \in BlockKinds, NEW n \in Nat, NEW d \in Seq(Nat)
      PROVE  [kind |-> kind, call |-> Id(n), data |-> d] \in PartRecord
  BY DEF PartRecord, CallId, Id
<1>3. {"text", "reasoning", "call", "other"} \subseteq BlockKinds
  BY DEF BlockKinds, Streams!Kinds
<1>. QED BY <1>1, <1>2, <1>3 DEF Streams!AsBlock, Streams!NoCall, Id

PiecesOf(t) == [e \in SentEvent |-> IF e.type = t THEN e.pieces ELSE <<>>]
ArgsOf(c) == [e \in SentEvent |-> IF e.type = "delta" /\ e.call = c THEN e.pieces ELSE <<>>]
DoneOf == [e \in SentEvent |->
             IF e.type = "done" THEN <<[call |-> [call |-> e.call], args |-> e.pieces]>> ELSE <<>>]
ContentOf(k) == [e \in SentEvent |-> Streams!Fragment(k, Streams!AsBlock(e))]
BlockOf(k) == [b \in BlockRecord |-> Streams!Fragment(k, b)]
PartOf(k) == [b \in PartRecord |-> Streams!Fragment(k, b)]

LEMMA FragmentTyped ==
    /\ \A k : \A b \in PartRecord : Streams!Fragment(k, b) \in Seq(PieceRead)
    /\ \A k : \A b \in BlockRecord : Streams!Fragment(k, b) \in Seq(PieceRead)
<1>1. ASSUME NEW k, NEW b, b.kind \in BlockKinds, b.call \in CallId, b.data \in Seq(Nat)
      PROVE  Streams!Fragment(k, b) \in Seq(PieceRead)
  <2>1. Marked(b.kind, b.call, b.data) \in Seq(PieceRead)
    BY <1>1, MarkedTyped
  <2>2. <<>> \in Seq(PieceRead)
    OBVIOUS
  <2>. QED BY <2>1, <2>2, FragmentIs
<1>2. ASSUME NEW b \in PartRecord PROVE b.kind \in BlockKinds /\ b.call \in CallId /\ b.data \in Seq(Nat)
  BY DEF PartRecord
<1>3. ASSUME NEW b \in BlockRecord PROVE b.kind \in BlockKinds /\ b.call \in CallId /\ b.data \in Seq(Nat)
  BY DEF BlockRecord
<1>. QED BY <1>1, <1>2, <1>3

LEMMA MapsTyped ==
    /\ \A t : Maps(PiecesOf(t), SentEvent, Seq(Nat))
    /\ \A c : Maps(ArgsOf(c), SentEvent, Seq(Nat))
    /\ Maps(DoneOf, SentEvent, Seq(CallArgs))
    /\ \A k : Maps(ContentOf(k), SentEvent, Seq(PieceRead))
    /\ \A k : Maps(BlockOf(k), BlockRecord, Seq(PieceRead))
    /\ \A k : Maps(PartOf(k), PartRecord, Seq(PieceRead))
<1>1. <<>> \in Seq(Nat) /\ <<>> \in Seq(CallArgs) /\ \A e \in SentEvent : e.pieces \in Seq(Nat)
  BY EventParts
<1>2. \A e \in SentEvent : [call |-> [call |-> e.call], args |-> e.pieces] \in CallArgs
  BY EventParts DEF CallArgs, CallId
<1>3. \A a \in CallArgs : <<a>> \in Seq(CallArgs)
  OBVIOUS
<1>4. \A t : Maps(PiecesOf(t), SentEvent, Seq(Nat))
  BY <1>1 DEF Maps, PiecesOf
<1>5. \A c : Maps(ArgsOf(c), SentEvent, Seq(Nat))
  BY <1>1 DEF Maps, ArgsOf
<1>6. Maps(DoneOf, SentEvent, Seq(CallArgs))
  <2>1. ASSUME NEW e \in SentEvent
        PROVE  <<[call |-> [call |-> e.call], args |-> e.pieces]>> \in Seq(CallArgs)
    BY <1>2, <1>3
  <2>. QED BY <1>1, <2>1, Zenon DEF Maps, DoneOf
<1>7. \A k : Maps(ContentOf(k), SentEvent, Seq(PieceRead))
  <2>1. ASSUME NEW k, NEW e \in SentEvent
        PROVE  Streams!Fragment(k, Streams!AsBlock(e)) \in Seq(PieceRead)
    BY AsBlockIs, FragmentTyped
  <2>. QED BY <2>1 DEF Maps, ContentOf
<1>8. \A k : Maps(BlockOf(k), BlockRecord, Seq(PieceRead))
  BY FragmentTyped DEF Maps, BlockOf
<1>9. \A k : Maps(PartOf(k), PartRecord, Seq(PieceRead))
  BY FragmentTyped DEF Maps, PartOf
<1>. QED BY <1>4, <1>5, <1>6, <1>7, <1>8, <1>9

LEMMA StreamsFlat == \A r : Streams!FlattenSeq(r) = Seqs!FlattenSeq(r)
  BY DEF Streams!FlattenSeq, Seqs!FlattenSeq

LEMMA MappedIs ==
    ASSUME NEW s \in Seq(SentEvent)
    PROVE  /\ \A t : [i \in DOMAIN s |-> IF s[i].type = t THEN s[i].pieces ELSE <<>>]
                        = Mapped(PiecesOf(t), s)
           /\ \A c : [i \in DOMAIN s |-> IF s[i].type = "delta" /\ s[i].call = c
                                           THEN s[i].pieces ELSE <<>>] = Mapped(ArgsOf(c), s)
           /\ [i \in DOMAIN s |->
                 IF s[i].type = "done"
                   THEN <<[call |-> [call |-> s[i].call], args |-> s[i].pieces]>> ELSE <<>>]
                = Mapped(DoneOf, s)
           /\ \A k : [i \in DOMAIN s |-> Streams!Fragment(k, Streams!AsBlock(s[i]))]
                        = Mapped(ContentOf(k), s)
<1>1. \A i \in DOMAIN s : s[i] \in SentEvent
  OBVIOUS
<1>2. ASSUME NEW t PROVE [i \in DOMAIN s |-> IF s[i].type = t THEN s[i].pieces ELSE <<>>]
                        = Mapped(PiecesOf(t), s)
  BY <1>1, Zenon DEF Mapped, PiecesOf
<1>3. ASSUME NEW c PROVE [i \in DOMAIN s |-> IF s[i].type = "delta" /\ s[i].call = c
                                           THEN s[i].pieces ELSE <<>>] = Mapped(ArgsOf(c), s)
  BY <1>1, Zenon DEF Mapped, ArgsOf
<1>4. [i \in DOMAIN s |->
         IF s[i].type = "done"
           THEN <<[call |-> [call |-> s[i].call], args |-> s[i].pieces]>> ELSE <<>>] = Mapped(DoneOf, s)
  BY <1>1, Zenon DEF Mapped, DoneOf
<1>5. ASSUME NEW k PROVE [i \in DOMAIN s |-> Streams!Fragment(k, Streams!AsBlock(s[i]))]
                        = Mapped(ContentOf(k), s)
  BY <1>1, Zenon DEF Mapped, ContentOf
<1>. QED BY <1>2, <1>3, <1>4, <1>5

LEMMA SentIs ==
    ASSUME x2 \in Seq(SentEvent)
    PROVE  /\ \A t : Streams!SentPieces(t) = FlatMap(PiecesOf(t), x2)
           /\ \A c : Streams!PiecesOfCall(c) = FlatMap(ArgsOf(c), x2)
           /\ Streams!SentCalls = FlatMap(DoneOf, x2)
           /\ \A k : Streams!Content(k) = FlatMap(ContentOf(k), x2)
  BY MappedIs, StreamsFlat
     DEF Streams!SentPieces, Streams!PiecesOfCall, Streams!SentCalls, Streams!Content, FlatMap

LEMMA SentIsNext ==
    ASSUME x2' \in Seq(SentEvent)
    PROVE  /\ \A t : Streams!SentPieces(t)' = FlatMap(PiecesOf(t), x2')
           /\ \A c : Streams!PiecesOfCall(c)' = FlatMap(ArgsOf(c), x2')
           /\ Streams!SentCalls' = FlatMap(DoneOf, x2')
           /\ \A k : Streams!Content(k)' = FlatMap(ContentOf(k), x2')
  BY MappedIs, StreamsFlat
     DEF Streams!SentPieces, Streams!PiecesOfCall, Streams!SentCalls, Streams!Content, FlatMap

LEMMA ReadingIs ==
    ASSUME NEW k
    PROVE  /\ \A bs \in Seq(BlockRecord) : Streams!Read(k, bs) = FlatMap(BlockOf(k), bs)
           /\ \A bs \in Seq(PartRecord) : Streams!Read(k, bs) = FlatMap(PartOf(k), bs)
<1>1. ASSUME NEW bs \in Seq(BlockRecord) PROVE Streams!Read(k, bs) = FlatMap(BlockOf(k), bs)
  <2>1. \A i \in DOMAIN bs : bs[i] \in BlockRecord
    OBVIOUS
  <2>2. [b \in DOMAIN bs |-> Streams!Fragment(k, bs[b])] = Mapped(BlockOf(k), bs)
    BY <2>1, Zenon DEF Mapped, BlockOf
  <2>. QED BY <2>2, StreamsFlat DEF Streams!Read, FlatMap
<1>2. ASSUME NEW bs \in Seq(PartRecord) PROVE Streams!Read(k, bs) = FlatMap(PartOf(k), bs)
  <2>1. \A i \in DOMAIN bs : bs[i] \in PartRecord
    OBVIOUS
  <2>2. [b \in DOMAIN bs |-> Streams!Fragment(k, bs[b])] = Mapped(PartOf(k), bs)
    BY <2>1, Zenon DEF Mapped, PartOf
  <2>. QED BY <2>2, StreamsFlat DEF Streams!Read, FlatMap
<1>. QED BY <1>1, <1>2

LEMMA NoMore == ASSUME NEW V, NEW s \in Seq(V) PROVE s \o <<>> = s
  OBVIOUS

\* What one event adds to what was sent.
ContentGains(e, k) ==
    /\ Streams!Content(k) \in Seq(PieceRead)
    /\ e.type \notin {"text", "reasoning", "done"} => Streams!Content(k)' = Streams!Content(k)
    /\ e.type = "text" => Streams!Content(k)' =
          IF "text" \in k THEN Streams!Content(k) \o Marked("text", Id(0), e.pieces)
                          ELSE Streams!Content(k)
    /\ e.type = "reasoning" => Streams!Content(k)' =
          IF "reasoning" \in k THEN Streams!Content(k) \o Marked("reasoning", Id(0), e.pieces)
                               ELSE Streams!Content(k)
    /\ e.type = "done" => Streams!Content(k)' =
          IF "call" \in k THEN Streams!Content(k) \o Marked("call", Id(e.call), e.pieces)
                          ELSE Streams!Content(k)

Gains(e) ==
    /\ \A t : /\ Streams!SentPieces(t) \in Seq(Nat)
              /\ Streams!SentPieces(t)' = IF e.type = t THEN Streams!SentPieces(t) \o e.pieces
                                                        ELSE Streams!SentPieces(t)
    /\ \A c : /\ Streams!PiecesOfCall(c) \in Seq(Nat)
              /\ Streams!PiecesOfCall(c)' = IF e.type = "delta" /\ e.call = c
                                              THEN Streams!PiecesOfCall(c) \o e.pieces
                                              ELSE Streams!PiecesOfCall(c)
    /\ Streams!SentCalls \in Seq(CallArgs)
    /\ Streams!SentCalls' = IF e.type = "done"
                              THEN Append(Streams!SentCalls, [call |-> Id(e.call), args |-> e.pieces])
                              ELSE Streams!SentCalls
    /\ \A k \in SUBSET Streams!Kinds : ContentGains(e, k)

LEMMA ContentAdds ==
    ASSUME NEW k \in SUBSET Streams!Kinds, NEW e \in SentEvent
    PROVE  /\ ContentOf(k)[e] = Streams!Fragment(k, Streams!AsBlock(e))
           /\ e.type \notin {"text", "reasoning", "done"} => ContentOf(k)[e] = <<>>
           /\ e.type = "text" => ContentOf(k)[e] =
                IF "text" \in k THEN Marked("text", Id(0), e.pieces) ELSE <<>>
           /\ e.type = "reasoning" => ContentOf(k)[e] =
                IF "reasoning" \in k THEN Marked("reasoning", Id(0), e.pieces) ELSE <<>>
           /\ e.type = "done" => ContentOf(k)[e] =
                IF "call" \in k THEN Marked("call", Id(e.call), e.pieces) ELSE <<>>
<1>1. ContentOf(k)[e] = Streams!Fragment(k, Streams!AsBlock(e))
  BY DEF ContentOf
<1>2. "other" \notin k
  BY DEF Streams!Kinds
<1>3. ASSUME NEW kind, NEW c, NEW d
      PROVE  Streams!Fragment(k, [kind |-> kind, call |-> c, data |-> d])
               = IF kind \in k THEN Marked(kind, c, d) ELSE <<>>
  BY FragmentIs
<1>4. CASE e.type = "done"
  BY <1>1, <1>3, <1>4, AsBlockIs
<1>5. CASE e.type = "text"
  BY <1>1, <1>3, <1>5, AsBlockIs
<1>6. CASE e.type = "reasoning"
  BY <1>1, <1>3, <1>6, AsBlockIs
<1>7. CASE e.type \notin {"text", "reasoning", "done"}
  BY <1>1, <1>2, <1>3, <1>7, AsBlockIs
<1>. QED BY <1>1, <1>4, <1>5, <1>6, <1>7

LEMMA OneEvent ==
    ASSUME x2 \in Seq(SentEvent), NEW e \in SentEvent, x2' = Append(x2, e)
    PROVE  Gains(e)
<1>1. x2' \in Seq(SentEvent)
  OBVIOUS
<1>2. ASSUME NEW V, NEW f, Maps(f, SentEvent, Seq(V))
      PROVE  FlatMap(f, x2') = FlatMap(f, x2) \o f[e] /\ FlatMap(f, x2) \in Seq(V) /\ f[e] \in Seq(V)
             /\ FlatMap(f, x2) \o <<>> = FlatMap(f, x2)
  BY <1>2, FlatMapAppend, NoMore
<1>3. ASSUME NEW t
      PROVE  /\ Streams!SentPieces(t) \in Seq(Nat)
             /\ Streams!SentPieces(t)' = IF e.type = t THEN Streams!SentPieces(t) \o e.pieces
                                                       ELSE Streams!SentPieces(t)
  <2>1. Streams!SentPieces(t)' = FlatMap(PiecesOf(t), x2')
        /\ Streams!SentPieces(t) = FlatMap(PiecesOf(t), x2)
    BY <1>1, SentIs, SentIsNext
  <2>2. PiecesOf(t)[e] = IF e.type = t THEN e.pieces ELSE <<>>
    BY DEF PiecesOf
  <2>. QED BY <1>2, <2>1, <2>2, MapsTyped
<1>4. ASSUME NEW c
      PROVE  /\ Streams!PiecesOfCall(c) \in Seq(Nat)
             /\ Streams!PiecesOfCall(c)' = IF e.type = "delta" /\ e.call = c
                                              THEN Streams!PiecesOfCall(c) \o e.pieces
                                              ELSE Streams!PiecesOfCall(c)
  <2>1. Streams!PiecesOfCall(c)' = FlatMap(ArgsOf(c), x2')
        /\ Streams!PiecesOfCall(c) = FlatMap(ArgsOf(c), x2)
    BY <1>1, SentIs, SentIsNext
  <2>2. ArgsOf(c)[e] = IF e.type = "delta" /\ e.call = c THEN e.pieces ELSE <<>>
    BY DEF ArgsOf
  <2>. QED BY <1>2, <2>1, <2>2, MapsTyped
<1>5. /\ Streams!SentCalls \in Seq(CallArgs)
      /\ Streams!SentCalls' = IF e.type = "done"
                              THEN Append(Streams!SentCalls, [call |-> Id(e.call), args |-> e.pieces])
                              ELSE Streams!SentCalls
  <2> DEFINE a == [call |-> Id(e.call), args |-> e.pieces]
  <2>1. Streams!SentCalls' = FlatMap(DoneOf, x2') /\ Streams!SentCalls = FlatMap(DoneOf, x2)
    BY <1>1, SentIs, SentIsNext
  <2>2. DoneOf[e] = IF e.type = "done" THEN <<a>> ELSE <<>>
    BY DEF DoneOf, Id
  <2>3. a \in CallArgs
    BY EventParts DEF CallArgs, CallId, Id
  <2> HIDE DEF a
  <2>4. FlatMap(DoneOf, x2') = FlatMap(DoneOf, x2) \o DoneOf[e] /\ FlatMap(DoneOf, x2) \in Seq(CallArgs)
        /\ FlatMap(DoneOf, x2) \o <<>> = FlatMap(DoneOf, x2)
    BY <1>2, MapsTyped
  <2>5. FlatMap(DoneOf, x2) \o <<a>> = Append(FlatMap(DoneOf, x2), a)
    BY <2>3, <2>4, OneMore
  <2>. QED BY <2>1, <2>2, <2>4, <2>5 DEF a
<1>6. ASSUME NEW k \in SUBSET Streams!Kinds
      PROVE  /\ Streams!Content(k)' = Streams!Content(k) \o ContentOf(k)[e]
             /\ Streams!Content(k) \in Seq(PieceRead)
             /\ Streams!Content(k) \o <<>> = Streams!Content(k)
  <2>1. Streams!Content(k)' = FlatMap(ContentOf(k), x2')
        /\ Streams!Content(k) = FlatMap(ContentOf(k), x2)
    BY <1>1, SentIs, SentIsNext
  <2>. QED BY <1>2, <2>1, MapsTyped
<1>7. ASSUME NEW k \in SUBSET Streams!Kinds PROVE ContentGains(e, k)
  BY <1>6, ContentAdds DEF ContentGains
<1>8. \A k \in SUBSET Streams!Kinds : ContentGains(e, k)
  BY <1>7
<1>. QED BY <1>3, <1>4, <1>5, <1>8, Zenon DEF Gains

-----------------------------------------------------------------------------
(* What a client reads of blocks and parts, one more or one that grows *)

LEMMA BlockFields ==
    ASSUME NEW b \in BlockRecord
    PROVE  /\ b.kind \in BlockKinds /\ b.call \in CallId /\ b.data \in Seq(Nat) /\ b.open \in BOOLEAN
           /\ \A p \in Seq(Nat) : LET t == [b EXCEPT !.data = @ \o p]
                 IN t \in BlockRecord /\ t.kind = b.kind /\ t.call = b.call /\ t.data = b.data \o p
                    /\ (t.open <=> b.open)
           /\ LET t == [b EXCEPT !.open = FALSE]
              IN t \in BlockRecord /\ t.kind = b.kind /\ t.call = b.call /\ t.data = b.data /\ ~t.open
<1>1. b.kind \in BlockKinds /\ b.call \in CallId /\ b.data \in Seq(Nat) /\ b.open \in BOOLEAN
  BY DEF BlockRecord
<1>2. ASSUME NEW q \in Seq(Nat)
      PROVE  LET t == [b EXCEPT !.data = q]
             IN t \in BlockRecord /\ t.kind = b.kind /\ t.call = b.call /\ t.data = q
                /\ (t.open <=> b.open)
  BY DEF BlockRecord
<1>3. ASSUME NEW p \in Seq(Nat) PROVE b.data \o p \in Seq(Nat)
  BY <1>1
<1>4. LET t == [b EXCEPT !.open = FALSE]
      IN t \in BlockRecord /\ t.kind = b.kind /\ t.call = b.call /\ t.data = b.data /\ ~t.open
  BY DEF BlockRecord
<1>. QED BY <1>1, <1>2, <1>3, <1>4

LEMMA BlocksAppend ==
    ASSUME NEW k, NEW bs \in Seq(BlockRecord), NEW b \in BlockRecord
    PROVE  /\ Append(bs, b) \in Seq(BlockRecord)
           /\ Streams!Read(k, bs) \in Seq(PieceRead)
           /\ Streams!Read(k, Append(bs, b)) =
                Streams!Read(k, bs) \o Shows(k, b.kind, b.call, b.data)
<1>1. Append(bs, b) \in Seq(BlockRecord)
  OBVIOUS
<1>2. BlockOf(k)[b] = Shows(k, b.kind, b.call, b.data)
  BY FragmentIs DEF BlockOf, Shows
<1>3. Maps(BlockOf(k), BlockRecord, Seq(PieceRead))
  BY MapsTyped
<1>4. FlatMap(BlockOf(k), Append(bs, b)) = FlatMap(BlockOf(k), bs) \o BlockOf(k)[b]
      /\ FlatMap(BlockOf(k), bs) \in Seq(PieceRead)
  BY <1>3, FlatMapAppend
<1>5. Streams!Read(k, bs) = FlatMap(BlockOf(k), bs)
      /\ Streams!Read(k, Append(bs, b)) = FlatMap(BlockOf(k), Append(bs, b))
  BY <1>1, ReadingIs
<1>. QED BY <1>1, <1>2, <1>4, <1>5

LEMMA BlockGrows ==
    ASSUME NEW k, NEW bs \in Seq(BlockRecord), bs # <<>>, NEW e \in BlockRecord, NEW p \in Seq(Nat),
           e.kind = bs[Len(bs)].kind, e.call = bs[Len(bs)].call, e.data = bs[Len(bs)].data \o p
    PROVE  /\ [bs EXCEPT ![Len(bs)] = e] \in Seq(BlockRecord)
           /\ Streams!Read(k, bs) \in Seq(PieceRead)
           /\ Streams!Read(k, [bs EXCEPT ![Len(bs)] = e]) =
                Streams!Read(k, bs) \o Shows(k, e.kind, e.call, p)
<1> DEFINE d == bs[Len(bs)]
           u == Shows(k, e.kind, e.call, p)
           t == [bs EXCEPT ![Len(bs)] = e]
<1>1. d \in BlockRecord /\ t \in Seq(BlockRecord) /\ <<>> \in Seq(PieceRead)
  OBVIOUS
<1>2. d.kind \in BlockKinds /\ d.call \in CallId /\ d.data \in Seq(Nat)
  BY <1>1, BlockFields
<1>3. e.kind = d.kind /\ e.call = d.call /\ e.data = d.data \o p
  OBVIOUS
<1>4. BlockOf(k)[d] = Shows(k, d.kind, d.call, d.data)
  BY <1>1, FragmentIs DEF BlockOf, Shows
<1>5. BlockOf(k)[e] = Shows(k, e.kind, e.call, e.data)
  BY FragmentIs DEF BlockOf, Shows
<1> HIDE DEF d, t
<1>6. Marked(d.kind, d.call, d.data \o p) = Marked(d.kind, d.call, d.data) \o Marked(d.kind, d.call, p)
  BY <1>2, MarkedJoin
<1>7. Marked(d.kind, d.call, p) \in Seq(PieceRead)
  BY <1>2, MarkedTyped
<1>8. u \in Seq(PieceRead)
  BY <1>1, <1>3, <1>7 DEF Shows
<1>9. Grows(BlockOf(k), d, e, u)
  <2>1. CASE d.kind \in k
    BY <1>3, <1>4, <1>5, <1>6, <2>1 DEF Grows, Shows
  <2>2. CASE d.kind \notin k
    <3>1. <<>> \o <<>> = <<>>
      OBVIOUS
    <3>. QED BY <1>3, <1>4, <1>5, <2>2, <3>1 DEF Grows, Shows
  <2>. QED BY <2>1, <2>2
<1>10. Maps(BlockOf(k), BlockRecord, Seq(PieceRead))
  BY MapsTyped
<1> HIDE DEF u
<1>11. FlatMap(BlockOf(k), t) = FlatMap(BlockOf(k), bs) \o u /\ FlatMap(BlockOf(k), bs) \in Seq(PieceRead)
  BY <1>8, <1>9, <1>10, FlatMapGrow DEF d, t
<1>12. Streams!Read(k, bs) = FlatMap(BlockOf(k), bs) /\ Streams!Read(k, t) = FlatMap(BlockOf(k), t)
  BY <1>1, ReadingIs
<1>. QED BY <1>1, <1>11, <1>12 DEF t, u

LEMMA PartsAppend ==
    ASSUME NEW k, NEW bs \in Seq(PartRecord), NEW kind \in BlockKinds, NEW c \in CallId, NEW d \in Seq(Nat)
    PROVE  /\ bs \o Streams!Part(kind, c, d) \in Seq(PartRecord)
           /\ Streams!Part(kind, c, d) \in Seq(PartRecord)
           /\ Streams!Read(k, bs) \in Seq(PieceRead)
           /\ Streams!Read(k, bs \o Streams!Part(kind, c, d)) =
                Streams!Read(k, bs) \o Shows(k, kind, c, d)
<1> DEFINE b == [kind |-> kind, call |-> c, data |-> d]
<1>1. b \in PartRecord /\ b.kind = kind /\ b.call = c /\ b.data = d
  BY DEF PartRecord
<1>2. Streams!Part(kind, c, d) = <<b>>
  BY DEF Streams!Part
<1> HIDE DEF b
<1>3. bs \o <<b>> = Append(bs, b) /\ Append(bs, b) \in Seq(PartRecord) /\ <<b>> \in Seq(PartRecord)
  BY <1>1, OneMore
<1>4. PartOf(k)[b] = Shows(k, kind, c, d)
  BY <1>1, FragmentIs DEF PartOf, Shows
<1>5. Maps(PartOf(k), PartRecord, Seq(PieceRead))
  BY MapsTyped
<1>6. FlatMap(PartOf(k), Append(bs, b)) = FlatMap(PartOf(k), bs) \o PartOf(k)[b]
      /\ FlatMap(PartOf(k), bs) \in Seq(PieceRead)
  BY <1>1, <1>5, FlatMapAppend
<1>7. Streams!Read(k, bs) = FlatMap(PartOf(k), bs)
      /\ Streams!Read(k, Append(bs, b)) = FlatMap(PartOf(k), Append(bs, b))
  BY <1>3, ReadingIs
<1>. QED BY <1>2, <1>3, <1>4, <1>6, <1>7

-----------------------------------------------------------------------------
(* The blocks of the Anthropic format *)

LEMMA AnthropicFields ==
    ASSUME NEW s \in AnthropicRecord
    PROVE  /\ s.blocks \in Seq(BlockRecord) /\ s.index \in Nat /\ s.thinking \in BOOLEAN
           /\ s.text \in BOOLEAN /\ s.tools \in BOOLEAN /\ s.content \in BOOLEAN
           /\ s.streamed \in SUBSET CallId /\ s.stop \in {"none", "error", "tool_use", "end_turn"}
           /\ s.stopped \in BOOLEAN /\ s.nonsense \in BOOLEAN /\ s.usage \in Nat
  BY DEF AnthropicRecord

\* All but the blocks is the same.
SameMarks(s, t) ==
    /\ t.thinking <=> s.thinking
    /\ t.text <=> s.text
    /\ t.tools <=> s.tools
    /\ t.content <=> s.content
    /\ t.streamed = s.streamed /\ t.stop = s.stop
    /\ t.stopped <=> s.stopped
    /\ t.usage = s.usage

LEMMA SetBlocks ==
    ASSUME NEW s \in AnthropicRecord, NEW bs \in Seq(BlockRecord)
    PROVE  LET t == [s EXCEPT !.blocks = bs]
           IN  t \in AnthropicRecord /\ SameMarks(s, t) /\ t.blocks = bs /\ t.index = s.index
               /\ (t.nonsense <=> s.nonsense)
  BY DEF AnthropicRecord, SameMarks

WithBlocks(s, bs, n) == [s EXCEPT !.blocks = bs, !.index = n]

LEMMA MoveOn ==
    ASSUME NEW s \in AnthropicRecord, NEW bs \in Seq(BlockRecord), NEW n \in Nat
    PROVE  LET t == WithBlocks(s, bs, n)
           IN  t \in AnthropicRecord /\ SameMarks(s, t) /\ t.blocks = bs /\ t.index = n
               /\ (t.nonsense <=> s.nonsense)
  BY DEF AnthropicRecord, SameMarks, WithBlocks

SameRead(s, t) == \A k : Streams!Read(k, t.blocks) = Streams!Read(k, s.blocks)

Opened(s, t, kind, c) ==
    t \in AnthropicRecord /\ EndsWith(t, kind, c) /\ SameMarks(s, t) /\ SameRead(s, t)
Filled(s, t, kind, c, p) ==
    /\ t \in AnthropicRecord /\ EndsWith(t, kind, c) /\ SameMarks(s, t)
    /\ \A k : Streams!Read(k, t.blocks) =
                Streams!Read(k, s.blocks) \o Shows(k, kind, c, p)
Closed(s, t) == t \in AnthropicRecord /\ Settled(t) /\ SameMarks(s, t) /\ SameRead(s, t)

LEMMA BlockStarts ==
    ASSUME NEW s \in AnthropicRecord, Settled(s), NEW kind \in BlockKinds, NEW c \in CallId
    PROVE  Opened(s, Streams!BlockStart(s, kind, c), kind, c)
<1> DEFINE b == [kind |-> kind, call |-> c, data |-> <<>>, open |-> TRUE]
           bs == Append(s.blocks, b)
           t == [s EXCEPT !.blocks = bs]
<1>1. s.blocks \in Seq(BlockRecord) /\ s.index \in Nat /\ s.index = Len(s.blocks)
  BY AnthropicFields DEF Settled
<1>2. <<>> \in Seq(Nat)
  OBVIOUS
<1>3. b \in BlockRecord /\ b.kind = kind /\ b.call = c /\ b.data = <<>> /\ b.open
  BY <1>2 DEF BlockRecord
<1>4. Streams!BlockStart(s, kind, c) = t
  BY <1>1 DEF Streams!BlockStart
<1> HIDE DEF b
<1>5. /\ bs \in Seq(BlockRecord) /\ Len(bs) = s.index + 1 /\ bs[s.index + 1] = b
      /\ \A i \in 1 .. s.index : bs[i] = s.blocks[i]
  BY <1>1, <1>3, AppendIs
<1>6. \A k : Streams!Read(k, bs) = Streams!Read(k, s.blocks)
  <2> TAKE k
  <2>1. Streams!Read(k, bs) = Streams!Read(k, s.blocks) \o Shows(k, b.kind, b.call, b.data)
        /\ Streams!Read(k, s.blocks) \in Seq(PieceRead)
    BY <1>1, <1>3, BlocksAppend
  <2>2. Shows(k, b.kind, b.call, b.data) = <<>>
    BY <1>3, MarkedEmpty DEF Shows
  <2>. QED BY <2>1, <2>2, NoMore
<1> HIDE DEF bs
<1>7. t \in AnthropicRecord /\ SameMarks(s, t) /\ t.blocks = bs /\ t.index = s.index
      /\ (t.nonsense <=> s.nonsense)
  BY <1>5, SetBlocks
<1> HIDE DEF t
<1>8. EndsWith(t, kind, c)
  BY <1>3, <1>5, <1>7 DEF EndsWith, Settled
<1>. QED BY <1>4, <1>6, <1>7, <1>8 DEF Opened, SameRead

LEMMA BlockFills ==
    ASSUME NEW s \in AnthropicRecord, NEW kind, NEW c, EndsWith(s, kind, c), NEW p \in Seq(Nat)
    PROVE  Filled(s, Streams!BlockDelta(s, p), kind, c, p)
<1> DEFINE n == s.index + 1
           d == s.blocks[n]
           e == [d EXCEPT !.data = @ \o p]
           bs == [s.blocks EXCEPT ![n] = e]
           t == [s EXCEPT !.blocks = bs]
<1>1. s.blocks \in Seq(BlockRecord) /\ s.index \in Nat /\ Len(s.blocks) = n /\ n \in Nat
      /\ DOMAIN s.blocks = 1 .. n /\ n \in 1 .. n
  BY AnthropicFields DEF EndsWith
<1>2. s.blocks # <<>> /\ d \in BlockRecord
  BY <1>1
<1>3. e \in BlockRecord /\ e.kind = d.kind /\ e.call = d.call /\ e.data = d.data \o p /\ (e.open <=> d.open)
  BY <1>2, BlockFields
<1>4. Streams!BlockDelta(s, p) = t
  <2>1. Streams!BlockOpen(s)
    BY <1>1 DEF Streams!BlockOpen, EndsWith
  <2>2. [s EXCEPT !.blocks[s.index + 1].data = @ \o p] = t
    BY <1>1, <1>2 DEF AnthropicRecord, BlockRecord
  <2>. QED BY <2>1, <2>2 DEF Streams!BlockDelta
<1> HIDE DEF e
<1>5. /\ bs \in Seq(BlockRecord) /\ Len(bs) = n /\ bs[n] = e
      /\ \A i \in 1 .. s.index : bs[i] = s.blocks[i]
  BY <1>1, <1>3
<1>6. \A k : Streams!Read(k, bs) = Streams!Read(k, s.blocks) \o Shows(k, e.kind, e.call, p)
  <2> DEFINE q == s.blocks
  <2>1. /\ q \in Seq(BlockRecord) /\ q # <<>> /\ Len(q) = n /\ e \in BlockRecord
        /\ e.kind = q[Len(q)].kind /\ e.call = q[Len(q)].call /\ e.data = q[Len(q)].data \o p
    BY <1>1, <1>2, <1>3
  <2>2. bs = [q EXCEPT ![Len(q)] = e]
    BY <2>1
  <2> HIDE DEF q
  <2>3. \A k : Streams!Read(k, [q EXCEPT ![Len(q)] = e]) = Streams!Read(k, q) \o Shows(k, e.kind, e.call, p)
    BY <2>1, BlockGrows
  <2> HIDE DEF bs
  <2>. QED BY <2>2, <2>3 DEF q
<1> HIDE DEF bs
<1>7. t \in AnthropicRecord /\ SameMarks(s, t) /\ t.blocks = bs /\ t.index = s.index
      /\ (t.nonsense <=> s.nonsense)
  BY <1>5, SetBlocks
<1> HIDE DEF t
<1>8. EndsWith(t, kind, c)
  BY <1>3, <1>5, <1>7 DEF EndsWith
<1>9. e.kind = kind /\ e.call = c
  BY <1>3 DEF EndsWith
<1>. QED BY <1>4, <1>6, <1>7, <1>8, <1>9 DEF Filled

LEMMA BlockStops ==
    ASSUME NEW s \in AnthropicRecord, NEW kind, NEW c, EndsWith(s, kind, c)
    PROVE  Closed(s, Streams!BlockStop(s))
<1> DEFINE n == s.index + 1
           d == s.blocks[n]
           e == [d EXCEPT !.open = FALSE]
           bs == [s.blocks EXCEPT ![n] = e]
           t == WithBlocks(s, bs, n)
<1>1. s.blocks \in Seq(BlockRecord) /\ s.index \in Nat /\ Len(s.blocks) = n /\ n \in Nat
      /\ DOMAIN s.blocks = 1 .. n /\ n \in 1 .. n
  BY AnthropicFields DEF EndsWith
<1>2. s.blocks # <<>> /\ d \in BlockRecord /\ d.data \in Seq(Nat)
  <2>1. s.blocks # <<>> /\ d \in BlockRecord
    BY <1>1
  <2> HIDE DEF d
  <2>. QED BY <2>1, BlockFields
<1>3. e \in BlockRecord /\ e.kind = d.kind /\ e.call = d.call /\ e.data = d.data /\ ~e.open
  BY <1>2, BlockFields
<1>4. Streams!BlockStop(s) = t
  <2>1. Streams!BlockOpen(s)
    BY <1>1 DEF Streams!BlockOpen, EndsWith
  <2>2. [s EXCEPT !.blocks[s.index + 1].open = FALSE, !.index = @ + 1] = t
    BY <1>1, <1>2 DEF AnthropicRecord, BlockRecord, WithBlocks
  <2>. QED BY <2>1, <2>2 DEF Streams!BlockStop
<1>10. e.data = d.data \o <<>> /\ <<>> \in Seq(Nat)
  <2>1. d.data \o <<>> = d.data
    BY <1>2
  <2>. QED BY <1>3, <2>1
<1> HIDE DEF e
<1>5. /\ bs \in Seq(BlockRecord) /\ Len(bs) = n /\ bs[n] = e
      /\ \A i \in 1 .. s.index : bs[i] = s.blocks[i]
  BY <1>1, <1>3
<1>6. \A k : Streams!Read(k, bs) = Streams!Read(k, s.blocks)
  <2> TAKE k
  <2>1. /\ Streams!Read(k, bs) = Streams!Read(k, s.blocks) \o Shows(k, e.kind, e.call, <<>>)
        /\ Streams!Read(k, s.blocks) \in Seq(PieceRead)
    <3> DEFINE q == s.blocks
    <3>1. /\ q \in Seq(BlockRecord) /\ q # <<>> /\ Len(q) = n /\ e \in BlockRecord /\ <<>> \in Seq(Nat)
          /\ e.kind = q[Len(q)].kind /\ e.call = q[Len(q)].call /\ e.data = q[Len(q)].data \o <<>>
      BY <1>1, <1>2, <1>3, <1>10
    <3>2. bs = [q EXCEPT ![Len(q)] = e]
      BY <3>1
    <3> HIDE DEF q
    <3>3. /\ Streams!Read(k, [q EXCEPT ![Len(q)] = e]) = Streams!Read(k, q) \o Shows(k, e.kind, e.call, <<>>)
          /\ Streams!Read(k, q) \in Seq(PieceRead)
      BY <3>1, BlockGrows
    <3> HIDE DEF bs
    <3>. QED BY <3>2, <3>3 DEF q
  <2>2. Shows(k, e.kind, e.call, <<>>) = <<>>
    BY MarkedEmpty DEF Shows
  <2>. QED BY <2>1, <2>2, NoMore
<1> HIDE DEF bs
<1>7. t \in AnthropicRecord /\ SameMarks(s, t) /\ t.blocks = bs /\ t.index = n
      /\ (t.nonsense <=> s.nonsense)
  <2>1. n \in Nat /\ bs \in Seq(BlockRecord)
    BY <1>1, <1>5
  <2> HIDE DEF n
  <2>. QED BY <2>1, MoveOn
<1> HIDE DEF t
<1>8. Settled(t)
  <2>1. \A i \in 1 .. n : i \in 1 .. s.index \/ i = n
    BY <1>1
  <2>. QED BY <1>3, <1>5, <1>7, <2>1 DEF EndsWith, Settled
<1>. QED BY <1>4, <1>6, <1>7, <1>8 DEF Closed, SameRead

\* ... and but for thinking and text.
Stays(s, t) ==
    /\ t.tools <=> s.tools
    /\ t.content <=> s.content
    /\ t.streamed = s.streamed /\ t.stop = s.stop
    /\ t.stopped <=> s.stopped
    /\ t.usage = s.usage

SameBlocks(s, t) ==
    /\ t.blocks = s.blocks /\ t.index = s.index
    /\ t.nonsense <=> s.nonsense

LEMMA BlocksStay ==
    ASSUME NEW s, NEW t, SameBlocks(s, t)
    PROVE  /\ Settled(s) => Settled(t)
           /\ \A kind, c : EndsWith(s, kind, c) => EndsWith(t, kind, c)
           /\ SameRead(s, t)
  BY DEF SameBlocks, Settled, EndsWith, SameRead

LEMMA SetThinking ==
    ASSUME NEW s \in AnthropicRecord, NEW b \in BOOLEAN
    PROVE  LET t == [s EXCEPT !.thinking = b]
           IN  t \in AnthropicRecord /\ (t.thinking <=> b) /\ (t.text <=> s.text)
               /\ Stays(s, t) /\ SameBlocks(s, t)
  BY DEF AnthropicRecord, Stays, SameBlocks

LEMMA SetText ==
    ASSUME NEW s \in AnthropicRecord, NEW b \in BOOLEAN
    PROVE  LET t == [s EXCEPT !.text = b]
           IN  t \in AnthropicRecord /\ (t.text <=> b) /\ (t.thinking <=> s.thinking)
               /\ Stays(s, t) /\ SameBlocks(s, t)
  BY DEF AnthropicRecord, Stays, SameBlocks

LEMMA ThinkingCloses ==
    ASSUME NEW s \in AnthropicRecord, NEW o, Balanced(s, o)
    PROVE  LET t == Streams!CloseThinking(s)
           IN  t \in AnthropicRecord /\ Balanced(t, o) /\ ~t.thinking /\ (t.text <=> s.text)
               /\ Stays(s, t) /\ SameRead(s, t)
<1>1. CASE ~s.thinking
  BY <1>1 DEF Streams!CloseThinking, Stays, SameRead
<1>2. CASE s.thinking
  <2> DEFINE r == Streams!BlockStop(s)
             t == [r EXCEPT !.thinking = FALSE]
  <2>1. EndsWith(s, "reasoning", Id(0)) /\ ~s.text /\ o = 0
    BY <1>2 DEF Balanced
  <2>2. Closed(s, r)
    BY <2>1, BlockStops
  <2>3. r \in AnthropicRecord /\ Settled(r) /\ SameMarks(s, r) /\ SameRead(s, r)
    BY <2>2 DEF Closed
  <2> HIDE DEF r
  <2>4. t \in AnthropicRecord /\ ~t.thinking /\ (t.text <=> r.text) /\ Stays(r, t) /\ SameBlocks(r, t)
    BY <2>3, SetThinking
  <2>5. Streams!CloseThinking(s) = t
    BY <1>2 DEF Streams!CloseThinking, r
  <2> HIDE DEF t
  <2>6. Settled(t) /\ SameRead(r, t)
    BY <2>3, <2>4, BlocksStay
  <2>7. SameRead(s, t)
    BY <2>3, <2>6 DEF SameRead
  <2>8. Stays(s, t) /\ ~t.text
    BY <2>1, <2>3, <2>4 DEF Stays, SameMarks
  <2>9. Balanced(t, o)
    BY <2>1, <2>4, <2>6, <2>8 DEF Balanced
  <2>. QED BY <2>1, <2>4, <2>5, <2>7, <2>8, <2>9
<1>. QED BY <1>1, <1>2

LEMMA TextCloses ==
    ASSUME NEW s \in AnthropicRecord, NEW o, Balanced(s, o)
    PROVE  LET t == Streams!CloseText(s)
           IN  t \in AnthropicRecord /\ Balanced(t, o) /\ ~t.text /\ (t.thinking <=> s.thinking)
               /\ Stays(s, t) /\ SameRead(s, t)
<1>1. CASE ~s.text
  BY <1>1 DEF Streams!CloseText, Stays, SameRead
<1>2. CASE s.text
  <2> DEFINE r == Streams!BlockStop(s)
             t == [r EXCEPT !.text = FALSE]
  <2>1. EndsWith(s, "text", Id(0)) /\ ~s.thinking /\ o = 0
    BY <1>2 DEF Balanced
  <2>2. Closed(s, r)
    BY <2>1, BlockStops
  <2>3. r \in AnthropicRecord /\ Settled(r) /\ SameMarks(s, r) /\ SameRead(s, r)
    BY <2>2 DEF Closed
  <2> HIDE DEF r
  <2>4. t \in AnthropicRecord /\ ~t.text /\ (t.thinking <=> r.thinking) /\ Stays(r, t) /\ SameBlocks(r, t)
    BY <2>3, SetText
  <2>5. Streams!CloseText(s) = t
    BY <1>2 DEF Streams!CloseText, r
  <2> HIDE DEF t
  <2>6. Settled(t) /\ SameRead(r, t)
    BY <2>3, <2>4, BlocksStay
  <2>7. SameRead(s, t)
    BY <2>3, <2>6 DEF SameRead
  <2>8. Stays(s, t) /\ ~t.thinking
    BY <2>1, <2>3, <2>4 DEF Stays, SameMarks
  <2>9. Balanced(t, o)
    BY <2>1, <2>4, <2>6, <2>8 DEF Balanced
  <2>. QED BY <2>1, <2>4, <2>5, <2>7, <2>8, <2>9
<1>. QED BY <1>1, <1>2

LEMMA TextOpens ==
    ASSUME NEW s \in AnthropicRecord, Balanced(s, 0), ~s.thinking
    PROVE  LET t == Streams!EnsureText(s)
           IN  t \in AnthropicRecord /\ Balanced(t, 0) /\ t.text /\ ~t.thinking
               /\ EndsWith(t, "text", Id(0)) /\ Stays(s, t) /\ SameRead(s, t)
<1>1. CASE s.text
  <2>1. EndsWith(s, "text", Id(0))
    BY <1>1 DEF Balanced
  <2>. QED BY <1>1, <2>1 DEF Streams!EnsureText, Stays, SameRead
<1>2. CASE ~s.text
  <2> DEFINE r == Streams!BlockStart(s, "text", Id(0))
             t == [r EXCEPT !.text = TRUE]
  <2>1. Settled(s) /\ "text" \in BlockKinds /\ Id(0) \in CallId
    BY <1>2 DEF Balanced, BlockKinds, Streams!Kinds, CallId, Id
  <2>2. Opened(s, r, "text", Id(0))
    BY <2>1, BlockStarts
  <2>3. r \in AnthropicRecord /\ EndsWith(r, "text", Id(0)) /\ SameMarks(s, r) /\ SameRead(s, r)
    BY <2>2 DEF Opened
  <2> HIDE DEF r
  <2>4. t \in AnthropicRecord /\ t.text /\ (t.thinking <=> r.thinking) /\ Stays(r, t) /\ SameBlocks(r, t)
    BY <2>3, SetText
  <2>5. Streams!EnsureText(s) = t
    BY <1>2 DEF Streams!EnsureText, Streams!NoCall, Id, r
  <2> HIDE DEF t
  <2>6. EndsWith(t, "text", Id(0)) /\ SameRead(r, t)
    BY <2>3, <2>4, BlocksStay
  <2>7. SameRead(s, t)
    BY <2>3, <2>6 DEF SameRead
  <2>8. Stays(s, t) /\ ~t.thinking
    BY <2>3, <2>4 DEF Stays, SameMarks
  <2>9. Balanced(t, 0)
    BY <2>4, <2>6, <2>8 DEF Balanced
  <2>. QED BY <2>4, <2>5, <2>6, <2>7, <2>8, <2>9
<1>. QED BY <1>1, <1>2

LEMMA BalanceStays ==
    ASSUME NEW s, NEW t, NEW o, SameBlocks(s, t), t.thinking <=> s.thinking, t.text <=> s.text
    PROVE  Balanced(s, o) => Balanced(t, o)
  BY BlocksStay DEF Balanced

LEMMA SetMarks ==
    ASSUME NEW s \in AnthropicRecord
    PROVE  /\ LET t == [s EXCEPT !.content = TRUE]
              IN  t \in AnthropicRecord /\ t.content /\ (t.tools <=> s.tools) /\ t.streamed = s.streamed
                  /\ t.stop = s.stop /\ (t.stopped <=> s.stopped) /\ t.usage = s.usage
                  /\ (t.thinking <=> s.thinking) /\ (t.text <=> s.text) /\ SameBlocks(s, t)
           /\ LET t == [s EXCEPT !.tools = TRUE, !.content = TRUE]
              IN  t \in AnthropicRecord /\ t.content /\ t.tools /\ t.streamed = s.streamed
                  /\ t.stop = s.stop /\ (t.stopped <=> s.stopped) /\ t.usage = s.usage
                  /\ (t.thinking <=> s.thinking) /\ (t.text <=> s.text) /\ SameBlocks(s, t)
  BY DEF AnthropicRecord, SameBlocks

LEMMA SetStreamed ==
    ASSUME NEW s \in AnthropicRecord, NEW c \in CallId
    PROVE  LET t == [s EXCEPT !.streamed = @ \cup {c}]
           IN  t \in AnthropicRecord /\ (t.content <=> s.content) /\ (t.tools <=> s.tools)
               /\ t.streamed = s.streamed \cup {c}
               /\ t.stop = s.stop /\ (t.stopped <=> s.stopped) /\ t.usage = s.usage
               /\ (t.thinking <=> s.thinking) /\ (t.text <=> s.text) /\ SameBlocks(s, t)
<1>1. s.streamed \cup {c} \in SUBSET CallId
  BY AnthropicFields
<1>2. ASSUME NEW v \in SUBSET CallId
      PROVE  LET t == [s EXCEPT !.streamed = v]
             IN  t \in AnthropicRecord /\ (t.content <=> s.content) /\ (t.tools <=> s.tools)
               /\ t.streamed = v
               /\ t.stop = s.stop /\ (t.stopped <=> s.stopped) /\ t.usage = s.usage
               /\ (t.thinking <=> s.thinking) /\ (t.text <=> s.text) /\ SameBlocks(s, t)
  BY DEF AnthropicRecord, SameBlocks
<1>. QED BY <1>1, <1>2

LEMMA SetUsage ==
    ASSUME NEW s \in AnthropicRecord, NEW n \in Nat
    PROVE  LET t == [s EXCEPT !.usage = n]
           IN  t \in AnthropicRecord /\ (t.content <=> s.content) /\ (t.tools <=> s.tools)
               /\ t.streamed = s.streamed /\ t.usage = n
               /\ t.stop = s.stop /\ (t.stopped <=> s.stopped)
               /\ (t.thinking <=> s.thinking) /\ (t.text <=> s.text) /\ SameBlocks(s, t)
  BY DEF AnthropicRecord, SameBlocks

LEMMA SetStop ==
    ASSUME NEW s \in AnthropicRecord, NEW v \in {"none", "error", "tool_use", "end_turn"}
    PROVE  LET t == [s EXCEPT !.stop = v, !.stopped = TRUE]
           IN  t \in AnthropicRecord /\ t.stopped /\ t.stop = v /\ SameBlocks(s, t)
               /\ (t.content <=> s.content) /\ (t.tools <=> s.tools)
               /\ t.streamed = s.streamed /\ t.usage = s.usage
  BY DEF AnthropicRecord, SameBlocks

\* Tools, streamed, stop and usage are the same.
Same4(s, t) ==
    /\ t.tools <=> s.tools
    /\ t.streamed = s.streamed /\ t.stop = s.stop
    /\ t.stopped <=> s.stopped
    /\ t.usage = s.usage

\* After a piece of a text or of reasoning.
Wrote(s, t, kind, p) ==
    /\ t \in AnthropicRecord /\ Balanced(t, 0) /\ t.content /\ Same4(s, t)
    /\ \A k : Streams!Read(k, t.blocks) = Streams!Read(k, s.blocks) \o Shows(k, kind, Id(0), p)

LEMMA TextWritten ==
    ASSUME NEW s \in AnthropicRecord, Balanced(s, 0), NEW e, e.pieces \in Seq(Nat)
    PROVE  Wrote(s, Streams!AnthropicText(s, e), "text", e.pieces)
<1> DEFINE a == Streams!CloseThinking(s)
           b == Streams!EnsureText(a)
           c == Streams!BlockDelta(b, e.pieces)
           d == [c EXCEPT !.content = TRUE]
<1>1. a \in AnthropicRecord /\ Balanced(a, 0) /\ ~a.thinking /\ Stays(s, a) /\ SameRead(s, a)
  BY ThinkingCloses
<1>0. Streams!AnthropicText(s, e) = d
  BY DEF Streams!AnthropicText
<1> HIDE DEF a
<1>2. b \in AnthropicRecord /\ Balanced(b, 0) /\ b.text /\ ~b.thinking /\ EndsWith(b, "text", Id(0))
      /\ Stays(a, b) /\ SameRead(a, b)
  BY <1>1, TextOpens
<1> HIDE DEF b
<1>3. Filled(b, c, "text", Id(0), e.pieces)
  BY <1>2, BlockFills
<1> HIDE DEF c
<1>4. c \in AnthropicRecord
  BY <1>3 DEF Filled
<1>5. d \in AnthropicRecord /\ d.content /\ (d.tools <=> c.tools) /\ d.streamed = c.streamed
      /\ d.stop = c.stop /\ (d.stopped <=> c.stopped) /\ d.usage = c.usage
      /\ (d.thinking <=> c.thinking) /\ (d.text <=> c.text) /\ SameBlocks(c, d)
  BY <1>4, SetMarks
<1> HIDE DEF d
<1>6. EndsWith(d, "text", Id(0)) /\ SameRead(c, d)
  BY <1>3, <1>5, BlocksStay DEF Filled
<1>7. d.text /\ ~d.thinking
  BY <1>2, <1>3, <1>5 DEF Filled, SameMarks
<1>8. Balanced(d, 0)
  BY <1>6, <1>7 DEF Balanced
<1>9. Same4(s, d)
  BY <1>1, <1>2, <1>3, <1>5 DEF Filled, SameMarks, Stays, Same4
<1>10. \A k : Streams!Read(k, d.blocks) = Streams!Read(k, s.blocks) \o Shows(k, "text", Id(0), e.pieces)
  BY <1>1, <1>2, <1>3, <1>6 DEF Filled, SameRead
<1>. QED BY <1>0, <1>5, <1>8, <1>9, <1>10 DEF Wrote

LEMMA ReasoningWritten ==
    ASSUME NEW s \in AnthropicRecord, Balanced(s, 0), NEW e, e.pieces \in Seq(Nat), x1.reasoning
    PROVE  Wrote(s, Streams!AnthropicReasoning(s, e), "reasoning", e.pieces)
<1> DEFINE a == Streams!CloseText(s)
           q == Streams!BlockStart(a, "reasoning", Id(0))
           b == IF a.thinking THEN a ELSE [q EXCEPT !.thinking = TRUE]
           c == Streams!BlockDelta(b, e.pieces)
           d == [c EXCEPT !.content = TRUE]
<1>1. a \in AnthropicRecord /\ Balanced(a, 0) /\ ~a.text /\ Stays(s, a) /\ SameRead(s, a)
  BY TextCloses
<1>0. Streams!AnthropicReasoning(s, e) = d
  BY DEF Streams!AnthropicReasoning, Streams!NoCall, Id
<1> HIDE DEF a
<1>2. b \in AnthropicRecord /\ b.thinking /\ ~b.text /\ EndsWith(b, "reasoning", Id(0))
      /\ Stays(a, b) /\ SameRead(a, b)
  <2>1. CASE a.thinking
    <3>1. EndsWith(a, "reasoning", Id(0))
      BY <1>1, <2>1 DEF Balanced
    <3>. QED BY <1>1, <2>1, <3>1 DEF Stays, SameRead
  <2>2. CASE ~a.thinking
    <3>1. Settled(a) /\ "reasoning" \in BlockKinds /\ Id(0) \in CallId
      BY <1>1, <2>2 DEF Balanced, BlockKinds, Streams!Kinds, CallId, Id
    <3>2. Opened(a, q, "reasoning", Id(0))
      BY <1>1, <3>1, BlockStarts
    <3>3. q \in AnthropicRecord /\ EndsWith(q, "reasoning", Id(0)) /\ SameMarks(a, q) /\ SameRead(a, q)
      BY <3>2 DEF Opened
    <3> DEFINE r == [q EXCEPT !.thinking = TRUE]
    <3>4. b = r
      BY <2>2
    <3> HIDE DEF b, q
    <3>5. r \in AnthropicRecord /\ r.thinking /\ (r.text <=> q.text) /\ Stays(q, r) /\ SameBlocks(q, r)
      BY <3>3, SetThinking
    <3> HIDE DEF r
    <3>6. EndsWith(r, "reasoning", Id(0)) /\ SameRead(q, r)
      BY <3>3, <3>5, BlocksStay
    <3>7. SameRead(a, r) /\ Stays(a, r) /\ ~r.text
      BY <1>1, <3>3, <3>5, <3>6 DEF SameRead, Stays, SameMarks
    <3>. QED BY <3>4, <3>5, <3>6, <3>7
  <2>. QED BY <2>1, <2>2
<1> HIDE DEF b
<1>3. Filled(b, c, "reasoning", Id(0), e.pieces)
  BY <1>2, BlockFills
<1> HIDE DEF c
<1>4. c \in AnthropicRecord
  BY <1>3 DEF Filled
<1>5. d \in AnthropicRecord /\ d.content /\ (d.tools <=> c.tools) /\ d.streamed = c.streamed
      /\ d.stop = c.stop /\ (d.stopped <=> c.stopped) /\ d.usage = c.usage
      /\ (d.thinking <=> c.thinking) /\ (d.text <=> c.text) /\ SameBlocks(c, d)
  BY <1>4, SetMarks
<1> HIDE DEF d
<1>6. EndsWith(d, "reasoning", Id(0)) /\ SameRead(c, d)
  BY <1>3, <1>5, BlocksStay DEF Filled
<1>7. ~d.text /\ d.thinking
  BY <1>2, <1>3, <1>5 DEF Filled, SameMarks
<1>8. Balanced(d, 0)
  BY <1>6, <1>7 DEF Balanced
<1>9. Same4(s, d)
  BY <1>1, <1>2, <1>3, <1>5 DEF Filled, SameMarks, Stays, Same4
<1>10. \A k : Streams!Read(k, d.blocks) = Streams!Read(k, s.blocks) \o Shows(k, "reasoning", Id(0), e.pieces)
  BY <1>1, <1>2, <1>3, <1>6 DEF Filled, SameRead
<1>. QED BY <1>0, <1>5, <1>8, <1>9, <1>10 DEF Wrote

LEMMA CallOpened ==
    ASSUME NEW s \in AnthropicRecord, Balanced(s, 0), NEW e, NEW c \in Nat, c # 0, e.call = Id(c)
    PROVE  LET t == Streams!AnthropicCall(s, e)
           IN  t \in AnthropicRecord /\ Balanced(t, c) /\ t.content /\ t.tools /\ t.streamed = s.streamed
               /\ ~t.thinking /\ ~t.text /\ t.stop = s.stop /\ (t.stopped <=> s.stopped)
               /\ t.usage = s.usage /\ SameRead(s, t)
<1> DEFINE a == Streams!CloseThinking(s)
           b == Streams!CloseText(a)
           q == Streams!BlockStart(b, "call", e.call)
           d == [q EXCEPT !.tools = TRUE, !.content = TRUE]
<1>1. a \in AnthropicRecord /\ Balanced(a, 0) /\ ~a.thinking /\ Stays(s, a) /\ SameRead(s, a)
  BY ThinkingCloses
<1>0. Streams!AnthropicCall(s, e) = d
  BY DEF Streams!AnthropicCall
<1> HIDE DEF a
<1>2. b \in AnthropicRecord /\ Balanced(b, 0) /\ ~b.text /\ ~b.thinking /\ Stays(a, b) /\ SameRead(a, b)
  BY <1>1, TextCloses
<1> HIDE DEF b
<1>3. Settled(b) /\ "call" \in BlockKinds /\ e.call \in CallId
  BY <1>2 DEF Balanced, BlockKinds, Streams!Kinds, CallId, Id
<1>4. Opened(b, q, "call", e.call)
  BY <1>2, <1>3, BlockStarts
<1>5. q \in AnthropicRecord /\ EndsWith(q, "call", Id(c)) /\ SameMarks(b, q) /\ SameRead(b, q)
  BY <1>4 DEF Opened
<1> HIDE DEF q
<1>6. d \in AnthropicRecord /\ d.content /\ d.tools /\ d.streamed = q.streamed
      /\ d.stop = q.stop /\ (d.stopped <=> q.stopped) /\ d.usage = q.usage
      /\ (d.thinking <=> q.thinking) /\ (d.text <=> q.text) /\ SameBlocks(q, d)
  BY <1>5, SetMarks
<1> HIDE DEF d
<1>7. EndsWith(d, "call", Id(c)) /\ SameRead(q, d)
  BY <1>5, <1>6, BlocksStay
<1>8. ~d.text /\ ~d.thinking
  BY <1>2, <1>5, <1>6 DEF SameMarks
<1>9. Balanced(d, c)
  BY <1>7, <1>8 DEF Balanced
<1>10. SameRead(s, d)
  BY <1>1, <1>2, <1>5, <1>7 DEF SameRead
<1>. QED BY <1>0, <1>1, <1>2, <1>5, <1>6, <1>8, <1>9, <1>10 DEF Stays, SameMarks

-----------------------------------------------------------------------------
(* One event of the upstream *)

CallTypes == {"call", "delta", "done"}

\* What the extractor makes of an event.
ExtractedFrom(e, r) ==
    /\ e.type = r.type /\ e.pieces = r.pieces /\ e.usage = r.usage
    /\ r.type \in CallTypes => e.call = Id(r.call)

Shaped(r) ==
    /\ r \in SentEvent
    /\ r.type \in {"text", "reasoning"} => x3 = 0 /\ x3' = 0 /\ r.pieces # <<>>
    /\ r.type = "call" => x3 = 0 /\ x3' = r.call /\ r.call = Len(x2) + 1
    /\ r.type = "delta" => x3 # 0 /\ x3' = x3 /\ r.call = x3 /\ r.pieces # <<>>
    /\ r.type = "done" => /\ x3 # 0 /\ x3' = 0 /\ r.call = x3 /\ r.pieces # <<>>
                          /\ Streams!PiecesOfCall(x3) # <<>> => r.pieces = Streams!PiecesOfCall(x3)
    /\ r.type = "completed" => x3 = 0
    /\ r.type \in Streams!Terminal => x3' = x3

Sends(r, e) ==
    /\ Shaped(r) /\ ExtractedFrom(e, r)
    /\ ~Streams!Finished /\ x4 = "no" /\ Len(x2) < MaxEvents
    /\ x1' = x1 /\ x2' = Append(x2, r) /\ x4' = x4
    /\ x5' = Streams!Registered(x5, r)
    /\ x6' = Streams!OpenAIOn(x6, e)
    /\ x7' = Streams!AnthropicOn(x7, e)
    /\ x8' = Streams!GeminiOn(x8, e)
    /\ x9' = Streams!CodexOn(x9, r)
    /\ x10' = Streams!Gather(x10, e)

LEMMA EventSends ==
    ASSUME SentHeld, NEW type \in {"text", "reasoning", "call", "delta", "done"} \cup Streams!Terminal,
           NEW c \in Nat, NEW pieces \in Seq(Nat), NEW u \in Streams!Usages,
           Shaped([type |-> type, call |-> c, pieces |-> pieces, usage |-> u]),
           Streams!Event(type, c, pieces, u)
    PROVE  \E r, e : Sends(r, e)
<1> DEFINE r == [type |-> type, call |-> c, pieces |-> pieces, usage |-> u]
           known == Streams!Registered(x5, r)
           e == Streams!Extracted(known, r)
<1>1. r \in SentEvent /\ r.type = type /\ r.call = c /\ r.pieces = pieces /\ r.usage = u /\ Shaped(r)
  BY DEF SentEvent
<1>2. /\ ~Streams!Finished /\ x4 = "no" /\ Len(x2) < MaxEvents
      /\ x1' = x1 /\ x2' = Append(x2, r) /\ x4' = x4
      /\ x5' = known
      /\ x6' = Streams!OpenAIOn(x6, e)
      /\ x7' = Streams!AnthropicOn(x7, e)
      /\ x8' = Streams!GeminiOn(x8, e)
      /\ x9' = Streams!CodexOn(x9, r)
      /\ x10' = Streams!Gather(x10, e)
  BY DEF Streams!Event
<1>3. ASSUME type \in CallTypes PROVE c \in known
  <2>1. CASE type = "call"
    BY <1>1, <2>1 DEF Streams!Registered
  <2>2. CASE type # "call"
    <3>1. x3 \in x5 /\ c = x3
      BY <1>1, <1>3, <2>2 DEF Shaped, CallTypes, SentHeld
    <3>. QED BY <1>1, <2>2, <3>1 DEF Streams!Registered
  <2>. QED BY <2>1, <2>2
<1>4. ExtractedFrom(e, r)
  <2> HIDE DEF known
  <2>1. CASE type \in CallTypes
    <3>1. Streams!Resolve(known, c) = Id(c)
      BY <1>3, <2>1 DEF Streams!Resolve, Id
    <3>2. e = [r EXCEPT !.call = Id(c)]
      BY <1>1, <2>1, <3>1 DEF Streams!Extracted, CallTypes
    <3>. QED BY <3>2 DEF ExtractedFrom
  <2>2. CASE type \notin CallTypes
    BY <1>1, <2>2 DEF Streams!Extracted, CallTypes, ExtractedFrom
  <2>. QED BY <2>1, <2>2
<1> HIDE DEF r, e
<1>5. Sends(r, e)
  BY <1>1, <1>2, <1>4 DEF Sends
<1>. QED BY <1>5

LEMMA NewPieceIs ==
    ASSUME SentHeld
    PROVE  Streams!NewPiece \in Seq(Nat) /\ Streams!NewPiece # <<>> /\ <<>> \in Seq(Nat)
           /\ x3 \in Nat /\ Len(x2) \in Nat
<1>1. Len(x2) \in Nat
  BY DEF SentHeld
<1>2. x3 \in Nat
  BY <1>1 DEF SentHeld
<1>3. Streams!NewPiece \in Seq(Nat) /\ Streams!NewPiece # <<>>
  BY <1>1 DEF Streams!NewPiece
<1>4. <<>> \in Seq(Nat)
  OBVIOUS
<1>. QED BY <1>1, <1>2, <1>3, <1>4

LEMMA StepSends ==
    ASSUME SentHeld, Streams!Next, ~Streams!BodyEnds, ~Streams!StreamStops
    PROVE  \E r, e : Sends(r, e)
<1> DEFINE R(type, c, pieces, u) == [type |-> type, call |-> c, pieces |-> pieces, usage |-> u]
<1>1. Streams!NewPiece \in Seq(Nat) /\ Streams!NewPiece # <<>> /\ <<>> \in Seq(Nat)
      /\ x3 \in Nat /\ Len(x2) \in Nat
  BY NewPieceIs
<1>2. ASSUME NEW type \in {"text", "reasoning", "call", "delta", "done"} \cup Streams!Terminal,
             NEW c \in Nat, NEW pieces \in Seq(Nat), NEW u \in Streams!Usages
      PROVE  R(type, c, pieces, u) \in SentEvent
  BY DEF SentEvent
<1>3. "none" \in Streams!Usages /\ Streams!Terminal = {"completed", "incomplete", "failed"} /\ 0 \in Nat
  BY DEF Streams!Usages, Streams!Terminal
<1>4. CASE Streams!SendText
  <2>1. Shaped(R("text", 0, Streams!NewPiece, "none"))
    <3>1. R("text", 0, Streams!NewPiece, "none") \in SentEvent
      BY <1>1, <1>2, <1>3
    <3>. QED BY <1>1, <1>3, <1>4, <3>1 DEF Streams!SendText, Shaped
  <2>. QED BY <1>1, <1>3, <1>4, <2>1, EventSends DEF Streams!SendText
<1>5. CASE Streams!SendReasoning
  <2>1. Shaped(R("reasoning", 0, Streams!NewPiece, "none"))
    <3>1. R("reasoning", 0, Streams!NewPiece, "none") \in SentEvent
      BY <1>1, <1>2, <1>3
    <3>. QED BY <1>1, <1>3, <1>5, <3>1 DEF Streams!SendReasoning, Shaped
  <2>. QED BY <1>1, <1>3, <1>5, <2>1, EventSends DEF Streams!SendReasoning
<1>6. CASE Streams!AddCall
  <2> DEFINE c == Len(x2) + 1
  <2>1. c \in Nat /\ x3 = 0 /\ Streams!Event("call", c, <<>>, "none") /\ x3' = c
    BY <1>1, <1>6 DEF Streams!AddCall
  <2> HIDE DEF c
  <2>2. Shaped(R("call", c, <<>>, "none"))
    <3>1. R("call", c, <<>>, "none") \in SentEvent
      BY <1>1, <1>2, <1>3, <2>1
    <3>. QED BY <1>3, <2>1, <3>1 DEF Shaped, c
  <2>. QED BY <1>1, <1>3, <2>1, <2>2, EventSends
<1>7. CASE Streams!SendDelta
  <2>1. Shaped(R("delta", x3, Streams!NewPiece, "none"))
    <3>1. R("delta", x3, Streams!NewPiece, "none") \in SentEvent
      BY <1>1, <1>2, <1>3
    <3>. QED BY <1>1, <1>3, <1>7, <3>1 DEF Streams!SendDelta, Shaped
  <2>. QED BY <1>1, <1>3, <1>7, <2>1, EventSends DEF Streams!SendDelta
<1>8. CASE Streams!SendDone
  <2> DEFINE a == Streams!PiecesOfCall(x3)
             p == IF a = <<>> THEN Streams!NewPiece ELSE a
  <2>1. a \in Seq(Nat)
    <3>1. x2 \in Seq(SentEvent)
      BY DEF SentHeld
    <3>2. a = FlatMap(ArgsOf(x3), x2)
      BY <3>1, SentIs
    <3>3. Mapped(ArgsOf(x3), x2) \in Seq(Seq(Nat))
      BY <3>1, MapsTyped, MapTyped
    <3>. QED BY <3>2, <3>3, FlatTyped DEF FlatMap
  <2>2. x3 # 0 /\ Streams!Event("done", x3, p, "none") /\ x3' = 0
    BY <1>8 DEF Streams!SendDone
  <2>3. p \in Seq(Nat) /\ p # <<>> /\ (a # <<>> => p = a)
    BY <1>1, <2>1
  <2> HIDE DEF p
  <2>4. Shaped(R("done", x3, p, "none"))
    <3>1. R("done", x3, p, "none") \in SentEvent
      BY <1>1, <1>2, <1>3, <2>3
    <3>. QED BY <1>3, <2>2, <2>3, <3>1 DEF Shaped
  <2>. QED BY <1>1, <1>3, <2>2, <2>3, <2>4, EventSends
<1>9. CASE Streams!Complete
  <2>1. PICK u \in Streams!Usages : Streams!Event("completed", 0, <<>>, u) /\ UNCHANGED x3 /\ x3 = 0
    BY <1>9 DEF Streams!Complete
  <2>2. Shaped(R("completed", 0, <<>>, u))
    <3>1. R("completed", 0, <<>>, u) \in SentEvent
      BY <1>1, <1>2, <1>3
    <3>. QED BY <1>3, <2>1, <3>1 DEF Shaped
  <2>. QED BY <1>1, <1>3, <2>1, <2>2, EventSends
<1>10. CASE Streams!Truncate
  <2>1. PICK u \in Streams!Usages : Streams!Event("incomplete", 0, <<>>, u) /\ UNCHANGED x3
    BY <1>10 DEF Streams!Truncate
  <2>2. Shaped(R("incomplete", 0, <<>>, u))
    <3>1. R("incomplete", 0, <<>>, u) \in SentEvent
      BY <1>1, <1>2, <1>3
    <3>. QED BY <1>3, <2>1, <3>1 DEF Shaped
  <2>. QED BY <1>1, <1>3, <2>1, <2>2, EventSends
<1>11. CASE Streams!Fail
  <2>1. Streams!Event("failed", 0, <<>>, "none") /\ UNCHANGED x3
    BY <1>11 DEF Streams!Fail
  <2>2. Shaped(R("failed", 0, <<>>, "none"))
    <3>1. R("failed", 0, <<>>, "none") \in SentEvent
      BY <1>1, <1>2, <1>3
    <3>. QED BY <1>3, <2>1, <3>1 DEF Shaped
  <2>. QED BY <1>1, <1>3, <2>1, <2>2, EventSends
<1>. QED BY <1>4, <1>5, <1>6, <1>7, <1>8, <1>9, <1>10, <1>11 DEF Streams!Next

\* What a step that sends an event does to what was sent.
LEMMA SentGoesOn ==
    ASSUME SentHeld, NEW r, NEW e, Sends(r, e)
    PROVE  /\ Going /\ Gains(r) /\ SentHeld' /\ r \in SentEvent
           /\ Streams!Completed' <=> r.type = "completed"
           /\ Streams!Failed' <=> r.type = "failed"
<1>1. r \in SentEvent /\ x2 \in Seq(SentEvent) /\ x2' = Append(x2, r) /\ Shaped(r)
  BY DEF Sends, Shaped, SentHeld
<1>2. /\ Len(x2) \in Nat /\ x2' \in Seq(SentEvent) /\ Len(x2') = Len(x2) + 1
      /\ DOMAIN x2 = 1 .. Len(x2) /\ DOMAIN x2' = 1 .. Len(x2) + 1
      /\ (\A i \in 1 .. Len(x2) : x2'[i] = x2[i]) /\ x2'[Len(x2) + 1] = r
  <2> DEFINE y == Append(x2, r)
  <2>1. /\ Len(x2) \in Nat /\ y \in Seq(SentEvent) /\ Len(y) = Len(x2) + 1
        /\ DOMAIN x2 = 1 .. Len(x2) /\ DOMAIN y = 1 .. Len(x2) + 1
        /\ (\A i \in 1 .. Len(x2) : y[i] = x2[i]) /\ y[Len(x2) + 1] = r
    BY <1>1, AppendIs
  <2>2. x2' = y
    BY <1>1
  <2> HIDE DEF y
  <2>. QED BY <2>1, <2>2
<1>3. Going
  BY DEF Sends, Streams!Finished, Going, Streams!Completed, Streams!Failed, Streams!Terminal
<1>4. Gains(r)
  BY <1>1, OneEvent
<1>5. ASSUME NEW t, ~\E i \in DOMAIN x2 : x2[i].type = t
      PROVE  (\E i \in DOMAIN x2' : x2'[i].type = t) <=> r.type = t
  <2>1. \A i \in 1 .. Len(x2) + 1 : i \in 1 .. Len(x2) \/ i = Len(x2) + 1
    BY <1>2
  <2>2. Len(x2) + 1 \in 1 .. Len(x2) + 1
    BY <1>2
  <2>. QED BY <1>2, <1>5, <2>1, <2>2
<1>6. (Streams!Completed' <=> r.type = "completed") /\ (Streams!Failed' <=> r.type = "failed")
  BY <1>3, <1>5 DEF Going, Streams!Completed, Streams!Failed
<1>7. r.type \in {"text", "reasoning", "call", "delta", "done", "completed", "incomplete", "failed"}
      /\ r.call \in Nat
  BY <1>1, EventParts DEF Streams!Terminal
<1>8. x5' = IF r.type = "call" THEN x5 \cup {r.call} ELSE x5
  BY DEF Sends, Streams!Registered
<1>9. x5' \subseteq 1 .. Len(x2')
  <2>1. x5 \subseteq 1 .. Len(x2) /\ 1 .. Len(x2) \subseteq 1 .. Len(x2) + 1
    BY <1>2 DEF SentHeld
  <2>2. r.type = "call" => r.call \in 1 .. Len(x2) + 1
    BY <1>1, <1>2 DEF Shaped
  <2>. QED BY <1>2, <1>8, <2>1, <2>2
<1>10. x3' \in {0} \cup x5'
  BY <1>1, <1>7, <1>8 DEF Shaped, SentHeld, Streams!Terminal
<1>11. \A c \in Nat \ x5' : Streams!PiecesOfCall(c)' = <<>>
  <2> TAKE c \in Nat \ x5'
  <2>1. c \notin x5 /\ Streams!PiecesOfCall(c) = <<>>
    BY <1>8 DEF SentHeld
  <2>2. ~(r.type = "delta" /\ r.call = c)
    BY <1>1, <2>1 DEF Shaped, SentHeld
  <2>3. Streams!PiecesOfCall(c)' = Streams!PiecesOfCall(c)
    BY <1>4, <2>2 DEF Gains
  <2>. QED BY <2>1, <2>3
<1>12. Len(x2') <= MaxEvents
  <2>1. Len(x2) < MaxEvents /\ MaxEvents \in Nat
    BY StreamAssumption DEF Sends
  <2>. QED BY <1>2, <2>1
<1>13. Streams!Completed' => x3' = 0 /\ ~Streams!Failed'
  BY <1>1, <1>6 DEF Shaped, Streams!Terminal
<1>14. x1' \in [reasoning : BOOLEAN, tuple : BOOLEAN] /\ x4' \in {"no", "end", "broken", "gone"}
  BY DEF Sends, SentHeld
<1>. QED BY <1>1, <1>2, <1>3, <1>4, <1>6, <1>9, <1>10, <1>11, <1>12, <1>13, <1>14 DEF SentHeld

LEMMA CallMapIs ==
    /\ Maps(AsCall, CallArgs, BlockRecord)
    /\ \A k, a : a \in CallArgs =>
          AsCall[a] = [kind |-> "call", call |-> a.call, data |-> a.args, open |-> FALSE]
<1>1. \A a \in CallArgs : a.call \in CallId /\ a.args \in Seq(Nat)
  BY DEF CallArgs
<1>2. "call" \in BlockKinds
  BY DEF BlockKinds, Streams!Kinds
<1>. QED BY <1>1, <1>2 DEF Maps, AsCall, BlockRecord

\* What is read of the blocks of calls, with one call more.
LEMMA CallsRead ==
    ASSUME NEW k, NEW cs \in Seq(CallArgs), NEW c \in CallId, NEW p \in Seq(Nat)
    PROVE  /\ [call |-> c, args |-> p] \in CallArgs
           /\ Mapped(AsCall, cs) \in Seq(BlockRecord)
           /\ Streams!Read(k, Mapped(AsCall, cs)) \in Seq(PieceRead)
           /\ Streams!Read(k, Mapped(AsCall, Append(cs, [call |-> c, args |-> p]))) =
                Streams!Read(k, Mapped(AsCall, cs)) \o Shows(k, "call", c, p)
<1> DEFINE a == [call |-> c, args |-> p]
           bs == Mapped(AsCall, cs)
<1>1. a \in CallArgs /\ a.call = c /\ a.args = p
  BY DEF CallArgs
<1> HIDE DEF a
<1>2. AsCall[a] = [kind |-> "call", call |-> c, data |-> p, open |-> FALSE]
  BY <1>1, CallMapIs
<1>3. Maps(AsCall, CallArgs, BlockRecord) /\ AsCall[a] \in BlockRecord
  BY <1>1, CallMapIs DEF Maps
<1>4. bs \in Seq(BlockRecord)
  BY <1>3, MapTyped
<1>5. Mapped(AsCall, Append(cs, a)) = Append(bs, AsCall[a])
  BY <1>1, <1>3, MapAppend
<1> HIDE DEF bs
<1>6. /\ Streams!Read(k, bs) \in Seq(PieceRead)
      /\ Streams!Read(k, Append(bs, AsCall[a])) =
            Streams!Read(k, bs) \o Shows(k, AsCall[a].kind, AsCall[a].call, AsCall[a].data)
  BY <1>3, <1>4, BlocksAppend
<1>7. AsCall[a].kind = "call" /\ AsCall[a].call = c /\ AsCall[a].data = p
  BY <1>2
<1>. QED BY <1>1, <1>4, <1>5, <1>6, <1>7 DEF a, bs

LEMMA KindsAre ==
    /\ Streams!Kinds = {"text", "reasoning", "call"} /\ Streams!Spoken = {"text", "call"}
    /\ {"text"} \in SUBSET Streams!Kinds /\ {"reasoning"} \in SUBSET Streams!Kinds
    /\ {"call"} \in SUBSET Streams!Kinds /\ Streams!Spoken \in SUBSET Streams!Kinds
    /\ Streams!Kinds \subseteq BlockKinds
  BY DEF Streams!Kinds, Streams!Spoken, BlockKinds

LEMMA IdIs == \A c \in Nat : Id(c) \in CallId /\ 0 \in Nat /\ \A d : Id(c) = Id(d) => c = d
<1>1. ASSUME NEW c \in Nat, NEW d, Id(c) = Id(d) PROVE c = d
  <2>1. Id(c).call = c /\ Id(d).call = d
    BY DEF Id
  <2>. QED BY <1>1, <2>1
<1>. QED BY <1>1 DEF CallId, Id

LEMMA JoinEmpty ==
    ASSUME NEW V, NEW a \in Seq(V), NEW b \in Seq(V)
    PROVE  a \o b = <<>> <=> a = <<>> /\ b = <<>>
<1>1. Len(a \o b) = Len(a) + Len(b) /\ Len(a) \in Nat /\ Len(b) \in Nat
  OBVIOUS
<1>2. (Len(a) = 0 <=> a = <<>>) /\ (Len(b) = 0 <=> b = <<>>)
  OBVIOUS
<1>3. a \o b \in Seq(V)
  OBVIOUS
<1> DEFINE c == a \o b
<1>4. Len(c) = 0 <=> c = <<>>
  BY <1>3
<1> HIDE DEF c
<1>. QED BY <1>1, <1>2, <1>4 DEF c

LEMMA MarkedIsEmpty ==
    ASSUME NEW kind \in BlockKinds, NEW c \in CallId, NEW d \in Seq(Nat)
    PROVE  Marked(kind, c, d) = <<>> <=> d = <<>>
<1>1. Marked(kind, c, d) \in Seq(PieceRead) /\ Len(Marked(kind, c, d)) = Len(d)
  BY MarkedTyped
<1>2. Len(d) = 0 <=> d = <<>>
  OBVIOUS
<1>3. \A q \in Seq(PieceRead) : Len(q) = 0 <=> q = <<>>
  OBVIOUS
<1>. QED BY <1>1, <1>2, <1>3

LEMMA AppendFull == ASSUME NEW V, NEW s \in Seq(V), NEW a \in V PROVE Append(s, a) # <<>>
<1>1. Len(Append(s, a)) = Len(s) + 1 /\ Len(s) \in Nat
  OBVIOUS
<1>2. Append(s, a) = <<>> => Len(Append(s, a)) = 0
  OBVIOUS
<1>. QED BY <1>1, <1>2

\* What an event adds to what was sent of some kinds of blocks.
LEMMA ContentShows ==
    ASSUME NEW r, NEW k \in SUBSET Streams!Kinds, NEW K \in SUBSET Streams!Kinds, ContentGains(r, K)
    PROVE  /\ Streams!Content(K) \in Seq(PieceRead)
           /\ r.type \notin {"text", "reasoning", "done"} => Streams!Content(K)' = Streams!Content(K)
           /\ r.type \in {"text", "reasoning"} /\ (r.type \in k <=> r.type \in K) =>
                Streams!Content(K)' = Streams!Content(K) \o Shows(k, r.type, Id(0), r.pieces)
           /\ r.type \in {"text", "reasoning"} /\ r.type \notin K => Streams!Content(K)' = Streams!Content(K)
           /\ r.type = "done" /\ ("call" \in k <=> "call" \in K) =>
                Streams!Content(K)' = Streams!Content(K) \o Shows(k, "call", Id(r.call), r.pieces)
<1> DEFINE C == Streams!Content(K)
<1>1. C \in Seq(PieceRead) /\ C \o <<>> = C
  BY NoMore DEF ContentGains
<1>2. r.type \notin {"text", "reasoning", "done"} => C' = C
  BY DEF ContentGains
<1>3. CASE r.type = "text"
  <2>1. C' = IF "text" \in K THEN C \o Marked("text", Id(0), r.pieces) ELSE C
    BY <1>3 DEF ContentGains
  <2>. QED BY <1>1, <1>3, <2>1 DEF Shows
<1>4. CASE r.type = "reasoning"
  <2>1. C' = IF "reasoning" \in K THEN C \o Marked("reasoning", Id(0), r.pieces) ELSE C
    BY <1>4 DEF ContentGains
  <2>. QED BY <1>1, <1>4, <2>1 DEF Shows
<1>5. CASE r.type = "done"
  <2>1. C' = IF "call" \in K THEN C \o Marked("call", Id(r.call), r.pieces) ELSE C
    BY <1>5 DEF ContentGains
  <2>. QED BY <1>1, <1>5, <2>1 DEF Shows
<1>. QED BY <1>1, <1>2, <1>3, <1>4, <1>5

LEMMA SaidTwiceGoesOn ==
    ASSUME SentHeld, SaidTwice, NEW r, NEW e, Sends(r, e)
    PROVE  SaidTwice'
<1>1. Gains(r) /\ r \in SentEvent /\ Shaped(r)
  BY SentGoesOn DEF Sends
<1>2. r.call \in Nat /\ r.pieces \in Seq(Nat) /\ Id(r.call) \in CallId /\ Id(0) \in CallId
  BY <1>1, EventParts, IdIs
<1>3. "text" \in BlockKinds /\ "reasoning" \in BlockKinds /\ "call" \in BlockKinds
  BY KindsAre
<1>4. /\ \A t : /\ Streams!SentPieces(t) \in Seq(Nat)
                /\ Streams!SentPieces(t)' = IF r.type = t THEN Streams!SentPieces(t) \o r.pieces
                                                        ELSE Streams!SentPieces(t)
      /\ Streams!SentCalls \in Seq(CallArgs)
      /\ Streams!SentCalls' = IF r.type = "done"
                              THEN Append(Streams!SentCalls, [call |-> Id(r.call), args |-> r.pieces])
                              ELSE Streams!SentCalls
      /\ \A k \in SUBSET Streams!Kinds : ContentGains(r, k)
  BY <1>1 DEF Gains
<1>5. \A t \in {"text", "reasoning"} : 
         Streams!Content({t}) = Marked(t, Id(0), Streams!SentPieces(t))
  BY DEF SaidTwice
<1>6. ASSUME NEW t \in {"text", "reasoning"}
      PROVE  Streams!Content({t})' = Marked(t, Id(0), Streams!SentPieces(t)')
  <2>1. t \in BlockKinds /\ {t} \in SUBSET Streams!Kinds /\ ContentGains(r, {t})
    BY <1>3, <1>4, KindsAre
  <2>2. CASE r.type = t
    <3>1. Streams!Content({t})' = Streams!Content({t}) \o Marked(t, Id(0), r.pieces)
      BY <2>1, <2>2 DEF ContentGains
    <3>2. Marked(t, Id(0), Streams!SentPieces(t) \o r.pieces)
            = Marked(t, Id(0), Streams!SentPieces(t)) \o Marked(t, Id(0), r.pieces)
      <4>1. t \in BlockKinds /\ Id(0) \in CallId /\ Streams!SentPieces(t) \in Seq(Nat) /\ r.pieces \in Seq(Nat)
        BY <1>2, <1>4, <2>1
      <4>. QED BY <4>1, MarkedJoin
    <3>. QED BY <1>4, <1>5, <2>2, <3>1, <3>2
  <2>3. CASE r.type # t
    <3>1. Streams!Content({t})' = Streams!Content({t})
      BY <2>1, <2>3 DEF ContentGains
    <3>. QED BY <1>4, <1>5, <2>3, <3>1
  <2>. QED BY <2>2, <2>3
<1>7. ASSUME NEW k \in SUBSET Streams!Kinds
      PROVE  Streams!Content(k \cap {"call"})' = Streams!Read(k, Mapped(AsCall, Streams!SentCalls'))
  <2> DEFINE K == k \cap {"call"}
  <2>1. Streams!Content(K) = Streams!Read(k, Mapped(AsCall, Streams!SentCalls))
    BY DEF SaidTwice
  <2>2. K \in SUBSET Streams!Kinds /\ "text" \notin K /\ "reasoning" \notin K /\ ("call" \in K <=> "call" \in k)
    OBVIOUS
  <2>3. ContentGains(r, K)
    BY <1>4, <2>2
  <2>4. CASE r.type = "done"
    <3>1. Streams!Content(K)' = Streams!Content(K) \o Shows(k, "call", Id(r.call), r.pieces)
      BY <2>2, <2>3, <2>4, ContentShows
    <3>2. Streams!Read(k, Mapped(AsCall, Append(Streams!SentCalls, [call |-> Id(r.call), args |-> r.pieces])))
            = Streams!Read(k, Mapped(AsCall, Streams!SentCalls)) \o Shows(k, "call", Id(r.call), r.pieces)
      BY <1>2, <1>4, CallsRead
    <3>. QED BY <1>4, <2>1, <2>4, <3>1, <3>2
  <2>5. CASE r.type # "done"
    <3>1. Streams!Content(K)' = Streams!Content(K)
      BY <2>2, <2>3, <2>5 DEF ContentGains
    <3>. QED BY <1>4, <2>1, <2>5, <3>1
  <2>. QED BY <2>4, <2>5
<1>8. Streams!Content(Streams!Spoken)' = <<>> <=>
          Streams!SentPieces("text")' = <<>> /\ Streams!SentCalls' = <<>>
  <2> DEFINE S == Streams!Spoken
             C == Streams!Content(S)
  <2>1. (C = <<>> <=> Streams!SentPieces("text") = <<>> /\ Streams!SentCalls = <<>>)
        /\ ContentGains(r, S)
    BY <1>4, KindsAre DEF SaidTwice
  <2>2. "text" \in S /\ "call" \in S /\ "reasoning" \notin S
    BY KindsAre
  <2> HIDE DEF S
  <2>3. C \in Seq(PieceRead)
    BY <2>1 DEF ContentGains
  <2>4. CASE r.type = "text"
    <3>1. C' = C \o Marked("text", Id(0), r.pieces) /\ r.pieces # <<>>
      BY <1>1, <2>1, <2>2, <2>4 DEF ContentGains, Shaped
    <3>2. Marked("text", Id(0), r.pieces) # <<>> /\ Marked("text", Id(0), r.pieces) \in Seq(PieceRead)
      BY <1>2, <1>3, <3>1, MarkedIsEmpty, MarkedTyped
    <3>3. Streams!SentPieces("text")' = Streams!SentPieces("text") \o r.pieces
      BY <1>4, <2>4
    <3>4. C' # <<>>
      BY <2>3, <3>1, <3>2, JoinEmpty
    <3>5. Streams!SentPieces("text") \o r.pieces # <<>>
      BY <1>2, <1>4, <3>1, JoinEmpty
    <3>. QED BY <3>3, <3>4, <3>5 DEF S
  <2>5. CASE r.type = "done"
    <3>1. C' = C \o Marked("call", Id(r.call), r.pieces) /\ r.pieces # <<>>
      BY <1>1, <2>1, <2>2, <2>5 DEF ContentGains, Shaped
    <3>2. Marked("call", Id(r.call), r.pieces) # <<>> /\ Marked("call", Id(r.call), r.pieces) \in Seq(PieceRead)
      BY <1>2, <1>3, <3>1, MarkedIsEmpty, MarkedTyped
    <3>3. Streams!SentCalls' = Append(Streams!SentCalls, [call |-> Id(r.call), args |-> r.pieces])
      BY <1>4, <2>5
    <3>4. C' # <<>>
      BY <2>3, <3>1, <3>2, JoinEmpty
    <3>5. [call |-> Id(r.call), args |-> r.pieces] \in CallArgs
      BY <1>2 DEF CallArgs
    <3>6. Append(Streams!SentCalls, [call |-> Id(r.call), args |-> r.pieces]) # <<>>
      BY <1>4, <3>5, AppendFull
    <3>. QED BY <3>3, <3>4, <3>6 DEF S
  <2>6. CASE r.type \notin {"text", "done"}
    <3>1. C' = C
      BY <2>1, <2>2, <2>6 DEF ContentGains
    <3>2. Streams!SentPieces("text")' = Streams!SentPieces("text") /\ Streams!SentCalls' = Streams!SentCalls
      BY <1>4, <2>6
    <3>. QED BY <2>1, <3>1, <3>2 DEF S
  <2>. QED BY <2>4, <2>5, <2>6
<1>9. Streams!Content({})' = <<>>
  <2>1. Streams!Content({}) = <<>> /\ ContentGains(r, {})
    BY <1>4 DEF SaidTwice
  <2>. QED BY <2>1 DEF ContentGains
<1>. QED BY <1>6, <1>7, <1>8, <1>9 DEF SaidTwice

-----------------------------------------------------------------------------
(* The OpenAI format *)

LEMMA OpenAIFields ==
    ASSUME NEW s \in OpenAIRecord
    PROVE  /\ s.text \in Seq(Nat) /\ s.buffer \in Seq(Nat) /\ s.reasoning \in Seq(Nat)
           /\ s.calls \in Seq(CallArgs) /\ s.content \in BOOLEAN /\ s.streamed \in SUBSET CallId
           /\ s.finish \in {"none", "stop", "tool_calls"} /\ s.done \in BOOLEAN /\ s.usage \in Nat
  BY DEF OpenAIRecord

\* Neither calls, streamed nor done changes.
CallsAlike(s, t) == t.calls = s.calls /\ t.streamed = s.streamed /\ (t.done <=> s.done)

\* Neither text, reasoning nor done changes.
Besides(s, t) == /\ t.text = s.text /\ t.buffer = s.buffer /\ t.reasoning = s.reasoning
                 /\ t.usage = s.usage
                 /\ t.done <=> s.done

LEMMA OpenAISetsCalls ==
    ASSUME NEW s \in OpenAIRecord, NEW cs \in Seq(CallArgs)
    PROVE  /\ LET t == [s EXCEPT !.calls = cs, !.content = TRUE]
              IN  t \in OpenAIRecord /\ t.calls = cs /\ t.content /\ t.streamed = s.streamed /\ Besides(s, t)
           /\ LET t == [s EXCEPT !.calls = cs]
              IN  t \in OpenAIRecord /\ t.calls = cs /\ (t.content <=> s.content)
                  /\ t.streamed = s.streamed /\ Besides(s, t)
           /\ \A v \in SUBSET CallId : LET t == [s EXCEPT !.streamed = v]
              IN  t \in OpenAIRecord /\ t.calls = s.calls /\ (t.content <=> s.content)
                  /\ t.streamed = v /\ Besides(s, t)
<1>1. LET t == [s EXCEPT !.calls = cs, !.content = TRUE]
      IN  t \in OpenAIRecord /\ t.calls = cs /\ t.content /\ t.streamed = s.streamed /\ Besides(s, t)
  BY DEF OpenAIRecord, Besides
<1>2. LET t == [s EXCEPT !.calls = cs]
      IN  t \in OpenAIRecord /\ t.calls = cs /\ (t.content <=> s.content)
                  /\ t.streamed = s.streamed /\ Besides(s, t)
  BY DEF OpenAIRecord, Besides
<1>3. ASSUME NEW v \in SUBSET CallId
      PROVE  LET t == [s EXCEPT !.streamed = v]
             IN  t \in OpenAIRecord /\ t.calls = s.calls /\ (t.content <=> s.content)
                  /\ t.streamed = v /\ Besides(s, t)
  BY DEF OpenAIRecord, Besides
<1>. QED BY <1>1, <1>2, <1>3

LEMMA OpenAIWrites ==
    ASSUME NEW s \in OpenAIRecord, NEW T \in Seq(Nat), NEW R \in Seq(Nat), NEW C \in Seq(CallArgs),
           OpenAIHas(x1, s, T, R, C), NEW e, NEW p \in Seq(Nat), p # <<>>, e.pieces = p
    PROVE  LET t == Streams!OpenAIText(s, e)
           IN  OpenAIHas(x1, t, T \o p, R, C) /\ CallsAlike(s, t)
<1>1. s.text \in Seq(Nat) /\ s.buffer \in Seq(Nat) /\ s.text \o p \in Seq(Nat) /\ s.buffer \o p \in Seq(Nat)
  <2>1. s.text \in Seq(Nat) /\ s.buffer \in Seq(Nat)
    BY OpenAIFields
  <2>. QED BY <2>1
<1>2. T \o p # <<>>
  BY JoinEmpty
<1>3. CASE x1.tuple
  <2> DEFINE q == s.buffer \o p
             t == [s EXCEPT !.buffer = q, !.content = TRUE]
  <2>0. q \in Seq(Nat)
    BY <1>1
  <2> HIDE DEF q
  <2>1. t \in OpenAIRecord /\ t.buffer = q /\ t.content /\ t.text = s.text
                  /\ t.reasoning = s.reasoning /\ t.usage = s.usage /\ CallsAlike(s, t)
    BY <2>0 DEF OpenAIRecord, CallsAlike
  <2>2. Streams!OpenAIText(s, e) = t
    BY <1>3 DEF Streams!OpenAIText, q
  <2> HIDE DEF t
  <2>. QED BY <1>2, <1>3, <2>1, <2>2 DEF OpenAIHas, CallsAlike, q
<1>4. CASE ~x1.tuple
  <2> DEFINE q == s.text \o p
             t == [s EXCEPT !.text = q, !.content = TRUE]
  <2>0. q \in Seq(Nat)
    BY <1>1
  <2> HIDE DEF q
  <2>1. t \in OpenAIRecord /\ t.text = q /\ t.content /\ t.buffer = s.buffer
                  /\ t.reasoning = s.reasoning /\ t.usage = s.usage /\ CallsAlike(s, t)
    BY <2>0 DEF OpenAIRecord, CallsAlike
  <2>2. Streams!OpenAIText(s, e) = t
    BY <1>4 DEF Streams!OpenAIText, q
  <2> HIDE DEF t
  <2>. QED BY <1>2, <1>4, <2>1, <2>2 DEF OpenAIHas, CallsAlike, q
<1>. QED BY <1>3, <1>4

LEMMA OpenAIReasons ==
    ASSUME NEW s \in OpenAIRecord, NEW T \in Seq(Nat), NEW R \in Seq(Nat), NEW C \in Seq(CallArgs),
           OpenAIHas(x1, s, T, R, C), NEW e, NEW p \in Seq(Nat), p # <<>>, e.pieces = p
    PROVE  LET t == Streams!OpenAIReasoning(s, e)
           IN  OpenAIHas(x1, t, T, R \o p, C) /\ CallsAlike(s, t)
<1>1. s.reasoning \in Seq(Nat) /\ s.reasoning \o p \in Seq(Nat)
  <2>1. s.reasoning \in Seq(Nat)
    BY OpenAIFields
  <2>. QED BY <2>1
<1>2. R \o p # <<>>
  BY JoinEmpty
<1>3. CASE x1.reasoning
  <2> DEFINE q == s.reasoning \o p
             t == [s EXCEPT !.reasoning = q, !.content = TRUE]
  <2>0. q \in Seq(Nat)
    BY <1>1
  <2> HIDE DEF q
  <2>1. t \in OpenAIRecord /\ t.reasoning = q /\ t.content /\ t.text = s.text
                  /\ t.buffer = s.buffer /\ t.usage = s.usage /\ CallsAlike(s, t)
    BY <2>0 DEF OpenAIRecord, CallsAlike
  <2>2. Streams!OpenAIReasoning(s, e) = t
    BY <1>3 DEF Streams!OpenAIReasoning, q
  <2> HIDE DEF t
  <2>. QED BY <1>2, <1>3, <2>1, <2>2 DEF OpenAIHas, CallsAlike, q
<1>4. CASE ~x1.reasoning
  BY <1>4 DEF Streams!OpenAIReasoning, OpenAIHas, CallsAlike
<1>. QED BY <1>3, <1>4

LEMMA CallAdded ==
    ASSUME NEW q \in Seq(CallArgs), Distinct(q), NEW ids, OfCalls(q, ids),
           NEW c \in Nat, c \notin ids, NEW p \in Seq(Nat)
    PROVE  LET t == Append(q, [call |-> Id(c), args |-> p])
           IN  t \in Seq(CallArgs) /\ Distinct(t) /\ OfCalls(t, ids \cup {c})
<1> DEFINE a == [call |-> Id(c), args |-> p]
           t == Append(q, a)
<1>1. a \in CallArgs /\ a.call = Id(c)
  BY IdIs DEF CallArgs
<1> HIDE DEF a
<1>2. /\ Len(q) \in Nat /\ DOMAIN q = 1 .. Len(q) /\ t \in Seq(CallArgs)
      /\ DOMAIN t = 1 .. Len(q) + 1 /\ \A i \in 1 .. Len(q) : t[i] = q[i]
      /\ t[Len(q) + 1] = a
  BY <1>1, AppendIs
<1> HIDE DEF t
<1>3. \A i \in 1 .. Len(q) + 1 : i \in 1 .. Len(q) \/ i = Len(q) + 1
  BY <1>2
<1>4. \A i \in 1 .. Len(q) : q[i].call # Id(c)
  BY <1>2, IdIs DEF OfCalls
<1>5. Distinct(t)
  <2>1. \A i, j \in 1 .. Len(q) : q[i].call = q[j].call => i = j
    BY <1>2 DEF Distinct
  <2>. QED BY <1>1, <1>2, <1>3, <1>4, <2>1 DEF Distinct
<1>6. OfCalls(t, ids \cup {c})
  BY <1>1, <1>2, <1>3 DEF OfCalls
<1>. QED BY <1>2, <1>5, <1>6 DEF t, a

\* The last call of s, the call c, can be given more arguments, and is given p.
CanFill(s, C, c, A, ids, p) ==
    /\ C \in Seq(CallArgs) /\ c \in Nat /\ A \in Seq(Nat) /\ p \in Seq(Nat) /\ s \in OpenAIRecord
    /\ s.calls = Append(C, [call |-> Id(c), args |-> A])
    /\ Distinct(s.calls) /\ OfCalls(s.calls, ids)
HasFilled(s, C, c, A, ids, p) ==
    LET t == Append(C, [call |-> Id(c), args |-> A \o p])
    IN  /\ t \in Seq(CallArgs) /\ Distinct(t) /\ OfCalls(t, ids)
        /\ Streams!OpenAIArguments(s, Id(c), p) = [s EXCEPT !.calls = t]

LEMMA CallFilled ==
    ASSUME NEW s, NEW C, NEW c, NEW A, NEW ids, NEW p, CanFill(s, C, c, A, ids, p)
    PROVE  HasFilled(s, C, c, A, ids, p)
<1>0. /\ C \in Seq(CallArgs) /\ c \in Nat /\ A \in Seq(Nat) /\ p \in Seq(Nat) /\ s \in OpenAIRecord
      /\ s.calls = Append(C, [call |-> Id(c), args |-> A])
      /\ Distinct(s.calls) /\ OfCalls(s.calls, ids)
  BY DEF CanFill
<1> DEFINE a == [call |-> Id(c), args |-> A]
           b == [call |-> Id(c), args |-> A \o p]
           q == Append(C, a)
           t == Append(C, b)
           n == Len(C) + 1
<1>1. a \in CallArgs /\ a.call = Id(c) /\ b \in CallArgs /\ b.call = Id(c) /\ [a EXCEPT !.args = @ \o p] = b
  <2> DEFINE d == A \o p
  <2>1. d \in Seq(Nat) /\ Id(c) \in CallId
    BY <1>0, IdIs
  <2>2. [a EXCEPT !.args = a.args \o p] = [a EXCEPT !.args = d]
    OBVIOUS
  <2> HIDE DEF d
  <2>3. [a EXCEPT !.args = d] = [call |-> Id(c), args |-> d] /\ a.call = Id(c) /\ a \in CallArgs
        /\ [call |-> Id(c), args |-> d] \in CallArgs
    BY <1>0, <2>1 DEF CallArgs
  <2>. QED BY <2>2, <2>3 DEF d
<1>2. Distinct(q) /\ OfCalls(q, ids) /\ s.calls = q
  BY <1>0
<1> HIDE DEF a, b
<1>3. /\ Len(C) \in Nat /\ q \in Seq(CallArgs) /\ Len(q) = n
      /\ DOMAIN q = 1 .. n /\ (\A i \in 1 .. Len(C) : q[i] = C[i]) /\ q[n] = a
  BY <1>1, <1>0, AppendIs
<1>4. /\ t \in Seq(CallArgs) /\ Len(t) = n
      /\ DOMAIN t = 1 .. n /\ (\A i \in 1 .. Len(C) : t[i] = C[i]) /\ t[n] = b
  BY <1>1, <1>0, AppendIs
<1>11. q # <<>>
  BY <1>1, <1>0, AppendFull
<1> HIDE DEF q, t
<1>5. n \in 1 .. n /\ \A i \in 1 .. n : i \in 1 .. Len(C) \/ i = n
  BY <1>3
<1>6. \A i \in 1 .. n : t[i].call = q[i].call
  BY <1>1, <1>3, <1>4, <1>5
<1>7. Distinct(t) /\ OfCalls(t, ids)
  BY <1>2, <1>3, <1>4, <1>6 DEF Distinct, OfCalls
<1>8. Streams!ToolCallIndex(s, Id(c)) = n
  <2>1. n \in DOMAIN s.calls /\ s.calls[n].call = Id(c)
    BY <1>1, <1>2, <1>3, <1>5
  <2>2. \A i \in DOMAIN s.calls : s.calls[i].call = Id(c) => i = n
    BY <1>2, <2>1 DEF Distinct
  <2>. QED BY <2>1, <2>2 DEF Streams!ToolCallIndex
<1>9. [q EXCEPT ![n].args = @ \o p] = t
  <2> DEFINE u == [q EXCEPT ![n] = [a EXCEPT !.args = @ \o p]]
  <2>1. [q EXCEPT ![n].args = @ \o p] = u
    BY <1>3
  <2>2. u = [q EXCEPT ![n] = b]
    BY <1>1
  <2> HIDE DEF u
  <2>3. u \in Seq(CallArgs) /\ Len(u) = n /\ u[n] = b /\ \A i \in 1 .. n : i # n => u[i] = q[i]
    BY <1>1, <1>3, <1>5, <2>2
  <2>4. \A i \in 1 .. Len(t) : u[i] = t[i]
    <3> TAKE i \in 1 .. Len(t)
    <3>1. CASE i = n
      BY <1>4, <2>3, <3>1
    <3>2. CASE i # n
      <4>1. i \in 1 .. n /\ i \in 1 .. Len(C)
        BY <1>4, <1>5, <3>2
      <4>. QED BY <1>3, <1>4, <2>3, <3>2, <4>1
    <3>. QED BY <3>1, <3>2
  <2>5. u = t
    BY <1>4, <2>3, <2>4, SameSequence
  <2>. QED BY <2>1, <2>5
<1>10. Streams!OpenAIArguments(s, Id(c), p) = [s EXCEPT !.calls = t]
  <2>1. Streams!OpenAIArguments(s, Id(c), p) = [s EXCEPT !.calls[n].args = @ \o p]
    BY <1>2, <1>8, <1>11 DEF Streams!OpenAIArguments
  <2>2. [s EXCEPT !.calls[n].args = @ \o p] = [s EXCEPT !.calls = [s.calls EXCEPT ![n].args = @ \o p]]
    BY <1>0 DEF OpenAIRecord
  <2>. QED BY <1>2, <1>9, <2>1, <2>2
<1>. QED BY <1>4, <1>7, <1>10 DEF t, b, HasFilled

LEMMA CallSequences ==
    ASSUME SentHeld
    PROVE  /\ \A t : Streams!SentPieces(t) \in Seq(Nat)
           /\ \A c : Streams!PiecesOfCall(c) \in Seq(Nat)
           /\ Streams!SentCalls \in Seq(CallArgs)
           /\ \A k : Streams!Content(k) \in Seq(PieceRead)
           /\ x3 \in Nat /\ Id(x3) \in CallId /\ Id(0) \in CallId
<1>1. x2 \in Seq(SentEvent) /\ Len(x2) \in Nat
  BY DEF SentHeld
<1>2. x3 \in Nat
  BY <1>1 DEF SentHeld
<1>3. ASSUME NEW V, NEW f, Maps(f, SentEvent, Seq(V)) PROVE FlatMap(f, x2) \in Seq(V)
  <2>1. Mapped(f, x2) \in Seq(Seq(V))
    BY <1>1, <1>3, MapTyped
  <2>. QED BY <2>1, FlatTyped DEF FlatMap
<1>. QED BY <1>1, <1>2, <1>3, SentIs, MapsTyped, IdIs

LEMMA WithCallIs ==
    ASSUME NEW C \in Seq(CallArgs), NEW o \in Nat, NEW A \in Seq(Nat)
    PROVE  /\ WithCall(C, o, A) \in Seq(CallArgs)
           /\ o = 0 => WithCall(C, o, A) = C
           /\ o # 0 => WithCall(C, o, A) = Append(C, [call |-> Id(o), args |-> A]) /\ WithCall(C, o, A) # <<>>
<1>1. [call |-> Id(o), args |-> A] \in CallArgs
  BY IdIs DEF CallArgs
<1> DEFINE a == [call |-> Id(o), args |-> A]
<1> HIDE DEF a
<1>2. Append(C, a) \in Seq(CallArgs) /\ Append(C, a) # <<>>
  BY <1>1, AppendFull DEF a
<1>. QED BY <1>2 DEF WithCall, a

\* The calls of a client after an event.
LEMMA CallsGo ==
    ASSUME SentHeld, NEW r, NEW e, Sends(r, e)
    PROVE  LET T == WithCall(Streams!SentCalls, x3, Streams!PiecesOfCall(x3))
               U == WithCall(Streams!SentCalls', x3', Streams!PiecesOfCall(x3)')
           IN  /\ r.type \in {"text", "reasoning"} \cup Streams!Terminal => U = T
               /\ r.type = "call" => /\ T = Streams!SentCalls
                                     /\ U = Append(T, [call |-> Id(r.call), args |-> <<>>])
               /\ r.type = "delta" =>
                     /\ T = Append(Streams!SentCalls, [call |-> Id(r.call), args |-> Streams!PiecesOfCall(x3)])
                     /\ U = Append(Streams!SentCalls,
                                   [call |-> Id(r.call), args |-> Streams!PiecesOfCall(x3) \o r.pieces])
               /\ r.type = "done" =>
                     /\ T = Append(Streams!SentCalls, [call |-> Id(r.call), args |-> Streams!PiecesOfCall(x3)])
                     /\ U = Append(Streams!SentCalls, [call |-> Id(r.call), args |-> r.pieces])
<1>1. Gains(r) /\ Shaped(r) /\ x5' = Streams!Registered(x5, r) /\ SentHeld'
  BY SentGoesOn DEF Sends
<1>2. /\ \A c : Streams!PiecesOfCall(c)' = IF r.type = "delta" /\ r.call = c
                                              THEN Streams!PiecesOfCall(c) \o r.pieces
                                              ELSE Streams!PiecesOfCall(c)
      /\ Streams!SentCalls' = IF r.type = "done"
                              THEN Append(Streams!SentCalls, [call |-> Id(r.call), args |-> r.pieces])
                              ELSE Streams!SentCalls
  BY <1>1 DEF Gains
<1> DEFINE C == Streams!SentCalls
           A == Streams!PiecesOfCall(x3)
           B == Streams!PiecesOfCall(x3)'
<1>3. CASE r.type \in {"text", "reasoning"} \cup Streams!Terminal
  <2>1. C' = C /\ x3' = x3
    BY <1>1, <1>2, <1>3 DEF Shaped, Streams!Terminal
  <2>2. B = A
    BY <1>2, <1>3, <2>1 DEF Streams!Terminal
  <2>. QED BY <1>3, <2>1, <2>2 DEF Streams!Terminal
<1>4. CASE r.type = "call"
  <2>1. C' = C /\ x3 = 0 /\ x3' = r.call /\ r.call = Len(x2) + 1
    BY <1>1, <1>2, <1>4 DEF Shaped
  <2>2. r.call \in Nat \ x5 /\ r.call # 0
    <3>1. Len(x2) \in Nat /\ x5 \subseteq 1 .. Len(x2)
      BY DEF SentHeld
    <3>. QED BY <2>1, <3>1
  <2>3. B = <<>>
    <3>1. Streams!PiecesOfCall(r.call) = <<>>
      BY <2>2 DEF SentHeld
    <3>2. Streams!PiecesOfCall(r.call)' = Streams!PiecesOfCall(r.call)
      BY <1>2, <1>4
    <3>. QED BY <2>1, <3>1, <3>2
  <2>. QED BY <1>4, <2>1, <2>2, <2>3 DEF WithCall, Streams!Terminal
<1>5. CASE r.type = "delta"
  <2>1. C' = C /\ x3 # 0 /\ x3' = x3 /\ r.call = x3
    BY <1>1, <1>2, <1>5 DEF Shaped
  <2>2. B = A \o r.pieces
    BY <1>2, <1>5, <2>1
  <2>. QED BY <1>5, <2>1, <2>2 DEF WithCall, Streams!Terminal
<1>6. CASE r.type = "done"
  <2>1. C' = Append(C, [call |-> Id(r.call), args |-> r.pieces]) /\ x3 # 0 /\ x3' = 0 /\ r.call = x3
    BY <1>1, <1>2, <1>6 DEF Shaped
  <2>. QED BY <1>6, <2>1 DEF WithCall, Streams!Terminal
<1>7. r.type \in {"text", "reasoning", "call", "delta", "done"} \cup Streams!Terminal
  BY <1>1, EventParts DEF Shaped
<1>. QED BY <1>3, <1>4, <1>5, <1>6, <1>7

LEMMA PiecesGo ==
    ASSUME NEW r, Gains(r)
    PROVE  /\ r.type # "delta" => Pieces' = Pieces
           /\ \A c \in Nat : /\ Pieces[c] = Streams!PiecesOfCall(c) /\ Pieces[c] \in Seq(Nat)
                             /\ Pieces'[c] = IF r.type = "delta" /\ r.call = c
                                               THEN Pieces[c] \o r.pieces ELSE Pieces[c]
<1>1. \A c : /\ Streams!PiecesOfCall(c) \in Seq(Nat)
             /\ Streams!PiecesOfCall(c)' = IF r.type = "delta" /\ r.call = c
                                              THEN Streams!PiecesOfCall(c) \o r.pieces
                                              ELSE Streams!PiecesOfCall(c)
  BY DEF Gains
<1>2. Pieces' = [c \in Nat |-> Streams!PiecesOfCall(c)']
  BY DEF Pieces
<1>. QED BY <1>1, <1>2 DEF Pieces

LEMMA OpenAISame ==
    ASSUME NEW w, NEW s \in OpenAIRecord, NEW t \in OpenAIRecord, NEW T, NEW R, NEW C, NEW D,
           OpenAIHas(w, s, T, R, C), Besides(s, t), t.calls = D,
           t.content <=> T # <<>> \/ D # <<>> \/ (w.reasoning /\ R # <<>>)
    PROVE  OpenAIHas(w, t, T, R, D)
  BY DEF OpenAIHas, Besides

LEMMA OpenAIGoesOn ==
    ASSUME SentHeld, OpenAISending, NEW r, NEW e, Sends(r, e), r.type \notin {"completed", "failed"}
    PROVE  OpenAISending'
<1> DEFINE T == Streams!SentPieces("text")
           R == Streams!SentPieces("reasoning")
           S == Streams!SentCalls
           C == WithCall(S, x3, Streams!PiecesOfCall(x3))
           D == WithCall(S', x3', Streams!PiecesOfCall(x3)')
           known == Streams!Registered(x5, r)
           p == r.pieces
           c == r.call
           Reached(t) == OpenAIReady(x1, t, T', R', D, known, Pieces') /\ ~t.done
<1>1. /\ Gains(r) /\ r \in SentEvent /\ Shaped(r) /\ ExtractedFrom(e, r)
      /\ x1' = x1 /\ x4' = x4 /\ x4 = "no" /\ x5' = known
      /\ x6' = Streams!OpenAIOn(x6, e)
  BY SentGoesOn DEF Sends
<1>2. /\ T \in Seq(Nat) /\ R \in Seq(Nat) /\ S \in Seq(CallArgs) /\ x3 \in Nat
      /\ Streams!PiecesOfCall(x3) \in Seq(Nat)
      /\ p \in Seq(Nat) /\ c \in Nat /\ <<>> \in Seq(Nat)
  BY <1>1, CallSequences, EventParts
<1>3. /\ x6 \in OpenAIRecord /\ OpenAIHas(x1, x6, T, R, C) /\ x6.calls = C /\ C \in Seq(CallArgs)
      /\ Distinct(x6.calls) /\ OfCalls(x6.calls, x5) /\ Streamed(x6.streamed, Pieces) /\ ~x6.done
  BY <1>1, <1>2, WithCallIs DEF OpenAISending, OpenAIReady, OpenAIHas
<1>4. /\ T' = IF r.type = "text" THEN T \o p ELSE T
      /\ R' = IF r.type = "reasoning" THEN R \o p ELSE R
  BY <1>1 DEF Gains
<1>5. r.type # "call" => known = x5
  BY DEF Streams!Registered
<1>6. e.type = r.type /\ e.pieces = p /\ (r.type \in CallTypes => e.call = Id(c))
  BY <1>1 DEF ExtractedFrom
<1>7. /\ r.type # "delta" => Pieces' = Pieces
      /\ \A i \in Nat : /\ Pieces[i] = Streams!PiecesOfCall(i) /\ Pieces[i] \in Seq(Nat)
                        /\ Pieces'[i] = IF r.type = "delta" /\ r.call = i
                                               THEN Pieces[i] \o r.pieces ELSE Pieces[i]
  BY <1>1, PiecesGo
<1>0. SUFFICES Reached(x6')
  BY <1>1 DEF OpenAISending
<1>8. CASE r.type = "text"
  <2> DEFINE t == Streams!OpenAIText(x6, e)
  <2>1. OpenAIHas(x1, t, T \o p, R, C) /\ CallsAlike(x6, t)
    BY <1>1, <1>2, <1>3, <1>6, <1>8, OpenAIWrites DEF Shaped
  <2>2. x6' = t
    BY <1>1, <1>3, <1>6, <1>8 DEF Streams!OpenAIOn
  <2> HIDE DEF t
  <2>3. D = C
    BY <1>8, CallsGo
  <2>. QED BY <1>3, <1>4, <1>5, <1>7, <1>8, <2>1, <2>2, <2>3 DEF CallsAlike, OpenAIReady
<1>9. CASE r.type = "reasoning"
  <2> DEFINE t == Streams!OpenAIReasoning(x6, e)
  <2>1. OpenAIHas(x1, t, T, R \o p, C) /\ CallsAlike(x6, t)
    BY <1>1, <1>2, <1>3, <1>6, <1>9, OpenAIReasons DEF Shaped
  <2>2. x6' = t
    BY <1>1, <1>3, <1>6, <1>9 DEF Streams!OpenAIOn
  <2> HIDE DEF t
  <2>3. D = C
    BY <1>9, CallsGo
  <2>. QED BY <1>3, <1>4, <1>5, <1>7, <1>9, <2>1, <2>2, <2>3 DEF CallsAlike, OpenAIReady
<1>10. CASE r.type = "call"
  <2> DEFINE q == Append(C, [call |-> Id(c), args |-> <<>>])
             t == [x6 EXCEPT !.calls = q, !.content = TRUE]
  <2>1. D = q
    BY <1>10, CallsGo
  <2>2. known = x5 \cup {c} /\ c \notin x5
    <3>1. Len(x2) \in Nat /\ x5 \subseteq 1 .. Len(x2) /\ c = Len(x2) + 1
      BY <1>1, <1>10 DEF SentHeld, Shaped
    <3>. QED BY <1>10, <3>1 DEF Streams!Registered
  <2>3. q \in Seq(CallArgs) /\ Distinct(q) /\ OfCalls(q, known)
    <3>1. C \in Seq(CallArgs) /\ Distinct(C) /\ OfCalls(C, x5) /\ c \in Nat /\ <<>> \in Seq(Nat)
      BY <1>2, <1>3
    <3> HIDE DEF C, c
    <3>2. q \in Seq(CallArgs) /\ Distinct(q) /\ OfCalls(q, x5 \cup {c})
      BY <2>2, <3>1, CallAdded
    <3>. QED BY <2>2, <3>2
  <2>4. x6' = t
    BY <1>1, <1>3, <1>6, <1>10 DEF Streams!OpenAIOn, Streams!OpenAICall, CallTypes
  <2>5. q # <<>>
    <3>1. [call |-> Id(c), args |-> <<>>] \in CallArgs
      BY <1>2, IdIs DEF CallArgs
    <3>. QED BY <1>3, <3>1, AppendFull
  <2> HIDE DEF q
  <2>6. t \in OpenAIRecord /\ t.calls = q /\ t.content /\ t.streamed = x6.streamed /\ Besides(x6, t)
    BY <1>3, <2>3, OpenAISetsCalls
  <2> HIDE DEF t
  <2>7. OpenAIHas(x1, t, T, R, q)
    BY <1>3, <2>5, <2>6, OpenAISame
  <2>. QED BY <1>3, <1>4, <1>7, <1>10, <2>1, <2>3, <2>4, <2>6, <2>7 DEF Besides, OpenAIReady
<1>11. CASE r.type = "delta"
  <2> DEFINE A == Streams!PiecesOfCall(x3)
             a == Append(S, [call |-> Id(c), args |-> A])
             q == Append(S, [call |-> Id(c), args |-> A \o p])
             g == [x6 EXCEPT !.calls = q]
             v == x6.streamed \cup {Id(c)}
             t == [g EXCEPT !.streamed = v]
  <2>1. C = a /\ D = q /\ c = x3 /\ c # 0 /\ p # <<>>
    BY <1>1, <1>11, CallsGo DEF Shaped
  <2>2. /\ q \in Seq(CallArgs) /\ Distinct(q) /\ OfCalls(q, x5)
        /\ Streams!OpenAIArguments(x6, Id(c), p) = g
    <3>1. x6.calls = a /\ Distinct(x6.calls) /\ OfCalls(x6.calls, x5)
      BY <1>3, <2>1
    <3>2. A \in Seq(Nat) /\ c \in Nat /\ p \in Seq(Nat) /\ S \in Seq(CallArgs) /\ x6 \in OpenAIRecord
      BY <1>2, <1>3
    <3> HIDE DEF A, c, p, S, a, q, g
    <3>3. CanFill(x6, S, c, A, x5, p)
      BY <3>1, <3>2 DEF CanFill, a
    <3>4. HasFilled(x6, S, c, A, x5, p)
      BY <3>3, CallFilled
    <3>. QED BY <3>4 DEF HasFilled, q, g
  <2>3. q # <<>> /\ a # <<>>
    <3>1. A \o p \in Seq(Nat)
      BY <1>2
    <3>2. [call |-> Id(c), args |-> A \o p] \in CallArgs /\ [call |-> Id(c), args |-> A] \in CallArgs
      BY <1>2, <3>1, IdIs DEF CallArgs
    <3>. QED BY <1>2, <3>2, AppendFull
  <2>4. x6' = t
    <3>1. x6' = Streams!OpenAIDelta(x6, e)
      BY <1>1, <1>3, <1>6, <1>11 DEF Streams!OpenAIOn
    <3>2. g.streamed = x6.streamed
      BY <1>3, <2>2, OpenAISetsCalls
    <3> HIDE DEF g
    <3>. QED BY <1>6, <1>11, <2>2, <3>1, <3>2 DEF Streams!OpenAIDelta, CallTypes
  <2> HIDE DEF q, a, A
  <2>5. g \in OpenAIRecord /\ g.calls = q /\ (g.content <=> x6.content) /\ g.streamed = x6.streamed
        /\ Besides(x6, g)
    BY <1>3, <2>2, OpenAISetsCalls
  <2>6. v \in SUBSET CallId
    BY <1>2, <1>3, IdIs, OpenAIFields
  <2> HIDE DEF g, v
  <2>7. t \in OpenAIRecord /\ t.calls = q /\ (t.content <=> x6.content) /\ t.streamed = v /\ Besides(x6, t)
    <3>1. t \in OpenAIRecord /\ t.calls = g.calls /\ (t.content <=> g.content) /\ t.streamed = v /\ Besides(g, t)
      BY ZenonT(60), <2>2, <2>5, <2>6, OpenAISetsCalls
    <3> HIDE DEF t
    <3>. QED BY <2>5, <3>1 DEF Besides
  <2> HIDE DEF t
  <2>8. x6.content
    BY <1>3, <2>1, <2>3 DEF OpenAIHas
  <2>9. OpenAIHas(x1, t, T, R, q)
    BY <1>3, <2>3, <2>7, <2>8, OpenAISame
  <2>10. Streamed(t.streamed, Pieces')
    <3>1. Pieces'[c] # <<>>
      <4>1. Pieces[c] \in Seq(Nat) /\ Pieces'[c] = Pieces[c] \o p /\ p \in Seq(Nat) /\ p # <<>>
        BY <1>2, <1>7, <1>11, <2>1
      <4> HIDE DEF c, p
      <4>. QED BY <4>1, JoinEmpty
    <3>2. \A i \in Nat : i # c => Pieces'[i] = Pieces[i]
      BY <1>7
    <3>3. ASSUME NEW i \in Nat PROVE Id(i) \in v <=> Pieces'[i] # <<>>
      <4>1. CASE i = c
        BY <3>1, <4>1 DEF v
      <4>2. CASE i # c
        <5>1. Id(i) # Id(c)
          BY <1>2, <3>3, <4>2, IdIs
        <5>2. Id(i) \in v <=> Id(i) \in x6.streamed
          BY <5>1 DEF v
        <5>. QED BY <1>3, <3>2, <3>3, <4>2, <5>2 DEF Streamed
      <4>. QED BY <4>1, <4>2
    <3>. QED BY <2>7, <3>3 DEF Streamed
  <2>. QED BY <1>3, <1>4, <1>5, <1>11, <2>1, <2>2, <2>4, <2>7, <2>9, <2>10 DEF Besides, OpenAIReady
<1>12. CASE r.type = "done"
  <2> DEFINE A == Streams!PiecesOfCall(x3)
             a == Append(S, [call |-> Id(c), args |-> A])
             q == Append(S, [call |-> Id(c), args |-> p])
             g == [x6 EXCEPT !.calls = q]
  <2>1. C = a /\ D = q /\ c = x3 /\ c # 0 /\ p # <<>> /\ (A # <<>> => p = A)
    BY <1>1, <1>12, CallsGo DEF Shaped
  <2>2. x6' = Streams!OpenAIDone(x6, e) /\ e.call = Id(c)
    BY <1>1, <1>3, <1>6, <1>12 DEF Streams!OpenAIOn, CallTypes
  <2>3. Id(c) \in x6.streamed <=> A # <<>>
    BY <1>2, <1>3, <1>7, <2>1 DEF Streamed
  <2>4. a # <<>> /\ q # <<>>
    <3>1. [call |-> Id(c), args |-> p] \in CallArgs /\ [call |-> Id(c), args |-> A] \in CallArgs
      BY <1>2, IdIs DEF CallArgs
    <3>. QED BY <1>2, <3>1, AppendFull
  <2>5. CASE A # <<>>
    <3>1. x6' = x6 /\ q = a
      BY <2>1, <2>2, <2>3, <2>5 DEF Streams!OpenAIDone
    <3>. QED BY <1>3, <1>4, <1>5, <1>7, <1>12, <2>1, <3>1 DEF OpenAIReady
  <2>6. CASE A = <<>>
    <3>1. /\ q \in Seq(CallArgs) /\ Distinct(q) /\ OfCalls(q, x5)
          /\ Streams!OpenAIArguments(x6, Id(c), p) = g
      <4>1. x6.calls = a /\ Distinct(x6.calls) /\ OfCalls(x6.calls, x5)
        BY <1>3, <2>1
      <4>2. A \in Seq(Nat) /\ c \in Nat /\ p \in Seq(Nat) /\ S \in Seq(CallArgs) /\ x6 \in OpenAIRecord
            /\ A \o p = p
        BY <1>2, <1>3, <2>6
      <4> HIDE DEF A, c, p, S, a
      <4>3. LET u == Append(S, [call |-> Id(c), args |-> A \o p])
            IN  /\ u \in Seq(CallArgs) /\ Distinct(u) /\ OfCalls(u, x5)
                /\ Streams!OpenAIArguments(x6, Id(c), p) = [x6 EXCEPT !.calls = u]
        <5>1. CanFill(x6, S, c, A, x5, p)
          BY <4>1, <4>2 DEF CanFill, a
        <5>2. HasFilled(x6, S, c, A, x5, p)
          BY <5>1, CallFilled
        <5>. QED BY <5>2 DEF HasFilled
      <4>. QED BY <4>2, <4>3
    <3>2. x6' = g
      BY <1>6, <2>2, <2>3, <2>6, <3>1 DEF Streams!OpenAIDone
    <3> HIDE DEF q
    <3>3. g \in OpenAIRecord /\ g.calls = q /\ (g.content <=> x6.content) /\ g.streamed = x6.streamed
        /\ Besides(x6, g)
      BY <1>3, <3>1, OpenAISetsCalls
    <3> HIDE DEF g
    <3>4. x6.content
      BY <1>3, <2>1, <2>4 DEF OpenAIHas
    <3>5. OpenAIHas(x1, g, T, R, q)
      BY <1>3, <2>4, <3>3, <3>4, OpenAISame
    <3>. QED BY <1>3, <1>4, <1>5, <1>7, <1>12, <2>1, <3>1, <3>2, <3>3, <3>5 DEF Besides, OpenAIReady
  <2>. QED BY <2>5, <2>6
<1>13. CASE r.type = "incomplete"
  <2>1. x6' = x6
    BY <1>1, <1>3, <1>6, <1>13 DEF Streams!OpenAIOn
  <2>2. D = C
    BY <1>13, CallsGo DEF Streams!Terminal
  <2>. QED BY <1>3, <1>4, <1>5, <1>7, <1>13, <2>1, <2>2 DEF OpenAIReady
<1>14. r.type \in {"text", "reasoning", "call", "delta", "done", "completed", "incomplete", "failed"}
  BY <1>1, EventParts DEF Streams!Terminal
<1>. QED BY <1>8, <1>9, <1>10, <1>11, <1>12, <1>13, <1>14

LEMMA EmptyJoin == ASSUME NEW V, NEW s \in Seq(V) PROVE <<>> \o s = s /\ s \o <<>> = s /\ <<>> \in Seq(V)
  OBVIOUS

\* What was sent is what it was after an event that ends the answer.
LEMMA EndAddsNothing ==
    ASSUME NEW r, Gains(r), r.type \in Streams!Terminal
    PROVE  /\ \A t \in {"text", "reasoning"} : Streams!SentPieces(t)' = Streams!SentPieces(t)
           /\ Streams!SentCalls' = Streams!SentCalls
           /\ \A k \in SUBSET Streams!Kinds : Streams!Content(k)' = Streams!Content(k)
<1>1. r.type \notin {"text", "reasoning", "done"}
  BY DEF Streams!Terminal
<1>2. \A k \in SUBSET Streams!Kinds : Streams!Content(k)' = Streams!Content(k)
  BY <1>1 DEF Gains, ContentGains
<1>. QED BY <1>1, <1>2 DEF Gains

LEMMA NothingIs ==
    ASSUME SentHeld, OpenAISending, x3 = 0
    PROVE  /\ x6.content <=> ~Streams!Nothing
           /\ x6.calls = Streams!SentCalls
           /\ Streams!Text(x6) = Streams!SentPieces("text")
           /\ x6 \in OpenAIRecord /\ x6.usage = 0
           /\ x6.reasoning = IF x1.reasoning THEN Streams!SentPieces("reasoning") ELSE <<>>
<1> DEFINE T == Streams!SentPieces("text")
           R == Streams!SentPieces("reasoning")
           S == Streams!SentCalls
<1>1. T \in Seq(Nat) /\ <<>> \o T = T /\ T \o <<>> = T
  BY CallSequences, EmptyJoin
<1>2. OpenAIHas(x1, x6, T, R, S)
  BY DEF OpenAISending, OpenAIReady, WithCall
<1>3. Streams!Text(x6) = T
  BY <1>1, <1>2 DEF OpenAIHas, Streams!Text
<1>4. x6.content <=> ~Streams!Nothing
  BY <1>2 DEF OpenAIHas, Streams!Nothing
<1>. QED BY <1>2, <1>3, <1>4 DEF OpenAIHas

LEMMA OpenAICompletes ==
    ASSUME SentHeld, OpenAISending, NEW r, NEW e, Sends(r, e), r.type = "completed"
    PROVE  OpenAIWhole' /\ (r.usage = "none" => x6'.usage = 0) /\ (r.usage # "none" => x6'.usage = 1)
<1>1. /\ Gains(r) /\ Shaped(r) /\ ExtractedFrom(e, r) /\ x1' = x1 /\ x4' = x4 /\ x4 = "no"
      /\ x6' = Streams!OpenAIOn(x6, e) /\ x3 = 0 /\ x3' = x3 /\ ~x6.done
      /\ e.type = "completed" /\ e.usage = r.usage
  BY SentGoesOn DEF Sends, Shaped, ExtractedFrom, Streams!Terminal, OpenAISending
<1>2. /\ \A t \in {"text", "reasoning"} : Streams!SentPieces(t)' = Streams!SentPieces(t)
      /\ Streams!SentCalls' = Streams!SentCalls
  BY <1>1, EndAddsNothing DEF Streams!Terminal
<1>3. /\ x6.content <=> ~Streams!Nothing
      /\ x6.calls = Streams!SentCalls
      /\ Streams!Text(x6) = Streams!SentPieces("text")
      /\ x6 \in OpenAIRecord /\ x6.usage = 0
      /\ x6.reasoning = IF x1.reasoning THEN Streams!SentPieces("reasoning") ELSE <<>>
  BY <1>1, NothingIs
<1> DEFINE q == IF x6.content THEN Streams!Text(x6) ELSE Streams!MadeUp
           f == IF x6.calls # <<>> THEN "tool_calls" ELSE "stop"
           n == IF r.usage = "none" THEN 0 ELSE 1
           t == [x6 EXCEPT !.text = q, !.buffer = <<>>, !.finish = f, !.usage = n]
<1>4. x6' = t
  <2>1. x6' = Streams!OpenAICompleted(x6, e)
    BY <1>1 DEF Streams!OpenAIOn
  <2>2. (IF e.usage = "none" THEN x6.usage ELSE x6.usage + 1) = n
    BY <1>1, <1>3
  <2>. QED BY <2>1, <2>2 DEF Streams!OpenAICompleted
<1>5. Streams!Nothing' <=> Streams!Nothing
  BY <1>1, <1>2 DEF Streams!Nothing
<1>6. q \in Seq(Nat) /\ <<>> \in Seq(Nat) /\ f \in {"none", "stop", "tool_calls"} /\ n \in Nat
  <2>1. Streams!MadeUp \in Seq(Nat) /\ <<>> \in Seq(Nat)
    BY DEF Streams!MadeUp
  <2>2. Streams!Text(x6) \in Seq(Nat)
    BY <1>3, CallSequences
  <2>. QED BY <2>1, <2>2
<1> HIDE DEF q, f, n
<1>7. /\ t \in OpenAIRecord /\ t.text = q /\ t.reasoning = x6.reasoning /\ t.calls = x6.calls /\ t.finish = f
      /\ t.usage = n
  BY <1>3, <1>6 DEF OpenAIRecord
<1> HIDE DEF t
<1>. QED BY <1>1, <1>2, <1>3, <1>4, <1>5, <1>7 DEF OpenAIWhole, q, f, n, Streams!MadeUp

-----------------------------------------------------------------------------
(* The Anthropic format *)

LEMMA OpenPiecesIs ==
    ASSUME NEW k, NEW o \in Nat, NEW A \in Seq(Nat)
    PROVE  /\ OpenPieces(k, o, A) \in Seq(PieceRead)
           /\ o = 0 => OpenPieces(k, o, A) = <<>>
           /\ o # 0 => OpenPieces(k, o, A) = Shows(k, "call", Id(o), A)
           /\ A = <<>> => OpenPieces(k, o, A) = <<>>
<1>1. Marked("call", Id(o), A) \in Seq(PieceRead) /\ (A = <<>> => Marked("call", Id(o), A) = <<>>)
  BY KindsAre, IdIs, MarkedTyped, MarkedEmpty
<1>2. <<>> \in Seq(PieceRead)
  OBVIOUS
<1>. QED BY <1>1, <1>2 DEF OpenPieces, Shows

LEMMA ShowsTyped ==
    ASSUME NEW k, NEW kind \in BlockKinds, NEW c \in CallId, NEW d \in Seq(Nat)
    PROVE  Shows(k, kind, c, d) \in Seq(PieceRead)
<1>1. Marked(kind, c, d) \in Seq(PieceRead) /\ <<>> \in Seq(PieceRead)
  BY MarkedTyped
<1>. QED BY <1>1 DEF Shows

LEMMA ShowsJoin ==
    ASSUME NEW k, NEW kind \in BlockKinds, NEW c \in CallId, NEW d \in Seq(Nat), NEW p \in Seq(Nat)
    PROVE  Shows(k, kind, c, d \o p) = Shows(k, kind, c, d) \o Shows(k, kind, c, p)
<1>1. Marked(kind, c, d \o p) = Marked(kind, c, d) \o Marked(kind, c, p)
  BY MarkedJoin
<1>2. <<>> \o <<>> = <<>>
  OBVIOUS
<1>. QED BY <1>1, <1>2 DEF Shows

LEMMA SoFarGoes ==
    ASSUME SentHeld, NEW r, NEW e, Sends(r, e), NEW k \in SUBSET Streams!Kinds
    PROVE  /\ SaidBefore(k) \in Seq(PieceRead)
           /\ r.type = "text" => SaidBefore(k)' = SaidBefore(k) \o Shows(k, "text", Id(0), r.pieces)
           /\ r.type = "reasoning" =>
                 SaidBefore(k)' = IF x1.reasoning THEN SaidBefore(k) \o Shows(k, "reasoning", Id(0), r.pieces)
                                             ELSE SaidBefore(k)
           /\ r.type \in {"call"} \cup Streams!Terminal => SaidBefore(k)' = SaidBefore(k)
           /\ r.type = "delta" => SaidBefore(k)' = SaidBefore(k) \o Shows(k, "call", Id(r.call), r.pieces)
           /\ r.type = "done" =>
                 SaidBefore(k)' = IF Streams!PiecesOfCall(x3) = <<>>
                               THEN SaidBefore(k) \o Shows(k, "call", Id(r.call), r.pieces) ELSE SaidBefore(k)
<1> DEFINE K == k \cap Streams!Shown
           a == Streams!Content(K)
           A == Streams!PiecesOfCall(x3)
           b == OpenPieces(k, x3, A)
           B == Streams!PiecesOfCall(x3)'
           d == OpenPieces(k, x3', B)
           p == r.pieces
           m(kind, c) == Shows(k, kind, c, p)
<1>1. Gains(r) /\ r \in SentEvent /\ Shaped(r) /\ SentHeld' /\ x1' = x1
  BY SentGoesOn DEF Sends
<1>2. K \in SUBSET Streams!Kinds /\ ContentGains(r, K) /\ Streams!Shown' = Streams!Shown
      /\ "text" \in Streams!Shown /\ "call" \in Streams!Shown
      /\ (x1.reasoning <=> "reasoning" \in Streams!Shown)
  BY <1>1, KindsAre DEF Gains, Streams!Shown
<1>3. /\ a \in Seq(PieceRead)
      /\ r.type \notin {"text", "reasoning", "done"} => a' = a
      /\ r.type = "text" => a' = a \o m("text", Id(0))
      /\ r.type = "reasoning" => a' = IF x1.reasoning THEN a \o m("reasoning", Id(0)) ELSE a
      /\ r.type = "done" => a' = a \o m("call", Id(r.call))
  <2>1. a' = Streams!Content(K)'
    BY <1>2
  <2>. QED BY ZenonT(60), <1>2, <2>1, ContentShows
<1>4. SaidBefore(k) = a \o b /\ SaidBefore(k)' = a' \o d
  BY <1>2 DEF SaidBefore
<1>5. /\ x3 \in Nat /\ x3' \in Nat /\ A \in Seq(Nat) /\ B \in Seq(Nat)
      /\ p \in Seq(Nat) /\ r.call \in Nat /\ Id(r.call) \in CallId /\ Id(0) \in CallId
  <2>1. x3 \in Nat /\ A \in Seq(Nat) /\ Id(0) \in CallId
    BY CallSequences
  <2>2. p \in Seq(Nat) /\ r.call \in Nat /\ Id(r.call) \in CallId
    BY <1>1, EventParts, IdIs
  <2>3. x3' \in Nat
    BY <1>1, <2>1, <2>2, EventParts DEF Shaped, Streams!Terminal
  <2>4. B \in Seq(Nat)
    <3>1. ASSUME NEW c PROVE Streams!PiecesOfCall(c)' \in Seq(Nat)
      <4>1. Streams!PiecesOfCall(c) \in Seq(Nat) /\
            Streams!PiecesOfCall(c)' \in {Streams!PiecesOfCall(c) \o p, Streams!PiecesOfCall(c)}
        BY <1>1 DEF Gains
      <4> DEFINE u == Streams!PiecesOfCall(c)
      <4>2. u \in Seq(Nat) /\ p \in Seq(Nat)
        BY <2>2, <4>1
      <4> HIDE DEF u, p
      <4>3. u \o p \in Seq(Nat)
        BY <4>2
      <4>. QED BY <4>1, <4>2, <4>3 DEF u
    <3>2. \A c : Streams!PiecesOfCall(c)' \in Seq(Nat)
      BY <3>1
    <3>. QED BY <3>2
  <2>. QED BY <2>1, <2>2, <2>3, <2>4
<1>6. b \in Seq(PieceRead) /\ d \in Seq(PieceRead) /\ a \o b \in Seq(PieceRead)
  <2>1. b \in Seq(PieceRead) /\ d \in Seq(PieceRead)
    BY <1>5, OpenPiecesIs
  <2>. QED BY <1>3, <2>1
<1>7. \A kind \in BlockKinds, c \in CallId : m(kind, c) \in Seq(PieceRead)
  BY <1>5, ShowsTyped
<1>8. "text" \in BlockKinds /\ "reasoning" \in BlockKinds /\ "call" \in BlockKinds
  BY KindsAre
<1>9. CASE x3 = 0 /\ x3' = 0 /\ r.type \in {"text", "reasoning"}
  <2>1. b = <<>> /\ d = <<>>
    BY <1>5, <1>9, OpenPiecesIs
  <2>2. a \o <<>> = a /\ \A u \in Seq(PieceRead) : (a \o u) \o <<>> = a \o u
    BY <1>3
  <2>3. m(r.type, Id(0)) \in Seq(PieceRead)
    BY <1>5, <1>7, <1>8, <1>9
  <2> DEFINE M == m(r.type, Id(0))
  <2>4. a' = IF r.type = "text" \/ x1.reasoning THEN a \o M ELSE a
    BY <1>3, <1>9
  <2>7. r.type = "text" => M = Shows(k, "text", Id(0), p)
    OBVIOUS
  <2>8. r.type = "reasoning" => M = Shows(k, "reasoning", Id(0), p)
    OBVIOUS
  <2> HIDE DEF a, b, d, M
  <2>5. SaidBefore(k) = a /\ SaidBefore(k)' = a'
    <3>1. a' \in Seq(PieceRead)
      BY <1>3, <2>3, <2>4 DEF M
    <3>2. a' \o <<>> = a'
      BY <3>1, NoMore
    <3>. QED BY <1>4, <2>1, <2>2, <3>2
  <2>6. r.type # "text" => r.type = "reasoning"
    BY <1>9
  <2>. QED BY <1>6, <1>9, <2>1, <2>2, <2>4, <2>5, <2>6, <2>7, <2>8 DEF Streams!Terminal
<1>10. CASE r.type \in {"call"} \cup Streams!Terminal
  <2>1. a' = a
    BY <1>3, <1>10 DEF Streams!Terminal
  <2>2. b = d
    <3>1. CASE r.type = "call"
      <4>1. x3 = 0 /\ x3' = r.call /\ r.call = Len(x2) + 1
        BY <1>1, <3>1 DEF Shaped
      <4>2. B = <<>>
        <5>1. Len(x2) \in Nat /\ x5 \subseteq 1 .. Len(x2)
          BY DEF SentHeld
        <5>2. Streams!PiecesOfCall(r.call) = <<>>
          BY <1>5, <4>1, <5>1 DEF SentHeld
        <5>3. Streams!PiecesOfCall(r.call)' = Streams!PiecesOfCall(r.call)
          BY <1>1, <3>1 DEF Gains
        <5>. QED BY <4>1, <5>2, <5>3
      <4>. QED BY <1>5, <4>1, <4>2, OpenPiecesIs
    <3>2. CASE r.type \in Streams!Terminal
      <4>1. x3' = x3 /\ r.type # "delta"
        BY <1>1, <3>2 DEF Shaped, Streams!Terminal
      <4>2. \A c : Streams!PiecesOfCall(c)' = Streams!PiecesOfCall(c)
        BY <1>1, <4>1 DEF Gains
      <4>3. B = A
        BY <4>1, <4>2
      <4>. QED BY <4>1, <4>3
    <3>. QED BY <1>10, <3>1, <3>2
  <2> HIDE DEF a, b, d, m
  <2>. QED BY <1>4, <1>6, <1>10, <2>1, <2>2 DEF Streams!Terminal
<1>11. CASE r.type = "delta"
  <2>1. x3 # 0 /\ x3' = x3 /\ r.call = x3
    BY <1>1, <1>11 DEF Shaped
  <2>2. B = A \o p
    <3>1. Streams!PiecesOfCall(r.call)' = Streams!PiecesOfCall(r.call) \o p
      BY <1>1, <1>11 DEF Gains
    <3>. QED BY <2>1, <3>1
  <2>3. b = Shows(k, "call", Id(r.call), A) /\ d = Shows(k, "call", Id(r.call), A \o p)
    BY <1>5, <2>1, <2>2, OpenPiecesIs
  <2>4. d = b \o m("call", Id(r.call))
    <3>1. Shows(k, "call", Id(r.call), A \o p)
            = Shows(k, "call", Id(r.call), A) \o Shows(k, "call", Id(r.call), p)
      BY ZenonT(60), <1>5, <1>8, ShowsJoin
    <3>. QED BY <2>3, <3>1
  <2>5. a' = a
    BY <1>3, <1>11
  <2>6. m("call", Id(r.call)) \in Seq(PieceRead)
    BY <1>5, <1>7, <1>8
  <2> HIDE DEF b, d, m
  <2>7. a \o (b \o m("call", Id(r.call))) = (a \o b) \o m("call", Id(r.call))
    BY <1>3, <1>6, <2>6, JoinThree
  <2> HIDE DEF a
  <2>. QED BY <1>4, <1>6, <1>11, <2>4, <2>5, <2>7 DEF Streams!Terminal, m
<1>12. CASE r.type = "done"
  <2>1. x3 # 0 /\ x3' = 0 /\ r.call = x3 /\ (A # <<>> => p = A)
    BY <1>1, <1>12 DEF Shaped
  <2>2. b = Shows(k, "call", Id(r.call), A) /\ d = <<>> /\ (A = <<>> => b = <<>>)
    BY <1>5, <2>1, OpenPiecesIs
  <2>3. a' = a \o m("call", Id(r.call)) /\ m("call", Id(r.call)) \in Seq(PieceRead)
    BY <1>3, <1>5, <1>7, <1>8, <1>12
  <2>4. A # <<>> => b = m("call", Id(r.call))
    BY <2>1, <2>2
  <2> HIDE DEF b, d, m
  <2>5. (a \o m("call", Id(r.call))) \o <<>> = a \o m("call", Id(r.call)) /\ a \o <<>> = a
    BY <1>3, <2>3
  <2> HIDE DEF a
  <2>6. SaidBefore(k)' = a \o m("call", Id(r.call))
    BY <1>4, <2>2, <2>3, <2>5
  <2>7. CASE A = <<>>
    BY <1>4, <1>6, <1>12, <2>2, <2>5, <2>6, <2>7 DEF Streams!Terminal, m
  <2>8. CASE A # <<>>
    BY <1>4, <1>6, <1>12, <2>4, <2>6, <2>8 DEF Streams!Terminal
  <2>. QED BY <2>7, <2>8
<1>13. r.type \in {"text", "reasoning", "call", "delta", "done"} \cup Streams!Terminal
  BY <1>1, EventParts
<1>14. r.type \in {"text", "reasoning"} => x3 = 0 /\ x3' = 0
  BY <1>1 DEF Shaped
<1>. QED BY <1>9, <1>10, <1>11, <1>12, <1>13, <1>14

\* What a client reads once arguments have been written into the block of a call.
ArgsAdded(s, t, c, p) ==
    /\ t \in AnthropicRecord /\ Balanced(t, c) /\ (t.content <=> s.content)
    /\ t.tools <=> s.tools
    /\ t.streamed = s.streamed \cup {Id(c)}
    /\ t.stopped <=> s.stopped
    /\ t.usage = s.usage /\ ~t.thinking /\ ~t.text
    /\ \A k : Streams!Read(k, t.blocks) = Streams!Read(k, s.blocks) \o Shows(k, "call", Id(c), p)

LEMMA ArgsWritten ==
    ASSUME NEW s \in AnthropicRecord, NEW c \in Nat, c # 0, Balanced(s, c), NEW e, e.pieces \in Seq(Nat),
           e.call = Id(c)
    PROVE  ArgsAdded(s, Streams!AnthropicDelta(s, e), c, e.pieces)
<1> DEFINE q == Streams!BlockDelta(s, e.pieces)
           t == [q EXCEPT !.streamed = @ \cup {e.call}]
<1>1. EndsWith(s, "call", Id(c)) /\ ~s.thinking /\ ~s.text /\ Id(c) \in CallId
  BY IdIs DEF Balanced
<1>2. Filled(s, q, "call", Id(c), e.pieces)
  BY <1>1, BlockFills
<1>3. Streams!AnthropicDelta(s, e) = t
  BY DEF Streams!AnthropicDelta
<1> HIDE DEF q
<1>4. q \in AnthropicRecord
  BY <1>2 DEF Filled
<1>5. t \in AnthropicRecord /\ (t.content <=> q.content) /\ (t.tools <=> q.tools)
      /\ t.streamed = q.streamed \cup {e.call}
      /\ t.stop = q.stop /\ (t.stopped <=> q.stopped) /\ t.usage = q.usage
      /\ (t.thinking <=> q.thinking) /\ (t.text <=> q.text) /\ SameBlocks(q, t)
  BY <1>1, <1>4, SetStreamed
<1> HIDE DEF t
<1>6. EndsWith(t, "call", Id(c)) /\ SameRead(q, t)
  BY <1>2, <1>5, BlocksStay DEF Filled
<1>7. ~t.thinking /\ ~t.text
  BY <1>1, <1>2, <1>5 DEF Filled, SameMarks
<1>8. Balanced(t, c)
  BY <1>6, <1>7 DEF Balanced
<1>9. \A k : Streams!Read(k, t.blocks) = Streams!Read(k, s.blocks) \o Shows(k, "call", Id(c), e.pieces)
  BY <1>2, <1>6 DEF Filled, SameRead
<1>10. ArgsAdded(s, t, c, e.pieces)
  BY <1>2, <1>5, <1>7, <1>8, <1>9 DEF Filled, SameMarks, ArgsAdded
<1>. QED BY <1>3, <1>10

LEMMA CallEnded ==
    ASSUME NEW s \in AnthropicRecord, NEW c \in Nat, c # 0, Balanced(s, c), NEW e, e.pieces \in Seq(Nat),
           e.call = Id(c)
    PROVE  LET t == Streams!AnthropicDone(s, e)
           IN  /\ t \in AnthropicRecord /\ Balanced(t, 0) /\ SameMarks(s, t) /\ ~t.thinking /\ ~t.text
               /\ Id(c) \in s.streamed => SameRead(s, t)
               /\ Id(c) \notin s.streamed =>
                     \A k : Streams!Read(k, t.blocks) =
                              Streams!Read(k, s.blocks) \o Shows(k, "call", Id(c), e.pieces)
<1> DEFINE q == Streams!BlockDelta(s, e.pieces)
           u == IF Id(c) \in s.streamed THEN s ELSE q
           t == Streams!BlockStop(u)
<1>1. EndsWith(s, "call", Id(c)) /\ ~s.thinking /\ ~s.text /\ Id(c) \in CallId
  BY IdIs DEF Balanced
<1>2. Filled(s, q, "call", Id(c), e.pieces)
  BY <1>1, BlockFills
<1>3. Streams!AnthropicDone(s, e) = t
  BY DEF Streams!AnthropicDone
<1> HIDE DEF q
<1>4. u \in AnthropicRecord /\ EndsWith(u, "call", Id(c)) /\ SameMarks(s, u)
  BY <1>1, <1>2 DEF Filled, SameMarks
<1>5. (Id(c) \in s.streamed => u = s) /\ (Id(c) \notin s.streamed => u = q)
  OBVIOUS
<1> HIDE DEF u
<1>6. Closed(u, t)
  BY <1>4, BlockStops
<1> HIDE DEF t
<1>7. t \in AnthropicRecord /\ Settled(t) /\ SameMarks(s, t) /\ SameRead(u, t)
  BY <1>4, <1>6 DEF Closed, SameMarks
<1>8. ~t.thinking /\ ~t.text
  BY <1>1, <1>7 DEF SameMarks
<1>9. Balanced(t, 0)
  BY <1>7, <1>8 DEF Balanced
<1>. QED BY <1>2, <1>3, <1>5, <1>7, <1>8, <1>9 DEF Filled, SameRead

\* A text block that is written into, opened for it if none is open.
LEMMA TextFilled ==
    ASSUME NEW s \in AnthropicRecord, Balanced(s, 0), ~s.thinking, NEW p \in Seq(Nat)
    PROVE  LET t == Streams!BlockDelta(Streams!EnsureText(s), p)
           IN  t \in AnthropicRecord /\ Balanced(t, 0) /\ t.text /\ ~t.thinking /\ Stays(s, t)
<1> DEFINE a == Streams!EnsureText(s)
           t == Streams!BlockDelta(a, p)
<1>1. a \in AnthropicRecord /\ a.text /\ ~a.thinking /\ EndsWith(a, "text", Id(0)) /\ Stays(s, a)
  BY TextOpens
<1> HIDE DEF a
<1>2. Filled(a, t, "text", Id(0), p)
  BY <1>1, BlockFills
<1> HIDE DEF t
<1>3. t \in AnthropicRecord /\ EndsWith(t, "text", Id(0)) /\ t.text /\ ~t.thinking /\ Stays(s, t)
  BY <1>1, <1>2 DEF Filled, SameMarks, Stays
<1>4. Balanced(t, 0)
  BY <1>3 DEF Balanced
<1>. QED BY <1>3, <1>4 DEF a, t

LEMMA SettledIsClosed ==
    ASSUME NEW s \in AnthropicRecord, Balanced(s, 0), ~s.thinking, ~s.text
    PROVE  AllClosed(s)
<1>1. Settled(s) /\ s.blocks \in Seq(BlockRecord)
  BY AnthropicFields DEF Balanced
<1>2. DOMAIN s.blocks = 1 .. s.index
  BY <1>1 DEF Settled
<1>. QED BY <1>1, <1>2 DEF Settled, AllClosed

LEMMA BalancedMakesSense ==
    ASSUME NEW s, NEW o, Balanced(s, o)
    PROVE  ~s.nonsense
  BY DEF Balanced, Settled, EndsWith

LEMMA Apologised ==
    ASSUME NEW s \in AnthropicRecord, Balanced(s, 0)
    PROVE  LET t == Streams!AnthropicError(s) IN AllClosed(t) /\ t.stopped
<1> DEFINE a == Streams!CloseThinking(s)
           b == Streams!BlockDelta(Streams!EnsureText(a), Streams!MadeUp)
           c == Streams!CloseText(b)
           d == [c EXCEPT !.stop = "error", !.stopped = TRUE]
<1>1. a \in AnthropicRecord /\ Balanced(a, 0) /\ ~a.thinking
  BY ThinkingCloses
<1>2. Streams!AnthropicError(s) = d
  BY DEF Streams!AnthropicError
<1>3. Streams!MadeUp \in Seq(Nat)
  BY DEF Streams!MadeUp
<1> HIDE DEF a
<1>4. b \in AnthropicRecord /\ Balanced(b, 0) /\ ~b.thinking
  BY <1>1, <1>3, TextFilled
<1> HIDE DEF b
<1>5. c \in AnthropicRecord /\ Balanced(c, 0) /\ ~c.thinking /\ ~c.text
  BY <1>4, TextCloses
<1> HIDE DEF c
<1>6. AllClosed(c) /\ SameBlocks(c, d) /\ d.stopped
  BY <1>5, SettledIsClosed, SetStop
<1> HIDE DEF d
<1>. QED BY <1>2, <1>6 DEF AllClosed, SameBlocks

LEMMA LastWords ==
    ASSUME NEW s \in AnthropicRecord, NEW o, Balanced(s, o), ~s.stopped
    PROVE  LET t == Streams!AnthropicEnd(s)
           IN  /\ t \in AnthropicRecord /\ t.stopped /\ ~t.nonsense /\ SameRead(s, t) /\ t.usage = s.usage
               /\ t.stop = IF s.tools THEN "tool_use" ELSE "end_turn"
               /\ o = 0 => AllClosed(t)
<1> DEFINE a == Streams!CloseThinking(s)
           b == Streams!CloseText(a)
           v == IF s.tools THEN "tool_use" ELSE "end_turn"
           t == [b EXCEPT !.stop = v, !.stopped = TRUE]
<1>1. a \in AnthropicRecord /\ Balanced(a, o) /\ ~a.thinking /\ Stays(s, a) /\ SameRead(s, a)
  BY ThinkingCloses
<1>2. Streams!AnthropicEnd(s) = t
  BY DEF Streams!AnthropicEnd
<1> HIDE DEF a
<1>3. b \in AnthropicRecord /\ Balanced(b, o) /\ ~b.text /\ ~b.thinking /\ Stays(a, b) /\ SameRead(a, b)
  BY <1>1, TextCloses
<1> HIDE DEF b
<1>4. v \in {"none", "error", "tool_use", "end_turn"}
  OBVIOUS
<1> HIDE DEF v
<1>5. t \in AnthropicRecord /\ t.stopped /\ t.stop = v /\ SameBlocks(b, t) /\ t.usage = b.usage
  BY ZenonT(60), <1>3, <1>4, SetStop
<1> HIDE DEF t
<1>6. ~t.nonsense
  BY <1>3, <1>5, BalancedMakesSense DEF SameBlocks
<1>7. o = 0 => AllClosed(t)
  BY <1>3, <1>5, SettledIsClosed DEF AllClosed, SameBlocks
<1>8. SameRead(s, t)
  BY <1>1, <1>3, <1>5 DEF SameRead, SameBlocks
<1>9. t.usage = s.usage
  BY <1>1, <1>3, <1>5 DEF Stays
<1>. QED BY <1>2, <1>5, <1>6, <1>7, <1>8, <1>9 DEF v

LEMMA ArgumentsKeep ==
    ASSUME NEW s \in OpenAIRecord, NEW c, NEW p
    PROVE  LET t == Streams!OpenAIArguments(s, c, p)
           IN  /\ t.streamed = s.streamed
               /\ t.content <=> s.content
               /\ \A v : LET u == [t EXCEPT !.streamed = @ \cup {v}]
                         IN u.streamed = s.streamed \cup {v} /\ (u.content <=> s.content)
<1> DEFINE t == Streams!OpenAIArguments(s, c, p)
           i == Streams!ToolCallIndex(s, c)
           q == IF s.calls = <<>> THEN s.calls ELSE [s.calls EXCEPT ![i].args = @ \o p]
           w == [s EXCEPT !.calls = q]
<1>1. t = w
  BY DEF Streams!OpenAIArguments, OpenAIRecord
<1> HIDE DEF q, t
<1>2. w.streamed = s.streamed /\ (w.content <=> s.content)
      /\ \A v : LET u == [w EXCEPT !.streamed = @ \cup {v}]
                IN u.streamed = s.streamed \cup {v} /\ (u.content <=> s.content)
  BY DEF OpenAIRecord
<1> HIDE DEF w
<1>. QED BY <1>1, <1>2 DEF t

\* What an event does to the marks of the OpenAI format.
LEMMA OpenAIMarks ==
    ASSUME SentHeld, OpenAISending, NEW r, NEW e, Sends(r, e), r.type \notin {"completed", "failed"}
    PROVE  /\ r.type \in {"text", "call"} => x6'.content
           /\ r.type = "reasoning" => (x6'.content <=> x6.content \/ x1.reasoning)
           /\ r.type \in {"delta", "done", "incomplete"} => (x6'.content <=> x6.content)
           /\ x6'.streamed = IF r.type = "delta" THEN x6.streamed \cup {Id(r.call)} ELSE x6.streamed
           /\ r.type \in {"call", "delta", "done"} => x6'.calls # <<>>
           /\ r.type \in {"delta", "done"} => x6.calls # <<>> /\ (Id(r.call) \in x6.streamed <=> Streams!PiecesOfCall(x3) # <<>>)
           /\ r.type \in {"text", "reasoning", "incomplete"} => (x6'.calls # <<>> <=> x6.calls # <<>>)
<1>1. /\ r \in SentEvent /\ Shaped(r) /\ ExtractedFrom(e, r) /\ x6' = Streams!OpenAIOn(x6, e)
      /\ x4 = "no" /\ x6 \in OpenAIRecord /\ ~x6.done
      /\ e.type = r.type /\ e.pieces = r.pieces /\ (r.type \in CallTypes => e.call = Id(r.call))
  BY SentGoesOn DEF Sends, ExtractedFrom, OpenAISending, OpenAIReady, OpenAIHas
<1>2. r.type \in {"text", "reasoning", "call", "delta", "done", "completed", "incomplete", "failed"}
      /\ r.call \in Nat /\ r.pieces \in Seq(Nat)
  BY <1>1, EventParts DEF Streams!Terminal
<1>3. /\ r.type = "text" => x6' = Streams!OpenAIText(x6, e)
      /\ r.type = "reasoning" => x6' = Streams!OpenAIReasoning(x6, e)
      /\ r.type = "call" => x6' = Streams!OpenAICall(x6, e)
      /\ r.type = "delta" => x6' = Streams!OpenAIDelta(x6, e)
      /\ r.type = "done" => x6' = Streams!OpenAIDone(x6, e)
      /\ r.type = "incomplete" => x6' = x6
  BY <1>1 DEF Streams!OpenAIOn
<1> DEFINE T == WithCall(Streams!SentCalls, x3, Streams!PiecesOfCall(x3))
           U == WithCall(Streams!SentCalls', x3', Streams!PiecesOfCall(x3)')
<1>4. x6.calls = T /\ x6'.calls = U
  <2>1. OpenAISending'
    BY OpenAIGoesOn
  <2>. QED BY <2>1 DEF OpenAISending, OpenAIReady, OpenAIHas
<1>5. /\ r.type \in {"text", "reasoning", "incomplete"} => U = T
      /\ r.type \in {"call", "delta", "done"} => U # <<>>
      /\ r.type \in {"delta", "done"} => T # <<>>
  <2>1. /\ r.type \in {"text", "reasoning"} \cup Streams!Terminal => U = T
        /\ r.type = "call" => U = Append(T, [call |-> Id(r.call), args |-> <<>>])
        /\ r.type = "delta" =>
              /\ T = Append(Streams!SentCalls, [call |-> Id(r.call), args |-> Streams!PiecesOfCall(x3)])
              /\ U = Append(Streams!SentCalls,
                            [call |-> Id(r.call), args |-> Streams!PiecesOfCall(x3) \o r.pieces])
        /\ r.type = "done" =>
              /\ T = Append(Streams!SentCalls, [call |-> Id(r.call), args |-> Streams!PiecesOfCall(x3)])
              /\ U = Append(Streams!SentCalls, [call |-> Id(r.call), args |-> r.pieces])
    BY CallsGo
  <2>2. /\ Streams!SentCalls \in Seq(CallArgs) /\ Streams!PiecesOfCall(x3) \in Seq(Nat)
        /\ Streams!PiecesOfCall(x3) \o r.pieces \in Seq(Nat) /\ <<>> \in Seq(Nat) /\ T \in Seq(CallArgs)
    <3>1. Streams!SentCalls \in Seq(CallArgs) /\ Streams!PiecesOfCall(x3) \in Seq(Nat) /\ x3 \in Nat
      BY CallSequences
    <3>2. T \in Seq(CallArgs)
      BY <3>1, WithCallIs
    <3>. QED BY <1>2, <3>1, <3>2
  <2> HIDE DEF T, U
  <2>3. \A a \in Seq(Nat) : [call |-> Id(r.call), args |-> a] \in CallArgs
    BY <1>2, IdIs DEF CallArgs
  <2>4. \A q \in Seq(CallArgs), a \in Seq(Nat) : Append(q, [call |-> Id(r.call), args |-> a]) # <<>>
    BY <2>3, AppendFull
  <2>. QED BY <1>2, <2>1, <2>2, <2>4 DEF Streams!Terminal
<1>9. r.type = "delta" => /\ x6'.streamed = x6.streamed \cup {e.call}
                          /\ x6'.content <=> x6.content
  <2> DEFINE t == Streams!OpenAIArguments(x6, e.call, e.pieces)
             u == [t EXCEPT !.streamed = @ \cup {e.call}]
  <2>1. r.type = "delta" => x6' = u
    BY <1>3 DEF Streams!OpenAIDelta
  <2>2. u.streamed = x6.streamed \cup {e.call} /\ (u.content <=> x6.content)
    BY <1>1, ArgumentsKeep
  <2> HIDE DEF u
  <2>. QED BY <2>1, <2>2
<1>6. x6'.streamed = IF r.type = "delta" THEN x6.streamed \cup {Id(r.call)} ELSE x6.streamed
  <2>1. CASE r.type = "text"
    BY <1>1, <1>3, <2>1 DEF Streams!OpenAIText, OpenAIRecord
  <2>2. CASE r.type = "reasoning"
    BY <1>1, <1>3, <2>2 DEF Streams!OpenAIReasoning, OpenAIRecord
  <2>3. CASE r.type = "call"
    BY <1>1, <1>3, <2>3 DEF Streams!OpenAICall, OpenAIRecord
  <2>4. CASE r.type = "delta"
    BY <1>1, <1>3, <1>9, <2>4 DEF CallTypes
  <2>5. CASE r.type = "done"
    BY <1>1, <1>3, <2>5, ArgumentsKeep DEF Streams!OpenAIDone
  <2>6. CASE r.type = "incomplete"
    BY <1>3, <2>6
  <2>. QED BY <1>2, <2>1, <2>2, <2>3, <2>4, <2>5, <2>6
<1>7. /\ r.type \in {"text", "call"} => x6'.content
      /\ r.type = "reasoning" => (x6'.content <=> x6.content \/ x1.reasoning)
      /\ r.type \in {"delta", "done", "incomplete"} => (x6'.content <=> x6.content)
  <2>1. CASE r.type = "text"
    BY <1>1, <1>3, <2>1 DEF Streams!OpenAIText, OpenAIRecord
  <2>2. CASE r.type = "reasoning"
    BY <1>1, <1>3, <2>2 DEF Streams!OpenAIReasoning, OpenAIRecord
  <2>3. CASE r.type = "call"
    BY <1>1, <1>3, <2>3 DEF Streams!OpenAICall, OpenAIRecord
  <2>4. CASE r.type = "delta"
    BY <1>3, <1>9, <2>4
  <2>5. CASE r.type = "done"
    BY <1>1, <1>3, <2>5, ArgumentsKeep DEF Streams!OpenAIDone
  <2>6. CASE r.type = "incomplete"
    BY <1>3, <2>6
  <2>. QED BY <1>2, <2>1, <2>2, <2>3, <2>4, <2>5, <2>6
<1>8. r.type \in {"delta", "done"} => (Id(r.call) \in x6.streamed <=> Streams!PiecesOfCall(x3) # <<>>)
  <2>1. r.type \in {"delta", "done"} => r.call = x3
    BY <1>1 DEF Shaped
  <2>2. Streamed(x6.streamed, Pieces)
    BY DEF OpenAISending, OpenAIReady
  <2>. QED BY <1>2, <2>1, <2>2 DEF Streamed, Pieces
<1>. QED BY <1>4, <1>5, <1>6, <1>7, <1>8

LEMMA AnthropicGoesOn ==
    ASSUME SentHeld, OpenAISending, AnthropicSending, NEW r, NEW e, Sends(r, e),
           r.type \notin {"completed", "failed"}
    PROVE  AnthropicSending'
<1> DEFINE p == r.pieces
           c == r.call
           Reads(t) == \A k \in SUBSET Streams!Kinds : Streams!Read(k, t.blocks) = SaidBefore(k)'
           Reached(t) == /\ t \in AnthropicRecord
                         /\ Reads(t)
                         /\ t.usage = 0 /\ ~t.stopped
                         /\ Balanced(t, x3')
                         /\ t.streamed = x6'.streamed
                         /\ t.content <=> x6'.content
                         /\ t.thinking \/ t.text => t.content
                         /\ t.tools <=> x6'.calls # <<>>
<1>1. /\ r \in SentEvent /\ Shaped(r) /\ ExtractedFrom(e, r)
      /\ x1' = x1 /\ x4' = x4 /\ x4 = "no"
      /\ x6' = Streams!OpenAIOn(x6, e) /\ x7' = Streams!AnthropicOn(x7, e)
      /\ e.type = r.type /\ e.pieces = p /\ (r.type \in CallTypes => e.call = Id(c))
  BY SentGoesOn DEF Sends, ExtractedFrom
<1>2. p \in Seq(Nat) /\ c \in Nat /\ x3 \in Nat
  BY <1>1, CallSequences, EventParts
<1>3. /\ x7 \in AnthropicRecord /\ x7.usage = 0 /\ ~x7.stopped /\ Balanced(x7, x3)
      /\ x7.streamed = x6.streamed
      /\ x7.content <=> x6.content
      /\ x7.thinking \/ x7.text => x7.content
      /\ x7.tools <=> x6.calls # <<>>
      /\ \A k \in SUBSET Streams!Kinds : Streams!Read(k, x7.blocks) = SaidBefore(k)
      /\ x6 \in OpenAIRecord /\ ~x6.done
  BY <1>1 DEF AnthropicSending, OpenAISending, OpenAIReady, OpenAIHas
<1>0. SUFFICES Reached(x7')
  <2>1. Reached(x7') => ~x7'.nonsense
    BY BalancedMakesSense
  <2>. QED BY <1>1, <2>1 DEF AnthropicSending
<1>12. /\ r.type \in {"text", "call"} => x6'.content
       /\ r.type = "reasoning" => (x6'.content <=> x6.content \/ x1.reasoning)
       /\ r.type \in {"delta", "done", "incomplete"} => (x6'.content <=> x6.content)
       /\ x6'.streamed = IF r.type = "delta" THEN x6.streamed \cup {Id(c)} ELSE x6.streamed
       /\ r.type \in {"call", "delta", "done"} => x6'.calls # <<>>
       /\ r.type \in {"delta", "done"} => x6.calls # <<>> /\ (Id(c) \in x6.streamed <=> Streams!PiecesOfCall(x3) # <<>>)
       /\ r.type \in {"text", "reasoning", "incomplete"} => (x6'.calls # <<>> <=> x6.calls # <<>>)
  BY OpenAIMarks
<1>4. CASE r.type = "text"
  <2> DEFINE t == Streams!AnthropicText(x7, e)
  <2>1. x7' = t /\ x3 = 0 /\ x3' = 0
    BY <1>1, <1>3, <1>4 DEF Streams!AnthropicOn, Shaped
  <2>2. Wrote(x7, t, "text", p)
    BY <1>1, <1>2, <1>3, <2>1, TextWritten
  <2> HIDE DEF t
  <2>4. Reads(t)
    BY <1>3, <1>4, <2>2, SoFarGoes DEF Wrote
  <2>. QED BY <1>3, <1>4, <1>12, <2>1, <2>2, <2>4 DEF Wrote, Same4
<1>5. CASE r.type = "reasoning" /\ x1.reasoning
  <2> DEFINE t == Streams!AnthropicReasoning(x7, e)
  <2>1. x7' = t /\ x3 = 0 /\ x3' = 0
    BY <1>1, <1>3, <1>5 DEF Streams!AnthropicOn, Shaped
  <2>2. Wrote(x7, t, "reasoning", p)
    BY <1>1, <1>2, <1>3, <1>5, <2>1, ReasoningWritten
  <2> HIDE DEF t
  <2>4. Reads(t)
    BY ZenonT(60), <1>3, <1>5, <2>2, SoFarGoes DEF Wrote
  <2>. QED BY <1>3, <1>5, <1>12, <2>1, <2>2, <2>4 DEF Wrote, Same4
<1>6. CASE r.type = "incomplete" \/ (r.type = "reasoning" /\ ~x1.reasoning)
  <2>1. x7' = x7 /\ x3' = x3
    BY <1>1, <1>3, <1>6 DEF Streams!AnthropicOn, Streams!AnthropicReasoning, Shaped, Streams!Terminal
  <2>2. Reads(x7)
    <3>1. \A k \in SUBSET Streams!Kinds : SaidBefore(k)' = SaidBefore(k)
      BY <1>6, SoFarGoes DEF Streams!Terminal
    <3>. QED BY <1>3, <3>1
  <2>3. (x6'.content <=> x6.content) /\ x6'.streamed = x6.streamed /\ (x6'.calls # <<>> <=> x6.calls # <<>>)
    BY <1>6, <1>12
  <2>. QED BY <1>3, <2>1, <2>2, <2>3
<1>7. CASE r.type = "call"
  <2> DEFINE t == Streams!AnthropicCall(x7, e)
  <2>1. x7' = t /\ x3 = 0 /\ x3' = c /\ c # 0 /\ e.call = Id(c)
    <3>1. c # 0
      <4>1. Len(x2) \in Nat /\ c = Len(x2) + 1
        BY <1>1, <1>7 DEF SentHeld, Shaped
      <4>. QED BY <4>1
    <3>. QED BY <1>1, <1>3, <1>7, <3>1 DEF Streams!AnthropicOn, Shaped, CallTypes
  <2>2. t \in AnthropicRecord /\ Balanced(t, c) /\ t.content /\ t.tools /\ t.streamed = x7.streamed
        /\ ~t.thinking /\ ~t.text /\ (t.stopped <=> x7.stopped)
        /\ t.usage = x7.usage /\ SameRead(x7, t)
    BY <1>2, <1>3, <2>1, CallOpened
  <2> HIDE DEF t
  <2>3. Reads(t)
    <3>1. \A k \in SUBSET Streams!Kinds : SaidBefore(k)' = SaidBefore(k)
      BY <1>7, SoFarGoes
    <3>. QED BY <1>3, <2>2, <3>1 DEF SameRead
  <2>. QED BY <1>3, <1>7, <1>12, <2>1, <2>2, <2>3
<1>8. CASE r.type = "delta"
  <2> DEFINE t == Streams!AnthropicDelta(x7, e)
  <2>1. x7' = t /\ x3 = c /\ x3' = c /\ c # 0 /\ e.call = Id(c)
    BY <1>1, <1>3, <1>8 DEF Streams!AnthropicOn, Shaped, CallTypes
  <2>2. /\ t \in AnthropicRecord /\ Balanced(t, c) /\ (t.content <=> x7.content)
        /\ t.tools <=> x7.tools
        /\ t.streamed = x7.streamed \cup {Id(c)}
        /\ t.stopped <=> x7.stopped
        /\ t.usage = x7.usage /\ ~t.thinking /\ ~t.text
        /\ \A k : Streams!Read(k, t.blocks) =
                           Streams!Read(k, x7.blocks) \o Shows(k, "call", Id(c), p)
    <3> DEFINE s == x7
    <3>1. s \in AnthropicRecord /\ c \in Nat /\ c # 0 /\ Balanced(s, c) /\ e.pieces \in Seq(Nat)
          /\ e.call = Id(c) /\ e.pieces = p
      BY <1>1, <1>2, <1>3, <2>1
    <3>2. t = Streams!AnthropicDelta(s, e)
      OBVIOUS
    <3> HIDE DEF s, c, p, t
    <3>3. ArgsAdded(s, t, c, p)
      BY <3>1, <3>2, ArgsWritten
    <3>. QED BY <3>3 DEF s, ArgsAdded
  <2> HIDE DEF t
  <2>3. Reads(t)
    BY <1>3, <1>8, <2>2, SoFarGoes
  <2>. QED BY <1>3, <1>8, <1>12, <2>1, <2>2, <2>3
<1>9. CASE r.type = "done"
  <2> DEFINE t == Streams!AnthropicDone(x7, e)
  <2>1. x7' = t /\ x3 = c /\ x3' = 0 /\ c # 0 /\ e.call = Id(c)
    BY <1>1, <1>3, <1>9 DEF Streams!AnthropicOn, Shaped, CallTypes
  <2>2. /\ t \in AnthropicRecord /\ Balanced(t, 0) /\ SameMarks(x7, t) /\ ~t.thinking /\ ~t.text
        /\ Id(c) \in x7.streamed => SameRead(x7, t)
        /\ Id(c) \notin x7.streamed =>
              \A k : Streams!Read(k, t.blocks) =
                       Streams!Read(k, x7.blocks) \o Shows(k, "call", Id(c), p)
    <3> DEFINE s == x7
    <3>1. s \in AnthropicRecord /\ c \in Nat /\ c # 0 /\ Balanced(s, c) /\ e.pieces \in Seq(Nat)
          /\ e.call = Id(c) /\ e.pieces = p
      BY <1>1, <1>2, <1>3, <2>1
    <3> HIDE DEF s, c, p
    <3>. QED BY <3>1, CallEnded DEF s
  <2> HIDE DEF t
  <2>3. Reads(t)
    <3>1. CASE Id(c) \in x7.streamed
      <4>1. \A k \in SUBSET Streams!Kinds : SaidBefore(k)' = SaidBefore(k)
        BY <1>3, <1>9, <1>12, <3>1, SoFarGoes
      <4>. QED BY <1>3, <2>2, <3>1, <4>1 DEF SameRead
    <3>2. CASE Id(c) \notin x7.streamed
      <4>1. \A k \in SUBSET Streams!Kinds : SaidBefore(k)' = SaidBefore(k) \o Shows(k, "call", Id(c), p)
        BY <1>3, <1>9, <1>12, <3>2, SoFarGoes
      <4>. QED BY <1>3, <2>2, <3>2, <4>1
    <3>. QED BY <3>1, <3>2
  <2>. QED BY <1>3, <1>9, <1>12, <2>1, <2>2, <2>3 DEF SameMarks
<1>10. r.type \in {"text", "reasoning", "call", "delta", "done", "completed", "incomplete", "failed"}
  BY <1>1, EventParts DEF Streams!Terminal
<1>. QED BY <1>4, <1>5, <1>6, <1>7, <1>8, <1>9, <1>10

\* A step that sends the last event of a whole answer.
LEMMA EndSends ==
    ASSUME SentHeld, NEW r, NEW e, Sends(r, e), r.type = "completed"
    PROVE  /\ Gains(r) /\ x1' = x1 /\ x4' = x4 /\ x4 = "no" /\ x3 = 0 /\ x3' = 0
           /\ e.type = "completed" /\ e.usage = r.usage
           /\ \A t \in {"text", "reasoning"} : Streams!SentPieces(t)' = Streams!SentPieces(t)
           /\ Streams!SentCalls' = Streams!SentCalls
           /\ \A k \in SUBSET Streams!Kinds : Streams!Content(k)' = Streams!Content(k)
           /\ Streams!Nothing' <=> Streams!Nothing
           /\ Streams!Shown' = Streams!Shown
<1>1. /\ Gains(r) /\ x1' = x1 /\ x4' = x4 /\ x4 = "no" /\ x3 = 0 /\ x3' = 0
      /\ e.type = "completed" /\ e.usage = r.usage
  BY SentGoesOn DEF Sends, Shaped, ExtractedFrom, Streams!Terminal
<1>2. /\ \A t \in {"text", "reasoning"} : Streams!SentPieces(t)' = Streams!SentPieces(t)
      /\ Streams!SentCalls' = Streams!SentCalls
      /\ \A k \in SUBSET Streams!Kinds : Streams!Content(k)' = Streams!Content(k)
  BY <1>1, EndAddsNothing DEF Streams!Terminal
<1>3. (Streams!Nothing' <=> Streams!Nothing) /\ Streams!Shown' = Streams!Shown
  BY <1>1, <1>2 DEF Streams!Nothing, Streams!Shown
<1>. QED BY <1>1, <1>2, <1>3

LEMMA AnthropicCompletes ==
    ASSUME SentHeld, OpenAISending, AnthropicSending, NEW r, NEW e, Sends(r, e), r.type = "completed"
    PROVE  AnthropicWhole' /\ (r.usage = "none" => x7'.usage = 0) /\ (r.usage # "none" => x7'.usage = 1)
<1>1. /\ Gains(r) /\ x1' = x1 /\ x4' = x4 /\ x4 = "no" /\ x3 = 0 /\ x3' = 0
      /\ e.type = "completed" /\ e.usage = r.usage
      /\ Streams!SentCalls' = Streams!SentCalls
      /\ \A k \in SUBSET Streams!Kinds : Streams!Content(k)' = Streams!Content(k)
      /\ Streams!Nothing' <=> Streams!Nothing
      /\ Streams!Shown' = Streams!Shown
      /\ x7' = Streams!AnthropicOn(x7, e)
  BY EndSends DEF Sends
<1>2. /\ x7 \in AnthropicRecord /\ x7.usage = 0 /\ ~x7.stopped /\ Balanced(x7, 0)
      /\ x7.content <=> ~Streams!Nothing
      /\ x7.thinking \/ x7.text => x7.content
      /\ x7.tools <=> Streams!SentCalls # <<>>
      /\ \A k \in SUBSET Streams!Kinds : Streams!Read(k, x7.blocks) = SaidBefore(k)
  BY <1>1, NothingIs DEF AnthropicSending
<1>3. \A k \in SUBSET Streams!Kinds : SaidBefore(k) = Streams!Content(k \cap Streams!Shown)
  <2> SUFFICES ASSUME NEW k \in SUBSET Streams!Kinds
               PROVE  SaidBefore(k) = Streams!Content(k \cap Streams!Shown)
    OBVIOUS
  <2>1. OpenPieces(k, x3, Streams!PiecesOfCall(x3)) = <<>>
    BY <1>1 DEF OpenPieces
  <2>2. Streams!Content(k \cap Streams!Shown) \in Seq(PieceRead)
    BY CallSequences
  <2>. QED BY <2>1, <2>2, NoMore DEF SaidBefore
<1>4. \A k \in SUBSET Streams!Kinds : k \cap Streams!Shown \in SUBSET Streams!Kinds
  OBVIOUS
<1> DEFINE n == IF r.usage = "none" THEN 0 ELSE 1
           t == [x7 EXCEPT !.usage = n]
<1>5. x7' = IF x7.content THEN t ELSE Streams!BlockDelta(Streams!EnsureText(t), Streams!MadeUp)
  <2>1. (IF e.usage = "none" THEN x7.usage ELSE x7.usage + 1) = n
    BY <1>1, <1>2
  <2>2. x7' = Streams!AnthropicCompleted(x7, e)
    BY <1>1, <1>2 DEF Streams!AnthropicOn
  <2>. QED BY <2>1, <2>2 DEF Streams!AnthropicCompleted
<1>6. n \in Nat
  OBVIOUS
<1> HIDE DEF n
<1>7. /\ t \in AnthropicRecord /\ t.usage = n /\ (t.tools <=> x7.tools) /\ (t.stopped <=> x7.stopped)
      /\ (t.thinking <=> x7.thinking) /\ (t.text <=> x7.text) /\ SameBlocks(x7, t)
  BY <1>2, <1>6, SetUsage
<1> HIDE DEF t
<1>8. Balanced(t, 0) /\ SameRead(x7, t)
  BY <1>2, <1>7, BalanceStays, BlocksStay
<1>9. /\ x7' \in AnthropicRecord /\ x7'.usage = n /\ Balanced(x7', 0) /\ ~x7'.stopped
      /\ x7'.tools <=> x7.tools
      /\ x7.content => SameRead(x7, x7')
  <2>1. CASE x7.content
    BY <1>2, <1>5, <1>7, <1>8, <2>1
  <2>2. CASE ~x7.content
    <3> DEFINE u == Streams!BlockDelta(Streams!EnsureText(t), Streams!MadeUp)
    <3>1. ~t.thinking /\ Streams!MadeUp \in Seq(Nat)
      BY <1>2, <1>7, <2>2 DEF Streams!MadeUp
    <3>2. u \in AnthropicRecord /\ Balanced(u, 0) /\ Stays(t, u)
      BY <1>7, <1>8, <3>1, TextFilled
    <3>3. x7' = u
      BY <1>5, <2>2
    <3> HIDE DEF u
    <3>. QED BY <1>2, <1>7, <2>2, <3>2, <3>3 DEF Stays
  <2>. QED BY <2>1, <2>2
<1>10. ~x7'.nonsense
  BY <1>9, BalancedMakesSense
<1>11. ~Streams!Nothing => \A k \in SUBSET Streams!Kinds :
          Streams!Read(k, x7'.blocks) = Streams!Content(k \cap Streams!Shown)
  BY <1>2, <1>3, <1>9 DEF SameRead
<1>12. AnthropicWhole'
  BY <1>1, <1>2, <1>4, <1>9, <1>10, <1>11 DEF AnthropicWhole
<1>. QED BY <1>9, <1>12 DEF n

LEMMA AnthropicFails ==
    ASSUME SentHeld, AnthropicSending, NEW r, NEW e, Sends(r, e), r.type = "failed"
    PROVE  AnthropicFailed'
<1>1. e.type = "failed" /\ x3' = x3 /\ x4 = "no" /\ x7' = Streams!AnthropicOn(x7, e)
  BY DEF Sends, Shaped, ExtractedFrom, Streams!Terminal
<1>2. x7 \in AnthropicRecord /\ ~x7.stopped /\ Balanced(x7, x3)
  BY <1>1 DEF AnthropicSending
<1>3. x7' = Streams!AnthropicError(x7)
  BY <1>1, <1>2 DEF Streams!AnthropicOn
<1>4. CASE x3 = 0
  BY <1>2, <1>3, <1>4, Apologised DEF AnthropicFailed, AllClosed
<1>5. CASE x3 # 0
  BY <1>1, <1>5 DEF AnthropicFailed
<1>. QED BY <1>4, <1>5

-----------------------------------------------------------------------------
(* The Gemini format *)

LEMMA GeminiFields ==
    ASSUME NEW s \in GeminiRecord
    PROVE  /\ s.parts \in Seq(PartRecord) /\ s.buffer \in Seq(Nat) /\ s.content \in BOOLEAN
           /\ s.finish \in {"none", "STOP", "OTHER"} /\ s.usage \in Nat
  BY DEF GeminiRecord

LEMMA GeminiSets ==
    ASSUME NEW s \in GeminiRecord
    PROVE  /\ \A ps \in Seq(PartRecord) : LET t == [s EXCEPT !.parts = ps, !.content = TRUE]
              IN  t \in GeminiRecord /\ t.parts = ps /\ t.content /\ t.buffer = s.buffer
                  /\ t.finish = s.finish /\ t.usage = s.usage
           /\ \A b \in Seq(Nat) : LET t == [s EXCEPT !.buffer = b, !.content = TRUE]
              IN  t \in GeminiRecord /\ t.parts = s.parts /\ t.content /\ t.buffer = b
                  /\ t.finish = s.finish /\ t.usage = s.usage
<1>1. ASSUME NEW ps \in Seq(PartRecord)
      PROVE  LET t == [s EXCEPT !.parts = ps, !.content = TRUE]
             IN  t \in GeminiRecord /\ t.parts = ps /\ t.content /\ t.buffer = s.buffer
                 /\ t.finish = s.finish /\ t.usage = s.usage
  BY DEF GeminiRecord
<1>2. ASSUME NEW b \in Seq(Nat)
      PROVE  LET t == [s EXCEPT !.buffer = b, !.content = TRUE]
             IN  t \in GeminiRecord /\ t.parts = s.parts /\ t.content /\ t.buffer = b
                 /\ t.finish = s.finish /\ t.usage = s.usage
  BY DEF GeminiRecord
<1>. QED BY <1>1, <1>2

\* Something has been said once a text or a call has been sent.
LEMMA SpokenGoes ==
    ASSUME SentHeld, NEW r, NEW e, Sends(r, e)
    PROVE  Streams!Content(Streams!Spoken)' # <<>> <=>
              Streams!Content(Streams!Spoken) # <<>> \/ r.type \in {"text", "done"}
<1> DEFINE S == Streams!Spoken
           C == Streams!Content(S)
<1>1. Gains(r) /\ r \in SentEvent /\ Shaped(r)
  BY SentGoesOn DEF Sends
<1>2. r.call \in Nat /\ r.pieces \in Seq(Nat) /\ Id(r.call) \in CallId /\ Id(0) \in CallId
      /\ "text" \in BlockKinds /\ "call" \in BlockKinds
  BY <1>1, EventParts, IdIs, KindsAre
<1>3. ContentGains(r, S) /\ "text" \in S /\ "call" \in S /\ "reasoning" \notin S
  BY <1>1, KindsAre DEF Gains
<1> HIDE DEF S
<1>4. C \in Seq(PieceRead)
  BY <1>3 DEF ContentGains
<1>5. CASE r.type = "text"
  <2>1. C' = C \o Marked("text", Id(0), r.pieces) /\ r.pieces # <<>>
    BY <1>1, <1>3, <1>5 DEF ContentGains, Shaped
  <2>2. Marked("text", Id(0), r.pieces) # <<>> /\ Marked("text", Id(0), r.pieces) \in Seq(PieceRead)
    BY <1>2, <2>1, MarkedIsEmpty, MarkedTyped
  <2>. QED BY <1>4, <1>5, <2>1, <2>2, JoinEmpty DEF S
<1>6. CASE r.type = "done"
  <2>1. C' = C \o Marked("call", Id(r.call), r.pieces) /\ r.pieces # <<>>
    BY <1>1, <1>3, <1>6 DEF ContentGains, Shaped
  <2>2. Marked("call", Id(r.call), r.pieces) # <<>> /\ Marked("call", Id(r.call), r.pieces) \in Seq(PieceRead)
    BY <1>2, <2>1, MarkedIsEmpty, MarkedTyped
  <2>. QED BY <1>4, <1>6, <2>1, <2>2, JoinEmpty DEF S
<1>7. CASE r.type \notin {"text", "done"}
  <2>1. C' = C
    BY <1>3, <1>7 DEF ContentGains
  <2>. QED BY <1>7, <2>1 DEF S
<1>. QED BY <1>5, <1>6, <1>7

GeminiKinds == IF x1.tuple THEN {"call"} ELSE Streams!Spoken

LEMMA GeminiKindsAre ==
    /\ "call" \in GeminiKinds /\ "reasoning" \notin GeminiKinds
    /\ "text" \in GeminiKinds <=> ~x1.tuple
    /\ \A k \in SUBSET Streams!Kinds : k \cap GeminiKinds \in SUBSET Streams!Kinds
  BY KindsAre DEF GeminiKinds

LEMMA GeminiGoesOn ==
    ASSUME SentHeld, GeminiSending, NEW r, NEW e, Sends(r, e), r.type \notin {"completed", "failed"}
    PROVE  GeminiSending'
<1> DEFINE p == r.pieces
           c == r.call
           T == Streams!SentPieces("text")
           Reads(t) == \A k \in SUBSET Streams!Kinds :
                          Streams!Read(k, t.parts) = Streams!Content(k \cap GeminiKinds)'
           Reached(t) == /\ t \in GeminiRecord
                         /\ t.buffer = IF x1.tuple THEN T' ELSE <<>>
                         /\ t.content <=> Streams!Content(Streams!Spoken)' # <<>>
                         /\ t.finish = "none" /\ t.usage = 0
                         /\ Reads(t)
<1>1. /\ r \in SentEvent /\ Gains(r)
      /\ x1' = x1 /\ x8' = Streams!GeminiOn(x8, e)
      /\ e.type = r.type /\ e.pieces = p /\ (r.type = "done" => e.call = Id(c))
  BY SentGoesOn DEF Sends, ExtractedFrom, CallTypes
<1>2. p \in Seq(Nat) /\ c \in Nat /\ T \in Seq(Nat) /\ Id(c) \in CallId /\ Id(0) \in CallId
      /\ "text" \in BlockKinds /\ "call" \in BlockKinds /\ Streams!NoCall = Id(0)
  BY <1>1, CallSequences, EventParts, IdIs, KindsAre DEF Streams!NoCall, Id
<1>3. /\ x8 \in GeminiRecord
      /\ x8.buffer = IF x1.tuple THEN T ELSE <<>>
      /\ x8.content <=> Streams!Content(Streams!Spoken) # <<>>
      /\ x8.finish = "none" /\ x8.usage = 0
      /\ \A k \in SUBSET Streams!Kinds : Streams!Read(k, x8.parts) = Streams!Content(k \cap GeminiKinds)
      /\ x8.parts \in Seq(PartRecord)
  BY GeminiFields DEF GeminiSending, GeminiKinds
<1>4. SUFFICES Reached(x8')
  <2>1. GeminiKinds' = GeminiKinds
    BY <1>1 DEF GeminiKinds, Streams!Spoken
  <2>. QED BY <1>1, <2>1 DEF GeminiSending, GeminiKinds
<1>5. /\ T' = IF r.type = "text" THEN T \o p ELSE T
      /\ Streams!Content(Streams!Spoken)' # <<>> <=>
           Streams!Content(Streams!Spoken) # <<>> \/ r.type \in {"text", "done"}
  BY <1>1, SpokenGoes DEF Gains
<1>6. ASSUME NEW k \in SUBSET Streams!Kinds
      PROVE  /\ r.type \notin {"text", "reasoning", "done"} =>
                   Streams!Content(k \cap GeminiKinds)' = Streams!Content(k \cap GeminiKinds)
             /\ r.type = "reasoning" => Streams!Content(k \cap GeminiKinds)' = Streams!Content(k \cap GeminiKinds)
             /\ r.type = "text" => Streams!Content(k \cap GeminiKinds)' =
                   IF x1.tuple THEN Streams!Content(k \cap GeminiKinds)
                               ELSE Streams!Content(k \cap GeminiKinds) \o Shows(k, "text", Id(0), p)
             /\ r.type = "done" => Streams!Content(k \cap GeminiKinds)' =
                   Streams!Content(k \cap GeminiKinds) \o Shows(k, "call", Id(c), p)
  <2> DEFINE K == k \cap GeminiKinds
  <2>1. K \in SUBSET Streams!Kinds /\ "reasoning" \notin K
        /\ ("call" \in k <=> "call" \in K)
        /\ (x1.tuple => "text" \notin K) /\ (~x1.tuple => ("text" \in k <=> "text" \in K))
    BY GeminiKindsAre
  <2>2. ContentGains(r, K)
    BY <1>1, <2>1 DEF Gains
  <2>3. GeminiKinds' = GeminiKinds
    BY <1>1 DEF GeminiKinds, Streams!Spoken
  <2>4. /\ r.type \in {"text", "reasoning"} => r.type = "text" \/ r.type \notin K
        /\ Streams!Content(K) \in Seq(PieceRead)
    BY <2>1, <2>2 DEF ContentGains
  <2>. QED BY <2>1, <2>2, <2>3, <2>4, ContentShows
<1> HIDE DEF p, c, T
<1>7. CASE r.type = "text" /\ x1.tuple
  <2> DEFINE b == x8.buffer \o e.pieces
             t == [x8 EXCEPT !.buffer = b, !.content = TRUE]
  <2>1. x8' = t
    BY <1>1, <1>3, <1>7 DEF Streams!GeminiOn, Streams!GeminiText
  <2>2. b = T' /\ b \in Seq(Nat)
    BY <1>1, <1>2, <1>3, <1>5, <1>7
  <2> HIDE DEF b
  <2>3. t \in GeminiRecord /\ t.parts = x8.parts /\ t.content /\ t.buffer = b
        /\ t.finish = x8.finish /\ t.usage = x8.usage
    BY <1>3, <2>2, GeminiSets
  <2> HIDE DEF t
  <2>4. Reads(t)
    BY <1>3, <1>6, <1>7, <2>3
  <2>. QED BY <1>3, <1>5, <1>7, <2>1, <2>2, <2>3, <2>4
<1>8. ASSUME NEW kind \in BlockKinds, NEW o \in CallId,
             x8' = [x8 EXCEPT !.parts = @ \o Streams!Part(kind, o, p), !.content = TRUE],
             \A k \in SUBSET Streams!Kinds : Streams!Content(k \cap GeminiKinds)' =
                   Streams!Content(k \cap GeminiKinds) \o Shows(k, kind, o, p),
             r.type \in {"text", "done"}, x1.tuple => r.type = "done"
      PROVE  Reached(x8')
  <2> DEFINE ps == x8.parts \o Streams!Part(kind, o, p)
             t == [x8 EXCEPT !.parts = ps, !.content = TRUE]
  <2>1. x8' = t
    BY <1>8
  <2>2. ps \in Seq(PartRecord)
        /\ \A k : Streams!Read(k, ps) = Streams!Read(k, x8.parts) \o Shows(k, kind, o, p)
    <3>1. x8.parts \in Seq(PartRecord) /\ p \in Seq(Nat)
      BY <1>2, <1>3
    <3>2. ASSUME NEW k
          PROVE  /\ ps \in Seq(PartRecord)
                 /\ Streams!Read(k, ps) = Streams!Read(k, x8.parts) \o Shows(k, kind, o, p)
      BY <3>1, PartsAppend
    <3>. QED BY <3>2
  <2> HIDE DEF ps
  <2>3. t \in GeminiRecord /\ t.parts = ps /\ t.content /\ t.buffer = x8.buffer
        /\ t.finish = x8.finish /\ t.usage = x8.usage
    BY <1>3, <2>2, GeminiSets
  <2> HIDE DEF t
  <2>4. Reads(t)
    BY <1>3, <1>8, <2>2, <2>3
  <2>5. t.buffer = IF x1.tuple THEN T' ELSE <<>>
    BY <1>3, <1>5, <1>8, <2>3
  <2>6. t.content <=> Streams!Content(Streams!Spoken)' # <<>>
    BY <1>5, <1>8, <2>3
  <2>. QED BY <1>3, <2>1, <2>3, <2>4, <2>5, <2>6
<1>9. CASE r.type = "text" /\ ~x1.tuple
  <2>1. x8' = [x8 EXCEPT !.parts = @ \o Streams!Part("text", Id(0), p), !.content = TRUE]
    BY <1>1, <1>2, <1>3, <1>9 DEF Streams!GeminiOn, Streams!GeminiText
  <2>2. \A k \in SUBSET Streams!Kinds : Streams!Content(k \cap GeminiKinds)' =
                   Streams!Content(k \cap GeminiKinds) \o Shows(k, "text", Id(0), p)
    BY <1>6, <1>9
  <2>. QED BY <1>2, <1>8, <1>9, <2>1, <2>2
<1>10. CASE r.type = "done"
  <2>1. x8' = [x8 EXCEPT !.parts = @ \o Streams!Part("call", Id(c), p), !.content = TRUE]
    BY <1>1, <1>2, <1>3, <1>10 DEF Streams!GeminiOn, Streams!GeminiDone
  <2>2. \A k \in SUBSET Streams!Kinds : Streams!Content(k \cap GeminiKinds)' =
                   Streams!Content(k \cap GeminiKinds) \o Shows(k, "call", Id(c), p)
    BY <1>6, <1>10
  <2>. QED BY <1>2, <1>8, <1>10, <2>1, <2>2
<1>11. CASE r.type \in {"reasoning", "call", "delta", "incomplete"}
  <2>1. x8' = x8
    BY <1>1, <1>3, <1>11 DEF Streams!GeminiOn
  <2>2. Reads(x8)
    BY <1>3, <1>6, <1>11
  <2>. QED BY <1>3, <1>5, <1>11, <2>1, <2>2
<1>12. r.type \in {"text", "reasoning", "call", "delta", "done", "completed", "incomplete", "failed"}
  BY <1>1, EventParts DEF Streams!Terminal
<1>. QED BY <1>7, <1>9, <1>10, <1>11, <1>12

\* The held back text is sent as one part, unless there is none.
GeminiFlushed(s) ==
    IF s.buffer = <<>> THEN s.parts ELSE s.parts \o Streams!Part("text", Id(0), s.buffer)

LEMMA FlushedReads ==
    ASSUME NEW s \in GeminiRecord, NEW k
    PROVE  /\ GeminiFlushed(s) \in Seq(PartRecord)
           /\ Streams!Read(k, GeminiFlushed(s)) =
                 Streams!Read(k, s.parts) \o Shows(k, "text", Id(0), s.buffer)
           /\ Streams!Read(k, s.parts) \in Seq(PieceRead)
<1>1. s.parts \in Seq(PartRecord) /\ s.buffer \in Seq(Nat) /\ "text" \in BlockKinds /\ Id(0) \in CallId
  BY GeminiFields, KindsAre, IdIs
<1>2. /\ s.parts \o Streams!Part("text", Id(0), s.buffer) \in Seq(PartRecord)
      /\ Streams!Read(k, s.parts) \in Seq(PieceRead)
      /\ Streams!Read(k, s.parts \o Streams!Part("text", Id(0), s.buffer)) =
            Streams!Read(k, s.parts) \o Shows(k, "text", Id(0), s.buffer)
  BY <1>1, PartsAppend
<1>3. CASE s.buffer = <<>>
  <2>1. Shows(k, "text", Id(0), s.buffer) = <<>>
    BY <1>3, MarkedEmpty DEF Shows
  <2>2. Streams!Read(k, s.parts) \o <<>> = Streams!Read(k, s.parts)
    BY <1>2, NoMore
  <2>. QED BY <1>1, <1>2, <1>3, <2>1, <2>2 DEF GeminiFlushed
<1>4. CASE s.buffer # <<>>
  BY <1>2, <1>4 DEF GeminiFlushed
<1>. QED BY <1>3, <1>4

\* With tuples held back, the text is what was held back and the rest is calls.
LEMMA HeldBackReads ==
    ASSUME SentHeld, SaidTwice, GeminiSending, NEW k \in Streams!Spoken
    PROVE  Streams!Read({k}, GeminiFlushed(x8)) = Streams!Content({k})
<1> DEFINE T == Streams!SentPieces("text")
<1>1. /\ x8 \in GeminiRecord
      /\ x8.buffer = IF x1.tuple THEN T ELSE <<>>
      /\ \A j \in SUBSET Streams!Kinds : Streams!Read(j, x8.parts) = Streams!Content(j \cap GeminiKinds)
  BY DEF GeminiSending, GeminiKinds
<1>2. T \in Seq(Nat) /\ Streams!Content({k}) \in Seq(PieceRead) /\ <<>> \in Seq(Nat)
  BY CallSequences, EmptyJoin
<1>3. /\ Streams!Read({k}, GeminiFlushed(x8)) =
            Streams!Read({k}, x8.parts) \o Shows({k}, "text", Id(0), x8.buffer)
      /\ Streams!Read({k}, x8.parts) \in Seq(PieceRead)
  BY <1>1, FlushedReads
<1>4. {k} \in SUBSET Streams!Kinds /\ k \in {"text", "call"}
  BY KindsAre
<1>5. Streams!Read({k}, x8.parts) = Streams!Content({k} \cap GeminiKinds)
  BY <1>1, <1>4
<1>6. CASE k \in GeminiKinds
  <2>1. {k} \cap GeminiKinds = {k}
    BY <1>6
  <2>2. Shows({k}, "text", Id(0), x8.buffer) = <<>>
    <3>1. k # "text" \/ ~x1.tuple
      BY <1>6, GeminiKindsAre
    <3>2. k # "text" \/ x8.buffer = <<>>
      BY <1>1, <3>1
    <3>. QED BY <3>2, MarkedEmpty DEF Shows
  <2>3. Streams!Content({k}) \o <<>> = Streams!Content({k})
    BY <1>2, NoMore
  <2>. QED BY <1>3, <1>5, <2>1, <2>2, <2>3
<1>7. CASE k \notin GeminiKinds
  <2>1. k = "text" /\ x1.tuple
    BY <1>4, <1>7, GeminiKindsAre
  <2>2. {k} \cap GeminiKinds = {}
    BY <1>7
  <2>3. Streams!Content({"text"}) = Marked("text", Id(0), T) /\ Streams!Content({}) = <<>>
    BY DEF SaidTwice
  <2>4. Shows({k}, "text", Id(0), x8.buffer) = Streams!Content({k})
    BY <1>1, <2>1, <2>3 DEF Shows
  <2>5. <<>> \o Streams!Content({k}) = Streams!Content({k})
    BY <1>2, EmptyJoin
  <2>. QED BY <1>3, <1>5, <2>2, <2>3, <2>4, <2>5
<1>. QED BY <1>6, <1>7

LEMMA GeminiCompletes ==
    ASSUME SentHeld, SaidTwice, GeminiSending, NEW r, NEW e, Sends(r, e), r.type = "completed"
    PROVE  GeminiWhole' /\ (r.usage = "none" => x8'.usage = 0) /\ (r.usage # "none" => x8'.usage = 1)
<1>1. /\ x1' = x1 /\ e.type = "completed" /\ e.usage = r.usage
      /\ \A k \in SUBSET Streams!Kinds : Streams!Content(k)' = Streams!Content(k)
      /\ x8' = Streams!GeminiOn(x8, e)
  BY EndSends DEF Sends
<1>2. /\ x8 \in GeminiRecord
      /\ x8.buffer = IF x1.tuple THEN Streams!SentPieces("text") ELSE <<>>
      /\ x8.content <=> Streams!Content(Streams!Spoken) # <<>>
      /\ x8.finish = "none" /\ x8.usage = 0
      /\ \A k \in SUBSET Streams!Kinds : Streams!Read(k, x8.parts) = Streams!Content(k \cap GeminiKinds)
  BY DEF GeminiSending, GeminiKinds
<1> DEFINE n == IF r.usage = "none" THEN 0 ELSE 1
           q == IF x8.content THEN GeminiFlushed(x8) ELSE Streams!Part("text", Id(0), Streams!MadeUp)
           t == [x8 EXCEPT !.parts = q, !.buffer = <<>>, !.finish = "STOP", !.usage = n]
<1>3. x8' = t
  <2>1. x8' = Streams!GeminiCompleted(x8, e)
    BY <1>1, <1>2 DEF Streams!GeminiOn
  <2>2. (IF e.usage = "none" THEN x8.usage ELSE x8.usage + 1) = n
    BY <1>1, <1>2
  <2>3. Streams!NoCall = Id(0)
    BY DEF Streams!NoCall, Id
  <2>. QED BY <2>1, <2>2, <2>3 DEF Streams!GeminiCompleted, GeminiFlushed
<1> HIDE DEF n, q
<1>4. t.parts = q /\ t.finish = "STOP" /\ t.usage = n
  BY <1>2 DEF GeminiRecord
<1> HIDE DEF t
<1>5. \A k \in SUBSET Streams!Kinds : k \cap Streams!Spoken \in SUBSET Streams!Kinds
  OBVIOUS
<1>6. (Streams!Content(Streams!Spoken) # <<>>)' <=> Streams!Content(Streams!Spoken) # <<>>
  <2>1. Streams!Spoken \in SUBSET Streams!Kinds
    BY KindsAre
  <2>2. Streams!Content(Streams!Spoken)' = Streams!Content(Streams!Spoken)
    BY <1>1, <2>1
  <2>. QED BY <2>2
<1>7. ASSUME Streams!Content(Streams!Spoken) # <<>>
      PROVE  /\ ~x1.tuple => \A k \in SUBSET Streams!Kinds :
                   Streams!Read(k, q) = Streams!Content(k \cap Streams!Spoken)
             /\ \A k \in Streams!Spoken : Streams!Read({k}, q) = Streams!Content({k})
  <2>1. q = GeminiFlushed(x8)
    BY <1>2, <1>7 DEF q
  <2>2. ~x1.tuple => q = x8.parts /\ GeminiKinds = Streams!Spoken
    BY <1>2, <2>1 DEF GeminiFlushed, GeminiKinds
  <2>. QED BY <1>2, <2>1, <2>2, HeldBackReads
<1>8. \A k \in Streams!Spoken : {k} \in SUBSET Streams!Kinds
  BY KindsAre
<1>9. GeminiWhole'
  <2>1. x8'.finish = "STOP" /\ x8'.parts = q
    BY <1>3, <1>4
  <2>2. (Streams!Content(Streams!Spoken) # <<>>)' =>
          (~x1.tuple => \A k \in SUBSET Streams!Kinds :
               Streams!Read(k, x8'.parts) = Streams!Content(k \cap Streams!Spoken)')
    BY <1>1, <1>5, <1>6, <1>7, <2>1
  <2>3. (Streams!Content(Streams!Spoken) # <<>>)' =>
          \A k \in Streams!Spoken : Streams!Read({k}, x8'.parts) = Streams!Content({k})'
    BY <1>1, <1>6, <1>7, <1>8, <2>1
  <2>. QED BY <1>1, <2>1, <2>2, <2>3 DEF GeminiWhole
<1>. QED BY <1>3, <1>4, <1>9 DEF n

-----------------------------------------------------------------------------
(* The responses route, and collecting *)

LEMMA CodexSets ==
    ASSUME NEW s \in CodexRecord
    PROVE  /\ s.text \in Seq(Nat) /\ s.buffer \in Seq(Nat) /\ s.others \in Seq(SentEvent) /\ s.usage \in Nat
           /\ \A b \in Seq(Nat) : LET t == [s EXCEPT !.buffer = b]
              IN  t \in CodexRecord /\ t.buffer = b /\ t.text = s.text /\ t.usage = s.usage
           /\ \A b \in Seq(Nat) : LET t == [s EXCEPT !.text = b]
              IN  t \in CodexRecord /\ t.text = b /\ t.buffer = s.buffer /\ t.usage = s.usage
           /\ \A os \in Seq(SentEvent) : LET t == [s EXCEPT !.others = os]
              IN  t \in CodexRecord /\ t.text = s.text /\ t.buffer = s.buffer /\ t.usage = s.usage
<1>1. s.text \in Seq(Nat) /\ s.buffer \in Seq(Nat) /\ s.others \in Seq(SentEvent) /\ s.usage \in Nat
  BY DEF CodexRecord
<1>2. ASSUME NEW b \in Seq(Nat)
      PROVE  LET t == [s EXCEPT !.buffer = b]
             IN  t \in CodexRecord /\ t.buffer = b /\ t.text = s.text /\ t.usage = s.usage
  BY DEF CodexRecord
<1>3. ASSUME NEW b \in Seq(Nat)
      PROVE  LET t == [s EXCEPT !.text = b]
             IN  t \in CodexRecord /\ t.text = b /\ t.buffer = s.buffer /\ t.usage = s.usage
  BY DEF CodexRecord
<1>4. ASSUME NEW os \in Seq(SentEvent)
      PROVE  LET t == [s EXCEPT !.others = os]
             IN  t \in CodexRecord /\ t.text = s.text /\ t.buffer = s.buffer /\ t.usage = s.usage
  BY DEF CodexRecord
<1>. QED BY <1>1, <1>2, <1>3, <1>4

LEMMA CodexGoesOn ==
    ASSUME SentHeld, CodexSending, NEW r, NEW e, Sends(r, e), r.type \notin {"completed", "failed"}
    PROVE  CodexSending'
<1> DEFINE T == Streams!SentPieces("text")
           p == r.pieces
<1>1. /\ r \in SentEvent /\ Gains(r) /\ x1' = x1 /\ x9' = Streams!CodexOn(x9, r) /\ p \in Seq(Nat)
  BY SentGoesOn, EventParts DEF Sends
<1>2. /\ x9 \in CodexRecord /\ x9.usage = 0 /\ T \in Seq(Nat)
      /\ IF x1.tuple THEN x9.text = <<>> /\ x9.buffer = T ELSE x9.text = T /\ x9.buffer = <<>>
  BY CallSequences DEF CodexSending
<1>3. T' = IF r.type = "text" THEN T \o p ELSE T
  BY <1>1 DEF Gains
<1> HIDE DEF T, p
<1>4. T \o p \in Seq(Nat)
  BY <1>1, <1>2
<1>5. CASE r.type = "text" /\ x1.tuple
  <2>1. x9' = [x9 EXCEPT !.buffer = T \o p]
    BY <1>1, <1>2, <1>5 DEF Streams!CodexOn, p
  <2> DEFINE b == T \o p
             t == [x9 EXCEPT !.buffer = b]
  <2> HIDE DEF b
  <2>2. t \in CodexRecord /\ t.buffer = b /\ t.text = x9.text /\ t.usage = x9.usage
    BY <1>2, <1>4, CodexSets DEF b
  <2>3. x9' = t /\ b = T'
    BY <1>3, <1>5, <2>1 DEF b
  <2> HIDE DEF t
  <2>. QED BY <1>1, <1>2, <1>5, <2>2, <2>3 DEF CodexSending, T
<1>6. CASE r.type = "text" /\ ~x1.tuple
  <2>1. x9' = [x9 EXCEPT !.text = T \o p]
    BY <1>1, <1>2, <1>6 DEF Streams!CodexOn, p
  <2> DEFINE b == T \o p
             t == [x9 EXCEPT !.text = b]
  <2> HIDE DEF b
  <2>2. t \in CodexRecord /\ t.text = b /\ t.buffer = x9.buffer /\ t.usage = x9.usage
    BY <1>2, <1>4, CodexSets DEF b
  <2>3. x9' = t /\ b = T'
    BY <1>3, <1>6, <2>1 DEF b
  <2> HIDE DEF t
  <2>. QED BY <1>1, <1>2, <1>6, <2>2, <2>3 DEF CodexSending, T
<1>7. CASE r.type # "text"
  <2> DEFINE os == Append(x9.others, r)
  <2>1. x9' = [x9 EXCEPT !.others = os]
    BY <1>1, <1>7 DEF Streams!CodexOn
  <2>2. os \in Seq(SentEvent)
    <3>1. x9.others \in Seq(SentEvent)
      BY <1>2, CodexSets
    <3>. QED BY <1>1, <3>1, AppendIs
  <2> HIDE DEF os
  <2>. QED BY <1>1, <1>2, <1>3, <1>7, <2>1, <2>2, CodexSets DEF CodexSending, T
<1>. QED BY <1>5, <1>6, <1>7

LEMMA CodexCompletes ==
    ASSUME SentHeld, CodexSending, NEW r, NEW e, Sends(r, e), r.type = "completed"
    PROVE  CodexWhole' /\ (r.usage = "none" => x9'.usage = 0) /\ (r.usage # "none" => x9'.usage = 1)
<1> DEFINE T == Streams!SentPieces("text")
           q == Streams!Text(x9)
           os == Append(x9.others, r)
           n == IF r.usage = "none" THEN 0 ELSE 1
           t == [x9 EXCEPT !.text = q, !.buffer = <<>>, !.others = os, !.usage = n]
<1>1. /\ r \in SentEvent /\ x9' = Streams!CodexOn(x9, r) /\ T' = T
  BY EndSends, SentGoesOn DEF Sends
<1>2. /\ x9 \in CodexRecord /\ x9.usage = 0 /\ T \in Seq(Nat) /\ T \o <<>> = T /\ <<>> \o T = T
      /\ IF x1.tuple THEN x9.text = <<>> /\ x9.buffer = T ELSE x9.text = T /\ x9.buffer = <<>>
  BY CallSequences, EmptyJoin DEF CodexSending
<1>3. q = T
  BY <1>2 DEF Streams!Text
<1>4. x9' = t
  <2>1. (IF r.usage = "none" THEN x9.usage ELSE x9.usage + 1) = n
    BY <1>2
  <2>. QED BY <1>1, <2>1 DEF Streams!CodexOn
<1>5. os[Len(os)] = r
  <2>1. x9.others \in Seq(SentEvent)
    BY <1>2, CodexSets
  <2>. QED BY <1>1, <2>1, AppendIs
<1> HIDE DEF q, os, n
<1>6. t.text = q /\ t.others = os /\ t.usage = n
  BY <1>2 DEF CodexRecord
<1> HIDE DEF t
<1>7. CodexWhole'
  <2>1. Streams!Last(x9'.others) = r
    BY <1>4, <1>5, <1>6 DEF Streams!Last
  <2>. QED BY <1>1, <1>3, <1>4, <1>6, <2>1 DEF CodexWhole
<1>. QED BY <1>4, <1>6, <1>7 DEF n

LEMMA GatherSets ==
    ASSUME NEW s \in GatherRecord
    PROVE  /\ s.text \in Seq(Nat) /\ s.reasoning \in Seq(Nat) /\ s.calls \in Seq(CallArgs) /\ s.tokens \in BOOLEAN
           /\ \A b \in Seq(Nat) : LET t == [s EXCEPT !.text = b]
              IN  t \in GatherRecord /\ t.text = b /\ t.reasoning = s.reasoning /\ t.calls = s.calls
           /\ \A b \in Seq(Nat) : LET t == [s EXCEPT !.reasoning = b]
              IN  t \in GatherRecord /\ t.text = s.text /\ t.reasoning = b /\ t.calls = s.calls
           /\ \A cs \in Seq(CallArgs) : LET t == [s EXCEPT !.calls = cs]
              IN  t \in GatherRecord /\ t.text = s.text /\ t.reasoning = s.reasoning /\ t.calls = cs
<1>1. s.text \in Seq(Nat) /\ s.reasoning \in Seq(Nat) /\ s.calls \in Seq(CallArgs) /\ s.tokens \in BOOLEAN
  BY DEF GatherRecord
<1>2. ASSUME NEW b \in Seq(Nat)
      PROVE  LET t == [s EXCEPT !.text = b]
             IN  t \in GatherRecord /\ t.text = b /\ t.reasoning = s.reasoning /\ t.calls = s.calls
  BY DEF GatherRecord
<1>3. ASSUME NEW b \in Seq(Nat)
      PROVE  LET t == [s EXCEPT !.reasoning = b]
             IN  t \in GatherRecord /\ t.text = s.text /\ t.reasoning = b /\ t.calls = s.calls
  BY DEF GatherRecord
<1>4. ASSUME NEW cs \in Seq(CallArgs)
      PROVE  LET t == [s EXCEPT !.calls = cs]
             IN  t \in GatherRecord /\ t.text = s.text /\ t.reasoning = s.reasoning /\ t.calls = cs
  BY DEF GatherRecord
<1>. QED BY <1>1, <1>2, <1>3, <1>4

LEMMA GatheringGoesOn ==
    ASSUME SentHeld, GatheredAll, NEW r, NEW e, Sends(r, e), r.type # "failed"
    PROVE  GatheredAll' /\ (r.type = "completed" => x10'.result = "completed")
<1> DEFINE T == Streams!SentPieces("text")
           R == Streams!SentPieces("reasoning")
           S == Streams!SentCalls
           p == r.pieces
           a == [call |-> Id(r.call), args |-> p]
<1>1. /\ r \in SentEvent /\ Gains(r) /\ x10' = Streams!Gather(x10, e)
      /\ e.type = r.type /\ e.pieces = p /\ e.usage = r.usage
      /\ r.type = "done" => e.call = Id(r.call)
  BY SentGoesOn DEF Sends, ExtractedFrom, CallTypes
<1>2. p \in Seq(Nat) /\ T \in Seq(Nat) /\ R \in Seq(Nat) /\ S \in Seq(CallArgs) /\ a \in CallArgs
  <2>1. p \in Seq(Nat) /\ Id(r.call) \in CallId
    BY <1>1, EventParts, IdIs
  <2>. QED BY <2>1, CallSequences DEF CallArgs
<1>3. x10 \in GatherRecord /\ x10.text = T /\ x10.reasoning = R /\ x10.calls = S
  BY DEF GatheredAll
<1>4. /\ T' = IF r.type = "text" THEN T \o p ELSE T
      /\ R' = IF r.type = "reasoning" THEN R \o p ELSE R
      /\ S' = IF r.type = "done" THEN Append(S, a) ELSE S
  BY <1>1 DEF Gains
<1> HIDE DEF p, a
<1>5. SUFFICES /\ x10' \in GatherRecord /\ x10'.text = T' /\ x10'.reasoning = R' /\ x10'.calls = S'
               /\ r.type = "completed" => x10'.result = "completed"
  BY DEF GatheredAll
<1> HIDE DEF T, R, S
<1>6. CASE r.type = "text"
  <2>1. x10' = [x10 EXCEPT !.text = T \o p] /\ T \o p \in Seq(Nat)
    BY <1>1, <1>2, <1>3, <1>6 DEF Streams!Gather
  <2> DEFINE b == T \o p
             t == [x10 EXCEPT !.text = b]
  <2>2. x10' = t /\ b \in Seq(Nat) /\ b = T'
    BY <1>4, <1>6, <2>1
  <2> HIDE DEF b
  <2>3. t \in GatherRecord /\ t.text = b /\ t.reasoning = x10.reasoning /\ t.calls = x10.calls
    BY <1>3, <2>2, GatherSets
  <2> HIDE DEF t
  <2>. QED BY <1>3, <1>4, <1>6, <2>2, <2>3
<1>7. CASE r.type = "reasoning"
  <2>1. x10' = [x10 EXCEPT !.reasoning = R \o p] /\ R \o p \in Seq(Nat)
    BY <1>1, <1>2, <1>3, <1>7 DEF Streams!Gather
  <2> DEFINE b == R \o p
             t == [x10 EXCEPT !.reasoning = b]
  <2>2. x10' = t /\ b \in Seq(Nat) /\ b = R'
    BY <1>4, <1>7, <2>1
  <2> HIDE DEF b
  <2>3. t \in GatherRecord /\ t.reasoning = b /\ t.text = x10.text /\ t.calls = x10.calls
    BY <1>3, <2>2, GatherSets
  <2> HIDE DEF t
  <2>. QED BY <1>3, <1>4, <1>7, <2>2, <2>3
<1>8. CASE r.type = "done"
  <2>1. a = [call |-> e.call, args |-> e.pieces]
    BY <1>1, <1>8 DEF a
  <2>2. x10' = [x10 EXCEPT !.calls = Append(S, a)]
    BY <1>1, <1>3, <1>8, <2>1 DEF Streams!Gather
  <2>3. Append(S, a) \in Seq(CallArgs)
    BY <1>2, AppendIs
  <2> DEFINE cs == Append(S, a)
             t == [x10 EXCEPT !.calls = cs]
  <2>4. x10' = t /\ cs \in Seq(CallArgs) /\ cs = S'
    BY <1>4, <1>8, <2>2, <2>3
  <2> HIDE DEF cs
  <2>5. t \in GatherRecord /\ t.text = x10.text /\ t.reasoning = x10.reasoning /\ t.calls = cs
    BY <1>3, <2>4, GatherSets
  <2> HIDE DEF t
  <2>. QED BY <1>3, <1>4, <1>8, <2>4, <2>5
<1>9. CASE r.type \in {"completed", "incomplete"}
  <2> DEFINE b == IF e.usage = "none" THEN x10.tokens ELSE e.usage = "some"
  <2>1. x10' = [x10 EXCEPT !.tokens = b, !.result = r.type]
    BY <1>1, <1>9 DEF Streams!Gather
  <2>2. b \in BOOLEAN
    BY <1>3, GatherSets
  <2> DEFINE v == r.type
             t == [x10 EXCEPT !.tokens = b, !.result = v]
  <2>3. x10' = t /\ v \in {"completed", "incomplete"}
    BY <1>9, <2>1
  <2> HIDE DEF b, v
  <2>4. t \in GatherRecord /\ t.text = x10.text /\ t.reasoning = x10.reasoning /\ t.calls = x10.calls
        /\ t.result = v
    BY <1>3, <2>2, <2>3 DEF GatherRecord
  <2> HIDE DEF t
  <2>. QED BY <1>3, <1>4, <1>9, <2>3, <2>4 DEF v
<1>10. CASE r.type \in {"call", "delta"}
  <2>1. x10' = x10
    BY <1>1, <1>10 DEF Streams!Gather
  <2>. QED BY <1>3, <1>4, <1>10, <2>1
<1>11. r.type \in {"text", "reasoning", "call", "delta", "done", "completed", "incomplete"}
  BY <1>1, EventParts DEF Streams!Terminal
<1>. QED BY <1>6, <1>7, <1>8, <1>9, <1>10, <1>11

-----------------------------------------------------------------------------
(* The clients, step by step *)

LEMMA EventKeeps ==
    ASSUME ClientsHeld, NEW r, NEW e, Sends(r, e)
    PROVE  ClientsHeld'
<1>1. SentHeld /\ SaidTwice
  BY DEF ClientsHeld
<1>2. /\ Going /\ SentHeld' /\ SaidTwice'
      /\ Streams!Completed' <=> r.type = "completed"
      /\ Streams!Failed' <=> r.type = "failed"
  BY <1>1, SentGoesOn, SaidTwiceGoesOn
<1>3. Sending
  BY <1>2 DEF ClientsHeld
<1>4. CASE r.type = "completed"
  <2>1. /\ OpenAIWhole' /\ (r.usage = "none" => x6'.usage = 0) /\ (r.usage # "none" => x6'.usage = 1)
        /\ AnthropicWhole' /\ (r.usage = "none" => x7'.usage = 0) /\ (r.usage # "none" => x7'.usage = 1)
        /\ GeminiWhole' /\ (r.usage = "none" => x8'.usage = 0) /\ (r.usage # "none" => x8'.usage = 1)
        /\ CodexWhole' /\ (r.usage = "none" => x9'.usage = 0) /\ (r.usage # "none" => x9'.usage = 1)
    BY <1>1, <1>3, <1>4, OpenAICompletes, AnthropicCompletes, GeminiCompletes, CodexCompletes DEF Sending
  <2>2. GatheredAll' /\ x10'.result = "completed"
    BY <1>1, <1>3, <1>4, GatheringGoesOn DEF Sending
  <2>3. SameUsage'
    BY <2>1 DEF SameUsage
  <2>. QED BY <1>2, <1>4, <2>1, <2>2, <2>3 DEF ClientsHeld, Whole, Going
<1>5. CASE r.type = "failed"
  <2>1. AnthropicFailed'
    BY <1>1, <1>3, <1>5, AnthropicFails DEF Sending
  <2>. QED BY <1>2, <1>5, <2>1 DEF ClientsHeld, Going
<1>6. CASE r.type \notin {"completed", "failed"}
  <2>1. OpenAISending' /\ AnthropicSending' /\ GeminiSending' /\ CodexSending' /\ GatheredAll'
    BY <1>1, <1>3, <1>6, OpenAIGoesOn, AnthropicGoesOn, GeminiGoesOn, CodexGoesOn, GatheringGoesOn DEF Sending
  <2>. QED BY <1>2, <1>6, <2>1 DEF ClientsHeld, Sending
<1>. QED BY <1>4, <1>5, <1>6

\* Nothing has been sent, and what was asked for has not changed.
SentSame == x1' = x1 /\ x2' = x2 /\ x3' = x3 /\ x5' = x5

LEMMA SentStays ==
    ASSUME SentHeld, SentSame
    PROVE  /\ \A t : Streams!SentPieces(t)' = Streams!SentPieces(t)
           /\ \A c : Streams!PiecesOfCall(c)' = Streams!PiecesOfCall(c)
           /\ Streams!SentCalls' = Streams!SentCalls
           /\ \A k : Streams!Content(k)' = Streams!Content(k)
           /\ Streams!Completed' <=> Streams!Completed
           /\ Streams!Failed' <=> Streams!Failed
           /\ Streams!Nothing' <=> Streams!Nothing
           /\ Streams!Shown' = Streams!Shown
<1>1. x2 \in Seq(SentEvent) /\ x2' \in Seq(SentEvent) /\ x2' = x2 /\ x1' = x1
  BY DEF SentHeld, SentSame
<1>2. /\ \A t : Streams!SentPieces(t) = FlatMap(PiecesOf(t), x2)
      /\ \A c : Streams!PiecesOfCall(c) = FlatMap(ArgsOf(c), x2)
      /\ Streams!SentCalls = FlatMap(DoneOf, x2)
      /\ \A k : Streams!Content(k) = FlatMap(ContentOf(k), x2)
  BY <1>1, SentIs
<1>3. /\ \A t : Streams!SentPieces(t)' = FlatMap(PiecesOf(t), x2)
      /\ \A c : Streams!PiecesOfCall(c)' = FlatMap(ArgsOf(c), x2)
      /\ Streams!SentCalls' = FlatMap(DoneOf, x2)
      /\ \A k : Streams!Content(k)' = FlatMap(ContentOf(k), x2)
  BY <1>1, SentIsNext
<1>4. /\ \A t : Streams!SentPieces(t)' = Streams!SentPieces(t)
      /\ \A c : Streams!PiecesOfCall(c)' = Streams!PiecesOfCall(c)
      /\ Streams!SentCalls' = Streams!SentCalls
      /\ \A k : Streams!Content(k)' = Streams!Content(k)
  BY <1>2, <1>3
<1>5. (Streams!Completed' <=> Streams!Completed) /\ (Streams!Failed' <=> Streams!Failed)
  BY <1>1 DEF Streams!Completed, Streams!Failed
<1>6. (Streams!Nothing' <=> Streams!Nothing) /\ Streams!Shown' = Streams!Shown
  BY <1>1, <1>4 DEF Streams!Nothing, Streams!Shown
<1>. QED BY <1>4, <1>5, <1>6

LEMMA ReadyStays ==
    ASSUME SentHeld, SentSame
    PROVE  /\ WithCall(Streams!SentCalls, x3, Streams!PiecesOfCall(x3))' =
                 WithCall(Streams!SentCalls, x3, Streams!PiecesOfCall(x3))
           /\ Pieces' = Pieces
           /\ \A k \in SUBSET Streams!Kinds : SaidBefore(k)' = SaidBefore(k)
<1>1. x3' = x3 /\ x1' = x1
  BY DEF SentSame
<1>2. /\ \A c : Streams!PiecesOfCall(c)' = Streams!PiecesOfCall(c)
      /\ Streams!SentCalls' = Streams!SentCalls
      /\ \A k : Streams!Content(k)' = Streams!Content(k)
      /\ Streams!Shown' = Streams!Shown
  BY SentStays
<1>3. Streams!PiecesOfCall(x3)' = Streams!PiecesOfCall(x3)
  BY <1>1, <1>2
<1>4. WithCall(Streams!SentCalls, x3, Streams!PiecesOfCall(x3))' =
                 WithCall(Streams!SentCalls, x3, Streams!PiecesOfCall(x3))
  BY <1>1, <1>2, <1>3 DEF WithCall
<1>5. Pieces' = Pieces
  BY <1>2 DEF Pieces
<1>6. ASSUME NEW k \in SUBSET Streams!Kinds PROVE SaidBefore(k)' = SaidBefore(k)
  <2>1. Streams!Content(k \cap Streams!Shown)' = Streams!Content(k \cap Streams!Shown)
    BY <1>2
  <2>. QED BY <1>1, <1>3, <2>1 DEF SaidBefore, OpenPieces
<1>. QED BY <1>4, <1>5, <1>6

\* What is owed to the clients of the other formats does not change, nor do they.
LEMMA OtherFormatsStay ==
    ASSUME SentHeld, SentSame, x8' = x8, x9' = x9, x10' = x10
    PROVE  /\ SentHeld /\ x4' \in {"no", "end", "broken", "gone"} => SentHeld'
           /\ SaidTwice => SaidTwice'
           /\ GeminiSending => GeminiSending'
           /\ GeminiWhole => GeminiWhole'
           /\ CodexSending => CodexSending'
           /\ CodexWhole => CodexWhole'
           /\ GatheredAll => GatheredAll'
<1>1. x1' = x1 /\ x2' = x2 /\ x3' = x3 /\ x5' = x5
  BY DEF SentSame
<1>2. /\ \A t : Streams!SentPieces(t)' = Streams!SentPieces(t)
      /\ \A c : Streams!PiecesOfCall(c)' = Streams!PiecesOfCall(c)
      /\ Streams!SentCalls' = Streams!SentCalls
      /\ \A k : Streams!Content(k)' = Streams!Content(k)
      /\ Streams!Completed' <=> Streams!Completed
      /\ Streams!Failed' <=> Streams!Failed
  BY SentStays
<1>3. SentHeld /\ x4' \in {"no", "end", "broken", "gone"} => SentHeld'
  BY <1>1, <1>2 DEF SentHeld
<1>4. Streams!Spoken' = Streams!Spoken /\ Streams!Kinds' = Streams!Kinds
  BY DEF Streams!Spoken, Streams!Kinds
<1>5. SaidTwice => SaidTwice'
  BY <1>2 DEF SaidTwice
<1>6. GeminiSending => GeminiSending'
  BY <1>1, <1>2 DEF GeminiSending
<1>7. GeminiWhole => GeminiWhole'
  BY <1>1, <1>2 DEF GeminiWhole
<1>8. (CodexSending => CodexSending') /\ (CodexWhole => CodexWhole') /\ (GatheredAll => GatheredAll')
  BY <1>1, <1>2 DEF CodexSending, CodexWhole, GatheredAll
<1>. QED BY <1>3, <1>5, <1>6, <1>7, <1>8

LEMMA OpenAIEnds ==
    ASSUME SentHeld, SentSame, x6' = Streams!OpenAIEnd(x6), x4' = "end", x4 # "end"
    PROVE  /\ OpenAISending => OpenAISending'
           /\ OpenAIWhole => OpenAIWhole'
           /\ x6 \in OpenAIRecord => x6'.usage = x6.usage
<1> DEFINE t == [x6 EXCEPT !.done = TRUE]
           T == Streams!SentPieces("text")
           R == Streams!SentPieces("reasoning")
           C == WithCall(Streams!SentCalls, x3, Streams!PiecesOfCall(x3))
<1>1. x6' = t
  BY DEF Streams!OpenAIEnd
<1>2. ASSUME x6 \in OpenAIRecord
      PROVE  /\ t \in OpenAIRecord /\ t.text = x6.text /\ t.buffer = x6.buffer /\ t.reasoning = x6.reasoning
             /\ t.calls = x6.calls /\ (t.content <=> x6.content) /\ t.streamed = x6.streamed
             /\ t.finish = x6.finish /\ t.done /\ t.usage = x6.usage
  BY <1>2 DEF OpenAIRecord
<1> HIDE DEF t
<1>3. /\ x1' = x1 /\ x5' = x5 /\ T' = T /\ R' = R /\ Streams!SentCalls' = Streams!SentCalls
      /\ Streams!Nothing' <=> Streams!Nothing
  BY SentStays DEF SentSame
<1>4. C' = C /\ Pieces' = Pieces
  BY ReadyStays
<1>5. OpenAIWhole => OpenAIWhole'
  BY <1>1, <1>2, <1>3 DEF OpenAIWhole
<1>6. ASSUME OpenAISending PROVE OpenAISending'
  <2>1. OpenAIReady(x1, x6, T, R, C, x5, Pieces)
    BY <1>6 DEF OpenAISending
  <2> HIDE DEF T, R, C
  <2>2. OpenAIReady(x1, t, T, R, C, x5, Pieces)
    BY <1>2, <2>1 DEF OpenAIReady, OpenAIHas
  <2>3. OpenAIReady(x1', x6', T', R', C', x5', Pieces')
    BY <1>1, <1>3, <1>4, <2>2
  <2>. QED BY <2>3 DEF OpenAISending, T, R, C
<1>. QED BY <1>1, <1>2, <1>5, <1>6

LEMMA AnthropicEnds ==
    ASSUME SentHeld, SentSame, x7' = Streams!AnthropicEnd(x7), x4' = "end", x4 # "end"
    PROVE  /\ AnthropicSending => AnthropicSending'
           /\ AnthropicWhole /\ x3 = 0 => AnthropicWhole' /\ x7'.usage = x7.usage
           /\ AnthropicFailed => AnthropicFailed'
<1>1. x1' = x1 /\ x3' = x3 /\ x3 \in Nat
  BY CallSequences DEF SentSame
<1>2. /\ Streams!SentCalls' = Streams!SentCalls
      /\ \A k : Streams!Content(k)' = Streams!Content(k)
      /\ Streams!Nothing' <=> Streams!Nothing
      /\ Streams!Shown' = Streams!Shown
      /\ \A k \in SUBSET Streams!Kinds : SaidBefore(k)' = SaidBefore(k)
  BY SentStays, ReadyStays
<1>3. ASSUME x7 \in AnthropicRecord, Balanced(x7, x3), ~x7.stopped
      PROVE  /\ x7' \in AnthropicRecord /\ x7'.stopped /\ ~x7'.nonsense /\ SameRead(x7, x7') /\ x7'.usage = x7.usage
             /\ x7'.stop = IF x7.tools THEN "tool_use" ELSE "end_turn"
             /\ x3 = 0 => AllClosed(x7')
  BY <1>3, LastWords
<1>4. ASSUME AnthropicSending PROVE AnthropicSending'
  <2>1. x7 \in AnthropicRecord /\ Balanced(x7, x3) /\ ~x7.stopped /\ x7.usage = 0
        /\ \A k \in SUBSET Streams!Kinds : Streams!Read(k, x7.blocks) = SaidBefore(k)
    BY <1>4 DEF AnthropicSending
  <2>2. \A k \in SUBSET Streams!Kinds : Streams!Read(k, x7'.blocks) = SaidBefore(k)'
    BY <1>2, <1>3, <2>1 DEF SameRead
  <2>3. x3 = 0 => AllClosed(x7)'
    BY <1>3, <2>1 DEF AllClosed
  <2>. QED BY <1>1, <1>3, <2>1, <2>2, <2>3 DEF AnthropicSending
<1>5. ASSUME AnthropicWhole, x3 = 0 PROVE AnthropicWhole' /\ x7'.usage = x7.usage
  <2>1. x7 \in AnthropicRecord /\ Balanced(x7, x3) /\ ~x7.stopped /\ (x7.tools <=> Streams!SentCalls # <<>>)
    BY <1>5 DEF AnthropicWhole
  <2>2. ~Streams!Nothing => \A k \in SUBSET Streams!Kinds :
          Streams!Read(k, x7'.blocks) = Streams!Content(k \cap Streams!Shown)'
    BY <1>2, <1>3, <1>5, <2>1 DEF SameRead, AnthropicWhole
  <2>3. AllClosed(x7)'
    BY <1>3, <1>5, <2>1 DEF AllClosed
  <2>4. x7'.stop = IF Streams!SentCalls' = <<>> THEN "end_turn" ELSE "tool_use"
    BY <1>2, <1>3, <2>1
  <2>. QED BY <1>2, <1>3, <2>1, <2>2, <2>3, <2>4 DEF AnthropicWhole
<1>6. ASSUME AnthropicFailed PROVE AnthropicFailed'
  <2>1. CASE x3 = 0
    <3>1. x7.stopped /\ AllClosed(x7)
      BY <1>6, <2>1 DEF AnthropicFailed
    <3>2. x7' = x7
      BY <3>1 DEF Streams!AnthropicEnd
    <3>. QED BY <3>1, <3>2 DEF AnthropicFailed, AllClosed
  <2>2. CASE x3 # 0
    BY <1>1, <2>2 DEF AnthropicFailed
  <2>. QED BY <2>1, <2>2
<1>. QED BY <1>4, <1>5, <1>6

LEMMA BodyKeeps ==
    ASSUME ClientsHeld, Streams!BodyEnds
    PROVE  ClientsHeld'
<1>1. /\ SentSame /\ x8' = x8 /\ x9' = x9 /\ x10' = x10
      /\ x6' = Streams!OpenAIEnd(x6) /\ x7' = Streams!AnthropicEnd(x7) /\ x4' = "end" /\ x4 # "end"
  BY DEF Streams!BodyEnds, SentSame
<1>2. SentHeld /\ SaidTwice
  BY DEF ClientsHeld
<1>3. SentHeld' /\ SaidTwice'
  BY <1>1, <1>2, OtherFormatsStay
<1>4. (Streams!Completed' <=> Streams!Completed) /\ (Streams!Failed' <=> Streams!Failed)
  BY <1>1, <1>2, SentStays
<1>5. Going => Sending'
  BY <1>1, <1>2, OpenAIEnds, AnthropicEnds, OtherFormatsStay DEF ClientsHeld, Sending
<1>6. ASSUME Streams!Completed PROVE Whole'
  <2>1. Whole /\ x3 = 0
    BY <1>2, <1>6 DEF ClientsHeld, SentHeld
  <2>2. OpenAIWhole' /\ x6'.usage = x6.usage
    BY <1>1, <1>2, <2>1, OpenAIEnds DEF Whole, OpenAIWhole
  <2>3. AnthropicWhole' /\ x7'.usage = x7.usage
    BY <1>1, <1>2, <2>1, AnthropicEnds DEF Whole
  <2>4. GeminiWhole' /\ CodexWhole' /\ GatheredAll'
    BY <1>1, <1>2, <2>1, OtherFormatsStay DEF Whole
  <2>. QED BY <1>1, <2>1, <2>2, <2>3, <2>4 DEF Whole, SameUsage
<1>7. Streams!Failed => AnthropicFailed'
  BY <1>1, <1>2, AnthropicEnds DEF ClientsHeld
<1>. QED BY <1>3, <1>4, <1>5, <1>6, <1>7 DEF ClientsHeld, Going

\* Nothing changes, but for how the answer ended.
LEMMA ClientsStay ==
    ASSUME ClientsHeld, SentSame, x6' = x6, x7' = x7, x8' = x8, x9' = x9, x10' = x10,
           x4' \in {"no", "end", "broken", "gone"}, x4' = "end" <=> x4 = "end"
    PROVE  ClientsHeld'
<1>1. SentHeld /\ SaidTwice
  BY DEF ClientsHeld
<1>2. x1' = x1 /\ x3' = x3 /\ x5' = x5
  BY DEF SentSame
<1>3. /\ \A t : Streams!SentPieces(t)' = Streams!SentPieces(t)
      /\ Streams!SentCalls' = Streams!SentCalls
      /\ \A k : Streams!Content(k)' = Streams!Content(k)
      /\ Streams!Completed' <=> Streams!Completed
      /\ Streams!Failed' <=> Streams!Failed
      /\ Streams!Nothing' <=> Streams!Nothing
      /\ Streams!Shown' = Streams!Shown
  BY <1>1, SentStays
<1>4. /\ WithCall(Streams!SentCalls, x3, Streams!PiecesOfCall(x3))' =
                 WithCall(Streams!SentCalls, x3, Streams!PiecesOfCall(x3))
      /\ Pieces' = Pieces
      /\ \A k \in SUBSET Streams!Kinds : SaidBefore(k)' = SaidBefore(k)
  BY <1>1, ReadyStays
<1>5. (OpenAIWhole => OpenAIWhole') /\ (AnthropicFailed => AnthropicFailed')
  BY <1>2, <1>3 DEF OpenAIWhole, AnthropicFailed, AllClosed
<1>6. OpenAISending => OpenAISending'
  <2> DEFINE T == Streams!SentPieces("text")
             R == Streams!SentPieces("reasoning")
             C == WithCall(Streams!SentCalls, x3, Streams!PiecesOfCall(x3))
  <2>1. T' = T /\ R' = R /\ C' = C
    BY <1>3, <1>4
  <2> HIDE DEF T, R, C
  <2>2. OpenAIReady(x1, x6, T, R, C, x5, Pieces) => OpenAIReady(x1', x6', T', R', C', x5', Pieces')
    BY <1>2, <1>4, <2>1
  <2>. QED BY <2>2 DEF OpenAISending, T, R, C
<1>7. AnthropicSending => AnthropicSending'
  BY <1>2, <1>3, <1>4 DEF AnthropicSending, AllClosed
<1>8. AnthropicWhole => AnthropicWhole'
  BY <1>3 DEF AnthropicWhole, AllClosed
<1>9. SentHeld' /\ SaidTwice' /\ (GeminiSending => GeminiSending') /\ (GeminiWhole => GeminiWhole')
      /\ (CodexSending => CodexSending') /\ (CodexWhole => CodexWhole') /\ (GatheredAll => GatheredAll')
  BY <1>1, OtherFormatsStay
<1>10. SameUsage' <=> SameUsage
  BY DEF SameUsage
<1>11. Sending => Sending'
  BY <1>6, <1>7, <1>9 DEF Sending
<1>12. Whole => Whole'
  BY <1>5, <1>8, <1>9, <1>10 DEF Whole
<1>. QED BY <1>3, <1>5, <1>9, <1>11, <1>12 DEF ClientsHeld, Going

LEMMA ClientsStep ==
    ASSUME ClientsHeld, Streams!Next \/ UNCHANGED <<x1, x2, x3, x4, x5, x6, x7, x8, x9, x10>>
    PROVE  ClientsHeld'
<1>1. SentHeld
  BY DEF ClientsHeld
<1>2. CASE Streams!BodyEnds
  BY <1>2, BodyKeeps
<1>3. CASE Streams!StreamStops
  <2>1. /\ SentSame /\ x6' = x6 /\ x7' = x7 /\ x8' = x8 /\ x9' = x9 /\ x10' = x10
        /\ x4' \in {"no", "end", "broken", "gone"} /\ x4' # "end" /\ x4 # "end"
    BY <1>3 DEF Streams!StreamStops, SentSame
  <2>. QED BY <2>1, ClientsStay
<1>4. CASE UNCHANGED <<x1, x2, x3, x4, x5, x6, x7, x8, x9, x10>>
  <2>1. /\ SentSame /\ x6' = x6 /\ x7' = x7 /\ x8' = x8 /\ x9' = x9 /\ x10' = x10
        /\ x4' \in {"no", "end", "broken", "gone"} /\ x4' = x4
    BY <1>1, <1>4 DEF SentHeld, SentSame
  <2>. QED BY <2>1, ClientsStay
<1>5. CASE Streams!Next /\ ~Streams!BodyEnds /\ ~Streams!StreamStops
  <2>1. PICK r, e : Sends(r, e)
    BY <1>1, <1>5, StepSends
  <2>. QED BY <2>1, EventKeeps
<1>. QED BY <1>2, <1>3, <1>4, <1>5

LEMMA NothingSent ==
    ASSUME x2 = <<>>
    PROVE  /\ \A t : Streams!SentPieces(t) = <<>>
           /\ \A c : Streams!PiecesOfCall(c) = <<>>
           /\ Streams!SentCalls = <<>>
           /\ \A k : Streams!Content(k) = <<>>
<1>1. x2 \in Seq(SentEvent)
  OBVIOUS
<1>. QED BY <1>1, SentIs, FlatMapEmpty

LEMMA NothingRead ==
    /\ \A k : Streams!Read(k, <<>>) = <<>>
    /\ \A f : Mapped(f, <<>>) = <<>>
<1>1. <<>> \in Seq(BlockRecord)
  OBVIOUS
<1>2. \A f : Mapped(f, <<>>) = <<>>
  BY DEF Mapped
<1>. QED BY <1>1, <1>2, ReadingIs, FlatMapEmpty

LEMMA ClientsStart == Streams!Init => ClientsHeld
<1> SUFFICES ASSUME Streams!Init PROVE ClientsHeld
  OBVIOUS
<1>1. /\ x1 \in [reasoning : BOOLEAN, tuple : BOOLEAN] /\ x2 = <<>> /\ x3 = 0 /\ x4 = "no" /\ x5 = {}
      /\ x6 = Streams!OpenAIStart /\ x7 = Streams!AnthropicStart /\ x8 = Streams!GeminiStart
      /\ x9 = Streams!CodexStart /\ x10 = Streams!GatherStart
  BY DEF Streams!Init
<1>2. /\ \A t : Streams!SentPieces(t) = <<>>
      /\ \A c : Streams!PiecesOfCall(c) = <<>>
      /\ Streams!SentCalls = <<>>
      /\ \A k : Streams!Content(k) = <<>>
      /\ \A k : Streams!Read(k, <<>>) = <<>>
      /\ Mapped(AsCall, <<>>) = <<>>
  BY <1>1, NothingSent, NothingRead
<1>3. <<>> \in Seq(SentEvent) /\ Len(x2) = 0 /\ 0 <= MaxEvents /\ ~Streams!Completed /\ ~Streams!Failed
  <2>1. MaxEvents \in Nat
    BY StreamAssumption
  <2>2. DOMAIN x2 = {}
    BY <1>1
  <2>. QED BY <1>1, <2>1, <2>2 DEF Streams!Completed, Streams!Failed
<1>4. SentHeld
  BY <1>1, <1>2, <1>3 DEF SentHeld
<1>5. SaidTwice
  <2>1. Marked("text", Id(0), <<>>) = <<>> /\ Marked("reasoning", Id(0), <<>>) = <<>>
    BY MarkedEmpty
  <2>. QED BY <1>2, <2>1 DEF SaidTwice
<1>6. /\ <<>> \in Seq(Nat) /\ <<>> \in Seq(CallArgs) /\ <<>> \in Seq(BlockRecord) /\ <<>> \in Seq(PartRecord)
      /\ <<>> \in Seq(PieceRead) /\ {} \in SUBSET CallId
  OBVIOUS
<1>7. OpenAISending
  <2>1. x6 \in OpenAIRecord
    BY <1>1, <1>6 DEF Streams!OpenAIStart, OpenAIRecord
  <2>2. /\ x6.text = <<>> /\ x6.buffer = <<>> /\ x6.reasoning = <<>> /\ x6.calls = <<>> /\ ~x6.content
        /\ x6.streamed = {} /\ ~x6.done /\ x6.usage = 0
    BY <1>1 DEF Streams!OpenAIStart
  <2>3. WithCall(Streams!SentCalls, x3, Streams!PiecesOfCall(x3)) = <<>>
    BY <1>1, <1>2 DEF WithCall
  <2>4. OpenAIHas(x1, x6, <<>>, <<>>, <<>>)
    BY <2>1, <2>2 DEF OpenAIHas
  <2>5. Distinct(x6.calls) /\ OfCalls(x6.calls, x5)
    BY <2>2 DEF Distinct, OfCalls
  <2>6. Streamed(x6.streamed, Pieces)
    BY <1>2, <2>2 DEF Streamed, Pieces
  <2>. QED BY <1>2, <2>2, <2>3, <2>4, <2>5, <2>6 DEF OpenAISending, OpenAIReady
<1>8. AnthropicSending
  <2>1. x7 \in AnthropicRecord
    BY <1>1, <1>6 DEF Streams!AnthropicStart, AnthropicRecord
  <2>2. /\ x7.blocks = <<>> /\ x7.index = 0 /\ ~x7.thinking /\ ~x7.text /\ ~x7.tools /\ ~x7.content
        /\ x7.streamed = {} /\ ~x7.stopped /\ ~x7.nonsense /\ x7.usage = 0
    BY <1>1 DEF Streams!AnthropicStart
  <2>3. x6.calls = <<>> /\ ~x6.content /\ x6.streamed = {}
    BY <1>1 DEF Streams!OpenAIStart
  <2>4. Balanced(x7, x3)
    BY <1>1, <2>2 DEF Balanced, Settled
  <2>5. \A k \in SUBSET Streams!Kinds : SaidBefore(k) = <<>>
    <3>1. <<>> \o <<>> = <<>>
      OBVIOUS
    <3>. QED BY <1>1, <1>2, <3>1 DEF SaidBefore, OpenPieces
  <2>. QED BY <1>1, <1>2, <2>1, <2>2, <2>3, <2>4, <2>5 DEF AnthropicSending
<1>9. GeminiSending
  <2>1. x8 \in GeminiRecord
    BY <1>1, <1>6 DEF Streams!GeminiStart, GeminiRecord
  <2>2. x8.parts = <<>> /\ x8.buffer = <<>> /\ ~x8.content /\ x8.finish = "none" /\ x8.usage = 0
    BY <1>1 DEF Streams!GeminiStart
  <2>. QED BY <1>2, <2>1, <2>2 DEF GeminiSending
<1>10. CodexSending
  <2>1. x9 \in CodexRecord
    BY <1>1, <1>3, <1>6 DEF Streams!CodexStart, CodexRecord
  <2>2. x9.text = <<>> /\ x9.buffer = <<>> /\ x9.usage = 0
    BY <1>1 DEF Streams!CodexStart
  <2>. QED BY <1>2, <2>1, <2>2 DEF CodexSending
<1>11. GatheredAll
  <2>1. x10 \in GatherRecord
    BY <1>1, <1>6 DEF Streams!GatherStart, GatherRecord
  <2>2. x10.text = <<>> /\ x10.reasoning = <<>> /\ x10.calls = <<>>
    BY <1>1 DEF Streams!GatherStart
  <2>. QED BY <1>2, <2>1, <2>2 DEF GatheredAll
<1>. QED BY <1>3, <1>4, <1>5, <1>7, <1>8, <1>9, <1>10, <1>11 DEF ClientsHeld, Sending

-----------------------------------------------------------------------------
(* What the clients are promised *)

LEMMA PrefixOfJoin ==
    ASSUME NEW V, NEW a \in Seq(V), NEW b \in Seq(V)
    PROVE  Streams!IsPrefix(a, a \o b)
<1> DEFINE c == a \o b
<1>1. /\ c \in Seq(V) /\ Len(c) = Len(a) + Len(b) /\ Len(a) \in Nat /\ Len(b) \in Nat
      /\ \A i \in 1 .. Len(a) : c[i] = a[i]
  BY JoinIs
<1> HIDE DEF c
<1>2. Len(a) <= Len(c)
  BY <1>1
<1>3. SubSeq(a, 1, Len(a)) = SubSeq(c, 1, Len(a))
  <2>1. SubSeq(a, 1, Len(a)) = [i \in 1 .. Len(a) |-> a[i]]
    BY <1>1
  <2>2. SubSeq(c, 1, Len(a)) = [i \in 1 .. Len(a) |-> c[i]]
    BY <1>1, <1>2
  <2>. QED BY <1>1, <2>1, <2>2
<1>. QED BY <1>2, <1>3 DEF Streams!IsPrefix, c

LEMMA PrefixOfAppend ==
    ASSUME NEW V, NEW a \in Seq(V), NEW x \in V
    PROVE  Streams!IsPrefix(a, Append(a, x)) /\ Streams!IsPrefix(a, a)
<1>1. Append(a, x) = a \o <<x>> /\ <<x>> \in Seq(V)
  BY OneMore
<1>2. a \o <<>> = a /\ <<>> \in Seq(V)
  BY EmptyJoin
<1>3. Streams!IsPrefix(a, a \o <<x>>) /\ Streams!IsPrefix(a, a \o <<>>)
  BY <1>1, <1>2, PrefixOfJoin
<1>. QED BY <1>1, <1>2, <1>3

LEMMA ShownIs ==
    /\ Streams!Kinds \cap Streams!Shown = Streams!Shown /\ Streams!Kinds \in SUBSET Streams!Kinds
    /\ {"text"} \cap Streams!Shown = {"text"} /\ {"call"} \cap Streams!Shown = {"call"}
    /\ {"reasoning"} \cap Streams!Shown = IF x1.reasoning THEN {"reasoning"} ELSE {}
    /\ Streams!Kinds \cap Streams!Spoken = Streams!Spoken
  BY DEF Streams!Shown, Streams!Kinds, Streams!Spoken

LEMMA TypeHolds == ASSUME ClientsHeld PROVE Streams!TypeOK
<1>1. SentHeld
  BY DEF ClientsHeld
<1>2. Len(x2) \in Nat /\ MaxEvents \in Nat
  BY <1>1, StreamAssumption DEF SentHeld
<1>. QED BY <1>1, <1>2 DEF SentHeld, Streams!TypeOK

LEMMA OnlySentHolds == ASSUME ClientsHeld PROVE Streams!OnlyWhatWasSent
<1> DEFINE T == Streams!SentPieces("text")
           S == Streams!SentCalls
           A == Streams!PiecesOfCall(x3)
<1> SUFFICES ASSUME ~Streams!Failed, ~Streams!Completed
             PROVE  /\ Streams!Text(x6) = T
                    /\ Streams!Text(x9) = T
                    /\ Streams!IsPrefix(S, x6.calls)
                    /\ Streams!Read({"text"}, x7.blocks) = Streams!Content({"text"})
                    /\ Streams!IsPrefix(Streams!Content(Streams!Shown), Streams!Read(Streams!Kinds, x7.blocks))
  BY DEF Streams!OnlyWhatWasSent
<1>1. SentHeld /\ OpenAISending /\ AnthropicSending /\ CodexSending
  BY DEF ClientsHeld, Going, Sending
<1>2. /\ T \in Seq(Nat) /\ T \o <<>> = T /\ <<>> \o T = T /\ S \in Seq(CallArgs) /\ A \in Seq(Nat)
      /\ x3 \in Nat /\ Id(x3) \in CallId
      /\ \A k : Streams!Content(k) \in Seq(PieceRead)
  BY <1>1, CallSequences, EmptyJoin
<1>3. OpenAIHas(x1, x6, T, Streams!SentPieces("reasoning"), WithCall(S, x3, A))
  BY <1>1 DEF OpenAISending, OpenAIReady
<1>4. Streams!Text(x6) = T
  BY <1>2, <1>3 DEF OpenAIHas, Streams!Text
<1>5. Streams!Text(x9) = T
  BY <1>1, <1>2 DEF CodexSending, Streams!Text
<1>6. Streams!IsPrefix(S, x6.calls)
  <2>1. x6.calls = WithCall(S, x3, A)
    BY <1>3 DEF OpenAIHas
  <2>2. [call |-> Id(x3), args |-> A] \in CallArgs
    BY <1>2 DEF CallArgs
  <2> HIDE DEF S, A
  <2>3. Streams!IsPrefix(S, S) /\ Streams!IsPrefix(S, Append(S, [call |-> Id(x3), args |-> A]))
    BY <1>2, <2>2, PrefixOfAppend
  <2>. QED BY <2>1, <2>3 DEF WithCall
<1>7. /\ Streams!Read({"text"}, x7.blocks) = SaidBefore({"text"})
      /\ Streams!Read(Streams!Kinds, x7.blocks) = SaidBefore(Streams!Kinds)
  BY <1>1, KindsAre, ShownIs DEF AnthropicSending
<1>8. SaidBefore({"text"}) = Streams!Content({"text"})
  <2>1. OpenPieces({"text"}, x3, A) = <<>>
    BY DEF OpenPieces
  <2>2. Streams!Content({"text"}) \o <<>> = Streams!Content({"text"})
    BY <1>2, NoMore
  <2>. QED BY <2>1, <2>2, ShownIs DEF SaidBefore
<1>9. Streams!IsPrefix(Streams!Content(Streams!Shown), SaidBefore(Streams!Kinds))
  <2>1. OpenPieces(Streams!Kinds, x3, A) \in Seq(PieceRead)
    BY <1>2, OpenPiecesIs
  <2>2. SaidBefore(Streams!Kinds) = Streams!Content(Streams!Shown) \o OpenPieces(Streams!Kinds, x3, A)
    BY ShownIs DEF SaidBefore
  <2>. QED BY <1>2, <2>1, <2>2, PrefixOfJoin
<1>. QED BY <1>4, <1>5, <1>6, <1>7, <1>8, <1>9

LEMMA CompletedHolds == ASSUME ClientsHeld PROVE Streams!CompletedIsWhole
<1> SUFFICES ASSUME Streams!Completed, x4 = "end"
             PROVE  /\ x6.text = IF Streams!Nothing THEN Streams!MadeUp ELSE Streams!SentPieces("text")
                    /\ x6.reasoning = IF x1.reasoning THEN Streams!SentPieces("reasoning") ELSE <<>>
                    /\ x6.calls = Streams!SentCalls
                    /\ x6.finish = IF Streams!SentCalls = <<>> THEN "stop" ELSE "tool_calls"
                    /\ x6.done
                    /\ ~Streams!Nothing => Streams!Read(Streams!Kinds, x7.blocks) = Streams!Content(Streams!Shown)
                    /\ x7.stop = IF Streams!SentCalls = <<>> THEN "end_turn" ELSE "tool_use"
                    /\ Streams!Content(Streams!Spoken) # <<>> /\ ~x1.tuple =>
                          Streams!Read(Streams!Kinds, x8.parts) = Streams!Content(Streams!Spoken)
                    /\ \A k \in Streams!Spoken : Streams!Content(Streams!Spoken) # <<>> =>
                          Streams!Read({k}, x8.parts) = Streams!Content({k})
                    /\ x8.finish = "STOP"
                    /\ x9.text = Streams!SentPieces("text")
                    /\ Streams!Last(x9.others).type = "completed"
                    /\ x6.usage = x7.usage /\ x6.usage = x8.usage /\ x6.usage = x9.usage
  BY DEF Streams!CompletedIsWhole
<1>1. OpenAIWhole /\ AnthropicWhole /\ GeminiWhole /\ CodexWhole /\ SameUsage
  BY DEF ClientsHeld, Whole
<1>2. ~Streams!Nothing => Streams!Read(Streams!Kinds, x7.blocks) = Streams!Content(Streams!Shown)
  BY <1>1, ShownIs DEF AnthropicWhole
<1>3. Streams!Content(Streams!Spoken) # <<>> /\ ~x1.tuple =>
         Streams!Read(Streams!Kinds, x8.parts) = Streams!Content(Streams!Spoken)
  BY <1>1, ShownIs DEF GeminiWhole
<1>4. \A k \in Streams!Spoken : Streams!Content(Streams!Spoken) # <<>> =>
         Streams!Read({k}, x8.parts) = Streams!Content({k})
  BY <1>1 DEF GeminiWhole
<1>5. x7.stop = IF Streams!SentCalls = <<>> THEN "end_turn" ELSE "tool_use"
  BY <1>1 DEF AnthropicWhole
<1>6. /\ x6.text = IF Streams!Nothing THEN Streams!MadeUp ELSE Streams!SentPieces("text")
      /\ x6.reasoning = IF x1.reasoning THEN Streams!SentPieces("reasoning") ELSE <<>>
      /\ x6.calls = Streams!SentCalls
      /\ x6.finish = IF Streams!SentCalls = <<>> THEN "stop" ELSE "tool_calls"
      /\ x6.done
  BY <1>1 DEF OpenAIWhole, Streams!MadeUp
<1>. QED BY <1>1, <1>2, <1>3, <1>4, <1>5, <1>6 DEF GeminiWhole, CodexWhole, SameUsage

LEMMA BlocksHold == ASSUME ClientsHeld PROVE Streams!BlocksBalanced
<1>1. SentHeld
  BY DEF ClientsHeld
<1>2. CASE Going
  <2>1. AnthropicSending
    BY <1>2 DEF ClientsHeld, Sending
  <2>. QED BY <2>1 DEF AnthropicSending, AllClosed, Streams!BlocksBalanced
<1>3. CASE Streams!Completed
  <2>1. AnthropicWhole
    BY <1>3 DEF ClientsHeld, Whole
  <2>. QED BY <2>1 DEF AnthropicWhole, AllClosed, Streams!BlocksBalanced
<1>4. CASE Streams!Failed
  <2>1. AnthropicFailed
    BY <1>4 DEF ClientsHeld
  <2>. QED BY <1>4, <2>1 DEF AnthropicFailed, AllClosed, Streams!BlocksBalanced
<1>. QED BY <1>2, <1>3, <1>4 DEF Going

LEMMA OneBlockReads ==
    ASSUME NEW k, NEW kind \in BlockKinds, NEW d \in Seq(Nat)
    PROVE  /\ Streams!OneBlock(kind, d) \in Seq(BlockRecord)
           /\ Streams!Read(k, Streams!OneBlock(kind, d)) = Shows(k, kind, Id(0), d)
<1> DEFINE b == [kind |-> kind, call |-> Id(0), data |-> d, open |-> FALSE]
<1>1. b \in BlockRecord /\ b.kind = kind /\ b.call = Id(0) /\ b.data = d
  <2>1. Id(0) \in CallId
    BY IdIs
  <2>. QED BY <2>1 DEF BlockRecord
<1>2. Streams!OneBlock(kind, d) = IF d = <<>> THEN <<>> ELSE <<b>>
  BY DEF Streams!OneBlock, Streams!NoCall, Id
<1> HIDE DEF b
<1>3. CASE d = <<>>
  <2>1. Shows(k, kind, Id(0), d) = <<>>
    BY <1>3, MarkedEmpty DEF Shows
  <2>2. <<>> \in Seq(BlockRecord) /\ Streams!Read(k, <<>>) = <<>>
    BY NothingRead
  <2>. QED BY <1>2, <1>3, <2>1, <2>2
<1>4. CASE d # <<>>
  <2>1. <<>> \in Seq(BlockRecord) /\ Streams!Read(k, <<>>) = <<>> /\ Append(<<>>, b) = <<b>>
    BY NothingRead
  <2>2. /\ Append(<<>>, b) \in Seq(BlockRecord)
        /\ Streams!Read(k, Append(<<>>, b)) = Streams!Read(k, <<>>) \o Shows(k, b.kind, b.call, b.data)
    BY <1>1, <2>1, BlocksAppend
  <2>3. Shows(k, kind, Id(0), d) \in Seq(PieceRead)
    BY IdIs, ShowsTyped
  <2>4. <<>> \o Shows(k, kind, Id(0), d) = Shows(k, kind, Id(0), d)
    BY <2>3, EmptyJoin
  <2>. QED BY <1>1, <1>2, <1>4, <2>1, <2>2, <2>4
<1>. QED BY <1>3, <1>4

LEMMA BlocksJoin ==
    ASSUME NEW k, NEW a \in Seq(BlockRecord), NEW b \in Seq(BlockRecord)
    PROVE  /\ a \o b \in Seq(BlockRecord)
           /\ Streams!Read(k, a \o b) = Streams!Read(k, a) \o Streams!Read(k, b)
<1>1. a \o b \in Seq(BlockRecord)
  OBVIOUS
<1>2. Maps(BlockOf(k), BlockRecord, Seq(PieceRead))
  BY MapsTyped
<1>3. FlatMap(BlockOf(k), a \o b) = FlatMap(BlockOf(k), a) \o FlatMap(BlockOf(k), b)
  BY <1>2, FlatMapJoin
<1>. QED BY <1>1, <1>3, ReadingIs

\* The blocks put together at the end are read as what was sent.
LEMMA CollectedReads ==
    ASSUME SentHeld, SaidTwice, GatheredAll, NEW kind \in Streams!Kinds
    PROVE  /\ Streams!Read({kind}, Streams!CollectedAnthropic.blocks) = Streams!Content({kind} \cap Streams!Shown)
           /\ kind \in Streams!Spoken =>
                Streams!Read({kind}, Streams!CollectedGemini.parts) = Streams!Content({kind})
<1> DEFINE T == Streams!SentPieces("text")
           R == IF x1.reasoning THEN Streams!SentPieces("reasoning") ELSE <<>>
           S == Streams!SentCalls
           k == {kind}
           a == Streams!OneBlock("reasoning", R)
           b == Streams!OneBlock("text", T)
           c == Mapped(AsCall, S)
<1>1. T \in Seq(Nat) /\ R \in Seq(Nat) /\ S \in Seq(CallArgs) /\ Id(0) \in CallId
  <2>1. <<>> \in Seq(Nat)
    OBVIOUS
  <2>. QED BY <2>1, CallSequences
<1>2. "text" \in BlockKinds /\ "reasoning" \in BlockKinds /\ k \in SUBSET Streams!Kinds
      /\ kind \in {"text", "reasoning", "call"} /\ Streams!Spoken = {"text", "call"}
  BY KindsAre
<1>3. Streams!CallBlocks = c
  <2>1. x10.calls = S
    BY DEF GatheredAll
  <2>2. DOMAIN S = 1 .. Len(S) /\ \A i \in DOMAIN S : S[i] \in CallArgs
    BY <1>1
  <2>3. \A i \in DOMAIN S : AsCall[S[i]] = [kind |-> "call", call |-> S[i].call, data |-> S[i].args, open |-> FALSE]
    BY <2>2, CallMapIs
  <2> HIDE DEF S
  <2>. QED BY <2>1, <2>3 DEF Streams!CallBlocks, Mapped
<1>4. Streams!CollectedAnthropic.blocks = (a \o b) \o c
  BY <1>3 DEF Streams!CollectedAnthropic, GatheredAll
<1>5. Streams!CollectedGemini.parts = b \o c
  BY <1>3 DEF Streams!CollectedGemini, GatheredAll
<1>6. /\ a \in Seq(BlockRecord) /\ Streams!Read(k, a) = Shows(k, "reasoning", Id(0), R)
      /\ b \in Seq(BlockRecord) /\ Streams!Read(k, b) = Shows(k, "text", Id(0), T)
  <2> HIDE DEF R, T, k
  <2>. QED BY <1>1, <1>2, OneBlockReads
<1>7. c \in Seq(BlockRecord) /\ Streams!Read(k, c) = Streams!Content(k \cap {"call"})
  <2>1. c \in Seq(BlockRecord)
    BY <1>1, CallMapIs, MapTyped
  <2>. QED BY <1>2, <2>1 DEF SaidTwice
<1> HIDE DEF a, b, c
<1>8. /\ Streams!Read(k, (a \o b) \o c) =
            (Shows(k, "reasoning", Id(0), R) \o Shows(k, "text", Id(0), T)) \o Streams!Content(k \cap {"call"})
      /\ Streams!Read(k, b \o c) = Shows(k, "text", Id(0), T) \o Streams!Content(k \cap {"call"})
  <2>1. a \o b \in Seq(BlockRecord) /\ Streams!Read(k, a \o b) = Streams!Read(k, a) \o Streams!Read(k, b)
    BY <1>6, BlocksJoin
  <2>2. Streams!Read(k, (a \o b) \o c) = Streams!Read(k, a \o b) \o Streams!Read(k, c)
    BY <1>7, <2>1, BlocksJoin
  <2>3. Streams!Read(k, b \o c) = Streams!Read(k, b) \o Streams!Read(k, c)
    BY <1>6, <1>7, BlocksJoin
  <2>. QED BY <1>6, <1>7, <2>1, <2>2, <2>3
<1>9. /\ Streams!Content({"text"}) = Marked("text", Id(0), T)
      /\ Streams!Content({"reasoning"}) = Marked("reasoning", Id(0), Streams!SentPieces("reasoning"))
      /\ Streams!Content({}) = <<>>
      /\ \A j : Streams!Content(j) \in Seq(PieceRead)
      /\ Marked("reasoning", Id(0), <<>>) = <<>>
  BY CallSequences, MarkedEmpty DEF SaidTwice
<1>10. \A u \in Seq(PieceRead) : u \o <<>> = u /\ <<>> \o u = u
  BY EmptyJoin
<1>11. <<>> \o <<>> = <<>>
  OBVIOUS
<1>12. CASE kind = "text"
  <2>1. Shows(k, "reasoning", Id(0), R) = <<>> /\ Shows(k, "text", Id(0), T) = Streams!Content({"text"})
    BY <1>9, <1>12 DEF Shows
  <2>2. k \cap {"call"} = {} /\ k \cap Streams!Shown = {"text"}
    BY <1>12, ShownIs
  <2>. QED BY <1>4, <1>5, <1>8, <1>9, <1>10, <1>11, <1>12, <2>1, <2>2
<1>13. CASE kind = "call"
  <2>1. Shows(k, "reasoning", Id(0), R) = <<>> /\ Shows(k, "text", Id(0), T) = <<>>
    BY <1>13 DEF Shows
  <2>2. k \cap {"call"} = {"call"} /\ k \cap Streams!Shown = {"call"}
    BY <1>13, ShownIs
  <2>. QED BY ZenonT(60), <1>4, <1>5, <1>8, <1>9, <1>10, <1>11, <1>13, <2>1, <2>2
<1>14. CASE kind = "reasoning"
  <2>1. Shows(k, "reasoning", Id(0), R) = Marked("reasoning", Id(0), R) /\ Shows(k, "text", Id(0), T) = <<>>
    BY <1>14 DEF Shows
  <2>2. k \cap {"call"} = {} /\ k \cap Streams!Shown = IF x1.reasoning THEN {"reasoning"} ELSE {}
    BY <1>14, ShownIs
  <2>3. Marked("reasoning", Id(0), R) = Streams!Content(k \cap Streams!Shown)
    BY <1>9, <2>2
  <2> DEFINE m == Marked("reasoning", Id(0), R)
  <2>4. m \in Seq(PieceRead)
    BY <1>9, <2>3
  <2> HIDE DEF m
  <2>5. (m \o <<>>) \o <<>> = m
    BY <1>10, <2>4
  <2>6. Streams!Read(k, (a \o b) \o c) = (m \o <<>>) \o <<>>
    BY <1>8, <1>9, <2>1, <2>2 DEF m
  <2>. QED BY <1>2, <1>4, <1>14, <2>3, <2>5, <2>6 DEF m
<1>. QED BY <1>2, <1>12, <1>13, <1>14

LEMMA CollectedHolds == ASSUME ClientsHeld PROVE Streams!CollectedAgrees
<1> DEFINE T == Streams!SentPieces("text")
           S == Streams!SentCalls
<1> SUFFICES ASSUME Streams!Completed, x4 = "end", Streams!Content(Streams!Spoken) # <<>>
             PROVE  /\ ~Streams!CollectedOpenAI.failed /\ ~Streams!CollectedPassthrough.failed
                    /\ Streams!CollectedOpenAI.text = x6.text
                    /\ Streams!CollectedOpenAI.reasoning = x6.reasoning
                    /\ Streams!CollectedOpenAI.calls = x6.calls
                    /\ Streams!CollectedOpenAI.finish = x6.finish
                    /\ Streams!CollectedAnthropic.stop = x7.stop
                    /\ \A k \in Streams!Kinds :
                          Streams!Read({k}, Streams!CollectedAnthropic.blocks) = Streams!Read({k}, x7.blocks)
                    /\ \A k \in Streams!Spoken :
                          Streams!Read({k}, Streams!CollectedGemini.parts) = Streams!Read({k}, x8.parts)
  BY DEF Streams!CollectedAgrees
<1>1. /\ SentHeld /\ SaidTwice /\ OpenAIWhole /\ AnthropicWhole /\ GeminiWhole /\ GatheredAll
      /\ x10.result = "completed"
  BY DEF ClientsHeld, Whole
<1>2. T # <<>> \/ S # <<>>
  BY <1>1 DEF SaidTwice
<1>3. ~Streams!Nothing
  BY <1>2 DEF Streams!Nothing
<1>4. /\ x6.text = T
      /\ x6.reasoning = IF x1.reasoning THEN Streams!SentPieces("reasoning") ELSE <<>>
      /\ x6.calls = S
      /\ x6.finish = IF S = <<>> THEN "stop" ELSE "tool_calls"
      /\ x10.text = T /\ x10.reasoning = Streams!SentPieces("reasoning") /\ x10.calls = S
      /\ x7.stop = IF S = <<>> THEN "end_turn" ELSE "tool_use"
  BY <1>1, <1>3 DEF OpenAIWhole, AnthropicWhole, GatheredAll
<1>5. ~Streams!Empty
  BY <1>2, <1>4 DEF Streams!Empty
<1>6. ~Streams!CollectedOpenAI.failed /\ ~Streams!CollectedPassthrough.failed
  BY <1>1, <1>5 DEF Streams!CollectedOpenAI, Streams!CollectedPassthrough
<1>7. /\ Streams!CollectedOpenAI.text = x6.text
      /\ Streams!CollectedOpenAI.reasoning = x6.reasoning
      /\ Streams!CollectedOpenAI.calls = x6.calls
      /\ Streams!CollectedOpenAI.finish = x6.finish
      /\ Streams!CollectedAnthropic.stop = x7.stop
  BY <1>4 DEF Streams!CollectedOpenAI, Streams!CollectedAnthropic
<1>8. ASSUME NEW k \in Streams!Kinds
      PROVE  Streams!Read({k}, Streams!CollectedAnthropic.blocks) = Streams!Read({k}, x7.blocks)
  <2>1. Streams!Read({k}, Streams!CollectedAnthropic.blocks) = Streams!Content({k} \cap Streams!Shown)
    BY <1>1, CollectedReads
  <2>2. {k} \in SUBSET Streams!Kinds
    OBVIOUS
  <2>. QED BY <1>1, <1>3, <2>1, <2>2 DEF AnthropicWhole
<1>9. ASSUME NEW k \in Streams!Spoken
      PROVE  Streams!Read({k}, Streams!CollectedGemini.parts) = Streams!Read({k}, x8.parts)
  <2>1. k \in Streams!Kinds
    BY KindsAre
  <2>2. Streams!Read({k}, Streams!CollectedGemini.parts) = Streams!Content({k})
    BY <1>1, <2>1, CollectedReads
  <2>. QED BY <1>1, <2>2 DEF GeminiWhole
<1>. QED BY <1>6, <1>7, <1>8, <1>9

LEMMA ClientsSound == ASSUME ClientsHeld PROVE Streams!TypeOK /\ Streams!StreamsKept
  BY TypeHolds, OnlySentHolds, CompletedHolds, CollectedHolds, BlocksHold DEF Streams!StreamsKept

-----------------------------------------------------------------------------
(* The streams as they run in ExchangesSpec *)

StreamsInv == part = "streams" => ClientsHeld

LEMMA StreamsStart == ExchangesInit => StreamsInv
  BY ClientsStart DEF ExchangesInit, StreamsInv

LEMMA StreamsStep ==
    ASSUME StreamsInv, ExchangesNext \/ UNCHANGED allVars
    PROVE  StreamsInv'
<1>1. part' = part
  BY DEF ExchangesNext, allVars
<1>2. CASE part = "streams"
  <2>1. Streams!Next \/ UNCHANGED <<x1, x2, x3, x4, x5, x6, x7, x8, x9, x10>>
    BY <1>2 DEF ExchangesNext, allVars, from1, from2, from3, from4, from5, from6, from7, from8,
                from9, from10, from11
  <2>2. ClientsHeld
    BY <1>2 DEF StreamsInv
  <2>3. ClientsHeld'
    BY <2>1, <2>2, ClientsStep
  <2> QED
    BY <2>3 DEF StreamsInv
<1> QED
  BY <1>1, <1>2 DEF StreamsInv

LEMMA ClientsKept == ExchangesSpec => []StreamsInv
<1>1. StreamsInv /\ [ExchangesNext]_allVars => StreamsInv'
  BY StreamsStep
<1> QED
  BY <1>1, StreamsStart, PTL DEF ExchangesSpec

\* Until the answer completes or fails, no client has read anything but what the
\* upstream said, in order and once; once it has completed, each has all of it,
\* whatever its format and whether it streams or collects: texts, the reasoning it
\* asked for, every call with its whole arguments, the reason of the end, the same
\* usage; and the blocks of the Anthropic stream are closed at its end.  With this
\* the answers are delivered and the providers understood (AnswersDelivered,
\* ProvidersUnderstood).  For any number of events and calls, arguments in pieces
\* or at once, whenever the answer completes, fails, is incomplete, breaks off or
\* loses its client (codex-to-openai.ts, codex-to-anthropic.ts,
\* codex-to-gemini.ts, codex-event-extractor.ts, responses.ts).
THEOREM StreamsHold == ExchangesSpec => []StreamsSound
<1>1. StreamsInv => (part = "streams" => Streams!TypeOK /\ Streams!StreamsKept)
  BY ClientsSound DEF StreamsInv
<1>2. ASSUME StreamsInv, AnswersSound, ProvidersSound PROVE StreamsSound
  BY <1>1, <1>2 DEF StreamsSound, AnswersSound, ProvidersSound
<1> QED
  BY <1>2, ClientsKept, AnswersDelivered, ProvidersUnderstood, PTL
=============================================================================
