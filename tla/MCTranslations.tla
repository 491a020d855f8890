--------------------------- MODULE MCTranslations ---------------------------
(***************************************************************************)
(* MCExchanges with the translation of schemas as one more part.  It is    *)
(* apart because the operators of TupleSchema are recursive.               *)
(***************************************************************************)
EXTENDS MCExchanges

Tuples == INSTANCE TupleSchema WITH
    asked <- x1, prepared <- x2, answer <- x3, restored <- x4, Depth <- 2,
    MaxTuple <- 2

TranslationsInit ==
    \/ ExchangesInit
    \/ /\ Init
       /\ part = "tuples" /\ Tuples!Init /\ Zero5

TranslationsNext ==
    \/ ExchangesNext
    \/ /\ UNCHANGED <<part, vars>>
       /\ part = "tuples" /\ Tuples!Next /\ UNCHANGED from5

TranslationsSpec ==
    TranslationsInit /\ [][TranslationsNext]_allVars /\ ExchangesFair

-----------------------------------------------------------------------------
(* Properties of the translations *)

\* A conversation in any client format comes out with the same texts, calls and
\* results paired (*-to-codex.ts), and an answer to a schema whose tuples were
\* rewritten fits the schema the client sent (tuple-schema.ts).
TranslationKeeps ==
    /\ TalksSound
    /\ part = "tuples" => Tuples!AnswersAsAsked
=============================================================================
