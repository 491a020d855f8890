---------------------------- MODULE TupleSchema -----------------------------
(***************************************************************************)
(* Structured answers with tuples (src/translation/tuple-schema.ts,        *)
(* prepareSchema of shared-utils.ts): the upstream does not know           *)
(* prefixItems, so a tuple is asked for as an object with the keys 0, 1,   *)
(* ... and every such object is turned back into an array in the answer.   *)
(*                                                                         *)
(* Data abstraction: a schema is a tree of the kinds the walk tells apart; *)
(* properties has one key, and anyOf stands for oneOf too; allOf, where a  *)
(* value fits every branch, is left out.  A $ref leads to the one          *)
(* definition of the root.                                                 *)
(***************************************************************************)
EXTENDS Naturals, Sequences

CONSTANTS
    Depth,     \* bound: nesting of the schemas
    MaxTuple   \* bound: length of a tuple

VARIABLES
    asked,     \* the client's schema and its definition
    prepared,  \* the schema sent upstream and the one kept for the way back
    answer,    \* the upstream's answer
    restored   \* what the client gets

tupleVars == <<asked, prepared, answer, restored>>

Nothing == [kind |-> "nothing"]
Leaf == [kind |-> "leaf"]
Ref == [kind |-> "ref"]
Tuple(items) == [kind |-> "tuple", items |-> items]
Object(props) == [kind |-> "object", props |-> props]
ArrayOf(item) == [kind |-> "array", item |-> item]
AnyOf(branches) == [kind |-> "anyOf", branches |-> branches]

Key == MaxTuple + 1    \* a property that is no position

SeqsOf(S) == UNION {[1 .. n -> S] : n \in 1 .. MaxTuple}

RECURSIVE SchemasOf(_, _)
SchemasOf(base, d) ==
    IF d = 0 THEN base
    ELSE LET inner == SchemasOf(base, d - 1)
         IN  inner \cup {Tuple(s) : s \in SeqsOf(inner)}
                   \cup {Object([k \in {Key} |-> s]) : s \in inner}
                   \cup {ArrayOf(s) : s \in inner}
                   \cup {AnyOf(<<s, t>>) : s, t \in inner}

-----------------------------------------------------------------------------
(* hasTupleSchemas, without following references; the definitions of the   *)
(* root are walked with it                                                 *)

RECURSIVE Walk(_)
Walk(s) ==
    CASE s.kind = "tuple" -> TRUE
      [] s.kind = "object" -> \E k \in DOMAIN s.props : Walk(s.props[k])
      [] s.kind = "array" -> Walk(s.item)
      [] s.kind = "anyOf" -> \E i \in DOMAIN s.branches : Walk(s.branches[i])
      [] OTHER -> FALSE

HasTuples(root) == Walk(root.schema) \/ Walk(root.def)

\* A tuple becomes an object whose keys are its positions.
RECURSIVE Convert(_)
Convert(s) ==
    CASE s.kind = "tuple" -> Object([i \in DOMAIN s.items |-> Convert(s.items[i])])
      [] s.kind = "object" -> Object([k \in DOMAIN s.props |-> Convert(s.props[k])])
      [] s.kind = "array" -> ArrayOf(Convert(s.item))
      [] s.kind = "anyOf" -> AnyOf([i \in DOMAIN s.branches |-> Convert(s.branches[i])])
      [] OTHER -> s

Prepare(root) ==
    IF HasTuples(root)
      THEN [sent |-> [schema |-> Convert(root.schema), def |-> Convert(root.def)], original |-> root]
      ELSE [sent |-> root, original |-> Nothing]

-----------------------------------------------------------------------------
(* Values: a plain one, a list, or a map *)

Plain == [kind |-> "plain"]
List(items) == [kind |-> "list", items |-> items]
Map(fields) == [kind |-> "map", fields |-> fields]

\* The values of a schema; an array has at most one element.
RECURSIVE Values(_, _)
Choices(f) ==
    {g \in [DOMAIN f -> UNION {f[k] : k \in DOMAIN f}] : \A k \in DOMAIN f : g[k] \in f[k]}
Values(s, def) ==
    CASE s.kind = "leaf" -> {Plain}
      [] s.kind = "ref" -> Values(def, Leaf)
      [] s.kind = "tuple" ->
            {List(g) : g \in Choices([i \in DOMAIN s.items |-> Values(s.items[i], def)])}
      [] s.kind = "object" ->
            {Map(g) : g \in Choices([k \in DOMAIN s.props |-> Values(s.props[k], def)])}
      [] s.kind = "array" -> {List(<<>>)} \cup {List(<<v>>) : v \in Values(s.item, def)}
      [] s.kind = "anyOf" -> UNION {Values(s.branches[i], def) : i \in DOMAIN s.branches}

\* The branch of a choice that is taken for the answer, whichever it fits.
FirstWithTuples(s) ==
    CHOOSE i \in DOMAIN s.branches :
        Walk(s.branches[i]) /\ \A j \in 1 .. (i - 1) : ~Walk(s.branches[j])

\* A position the map does not have is undefined.
Field(v, i) == IF i \in DOMAIN v.fields THEN v.fields[i] ELSE Nothing

\* reconvertTupleValues: the original schema leads through the answer.
RECURSIVE Reconvert(_, _, _)
Reconvert(v, s, def) ==
    CASE s.kind = "ref" -> Reconvert(v, def, Leaf)
      [] s.kind = "tuple" /\ v.kind = "map" ->
            List([i \in DOMAIN s.items |-> Reconvert(Field(v, i), s.items[i], def)])
      [] s.kind = "object" /\ v.kind = "map" ->
            Map([k \in DOMAIN v.fields |->
                    IF k \in DOMAIN s.props THEN Reconvert(v.fields[k], s.props[k], def)
                    ELSE v.fields[k]])
      [] s.kind = "array" /\ v.kind = "list" ->
            List([i \in DOMAIN v.items |-> Reconvert(v.items[i], s.item, def)])
      [] s.kind = "anyOf" /\ Walk(s) -> Reconvert(v, s.branches[FirstWithTuples(s)], def)
      [] OTHER -> v

\* Mutant of Restored: the answer is led by the schema that was sent.
RestoredBySent ==
    IF prepared.original = Nothing THEN answer
    ELSE Reconvert(answer, prepared.sent.schema, prepared.sent.def)

\* The answer as the client gets it.
Restored ==
    IF prepared.original = Nothing THEN answer
    ELSE Reconvert(answer, prepared.original.schema, prepared.original.def)

-----------------------------------------------------------------------------
(* One structured request *)

Init ==
    /\ asked \in [schema : SchemasOf({Leaf, Ref}, Depth), def : SchemasOf({Leaf}, 1)]
    /\ prepared = Nothing
    /\ answer = Nothing
    /\ restored = Nothing

Ask ==
    /\ prepared = Nothing
    /\ prepared' = Prepare(asked)
    /\ UNCHANGED <<asked, answer, restored>>

\* The upstream keeps to the schema it was sent.
Answer ==
    /\ prepared # Nothing /\ answer = Nothing
    /\ answer' \in Values(prepared.sent.schema, prepared.sent.def)
    /\ UNCHANGED <<asked, prepared, restored>>

Restore ==
    /\ answer # Nothing /\ restored = Nothing
    /\ restored' = Restored
    /\ UNCHANGED <<asked, prepared, answer>>

Next == Ask \/ Answer \/ Restore

Spec == Init /\ [][Next]_tupleVars

-----------------------------------------------------------------------------
(* Properties *)

RECURSIVE Parts(_)
Parts(s) ==
    {s} \cup CASE s.kind = "tuple" -> UNION {Parts(s.items[i]) : i \in DOMAIN s.items}
               [] s.kind = "object" -> UNION {Parts(s.props[k]) : k \in DOMAIN s.props}
               [] s.kind = "array" -> Parts(s.item)
               [] s.kind = "anyOf" -> UNION {Parts(s.branches[i]) : i \in DOMAIN s.branches}
               [] OTHER -> {}

\* A tuple may occur in the values, be it by the definition.
ReachesTuple(s, def) == Walk(s) \/ (Walk(def) /\ Ref \in Parts(s))

\* What the upstream may answer to s: plain values, lists or maps.
Shapes(s, def) == {v.kind : v \in Values(Convert(s), Convert(def))}

\* What s turns into something else.
Turned(s) ==
    CASE s.kind \in {"tuple", "object"} -> {"map"}
      [] s.kind = "array" -> {"list"}
      [] OTHER -> {"map", "list"}

\* The choices that the heuristic of reconvertTupleValues gets wrong: a tuple is
\* reached only by a reference, which Walk does not follow, or an answer to another
\* branch has tuples of its own or looks like one to the branch that is taken.
Mistaken(p, def) ==
    IF Walk(p)
      THEN LET taken == FirstWithTuples(p)
           IN  \E i \in DOMAIN p.branches \ {taken} :
                   \/ ReachesTuple(p.branches[i], def)
                   \/ Shapes(p.branches[i], def) \cap Turned(p.branches[taken]) # {}
      ELSE ReachesTuple(p, def)

\* The restored answer is a value of the schema the client asked for, through
\* objects, arrays, tuples, references and choices ("wherever the original schema
\* had prefixItems").  Not so with a choice the heuristic gets wrong: an object
\* of another branch may become an array there, or a tuple stay an object.
AnswersAsAsked ==
    /\ restored # Nothing
    /\ \A p \in Parts(asked.schema) \cup Parts(asked.def) :
          p.kind = "anyOf" => ~Mistaken(p, asked.def)
    => restored \in Values(asked.schema, asked.def)
=============================================================================
