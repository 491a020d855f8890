--------------------------- MODULE MCProxyHandler ---------------------------
(* Instances of ProxyHandler for TLC. *)
EXTENDS ProxyHandler, TLC

CONSTANTS a1, a2, r1, r2, r3

\* Both accounts serve the model of every request.
AllSuited == [r \in Requests |-> Accounts]

\* Only the first account serves the model of request r1.
OneSuited == [r \in Requests |-> IF r = r1 THEN {a1} ELSE Accounts]

\* The outcomes after which no account is marked.
MildOutcomes == {"ok", "model", "error", "thrown", "empty", "broken"}

Interchangeable == Permutations(Accounts) \cup Permutations(Requests)
=============================================================================
