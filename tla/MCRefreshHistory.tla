------------------------ MODULE MCRefreshHistory ---------------------------
(* Instances of RefreshHistory for TLC. *)
EXTENDS RefreshHistory, TLC

CONSTANTS p1, p2, x, y, z

Interchangeable == Permutations(Accounts) \cup Permutations(Procs)
=============================================================================
