------------------------ MODULE MCRefreshScheduler -------------------------
(* Instances of RefreshScheduler for TLC. *)
EXTENDS RefreshScheduler, TLC

CONSTANTS p1, p2, x, y, z

Interchangeable == Permutations(Accounts) \cup Permutations(Procs)
=============================================================================
