------------------------------- MODULE Mutex --------------------------------
(* What the refresh lock of an account promises (the head comment of         *)
(* src/auth/refresh-lock.ts): at any time at most one caller, in whatever    *)
(* process, is refreshing the account.                                       *)
CONSTANT Procs
VARIABLE holders

Init == holders = {}

Acquire(p) == holders = {} /\ holders' = {p}

\* A holder lets go, or its process dies.
Leave(p) == p \in holders /\ holders' = holders \ {p}

Next == \E p \in Procs : Acquire(p) \/ Leave(p)

Spec == Init /\ [][Next]_holders
=============================================================================
