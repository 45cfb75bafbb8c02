------------------------------- MODULE MCServer -------------------------------
(***************************************************************************)
(* Instances of Server for TLC.  Administrators do the same things, and    *)
(* so do files.                                                            *)
(***************************************************************************)
EXTENDS Server, TLC

CONSTANTS a1, a2, c1, f1, f2

TwoAdmins == {a1, a2}
OneClient == {c1}
MCWorkers == TwoAdmins \union OneClient
MCFlushers == MCWorkers \union {"loop", "main"}
TwoFiles == {f1, f2}

Bounds ==
  [a \in Areas |-> IF a = "models" THEN 2 ELSE 3]

Alike == Permutations(TwoAdmins) \union Permutations(TwoFiles)

=============================================================================
