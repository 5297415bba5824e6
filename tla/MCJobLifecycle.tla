--------------------------- MODULE MCJobLifecycle ---------------------------
(***************************************************************************)
(* Instances of JobLifecycle for TLC.                                      *)
(***************************************************************************)
EXTENDS JobLifecycle, TLC

CONSTANTS j1, j2

\* j1 outranks j2
MCPriority == [j \in Jobs |-> IF j = j1 THEN 2 ELSE 1]

\* workers (and shells) are interchangeable; only for runs without liveness
ProcSymmetry == Permutations(Workers) \cup Permutations(Clis)
=============================================================================
