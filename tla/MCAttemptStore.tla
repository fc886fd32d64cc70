--------------------------- MODULE MCAttemptStore ---------------------------
(* Model checking AttemptStore: two jobs and a top-up compete for the      *)
(* nonces of one pair.                                                     *)
EXTENDS AttemptStore, TLC

CONSTANTS j1, j2

\* The jobs are interchangeable: nothing orders or singles out one of them.
JobSymmetry == Permutations(Jobs)
=============================================================================
