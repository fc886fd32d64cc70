------------------------------ MODULE MCRelay ------------------------------
(* Model checking Relay.  Each Relay*.cfg chooses the jobs, the pairs, the *)
(* kind of chain and the mishaps of one question.                          *)
EXTENDS Relay, TLC

CONSTANTS j1, j2, p1, p2

\* stuck_ladder of chain/kinds/geth.rs (opstack.rs and arc.rs have the same)
\* and monad.rs.
GethLadder == <<"Rebroadcast", "Diagnose", "Bump", "Noop">>
MonadLadder == <<"Diagnose", "Rebroadcast", "Bump", "Noop">>

PairSymmetry == Permutations(Pairs)
JobSymmetry == Permutations(Jobs)
Symmetry == Permutations(Jobs) \cup Permutations(Pairs)
=============================================================================
