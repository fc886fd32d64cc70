---------------------------- MODULE MCJobQueue ----------------------------
(* Model checking JobQueue.  Each Queue*.cfg chooses the jobs, the workers *)
(* and the mishaps of one question.                                        *)
EXTENDS JobQueue

CONSTANTS j1, j2, j3, w1, w2

Symmetry == Permutations(Jobs) \cup Permutations(Workers)
=============================================================================
