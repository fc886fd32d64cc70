------------------------------ MODULE MCOutbox ------------------------------
(* Model checking Outbox.  Each Outbox*.cfg chooses the mishaps of one     *)
(* question.                                                               *)
EXTENDS Outbox

CONSTANTS j1, j2, h1

\* Every job's webhook goes to one host, where receivers contend.
OneHost == [j \in Jobs |-> h1]
=============================================================================
