------------------------------ MODULE MCLedger ------------------------------
(* Model checking Ledger.  Each Ledger*.cfg chooses the kind of chain, how *)
(* far its nodes lag and the activity that one question needs.             *)
EXTENDS Ledger
=============================================================================
