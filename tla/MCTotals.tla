------------------------------ MODULE MCTotals ------------------------------
(* Small instances of Totals for TLC. *)
EXTENDS Totals
=============================================================================
