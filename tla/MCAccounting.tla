---------------------------- MODULE MCAccounting ----------------------------
(* Small instances of Accounting for TLC. *)
EXTENDS Accounting
=============================================================================
