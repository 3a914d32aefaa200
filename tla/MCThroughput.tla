---------------------------- MODULE MCThroughput ----------------------------
(* Small instances of Throughput for TLC. *)
EXTENDS Throughput
=============================================================================
