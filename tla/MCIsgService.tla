---------------------------- MODULE MCIsgService ----------------------------
(* Small instances of IsgService for TLC. *)
EXTENDS IsgService, TLC

Symmetry == Permutations(Srv) \cup Permutations(Nl) \cup Permutations(Cpu)
=============================================================================
