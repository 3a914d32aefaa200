---------------------------- MODULE MCIsgSession ----------------------------
(* Small instances of IsgSession for TLC. *)
EXTENDS IsgSession, TLC

Symmetry == Permutations(Obj) \cup Permutations(IP)
            \cup Permutations(Nl) \cup Permutations(Cpu)
=============================================================================
