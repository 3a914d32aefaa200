----------------------------- MODULE MCPolicing -----------------------------
(* Small instances of Policing for TLC. *)
EXTENDS Policing, TLC

SomeRates == {[rate |-> 0, burst |-> 0], [rate |-> 1, burst |-> 2], [rate |-> 3, burst |-> 4]}

Symmetry == Permutations(Cpu)
=============================================================================
