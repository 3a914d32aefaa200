----------------------------- MODULE MCControl ------------------------------
(* Small instances of Control for TLC. *)
EXTENDS Control, TLC

(* Requests that limit no direction or one. *)
OneOrNone == {{}} \cup {{d} : d \in Dir}

Symmetry == Permutations(Slot) \cup Permutations(IP) \cup Permutations(Dir)
=============================================================================
