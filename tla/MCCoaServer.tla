---------------------------- MODULE MCCoaServer -----------------------------
(* Small instances of CoaServer for TLC. *)
EXTENDS CoaServer

CONSTANTS policer, tagger, c1, c2

(* Policers with one class and with two, and a tagger that prepare drops. *)
FewDefinitions ==
  {[type |-> policer, classes |-> cs, rateOk |-> TRUE] : cs \in {{c1}, {c1, c2}}}
  \cup {[type |-> tagger, classes |-> {c1}, rateOk |-> ok] : ok \in BOOLEAN}

Types == {policer, tagger}
Classes == {c1, c2}
=============================================================================
