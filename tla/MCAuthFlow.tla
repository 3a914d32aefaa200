----------------------------- MODULE MCAuthFlow -----------------------------
(* Small instances of AuthFlow for TLC. *)
EXTENDS AuthFlow

(* A RADIUS server alone, with a garden, or with the database behind it and *)
(* without one.                                                             *)
TwoConfigs == {[pool |-> <<"radius">>, garden |-> TRUE],
               [pool |-> <<"radius", "mysql">>, garden |-> FALSE]}
=============================================================================
