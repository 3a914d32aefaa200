------------------------------ MODULE Services ------------------------------
(***************************************************************************)
(* The services of one answer (services.py): prepare drops what the         *)
(* configuration gets wrong, sanitize decides which of the requested        *)
(* services become active.                                                  *)
(*                                                                          *)
(* sanitize walks the request in its order, here 1 .. N.  The configuration *)
(* of each service is arbitrary, so one order stands for all.               *)
(***************************************************************************)
EXTENDS Naturals, FiniteSets

CONSTANTS
  N,        \* services in the request
  Type,     \* kinds of service: policer, tagger
  Class,    \* traffic classes
  Conf      \* the definitions that configurations have

Definition == [type : Type, classes : SUBSET Class, rateOk : BOOLEAN]

ASSUME ServicesAssumption == N \in Nat /\ Conf \subseteq Definition

Svc == 1 .. N
NoOwner == 0

VARIABLES
  conf,     \* service -> its definition
  request,  \* service -> "A" or "N", or "-" when it is not in the request
  known,    \* the services prepare has kept
  k,        \* services walked
  onCls,    \* type -> class -> the service that took it first
  ret       \* service -> "-" (not in the result), "A" or "N"

vars == <<conf, request, known, k, onCls, ret>>

TypeOK ==
  /\ conf \in [Svc -> Conf]
  /\ request \in [Svc -> {"-", "A", "N"}]
  /\ known \subseteq Svc
  /\ k \in 0 .. N
  /\ onCls \in [Type -> [Class -> Svc \cup {NoOwner}]]
  /\ ret \in [Svc -> {"-", "A", "N"}]
  /\ \A s \in Svc : ret[s] # "-" <=> s <= k /\ s \in known /\ request[s] # "-"

(* prepare: no classes, or a rate that is not one, and the service is gone. *)
Prepared(c) == {s \in Svc : c[s].classes # {} /\ c[s].rateOk}

Init ==
  /\ conf \in [Svc -> Conf]
  /\ request \in [Svc -> {"-", "A", "N"}]
  /\ known = Prepared(conf)
  /\ k = 0
  /\ onCls = [t \in Type |-> [c \in Class |-> NoOwner]]
  /\ ret = [s \in Svc |-> "-"]

Owner(s, c) == onCls[conf[s].type][c]
Taken(s) == {c \in conf[s].classes : Owner(s, c) # NoOwner}

Unknown(s) ==
  /\ s \notin known \/ request[s] = "-"
  /\ UNCHANGED <<ret, onCls>>

Off(s) ==
  /\ s \in known /\ request[s] = "N"
  /\ ret' = [ret EXCEPT ![s] = "N"]
  /\ UNCHANGED onCls

Overlap_OwnerKept(s) ==
  /\ s \in known /\ request[s] = "A" /\ Taken(s) # {}
  /\ ret' = [ret EXCEPT ![s] = "A"]
  /\ UNCHANGED onCls

(* A class of the service is taken: the service and the owner of the first  *)
(* such class in its list are off.  The owner keeps the class.              *)
Overlap(s) ==
  /\ s \in known /\ request[s] = "A"
  /\ \E c \in Taken(s) : ret' = [ret EXCEPT ![s] = "N", ![Owner(s, c)] = "N"]
  /\ UNCHANGED onCls

Claim_AnyType(s) ==
  onCls' = [t \in Type |-> [c \in Class |-> IF c \in conf[s].classes THEN s ELSE onCls[t][c]]]

Claim(s) ==
  onCls' = [onCls EXCEPT ![conf[s].type] = [c \in Class |-> IF c \in conf[s].classes THEN s ELSE @[c]]]

On(s) ==
  /\ s \in known /\ request[s] = "A" /\ Taken(s) = {}
  /\ ret' = [ret EXCEPT ![s] = "A"]
  /\ Claim(s)

(* One turn of the loop in sanitize. *)
Resolve ==
  /\ k < N
  /\ k' = k + 1
  /\ (Unknown(k') \/ Off(k') \/ Overlap(k') \/ On(k'))
  /\ UNCHANGED <<conf, request, known>>

Next == Resolve

Spec == Init /\ [][Next]_vars

-----------------------------------------------------------------------------
Share(s, u) == conf[s].type = conf[u].type /\ conf[s].classes \cap conf[u].classes # {}

(* No two active services of one type cover a common class: the kernel      *)
(* would apply whichever it meets first.                                    *)
NoSharedClass ==
  \A s, u \in Svc : s # u /\ ret[s] = "A" /\ ret[u] = "A" => ~Share(s, u)

(* A known service that was asked for is off only together with another one *)
(* that was asked for, of the same type and with a class in common: neither *)
(* of the two is preferred.                                                 *)
OffForAReason ==
  \A s \in known : s <= k /\ request[s] = "A" /\ ret[s] = "N" =>
    \E u \in known \ {s} : u <= k /\ request[u] = "A" /\ ret[u] = "N" /\ Share(s, u)
=============================================================================
