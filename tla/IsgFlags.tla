------------------------------ MODULE IsgFlags ------------------------------
(***************************************************************************)
(* The flag word of a session (isg_main.h: enum isg_service_flags).  A word *)
(* is the set of the bits that are set, so "flags == 0" is the empty set.   *)
(***************************************************************************)

AllFlags == {"APPROVED", "SERVICE", "STATUS_ON", "ONLINE",
             "NO_ACCT", "DYING", "TAGGER"}

(* The bits a request may write. *)
FLAGS_RW_MASK == {"STATUS_ON", "NO_ACCT", "TAGGER"}

FlagOps == {"ASSIGN", "SET", "UNSET"}

(***************************************************************************)
(* What isg_update_session does to a flag word.  A request whose own word   *)
(* is zero leaves it alone.  With flags_op 0 the masked word of the request *)
(* REPLACES the old one, so that bits outside the mask are cleared too.     *)
(***************************************************************************)
UpdateFlags(old, new, op) ==
  LET rw == new \cap FLAGS_RW_MASK IN
  CASE new = {}                    -> old
    [] new # {} /\ op = "ASSIGN"   -> rw
    [] new # {} /\ op = "SET"      -> old \cup rw
    [] new # {} /\ op = "UNSET"    -> old \ rw

Bit(b) == IF b THEN 1 ELSE 0
=============================================================================
