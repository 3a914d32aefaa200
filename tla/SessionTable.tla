---------------------------- MODULE SessionTable ----------------------------
(***************************************************************************)
(* The session table as the clients of the kernel module may think of it: a *)
(* session is there with its address and its port or it is not, a request   *)
(* takes effect in one step, and a port comes back when its session ends.   *)
(*                                                                          *)
(* IsgSession implements this as long as no two operations overlap on one   *)
(* session; from the first such overlap on nothing is promised.  Control    *)
(* puts the clients on top of the table.                                    *)
(***************************************************************************)
EXTENDS Naturals

CONSTANTS
  Slot,         \* places for a session
  IP, NoIP,     \* subscriber addresses; the address of a request without one
  MaxSessions   \* size of the port bitmap

ASSUME TableAssumption == MaxSessions \in Nat \ {0} /\ NoIP \notin IP

VARIABLES
  tab,          \* slot -> its session, or Absent
  bitmap,       \* the ports in use
  overlapped    \* two operations have overlapped on one session

tableVars == <<tab, bitmap, overlapped>>

Port == 0 .. MaxSessions - 1
Session == [ip : IP, port : Port, approved : BOOLEAN]
Absent == [ip |-> NoIP, port |-> 0, approved |-> FALSE]

TableTypeOK ==
  /\ tab \in [Slot -> Session \cup {Absent}]
  /\ bitmap \subseteq Port
  /\ overlapped \in BOOLEAN

TableInit ==
  /\ tab = [o \in Slot |-> Absent]
  /\ bitmap = {}
  /\ overlapped = FALSE

Linked == {o \in Slot : tab[o] # Absent}

(* isg_lookup_session: the session of an address, if there is one. *)
SessionOf(ip) == {o \in Linked : tab[o].ip = ip}

(* A packet of a new address: the session gets the first free port. *)
Start(o, ip) ==
  /\ ~overlapped
  /\ o \notin Linked
  /\ SessionOf(ip) = {}
  /\ \E p \in Port \ bitmap :
       /\ \A q \in Port \ bitmap : p <= q
       /\ tab' = [tab EXCEPT ![o] = [ip |-> ip, port |-> p, approved |-> FALSE]]
       /\ bitmap' = bitmap \cup {p}
  /\ UNCHANGED overlapped

(* EVENT_SESS_APPROVE. *)
Approve(o) ==
  /\ ~overlapped
  /\ o \in Linked
  /\ tab' = [tab EXCEPT ![o] = [ip |-> @.ip, port |-> @.port, approved |-> TRUE]]
  /\ UNCHANGED <<bitmap, overlapped>>

(* EVENT_SESS_CLEAR or a limit: the port is free again, except port 0, which *)
(* is taken for "no port".                                                   *)
End(o) ==
  /\ ~overlapped
  /\ o \in Linked
  /\ tab' = [tab EXCEPT ![o] = Absent]
  /\ bitmap' = IF tab[o].port # 0 THEN bitmap \ {tab[o].port} ELSE bitmap
  /\ UNCHANGED overlapped

(* Two operations meet on one session. *)
Overlap ==
  /\ overlapped' = TRUE
  /\ tab' = [o \in Slot |-> Absent]
  /\ bitmap' = {}

TableNext ==
  \/ \E o \in Slot : (\E ip \in IP : Start(o, ip)) \/ Approve(o) \/ End(o)
  \/ Overlap

TableSpec == TableInit /\ [][TableNext]_tableVars

-----------------------------------------------------------------------------
(* No two sessions have an address in common, *)
UniqueAddresses ==
  \A o1, o2 \in Linked : tab[o1].ip = tab[o2].ip => o1 = o2

(* and none a port, which is marked as taken. *)
UniquePorts ==
  \A o1 \in Linked : /\ tab[o1].port \in bitmap
                     /\ \A o2 \in Linked : tab[o1].port = tab[o2].port => o1 = o2
=============================================================================
