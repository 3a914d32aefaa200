----------------------------- MODULE IsgService -----------------------------
(***************************************************************************)
(* The services (sub-sessions) of one session: SERV_APPLY links them,       *)
(* SESS_CHANGE switches them, the first packet of their class starts them,  *)
(* a timer of their own ends them, and the free of the session takes them   *)
(* along.  A service has no accounting record before its START and none     *)
(* after its STOP.                                                          *)
(*                                                                          *)
(* The session itself is the subject of IsgSession; here it is in the hash  *)
(* ("live", "dying" once marked), unlinked, or given back.                  *)
(***************************************************************************)
EXTENDS Naturals, Sequences, Functions, IsgFlags

CONSTANTS
  Srv,      \* addresses of isg_session structures used for services
  Nl,       \* netlink handlers
  Cpu,      \* contexts of the packet path
  None      \* null pointer

ASSUME ServiceAssumption == None \notin Srv

VARIABLES
  parent,     \* "live", "dying", "unlinked", "freed"
  approved,   \* the session has its APPROVED flag
  srvHead,    \* srv_head: the services of the session, newest first
  flags,      \* the flag word of a service
  mem,        \* the services that are allocated
  timer,      \* the services whose timer is pending
  pending,    \* handler -> service it has linked and is about to update
  found,      \* cpu -> service it has found off-line and is about to start
  record,     \* "none", "open", "closed", or "lost": as the listener sees it
  bytes,      \* services whose byte counters are not zero
  races       \* history: overlaps met so far

vars == <<parent, approved, srvHead, flags, mem, timer, pending, found, record, bytes, races>>

Race == {"late_apply", "mixed_apply", "late_start", "double_start"}

TypeOK ==
  /\ parent \in {"live", "dying", "unlinked", "freed"}
  /\ approved \in BOOLEAN
  /\ Range(srvHead) \subseteq mem /\ IsInjective(srvHead)
  /\ flags \in [Srv -> SUBSET AllFlags]
  /\ mem \subseteq Srv /\ timer \subseteq Srv /\ bytes \subseteq Srv
  /\ pending \in [Nl -> Srv \cup {None}]
  /\ found \in [Cpu -> Srv \cup {None}]
  /\ record \in [Srv -> {"none", "open", "closed", "lost"}]
  /\ races \subseteq Race

Init ==
  /\ parent = "live"
  /\ approved = FALSE
  /\ srvHead = <<>>
  /\ flags = [s \in Srv |-> {}]
  /\ mem = {} /\ timer = {} /\ bytes = {}
  /\ pending = [h \in Nl |-> None]
  /\ found = [c \in Cpu |-> None]
  /\ record = [s \in Srv |-> "none"]
  /\ races = {}

InHash == parent \in {"live", "dying"}

(* The flag word of the session. *)
ParentFlags ==
  (IF approved THEN {"APPROVED"} ELSE {}) \cup (IF parent # "live" THEN {"DYING"} ELSE {})

Note(cond, race) == IF cond THEN {race} ELSE {}

(* isg_apply_service finds the session, copies its info with the flags into *)
(* a new structure, links that and arms its timer.                          *)
ApplyLink(h, s) ==
  /\ pending[h] = None
  /\ InHash
  /\ s \notin mem
  /\ mem' = mem \cup {s}
  /\ flags' = [flags EXCEPT ![s] = ParentFlags]
  /\ srvHead' = <<s>> \o srvHead
  /\ timer' = timer \cup {s}
  /\ pending' = [pending EXCEPT ![h] = s]
  /\ races' = races \cup Note(parent = "dying", "late_apply")
  /\ UNCHANGED <<parent, approved, found, record, bytes>>

Marked_Not(old, rw) == UpdateFlags(old, rw \cup {"SERVICE"}, "ASSIGN")

(* The request carries the SERVICE bit, which the mask keeps out of the     *)
(* word; it is set afterwards.                                              *)
Marked(old, rw) == UpdateFlags(old, rw \cup {"SERVICE"}, "ASSIGN") \cup {"SERVICE"}

(* It goes on with isg_update_session for "the service of this port", which *)
(* is the newest of the session, whoever linked it.                         *)
ApplyUpdate(h, rw) ==
  LET s      == srvHead[1]
      update == InHash /\ "DYING" \notin flags[s] IN
  /\ pending[h] # None
  /\ pending' = [pending EXCEPT ![h] = None]
  /\ flags' = IF update THEN [flags EXCEPT ![s] = Marked(@, rw)] ELSE flags
  /\ races' = races \cup Note(s # pending[h], "mixed_apply") \cup Note(~update, "late_apply")
  /\ UNCHANGED <<parent, approved, srvHead, mem, timer, found, record, bytes>>

(* SESS_CHANGE for a service, from a CoA request: its status is switched,   *)
(* the service is not ended by this.                                        *)
Switch(s, op) ==
  /\ InHash
  /\ s \in Range(srvHead)
  /\ "SERVICE" \in flags[s] /\ "DYING" \notin flags[s]
  /\ flags' = [flags EXCEPT ![s] = UpdateFlags(@, {"SERVICE", "STATUS_ON"}, op)]
  /\ UNCHANGED <<parent, approved, srvHead, mem, timer, pending, found, record, bytes, races>>

Approve ==
  /\ parent = "live"
  /\ approved' = TRUE
  /\ UNCHANGED <<parent, srvHead, flags, mem, timer, pending, found, record, bytes, races>>

-----------------------------------------------------------------------------
(* isg_tg for a packet of the class of service s.                           *)

Classified(s) ==
  /\ InHash
  /\ ParentFlags # {}
  /\ s \in Range(srvHead)
  /\ "STATUS_ON" \in flags[s] /\ "TAGGER" \notin flags[s]

PktOnline(s) ==
  /\ Classified(s)
  /\ "ONLINE" \in flags[s]
  /\ bytes' = bytes \cup {s}
  /\ UNCHANGED <<parent, approved, srvHead, flags, mem, timer, pending, found, record, races>>

(* The ONLINE bit is tested without a lock. *)
PktOffline(c, s) ==
  /\ found[c] = None
  /\ Classified(s)
  /\ "ONLINE" \notin flags[s]
  /\ found' = [found EXCEPT ![c] = s]
  /\ UNCHANGED <<parent, approved, srvHead, flags, mem, timer, pending, record, bytes, races>>

(* __isg_start_session and the START event. *)
Start(s) ==
  /\ bytes' = bytes \ {s}
  /\ flags' = [flags EXCEPT ![s] = @ \cup {"ONLINE"}]
  /\ timer' = timer \cup {s}
  /\ record' = [record EXCEPT ![s] = "open"]

(* isg_start_session takes the lock of the service and does not look at the *)
(* bit again.  Nor does it see that the session is dying: the service has   *)
(* a flag word of its own.                                                  *)
PktStart(c) ==
  LET s == found[c] IN
  /\ s # None
  /\ found' = [found EXCEPT ![c] = None]
  /\ IF "DYING" \in flags[s]
     THEN UNCHANGED <<flags, timer, record, bytes, races>>
     ELSE /\ Start(s)
          /\ races' = races \cup Note(parent # "live", "late_start")
                            \cup Note("ONLINE" \in flags[s], "double_start")
  /\ UNCHANGED <<parent, approved, srvHead, mem, pending>>

-----------------------------------------------------------------------------
(* isg_session_timeout for a service.                                       *)

Fires(s) == s \in timer /\ s \in mem /\ "SERVICE" \in flags[s] /\ "DYING" \notin flags[s]

(* Off-line: the timer is not armed again until the next start. *)
TimerOffline(s) ==
  /\ Fires(s)
  /\ "ONLINE" \notin flags[s]
  /\ timer' = timer \ {s}
  /\ UNCHANGED <<parent, approved, srvHead, flags, mem, pending, found, record, bytes, races>>

TimerExpire_SameId(s) ==
  /\ Fires(s)
  /\ "ONLINE" \in flags[s]
  /\ flags' = [flags EXCEPT ![s] = @ \ {"ONLINE"}]
  /\ timer' = timer \ {s}
  /\ bytes' = bytes \ {s}
  /\ UNCHANGED <<parent, approved, srvHead, mem, pending, found, record, races>>

(* Past its duration or idle: off-line, with a new id and empty counters,   *)
(* and no event.  (On-line and within its limits it is armed again.)        *)
TimerExpire(s) ==
  /\ Fires(s)
  /\ "ONLINE" \in flags[s]
  /\ flags' = [flags EXCEPT ![s] = @ \ {"ONLINE"}]
  /\ timer' = timer \ {s}
  /\ bytes' = bytes \ {s}
  /\ record' = [record EXCEPT ![s] = "lost"]
  /\ UNCHANGED <<parent, approved, srvHead, mem, pending, found, races>>

-----------------------------------------------------------------------------
(* The free of the session (isg_free_session, then isg_session_timeout).    *)

ParentDying ==
  /\ parent = "live"
  /\ parent' = "dying"
  /\ UNCHANGED <<approved, srvHead, flags, mem, timer, pending, found, record, bytes, races>>

StopServices_TimersLeft(online) ==
  /\ flags' = [s \in Srv |-> IF s \in online THEN flags[s] \ {"ONLINE"} ELSE flags[s]]
  /\ record' = [s \in Srv |-> IF s \in online THEN "closed" ELSE record[s]]
  /\ UNCHANGED timer

StopServices_Silent(online) ==
  /\ flags' = [s \in Srv |-> IF s \in online THEN flags[s] \ {"ONLINE"} ELSE flags[s]]
  /\ timer' = timer \ Range(srvHead)
  /\ UNCHANGED record

StopServices(online) ==
  /\ flags' = [s \in Srv |-> IF s \in online THEN flags[s] \ {"ONLINE"} ELSE flags[s]]
  /\ record' = [s \in Srv |-> IF s \in online THEN "closed" ELSE record[s]]
  /\ timer' = timer \ Range(srvHead)

ParentRelease ==
  /\ parent = "dying"
  /\ parent' = "unlinked"
  /\ StopServices({s \in Range(srvHead) : "ONLINE" \in flags[s]})
  /\ UNCHANGED <<approved, srvHead, mem, pending, found, bytes, races>>

(* 2 s later, longer than any handler or packet takes: the session and all  *)
(* services in its list are given back.                                     *)
ParentReap ==
  /\ parent = "unlinked"
  /\ \A h \in Nl : pending[h] = None
  /\ \A c \in Cpu : found[c] = None
  /\ parent' = "freed"
  /\ mem' = mem \ Range(srvHead)
  /\ srvHead' = <<>>
  /\ UNCHANGED <<approved, flags, timer, pending, found, record, bytes, races>>

Next ==
  \/ \E h \in Nl, s \in Srv : ApplyLink(h, s)
  \/ \E h \in Nl, rw \in {{}, {"STATUS_ON"}, {"STATUS_ON", "TAGGER", "NO_ACCT"}} : ApplyUpdate(h, rw)
  \/ \E s \in Srv, op \in {"SET", "UNSET"} : Switch(s, op)
  \/ Approve
  \/ \E s \in Srv : PktOnline(s)
  \/ \E c \in Cpu, s \in Srv : PktOffline(c, s)
  \/ \E c \in Cpu : PktStart(c)
  \/ \E s \in Srv : TimerOffline(s)
  \/ \E s \in Srv : TimerExpire(s)
  \/ ParentDying
  \/ ParentRelease
  \/ ParentReap

Spec == Init /\ [][Next]_vars

-----------------------------------------------------------------------------
(* A pending timer belongs to memory that is still there, unless a service  *)
(* was applied to, or started for, a session already being freed: these two *)
(* come after the timer_delete of isg_free_session.                         *)
TimersHaveMemory ==
  races \cap {"late_apply", "late_start"} = {} => timer \subseteq mem

(* When the session has left the hash no record of a service is open: each  *)
(* START got its STOP, or the service timer ended it silently before.       *)
RecordsClosed ==
  parent \in {"unlinked", "freed"} /\ races \cap {"late_start", "mixed_apply"} = {} =>
    \A s \in Srv : record[s] # "open"

(* Whoever is not being applied is marked as a service.  An unmarked one is *)
(* taken for a session by its timer, which would release the port of the    *)
(* session and free memory that is still in the list; it exists only after  *)
(* an apply overlapped another one or the free of the session.              *)
ServicesMarked ==
  races \cap {"late_apply", "mixed_apply"} = {} =>
    \A s \in mem : "SERVICE" \in flags[s] \/ \E h \in Nl : pending[h] = s

(* Bytes counted under an open record stay until it ends, unless two        *)
(* packets started the service at once: the second one empties the counters *)
(* of the first (or the flag word was overwritten, as above).               *)
BytesKept ==
  [][\A s \in bytes \ bytes' : record[s] # "open" \/ record'[s] # "open"
                               \/ races' \cap {"double_start", "mixed_apply"} # {}]_vars
=============================================================================
