----------------------------- MODULE CoaServer ------------------------------
(***************************************************************************)
(* The CoA server and the services it switches.                             *)
(*                                                                          *)
(* One thread takes one packet at a time.  To switch a service it lists the *)
(* services, lets sanitize decide, and sends an event.  Its list request    *)
(* names nobody, so the kernel answers with the services of the session on  *)
(* port 0, and its event, which has no port either, fits each of these:     *)
(* isg_find_session takes the first of the list.                            *)
(*                                                                          *)
(* The kernel keeps the session on port 0 and its services, which the       *)
(* daemon's answer attaches one after the other, each in front.  Port 0 is  *)
(* given once: when its session ends there is none.                         *)
(***************************************************************************)
EXTENDS Services, FiniteSetsExt

VARIABLES
  zero,       \* the session on port 0 is there
  plan,       \* service -> what the daemon's answer has for it, "-" nothing
  status,     \* service -> "-" (not attached), "A" or "N", in the kernel
  pc,         \* idle, list, sanitize, send, dead
  cmd,        \* the packet being handled
  restarted,  \* the daemon has been restarted
  missed,     \* history: a command has switched another service than it named
  early       \* history: one has come before the daemon's answer was attached

kernelVars == <<zero, plan, status>>
sanitizeVars == <<request, k, onCls, ret>>
coaVars == <<pc, cmd>>
history == <<missed, early>>
coaSpecVars == <<kernelVars, sanitizeVars, conf, known, coaVars, restarted, history>>

Packet ==
  [kind : {"denied", "mismatch", "untargeted", "unnamed", "unknown"}]
  \cup [kind : {"disconnect", "change"}, byPort : BOOLEAN]
  \cup [kind : {"service"}, svc : Svc, op : {"A", "N"}]

NoPacket == [kind |-> "none"]

CoaTypeOK ==
  /\ TypeOK
  /\ zero \in BOOLEAN
  /\ plan \in [Svc -> {"-", "A", "N"}] /\ status \in [Svc -> {"-", "A", "N"}]
  /\ pc \in {"idle", "list", "sanitize", "send", "dead"}
  /\ cmd \in Packet \cup {NoPacket}
  /\ restarted \in BOOLEAN /\ missed \in BOOLEAN /\ early \in BOOLEAN

Active(st) == {s \in Svc : st[s] = "A"}
Apart(ss) == \A s, u \in ss : s # u => ~Share(s, u)

(* What is left of an answer by sanitize (NoSharedClass, checked below). *)
Answered(pl) == (\A s \in Svc : pl[s] # "-" => s \in known) /\ Apart(Active(pl))

(* The daemon has answered for the session on port 0. *)
CoaInit ==
  /\ Init
  /\ request = [s \in Svc |-> "-"]
  /\ zero = TRUE
  /\ plan \in {pl \in [Svc -> {"-", "A", "N"}] : Answered(pl)}
  /\ status = [s \in Svc |-> "-"]
  /\ pc = "idle" /\ cmd = NoPacket
  /\ restarted = FALSE /\ missed = FALSE /\ early = FALSE

-----------------------------------------------------------------------------
(* The kernel and the rest of the daemon. *)

Pending == {s \in Svc : plan[s] # "-"}
Attached == {s \in Svc : status[s] # "-"}

(* EVENT_SERV_APPLY: the next service of the answer, in front of the list. *)
Apply ==
  /\ zero /\ Pending # {}
  /\ LET s == Max(Pending)
     IN /\ status' = [status EXCEPT ![s] = plan[s]]
        /\ plan' = [plan EXCEPT ![s] = "-"]
  /\ UNCHANGED <<zero, conf, known, sanitizeVars, coaVars, restarted, history>>

(* The session on port 0 ends, by itself or by a request, with its services. *)
ZeroGone ==
  /\ zero
  /\ zero' = FALSE
  /\ plan' = [s \in Svc |-> "-"] /\ status' = [s \in Svc |-> "-"]

SessionEnds ==
  /\ ZeroGone
  /\ UNCHANGED <<conf, known, sanitizeVars, coaVars, restarted, history>>

Blank == [s \in Svc |-> "-"]

(* sanitize is about to walk list r. *)
Fresh(r) ==
  /\ request' = r
  /\ k' = 0
  /\ onCls' = [t \in Type |-> [c \in Class |-> NoOwner]]
  /\ ret' = Blank

(* The daemon is started anew, without the services that answers had added  *)
(* and those that are no longer in its file; the kernel keeps its own.      *)
Restart ==
  /\ ~restarted
  /\ restarted' = TRUE
  /\ known' \in SUBSET known
  /\ pc' = "idle" /\ cmd' = NoPacket
  /\ plan' = Blank
  /\ Fresh(Blank)
  /\ UNCHANGED <<zero, status, conf, history>>

-----------------------------------------------------------------------------
(* The CoA thread. *)

(* ACK or NAK goes out, and what the packet was about is forgotten. *)
Reply == pc' = "idle" /\ cmd' = NoPacket /\ Fresh(Blank)

(* A packet that is dropped or refused as it stands: from another server,   *)
(* for another NAS, without a session, without a service name, with a       *)
(* command nobody knows.                                                    *)
Refuse(p) ==
  /\ pc = "idle"
  /\ p.kind \in {"denied", "mismatch", "untargeted", "unnamed", "unknown"}
  /\ Reply
  /\ UNCHANGED <<kernelVars, conf, known, restarted, history>>

(* Disconnect and rate requests for a session: one event, without port if   *)
(* the packet has a number or an address.  The session it means is on       *)
(* another port or gone; that on port 0 may be taken for it.                *)
OneRequest(p) ==
  /\ pc = "idle"
  /\ p.kind \in {"disconnect", "change"}
  /\ (~p.byPort /\ p.kind = "disconnect" /\ ZeroGone) \/ UNCHANGED kernelVars
  /\ Reply
  /\ UNCHANGED <<conf, known, restarted, history>>

(* activate-service or deactivate-service. *)
Command(p) ==
  /\ pc = "idle"
  /\ p.kind = "service"
  /\ pc' = "list" /\ cmd' = p
  /\ UNCHANGED <<kernelVars, conf, known, sanitizeVars, restarted, history>>

Listed_Any(s) == TRUE

(* svc_sid: the service is one of the list. *)
Listed(s) == status[s] # "-"

(* EVENT_SERV_GETLIST, and the command entered into the list. *)
GetList ==
  /\ pc = "list"
  /\ \/ /\ ~Listed(cmd.svc)
        /\ Reply
     \/ /\ Listed(cmd.svc)
        /\ Fresh([status EXCEPT ![cmd.svc] = cmd.op])
        /\ pc' = "sanitize"
        /\ UNCHANGED cmd
  /\ UNCHANGED <<kernelVars, conf, known, restarted, history>>

(* sanitize. *)
Sanitize ==
  /\ pc = "sanitize"
  /\ Resolve
  /\ UNCHANGED <<kernelVars, coaVars, restarted, history>>

Refused_Never == FALSE

(* The service would share a class with another active one. *)
Refused == cmd.op = "A" /\ ret[cmd.svc] = "N"

(* An event without a type is sent for it, which the kernel leaves          *)
(* unanswered: NAK when send_event has waited long enough.                  *)
SendRefused_Waits ==
  /\ pc = "sanitize" /\ k = N /\ Refused
  /\ FALSE

SendRefused ==
  /\ pc = "sanitize" /\ k = N /\ Refused
  /\ Reply
  /\ UNCHANGED <<kernelVars, conf, known, restarted, history>>

(* build_event looks the service up in the configuration.  If it is not     *)
(* there the exception ends the thread.                                     *)
BuildEvent ==
  /\ pc = "sanitize" /\ k = N /\ ~Refused
  /\ pc' = IF cmd.svc \in known THEN "send" ELSE "dead"
  /\ UNCHANGED <<kernelVars, conf, known, sanitizeVars, cmd, restarted, history>>

(* EVENT_SESS_CHANGE for the service: the first of the list is switched. *)
Send ==
  /\ pc = "send"
  /\ \/ /\ Attached # {}
        /\ status' = [status EXCEPT ![Min(Attached)] = cmd.op]
        /\ missed' = (missed \/ Min(Attached) # cmd.svc)
        /\ early' = (early \/ Pending # {})
     \/ Attached = {} /\ UNCHANGED <<status, history>>
  /\ Reply
  /\ UNCHANGED <<zero, plan, conf, known, restarted>>

CoaStep == GetList \/ Sanitize \/ SendRefused \/ BuildEvent \/ Send

CoaNext ==
  \/ Apply \/ SessionEnds \/ Restart
  \/ \E p \in Packet : Refuse(p) \/ OneRequest(p) \/ Command(p)
  \/ CoaStep

(* A packet that has been taken is worked on: the thread waits for nothing  *)
(* but its own requests, which have a time limit.                           *)
CoaSpec == CoaInit /\ [][CoaNext]_coaSpecVars /\ WF_coaSpecVars(CoaStep)

-----------------------------------------------------------------------------
(* The services of the session that are active in the kernel have no class  *)
(* in common, unless a command switched a service that it did not name, or  *)
(* came between two services of an answer, or the configuration changed     *)
(* under the running session.                                               *)
ActiveApart == ~missed /\ ~early /\ ~restarted => Apart(Active(status))

(* A command for a service ends the CoA thread only when the daemon was     *)
(* restarted while the kernel kept the session: what is attached was        *)
(* configured then.                                                         *)
DiesOnlyAfterRestart == pc = "dead" => restarted

(* Every command is answered, unless the thread ends over it. *)
CommandAnswered == pc = "list" ~> pc \in {"idle", "dead"}
=============================================================================
