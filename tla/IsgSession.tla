----------------------------- MODULE IsgSession -----------------------------
(***************************************************************************)
(* The life of a subscriber session in the kernel module (isg_main.c): the  *)
(* packet path creates it, netlink requests approve, change or clear it,    *)
(* its timer expires it and finally gives its memory back.                  *)
(*                                                                          *)
(* None of the three holds a lock across its work.  The packet path looks   *)
(* up without a lock, inserts under the bucket lock and fills the session   *)
(* in afterwards; a netlink handler finds a session without a lock and acts *)
(* on it later (the mutex around the handlers is commented out); the timer  *)
(* runs in softirq context between the steps of both.  One action below is  *)
(* the code between two points where another actor can be noticed.          *)
(*                                                                          *)
(* A definition named X_Y before X is X with the fault Y; it is not part of *)
(* the specification and shows that the properties notice the fault.        *)
(***************************************************************************)
EXTENDS Integers, FiniteSets, IsgFlags

CONSTANTS
  Obj,          \* addresses of isg_session structures (slab slots)
  IP,           \* subscriber addresses
  Nl,           \* netlink senders, each running a handler in its own context
  Cpu,          \* contexts of the packet path
  MaxSessions,  \* module parameter max_sessions, size of the port bitmap
  MaxRequests,  \* bound: requests sent in one behaviour
  NoObj, NoIP   \* null pointer; the address of a request that names none

ASSUME SessionAssumption ==
  /\ IsFiniteSet(Obj)
  /\ MaxSessions \in Nat \ {0}
  /\ MaxRequests \in Nat
  /\ NoObj \notin Obj
  /\ NoIP \notin IP

Port == 0 .. MaxSessions - 1
SessionFlags == {"APPROVED", "NO_ACCT", "DYING"}

(* What the clients of the module send for a session: the daemon and the    *)
(* API approve with no flags, the daemon approves a walled or unaccounted   *)
(* session with NO_ACCT, rate and duration changes carry no flags.          *)
Update == {[type |-> "APPROVE", flags |-> {}],
           [type |-> "APPROVE", flags |-> {"NO_ACCT"}],
           [type |-> "CHANGE",  flags |-> {}]}

(* A request names a session by port, by address, or by both; the field     *)
(* that is not given is zero.                                               *)
Target == [port : Port, ip : IP \cup {NoIP}]

VARIABLES
  mem,        \* "free", "raw" (inserted), "ported" (has a port), "ready"
  ipaddr, port, flags,          \* fields of a session, by object
  hash,       \* the objects linked in the session hash
  bitmap,     \* port_bitmap: the ports in use
  timer,      \* "off", "check" (10 s interval), "reap" (2 s after the free)
  timerFree,  \* objects whose timer callback is inside isg_free_session
  cnt,        \* the per-cpu counters, summed over the cpus
  missed,     \* cpu -> address it looked up in vain and is about to insert
  nlPc, nlObj, nlReq,           \* the handlers in progress
  traffic,    \* objects whose byte counters are not zero
  lastEv,     \* last event about the object sent to the listener
  reqs,       \* requests sent so far
  races       \* history: the overlaps of unsynchronised steps met so far

vars == <<mem, ipaddr, port, flags, hash, bitmap, timer, timerFree, cnt,
          missed, nlPc, nlObj, nlReq, traffic, lastEv, reqs, races>>

nlVars == <<nlPc, nlObj, nlReq>>

Race == {"early_request", "late_approve", "reapprove", "double_free"}
Event == {"NONE", "CREATE", "START", "UPDATE", "STOP"}
AnUpdate == [type |-> "CHANGE", flags |-> {}]
Counters == [approved : Int, unapproved : Int, dying : Int, noaccounting : Int]

TypeOK ==
  /\ mem \in [Obj -> {"free", "raw", "ported", "ready"}]
  /\ ipaddr \in [Obj -> IP \cup {NoIP}]
  /\ port \in [Obj -> Port]
  /\ flags \in [Obj -> SUBSET SessionFlags]
  /\ hash \subseteq Obj
  /\ bitmap \subseteq Port
  /\ timer \in [Obj -> {"off", "check", "reap"}]
  /\ timerFree \subseteq Obj
  /\ cnt \in Counters
  /\ missed \in [Cpu -> IP \cup {NoIP}]
  /\ nlPc \in [Nl -> {"idle", "update", "free"}]
  /\ nlObj \in [Nl -> Obj \cup {NoObj}]
  /\ \A h \in Nl : nlPc[h] # "idle" => nlObj[h] \in Obj
  /\ nlReq \in [Nl -> Update]
  /\ traffic \subseteq Obj
  /\ lastEv \in [Obj -> Event]
  /\ reqs \in 0 .. MaxRequests
  /\ races \subseteq Race

Init ==
  /\ mem = [o \in Obj |-> "free"]
  /\ ipaddr = [o \in Obj |-> NoIP]
  /\ port = [o \in Obj |-> 0]
  /\ flags = [o \in Obj |-> {}]
  /\ hash = {}
  /\ bitmap = {}
  /\ timer = [o \in Obj |-> "off"]
  /\ timerFree = {}
  /\ cnt = [approved |-> 0, unapproved |-> 0, dying |-> 0, noaccounting |-> 0]
  /\ missed = [c \in Cpu |-> NoIP]
  /\ nlPc = [h \in Nl |-> "idle"]
  /\ nlObj = [h \in Nl |-> NoObj]
  /\ nlReq = [h \in Nl |-> AnUpdate]
  /\ traffic = {}
  /\ lastEv = [o \in Obj |-> "NONE"]
  /\ reqs = 0
  /\ races = {}

(* Additions to the four counters of struct isg_net_stat. *)
Count(approved, unapproved, dying, noaccounting) ==
  cnt' = [approved |-> cnt.approved + approved,
          unapproved |-> cnt.unapproved + unapproved,
          dying |-> cnt.dying + dying,
          noaccounting |-> cnt.noaccounting + noaccounting]

-----------------------------------------------------------------------------
(* The packet path, isg_tg.                                                 *)

(* isg_lookup_session: the lock-free walk of the bucket. *)
Lookup(ip) == {o \in hash : ipaddr[o] = ip}

(* The walk finds nothing; the packet may start a session. *)
PktMiss(c, ip) ==
  /\ missed[c] = NoIP
  /\ Lookup(ip) = {}
  /\ missed' = [missed EXCEPT ![c] = ip]
  /\ UNCHANGED <<mem, ipaddr, port, flags, hash, bitmap, timer, timerFree, cnt,
                 nlVars, traffic, lastEv, reqs, races>>

(* __isg_create_session: allocate a session and link it. *)
CreateSession(c, o) ==
  /\ mem[o] = "free"
  /\ mem' = [mem EXCEPT ![o] = "raw"]
  /\ ipaddr' = [ipaddr EXCEPT ![o] = missed[c]]
  /\ hash' = hash \cup {o}
  /\ missed' = [missed EXCEPT ![c] = NoIP]
  /\ UNCHANGED <<port, flags, bitmap, timer, timerFree, cnt, nlVars, traffic,
                 lastEv, reqs, races>>

PktCreate_NoSecondLook(c, o) == missed[c] # NoIP /\ CreateSession(c, o)

(* With the bucket locked the packet looks again and creates a session if   *)
(* there is still none of this address.                                     *)
PktCreate(c, o) ==
  /\ missed[c] # NoIP
  /\ Lookup(missed[c]) = {}
  /\ CreateSession(c, o)

(* Or somebody linked one in the meantime, or kzalloc has no memory.  In    *)
(* the first case the packet goes on as in PktHit.                          *)
PktGiveUp(c) ==
  /\ missed[c] # NoIP
  /\ Lookup(missed[c]) # {} \/ \A o \in Obj : mem[o] # "free"
  /\ missed' = [missed EXCEPT ![c] = NoIP]
  /\ \E t \in SUBSET {o \in Lookup(missed[c]) : flags[o] # {}} :
       traffic' = traffic \cup t
  /\ UNCHANGED <<mem, ipaddr, port, flags, hash, bitmap, timer, timerFree, cnt,
                 nlVars, lastEv, reqs, races>>

Forward(o) ==
  /\ traffic' = traffic \cup {o}
  /\ UNCHANGED <<mem, ipaddr, port, flags, hash, bitmap, timer, timerFree, cnt,
                 missed, nlVars, lastEv, reqs, races>>

(* A packet of a known session: dropped when the flag word is zero, else    *)
(* subject to policing, which may still drop it (no step).                  *)
PktHit(o) ==
  /\ o \in hash
  /\ flags[o] # {}
  /\ Forward(o)

TakePort_NotMarked(o, p) ==
  port' = [port EXCEPT ![o] = p] /\ bitmap' = bitmap

(* isg_create_session_notify, run by the creating packet with no lock held: *)
(* find_first_zero_bit and test_and_set_bit take the first free port.       *)
TakePort(o, p) ==
  port' = [port EXCEPT ![o] = p] /\ bitmap' = bitmap \cup {p}

NotifyPort(o) ==
  /\ mem[o] = "raw"
  /\ \E p \in Port \ bitmap :
       /\ \A q \in Port \ bitmap : p <= q
       /\ TakePort(o, p)
  /\ mem' = [mem EXCEPT ![o] = "ported"]
  /\ UNCHANGED <<ipaddr, flags, hash, timer, timerFree, cnt, missed, nlVars,
                 traffic, lastEv, reqs, races>>

CountExhausted_Not == UNCHANGED cnt

CountExhausted == Count(0, 0, 1, 0)

(* No port is left: unlink the session and let the timer free it in 2 s.    *)
NotifyExhausted(o) ==
  /\ mem[o] = "raw"
  /\ bitmap = Port
  /\ hash' = hash \ {o}
  /\ flags' = [flags EXCEPT ![o] = @ \cup {"DYING"}]
  /\ CountExhausted
  /\ timer' = [timer EXCEPT ![o] = "reap"]
  /\ mem' = [mem EXCEPT ![o] = "ready"]
  /\ UNCHANGED <<ipaddr, port, bitmap, timerFree, missed, nlVars, traffic,
                 lastEv, reqs, races>>

(* Arm the timer, announce the session, count it. *)
NotifyAnnounce(o) ==
  /\ mem[o] = "ported"
  /\ mem' = [mem EXCEPT ![o] = "ready"]
  /\ timer' = [timer EXCEPT ![o] = "check"]
  /\ lastEv' = [lastEv EXCEPT ![o] = "CREATE"]
  /\ Count(0, 1, 0, 0)
  /\ UNCHANGED <<ipaddr, port, flags, hash, bitmap, timerFree, missed, nlVars,
                 traffic, reqs, races>>

-----------------------------------------------------------------------------
(* isg_free_session.  The flag is set first; a second step unlinks the      *)
(* session, gives its port back (port 0 is taken for "no port"), counts,    *)
(* announces the stop and arms the timer.  mod_timer on a timer that        *)
(* NotifyAnnounce has not set up yet has no effect.                         *)

SetDying(o) == flags' = [flags EXCEPT ![o] = @ \cup {"DYING"}]

ReleasePort_Forgotten(o) == UNCHANGED bitmap

ReleasePort(o) ==
  bitmap' = IF port[o] # 0 THEN bitmap \ {port[o]} ELSE bitmap

CountFree_AllUnapproved(o) == Count(0, -1, 1, 0)

CountFree(o) ==
  LET a == Bit("APPROVED" \in flags[o]) IN Count(-a, a - 1, 1, 0)

EmitStop_ApprovedOnly(o) ==
  lastEv' = IF "APPROVED" \in flags[o] THEN [lastEv EXCEPT ![o] = "STOP"] ELSE lastEv

EmitStop(o) == lastEv' = [lastEv EXCEPT ![o] = "STOP"]

ArmReap_Forgotten(o) == UNCHANGED timer

ArmReap(o) ==
  timer' = IF mem[o] = "ready" THEN [timer EXCEPT ![o] = "reap"] ELSE timer

Release(o) ==
  /\ hash' = hash \ {o}
  /\ ReleasePort(o)
  /\ CountFree(o)
  /\ EmitStop(o)
  /\ ArmReap(o)
  /\ races' = races
       \cup (IF o \notin hash THEN {"double_free"} ELSE {})
       \cup (IF mem[o] # "ready" THEN {"early_request"} ELSE {})
  /\ UNCHANGED <<mem, ipaddr, port, flags, missed, traffic, reqs>>

-----------------------------------------------------------------------------
(* The netlink handlers.                                                    *)

(* isg_equal: any of the fields agrees, those left at zero included. *)
IsgEqual(tgt, o) == port[o] = tgt.port \/ ipaddr[o] = tgt.ip

(* isg_find_session returns the first match in bucket order, an order that  *)
(* depends on a random seed.                                                *)
Find(tgt) == {o \in hash : IsgEqual(tgt, o)}

Idle(h) ==
  /\ nlPc' = [nlPc EXCEPT ![h] = "idle"]
  /\ nlObj' = [nlObj EXCEPT ![h] = NoObj]
  /\ nlReq' = [nlReq EXCEPT ![h] = AnUpdate]

(* SESS_APPROVE or SESS_CHANGE: find the session and check, unlocked, that  *)
(* it is not dying.                                                         *)
NlUpdateFind(h, u, tgt, o) ==
  /\ nlPc[h] = "idle"
  /\ reqs < MaxRequests
  /\ o \in Find(tgt)
  /\ "DYING" \notin flags[o]
  /\ nlPc' = [nlPc EXCEPT ![h] = "update"]
  /\ nlObj' = [nlObj EXCEPT ![h] = o]
  /\ nlReq' = [nlReq EXCEPT ![h] = u]
  /\ reqs' = reqs + 1
  /\ UNCHANGED <<mem, ipaddr, port, flags, hash, bitmap, timer, timerFree, cnt,
                 missed, traffic, lastEv, races>>

(* The rest of isg_update_session, under the lock of the session, and the   *)
(* START event, which is sent whatever __isg_start_session returned.        *)
NlUpdateCommit(h) ==
  LET o       == nlObj[h]
      u       == nlReq[h]
      f       == UpdateFlags(flags[o], u.flags, "ASSIGN")
      approve == u.type = "APPROVE"
      fresh   == Bit(approve /\ "APPROVED" \notin f)
      start   == approve /\ "DYING" \notin f
  IN
  /\ nlPc[h] = "update"
  /\ flags' = [flags EXCEPT ![o] = IF approve THEN f \cup {"APPROVED"} ELSE f]
  /\ Count(fresh, -fresh, 0, Bit("NO_ACCT" \in f) - Bit("NO_ACCT" \in flags[o]))
  /\ traffic' = IF start THEN traffic \ {o} ELSE traffic
  /\ timer' = IF start /\ mem[o] = "ready" THEN [timer EXCEPT ![o] = "check"] ELSE timer
  /\ lastEv' = IF approve THEN [lastEv EXCEPT ![o] = "START"] ELSE lastEv
  /\ races' = races
       \cup (IF approve /\ mem[o] # "ready" THEN {"early_request"} ELSE {})
       \cup (IF approve /\ ("DYING" \in flags[o] \/ o \notin hash)
             THEN {"late_approve"} ELSE {})
       \cup (IF "APPROVED" \in flags[o] \ f THEN {"reapprove"} ELSE {})
  /\ Idle(h)
  /\ UNCHANGED <<mem, ipaddr, port, hash, bitmap, timerFree, missed, reqs>>

(* SESS_CLEAR: isg_clear_session finds the session, dying or not, and       *)
(* starts to free it.                                                       *)
NlClear(h, tgt, o) ==
  /\ nlPc[h] = "idle"
  /\ reqs < MaxRequests
  /\ o \in Find(tgt)
  /\ SetDying(o)
  /\ nlPc' = [nlPc EXCEPT ![h] = "free"]
  /\ nlObj' = [nlObj EXCEPT ![h] = o]
  /\ reqs' = reqs + 1
  /\ UNCHANGED <<mem, ipaddr, port, hash, bitmap, timer, timerFree, cnt,
                 missed, nlReq, traffic, lastEv, races>>

NlRelease(h) ==
  /\ nlPc[h] = "free"
  /\ Release(nlObj[h])
  /\ Idle(h)
  /\ UNCHANGED timerFree

-----------------------------------------------------------------------------
(* isg_session_timeout.  Time is abstract: a pending timer may fire at any  *)
(* moment, and a session may or may not have outlived its limits then.      *)

Held(o) == \E h \in Nl : nlObj[h] = o

(* The 2 s between the free and its timer are taken to be longer than any   *)
(* handler that still holds the object; no such time protects an object     *)
(* whose 10 s timer was already running when the flag was set.              *)
GracePeriod(o) == timer[o] = "reap" => ~Held(o)

(* Neither dying nor expired: re-arm, after an interim update if the        *)
(* session is approved and its export interval is over.                     *)
TimerCheck(o) ==
  /\ timer[o] # "off"
  /\ o \notin timerFree
  /\ "DYING" \notin flags[o]
  /\ timer' = [timer EXCEPT ![o] = "check"]
  /\ lastEv' \in {lastEv} \cup
       (IF "APPROVED" \in flags[o] THEN {[lastEv EXCEPT ![o] = "UPDATE"]} ELSE {})
  /\ UNCHANGED <<mem, ipaddr, port, flags, hash, bitmap, timerFree, cnt, missed,
                 nlVars, traffic, reqs, races>>

HasLimit_ApprovedOnly(o) == "APPROVED" \in flags[o]

HasLimit(o) == flags[o] = {} \/ "APPROVED" \in flags[o]

(* Not approved in time, or approved and out of time or idle: free it. *)
TimerExpire(o) ==
  /\ timer[o] # "off"
  /\ o \notin timerFree
  /\ "DYING" \notin flags[o]
  /\ HasLimit(o)
  /\ SetDying(o)
  /\ timer' = [timer EXCEPT ![o] = "off"]
  /\ timerFree' = timerFree \cup {o}
  /\ UNCHANGED <<mem, ipaddr, port, hash, bitmap, cnt, missed, nlVars, traffic,
                 lastEv, reqs, races>>

TimerRelease(o) ==
  /\ o \in timerFree
  /\ Release(o)
  /\ timerFree' = timerFree \ {o}
  /\ UNCHANGED nlVars

CountReap(o) == Count(0, 0, -1, -Bit("NO_ACCT" \in flags[o]))

(* Dying: give the memory back. *)
TimerReap(o) ==
  /\ timer[o] # "off"
  /\ o \notin timerFree
  /\ "DYING" \in flags[o]
  /\ GracePeriod(o)
  /\ CountReap(o)
  /\ mem' = [mem EXCEPT ![o] = "free"]
  /\ ipaddr' = [ipaddr EXCEPT ![o] = NoIP]
  /\ port' = [port EXCEPT ![o] = 0]
  /\ flags' = [flags EXCEPT ![o] = {}]
  /\ timer' = [timer EXCEPT ![o] = "off"]
  /\ traffic' = traffic \ {o}
  /\ lastEv' = [lastEv EXCEPT ![o] = "NONE"]
  /\ UNCHANGED <<hash, bitmap, timerFree, missed, nlVars, reqs, races>>

-----------------------------------------------------------------------------
(* Memory that was given back but can still be reached.  What the kernel    *)
(* does from then on is not defined; the model stops there (Undefined).     *)
Dangling ==
  \E o \in Obj : mem[o] = "free" /\ (o \in hash \/ o \in timerFree \/ Held(o))

Undefined == Dangling /\ UNCHANGED vars

PacketStep ==
  \/ \E c \in Cpu, ip \in IP : PktMiss(c, ip)
  \/ \E c \in Cpu, o \in Obj : PktCreate(c, o)
  \/ \E c \in Cpu : PktGiveUp(c)
  \/ \E o \in Obj : PktHit(o)
  \/ \E o \in Obj : NotifyPort(o)
  \/ \E o \in Obj : NotifyExhausted(o)
  \/ \E o \in Obj : NotifyAnnounce(o)

NetlinkStep ==
  \/ \E h \in Nl, u \in Update, tgt \in Target, o \in Obj : NlUpdateFind(h, u, tgt, o)
  \/ \E h \in Nl : NlUpdateCommit(h)
  \/ \E h \in Nl, tgt \in Target, o \in Obj : NlClear(h, tgt, o)
  \/ \E h \in Nl : NlRelease(h)

TimerStep ==
  \/ \E o \in Obj : TimerCheck(o)
  \/ \E o \in Obj : TimerExpire(o)
  \/ \E o \in Obj : TimerRelease(o)
  \/ \E o \in Obj : TimerReap(o)

Next ==
  \/ ~Dangling /\ PacketStep
  \/ ~Dangling /\ NetlinkStep
  \/ ~Dangling /\ TimerStep
  \/ Undefined

Spec == Init /\ [][Next]_vars

(* A packet runs to its end, a handler returns, timers keep firing until a  *)
(* session that nobody approves is past its limit.                          *)
Defined(A) == ~Dangling /\ A

Fairness ==
  /\ \A o \in Obj :
       /\ WF_vars(Defined(NotifyPort(o)))
       /\ WF_vars(Defined(NotifyExhausted(o)))
       /\ WF_vars(Defined(NotifyAnnounce(o)))
       /\ WF_vars(Defined(flags[o] = {} /\ TimerExpire(o)))
       /\ WF_vars(Defined(TimerRelease(o)))
       /\ WF_vars(Defined(TimerReap(o)))
  /\ \A h \in Nl :
       /\ WF_vars(Defined(NlUpdateCommit(h)))
       /\ WF_vars(Defined(NlRelease(h)))

FairSpec == Spec /\ Fairness

-----------------------------------------------------------------------------
(* What holds however the steps interleave.                                 *)

(* The hash never holds two sessions of one address: the second look under  *)
(* the bucket lock in isg_tg repairs the unlocked first one.                *)
OneSessionPerIp ==
  \A o1, o2 \in hash : ipaddr[o1] = ipaddr[o2] => o1 = o2

Ready == {o \in Obj : mem[o] = "ready"}

(* The "Total" that show_count and the API print is the number of sessions  *)
(* in memory.  Clearing, expiring and approving in any overlap only move a  *)
(* unit between the three counters, even where each of them drifts.         *)
TotalConserved ==
  cnt.approved + cnt.unapproved + cnt.dying = Cardinality(Ready)

Unaccounted == {o \in Obj : "NO_ACCT" \in flags[o]}

(* The no-accounting counter is the number of sessions whose flag is set:   *)
(* every write of the flag is under the session lock, next to its count.    *)
NoAcctExact == cnt.noaccounting = Cardinality(Unaccounted)

Ported == {o \in hash : mem[o] \in {"ported", "ready"}}

SharedPort(o1, o2) == o1 # o2 /\ port[o1] = port[o2]

(* Freeing a session twice is the only way two sessions in the hash come to *)
(* share a port, or to hold a port that is marked free (clear_bit in        *)
(* isg_free_session against the search of isg_create_session_notify).       *)
PortsUnlessDoubleFree ==
  "double_free" \notin races =>
    \A o1 \in Ported :
      /\ port[o1] \in bitmap
      /\ \A o2 \in Ported : ~SharedPort(o1, o2)

(* While no two operations have overlapped on one session, each counter     *)
(* counts what its name says (cnt in isg_create_session_notify,             *)
(* isg_update_session, isg_free_session and isg_session_timeout).           *)
CountersExact ==
  races = {} /\ ~Dangling =>
    /\ cnt.approved = Cardinality({o \in hash : "APPROVED" \in flags[o]})
    /\ cnt.unapproved = Cardinality({o \in Ready \cap hash : "APPROVED" \notin flags[o]})
    /\ cnt.dying = Cardinality(Ready \ hash)

(* A session that was never approved forwards nothing before it is being    *)
(* freed: isg_tg drops on a zero flag word.                                 *)
ForwardedOnlyApproved ==
  \A o \in traffic : flags[o] \cap {"APPROVED", "DYING"} # {}

(* While no two operations have overlapped on one session, the last thing   *)
(* the listener hears of a session that left the hash is its STOP, unless   *)
(* it never heard of it (port bitmap exhausted): accounting is closed.      *)
StreamClosed ==
  races = {} =>
    \A o \in Ready \ hash : lastEv[o] \in {"STOP", "NONE"}

(* The table as the clients of the module see it.  A session is in it from  *)
(* the step that gives it a port to the step that unlinks it.               *)
Broken == races # {} \/ Dangling

Seen(o) ==
  IF ~Broken /\ o \in Ported
    THEN [ip |-> ipaddr[o], port |-> port[o], approved |-> "APPROVED" \in flags[o]]
    ELSE [ip |-> NoIP, port |-> 0, approved |-> FALSE]

Table == INSTANCE SessionTable WITH
  Slot <- Obj,
  tab <- [o \in Obj |-> Seen(o)],
  bitmap <- IF Broken THEN {} ELSE bitmap,
  overlapped <- Broken

(* Until two operations overlap on one session, creation, approval, clear   *)
(* and expiry look like single steps on a table of sessions with unique     *)
(* addresses and ports, however many steps each of them takes.              *)
ImplementsTable == Table!TableSpec

(* A session nobody approves does not stay: its timer or a request ends it. *)
UnapprovedSettles ==
  \A o \in Obj :
    (o \in hash /\ flags[o] = {}) ~> (o \notin hash \/ flags[o] # {} \/ Dangling)

(* A session marked dying is given back, unless a late approval overwrote   *)
(* the mark (isg_session_timeout frees only what still carries it).         *)
DyingIsReclaimed ==
  \A o \in Obj :
    "DYING" \in flags[o] ~> (mem[o] = "free" \/ "late_approve" \in races \/ Dangling)
=============================================================================
