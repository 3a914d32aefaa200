------------------------------ MODULE AuthFlow ------------------------------
(***************************************************************************)
(* From the first packet of a subscriber to the answer about them: the      *)
(* kernel creates a session and announces it, ISGServer.run dispatches the  *)
(* announcement to a pool of workers, a worker asks the backends of the     *)
(* pool in turn and sends the first answer back (_auth_thread,              *)
(* _apply_auth_result).                                                     *)
(*                                                                          *)
(* The answer names the session by its port alone.  The kernel side is the  *)
(* part of IsgSession that this can notice: which subscriber has which      *)
(* port, and what was decided about the session there.  A circuit breaker   *)
(* (CircuitBreaker) is reduced to what the pool sees of it: any error may   *)
(* open the circuit, and the penalty ends.                                  *)
(***************************************************************************)
EXTENDS Naturals, Sequences, Functions, FiniteSets, FiniteSetsExt

CONSTANTS
  IP,         \* subscribers
  Ports,      \* ports of the bitmap, in the order they are handed out
  Worker,     \* threads of the auth executor
  Configs,    \* configurations: the types of the auth backends in the order of
              \* priority, and whether there is a walled garden
  Ids,        \* identifiers of RADIUS requests (256)
  QueueCap,   \* announcements the daemon's receive buffer holds
  MaxFaults   \* bound: failures of all kinds in one behaviour

ASSUME AuthAssumption ==
  /\ Ports \subseteq Nat \ {0} /\ QueueCap \in Nat \ {0} /\ MaxFaults \in Nat
  /\ Configs \subseteq [pool : Seq({"radius", "mysql"}), garden : BOOLEAN] /\ Ids \in Nat \ {0}

VARIABLES
  reg,        \* subscribers the backends know
  pool,       \* the pool the daemon is configured with
  garden,     \* unauth_service_name_list resolves to a service that limits
  sess,       \* port -> the session there, or Empty
  events,     \* announcements in the daemon's receive buffer
  jobs,       \* the executor's queue
  work,       \* worker -> what it is doing
  open,       \* the backends of the pool whose circuit is open
  rid,        \* _id_counter % Ids
  replies,    \* RADIUS replies that come after the timeout of their request
  faults,     \* failures so far
  wrapped,    \* history: a reply came when its identifier was in use again
  stale,      \* history: an answer met a session it was not about
  refused     \* history: the kernel refused a service

poolVars == <<pool, open, rid, replies, wrapped>>
vars == <<reg, garden, sess, events, jobs, work, poolVars, faults, stale, refused>>

Backend == UNION {DOMAIN c.pool : c \in Configs}
Empty == [ip |-> "none"]
Job == [port : Ports, ip : IP, live : BOOLEAN]
Verdict == {"none", "accept", "reject"}

(* short: the session expires by itself whatever the traffic. *)
Session == [ip : IP, verdict : Verdict, walled : BOOLEAN, noacct : BOOLEAN, short : BOOLEAN]

Idle == [pc |-> "idle"]

(* from: the backends before it have been tried; about: whom the verdict is *)
(* about.                                                                   *)
Working == [pc : {"ask", "apply", "answer"}, job : Job, verdict : Verdict,
            from : Nat \ {0}, about : IP]

(* since: the requests sent since, up to Ids, where the identifier is used *)
(* again.                                                                   *)
Reply == [id : 0 .. Ids - 1, about : IP, verdict : Verdict, since : 0 .. Ids]

TypeOK ==
  /\ reg \subseteq IP /\ [pool |-> pool, garden |-> garden] \in Configs
  /\ sess \in [Ports -> Session \cup {Empty}]
  /\ Range(events) \subseteq Job /\ Len(events) <= QueueCap
  /\ Range(jobs) \subseteq Job
  /\ work \in [Worker -> Working \cup {Idle}]
  /\ open \subseteq DOMAIN pool /\ rid \in 0 .. Ids - 1
  /\ replies \subseteq Reply /\ wrapped \in BOOLEAN
  /\ faults \in 0 .. MaxFaults
  /\ stale \in BOOLEAN /\ refused \in BOOLEAN

Init ==
  /\ reg \in SUBSET IP
  /\ \E c \in Configs : pool = c.pool /\ garden = c.garden
  /\ sess = [p \in Ports |-> Empty]
  /\ events = <<>> /\ jobs = <<>>
  /\ work = [w \in Worker |-> Idle]
  /\ open = {} /\ rid = 0 /\ replies = {} /\ wrapped = FALSE
  /\ faults = 0 /\ stale = FALSE /\ refused = FALSE

Fault == faults < MaxFaults /\ faults' = faults + 1

SessionOf(ip) == {p \in Ports : sess[p].ip = ip}
FreePorts == {p \in Ports : sess[p] = Empty}

(* The requests about the session on port p that are still under way. *)
InHand(p) ==
  \/ \E j \in Range(events) \cup Range(jobs) : j.port = p /\ j.live
  \/ \E w \in Worker : work[w] # Idle /\ work[w].job.port = p /\ work[w].job.live

-----------------------------------------------------------------------------
(* The kernel. *)

(* EVENT_SESS_CREATE; one that the receive buffer has no room for is lost. *)
Announce(p, ip) ==
  \/ /\ Len(events) < QueueCap
     /\ events' = Append(events, [port |-> p, ip |-> ip, live |-> TRUE])
     /\ UNCHANGED faults
  \/ Len(events) = QueueCap /\ Fault /\ UNCHANGED events

(* isg_create_session_notify: the first free port, and an announcement. *)
Packet(ip) ==
  /\ SessionOf(ip) = {} /\ FreePorts # {}
  /\ LET p == CHOOSE q \in FreePorts : \A r \in FreePorts : q <= r
     IN /\ sess' = [sess EXCEPT ![p] = [ip |-> ip, verdict |-> "none", walled |-> FALSE,
                                        noacct |-> FALSE, short |-> TRUE]]
        /\ Announce(p, ip)
  /\ UNCHANGED <<poolVars, reg, garden, jobs, work, stale, refused>>

(* The requests under way about port p are from now on about nobody. *)
Forget(p) ==
  LET Orphan(j) == IF j.port = p THEN [j EXCEPT !.live = FALSE] ELSE j
  IN /\ events' = [k \in DOMAIN events |-> Orphan(events[k])]
     /\ jobs' = [k \in DOMAIN jobs |-> Orphan(jobs[k])]
     /\ work' = [w \in Worker |-> IF work[w] = Idle THEN Idle
                                  ELSE [work[w] EXCEPT !.job = Orphan(@)]]

(* isg_free_session.  A session that ends while its answer is under way     *)
(* (a backend slower than its initial duration) counts as a failure.        *)
Expire(p) ==
  /\ sess[p] # Empty
  /\ IF InHand(p) THEN Fault ELSE UNCHANGED faults
  /\ sess' = [sess EXCEPT ![p] = Empty]
  /\ Forget(p)
  /\ UNCHANGED <<poolVars, reg, garden, stale, refused>>

-----------------------------------------------------------------------------
(* The daemon. *)

(* run and _dispatch: nobody is asked while every circuit is open. *)
Dispatch ==
  /\ events # <<>>
  /\ events' = Tail(events)
  /\ jobs' = IF open = DOMAIN pool THEN jobs ELSE Append(jobs, events[1])
  /\ UNCHANGED <<poolVars, reg, garden, sess, work, faults, stale, refused>>

(* A worker of the pool takes the oldest job. *)
Take(w) ==
  /\ work[w] = Idle /\ jobs # <<>>
  /\ work' = [work EXCEPT ![w] = [pc |-> "ask", job |-> jobs[1], verdict |-> "none",
                                   from |-> 1, about |-> jobs[1].ip]]
  /\ jobs' = Tail(jobs)
  /\ UNCHANGED <<poolVars, reg, garden, sess, events, faults, stale, refused>>

(* MySQL finds a row, one that is not marked as refused, or none. *)
_row_to_result(ip) == IF ip \in reg THEN "accept" ELSE "reject"

(* What a RADIUS server answers, and what is made of it: everything that is *)
(* not an accept is a reject.                                               *)
Code(ip) == IF ip \in reg THEN "Access-Accept" ELSE "Access-Reject"
_parse_auth_reply(code) == IF code = "Access-Accept" THEN "accept" ELSE "reject"

(* The backends worker w may still ask; a circuit that is open is skipped. *)
Left(w) == {k \in DOMAIN pool \ open : work[w].from <= k}

Turn(w, type) == work[w].pc = "ask" /\ Left(w) # {} /\ pool[Min(Left(w))] = type

(* The backend returns a result: no other is asked. *)
Returned(w, v, ip) ==
  work' = [work EXCEPT ![w].verdict = v, ![w].about = ip, ![w].pc = "apply"]

(* record_err, which may open the circuit, and BackendUnavailable. *)
Unavailable(w) ==
  /\ open' \in {open, open \cup {Min(Left(w))}}
  /\ work' = [work EXCEPT ![w].from = Min(Left(w)) + 1]

(* Any other exception ends the job, and the breaker hears nothing of it. *)
Raised(w) == Fault /\ work' = [work EXCEPT ![w] = Idle] /\ UNCHANGED open

(* MySQLBackend.authenticate. *)
AskMySQL(w) ==
  /\ Turn(w, "mysql")
  /\ \/ Returned(w, _row_to_result(work[w].job.ip), work[w].job.ip) /\ UNCHANGED <<faults, open>>
     \/ Fault /\ Unavailable(w)
     \/ Raised(w)
  /\ UNCHANGED <<pool, rid, replies, wrapped>>

(* _next_id. *)
next_id == rid' = (rid + 1) % Ids

(* One more request was sent after those whose replies are late. *)
Older(rs) == {[r EXCEPT !.since = IF @ < Ids THEN @ + 1 ELSE @] : r \in rs}

WrongId_Unchecked(r) == FALSE

WrongId(r) == r.id # rid

(* A reply to an earlier request reaches the socket of this one, which has  *)
(* got the port of the one before.                                          *)
LateReply(w, r) ==
  /\ replies' = Older(replies \ {r})
  /\ \/ WrongId(r) /\ Unavailable(w) /\ UNCHANGED wrapped
     \/ /\ ~WrongId(r)
        /\ Returned(w, r.verdict, r.about)
        /\ wrapped' = (wrapped \/ r.since = Ids)
        /\ UNCHANGED open
  /\ UNCHANGED faults

(* The request times out; its reply may be under way all the same. *)
NoReply(w) ==
  /\ Fault /\ Unavailable(w)
  /\ LET late == [id |-> rid, about |-> work[w].job.ip, since |-> 1,
                  verdict |-> _parse_auth_reply(Code(work[w].job.ip))]
     IN replies' \in {Older(replies), Older(replies) \cup {late}}
  /\ UNCHANGED wrapped

(* RadiusBackend.authenticate. *)
AskRadius(w) ==
  /\ Turn(w, "radius")
  /\ next_id /\ UNCHANGED pool
  /\ \/ /\ \/ /\ Returned(w, _parse_auth_reply(Code(work[w].job.ip)), work[w].job.ip)
              /\ UNCHANGED <<faults, open>>
           \/ /\ Fault /\ UNCHANGED open
              /\ Returned(w, _parse_auth_reply("Access-Challenge"), work[w].job.ip)
           \/ Raised(w)
        /\ replies' = Older(replies) /\ UNCHANGED wrapped
     \/ \E r \in replies : LateReply(w, r)
     \/ NoReply(w)

(* No backend is left: the session stays as it is. *)
NoBackend(w) ==
  /\ work[w].pc = "ask" /\ Left(w) = {}
  /\ work' = [work EXCEPT ![w] = Idle]
  /\ UNCHANGED <<poolVars, faults>>

(* _auth_thread: the backends of the pool are asked in turn. *)
Authenticate(w) ==
  /\ AskMySQL(w) \/ AskRadius(w) \/ NoBackend(w)
  /\ UNCHANGED <<reg, garden, sess, events, jobs, stale, refused>>

(* is_circuit_open, the first time after the penalty. *)
Close(k) ==
  /\ k \in open
  /\ open' = open \ {k}
  /\ UNCHANGED <<reg, garden, sess, events, jobs, work, pool, rid, replies, wrapped, faults, stale, refused>>

(* A change by the daemon reaches whatever session has the port now. *)
Hit(w, change(_)) ==
  LET p == work[w].job.port
  IN IF sess[p] = Empty
       THEN UNCHANGED <<sess, stale>>
       ELSE /\ sess' = [sess EXCEPT ![p] = change(@)]
            /\ stale' = (stale \/ ~work[w].job.live)

MustWall_Never(w) == FALSE

(* A rejected subscriber gets the walled garden, if there is one. *)
MustWall(w) == work[w].verdict = "reject" /\ garden

(* EVENT_SERV_APPLY; the kernel may refuse it, and answers nothing.  *)
ApplyService(w) ==
  /\ work[w].pc = "apply"
  /\ work' = [work EXCEPT ![w].pc = "answer"]
  /\ \/ /\ MustWall(w)
        /\ Hit(w, LAMBDA s : [s EXCEPT !.walled = TRUE])
        /\ UNCHANGED <<faults, refused>>
     \/ MustWall(w) /\ Fault /\ refused' = TRUE /\ UNCHANGED <<sess, stale>>
     \/ ~MustWall(w) /\ UNCHANGED <<sess, stale, faults, refused>>
  /\ UNCHANGED <<poolVars, reg, garden, events, jobs>>

(* EVENT_SESS_APPROVE: the duration and NO_ACCT go by the verdict. *)
Approved(v, s) == [s EXCEPT !.verdict = v, !.noacct = (v = "reject"), !.short = (v = "reject")]

(* Accepted, or rejected into the garden. *)
Approve(w) ==
  /\ work[w].pc = "answer"
  /\ work[w].verdict = "accept" \/ garden
  /\ Hit(w, LAMBDA s : Approved(work[w].verdict, s))
  /\ work' = [work EXCEPT ![w] = Idle]
  /\ UNCHANGED <<poolVars, reg, garden, events, jobs, faults, refused>>

Reject_Lasting(w) ==
  /\ work[w].pc = "answer"
  /\ work[w].verdict = "reject" /\ ~garden
  /\ Hit(w, LAMBDA s : [s EXCEPT !.short = FALSE])
  /\ work' = [work EXCEPT ![w] = Idle]
  /\ UNCHANGED <<poolVars, reg, garden, events, jobs, faults, refused>>

(* EVENT_SESS_CHANGE: rejected without a garden, only the duration is set. *)
Reject(w) ==
  /\ work[w].pc = "answer"
  /\ work[w].verdict = "reject" /\ ~garden
  /\ Hit(w, LAMBDA s : [s EXCEPT !.short = TRUE])
  /\ work' = [work EXCEPT ![w] = Idle]
  /\ UNCHANGED <<poolVars, reg, garden, events, jobs, faults, refused>>

(* OSError from sendto: the rest of the answer is not sent. *)
SendFails(w) ==
  /\ work[w].pc \in {"apply", "answer"} /\ Fault
  /\ work' = [work EXCEPT ![w] = Idle]
  /\ UNCHANGED <<poolVars, reg, garden, sess, events, jobs, stale, refused>>

(* The daemon ends and is started again, with the first identifier. *)
Restart ==
  /\ Fault
  /\ events' = <<>> /\ jobs' = <<>> /\ work' = [w \in Worker |-> Idle]
  /\ open' = {} /\ rid' = 0 /\ replies' = {[r EXCEPT !.since = Ids] : r \in replies}
  /\ UNCHANGED <<pool, wrapped, reg, garden, sess, stale, refused>>

(* The operator adds a subscriber to the database. *)
Register(ip) ==
  /\ ip \notin reg
  /\ reg' = reg \cup {ip}
  /\ UNCHANGED <<poolVars, garden, sess, events, jobs, work, faults, stale, refused>>

WorkerStep(w) == Take(w) \/ Authenticate(w) \/ ApplyService(w) \/ Approve(w) \/ Reject(w)

Next ==
  \/ \E ip \in IP : Packet(ip) \/ Register(ip)
  \/ \E p \in Ports : Expire(p)
  \/ Dispatch
  \/ \E w \in Worker : WorkerStep(w) \/ SendFails(w)
  \/ \E k \in Backend : Close(k)
  \/ Restart

Spec == Init /\ [][Next]_vars

(* The subscribers keep sending, the daemon's threads run, penalties end,   *)
(* and a session whose duration is limited expires unless its answer is     *)
(* under way.                                                               *)
FairSpec ==
  /\ Spec
  /\ \A ip \in IP : SF_vars(Packet(ip))
  /\ WF_vars(Dispatch)
  /\ \A w \in Worker : WF_vars(WorkerStep(w))
  /\ \A k \in Backend : WF_vars(Close(k))
  /\ \A p \in Ports : WF_vars(sess[p] # Empty /\ sess[p].short /\ ~InHand(p) /\ Expire(p))

-----------------------------------------------------------------------------
IsApproved(p) == sess[p] # Empty /\ sess[p].verdict # "none"

(* The verdict a worker applies is about the subscriber it asked for: a     *)
(* late RADIUS reply is told by its identifier, unless the identifiers have *)
(* gone round, or begun anew with the daemon, since.                        *)
OwnAnswer ==
  \A w \in Worker : work[w].pc \in {"apply", "answer"} /\ work[w].about # work[w].job.ip => wrapped

(* A session is approved only for a subscriber the backends know, or        *)
(* unaccounted for and behind the walled garden, unless an answer went      *)
(* astray; a refused service leaves it without the garden.                  *)
FailClosed ==
  \A p \in Ports : IsApproved(p) /\ ~stale /\ ~wrapped /\ sess[p].ip \notin reg =>
    sess[p].noacct /\ (sess[p].walled \/ refused)

(* "a freshly-added client gets online": whatever fails on the way, a       *)
(* subscriber in the database who keeps sending gets accepted, unless an    *)
(* answer goes astray.                                                      *)
Served ==
  \A ip \in IP : ip \in reg ~> (stale \/ \E p \in SessionOf(ip) : sess[p].verdict = "accept")
=============================================================================
