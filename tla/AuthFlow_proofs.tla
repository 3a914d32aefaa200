--------------------------- MODULE AuthFlow_proofs ---------------------------
(***************************************************************************)
(* Proofs about the authentication executor of the daemon: whom an answer   *)
(* is about, and what a session has got when it is approved, for any number *)
(* of workers, backends, subscribers, ports and identifiers.                *)
(***************************************************************************)
EXTENDS AuthFlow, WellFoundedInduction, TLAPS

IsSession(s) ==
  s = [ip |-> s.ip, verdict |-> s.verdict, walled |-> s.walled, noacct |-> s.noacct, short |-> s.short]
IsWork(x) ==
  x = [pc |-> x.pc, job |-> x.job, verdict |-> x.verdict, from |-> x.from, about |-> x.about]
IsReply(r) ==
  r = [id |-> r.id, about |-> r.about, verdict |-> r.verdict, since |-> r.since]

(* A request that is still about a session names the port of that session,  *)
(* when se are the sessions.                                                *)
Fits(j, se) == j.live => se[j.port] # Empty /\ se[j.port].ip = j.ip

(* What worker state x has right, given the variables sess, reg, wrapped,   *)
(* garden and refused: its verdict is about its own subscriber, an accept   *)
(* is about one that the backends know, and the walled garden comes before  *)
(* the approval.                                                            *)
WorkOK(x, se, rg, wr, ga, rf) ==
  x # Idle =>
    /\ IsWork(x) /\ x.job \in Job /\ x.pc \in {"ask", "apply", "answer"}
    /\ Fits(x.job, se)
    /\ x.pc # "ask" => x.verdict \in {"accept", "reject"}
    /\ x.verdict = "accept" => x.about \in rg
    /\ wr \/ x.about = x.job.ip
    /\ x.pc = "answer" /\ x.verdict = "reject" /\ x.job.live /\ ga => se[x.job.port].walled \/ rf

WorkInv ==
  /\ work = [w \in Worker |-> work[w]]
  /\ \A w \in Worker : WorkOK(work[w], sess, reg, wrapped, garden, refused)

SessInv ==
  /\ sess = [p \in Ports |-> sess[p]]
  /\ \A p \in Ports : sess[p] # Empty => IsSession(sess[p])

QueueInv ==
  /\ events \in Seq(Job) /\ \A n \in 1 .. Len(events) : Fits(events[n], sess)
  /\ jobs \in Seq(Job) /\ \A n \in 1 .. Len(jobs) : Fits(jobs[n], sess)

(* A late reply whose identifier has not been used again is as far behind   *)
(* the counter as requests were sent since.  It says what the server knew.  *)
ReplyOK(r, id, rg) ==
  /\ IsReply(r) /\ r.id \in 0 .. Ids - 1 /\ r.since \in 1 .. Ids
  /\ r.since < Ids => r.id + r.since = id \/ r.id + r.since = id + Ids
  /\ r.verdict \in {"accept", "reject"}
  /\ r.verdict = "accept" => r.about \in rg

RepliesInv == rid \in 0 .. Ids - 1 /\ \A r \in replies : ReplyOK(r, rid, reg)

AuthInv == WorkInv /\ SessInv /\ QueueInv /\ RepliesInv /\ FailClosed

(* A session has fields that an empty port has not. *)
LEMMA NotEmpty == ASSUME NEW s, IsSession(s) PROVE s # Empty
<1>1. "short" \in DOMAIN s
  BY DEF IsSession
<1>2. DOMAIN Empty = {"ip"}
  BY DEF Empty
<1> QED
  BY <1>1, <1>2

(* The identifier after rid. *)
LEMMA NextId ==
  ASSUME rid \in 0 .. Ids - 1, next_id
  PROVE  rid' \in 0 .. Ids - 1 /\ (rid' = rid + 1 \/ rid' + Ids = rid + 1)
<1>1. Ids \in Nat \ {0}
  BY AuthAssumption DEF AuthAssumption
<1>2. CASE rid + 1 < Ids
  <2>1. (rid + 1) % Ids = rid + 1
    BY <1>1, <1>2
  <2> QED
    BY <1>1, <1>2, <2>1 DEF next_id
<1>3. CASE rid + 1 = Ids
  <2>1. (rid + 1) % Ids = 0
    BY <1>1, <1>3
  <2> QED
    BY <1>1, <1>3, <2>1 DEF next_id
<1> QED
  BY <1>1, <1>2, <1>3

(* One more request is sent: the replies of those before are one older. *)
LEMMA OlderOK ==
  ASSUME RepliesInv, next_id, NEW r \in Older(replies)
  PROVE  ReplyOK(r, rid', reg)
<1>1. Ids \in Nat \ {0}
  BY AuthAssumption DEF AuthAssumption
<1>2. PICK q \in replies : r = [q EXCEPT !.since = IF @ < Ids THEN @ + 1 ELSE @]
  BY DEF Older
<1>3. ReplyOK(q, rid, reg) /\ rid \in 0 .. Ids - 1
  BY DEF RepliesInv
<1>4. /\ r.id = q.id /\ r.about = q.about /\ r.verdict = q.verdict /\ IsReply(r)
      /\ r.since = IF q.since < Ids THEN q.since + 1 ELSE q.since
  BY <1>2, <1>3 DEF ReplyOK, IsReply
<1>5. rid' \in 0 .. Ids - 1 /\ (rid' = rid + 1 \/ rid' + Ids = rid + 1)
  BY <1>3, NextId
<1>6. r.since \in 1 .. Ids
  BY <1>1, <1>3, <1>4 DEF ReplyOK
<1>7. ASSUME r.since < Ids PROVE r.id + r.since = rid' \/ r.id + r.since = rid' + Ids
  <2>1. q.id \in Nat /\ q.since \in Nat /\ q.id < Ids /\ q.since <= Ids
    BY <1>1, <1>3 DEF ReplyOK
  <2>2. q.since < Ids /\ r.since = q.since + 1 /\ q.since + 1 < Ids
    BY <1>1, <1>4, <1>7, <2>1
  <2>3. q.id + q.since = rid \/ q.id + q.since = rid + Ids
    BY <1>3, <2>2 DEF ReplyOK
  <2>4. rid \in Nat /\ rid' \in Nat /\ rid < Ids
    BY <1>1, <1>3, <1>5
  <2>5. q.id + (q.since + 1) = rid' \/ q.id + (q.since + 1) = rid' + Ids
    <3>1. PICK i \in Nat, s \in Nat, a \in Nat, b \in Nat : i = q.id /\ s = q.since /\ a = rid /\ b = rid'
      BY <2>1, <2>4
    <3>2. i < Ids /\ s + 1 < Ids /\ a < Ids /\ (i + s = a \/ i + s = a + Ids) /\ (b = a + 1 \/ b + Ids = a + 1)
      BY <1>5, <2>1, <2>2, <2>3, <2>4, <3>1
    <3>3. i + (s + 1) = b \/ i + (s + 1) = b + Ids
      BY <1>1, <3>2
    <3> QED
      BY <3>1, <3>3
  <2> QED
    BY <1>4, <2>2, <2>5
<1> QED
  BY <1>3, <1>4, <1>6, <1>7 DEF ReplyOK

(* A reply with the identifier of the request that is being answered is its *)
(* own or one that came when the identifiers had gone round.                *)
LEMMA SameIdWrapped ==
  ASSUME RepliesInv, NEW r \in replies, ~WrongId(r)
  PROVE  r.since = Ids
<1>1. Ids \in Nat \ {0}
  BY AuthAssumption DEF AuthAssumption
<1>2. /\ r.id \in 0 .. Ids - 1 /\ r.since \in 1 .. Ids
      /\ r.since < Ids => r.id + r.since = rid \/ r.id + r.since = rid + Ids
  BY DEF RepliesInv, ReplyOK
<1>3. r.id = rid
  BY DEF WrongId
<1> QED
  BY <1>1, <1>2, <1>3

(* The sessions that are there stay, with their subscribers, and what is    *)
(* remembered is not forgotten.                                             *)
Evolves ==
  /\ \A p \in Ports : sess[p] # Empty =>
       sess'[p] # Empty /\ sess'[p].ip = sess[p].ip /\ (sess[p].walled => sess'[p].walled)
  /\ reg \subseteq reg' /\ (wrapped => wrapped') /\ garden' = garden /\ (refused => refused')

(* What a worker has right stays right when no session ends. *)
LEMMA EvolveWork ==
  ASSUME Evolves, NEW x, WorkOK(x, sess, reg, wrapped, garden, refused)
  PROVE  WorkOK(x, sess', reg', wrapped', garden', refused')
<1> SUFFICES ASSUME x # Idle
             PROVE  WorkOK(x, sess', reg', wrapped', garden', refused')
  BY DEF WorkOK
<1>1. x.job.port \in Ports
  BY DEF WorkOK, Job
<1>2. Fits(x.job, sess')
  BY <1>1 DEF WorkOK, Fits, Evolves
<1>3. x.job.live => sess[x.job.port] # Empty
  BY DEF WorkOK, Fits
<1>4. x.pc = "answer" /\ x.verdict = "reject" /\ x.job.live /\ garden' => sess'[x.job.port].walled \/ refused'
  BY <1>1, <1>3 DEF WorkOK, Evolves
<1> QED
  BY <1>2, <1>4 DEF WorkOK, Evolves

(* The same of a request that waits. *)
LEMMA EvolveFits ==
  ASSUME Evolves, NEW j \in Job, Fits(j, sess)
  PROVE  Fits(j, sess')
BY DEF Evolves, Fits, Job

(* A step of worker w under which no session ends. *)
LEMMA OneWorker ==
  ASSUME WorkInv, Evolves, NEW w \in Worker, NEW x, work' = [work EXCEPT ![w] = x],
         WorkOK(x, sess', reg', wrapped', garden', refused')
  PROVE  WorkInv'
<1>1. \A v \in Worker : WorkOK(work[v], sess', reg', wrapped', garden', refused')
  BY EvolveWork DEF WorkInv
<1>2. work' = [v \in Worker |-> work'[v]] /\ \A v \in Worker : work'[v] = IF v = w THEN x ELSE work[v]
  BY DEF WorkInv
<1> QED
  BY <1>1, <1>2 DEF WorkInv

(* What waits stays right when no session ends and nothing is added. *)
LEMMA SameQueues ==
  ASSUME QueueInv, Evolves, UNCHANGED <<events, jobs>>
  PROVE  QueueInv'
<1>1. \A n \in 1 .. Len(events) : events[n] \in Job
  BY DEF QueueInv
<1>2. \A n \in 1 .. Len(jobs) : jobs[n] \in Job
  BY DEF QueueInv
<1> QED
  BY <1>1, <1>2, EvolveFits DEF QueueInv

(* A worker that is free again has nothing to get wrong. *)
LEMMA IdleOK == ASSUME NEW se, NEW rg, NEW wr, NEW ga, NEW rf PROVE WorkOK(Idle, se, rg, wr, ga, rf)
BY DEF WorkOK

(* A backend is asked: the worker is free again, or goes on to the next     *)
(* backend, or has a verdict about its own subscriber unless the            *)
(* identifiers have gone round.                                             *)
LEMMA Asked ==
  ASSUME WorkInv, RepliesInv, NEW w \in Worker, AskMySQL(w) \/ AskRadius(w) \/ NoBackend(w),
         UNCHANGED <<sess, reg, garden, refused>>
  PROVE  \E x : work' = [work EXCEPT ![w] = x] /\ WorkOK(x, sess, reg, wrapped', garden, refused)
<1> DEFINE y == work[w]
<1>1. y.pc = "ask" /\ y # Idle
  BY DEF AskMySQL, AskRadius, NoBackend, Turn, Idle
<1>2. WorkOK(y, sess, reg, wrapped, garden, refused) /\ (wrapped => wrapped')
  <2>1. AskMySQL(w) => wrapped' = wrapped
    BY DEF AskMySQL
  <2>2. NoBackend(w) => wrapped' = wrapped
    BY DEF NoBackend, poolVars
  <2>3. AskRadius(w) => (wrapped => wrapped')
    BY Zenon DEF AskRadius, LateReply, NoReply
  <2>4. wrapped => wrapped'
    BY <2>1, <2>2, <2>3, Zenon
  <2> QED
    BY <2>4 DEF WorkInv
<1>3. IsWork(y) /\ y.job \in Job /\ Fits(y.job, sess)
  BY <1>1, <1>2 DEF WorkOK
<1>4. CASE work' = [work EXCEPT ![w] = Idle]
  BY <1>4, IdleOK, Zenon
<1>5. ASSUME NEW n, work' = [work EXCEPT ![w].from = n]
      PROVE  \E x : work' = [work EXCEPT ![w] = x] /\ WorkOK(x, sess, reg, wrapped', garden, refused)
  <2> DEFINE x == [y EXCEPT !.from = n]
  <2>1. x = [pc |-> y.pc, job |-> y.job, verdict |-> y.verdict, from |-> n, about |-> y.about]
    BY <1>3 DEF IsWork
  <2>2. work' = [work EXCEPT ![w] = x]
    BY <1>5
  <2> HIDE DEF x
  <2>3. IsWork(x) /\ x.pc = y.pc /\ x.job = y.job /\ x.verdict = y.verdict /\ x.about = y.about
    BY <2>1 DEF IsWork
  <2>4. WorkOK(x, sess, reg, wrapped', garden, refused)
    BY <1>1, <1>2, <2>3 DEF WorkOK
  <2> QED
    BY <2>2, <2>4, Zenon
<1>6. ASSUME NEW v \in {"accept", "reject"}, NEW a, Returned(w, v, a), v = "accept" => a \in reg,
             wrapped' \/ a = y.job.ip
      PROVE  \E x : work' = [work EXCEPT ![w] = x] /\ WorkOK(x, sess, reg, wrapped', garden, refused)
  <2> DEFINE x == [y EXCEPT !.verdict = v, !.about = a, !.pc = "apply"]
  <2>1. x = [pc |-> "apply", job |-> y.job, verdict |-> v, from |-> y.from, about |-> a]
    <3> DEFINE x1 == [y EXCEPT !.verdict = v]
               x2 == [x1 EXCEPT !.about = a]
    <3>1. x1 = [pc |-> y.pc, job |-> y.job, verdict |-> v, from |-> y.from, about |-> y.about]
      BY <1>3 DEF IsWork
    <3>2. x2 = [pc |-> y.pc, job |-> y.job, verdict |-> v, from |-> y.from, about |-> a]
      <4> HIDE DEF x1
      <4> QED  BY <3>1
    <3>3. x = [x2 EXCEPT !.pc = "apply"]
      OBVIOUS
    <3> HIDE DEF x1, x2
    <3> QED
      BY <3>2, <3>3
  <2>2. work' = [work EXCEPT ![w] = x]
    BY <1>6, Zenon DEF Returned, WorkInv
  <2> HIDE DEF x
  <2>3. IsWork(x) /\ x.pc = "apply" /\ x.job = y.job /\ x.verdict = v /\ x.about = a
    BY <2>1 DEF IsWork
  <2>4. WorkOK(x, sess, reg, wrapped', garden, refused)
    BY <1>3, <1>6, <2>3 DEF WorkOK
  <2> QED
    BY <2>2, <2>4, Zenon
<1>7. CASE AskMySQL(w)
  <2>1. _row_to_result(y.job.ip) \in {"accept", "reject"} /\ (_row_to_result(y.job.ip) = "accept" => y.job.ip \in reg)
    BY DEF _row_to_result
  <2> QED
    BY <1>4, <1>5, <1>6, <1>7, <2>1 DEF AskMySQL, Unavailable, Raised
<1>8. CASE AskRadius(w)
  <2>1. /\ _parse_auth_reply(Code(y.job.ip)) \in {"accept", "reject"}
        /\ _parse_auth_reply(Code(y.job.ip)) = "accept" => y.job.ip \in reg
        /\ _parse_auth_reply("Access-Challenge") = "reject"
    BY DEF _parse_auth_reply, Code
  <2>2. CASE \E r \in replies : LateReply(w, r)
    <3>1. PICK r \in replies : LateReply(w, r)
      BY <2>2
    <3>2. CASE Unavailable(w)
      BY <1>5, <3>2, Zenon DEF Unavailable
    <3>3. CASE ~WrongId(r) /\ Returned(w, r.verdict, r.about) /\ wrapped' = (wrapped \/ r.since = Ids)
      <4>1. wrapped'
        BY <3>3, SameIdWrapped, Zenon
      <4>2. r.verdict \in {"accept", "reject"} /\ (r.verdict = "accept" => r.about \in reg)
        BY DEF RepliesInv, ReplyOK
      <4> QED
        BY <1>6, <3>3, <4>1, <4>2
    <3> QED
      BY <3>1, <3>2, <3>3 DEF LateReply
  <2>3. CASE NoReply(w)
    BY <1>5, <2>3, Zenon DEF NoReply, Unavailable
  <2>4. CASE Raised(w)
    BY <1>4, <2>4, Zenon DEF Raised
  <2>5. CASE \/ Returned(w, _parse_auth_reply(Code(y.job.ip)), y.job.ip)
             \/ Returned(w, _parse_auth_reply("Access-Challenge"), y.job.ip)
    BY <1>6, <2>1, <2>5
  <2> QED
    BY <1>8, <2>2, <2>3, <2>4, <2>5 DEF AskRadius
<1>9. CASE NoBackend(w)
  BY <1>4, <1>9, Zenon DEF NoBackend
<1> QED
  BY <1>7, <1>8, <1>9

(* What the replies that are late have right, after a backend was asked. *)
LEMMA RepliesAsked ==
  ASSUME RepliesInv, NEW w \in Worker, AskMySQL(w) \/ AskRadius(w) \/ NoBackend(w), reg' = reg
  PROVE  RepliesInv'
<1>1. CASE AskMySQL(w) \/ NoBackend(w)
  <2>1. rid' = rid /\ replies' = replies
    BY <1>1 DEF AskMySQL, NoBackend, poolVars
  <2> QED
    BY <2>1 DEF RepliesInv
<1>2. CASE AskRadius(w)
  <2> DEFINE l == [id |-> rid, about |-> work[w].job.ip, since |-> 1,
                   verdict |-> _parse_auth_reply(Code(work[w].job.ip))]
  <2>1. Ids \in Nat \ {0} /\ rid \in 0 .. Ids - 1 /\ next_id
    BY <1>2, AuthAssumption DEF AuthAssumption, RepliesInv, AskRadius
  <2>2. rid' \in 0 .. Ids - 1 /\ (rid' = rid + 1 \/ rid' + Ids = rid + 1)
    BY <2>1, NextId
  <2>3. replies' \subseteq Older(replies) \cup {l}
    <3>1. \A r \in replies : Older(replies \ {r}) \subseteq Older(replies)
      BY DEF Older
    <3> HIDE DEF l
    <3>2. NoReply(w) => replies' \subseteq Older(replies) \cup {l}
      BY DEF NoReply, l
    <3> QED
      BY <1>2, <3>1, <3>2, Zenon DEF AskRadius, LateReply
  <2>4. ReplyOK(l, rid', reg)
    <3>1. /\ l.id = rid /\ l.since = 1 /\ l.about = work[w].job.ip /\ IsReply(l)
          /\ l.verdict = _parse_auth_reply(Code(l.about))
      BY DEF IsReply
    <3> HIDE DEF l
    <3>2. l.verdict \in {"accept", "reject"} /\ (l.verdict = "accept" => l.about \in reg)
      BY <3>1 DEF _parse_auth_reply, Code
    <3>3. l.id \in 0 .. Ids - 1 /\ l.since \in 1 .. Ids
      BY <2>1, <3>1
    <3>4. l.id + l.since = rid' \/ l.id + l.since = rid' + Ids
      BY <2>1, <2>2, <3>1, Zenon
    <3> QED
      BY <3>1, <3>2, <3>3, <3>4 DEF ReplyOK
  <2> HIDE DEF l
  <2>5. \A r \in replies' : ReplyOK(r, rid', reg)
    BY <2>1, <2>3, <2>4, OlderOK
  <2> QED
    BY <2>2, <2>5 DEF RepliesInv
<1> QED
  BY <1>1, <1>2

(* Nothing is decided about a session by a step that touches none. *)
LEMMA UndecidedKept ==
  ASSUME FailClosed, sess' = sess, reg \subseteq reg', stale => stale', wrapped => wrapped', refused => refused'
  PROVE  FailClosed'
BY DEF FailClosed, IsApproved

(* A step under which every session stays as it is. *)
LEMMA SessionsKept ==
  ASSUME SessInv, sess' = sess, reg \subseteq reg', garden' = garden, wrapped => wrapped', refused => refused'
  PROVE  SessInv' /\ Evolves
BY DEF SessInv, Evolves

(* One session changes, and remains its subscriber's and walled. *)
LEMMA OneSession ==
  ASSUME SessInv, NEW p \in Ports, sess[p] # Empty, NEW t, sess' = [sess EXCEPT ![p] = t], IsSession(t),
         t.ip = sess[p].ip, sess[p].walled => t.walled, reg' = reg, garden' = garden, wrapped' = wrapped,
         refused' = refused
  PROVE  SessInv' /\ Evolves /\ \A q \in Ports : sess'[q] = IF q = p THEN t ELSE sess[q]
<1>1. \A q \in Ports : sess'[q] = IF q = p THEN t ELSE sess[q]
  BY DEF SessInv
<1>2. sess' = [q \in Ports |-> sess'[q]]
  BY DEF SessInv
<1>3. SessInv'
  BY <1>1, <1>2 DEF SessInv
<1>4. t # Empty
  BY NotEmpty
<1> QED
  BY <1>1, <1>3, <1>4, Zenon DEF Evolves

(* The worker's backend is asked. *)
LEMMA AuthAuthenticate ==
  ASSUME AuthInv, NEW w \in Worker, Authenticate(w)
  PROVE  AuthInv'
<1>1. /\ AskMySQL(w) \/ AskRadius(w) \/ NoBackend(w)
      /\ sess' = sess /\ reg' = reg /\ garden' = garden /\ refused' = refused /\ stale' = stale
      /\ UNCHANGED <<events, jobs>>
  BY DEF Authenticate
<1>2. wrapped => wrapped'
  <2>1. AskMySQL(w) => wrapped' = wrapped
    BY DEF AskMySQL
  <2>2. NoBackend(w) => wrapped' = wrapped
    BY DEF NoBackend, poolVars
  <2>3. AskRadius(w) => (wrapped => wrapped')
    BY Zenon DEF AskRadius, LateReply, NoReply
  <2> QED
    BY <1>1, <2>1, <2>2, <2>3, Zenon
<1>3. SessInv' /\ Evolves
  BY <1>1, <1>2, SessionsKept DEF AuthInv
<1>4. PICK x : work' = [work EXCEPT ![w] = x] /\ WorkOK(x, sess, reg, wrapped', garden, refused)
  BY <1>1, Asked DEF AuthInv
<1>5. WorkInv'
  BY <1>1, <1>3, <1>4, OneWorker, Zenon DEF AuthInv
<1>6. RepliesInv'
  BY <1>1, RepliesAsked DEF AuthInv
<1>7. QueueInv'
  BY <1>1, <1>3, SameQueues DEF AuthInv
<1>8. FailClosed'
  BY <1>1, <1>2, UndecidedKept DEF AuthInv
<1> QED
  BY <1>3, <1>5, <1>6, <1>7, <1>8 DEF AuthInv

(* A worker goes on, or is free again, and no session has ended. *)
LEMMA WorkerMoves ==
  ASSUME AuthInv, NEW w \in Worker, NEW x, work' = [work EXCEPT ![w] = x],
         WorkOK(x, sess', reg', wrapped', garden', refused'),
         Evolves, SessInv', FailClosed', UNCHANGED <<events, jobs, poolVars, reg>>
  PROVE  AuthInv'
<1>1. WorkInv' /\ QueueInv'
  BY OneWorker, SameQueues, Zenon DEF AuthInv
<1>2. RepliesInv'
  BY DEF AuthInv, RepliesInv, poolVars
<1> QED
  BY <1>1, <1>2 DEF AuthInv

(* A flag of a session is set, and its other fields are what they were. *)
LEMMA FieldSet ==
  ASSUME NEW s, IsSession(s), NEW b
  PROVE  /\ [s EXCEPT !.short = b] = [ip |-> s.ip, verdict |-> s.verdict, walled |-> s.walled,
                                      noacct |-> s.noacct, short |-> b]
         /\ [s EXCEPT !.walled = b] = [ip |-> s.ip, verdict |-> s.verdict, walled |-> b,
                                       noacct |-> s.noacct, short |-> s.short]
         /\ [s EXCEPT !.verdict = b] = [ip |-> s.ip, verdict |-> b, walled |-> s.walled,
                                        noacct |-> s.noacct, short |-> s.short]
         /\ [s EXCEPT !.noacct = b] = [ip |-> s.ip, verdict |-> s.verdict, walled |-> s.walled,
                                       noacct |-> b, short |-> s.short]
BY DEF IsSession

(* The fields that EVENT_SESS_APPROVE sets. *)
LEMMA ApprovedFields ==
  ASSUME NEW s, IsSession(s), NEW v
  PROVE  Approved(v, s) = [ip |-> s.ip, verdict |-> v, walled |-> s.walled,
                           noacct |-> (v = "reject"), short |-> (v = "reject")]
<1>1. PICK n : n = (v = "reject")
  OBVIOUS
<1>2. PICK s1 : s1 = [s EXCEPT !.verdict = v]
  BY Zenon
<1>3. PICK s2 : s2 = [s1 EXCEPT !.noacct = n]
  BY Zenon
<1>4. Approved(v, s) = [s2 EXCEPT !.short = n]
  BY <1>1, <1>2, <1>3, Zenon DEF Approved
<1>5. s1 = [ip |-> s.ip, verdict |-> v, walled |-> s.walled, noacct |-> s.noacct, short |-> s.short]
  BY <1>2, FieldSet, Zenon
<1>6. IsSession(s1) /\ s1.ip = s.ip /\ s1.verdict = v /\ s1.walled = s.walled /\ s1.short = s.short
  BY <1>5 DEF IsSession
<1>7. s2 = [ip |-> s.ip, verdict |-> v, walled |-> s.walled, noacct |-> n, short |-> s.short]
  <2>1. s2 = [ip |-> s1.ip, verdict |-> s1.verdict, walled |-> s1.walled, noacct |-> n, short |-> s1.short]
    BY <1>3, <1>6, FieldSet, Zenon
  <2> QED
    BY <1>6, <2>1, Zenon
<1>8. IsSession(s2) /\ s2.ip = s.ip /\ s2.verdict = v /\ s2.walled = s.walled /\ s2.noacct = n
  BY <1>7 DEF IsSession
<1>9. [s2 EXCEPT !.short = n] = [ip |-> s.ip, verdict |-> v, walled |-> s.walled, noacct |-> n, short |-> n]
  <2>1. [s2 EXCEPT !.short = n]
          = [ip |-> s2.ip, verdict |-> s2.verdict, walled |-> s2.walled, noacct |-> s2.noacct, short |-> n]
    BY <1>8, FieldSet, Zenon
  <2> QED
    BY <1>8, <2>1, Zenon
<1> QED
  BY <1>1, <1>4, <1>9, Zenon

(* EVENT_SESS_APPROVE. *)
LEMMA AuthApprove ==
  ASSUME AuthInv, NEW w \in Worker, Approve(w)
  PROVE  AuthInv'
<1> DEFINE y == work[w]
           p == y.job.port
           t == Approved(y.verdict, sess[p])
<1>1. /\ y.pc = "answer" /\ (y.verdict = "accept" \/ garden)
      /\ work' = [work EXCEPT ![w] = Idle]
      /\ reg' = reg /\ garden' = garden /\ refused' = refused /\ UNCHANGED <<events, jobs, poolVars>>
  BY DEF Approve
<1>2. wrapped' = wrapped
  BY <1>1 DEF poolVars
<1>3. y # Idle
  BY <1>1 DEF Idle
<1>4. /\ p \in Ports /\ y.verdict \in {"accept", "reject"} /\ Fits(y.job, sess)
      /\ y.verdict = "accept" => y.about \in reg
      /\ wrapped \/ y.about = y.job.ip
      /\ y.verdict = "reject" /\ y.job.live /\ garden => sess[p].walled \/ refused
  BY <1>1, <1>3 DEF AuthInv, WorkInv, WorkOK, Job
<1>5. CASE sess[p] = Empty
  <2>1. sess' = sess /\ stale' = stale
    BY <1>5 DEF Approve, Hit
  <2>2. SessInv' /\ Evolves
    BY <1>1, <1>2, <2>1, SessionsKept DEF AuthInv
  <2>3. FailClosed'
    BY <1>1, <1>2, <2>1, UndecidedKept DEF AuthInv
  <2> QED
    BY <1>1, <2>2, <2>3, IdleOK, WorkerMoves, Zenon
<1>6. CASE sess[p] # Empty
  <2>1. sess' = [sess EXCEPT ![p] = t] /\ stale' = (stale \/ ~y.job.live)
    BY <1>6 DEF Approve, Hit
  <2>2. IsSession(sess[p])
    BY <1>4, <1>6 DEF AuthInv, SessInv
  <2>3. /\ IsSession(t) /\ t.ip = sess[p].ip /\ t.walled = sess[p].walled
        /\ t.verdict = y.verdict /\ t.noacct = (y.verdict = "reject")
    <3>1. t = [ip |-> sess[p].ip, verdict |-> y.verdict, walled |-> sess[p].walled,
               noacct |-> (y.verdict = "reject"), short |-> (y.verdict = "reject")]
      BY <2>2, ApprovedFields
    <3> HIDE DEF t
    <3> QED
      BY <3>1 DEF IsSession
  <2> HIDE DEF t
  <2>4. SessInv' /\ Evolves /\ \A q \in Ports : sess'[q] = IF q = p THEN t ELSE sess[q]
    <3>1. IsSession(t) /\ t.ip = sess[p].ip /\ (sess[p].walled => t.walled)
      BY <2>3
    <3> QED
      BY <1>1, <1>2, <1>4, <1>6, <2>1, <3>1, OneSession, ZenonT(20) DEF AuthInv
  <2>5. FailClosed'
    <3> SUFFICES ASSUME NEW q \in Ports, ~stale', ~wrapped', sess'[q].ip \notin reg', IsApproved(q)'
                 PROVE  sess'[q].noacct /\ (sess'[q].walled \/ refused')
      BY DEF FailClosed
    <3>1. ~stale /\ y.job.live /\ ~wrapped
      BY <1>2, <2>1, Zenon
    <3>2. CASE q = p
      <4>1. t.ip = y.job.ip /\ y.about = y.job.ip
        BY <1>4, <2>3, <3>1, SMTT(20) DEF Fits
      <4>2. y.verdict = "reject"
        BY <1>1, <1>4, <2>4, <3>2, <4>1
      <4>3. sess[p].walled \/ refused
        BY <1>1, <1>4, <3>1, <4>2
      <4> QED
        BY <1>1, <2>3, <2>4, <3>2, <4>2, <4>3, Zenon
    <3>3. CASE q # p
      BY <1>1, <2>4, <3>1, <3>3 DEF AuthInv, FailClosed, IsApproved
    <3> QED
      BY <3>2, <3>3
  <2> QED
    BY <1>1, <2>4, <2>5, IdleOK, WorkerMoves, Zenon
<1> QED
  BY <1>5, <1>6

(* EVENT_SESS_CHANGE. *)
LEMMA AuthReject ==
  ASSUME AuthInv, NEW w \in Worker, Reject(w)
  PROVE  AuthInv'
<1> DEFINE y == work[w]
           p == y.job.port
           t == [sess[p] EXCEPT !.short = TRUE]
<1>1. /\ y.pc = "answer" /\ work' = [work EXCEPT ![w] = Idle]
      /\ reg' = reg /\ garden' = garden /\ refused' = refused /\ UNCHANGED <<events, jobs, poolVars>>
  BY DEF Reject
<1>2. wrapped' = wrapped
  BY <1>1 DEF poolVars
<1>3. y # Idle
  BY <1>1 DEF Idle
<1>4. p \in Ports
  BY <1>3 DEF AuthInv, WorkInv, WorkOK, Job
<1>5. CASE sess[p] = Empty
  <2>1. sess' = sess /\ stale' = stale
    BY <1>5 DEF Reject, Hit
  <2>2. SessInv' /\ Evolves
    BY <1>1, <1>2, <2>1, SessionsKept DEF AuthInv
  <2>3. FailClosed'
    BY <1>1, <1>2, <2>1, UndecidedKept DEF AuthInv
  <2> QED
    BY <1>1, <2>2, <2>3, IdleOK, WorkerMoves, Zenon
<1>6. CASE sess[p] # Empty
  <2>1. sess' = [sess EXCEPT ![p] = t] /\ stale' = (stale \/ ~y.job.live)
    BY <1>6 DEF Reject, Hit
  <2>2. IsSession(sess[p])
    BY <1>4, <1>6 DEF AuthInv, SessInv
  <2>3. /\ IsSession(t) /\ t.ip = sess[p].ip /\ t.walled = sess[p].walled
        /\ t.verdict = sess[p].verdict /\ t.noacct = sess[p].noacct
    <3>1. t = [ip |-> sess[p].ip, verdict |-> sess[p].verdict, walled |-> sess[p].walled,
               noacct |-> sess[p].noacct, short |-> TRUE]
      BY <2>2, FieldSet, Zenon
    <3> HIDE DEF t
    <3> QED
      BY <3>1 DEF IsSession
  <2> HIDE DEF t
  <2>4. SessInv' /\ Evolves /\ \A q \in Ports : sess'[q] = IF q = p THEN t ELSE sess[q]
    BY <1>1, <1>2, <1>4, <1>6, <2>1, <2>3, OneSession, Zenon DEF AuthInv
  <2>5. FailClosed'
    <3> SUFFICES ASSUME NEW q \in Ports, ~stale', ~wrapped', sess'[q].ip \notin reg', IsApproved(q)'
                 PROVE  sess'[q].noacct /\ (sess'[q].walled \/ refused')
      BY DEF FailClosed
    <3>1. ~stale /\ ~wrapped
      BY <1>2, <2>1, Zenon
    <3>2. /\ sess'[q].ip = sess[q].ip /\ sess'[q].walled = sess[q].walled
          /\ sess'[q].noacct = sess[q].noacct /\ IsApproved(q)
      BY <1>6, <2>3, <2>4 DEF IsApproved
    <3> QED
      BY <1>1, <3>1, <3>2 DEF AuthInv, FailClosed
  <2> QED
    BY <1>1, <2>4, <2>5, IdleOK, WorkerMoves, Zenon
<1> QED
  BY <1>5, <1>6

(* EVENT_SERV_APPLY. *)
LEMMA AuthApplyService ==
  ASSUME AuthInv, NEW w \in Worker, ApplyService(w)
  PROVE  AuthInv'
<1> DEFINE y == work[w]
           p == y.job.port
           t == [sess[p] EXCEPT !.walled = TRUE]
           x == [y EXCEPT !.pc = "answer"]
<1>1. /\ y.pc = "apply" /\ work' = [work EXCEPT ![w].pc = "answer"]
      /\ reg' = reg /\ garden' = garden /\ UNCHANGED <<events, jobs, poolVars>>
  BY DEF ApplyService
<1>2. wrapped' = wrapped
  BY <1>1 DEF poolVars
<1>3. y # Idle
  BY <1>1 DEF Idle
<1>4. /\ IsWork(y) /\ y.job \in Job /\ y.verdict \in {"accept", "reject"} /\ Fits(y.job, sess)
      /\ y.verdict = "accept" => y.about \in reg
      /\ wrapped \/ y.about = y.job.ip
  BY <1>1, <1>3 DEF AuthInv, WorkInv, WorkOK
<1>5. p \in Ports
  BY <1>4 DEF Job
<1>6. /\ work' = [work EXCEPT ![w] = x]
      /\ IsWork(x) /\ x.pc = "answer" /\ x.job = y.job /\ x.verdict = y.verdict /\ x.about = y.about
  <2>1. x = [pc |-> "answer", job |-> y.job, verdict |-> y.verdict, from |-> y.from, about |-> y.about]
    BY <1>4 DEF IsWork
  <2>2. work' = [work EXCEPT ![w] = x]
    BY <1>1 DEF AuthInv, WorkInv
  <2> HIDE DEF x
  <2> QED
    BY <2>1, <2>2 DEF IsWork
<1> HIDE DEF x
<1>7. ASSUME Evolves, SessInv', FailClosed', MustWall(w) /\ y.job.live => sess'[p].walled \/ refused'
      PROVE  AuthInv'
  <2>1. Fits(y.job, sess')
    BY <1>4, <1>7, EvolveFits
  <2>2. x.verdict = "reject" /\ x.job.live /\ garden' => sess'[x.job.port].walled \/ refused'
    BY <1>1, <1>6, <1>7 DEF MustWall
  <2>3. WorkOK(x, sess', reg', wrapped', garden', refused')
    BY <1>1, <1>2, <1>4, <1>6, <2>1, <2>2 DEF WorkOK
  <2> QED
    BY <1>1, <1>6, <1>7, <2>3, WorkerMoves, Zenon
<1>8. CASE MustWall(w) /\ sess[p] # Empty /\ sess' = [sess EXCEPT ![p] = t] /\ (stale => stale') /\ refused' = refused
  <2>1. IsSession(sess[p])
    BY <1>5, <1>8 DEF AuthInv, SessInv
  <2>2. /\ IsSession(t) /\ t.ip = sess[p].ip /\ t.walled
        /\ t.verdict = sess[p].verdict /\ t.noacct = sess[p].noacct
    <3>1. t = [ip |-> sess[p].ip, verdict |-> sess[p].verdict, walled |-> TRUE,
               noacct |-> sess[p].noacct, short |-> sess[p].short]
      BY <2>1, FieldSet, Zenon
    <3> HIDE DEF t
    <3> QED
      BY <3>1 DEF IsSession
  <2> HIDE DEF t
  <2>3. SessInv' /\ Evolves /\ \A q \in Ports : sess'[q] = IF q = p THEN t ELSE sess[q]
    BY <1>1, <1>2, <1>5, <1>8, <2>2, OneSession, Zenon DEF AuthInv
  <2>4. FailClosed'
    <3> SUFFICES ASSUME NEW q \in Ports, ~stale', ~wrapped', sess'[q].ip \notin reg', IsApproved(q)'
                 PROVE  sess'[q].noacct /\ (sess'[q].walled \/ refused')
      BY DEF FailClosed
    <3>1. ~stale /\ ~wrapped
      BY <1>2, <1>8, Zenon
    <3>2. /\ sess'[q].ip = sess[q].ip /\ (sess[q].walled => sess'[q].walled)
          /\ sess'[q].noacct = sess[q].noacct /\ IsApproved(q)
      BY <1>8, <2>2, <2>3 DEF IsApproved
    <3> QED
      BY <1>1, <1>8, <3>1, <3>2 DEF AuthInv, FailClosed
  <2>5. sess'[p].walled
    BY <1>5, <2>2, <2>3
  <2> QED
    BY <1>7, <2>3, <2>4, <2>5
<1>9. CASE /\ sess' = sess /\ stale' = stale /\ (refused => refused')
           /\ MustWall(w) => sess[p] = Empty \/ refused'
  <2>1. SessInv' /\ Evolves
    BY <1>1, <1>2, <1>9, SessionsKept DEF AuthInv
  <2>2. FailClosed'
    BY <1>1, <1>2, <1>9, UndecidedKept DEF AuthInv
  <2>3. MustWall(w) /\ y.job.live => refused'
    BY <1>4, <1>9 DEF Fits
  <2> QED
    BY <1>7, <2>1, <2>2, <2>3
<1>10. CASE MustWall(w) /\ Hit(w, LAMBDA s : [s EXCEPT !.walled = TRUE]) /\ refused' = refused
  <2>1. CASE sess[p] = Empty
    <3>1. sess' = sess /\ stale' = stale
      BY <1>10, <2>1 DEF Hit
    <3> QED
      BY <1>9, <1>10, <2>1, <3>1
  <2>2. CASE sess[p] # Empty
    <3>1. sess' = [sess EXCEPT ![p] = t] /\ stale' = (stale \/ ~y.job.live)
      BY <1>10, <2>2 DEF Hit
    <3>2. stale => stale'
      BY <3>1, Zenon
    <3> QED
      BY <1>8, <1>10, <2>2, <3>1, <3>2
  <2> QED
    BY <2>1, <2>2
<1> QED
  BY <1>9, <1>10 DEF ApplyService

(* OSError from sendto. *)
LEMMA AuthSendFails ==
  ASSUME AuthInv, NEW w \in Worker, SendFails(w)
  PROVE  AuthInv'
<1>1. /\ work' = [work EXCEPT ![w] = Idle] /\ UNCHANGED <<events, jobs, poolVars, reg>>
      /\ sess' = sess /\ reg' = reg /\ garden' = garden /\ wrapped' = wrapped
      /\ stale' = stale /\ refused' = refused
  BY DEF SendFails, poolVars
<1>2. SessInv' /\ Evolves /\ FailClosed'
  BY <1>1, SessionsKept, UndecidedKept DEF AuthInv
<1> QED
  BY <1>1, <1>2, IdleOK, WorkerMoves, Zenon

(* A worker takes the oldest job. *)
LEMMA AuthTake ==
  ASSUME AuthInv, NEW w \in Worker, Take(w)
  PROVE  AuthInv'
<1> DEFINE x == [pc |-> "ask", job |-> jobs[1], verdict |-> "none", from |-> 1, about |-> jobs[1].ip]
<1>1. /\ work' = [work EXCEPT ![w] = x] /\ jobs # <<>> /\ jobs' = Tail(jobs) /\ events' = events
      /\ sess' = sess /\ reg' = reg /\ garden' = garden /\ UNCHANGED poolVars
      /\ stale' = stale /\ refused' = refused
  BY DEF Take
<1>2. wrapped' = wrapped /\ rid' = rid /\ replies' = replies
  BY <1>1 DEF poolVars
<1>3. jobs \in Seq(Job) /\ \A n \in 1 .. Len(jobs) : Fits(jobs[n], sess)
  BY DEF AuthInv, QueueInv
<1>4. jobs[1] \in Job /\ Fits(jobs[1], sess) /\ jobs' \in Seq(Job)
  BY <1>1, <1>3
<1>5. SessInv' /\ Evolves /\ FailClosed'
  BY <1>1, <1>2, SessionsKept, UndecidedKept DEF AuthInv
<1>6. IsWork(x) /\ x.job = jobs[1] /\ x.pc = "ask" /\ x.verdict = "none" /\ x.about = x.job.ip
  BY DEF IsWork
<1> HIDE DEF x
<1>7. WorkOK(x, sess', reg', wrapped', garden', refused')
  BY <1>1, <1>4, <1>6 DEF WorkOK
<1>8. WorkInv'
  BY <1>1, <1>5, <1>7, OneWorker, Zenon DEF AuthInv
<1>9. \A n \in 1 .. Len(jobs') : Fits(jobs'[n], sess)
  <2>1. \A n \in 1 .. Len(jobs') : n + 1 \in 1 .. Len(jobs) /\ jobs'[n] = jobs[n + 1]
    BY <1>1, <1>3
  <2> QED
    BY <1>3, <2>1
<1>10. QueueInv'
  BY <1>1, <1>4, <1>9 DEF AuthInv, QueueInv
<1>11. RepliesInv'
  BY <1>1, <1>2 DEF AuthInv, RepliesInv
<1> QED
  BY <1>5, <1>8, <1>10, <1>11 DEF AuthInv

(* No worker and no reply is touched, and no session ends. *)
LEMMA PoolRests ==
  ASSUME AuthInv, Evolves, work' = work, rid' = rid, replies' = replies
  PROVE  WorkInv' /\ RepliesInv'
<1>1. \A v \in Worker : WorkOK(work[v], sess', reg', wrapped', garden', refused')
  BY EvolveWork DEF AuthInv, WorkInv
<1>2. WorkInv'
  BY <1>1 DEF AuthInv, WorkInv
<1>3. reg \subseteq reg'
  BY DEF Evolves
<1>4. \A r \in replies : ReplyOK(r, rid, reg')
  BY <1>3 DEF AuthInv, RepliesInv, ReplyOK
<1> QED
  BY <1>2, <1>4 DEF AuthInv, RepliesInv

(* A request is added to those that wait. *)
LEMMA AddedOK ==
  ASSUME NEW se, NEW q \in Seq(Job), \A n \in 1 .. Len(q) : Fits(q[n], se), NEW j \in Job, Fits(j, se)
  PROVE  Append(q, j) \in Seq(Job) /\ \A n \in 1 .. Len(Append(q, j)) : Fits(Append(q, j)[n], se)
<1>1. \A n \in 1 .. Len(Append(q, j)) : (n \in 1 .. Len(q) /\ Append(q, j)[n] = q[n]) \/ Append(q, j)[n] = j
  OBVIOUS
<1>2. Append(q, j) \in Seq(Job)
  OBVIOUS
<1> QED
  BY <1>1, <1>2

(* An announcement is handed to the executor, or dropped. *)
LEMMA AuthDispatch ==
  ASSUME AuthInv, Dispatch
  PROVE  AuthInv'
<1>1. /\ events # <<>> /\ events' = Tail(events) /\ jobs' \in {jobs, Append(jobs, events[1])}
      /\ sess' = sess /\ reg' = reg /\ garden' = garden /\ UNCHANGED poolVars
      /\ stale' = stale /\ refused' = refused /\ work' = work
  BY DEF Dispatch
<1>2. wrapped' = wrapped /\ rid' = rid /\ replies' = replies
  BY <1>1 DEF poolVars
<1>3. /\ events \in Seq(Job) /\ \A n \in 1 .. Len(events) : Fits(events[n], sess)
      /\ jobs \in Seq(Job) /\ \A n \in 1 .. Len(jobs) : Fits(jobs[n], sess)
  BY DEF AuthInv, QueueInv
<1>4. SessInv' /\ Evolves /\ FailClosed'
  BY <1>1, <1>2, SessionsKept, UndecidedKept DEF AuthInv
<1>5. events[1] \in Job /\ Fits(events[1], sess) /\ events' \in Seq(Job)
  BY <1>1, <1>3
<1>6. \A n \in 1 .. Len(events') : Fits(events'[n], sess)
  <2>1. \A n \in 1 .. Len(events') : n + 1 \in 1 .. Len(events) /\ events'[n] = events[n + 1]
    BY <1>1, <1>3
  <2> QED
    BY <1>3, <2>1
<1>7. jobs' \in Seq(Job) /\ \A n \in 1 .. Len(jobs') : Fits(jobs'[n], sess)
  BY <1>1, <1>3, <1>5, AddedOK, Zenon
<1>8. QueueInv'
  BY <1>1, <1>5, <1>6, <1>7 DEF QueueInv
<1> QED
  BY <1>1, <1>2, <1>4, <1>8, PoolRests DEF AuthInv

(* A subscriber is added, or a penalty ends. *)
LEMMA AuthRegister ==
  ASSUME AuthInv, (\E ip \in IP : Register(ip)) \/ (\E k \in Backend : Close(k))
  PROVE  AuthInv'
<1>1. /\ reg \subseteq reg' /\ sess' = sess /\ garden' = garden /\ UNCHANGED <<events, jobs>>
      /\ wrapped' = wrapped /\ rid' = rid /\ replies' = replies
      /\ stale' = stale /\ refused' = refused /\ work' = work
  BY DEF Register, Close, poolVars
<1>2. SessInv' /\ Evolves /\ FailClosed'
  BY <1>1, SessionsKept, UndecidedKept DEF AuthInv
<1>3. QueueInv'
  BY <1>1, <1>2, SameQueues DEF AuthInv
<1> QED
  BY <1>1, <1>2, <1>3, PoolRests DEF AuthInv

(* The daemon is started again: what is late may meet a number in use. *)
LEMMA AuthRestart ==
  ASSUME AuthInv, Restart
  PROVE  AuthInv'
<1>1. /\ events' = <<>> /\ jobs' = <<>> /\ work' = [w \in Worker |-> Idle]
      /\ rid' = 0 /\ replies' = {[r EXCEPT !.since = Ids] : r \in replies}
      /\ sess' = sess /\ reg' = reg /\ garden' = garden /\ wrapped' = wrapped
      /\ stale' = stale /\ refused' = refused
  BY DEF Restart
<1>2. SessInv' /\ Evolves /\ FailClosed'
  BY <1>1, SessionsKept, UndecidedKept DEF AuthInv
<1>3. WorkInv'
  BY <1>1, IdleOK DEF WorkInv
<1>4. QueueInv'
  BY <1>1 DEF QueueInv
<1>5. Ids \in Nat \ {0}
  BY AuthAssumption DEF AuthAssumption
<1>6. ASSUME NEW r \in replies' PROVE ReplyOK(r, rid', reg')
  <2>1. PICK q \in replies : r = [q EXCEPT !.since = Ids]
    BY <1>1, <1>6
  <2>2. ReplyOK(q, rid, reg)
    BY DEF AuthInv, RepliesInv
  <2>3. r.id = q.id /\ r.about = q.about /\ r.verdict = q.verdict /\ IsReply(r) /\ r.since = Ids
    BY <2>1, <2>2 DEF ReplyOK, IsReply
  <2>4. r.since \in 1 .. Ids /\ ~(r.since < Ids)
    BY <1>5, <2>3
  <2> QED
    BY <1>1, <2>2, <2>3, <2>4 DEF ReplyOK
<1>7. RepliesInv'
  BY <1>1, <1>5, <1>6 DEF RepliesInv
<1> QED
  BY <1>2, <1>3, <1>4, <1>7 DEF AuthInv

(* The first free port. *)
LEMMA FirstFree ==
  ASSUME FreePorts # {}
  PROVE  (CHOOSE q \in FreePorts : \A r \in FreePorts : q <= r) \in FreePorts
<1>1. FreePorts \subseteq Nat
  BY AuthAssumption, Zenon DEF AuthAssumption, FreePorts
<1>2. PICK m \in FreePorts : \A y \in FreePorts : ~ (<<y, m>> \in OpToRel(<, Nat))
  BY <1>1, NatLessThanWellFounded, WFMin, Zenon
<1>3. \A y \in FreePorts : m <= y
  <2> SUFFICES ASSUME NEW y \in FreePorts PROVE m <= y
    OBVIOUS
  <2>1. <<y, m>> \in OpToRel(<, Nat) <=> y < m
    BY <1>1 DEF OpToRel
  <2>2. ~(y < m)
    BY <1>2, <2>1, Zenon
  <2> QED
    BY <1>1, <2>2
<1> QED
  BY <1>2, <1>3, Zenon

(* A session is created on a port that no request under way names. *)
LEMMA AuthPacket ==
  ASSUME AuthInv, NEW ip \in IP, Packet(ip)
  PROVE  AuthInv'
<1> DEFINE p == CHOOSE q \in FreePorts : \A r \in FreePorts : q <= r
           t == [ip |-> ip, verdict |-> "none", walled |-> FALSE, noacct |-> FALSE, short |-> TRUE]
           j == [port |-> p, ip |-> ip, live |-> TRUE]
<1>1. /\ FreePorts # {} /\ sess' = [sess EXCEPT ![p] = t] /\ Announce(p, ip)
      /\ reg' = reg /\ garden' = garden /\ jobs' = jobs /\ work' = work
      /\ wrapped' = wrapped /\ rid' = rid /\ replies' = replies
      /\ stale' = stale /\ refused' = refused
  BY DEF Packet, poolVars
<1>2. p \in Ports /\ sess[p] = Empty
  BY <1>1, FirstFree DEF FreePorts
<1> HIDE DEF p
<1>3. IsSession(t) /\ t.ip = ip /\ t.verdict = "none" /\ t # Empty
  <2>1. IsSession(t) /\ t.ip = ip /\ t.verdict = "none"
    BY DEF IsSession
  <2> QED
    BY <2>1, NotEmpty, Zenon
<1> HIDE DEF t
<1>4. sess' = [q \in Ports |-> sess'[q]] /\ \A q \in Ports : sess'[q] = IF q = p THEN t ELSE sess[q]
  BY <1>1 DEF AuthInv, SessInv
<1>5. SessInv'
  BY <1>3, <1>4 DEF AuthInv, SessInv
<1>6. Evolves
  BY <1>1, <1>2, <1>4, Zenon DEF Evolves
<1>7. FailClosed'
  <2> SUFFICES ASSUME NEW q \in Ports, ~stale', ~wrapped', sess'[q].ip \notin reg', IsApproved(q)'
               PROVE  sess'[q].noacct /\ (sess'[q].walled \/ refused')
    BY DEF FailClosed
  <2>1. q # p
    BY <1>3, <1>4 DEF IsApproved
  <2>2. sess'[q] = sess[q] /\ IsApproved(q)
    BY <1>4, <2>1 DEF IsApproved
  <2> QED
    BY <1>1, <2>2 DEF AuthInv, FailClosed
<1>8. j \in Job /\ Fits(j, sess')
  BY <1>2, <1>3, <1>4 DEF Job, Fits
<1>9. events' \in {events, Append(events, j)}
  BY <1>1 DEF Announce
<1> HIDE DEF j
<1>10. QueueInv'
  <2>1. events \in Seq(Job) /\ jobs \in Seq(Job)
    BY DEF AuthInv, QueueInv
  <2>2. \A n \in 1 .. Len(events) : Fits(events[n], sess')
    <3>1. \A n \in 1 .. Len(events) : events[n] \in Job /\ Fits(events[n], sess)
      BY <2>1 DEF AuthInv, QueueInv
    <3> QED
      BY <1>6, <3>1, EvolveFits
  <2>3. \A n \in 1 .. Len(jobs) : Fits(jobs[n], sess')
    <3>1. \A n \in 1 .. Len(jobs) : jobs[n] \in Job /\ Fits(jobs[n], sess)
      BY <2>1 DEF AuthInv, QueueInv
    <3> QED
      BY <1>6, <3>1, EvolveFits
  <2>4. events' \in Seq(Job) /\ \A n \in 1 .. Len(events') : Fits(events'[n], sess')
    BY <1>8, <1>9, <2>1, <2>2, AddedOK, Zenon
  <2> QED
    BY <1>1, <2>1, <2>3, <2>4, Zenon DEF QueueInv
<1> QED
  BY <1>1, <1>5, <1>6, <1>7, <1>10, PoolRests DEF AuthInv

(* The other sessions go on. *)
EndsOn(p) == \A q \in Ports : q # p => sess'[q] = sess[q]

(* The request j after the session on port p has ended. *)
Orphaned(j, p) == IF j.port = p THEN [j EXCEPT !.live = FALSE] ELSE j

(* A field of a request is set, and the others are what they were. *)
LEMMA JobField ==
  ASSUME NEW j, j = [port |-> j.port, ip |-> j.ip, live |-> j.live], NEW b
  PROVE  [j EXCEPT !.live = b] = [port |-> j.port, ip |-> j.ip, live |-> b]
OBVIOUS

(* It is about nobody if it named that port, and about its session if not. *)
LEMMA OrphanOK ==
  ASSUME NEW p \in Ports, EndsOn(p), NEW j \in Job, Fits(j, sess)
  PROVE  /\ Orphaned(j, p) \in Job /\ Orphaned(j, p).ip = j.ip /\ Orphaned(j, p).port = j.port
         /\ Orphaned(j, p).live => j.live /\ j.port # p
         /\ Fits(Orphaned(j, p), sess')
<1>1. CASE j.port = p
  <2>1. [j EXCEPT !.live = FALSE] = [port |-> j.port, ip |-> j.ip, live |-> FALSE]
    <3>1. j = [port |-> j.port, ip |-> j.ip, live |-> j.live]
      BY DEF Job
    <3> QED
      BY <3>1, JobField, Zenon
  <2>2. PICK k : k = [port |-> j.port, ip |-> j.ip, live |-> FALSE]
    BY Zenon
  <2>3. k \in Job /\ k.ip = j.ip /\ k.port = j.port /\ ~k.live
    BY <2>2 DEF Job
  <2>4. Orphaned(j, p) = k
    BY <1>1, <2>1, <2>2 DEF Orphaned
  <2> QED
    BY <2>3, <2>4 DEF Fits
<1>2. CASE j.port # p
  <2>1. Orphaned(j, p) = j /\ j.port \in Ports
    BY <1>2 DEF Orphaned, Job
  <2> QED
    BY <1>2, <2>1 DEF Fits, EndsOn
<1> QED
  BY <1>1, <1>2

(* The same of those that wait. *)
LEMMA OrphansOK ==
  ASSUME NEW p \in Ports, EndsOn(p),
         NEW s \in Seq(Job), \A n \in 1 .. Len(s) : Fits(s[n], sess),
         NEW s2, s2 = [k \in DOMAIN s |-> Orphaned(s[k], p)]
  PROVE  s2 \in Seq(Job) /\ \A n \in 1 .. Len(s2) : Fits(s2[n], sess')
<1>1. DOMAIN s = 1 .. Len(s) /\ Len(s) \in Nat
  OBVIOUS
<1>2. \A n \in 1 .. Len(s) : Orphaned(s[n], p) \in Job /\ Fits(Orphaned(s[n], p), sess')
  BY OrphanOK
<1>3. s2 \in [1 .. Len(s) -> Job]
  BY <1>1, <1>2
<1>4. s2 \in Seq(Job) /\ Len(s2) = Len(s)
  <2>1. s2 \in Seq(Job)
    BY <1>1, <1>3
  <2> QED
    BY <1>1, <1>3, <2>1
<1> QED
  BY <1>1, <1>2, <1>4

(* isg_free_session. *)
LEMMA AuthExpire ==
  ASSUME AuthInv, NEW p \in Ports, Expire(p)
  PROVE  AuthInv'
<1>1. /\ sess' = [sess EXCEPT ![p] = Empty]
      /\ reg' = reg /\ garden' = garden
      /\ wrapped' = wrapped /\ rid' = rid /\ replies' = replies
      /\ stale' = stale /\ refused' = refused
  BY DEF Expire, poolVars
<1>2. /\ events' = [k \in DOMAIN events |-> Orphaned(events[k], p)]
      /\ jobs' = [k \in DOMAIN jobs |-> Orphaned(jobs[k], p)]
      /\ work' = [w \in Worker |-> IF work[w] = Idle THEN Idle
                                   ELSE [work[w] EXCEPT !.job = Orphaned(work[w].job, p)]]
  BY DEF Expire, Forget, Orphaned
<1>3. sess' = [q \in Ports |-> sess'[q]] /\ \A q \in Ports : sess'[q] = IF q = p THEN Empty ELSE sess[q]
  BY <1>1 DEF AuthInv, SessInv
<1>4. SessInv'
  BY <1>3 DEF AuthInv, SessInv
<1>5. FailClosed'
  <2> SUFFICES ASSUME NEW q \in Ports, ~stale', ~wrapped', sess'[q].ip \notin reg', IsApproved(q)'
               PROVE  sess'[q].noacct /\ (sess'[q].walled \/ refused')
    BY DEF FailClosed
  <2>1. sess'[q] = sess[q] /\ IsApproved(q)
    BY <1>3 DEF IsApproved
  <2> QED
    BY <1>1, <2>1 DEF AuthInv, FailClosed
<1>6. QueueInv'
  <2>1. /\ events \in Seq(Job) /\ \A n \in 1 .. Len(events) : Fits(events[n], sess)
        /\ jobs \in Seq(Job) /\ \A n \in 1 .. Len(jobs) : Fits(jobs[n], sess)
        /\ EndsOn(p)
    BY <1>3 DEF AuthInv, QueueInv, EndsOn
  <2>2. events' \in Seq(Job) /\ \A n \in 1 .. Len(events') : Fits(events'[n], sess')
    BY <1>2, <2>1, OrphansOK, Zenon
  <2>3. jobs' \in Seq(Job) /\ \A n \in 1 .. Len(jobs') : Fits(jobs'[n], sess')
    BY <1>2, <2>1, OrphansOK, Zenon
  <2> QED
    BY <2>2, <2>3 DEF QueueInv
<1>7. ASSUME NEW w \in Worker
      PROVE  WorkOK(work'[w], sess', reg', wrapped', garden', refused')
  <2>1. CASE work[w] = Idle
    BY <1>2, <2>1, IdleOK
  <2>2. CASE work[w] # Idle
    <3> DEFINE y == work[w]
               k == Orphaned(y.job, p)
               x == [y EXCEPT !.job = k]
    <3>1. WorkOK(y, sess, reg, wrapped, garden, refused) /\ y # Idle /\ work'[w] = x
      BY <1>2, <2>2 DEF AuthInv, WorkInv
    <3>2. IsWork(y) /\ y.job \in Job /\ Fits(y.job, sess)
      BY <3>1 DEF WorkOK
    <3>3. /\ k \in Job /\ k.ip = y.job.ip /\ k.port = y.job.port /\ Fits(k, sess')
          /\ k.live => y.job.live /\ y.job.port # p
      <4>1. EndsOn(p)
        BY <1>3 DEF EndsOn
      <4> QED
        BY <3>2, <4>1, OrphanOK
    <3> HIDE DEF k
    <3>4. x = [pc |-> y.pc, job |-> k, verdict |-> y.verdict, from |-> y.from, about |-> y.about]
      BY <3>2 DEF IsWork
    <3> HIDE DEF x
    <3>5. IsWork(x) /\ x.pc = y.pc /\ x.job = k /\ x.verdict = y.verdict /\ x.about = y.about
      BY <3>4 DEF IsWork
    <3>6. x.job.live => sess'[x.job.port] = sess[y.job.port]
      BY <1>3, <3>2, <3>3, <3>5, Zenon DEF Job
    <3>7. x.pc = "answer" /\ x.verdict = "reject" /\ x.job.live /\ garden' => sess'[x.job.port].walled \/ refused'
      BY <1>1, <3>1, <3>3, <3>5, <3>6, ZenonT(20) DEF WorkOK
    <3>8. WorkOK(x, sess', reg', wrapped', garden', refused')
      BY <1>1, <3>1, <3>3, <3>5, <3>7, Zenon DEF WorkOK
    <3> QED
      BY <3>1, <3>8
  <2> QED
    BY <2>1, <2>2
<1>8. WorkInv'
  <2>1. work' = [w \in Worker |-> work'[w]]
    BY <1>2
  <2> QED
    BY <1>7, <2>1 DEF WorkInv
<1>9. RepliesInv'
  BY <1>1 DEF AuthInv, RepliesInv
<1> QED
  BY <1>4, <1>5, <1>6, <1>8, <1>9 DEF AuthInv

(* At the start nobody is known to the daemon and nothing is under way. *)
LEMMA AuthInit == Init => AuthInv
<1> SUFFICES ASSUME Init PROVE AuthInv
  OBVIOUS
<1>1. WorkInv
  BY IdleOK DEF Init, WorkInv
<1>2. SessInv /\ FailClosed
  BY DEF Init, SessInv, FailClosed, IsApproved
<1>3. QueueInv
  BY DEF Init, QueueInv
<1>4. RepliesInv
  BY AuthAssumption DEF AuthAssumption, Init, RepliesInv
<1> QED
  BY <1>1, <1>2, <1>3, <1>4 DEF AuthInv

(* The invariant is inductive. *)
LEMMA AuthCorrect == Spec => []AuthInv
<1>1. AuthInv /\ [Next]_vars => AuthInv'
  <2> SUFFICES ASSUME AuthInv, [Next]_vars PROVE AuthInv'
    OBVIOUS
  <2>1. CASE \E ip \in IP : Packet(ip)
    BY <2>1, AuthPacket
  <2>2. CASE (\E ip \in IP : Register(ip)) \/ (\E k \in Backend : Close(k))
    BY <2>2, AuthRegister
  <2>3. CASE \E p \in Ports : Expire(p)
    BY <2>3, AuthExpire
  <2>4. CASE Dispatch
    BY <2>4, AuthDispatch
  <2>5. CASE \E w \in Worker : WorkerStep(w) \/ SendFails(w)
    BY <2>5, AuthTake, AuthAuthenticate, AuthApplyService, AuthApprove, AuthReject, AuthSendFails DEF WorkerStep
  <2>6. CASE Restart
    BY <2>6, AuthRestart
  <2>7. CASE UNCHANGED vars
    <3>1. /\ sess' = sess /\ reg' = reg /\ garden' = garden /\ UNCHANGED <<events, jobs>>
          /\ wrapped' = wrapped /\ rid' = rid /\ replies' = replies
          /\ stale' = stale /\ refused' = refused /\ work' = work
      BY <2>7 DEF vars, poolVars
    <3>2. SessInv' /\ Evolves /\ FailClosed'
      BY <3>1, SessionsKept, UndecidedKept DEF AuthInv
    <3>3. QueueInv'
      BY <3>1, <3>2, SameQueues DEF AuthInv
    <3> QED
      BY <3>1, <3>2, <3>3, PoolRests DEF AuthInv
  <2> QED
    BY <2>1, <2>2, <2>3, <2>4, <2>5, <2>6, <2>7 DEF Next
<1> QED
  BY <1>1, AuthInit, PTL DEF Spec

(* The verdict that a worker applies is about the subscriber it asked for,  *)
(* unless a late RADIUS reply met its identifier in use again: _next_id and *)
(* the check of the identifier in _send_recv tell every other late reply,   *)
(* whatever the number of workers, backends and identifiers.                *)
THEOREM OwnAnswerCorrect == Spec => []OwnAnswer
<1>1. AuthInv => OwnAnswer
  <2> SUFFICES ASSUME AuthInv, NEW w \in Worker, work[w].pc \in {"apply", "answer"}, ~wrapped
               PROVE  work[w].about = work[w].job.ip
    BY DEF OwnAnswer
  <2>1. work[w] # Idle
    BY DEF Idle
  <2> QED
    BY <2>1 DEF AuthInv, WorkInv, WorkOK
<1> QED
  BY <1>1, AuthCorrect, PTL

(* A session is approved only for a subscriber that the backends know, or   *)
(* unaccounted for and behind the walled garden, unless an answer went      *)
(* astray (_apply_auth_result): the garden comes before the approval, and   *)
(* an answer reaches the session it is about.                               *)
THEOREM FailClosedCorrect == Spec => []FailClosed
<1>1. AuthInv => FailClosed
  BY DEF AuthInv
<1> QED
  BY <1>1, AuthCorrect, PTL
=============================================================================
