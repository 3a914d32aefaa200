----------------------------- MODULE Accounting -----------------------------
(***************************************************************************)
(* Accounting: the daemon hands the START, UPDATE and STOP records of the   *)
(* sessions to a pool of worker threads, who write them to a backend        *)
(* behind its circuit breaker (CircuitBreaker).  A MySQL query that loses   *)
(* its connection is repeated once, whether or not the server has run it;   *)
(* a RADIUS request is sent once, and whatever comes back is its answer.    *)
(*                                                                          *)
(* The records of a session come from the kernel in order.  Record 1 is the *)
(* START, record 2 an UPDATE, record 3 the STOP.  A row of radacct is what  *)
(* the default queries of config.py make of it.                             *)
(***************************************************************************)
EXTENDS CircuitBreaker, Sequences, Functions

CONSTANTS
  Sess,        \* sessions, each with an id of its own
  Main         \* the thread that receives the events

ASSUME AccountingAssumption == Main \notin Thread

VARIABLES
  type,        \* the type of the backend
  sent,        \* session -> the number of its records the kernel has sent
  queue,       \* the executor's queue of records <<session, number>>
  job,         \* worker -> the record in its hands, or NoJob
  at,          \* worker -> where account() is
  row,         \* session -> its row of radacct, or NoRow
  upto,        \* history: session -> the last record the server has run
  late         \* history: sessions with a record run out of turn

acctVars == <<type, sent, queue, job, at, row, upto, late>>
acctSpecVars == <<breakerVars, acctVars>>

START == 1
UPDATE == 2
STOP == 3
Record == Sess \X {START, UPDATE, STOP}

NoJob == <<>>
NoRow == [stopped |-> FALSE, octets |-> 0]
Row == [stopped : BOOLEAN, octets : {START, UPDATE, STOP}]

AcctTypeOK ==
  /\ BreakerTypeOK
  /\ type \in {"mysql", "radius"}
  /\ sent \in [Sess -> 0 .. STOP]
  /\ Range(queue) \subseteq Record
  /\ job \in [Thread -> Record \cup {NoJob}]
  /\ at \in [Thread -> {"none", "query", "retry", "ok", "err"}]
  /\ row \in [Sess -> Row \cup {NoRow}]
  /\ upto \in [Sess -> 0 .. STOP]
  /\ late \subseteq Sess

AcctInit ==
  /\ BreakerInit
  /\ type \in {"mysql", "radius"}
  /\ sent = [s \in Sess |-> 0] /\ queue = <<>>
  /\ job = [t \in Thread |-> NoJob] /\ at = [t \in Thread |-> "none"]
  /\ row = [s \in Sess |-> NoRow]
  /\ upto = [s \in Sess |-> 0] /\ late = {}

(* The records of session s that are still under way. *)
RecordInHand(s) ==
  \/ \E r \in Range(queue) : r[1] = s
  \/ \E t \in Thread : job[t] # NoJob /\ job[t][1] = s

-----------------------------------------------------------------------------
(* _dispatch: the record is queued if the circuit is not open.              *)
DispatchRecord(s) ==
  /\ sent[s] < STOP
  /\ sent' = [sent EXCEPT ![s] = @ + 1]
  /\ \/ /\ LetsThrough(Main)
        /\ queue' = Append(queue, <<s, sent'[s]>>)
     \/ left > 0 /\ UNCHANGED <<queue, consec, left, run, torn>>
  /\ UNCHANGED <<type, pc, seen, job, at, row, upto, late>>

(* _acct_thread: a worker takes a record, and skips an open backend. *)
TakeRecord(t) ==
  /\ pc[t] = "idle" /\ queue # <<>>
  /\ queue' = Tail(queue)
  /\ \/ /\ Ask(t)
        /\ job' = [job EXCEPT ![t] = Head(queue)]
        /\ at' = [at EXCEPT ![t] = "query"]
     \/ left > 0 /\ UNCHANGED <<breakerVars, job, at>>
  /\ UNCHANGED <<type, sent, row, upto, late>>

Stored_StopOctets(r, k) ==
  IF k = START THEN (IF r = NoRow THEN [stopped |-> FALSE, octets |-> START] ELSE r)
  ELSE IF r = NoRow THEN NoRow
  ELSE IF k = STOP THEN [r EXCEPT !.stopped = TRUE]
  ELSE [r EXCEPT !.octets = k]

(* What the query of record k makes of row r.  START inserts, or sets the   *)
(* start time of the row that is there; the others update a row, if any.    *)
Stored(r, k) ==
  IF k = START THEN (IF r = NoRow THEN [stopped |-> FALSE, octets |-> START] ELSE r)
  ELSE IF r = NoRow THEN NoRow
  ELSE [stopped |-> r.stopped \/ k = STOP, octets |-> k]

(* The server runs the query of worker t. *)
Run(t) ==
  LET s == job[t][1]  k == job[t][2] IN
  /\ row' = [row EXCEPT ![s] = Stored(@, k)]
  /\ upto' = [upto EXCEPT ![s] = IF k > @ THEN k ELSE @]
  /\ late' = IF k \notin {upto[s], upto[s] + 1} THEN late \cup {s} ELSE late

(* _execute: the query is answered, *)
Answered(t) ==
  /\ at[t] \in {"query", "retry"}
  /\ Run(t)
  /\ at' = [at EXCEPT ![t] = "ok"]
  /\ UNCHANGED <<type, breakerVars, sent, queue, job>>

(* MySQL: one reconnect, and no more, *)
AfterLoss(t) == IF type = "mysql" /\ at[t] = "query" THEN "retry" ELSE "err"

(* the connection or the answer is lost before or after the server has run  *)
(* it,                                                                      *)
ConnectionLost(t) ==
  /\ at[t] \in {"query", "retry"}
  /\ Run(t) \/ UNCHANGED <<row, upto, late>>
  /\ at' = [at EXCEPT ![t] = AfterLoss(t)]
  /\ UNCHANGED <<type, breakerVars, sent, queue, job>>

(* or it fails otherwise,                                                   *)
Refused(t) ==
  /\ at[t] \in {"query", "retry"}
  /\ at' = [at EXCEPT ![t] = "err"]
  /\ UNCHANGED <<type, breakerVars, sent, queue, job, row, upto, late>>

(* or, for RADIUS, the datagram that comes back is the late answer to a     *)
(* request before it.                                                       *)
Mistaken(t) ==
  /\ type = "radius" /\ at[t] = "query"
  /\ at' = [at EXCEPT ![t] = "ok"]
  /\ UNCHANGED <<type, breakerVars, sent, queue, job, row, upto, late>>

Finish(t) ==
  /\ job' = [job EXCEPT ![t] = NoJob] /\ at' = [at EXCEPT ![t] = "none"]
  /\ UNCHANGED <<type, sent, queue, row, upto, late>>

(* or the exception is not an OperationalError: _acct_thread logs it, and   *)
(* the breaker hears nothing of it.                                         *)
QueryRaised(t) ==
  /\ at[t] \in {"query", "retry"}
  /\ pc' = [pc EXCEPT ![t] = "idle"]
  /\ Finish(t)
  /\ UNCHANGED <<consec, left, seen, run, torn>>

(* record_ok, or record_err in three steps; then the worker is free. *)
account(t) ==
  \/ at[t] = "ok" /\ RecordOk(t) /\ Finish(t)
  \/ at[t] = "err" /\ (ErrRead(t) \/ ErrWrite(t)) /\ UNCHANGED acctVars
  \/ ErrOpen(t) /\ Finish(t)

(* Bound: a new session, with a new id, in the place of one that is over    *)
(* and whose records have all been worked off.                              *)
NewSession(s) ==
  /\ sent[s] = STOP /\ ~RecordInHand(s)
  /\ sent' = [sent EXCEPT ![s] = 0]
  /\ row' = [row EXCEPT ![s] = NoRow] /\ upto' = [upto EXCEPT ![s] = 0]
  /\ late' = late \ {s}
  /\ UNCHANGED <<type, breakerVars, queue, job, at>>

AcctWorkerStep(t) ==
  \/ TakeRecord(t) \/ account(t)
  \/ Answered(t) \/ ConnectionLost(t) \/ Refused(t) \/ Mistaken(t) \/ QueryRaised(t)

AcctNext ==
  \/ \E s \in Sess : DispatchRecord(s) \/ NewSession(s)
  \/ \E t \in Thread : AcctWorkerStep(t)
  \/ Tick /\ UNCHANGED acctVars

AcctSpec == AcctInit /\ [][AcctNext]_acctSpecVars

(* Time passes, threads run, a query ends by its timeout at the latest, and *)
(* subscribers come and go.                                                 *)
FairAcctSpec ==
  /\ AcctSpec
  /\ WF_acctSpecVars(Tick /\ UNCHANGED acctVars)
  /\ \A t \in Thread : WF_acctSpecVars(AcctWorkerStep(t))
  /\ \A s \in Sess : WF_acctSpecVars(DispatchRecord(s)) /\ WF_acctSpecVars(NewSession(s))

-----------------------------------------------------------------------------
(* The row of a session whose STOP the server has run is closed with the    *)
(* counters of the STOP, however often queries were repeated or failed,     *)
(* unless the server ran the records out of turn: another worker was faster *)
(* or a record before was dropped.                                          *)
RowIsFinal ==
  \A s \in Sess \ late :
    upto[s] = STOP => row[s] = [stopped |-> TRUE, octets |-> STOP]

(* An open circuit lets requests through again in the end: the errors of    *)
(* requests that were under way when it opened extend the penalty, but not  *)
(* for ever.                                                                *)
Recovers == left # Closed ~> left = Closed
=============================================================================
