----------------------------- MODULE Throughput -----------------------------
(***************************************************************************)
(* What the operators are shown of the traffic: run_global of the monitor,  *)
(* which asks for the counts and the totals over and over on one socket,    *)
(* and traffic_stream of the API, which looks one session up again and      *)
(* again.  Both turn cumulative counters into rates.                        *)
(*                                                                          *)
(* A session moves at most one unit of traffic in a unit of time.  Time     *)
(* passes while a client waits: for the next round, for an answer that does *)
(* not come, or for the event loop of the API.  A third client, any, asks   *)
(* for anything (DumpNext).                                                 *)
(***************************************************************************)
EXTENDS Dump, Integers

CONSTANTS
  Users,        \* subscribers 1 .. Users
  MaxTime,      \* bound on the clock
  MaxLives      \* bound: sessions in all, one after the other or side by side

ASSUME ThroughputAssumption == Users \in Nat /\ MaxTime \in Nat /\ MaxLives \in Nat

User == 1 .. Users
None == -1

VARIABLES
  client,       \* "any", "global" or "stream"
  now,
  up,           \* subscribers with a session
  life, bytes,  \* subscriber -> the number of their session, and its counter
  at,           \* where the client is
  t, prev_t,    \* run_global: when this round began, and the last that had totals
  prev_total, prev_top,
  raw, prev,    \* traffic_stream: the row just read, the last sample
  shown,        \* rates of this round: whose, the difference, the time it is divided by
  late          \* history: time passed between the clock and the counters of these rates

network == <<now, up, life, bytes>>
global == <<t, prev_t, prev_total, prev_top>>
stream == <<raw, prev>>
vars == <<dumpVars, client, network, at, global, stream, shown, late>>

Sample == [life : 0 .. MaxLives, n : Nat]

TypeOK ==
  /\ DumpTypeOK
  /\ client \in {"any", "global", "stream"}
  /\ now \in 0 .. MaxTime
  /\ up \subseteq User /\ life \in [User -> 0 .. MaxLives] /\ bytes \in [User -> 0 .. MaxTime]
  /\ at \in {"wait", "counts", "totals", "read", "ended"}
  /\ t \in 0 .. MaxTime /\ prev_t \in None .. MaxTime
  /\ prev_total \in Int /\ DOMAIN prev_top \subseteq User
  /\ raw \in Seq(Sample) /\ prev \in Seq([life : 0 .. MaxLives, n : Nat, ts : 0 .. MaxTime, slow : BOOLEAN])
  /\ late \in BOOLEAN

Init ==
  /\ DumpInit
  /\ client \in {"any", "global", "stream"}
  /\ now = 0
  /\ up = {} /\ life = [u \in User |-> 0] /\ bytes = [u \in User |-> 0]
  /\ at = "wait"
  /\ t = 0 /\ prev_t = None /\ prev_total = None /\ prev_top = <<>>
  /\ raw = <<>> /\ prev = <<>>
  /\ shown = {} /\ late = FALSE

-----------------------------------------------------------------------------
(* The sessions. *)

(* Everything else is quick. *)
Waits == at = "wait" \/ at = "read" \/ (pc = "client" /\ queue = <<>> /\ ~overrun)

Begin(u) ==
  /\ Waits /\ u \notin up /\ FoldFunction(+, 0, life) < MaxLives
  /\ up' = up \cup {u}
  /\ life' = [life EXCEPT ![u] = @ + 1] /\ bytes' = [bytes EXCEPT ![u] = 0]
  /\ UNCHANGED <<dumpVars, client, now, at, global, stream, shown, late>>

End(u) ==
  /\ Waits /\ u \in up
  /\ up' = up \ {u}
  /\ bytes' = [bytes EXCEPT ![u] = 0]
  /\ UNCHANGED <<dumpVars, client, now, life, at, global, stream, shown, late>>

(* Time passes, and S are the subscribers who use it. *)
Tick(S) ==
  /\ client # "any" /\ Waits /\ now < MaxTime
  /\ now' = now + 1
  /\ bytes' = [u \in User |-> IF u \in S THEN bytes[u] + 1 ELSE bytes[u]]
  /\ late' = (late \/ at \in {"counts", "read"})
  /\ UNCHANGED <<dumpVars, client, up, life, at, global, stream, shown>>

Sum(S) == FoldFunctionOnSet(+, 0, bytes, S)
Rows(S) == [k \in 1 .. Len(S) |-> [id |-> S[k], n |-> bytes[S[k]]]]

-----------------------------------------------------------------------------
(* run_global. *)

(* A round: the clock is read, and the counts are asked for. *)
Round ==
  /\ client = "global" /\ at = "wait" /\ now > t
  /\ t' = now /\ shown' = {} /\ late' = FALSE
  /\ Request("count", <<>>, 0)
  /\ at' = "counts"
  /\ UNCHANGED <<client, network, prev_t, prev_total, prev_top, stream>>

(* The counts are in and on the screen, or OSError leaves the old ones      *)
(* there; on to the totals.                                                 *)
Counts ==
  /\ client = "global" /\ at = "counts" /\ pc \in {"idle", "raised"}
  /\ Request("totals", Rows(SetToSeq(up)), Sum(up))
  /\ at' = "totals"
  /\ UNCHANGED <<client, network, t, prev_t, prev_total, prev_top, stream, shown, late>>

Rate(who, new, old, dt) == [who |-> who, diff |-> IF new > old THEN new - old ELSE 0, dt |-> dt]

Elapsed_Round == 1

(* dt goes back to the last round that had totals. *)
Elapsed == t - prev_t

(* Totals and top sessions: differences to what was read last.  OSError and *)
(* an answer without totals leave everything as it is.                      *)
Totals ==
  /\ client = "global" /\ at = "totals" /\ pc \in {"idle", "raised"}
  /\ at' = "wait"
  /\ LET sums == SelectSeq(results, LAMBDA e : e.type = "totals")
         top == {k \in DOMAIN results : results[k].type = "info"}
         Top == {results[k].id : k \in top}
         Of(u) == results[CHOOSE k \in top : results[k].id = u].n
     IN IF pc = "raised" \/ sums = <<>>
          THEN UNCHANGED <<prev_total, prev_top, prev_t, shown>>
          ELSE /\ prev_total' = Last(sums).n
               /\ prev_top' = [u \in Top |-> Of(u)]
               /\ prev_t' = t
               /\ shown' = IF prev_t = None THEN {}
                           ELSE {Rate(0, Last(sums).n, prev_total, Elapsed)} \cup
                                {Rate(u, Of(u), prev_top[u], Elapsed) : u \in Top \cap DOMAIN prev_top}
  /\ UNCHANGED <<dumpVars, client, network, t, stream, late>>

(* The keys: q returns; r clears the graph and then names a variable that   *)
(* does not exist, which ends the monitor as well.                          *)
Key ==
  /\ client = "global" /\ at = "wait" /\ t > 0
  /\ at' = "ended"
  /\ UNCHANGED <<dumpVars, client, network, global, stream, shown, late>>

(* KeyboardInterrupt in send_event reaches the end of run_global. *)
Break ==
  /\ client = "global" /\ at = "counts" /\ pc = "client"
  /\ at' = "ended" /\ pc' = "idle"
  /\ UNCHANGED <<kind, req, reply, i, skb, queue, overrun, results, terminated, history>>
  /\ UNCHANGED <<client, network, global, stream, shown, late>>

Monitor == Round \/ Counts \/ Totals

-----------------------------------------------------------------------------
(* traffic_stream, of subscriber 1. *)

(* find_session in a thread of its own, on a socket of its own. *)
Look ==
  /\ client = "stream" /\ at = "wait"
  /\ raw' = IF 1 \in up THEN <<[life |-> life[1], n |-> bytes[1]]>> ELSE <<>>
  /\ at' = "read" /\ shown' = {} /\ late' = FALSE
  /\ UNCHANGED <<dumpVars, client, network, global, prev>>

(* sid in prev: a session is compared with itself only. *)
Known == prev # <<>> /\ prev[1].life = raw[1].life

(* The event loop goes on: the row is stamped and compared. *)
Stamp ==
  /\ client = "stream" /\ at = "read"
  /\ at' = "wait"
  /\ shown' = IF raw # <<>> /\ Known /\ now > prev[1].ts
                THEN {Rate(1, raw[1].n, prev[1].n, now - prev[1].ts)} ELSE {}
  /\ prev' = IF raw = <<>> THEN <<>> ELSE <<[life |-> raw[1].life, n |-> raw[1].n, ts |-> now, slow |-> late]>>
  /\ raw' = <<>>
  /\ late' = (prev # <<>> /\ prev[1].slow)
  /\ UNCHANGED <<dumpVars, client, network, global>>

AnyCall ==
  /\ client = "any" /\ DumpNext
  /\ UNCHANGED <<client, network, at, global, stream, shown, late>>

Call ==
  /\ client = "global" /\ at \in {"counts", "totals"} /\ (CallStep \/ Interrupt)
  /\ UNCHANGED <<client, network, at, global, stream, shown, late>>

Next ==
  \/ \E u \in User : client # "any" /\ (Begin(u) \/ End(u))
  \/ \E S \in SUBSET up : Tick(S)
  \/ AnyCall \/ Call
  \/ Monitor \/ Key \/ Break
  \/ Look \/ Stamp

Spec == Init /\ [][Next]_vars

-----------------------------------------------------------------------------
(* The most that can have moved. *)
Most(who) == IF who = 0 THEN Users ELSE 1

(* Sessions end and begin, answers fail: no rate on the screen is higher    *)
(* than what the line carried, unless time passed between the clock and the *)
(* counters, or calls on the socket were interrupted or overrun.            *)
NoPhantomSpeed ==
  ~late /\ ~cut /\ lost = {} => \A r \in shown : r.diff <= Most(r.who) * r.dt
=============================================================================
