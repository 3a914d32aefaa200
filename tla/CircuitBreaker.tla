--------------------------- MODULE CircuitBreaker ---------------------------
(***************************************************************************)
(* The circuit breaker of one backend (Backend in base.py), shared without  *)
(* a lock by the worker threads: is_circuit_open before a request, _record  *)
(* after it.                                                                *)
(*                                                                          *)
(* Time is what is left of the penalty.  "_consec_err += 1" reads and       *)
(* writes in two steps, between which the interpreter may switch threads,   *)
(* and the comparison with the threshold reads the counter again.  What the *)
(* requests do is in Accounting.                                            *)
(***************************************************************************)
EXTENDS Integers, FiniteSets

CONSTANTS
  Thread,
  Threshold,   \* _CB_THRESHOLD
  Penalty      \* _CB_PENALTY, in ticks

ASSUME BreakerAssumption ==
  IsFiniteSet(Thread) /\ Threshold \in Nat \ {0} /\ Penalty \in Nat \ {0}

VARIABLES
  consec,      \* _consec_err
  left,        \* _open_until - now; Closed when _open_until is 0
  pc, seen,    \* thread -> where it is, and the counter it has read
  run,         \* history: errors since the last success or the last closing
  torn         \* history: another thread wrote the counter between read and write

breakerVars == <<consec, left, pc, seen, run, torn>>

Closed == -1

(* Bound: what is above the threshold makes no difference to the code. *)
CounterCap == Threshold + 1
Up(x) == IF x < CounterCap THEN x + 1 ELSE x

BreakerTypeOK ==
  /\ consec \in 0 .. CounterCap
  /\ left \in Closed .. Penalty
  /\ pc \in [Thread -> {"idle", "asked", "read", "written"}]
  /\ seen \in [Thread -> 0 .. CounterCap]
  /\ run \in 0 .. CounterCap
  /\ torn \in BOOLEAN

BreakerInit ==
  /\ consec = 0 /\ left = Closed
  /\ pc = [t \in Thread |-> "idle"] /\ seen = [t \in Thread |-> 0]
  /\ run = 0 /\ torn = FALSE

(* A second passes; the few steps of _record take no measurable time. *)
Tick ==
  /\ left > 0 /\ \A t \in Thread : pc[t] \in {"idle", "asked"}
  /\ left' = left - 1
  /\ UNCHANGED <<consec, pc, seen, run, torn>>

(* Some thread is between reading the counter and writing it. *)
Reading(t) == \E u \in Thread \ {t} : pc[u] = "read"

Reset_Rearms == left' = Penalty /\ consec' = 0 /\ run' = 0

(* The penalty is over: a fresh start. *)
Reset == left' = Closed /\ consec' = 0 /\ run' = 0

(* is_circuit_open, called by t, lets a request through. *)
LetsThrough(t) ==
  /\ left <= 0
  /\ IF left = 0
       THEN Reset /\ torn' = (torn \/ Reading(t))
       ELSE UNCHANGED <<left, consec, run, torn>>

(* A worker asks before its request; one that finds the circuit open skips  *)
(* the backend and changes nothing.                                         *)
Ask(t) ==
  /\ pc[t] = "idle"
  /\ LetsThrough(t)
  /\ pc' = [pc EXCEPT ![t] = "asked"]
  /\ UNCHANGED seen

(* _record(True). *)
RecordOk(t) ==
  /\ pc[t] = "asked"
  /\ pc' = [pc EXCEPT ![t] = "idle"]
  /\ consec' = 0 /\ run' = 0
  /\ torn' = (torn \/ Reading(t))
  /\ UNCHANGED <<left, seen>>

(* _record(False): the counter is read, *)
ErrRead(t) ==
  /\ pc[t] = "asked"
  /\ pc' = [pc EXCEPT ![t] = "read"]
  /\ seen' = [seen EXCEPT ![t] = consec]
  /\ UNCHANGED <<consec, left, run, torn>>

(* written back, *)
ErrWrite(t) ==
  /\ pc[t] = "read"
  /\ pc' = [pc EXCEPT ![t] = "written"]
  /\ consec' = Up(seen[t]) /\ run' = Up(run)
  /\ seen' = [seen EXCEPT ![t] = 0]
  /\ torn' = (torn \/ Reading(t))
  /\ UNCHANGED left

Opens_Never == FALSE

(* and compared with the threshold. *)
Opens == consec >= Threshold

ErrOpen(t) ==
  /\ pc[t] = "written"
  /\ pc' = [pc EXCEPT ![t] = "idle"]
  /\ left' = IF Opens THEN Penalty ELSE left
  /\ UNCHANGED <<consec, seen, run, torn>>

-----------------------------------------------------------------------------
(* Unless a thread switch hit the increment, a backend that has failed      *)
(* Threshold times in a row is open once the threads are done recording.    *)
OpenAfterThreshold ==
  (~torn /\ run >= Threshold /\ \A t \in Thread : pc[t] # "written") => left # Closed
=============================================================================
