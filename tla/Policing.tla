------------------------------ MODULE Policing ------------------------------
(***************************************************************************)
(* Policing of one direction of a session: the end of isg_tg with           *)
(* __isg_update_tokens, the reset in __isg_start_session, and the change of *)
(* the rate by isg_update_session.                                          *)
(*                                                                          *)
(* A packet reads the clock on entry, copies rate and burst under RCU, and  *)
(* only then takes the spinlock of the direction, so that clock and rate    *)
(* may be out of date when they are used.  __isg_start_session clears the   *)
(* whole isg_session_stat, its spinlock included, without taking that lock. *)
(***************************************************************************)
EXTENDS Integers

CONSTANTS
  Cpu,            \* contexts that police packets of this direction
  NSEC_PER_USEC, USEC_PER_SEC,
  Rates,          \* the [rate, burst] pairs a request may set
  Lens,           \* lengths of packets, in bits
  Word,           \* the token counter is kept modulo Word (2^64)
  Dir,            \* "IN" or "OUT"
  Ticks,          \* bound: by how much the clock moves in a step
  MaxTime,        \* bound: the clock stops here
  MaxChanges,     \* bound: changes of rate and restarts
  NoCpu

ASSUME PolicingAssumption ==
  /\ NSEC_PER_USEC \in Nat \ {0} /\ USEC_PER_SEC \in Nat \ {0} /\ Word \in Nat \ {0}
  /\ Rates \subseteq [rate : Nat, burst : 0 .. Word - 1]
  /\ Lens \subseteq Nat
  /\ Rates # {} /\ Lens # {}
  /\ Ticks \subseteq Nat /\ MaxTime \in Nat /\ MaxChanges \in Nat
  /\ NoCpu \notin Cpu

VARIABLES
  now,            \* ktime_get_mono_fast_ns
  tokens, lastSeen,             \* fields of isg_session_stat
  lock,           \* holder of its spinlock
  rate,           \* what is->rate points at
  stage,          \* "idle", "read", "wait" (for the lock), "locked"
  pkt,            \* the packet of each cpu: its clock, rate and length, and
                  \* the tokens and lastSeen it works on under the lock
  sent,           \* history: bits accepted at the rate in force since base
  base,           \* history: lastSeen when the rate was set
  spare,          \* history: refills since then by packets with an older rate
  broken,         \* history: the lock was cleared under its holder
  changes

policeVars == <<now, tokens, lastSeen, lock, rate, stage, pkt, sent, base, spare, broken, changes>>
ghosts == <<sent, base, spare, broken, changes>>

Packet == [now : Nat, rate : Rates, len : Lens, tokens : 0 .. Word - 1, seen : Nat]

NoPacket == [now |-> 0, rate |-> CHOOSE r \in Rates : TRUE, len |-> CHOOSE l \in Lens : TRUE,
             tokens |-> 0, seen |-> 0]

PoliceTypeOK ==
  /\ now \in Nat
  /\ tokens \in 0 .. Word - 1
  /\ lastSeen \in Nat
  /\ lock \in Cpu \cup {NoCpu}
  /\ rate \in Rates
  /\ stage \in [Cpu -> {"idle", "read", "wait", "locked"}]
  /\ pkt \in [Cpu -> Packet]
  /\ sent \in Nat /\ base \in Nat /\ spare \in Nat
  /\ broken \in BOOLEAN
  /\ changes \in 0 .. MaxChanges

PoliceInit ==
  /\ now \in Ticks
  /\ tokens = 0 /\ lastSeen = 0 /\ lock = NoCpu
  /\ rate \in Rates
  /\ stage = [c \in Cpu |-> "idle"]
  /\ pkt = [c \in Cpu |-> NoPacket]
  /\ sent = 0 /\ base = 0 /\ spare = 0 /\ broken = FALSE /\ changes = 0

Tick ==
  /\ \E d \in Ticks : now + d <= MaxTime /\ now' = now + d
  /\ UNCHANGED <<tokens, lastSeen, lock, rate, stage, pkt, ghosts>>

(* isg_tg starts: the clock is read. *)
Arrive(c, len) ==
  /\ stage[c] = "idle"
  /\ stage' = [stage EXCEPT ![c] = "read"]
  /\ pkt' = [pkt EXCEPT ![c] = [NoPacket EXCEPT !.now = now, !.len = len]]
  /\ UNCHANGED <<now, tokens, lastSeen, lock, rate, ghosts>>

(* The rate is copied under rcu_read_lock. *)
ReadRate(c) ==
  /\ stage[c] = "read"
  /\ stage' = [stage EXCEPT ![c] = "wait"]
  /\ pkt' = [pkt EXCEPT ![c] = [@ EXCEPT !.rate = rate]]
  /\ UNCHANGED <<now, tokens, lastSeen, lock, rate, ghosts>>

Lock(c) ==
  /\ stage[c] = "wait"
  /\ lock = NoCpu
  /\ lock' = c
  /\ stage' = [stage EXCEPT ![c] = "locked"]
  /\ pkt' = [pkt EXCEPT ![c] = [@ EXCEPT !.tokens = tokens, !.seen = lastSeen]]
  /\ UNCHANGED <<now, tokens, lastSeen, rate, ghosts>>

UsAfter_Backwards(k) == (k.now - k.seen) \div NSEC_PER_USEC

UsAfter(k) == IF k.now > k.seen THEN (k.now - k.seen) \div NSEC_PER_USEC ELSE 0

Earned(k) == (UsAfter(k) * k.rate.rate) \div USEC_PER_SEC

Refilled_NoCap(k) == (k.tokens + Earned(k)) % Word

(* __isg_update_tokens: the tokens of the time since lastSeen, up to burst. *)
Refilled(k) ==
  LET sum == (k.tokens + Earned(k)) % Word IN
  IF sum > k.rate.burst THEN k.rate.burst ELSE sum

(* lastSeen moves by whole microseconds, so that no fraction is lost. *)
Seen(k) == k.seen + UsAfter(k) * NSEC_PER_USEC

(* The packet passes if there are tokens for all of it, or no rate is set;  *)
(* in the latter case the subtraction may wrap.                             *)
Passes(k) == k.len <= Refilled(k) \/ k.rate.rate = 0

Spent(k) == IF Passes(k) THEN (Refilled(k) - k.len) % Word ELSE Refilled(k)

(* The critical section, and the unlock. *)
Police(c) ==
  LET k == pkt[c] IN
  /\ stage[c] = "locked"
  /\ tokens' = Spent(k)
  /\ lastSeen' = Seen(k)
  /\ sent' = IF Passes(k) /\ k.rate = rate /\ rate.rate # 0 THEN sent + k.len ELSE sent
  /\ spare' = IF k.rate = rate THEN spare ELSE spare + 1
  /\ lock' = NoCpu
  /\ stage' = [stage EXCEPT ![c] = "idle"]
  /\ pkt' = [pkt EXCEPT ![c] = NoPacket]
  /\ UNCHANGED <<now, rate, base, broken, changes>>

(* isg_update_session publishes a new rate; the bucket stays as it is. *)
SetRate(r) ==
  /\ changes < MaxChanges
  /\ r # rate
  /\ rate' = r
  /\ sent' = 0 /\ base' = lastSeen /\ spare' = 0
  /\ changes' = changes + 1
  /\ UNCHANGED <<now, tokens, lastSeen, lock, stage, pkt, broken>>

(* __isg_start_session, on approval: memset of both isg_session_stat.  Only *)
(* the incoming direction gets the time of the start.                       *)
Restart ==
  /\ changes < MaxChanges
  /\ tokens' = 0
  /\ lastSeen' = IF Dir = "IN" THEN now ELSE 0
  /\ lock' = NoCpu
  /\ broken' = (broken \/ lock # NoCpu)
  /\ sent' = 0 /\ base' = lastSeen' /\ spare' = 0
  /\ changes' = changes + 1
  /\ UNCHANGED <<now, rate, stage, pkt>>

PoliceNext ==
  \/ Tick
  \/ \E c \in Cpu, len \in Lens : Arrive(c, len)
  \/ \E c \in Cpu : ReadRate(c)
  \/ \E c \in Cpu : Lock(c)
  \/ \E c \in Cpu : Police(c)
  \/ \E r \in Rates : SetRate(r)
  \/ Restart

PoliceSpec == PoliceInit /\ [][PoliceNext]_policeVars

-----------------------------------------------------------------------------
Available == IF tokens < rate.burst THEN tokens ELSE rate.burst

(* The contract of the policer: since a rate was set (or the session was    *)
(* started), what passed at that rate, with what may still pass at once, is *)
(* at most one burst and what the rate earned up to the last packet; each   *)
(* packet that still carried an older rate can add one more burst.  It      *)
(* holds with tokens that wrapped under rate 0 and with clocks read long    *)
(* before the lock was taken.                                               *)
RateLimit ==
  rate.rate # 0 /\ ~broken =>
    USEC_PER_SEC * (sent + Available)
      <= USEC_PER_SEC * (rate.burst * (1 + spare))
           + rate.rate * ((lastSeen - base) \div NSEC_PER_USEC)

(* The bucket is never credited with time that has not passed: lastSeen     *)
(* never moves back and stays behind the clock in whatever order packets    *)
(* get the lock.                                                            *)
NoCreditAhead == ~broken => base <= lastSeen /\ lastSeen <= now
=============================================================================
