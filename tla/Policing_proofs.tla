-------------------------- MODULE Policing_proofs ---------------------------
(***************************************************************************)
(* Proofs about the token bucket of a session, for any number of cpus, any  *)
(* rates and any widths.                                                    *)
(***************************************************************************)
EXTENDS Policing, TLAPS

(* While no reset hit a held lock, the lock word names the packet inside,   *)
(* and that packet works on the current bucket.                             *)
LockInv ==
  ~broken => \A c \in Cpu :
    /\ lock = c <=> stage[c] = "locked"
    /\ stage[c] = "locked" => pkt[c].tokens = tokens /\ pkt[c].seen = lastSeen

(* No packet carries a clock that is ahead. *)
ClockInv == \A c \in Cpu : pkt[c].now <= now

-----------------------------------------------------------------------------
(* Arithmetic.                                                              *)

(* Integer division rounds down. *)
LEMMA DivLe ==
  ASSUME NEW a \in Nat, NEW n \in Nat \ {0}
  PROVE  a \div n \in Nat /\ n * (a \div n) <= a
BY Z3T(30)

(* Whole multiples of the divisor come out of a division unchanged. *)
LEMMA DivAdd ==
  ASSUME NEW a \in Nat, NEW u \in Nat, NEW n \in Nat \ {0}
  PROVE  (a + u * n) \div n = (a \div n) + u
BY Z3T(30)

(* Sums of naturals. *)
LEMMA AddNat == ASSUME NEW a \in Nat, NEW b \in Nat PROVE a + b \in Nat
OBVIOUS

(* Adding a number to both sides. *)
LEMMA AddLe ==
  ASSUME NEW s \in Nat, NEW a \in Nat, NEW b \in Nat, NEW e \in Nat, b <= a + e
  PROVE  s + b <= (s + a) + e
  OBVIOUS

(* Products of naturals. *)
LEMMA MulNat == ASSUME NEW a \in Nat, NEW b \in Nat PROVE a * b \in Nat
BY Z3T(30)

(* Multiplication distributes over a sum. *)
LEMMA MulAdd ==
  ASSUME NEW a \in Nat, NEW b \in Nat, NEW c \in Nat
  PROVE  a * (b + c) = a * b + a * c
BY Z3T(30)

(* Multiplication is monotone. *)
LEMMA MulLe ==
  ASSUME NEW a \in Nat, NEW b \in Nat, NEW c \in Nat, b <= c
  PROVE  a * b <= a * c
BY Z3T(30)

(* A remainder is no larger than what was divided. *)
LEMMA ModLe ==
  ASSUME NEW a \in Nat, NEW n \in Nat \ {0}
  PROVE  a % n \in 0 .. n - 1 /\ a % n <= a /\ (a < n => a % n = a)
BY Z3T(30)

-----------------------------------------------------------------------------
(* Types.                                                                   *)

(* What the policer computes from a packet. *)
LEMMA PoliceType ==
  ASSUME NEW k \in Packet
  PROVE  /\ UsAfter(k) \in Nat /\ Earned(k) \in Nat
         /\ USEC_PER_SEC * Earned(k) <= UsAfter(k) * k.rate.rate
         /\ Refilled(k) \in 0 .. Word - 1
         /\ Refilled(k) <= k.rate.burst
         /\ Refilled(k) <= k.tokens + Earned(k)
         /\ Seen(k) \in Nat
         /\ Spent(k) \in 0 .. Word - 1
<1>1. /\ k.now \in Nat /\ k.seen \in Nat /\ k.rate \in Rates /\ k.len \in Nat
      /\ k.tokens \in 0 .. Word - 1 /\ k.rate.rate \in Nat /\ k.rate.burst \in 0 .. Word - 1
  BY PolicingAssumption, Zenon DEF Packet
<1>2. UsAfter(k) \in Nat
  BY <1>1, DivLe, PolicingAssumption DEF UsAfter
<1>3. Earned(k) \in Nat /\ USEC_PER_SEC * Earned(k) <= UsAfter(k) * k.rate.rate
  <2> HIDE DEF UsAfter
  <2>1. UsAfter(k) * k.rate.rate \in Nat
    BY <1>1, <1>2, MulNat
  <2> QED
    BY <2>1, DivLe, PolicingAssumption DEF Earned
<1>4. /\ (k.tokens + Earned(k)) % Word \in 0 .. Word - 1
      /\ (k.tokens + Earned(k)) % Word <= k.tokens + Earned(k)
  <2>1. k.tokens + Earned(k) \in Nat
    BY <1>1, <1>3
  <2> QED
    BY <2>1, ModLe, PolicingAssumption, Zenon
<1>5. /\ Refilled(k) \in 0 .. Word - 1
      /\ Refilled(k) <= k.rate.burst
      /\ Refilled(k) <= k.tokens + Earned(k)
  BY <1>1, <1>3, <1>4 DEF Refilled
<1>6. Seen(k) \in Nat
  BY <1>1, <1>2, MulNat, PolicingAssumption DEF Seen
<1>7. (Refilled(k) - k.len) % Word \in 0 .. Word - 1
  BY <1>1, <1>5, PolicingAssumption
<1>8. Spent(k) \in 0 .. Word - 1
  BY <1>5, <1>7 DEF Spent
<1> QED
  BY <1>2, <1>3, <1>5, <1>6, <1>8

(* The blank packet is a packet. *)
LEMMA NoPacketType == NoPacket \in Packet
<1>1. (CHOOSE r \in Rates : TRUE) \in Rates /\ (CHOOSE l \in Lens : TRUE) \in Lens
  BY PolicingAssumption, Zenon
<1>2. 0 \in 0 .. Word - 1
  BY PolicingAssumption
<1> QED
  BY <1>1, <1>2 DEF NoPacket, Packet

(* The bucket, the clock and the packets keep their types; in particular    *)
(* the token counter stays in its word although it wraps.                   *)
THEOREM TypeCorrect == PoliceSpec => []PoliceTypeOK
<1>1. PoliceInit => PoliceTypeOK
  <2> SUFFICES ASSUME PoliceInit PROVE PoliceTypeOK
    OBVIOUS
  <2>1. now \in Nat /\ 0 \in 0 .. Word - 1 /\ 0 \in 0 .. MaxChanges
    BY PolicingAssumption DEF PoliceInit
  <2>2. pkt \in [Cpu -> Packet]
    BY NoPacketType DEF PoliceInit
  <2> QED
    BY <2>1, <2>2, Zenon DEF PoliceInit, PoliceTypeOK
<1>2. PoliceTypeOK /\ [PoliceNext]_policeVars => PoliceTypeOK'
  <2> SUFFICES ASSUME PoliceTypeOK, [PoliceNext]_policeVars PROVE PoliceTypeOK'
    OBVIOUS
  <2>1. CASE Tick
    BY <2>1, PolicingAssumption DEF Tick, PoliceTypeOK, ghosts
  <2>2. ASSUME NEW c \in Cpu, NEW len \in Lens, Arrive(c, len) PROVE PoliceTypeOK'
    <3>1. [NoPacket EXCEPT !.now = now, !.len = len] \in Packet
      BY NoPacketType, Zenon DEF PoliceTypeOK, Packet
    <3> QED
      BY <2>2, <3>1 DEF Arrive, PoliceTypeOK, ghosts
  <2>3. ASSUME NEW c \in Cpu, ReadRate(c) PROVE PoliceTypeOK'
    <3>1. [pkt[c] EXCEPT !.rate = rate] \in Packet
      BY DEF PoliceTypeOK, Packet
    <3> QED
      BY <2>3, <3>1 DEF ReadRate, PoliceTypeOK, ghosts
  <2>4. ASSUME NEW c \in Cpu, Lock(c) PROVE PoliceTypeOK'
    <3>1. [pkt[c] EXCEPT !.tokens = tokens, !.seen = lastSeen] \in Packet
      BY Zenon DEF PoliceTypeOK, Packet
    <3> QED
      BY <2>4, <3>1 DEF Lock, PoliceTypeOK, ghosts
  <2>5. ASSUME NEW c \in Cpu, Police(c) PROVE PoliceTypeOK'
    <3>1. pkt[c] \in Packet /\ pkt[c].len \in Nat
      BY PolicingAssumption, Zenon DEF PoliceTypeOK, Packet
    <3>2. Spent(pkt[c]) \in 0 .. Word - 1 /\ Seen(pkt[c]) \in Nat
      BY <3>1, PoliceType
    <3> QED
      BY <2>5, <3>1, <3>2, NoPacketType DEF Police, PoliceTypeOK
  <2>6. ASSUME NEW r \in Rates, SetRate(r) PROVE PoliceTypeOK'
    BY <2>6, PolicingAssumption DEF SetRate, PoliceTypeOK
  <2>7. CASE Restart
    BY <2>7, PolicingAssumption DEF Restart, PoliceTypeOK
  <2>8. CASE UNCHANGED policeVars
    BY <2>8, Zenon DEF policeVars, PoliceTypeOK
  <2> QED
    BY <2>1, <2>2, <2>3, <2>4, <2>5, <2>6, <2>7, <2>8 DEF PoliceNext
<1> QED
  BY <1>1, <1>2, PTL DEF PoliceSpec

-----------------------------------------------------------------------------
(* The clock and the lock.                                                  *)

(* One step keeps the lock word, the clocks and lastSeen in order. *)
LEMMA OrderStep ==
  ASSUME PoliceTypeOK, LockInv, ClockInv, NoCreditAhead, [PoliceNext]_policeVars
  PROVE  LockInv' /\ ClockInv' /\ NoCreditAhead'
<1> USE DEF LockInv, ClockInv, NoCreditAhead
<1>1. CASE Tick
  BY <1>1, PolicingAssumption DEF Tick, PoliceTypeOK, ghosts, Packet
<1>2. ASSUME NEW c \in Cpu, NEW len \in Lens, Arrive(c, len)
      PROVE  LockInv' /\ ClockInv' /\ NoCreditAhead'
  <2>1. pkt'[c].now = now /\ \A d \in Cpu \ {c} : pkt'[d] = pkt[d]
    BY <1>2, NoPacketType DEF Arrive, PoliceTypeOK, Packet
  <2> QED
    BY <1>2, <2>1 DEF Arrive, PoliceTypeOK, ghosts, Packet
<1>3. ASSUME NEW c \in Cpu, ReadRate(c)
      PROVE  LockInv' /\ ClockInv' /\ NoCreditAhead'
  <2>1. pkt'[c].now = pkt[c].now /\ \A d \in Cpu \ {c} : pkt'[d] = pkt[d]
    BY <1>3 DEF ReadRate, PoliceTypeOK, Packet
  <2> QED
    BY <1>3, <2>1 DEF ReadRate, PoliceTypeOK, ghosts, Packet
<1>4. ASSUME NEW c \in Cpu, Lock(c)
      PROVE  LockInv' /\ ClockInv' /\ NoCreditAhead'
  <2>1. /\ pkt'[c].now = pkt[c].now /\ pkt'[c].tokens = tokens /\ pkt'[c].seen = lastSeen
        /\ \A d \in Cpu \ {c} : pkt'[d] = pkt[d]
    BY <1>4 DEF Lock, PoliceTypeOK, Packet
  <2> QED
    BY <1>4, <2>1, PolicingAssumption DEF Lock, PoliceTypeOK, ghosts, Packet
<1>5. ASSUME NEW c \in Cpu, Police(c)
      PROVE  LockInv' /\ ClockInv' /\ NoCreditAhead'
  <2> DEFINE k == pkt[c]
  <2>1. k \in Packet /\ k.now \in Nat /\ k.seen \in Nat
    BY DEF PoliceTypeOK, Packet
  <2>2. pkt'[c].now = 0 /\ \A d \in Cpu \ {c} : pkt'[d] = pkt[d]
    BY <1>5 DEF Police, PoliceTypeOK, NoPacket
  <2>3. ClockInv'
    BY <1>5, <2>2 DEF Police, PoliceTypeOK
  <2>4. LockInv'
    BY <1>5, <2>2, PolicingAssumption DEF Police, PoliceTypeOK
  <2>5. ~broken => lastSeen <= Seen(k) /\ Seen(k) <= now
    <3> SUFFICES ASSUME ~broken PROVE lastSeen <= Seen(k) /\ Seen(k) <= now
      OBVIOUS
    <3>1. k.seen = lastSeen /\ k.now <= now /\ lastSeen <= now
      BY <1>5 DEF Police
    <3>2. CASE k.now > k.seen
      <4>1. k.now - k.seen \in Nat
        BY <2>1, <3>2
      <4>2. /\ UsAfter(k) \in Nat
            /\ NSEC_PER_USEC * UsAfter(k) <= k.now - k.seen
        BY <3>2, <4>1, DivLe, PolicingAssumption DEF UsAfter
      <4>3. UsAfter(k) * NSEC_PER_USEC = NSEC_PER_USEC * UsAfter(k)
            /\ UsAfter(k) * NSEC_PER_USEC \in Nat
        BY <4>2, MulNat, PolicingAssumption
      <4> QED
        BY <2>1, <3>1, <4>2, <4>3 DEF Seen, PoliceTypeOK
    <3>3. CASE ~(k.now > k.seen)
      <4>1. UsAfter(k) = 0 /\ 0 * NSEC_PER_USEC = 0
        BY <3>3, PolicingAssumption DEF UsAfter
      <4> QED
        BY <2>1, <3>1, <4>1 DEF Seen, PoliceTypeOK
    <3> QED
      BY <3>2, <3>3
  <2>6. NoCreditAhead'
    <3>1. lastSeen' = Seen(k) /\ UNCHANGED <<now, base, broken>> /\ Seen(k) \in Nat
      BY <1>5, <2>1, PoliceType DEF Police
    <3> QED
      BY <2>5, <3>1 DEF PoliceTypeOK
  <2> QED
    BY <2>3, <2>4, <2>6
<1>6. ASSUME NEW r \in Rates, SetRate(r) PROVE LockInv' /\ ClockInv' /\ NoCreditAhead'
  BY <1>6 DEF SetRate, PoliceTypeOK
<1>7. CASE Restart
  <2>1. LockInv' /\ ClockInv'
    BY <1>7, PolicingAssumption, Zenon DEF Restart, PoliceTypeOK
  <2>2. NoCreditAhead'
    BY <1>7 DEF Restart, PoliceTypeOK
  <2> QED
    BY <2>1, <2>2
<1>8. CASE UNCHANGED policeVars
  BY <1>8 DEF policeVars
<1> QED
  BY <1>1, <1>2, <1>3, <1>4, <1>5, <1>6, <1>7, <1>8, Zenon DEF PoliceNext

(* The lock and clock invariants hold in every reachable state. *)
LEMMA OrderCorrect == PoliceSpec => [](LockInv /\ ClockInv /\ NoCreditAhead)
<1>1. PoliceInit => LockInv /\ ClockInv /\ NoCreditAhead
  BY PolicingAssumption DEF PoliceInit, LockInv, ClockInv, NoCreditAhead, NoPacket
<1> QED
  BY <1>1, OrderStep, TypeCorrect, PTL DEF PoliceSpec

(* lastSeen stays between the moment the rate was set and the clock: in no  *)
(* order of packets is time credited twice or in advance.                   *)
THEOREM NoCreditCorrect == PoliceSpec => []NoCreditAhead
BY OrderCorrect, PTL

-----------------------------------------------------------------------------
(* The rate limit.                                                          *)

Elapsed == (lastSeen - base) \div NSEC_PER_USEC

(* One packet under an unbroken lock keeps the rate limit. *)
LEMMA PoliceLimit ==
  ASSUME PoliceTypeOK, LockInv, NoCreditAhead, RateLimit, NEW c \in Cpu, Police(c)
  PROVE  RateLimit'
<1> SUFFICES ASSUME rate.rate # 0, ~broken
             PROVE  USEC_PER_SEC * (sent' + Available')
                      <= USEC_PER_SEC * (rate.burst * (1 + spare')) + rate.rate * Elapsed'
  BY DEF RateLimit, Police, Elapsed
<1> DEFINE k == pkt[c]
           u == UsAfter(k)
           e == Earned(k)
<1>1. k \in Packet /\ k.tokens = tokens /\ k.seen = lastSeen /\ k.len \in Nat
  BY PolicingAssumption, Zenon DEF Police, LockInv, PoliceTypeOK, Packet
<1>2. /\ rate.rate \in Nat /\ rate.burst \in Nat /\ rate.burst < Word
      /\ sent \in Nat /\ spare \in Nat /\ tokens \in Nat /\ USEC_PER_SEC \in Nat
  BY PolicingAssumption DEF PoliceTypeOK
<1>3. /\ u \in Nat /\ e \in Nat /\ USEC_PER_SEC * e <= u * k.rate.rate
      /\ Refilled(k) \in Nat /\ Refilled(k) <= k.rate.burst
      /\ Refilled(k) <= tokens + e /\ Refilled(k) < Word
      /\ Spent(k) \in Nat
  <2>1. k.rate.burst \in Nat
    BY <1>1, PolicingAssumption DEF Packet
  <2> HIDE DEF k
  <2> QED
    BY <1>1, <1>2, <2>1, PoliceType, PolicingAssumption
<1>4. Elapsed \in Nat /\ Elapsed' = Elapsed + u
  <2>1. lastSeen - base \in Nat
    BY DEF NoCreditAhead, PoliceTypeOK
  <2>2. lastSeen' - base' = (lastSeen - base) + u * NSEC_PER_USEC
    <3>1. u * NSEC_PER_USEC \in Nat
      BY <1>3, MulNat, PolicingAssumption
    <3>2. lastSeen' = lastSeen + u * NSEC_PER_USEC /\ base' = base
      BY <1>1 DEF Police, Seen
    <3> HIDE DEF u
    <3> QED
      BY <3>1, <3>2 DEF PoliceTypeOK
  <2> HIDE DEF u
  <2>3. ((lastSeen - base) + u * NSEC_PER_USEC) \div NSEC_PER_USEC
          = ((lastSeen - base) \div NSEC_PER_USEC) + u
    BY <1>3, <2>1, DivAdd, PolicingAssumption, Zenon
  <2>4. (lastSeen' - base') \div NSEC_PER_USEC = ((lastSeen - base) \div NSEC_PER_USEC) + u
    BY <2>2, <2>3
  <2>5. (lastSeen - base) \div NSEC_PER_USEC \in Nat
    BY <2>1, DivLe, PolicingAssumption
  <2> QED
    BY <2>4, <2>5 DEF Elapsed
<1>5. USEC_PER_SEC * (sent + Available)
        <= USEC_PER_SEC * (rate.burst * (1 + spare)) + rate.rate * Elapsed
  BY Zenon DEF RateLimit, Elapsed
<1>6. /\ Available \in Nat /\ Available <= rate.burst
      /\ Available' \in Nat /\ Available' <= rate.burst
      /\ rate' = rate /\ Available' <= Spent(k)
  <2>1. rate' = rate /\ tokens' = Spent(k)
    BY Zenon DEF Police
  <2>2. Spent(k) \in Nat
    BY <1>3
  <2> HIDE DEF k
  <2>3. Available \in Nat /\ Available <= rate.burst
    BY <1>2 DEF Available
  <2>4. Available' \in Nat /\ Available' <= rate.burst /\ Available' <= Spent(k)
    BY <1>2, <2>1, <2>2 DEF Available
  <2> QED
    BY <2>1, <2>3, <2>4
<1>7. rate.rate * Elapsed' = rate.rate * Elapsed + rate.rate * u
  BY <1>2, <1>3, <1>4, MulAdd
<1>8. /\ rate.rate * u \in Nat /\ rate.rate * Elapsed \in Nat
      /\ USEC_PER_SEC * (rate.burst * (1 + spare)) \in Nat
  <2>1. rate.burst * (1 + spare) \in Nat
    BY <1>2, MulNat
  <2> HIDE DEF u
  <2> QED
    BY <1>2, <1>3, <1>4, <2>1, MulNat
<1>9. CASE k.rate = rate
  <2>1. sent' + Available' <= (sent + Available) + e
    <3> e \in Nat /\ Refilled(k) \in Nat /\ Spent(k) \in Nat
      BY <1>3
    <3>1. Refilled(k) <= Available + e
      BY <1>2, <1>3, <1>9 DEF Available
    <3>2. CASE Passes(k)
      <4>1. k.len <= Refilled(k)
        BY <1>9, <3>2 DEF Passes
      <4>2. Spent(k) = Refilled(k) - k.len
        <5>1. Refilled(k) - k.len \in Nat /\ Refilled(k) - k.len < Word
          BY <1>1, <1>3, <4>1, PolicingAssumption
        <5>2. Word \in Nat \ {0}
          BY PolicingAssumption, Zenon
        <5>3. (Refilled(k) - k.len) % Word = Refilled(k) - k.len
          BY <5>1, <5>2, ModLe, Zenon
        <5> QED
          BY <3>2, <5>3, Zenon DEF Spent
      <4>3. sent' = sent + k.len
        BY <1>9, <3>2, Zenon DEF Police
      <4> HIDE DEF e, k
      <4> QED
        BY <1>1, <1>2, <1>6, <3>1, <4>1, <4>2, <4>3
    <3>3. CASE ~Passes(k)
      <4>1. Spent(k) = Refilled(k) /\ sent' = sent
        BY <3>3, Zenon DEF Spent, Police
      <4> HIDE DEF e, k
      <4> QED
        <5>1. Available' <= Available + e
          BY <1>6, <3>1, <4>1
        <5> QED
          BY <1>2, <1>6, <4>1, <5>1, AddLe, Zenon
    <3> QED
      BY <3>2, <3>3
  <2>2. sent' \in Nat /\ spare' = spare
    <3>1. sent' = sent \/ sent' = sent + k.len
      BY Zenon DEF Police
    <3>2. spare' = spare
      BY <1>9, Zenon DEF Police
    <3> HIDE DEF k
    <3> QED
      BY <1>1, <1>2, <3>1, <3>2
  <2> HIDE DEF e, u
  <2>3. /\ e \in Nat /\ sent' + Available' \in Nat /\ sent + Available \in Nat
        /\ (sent + Available) + e \in Nat
    BY <1>2, <1>3, <1>6, <2>2, AddNat, Zenon
  <2>4. USEC_PER_SEC * (sent' + Available') <= USEC_PER_SEC * ((sent + Available) + e)
    BY <1>2, <2>1, <2>3, MulLe, Zenon
  <2>5. USEC_PER_SEC * ((sent + Available) + e)
          = USEC_PER_SEC * (sent + Available) + USEC_PER_SEC * e
    BY <1>2, <2>3, MulAdd
  <2>6. USEC_PER_SEC * e <= rate.rate * u
    BY <1>2, <1>3, <1>9
  <2>7. /\ USEC_PER_SEC * (sent' + Available') \in Nat
        /\ USEC_PER_SEC * (sent + Available) \in Nat /\ USEC_PER_SEC * e \in Nat
    BY <1>2, <2>3, MulNat, Zenon
  <2> QED
    BY <1>5, <1>7, <1>8, <2>2, <2>4, <2>5, <2>6, <2>7
<1>10. CASE k.rate # rate
  <2>1. sent' = sent /\ spare' = spare + 1
    BY <1>10, Zenon DEF Police
  <2>2. USEC_PER_SEC * (sent' + Available')
          <= USEC_PER_SEC * (sent + Available) + USEC_PER_SEC * rate.burst
    <3>1. sent' + Available' <= (sent + Available) + rate.burst
      BY <1>2, <1>6, <2>1
    <3> QED
      BY <1>2, <1>6, <2>1, <3>1, MulLe, MulAdd
  <2>3. USEC_PER_SEC * (rate.burst * (1 + spare'))
          = USEC_PER_SEC * (rate.burst * (1 + spare)) + USEC_PER_SEC * rate.burst
    <3>1. rate.burst * (1 + spare') = rate.burst * (1 + spare) + rate.burst
      BY <1>2, <2>1
    <3>2. rate.burst * (1 + spare) \in Nat
      BY <1>2, MulNat
    <3> QED
      BY <1>2, <3>1, <3>2, MulAdd
  <2>4. /\ USEC_PER_SEC * (sent' + Available') \in Nat
        /\ USEC_PER_SEC * (sent + Available) \in Nat
        /\ USEC_PER_SEC * rate.burst \in Nat
    <3>1. sent' \in Nat /\ Available' \in Nat /\ sent \in Nat /\ Available \in Nat
      BY <1>2, <1>6, <2>1
    <3>2. sent' + Available' \in Nat /\ sent + Available \in Nat
      BY <3>1, AddNat, Zenon
    <3> QED
      BY <1>2, <3>2, MulNat
  <2> HIDE DEF u
  <2> QED
    BY <1>5, <1>7, <1>8, <2>2, <2>3, <2>4
<1> QED
  BY <1>9, <1>10

(* A fresh count: at most a burst is available and nothing was sent. *)
LEMMA FreshLimit ==
  ASSUME NEW r \in Rates, NEW t \in Nat, NEW b \in Nat
  PROVE  USEC_PER_SEC * (0 + (IF t < r.burst THEN t ELSE r.burst))
           <= USEC_PER_SEC * (r.burst * (1 + 0)) + r.rate * ((b - b) \div NSEC_PER_USEC)
<1> DEFINE a == IF t < r.burst THEN t ELSE r.burst
<1>1. /\ r.rate \in Nat /\ r.burst \in Nat /\ USEC_PER_SEC \in Nat
      /\ NSEC_PER_USEC \in Nat \ {0}
  BY PolicingAssumption
<1>2. a \in Nat /\ a <= r.burst
  BY <1>1
<1> HIDE DEF a
<1>3. (b - b) \div NSEC_PER_USEC = 0 /\ r.rate * 0 = 0
  BY <1>1
<1>4. 0 + a = a /\ r.burst * (1 + 0) = r.burst
  BY <1>1, <1>2
<1>5. USEC_PER_SEC * a <= USEC_PER_SEC * r.burst /\ USEC_PER_SEC * r.burst \in Nat
  BY <1>1, <1>2, MulLe, MulNat
<1>6. USEC_PER_SEC * (0 + a)
        <= USEC_PER_SEC * (r.burst * (1 + 0)) + r.rate * ((b - b) \div NSEC_PER_USEC)
  BY <1>3, <1>4, <1>5
<1> QED
  BY <1>6 DEF a

(* A subscriber never gets more than the rate and one burst, for every      *)
(* rate, packet size, word width and interleaving of packets, changes of    *)
(* the rate and restarts, as long as no restart hits a held lock.           *)
THEOREM RateLimitCorrect == PoliceSpec => []RateLimit
<1>1. PoliceInit => RateLimit
  <2> SUFFICES ASSUME PoliceInit PROVE RateLimit
    OBVIOUS
  <2>1. /\ rate \in Rates /\ tokens \in Nat /\ lastSeen = base /\ base \in Nat
        /\ sent = 0 /\ spare = 0
    BY DEF PoliceInit
  <2> QED
    BY <2>1, FreshLimit DEF RateLimit, Available
<1>2. PoliceTypeOK /\ LockInv /\ ClockInv /\ NoCreditAhead /\ RateLimit /\ [PoliceNext]_policeVars => RateLimit'
  <2> SUFFICES ASSUME PoliceTypeOK, LockInv, ClockInv, NoCreditAhead, RateLimit, [PoliceNext]_policeVars
               PROVE  RateLimit'
    OBVIOUS
  <2>1. CASE Tick
    BY <2>1 DEF Tick, RateLimit, Available, ghosts
  <2>2. ASSUME NEW c \in Cpu, NEW len \in Lens, Arrive(c, len) PROVE RateLimit'
    BY <2>2 DEF Arrive, RateLimit, Available, ghosts
  <2>3. ASSUME NEW c \in Cpu, ReadRate(c) PROVE RateLimit'
    BY <2>3 DEF ReadRate, RateLimit, Available, ghosts
  <2>4. ASSUME NEW c \in Cpu, Lock(c) PROVE RateLimit'
    BY <2>4 DEF Lock, RateLimit, Available, ghosts
  <2>5. ASSUME NEW c \in Cpu, Police(c) PROVE RateLimit'
    BY <2>5, PoliceLimit
  <2>6. ASSUME NEW r \in Rates, SetRate(r) PROVE RateLimit'
    <3>1. /\ rate' \in Rates /\ tokens' \in Nat /\ lastSeen' = base' /\ base' \in Nat
          /\ sent' = 0 /\ spare' = 0
      BY <2>6 DEF SetRate, PoliceTypeOK
    <3> QED
      BY <3>1, FreshLimit, Zenon DEF RateLimit, Available
  <2>7. CASE Restart
    <3>1. /\ rate' \in Rates /\ tokens' \in Nat /\ lastSeen' = base' /\ base' \in Nat
          /\ sent' = 0 /\ spare' = 0
      BY <2>7 DEF Restart, PoliceTypeOK
    <3> QED
      BY <3>1, FreshLimit, Zenon DEF RateLimit, Available
  <2>8. CASE UNCHANGED policeVars
    BY <2>8 DEF policeVars, RateLimit, Available
  <2> QED
    BY <2>1, <2>2, <2>3, <2>4, <2>5, <2>6, <2>7, <2>8 DEF PoliceNext
<1> QED
  BY <1>1, <1>2, TypeCorrect, OrderCorrect, PTL DEF PoliceSpec
=============================================================================
