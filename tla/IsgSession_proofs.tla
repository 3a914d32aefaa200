------------------------- MODULE IsgSession_proofs --------------------------
(***************************************************************************)
(* Proofs about IsgSession, for every set of objects, addresses, handlers   *)
(* and processors and every size of the port bitmap.                        *)
(***************************************************************************)
EXTENDS IsgSession, TLAPS

(* The facts about single objects and handlers that every step preserves. *)
StructInv ==
  /\ \A o \in Obj : timer[o] # "off" => mem[o] = "ready"
  /\ \A o \in Obj : mem[o] = "free" => flags[o] = {}
  /\ \A o \in Obj : mem[o] \in {"free", "raw"} => port[o] = 0
  /\ \A o \in Obj : flags[o] # {} => flags[o] \cap {"APPROVED", "DYING"} # {}
  /\ \A o \in hash : mem[o] # "free" => ipaddr[o] \in IP

(* What holds while no two operations have overlapped on one session. *)
Quiet ==
  /\ \A o \in Obj : mem[o] \in {"raw", "ported"} =>
       o \in hash /\ "APPROVED" \notin flags[o] /\ lastEv[o] = "NONE"
  /\ \A o \in timerFree : "DYING" \in flags[o]
  /\ \A h \in Nl : nlPc[h] = "free" => "DYING" \in flags[nlObj[h]]
  /\ \A o \in Ready \ hash : "DYING" \in flags[o]
  /\ \A o \in Obj : mem[o] = "free" => lastEv[o] = "NONE"

QuietInv == races = {} /\ ~Dangling => Quiet

-----------------------------------------------------------------------------
(* Type correctness.                                                        *)

(* A Boolean counted as 0 or 1. *)
LEMMA BitType == ASSUME NEW b PROVE Bit(b) \in {0, 1}
BY DEF Bit

(* The counters stay integers. *)
LEMMA CountType ==
  ASSUME cnt \in Counters, NEW a \in Int, NEW u \in Int, NEW d \in Int, NEW n \in Int,
         Count(a, u, d, n)
  PROVE  cnt' \in Counters
BY DEF Count, Counters

(* isg_free_session keeps the types of what it writes. *)
LEMMA ReleaseType ==
  ASSUME TypeOK, NEW o \in Obj, Release(o)
  PROVE  /\ hash' \subseteq Obj /\ bitmap' \subseteq Port
         /\ cnt' \in Counters
         /\ lastEv' \in [Obj -> Event]
         /\ timer' \in [Obj -> {"off", "check", "reap"}]
         /\ races' \subseteq Race
<1>1. cnt' \in Counters
  BY BitType, CountType DEF TypeOK, Release, CountFree
<1> QED
  BY <1>1 DEF TypeOK, Release, ReleasePort, EmitStop, ArmReap, Event, Race

(* isg_update_session keeps the types of what it writes. *)
LEMMA CommitType ==
  ASSUME TypeOK, NEW h \in Nl, NlUpdateCommit(h)
  PROVE  /\ flags' \in [Obj -> SUBSET SessionFlags]
         /\ cnt' \in Counters
         /\ lastEv' \in [Obj -> Event]
         /\ timer' \in [Obj -> {"off", "check", "reap"}]
         /\ traffic' \subseteq Obj
         /\ races' \subseteq Race
<1> DEFINE o == nlObj[h]
           u == nlReq[h]
           f == UpdateFlags(flags[o], u.flags, "ASSIGN")
           fresh == Bit(u.type = "APPROVE" /\ "APPROVED" \notin f)
<1>1. o \in Obj /\ u \in Update
  BY DEF TypeOK, NlUpdateCommit
<1>2. f \subseteq SessionFlags
  BY <1>1 DEF TypeOK, Update, UpdateFlags, FLAGS_RW_MASK, SessionFlags
<1>3. flags' \in [Obj -> SUBSET SessionFlags]
  BY <1>1, <1>2 DEF TypeOK, NlUpdateCommit, SessionFlags
<1>4. /\ fresh \in Int
      /\ Bit("NO_ACCT" \in flags[o]) \in Int
      /\ Bit("NO_ACCT" \in f) \in Int
  BY BitType
<1> HIDE DEF f, fresh
<1>5. cnt' \in Counters
  <2>1. Count(fresh, -fresh, 0, Bit("NO_ACCT" \in f) - Bit("NO_ACCT" \in flags[o]))
    BY DEF NlUpdateCommit, f, fresh
  <2> QED
    BY <1>4, <2>1, CountType DEF TypeOK
<1>6. lastEv' \in [Obj -> Event]
  BY <1>1 DEF TypeOK, NlUpdateCommit, Event
<1>7. timer' \in [Obj -> {"off", "check", "reap"}] /\ traffic' \subseteq Obj
  BY <1>1 DEF TypeOK, NlUpdateCommit
<1>8. races' \subseteq Race
  BY DEF TypeOK, NlUpdateCommit, Race
<1> QED
  BY <1>3, <1>5, <1>6, <1>7, <1>8

(* Every variable of the model keeps its type, whatever the interleaving of *)
(* packets, handlers and timers.                                            *)
THEOREM TypeCorrect == Spec => []TypeOK
<1> USE SessionAssumption
<1>1. Init => TypeOK
  BY DEF Init, TypeOK, Counters, Port, AnUpdate, Update, Event
<1>2. TypeOK /\ [Next]_vars => TypeOK'
  <2> SUFFICES ASSUME TypeOK, [Next]_vars PROVE TypeOK'
    OBVIOUS
  <2> USE DEF TypeOK
  <2>1. ASSUME NEW c \in Cpu, NEW ip \in IP, PktMiss(c, ip) PROVE TypeOK'
    BY <2>1 DEF PktMiss, nlVars
  <2>2. ASSUME NEW c \in Cpu, NEW o \in Obj, PktCreate(c, o) PROVE TypeOK'
    BY <2>2 DEF PktCreate, CreateSession, nlVars
  <2>3. ASSUME NEW c \in Cpu, PktGiveUp(c) PROVE TypeOK'
    BY <2>3 DEF PktGiveUp, Lookup, nlVars
  <2>4. ASSUME NEW o \in Obj, PktHit(o) PROVE TypeOK'
    BY <2>4 DEF PktHit, Forward, nlVars
  <2>5. ASSUME NEW o \in Obj, NotifyPort(o) PROVE TypeOK'
    BY <2>5 DEF NotifyPort, TakePort, nlVars
  <2>6. ASSUME NEW o \in Obj, NotifyExhausted(o) PROVE TypeOK'
    BY <2>6 DEF NotifyExhausted, CountExhausted, Count, Counters, nlVars, SessionFlags
  <2>7. ASSUME NEW o \in Obj, NotifyAnnounce(o) PROVE TypeOK'
    BY <2>7 DEF NotifyAnnounce, Count, Counters, nlVars, Event
  <2>8. ASSUME NEW h \in Nl, NEW u \in Update, NEW tgt \in Target, NEW o \in Obj,
               NlUpdateFind(h, u, tgt, o)
        PROVE TypeOK'
    BY <2>8 DEF NlUpdateFind, Target
  <2>9. ASSUME NEW h \in Nl, NlUpdateCommit(h) PROVE TypeOK'
    BY <2>9, CommitType, Zenon DEF NlUpdateCommit, Idle, AnUpdate, Update
  <2>10. ASSUME NEW h \in Nl, NEW tgt \in Target, NEW o \in Obj, NlClear(h, tgt, o)
         PROVE TypeOK'
    BY <2>10 DEF NlClear, SetDying, SessionFlags, Target
  <2>11. ASSUME NEW h \in Nl, NlRelease(h) PROVE TypeOK'
    BY <2>11, ReleaseType DEF NlRelease, Release, Idle, AnUpdate, Update
  <2>12. ASSUME NEW o \in Obj, TimerCheck(o) PROVE TypeOK'
    BY <2>12 DEF TimerCheck, nlVars, Event
  <2>13. ASSUME NEW o \in Obj, TimerExpire(o) PROVE TypeOK'
    BY <2>13 DEF TimerExpire, SetDying, SessionFlags, nlVars
  <2>14. ASSUME NEW o \in Obj, TimerRelease(o) PROVE TypeOK'
    BY <2>14, ReleaseType DEF TimerRelease, Release, nlVars
  <2>15. ASSUME NEW o \in Obj, TimerReap(o) PROVE TypeOK'
    <3>1. cnt' \in Counters
      BY <2>15, BitType, CountType DEF TimerReap, CountReap
    <3> QED
      BY <2>15, <3>1 DEF TimerReap, nlVars, Event, Port
  <2>16. CASE UNCHANGED vars
    BY <2>16 DEF vars
  <2> QED
    BY <2>1, <2>2, <2>3, <2>4, <2>5, <2>6, <2>7, <2>8, <2>9, <2>10, <2>11, <2>12,
       <2>13, <2>14, <2>15, <2>16, Zenon
    DEF Next, PacketStep, NetlinkStep, TimerStep, Undefined
<1> QED
  BY <1>1, <1>2, PTL DEF Spec

-----------------------------------------------------------------------------
(* The hash holds one session per address.                                  *)

(* One step preserves StructInv and OneSessionPerIp. *)
LEMMA StructStep ==
  ASSUME TypeOK, StructInv, OneSessionPerIp, [Next]_vars
  PROVE  StructInv' /\ OneSessionPerIp'
<1> USE SessionAssumption
<1> USE DEF TypeOK, StructInv, OneSessionPerIp
<1>1. ASSUME NEW c \in Cpu, NEW ip \in IP, ~Dangling, PktMiss(c, ip)
      PROVE  StructInv' /\ OneSessionPerIp'
  BY <1>1 DEF Dangling, PktMiss, nlVars
<1>2. ASSUME NEW c \in Cpu, NEW o \in Obj, ~Dangling, PktCreate(c, o)
      PROVE  StructInv' /\ OneSessionPerIp'
  BY <1>2 DEF Dangling, PktCreate, CreateSession, Lookup, nlVars
<1>3. ASSUME NEW c \in Cpu, ~Dangling, PktGiveUp(c)
      PROVE  StructInv' /\ OneSessionPerIp'
  BY <1>3 DEF Dangling, PktGiveUp, Lookup, nlVars
<1>4. ASSUME NEW o \in Obj, ~Dangling, PktHit(o)
      PROVE  StructInv' /\ OneSessionPerIp'
  BY <1>4 DEF Dangling, PktHit, Forward, nlVars
<1>5. ASSUME NEW o \in Obj, ~Dangling, NotifyPort(o)
      PROVE  StructInv' /\ OneSessionPerIp'
  BY <1>5 DEF Dangling, NotifyPort, TakePort, nlVars
<1>6. ASSUME NEW o \in Obj, ~Dangling, NotifyExhausted(o)
      PROVE  StructInv' /\ OneSessionPerIp'
  BY <1>6 DEF Dangling, NotifyExhausted, nlVars
<1>7. ASSUME NEW o \in Obj, ~Dangling, NotifyAnnounce(o)
      PROVE  StructInv' /\ OneSessionPerIp'
  BY <1>7 DEF Dangling, NotifyAnnounce, nlVars
<1>8. ASSUME NEW h \in Nl, NEW u \in Update, NEW tgt \in Target, NEW o \in Obj, ~Dangling, NlUpdateFind(h, u, tgt, o)
      PROVE  StructInv' /\ OneSessionPerIp'
  BY <1>8 DEF Dangling, NlUpdateFind
<1>9. ASSUME NEW h \in Nl, ~Dangling, NlUpdateCommit(h)
      PROVE  StructInv' /\ OneSessionPerIp'
  <2> DEFINE o == nlObj[h]
  <2>1. o \in Obj /\ mem[o] # "free" /\ nlReq[h] \in Update
    BY <1>9 DEF Dangling, Held, NlUpdateCommit
  <2>2. flags' = [flags EXCEPT ![o] = flags'[o]]
    BY <1>9, <2>1 DEF NlUpdateCommit
  <2>3. flags'[o] # {} => flags'[o] \cap {"APPROVED", "DYING"} # {}
    BY <1>9, <2>1 DEF NlUpdateCommit, UpdateFlags, Update
  <2>4. timer' = timer \/ (mem[o] = "ready" /\ timer' = [timer EXCEPT ![o] = "check"])
    BY <1>9 DEF NlUpdateCommit
  <2> QED
    BY <1>9, <2>1, <2>2, <2>3, <2>4 DEF NlUpdateCommit
<1>10. ASSUME NEW h \in Nl, NEW tgt \in Target, NEW o \in Obj, ~Dangling, NlClear(h, tgt, o)
      PROVE  StructInv' /\ OneSessionPerIp'
  BY <1>10, ZenonT(20) DEF Dangling, NlClear, SetDying, Find
<1>11. ASSUME NEW h \in Nl, ~Dangling, NlRelease(h)
      PROVE  StructInv' /\ OneSessionPerIp'
  BY <1>11 DEF Dangling, NlRelease, Release, ArmReap, Idle
<1>12. ASSUME NEW o \in Obj, ~Dangling, TimerCheck(o)
      PROVE  StructInv' /\ OneSessionPerIp'
  BY <1>12 DEF Dangling, TimerCheck, nlVars
<1>13. ASSUME NEW o \in Obj, ~Dangling, TimerExpire(o)
      PROVE  StructInv' /\ OneSessionPerIp'
  BY <1>13 DEF Dangling, TimerExpire, SetDying, nlVars
<1>14. ASSUME NEW o \in Obj, ~Dangling, TimerRelease(o)
      PROVE  StructInv' /\ OneSessionPerIp'
  BY <1>14 DEF Dangling, TimerRelease, Release, ArmReap, nlVars
<1>15. ASSUME NEW o \in Obj, ~Dangling, TimerReap(o)
      PROVE  StructInv' /\ OneSessionPerIp'
  BY <1>15 DEF Dangling, TimerReap, nlVars
<1>16. CASE UNCHANGED vars
  BY <1>16 DEF vars
<1> QED
  BY <1>1, <1>2, <1>3, <1>4, <1>5, <1>6, <1>7, <1>8, <1>9, <1>10, <1>11, <1>12, <1>13,
     <1>14, <1>15, <1>16, Zenon
  DEF Next, PacketStep, NetlinkStep, TimerStep, Undefined

(* The second look under the bucket lock is enough: no interleaving of      *)
(* packets, handlers and timers puts two sessions of one address into the   *)
(* hash.                                                                    *)
THEOREM HashUnique == Spec => []OneSessionPerIp
<1>1. Init => StructInv /\ OneSessionPerIp
  BY DEF Init, StructInv, OneSessionPerIp
<1> QED
  BY <1>1, StructStep, TypeCorrect, PTL DEF Spec

(* The structural invariant holds in every reachable state. *)
LEMMA StructCorrect == Spec => []StructInv
<1>1. Init => StructInv /\ OneSessionPerIp
  BY DEF Init, StructInv, OneSessionPerIp
<1> QED
  BY <1>1, StructStep, TypeCorrect, PTL DEF Spec

(* A session is forwarded for only once it is approved, or while it is      *)
(* being freed.                                                             *)
THEOREM ForwardedCorrect == Spec => []ForwardedOnlyApproved
<1>1. Init => ForwardedOnlyApproved
  BY DEF Init, ForwardedOnlyApproved
<1>2. TypeOK /\ StructInv /\ ForwardedOnlyApproved /\ [Next]_vars => ForwardedOnlyApproved'
  <2> SUFFICES ASSUME TypeOK, StructInv, ForwardedOnlyApproved, [Next]_vars
               PROVE  ForwardedOnlyApproved'
    OBVIOUS
  <2> USE DEF TypeOK, ForwardedOnlyApproved
  <2>1. ASSUME NEW c \in Cpu, NEW ip \in IP, PktMiss(c, ip) PROVE ForwardedOnlyApproved'
    BY <2>1 DEF PktMiss
  <2>2. ASSUME NEW c \in Cpu, NEW o \in Obj, PktCreate(c, o) PROVE ForwardedOnlyApproved'
    BY <2>2 DEF PktCreate, CreateSession
  <2>3. ASSUME NEW c \in Cpu, PktGiveUp(c) PROVE ForwardedOnlyApproved'
    BY <2>3 DEF PktGiveUp, Lookup, StructInv
  <2>4. ASSUME NEW o \in Obj, PktHit(o) PROVE ForwardedOnlyApproved'
    BY <2>4 DEF PktHit, Forward, StructInv
  <2>5. ASSUME NEW o \in Obj, NotifyPort(o) PROVE ForwardedOnlyApproved'
    BY <2>5 DEF NotifyPort
  <2>6. ASSUME NEW o \in Obj, NotifyExhausted(o) PROVE ForwardedOnlyApproved'
    BY <2>6 DEF NotifyExhausted
  <2>7. ASSUME NEW o \in Obj, NotifyAnnounce(o) PROVE ForwardedOnlyApproved'
    BY <2>7 DEF NotifyAnnounce
  <2>8. ASSUME NEW h \in Nl, NEW u \in Update, NEW tgt \in Target, NEW o \in Obj,
               NlUpdateFind(h, u, tgt, o)
        PROVE ForwardedOnlyApproved'
    BY <2>8 DEF NlUpdateFind
  <2>9. ASSUME NEW h \in Nl, NlUpdateCommit(h) PROVE ForwardedOnlyApproved'
    <3> DEFINE o == nlObj[h]
    <3>1. o \in Obj /\ nlReq[h] \in Update
      BY <2>9 DEF NlUpdateCommit
    <3>2. flags'[o] = flags[o] \/ "APPROVED" \in flags'[o]
      BY <2>9, <3>1 DEF NlUpdateCommit, UpdateFlags, Update
    <3>3. \A p \in Obj \ {o} : flags'[p] = flags[p]
      BY <2>9, <3>1 DEF NlUpdateCommit
    <3>4. traffic' \subseteq traffic
      BY <2>9 DEF NlUpdateCommit
    <3> QED
      BY <3>2, <3>3, <3>4
  <2>10. ASSUME NEW h \in Nl, NEW tgt \in Target, NEW o \in Obj, NlClear(h, tgt, o)
         PROVE ForwardedOnlyApproved'
    BY <2>10 DEF NlClear, SetDying
  <2>11. ASSUME NEW h \in Nl, NlRelease(h) PROVE ForwardedOnlyApproved'
    BY <2>11 DEF NlRelease, Release
  <2>12. ASSUME NEW o \in Obj, TimerCheck(o) PROVE ForwardedOnlyApproved'
    BY <2>12 DEF TimerCheck
  <2>13. ASSUME NEW o \in Obj, TimerExpire(o) PROVE ForwardedOnlyApproved'
    BY <2>13 DEF TimerExpire, SetDying
  <2>14. ASSUME NEW o \in Obj, TimerRelease(o) PROVE ForwardedOnlyApproved'
    BY <2>14 DEF TimerRelease, Release
  <2>15. ASSUME NEW o \in Obj, TimerReap(o) PROVE ForwardedOnlyApproved'
    BY <2>15 DEF TimerReap
  <2>16. CASE UNCHANGED vars
    BY <2>16 DEF vars
  <2> QED
    BY <2>1, <2>2, <2>3, <2>4, <2>5, <2>6, <2>7, <2>8, <2>9, <2>10, <2>11, <2>12,
       <2>13, <2>14, <2>15, <2>16, Zenon
    DEF Next, PacketStep, NetlinkStep, TimerStep, Undefined
<1> QED
  BY <1>1, <1>2, TypeCorrect, StructCorrect, PTL DEF Spec

-----------------------------------------------------------------------------
(* Ports.                                                                   *)

(* As long as no session has been freed twice, every session in the hash    *)
(* has a port of its own that is marked in the bitmap.                      *)
THEOREM PortsCorrect == Spec => []PortsUnlessDoubleFree
<1>1. Init => PortsUnlessDoubleFree
  BY DEF Init, PortsUnlessDoubleFree, Ported
<1>2. TypeOK /\ StructInv /\ PortsUnlessDoubleFree /\ [Next]_vars => PortsUnlessDoubleFree'
  <2> SUFFICES ASSUME TypeOK, StructInv, PortsUnlessDoubleFree, [Next]_vars
               PROVE  PortsUnlessDoubleFree'
    OBVIOUS
  <2> USE DEF TypeOK, PortsUnlessDoubleFree, Ported, SharedPort
  <2>1. ASSUME NEW c \in Cpu, NEW ip \in IP, ~Dangling, PktMiss(c, ip)
        PROVE  PortsUnlessDoubleFree'
    BY <2>1 DEF PktMiss, nlVars
  <2>2. ASSUME NEW c \in Cpu, NEW o \in Obj, ~Dangling, PktCreate(c, o)
        PROVE  PortsUnlessDoubleFree'
    BY <2>2 DEF PktCreate, CreateSession, Lookup, nlVars
  <2>3. ASSUME NEW c \in Cpu, ~Dangling, PktGiveUp(c)
        PROVE  PortsUnlessDoubleFree'
    BY <2>3 DEF PktGiveUp, Lookup, nlVars
  <2>4. ASSUME NEW o \in Obj, ~Dangling, PktHit(o)
        PROVE  PortsUnlessDoubleFree'
    BY <2>4 DEF PktHit, Forward, nlVars
  <2>5. ASSUME NEW o \in Obj, ~Dangling, NotifyPort(o)
        PROVE  PortsUnlessDoubleFree'
    BY <2>5 DEF NotifyPort, TakePort, nlVars
  <2>6. ASSUME NEW o \in Obj, ~Dangling, NotifyExhausted(o)
        PROVE  PortsUnlessDoubleFree'
    BY <2>6 DEF NotifyExhausted, nlVars
  <2>7. ASSUME NEW o \in Obj, ~Dangling, NotifyAnnounce(o)
        PROVE  PortsUnlessDoubleFree'
    BY <2>7 DEF NotifyAnnounce, nlVars
  <2>8. ASSUME NEW h \in Nl, NEW u \in Update, NEW tgt \in Target, NEW o \in Obj, ~Dangling, NlUpdateFind(h, u, tgt, o)
        PROVE  PortsUnlessDoubleFree'
    BY <2>8 DEF NlUpdateFind
  <2>9. ASSUME NEW h \in Nl, ~Dangling, NlUpdateCommit(h)
        PROVE  PortsUnlessDoubleFree'
    BY <2>9 DEF NlUpdateCommit
  <2>10. ASSUME NEW h \in Nl, NEW tgt \in Target, NEW o \in Obj, ~Dangling, NlClear(h, tgt, o)
        PROVE  PortsUnlessDoubleFree'
    BY <2>10 DEF NlClear, SetDying
  <2>11. ASSUME NEW h \in Nl, ~Dangling, NlRelease(h)
        PROVE  PortsUnlessDoubleFree'
    <3>0. nlObj[h] \in Obj /\ mem[nlObj[h]] # "free"
      BY <2>11 DEF NlRelease, Dangling, Held
    <3>1. nlObj[h] \in hash \ Ported => bitmap' = bitmap
      BY <2>11, <3>0 DEF NlRelease, Release, ReleasePort, StructInv
    <3>2. bitmap' = bitmap \/ bitmap' = bitmap \ {port[nlObj[h]]}
      BY <2>11 DEF NlRelease, Release, ReleasePort
    <3>3. hash' = hash \ {nlObj[h]} /\ mem' = mem /\ port' = port
      BY <2>11 DEF NlRelease, Release
    <3>4. "double_free" \notin races' => "double_free" \notin races /\ nlObj[h] \in hash
      BY <2>11 DEF NlRelease, Release
    <3> QED
      BY <3>0, <3>1, <3>2, <3>3, <3>4
  <2>12. ASSUME NEW o \in Obj, ~Dangling, TimerCheck(o)
        PROVE  PortsUnlessDoubleFree'
    BY <2>12 DEF TimerCheck, nlVars
  <2>13. ASSUME NEW o \in Obj, ~Dangling, TimerExpire(o)
        PROVE  PortsUnlessDoubleFree'
    BY <2>13 DEF TimerExpire, SetDying, nlVars
  <2>14. ASSUME NEW o \in Obj, ~Dangling, TimerRelease(o)
        PROVE  PortsUnlessDoubleFree'
    <3>0. o \in Obj /\ mem[o] # "free"
      BY <2>14 DEF TimerRelease, Dangling
    <3>1. o \in hash \ Ported => bitmap' = bitmap
      BY <2>14, <3>0 DEF TimerRelease, Release, ReleasePort, StructInv
    <3>2. bitmap' = bitmap \/ bitmap' = bitmap \ {port[o]}
      BY <2>14 DEF TimerRelease, Release, ReleasePort
    <3>3. hash' = hash \ {o} /\ mem' = mem /\ port' = port
      BY <2>14 DEF TimerRelease, Release
    <3>4. "double_free" \notin races' => "double_free" \notin races /\ o \in hash
      BY <2>14 DEF TimerRelease, Release
    <3> QED
      BY <3>0, <3>1, <3>2, <3>3, <3>4
  <2>15. ASSUME NEW o \in Obj, ~Dangling, TimerReap(o)
        PROVE  PortsUnlessDoubleFree'
    BY <2>15 DEF TimerReap, nlVars
  <2>16. CASE UNCHANGED vars
    BY <2>16 DEF vars
  <2> QED
    BY <2>1, <2>2, <2>3, <2>4, <2>5, <2>6, <2>7, <2>8, <2>9, <2>10, <2>11, <2>12,
       <2>13, <2>14, <2>15, <2>16, Zenon
    DEF Next, PacketStep, NetlinkStep, TimerStep, Undefined
<1> QED
  BY <1>1, <1>2, TypeCorrect, StructCorrect, PTL DEF Spec

(* While nothing has overlapped.                                            *)

(* What isg_update_session commits when the overlap history stays empty: an *)
(* approval finds the session complete, linked and alive, and an approved   *)
(* session stays approved.                                                  *)
LEMMA CommitQuiet ==
  ASSUME TypeOK, NEW h \in Nl, NlUpdateCommit(h), races' = {},
         NEW o, o = nlObj[h]
  PROVE  /\ o \in Obj /\ races = {}
         /\ nlReq[h].type = "APPROVE" =>
              mem[o] = "ready" /\ o \in hash /\ "DYING" \notin flags[o]
         /\ nlReq[h].type # "APPROVE" => flags' = flags
         /\ "APPROVED" \in flags[o] => "APPROVED" \in flags'[o]
         /\ \A q \in Obj \ {o} : flags'[q] = flags[q]
         /\ "DYING" \in flags[o] => "DYING" \in flags'[o]
<1> DEFINE u == nlReq[h]
           f == UpdateFlags(flags[o], u.flags, "ASSIGN")
<1>1. o \in Obj /\ u \in Update /\ flags[o] \subseteq SessionFlags
  BY DEF NlUpdateCommit, TypeOK
<1>2. u.type # "APPROVE" => f = flags[o]
  BY <1>1 DEF Update, UpdateFlags
<1>3. /\ flags' = [flags EXCEPT ![o] = IF u.type = "APPROVE" THEN f \cup {"APPROVED"} ELSE f]
      /\ races' = races
           \cup (IF u.type = "APPROVE" /\ mem[o] # "ready" THEN {"early_request"} ELSE {})
           \cup (IF u.type = "APPROVE" /\ ("DYING" \in flags[o] \/ o \notin hash)
                 THEN {"late_approve"} ELSE {})
           \cup (IF "APPROVED" \in flags[o] \ f THEN {"reapprove"} ELSE {})
  BY ZenonT(20) DEF NlUpdateCommit
<1> HIDE DEF f, u
<1>4. /\ races = {}
      /\ u.type = "APPROVE" => mem[o] = "ready" /\ o \in hash /\ "DYING" \notin flags[o]
      /\ "APPROVED" \notin flags[o] \ f
  BY <1>3
<1>5. u.type # "APPROVE" => flags' = flags
  BY <1>1, <1>2, <1>3 DEF TypeOK
<1>6. "APPROVED" \in flags[o] => "APPROVED" \in flags'[o]
  BY <1>1, <1>3, <1>4 DEF TypeOK
<1>7. \A q \in Obj \ {o} : flags'[q] = flags[q]
  BY <1>1, <1>3 DEF TypeOK
<1> QED
  BY <1>1, <1>4, <1>5, <1>6, <1>7 DEF u

(* What isg_free_session does when the overlap history stays empty. *)
LEMMA ReleaseQuiet ==
  ASSUME TypeOK, NEW o \in Obj, Release(o), races' = {}
  PROVE  races = {} /\ o \in hash /\ mem[o] = "ready"
BY DEF Release

(* A step after which nothing has overlapped yet keeps Quiet. *)
LEMMA QuietStep ==
  ASSUME TypeOK, StructInv, QuietInv, [Next]_vars
  PROVE  QuietInv'
<1> SUFFICES ASSUME races' = {}, ~Dangling' PROVE Quiet'
  BY DEF QuietInv
<1> USE DEF Quiet, Ready
<1>1. ASSUME NEW c \in Cpu, NEW ip \in IP, ~Dangling, PktMiss(c, ip) PROVE Quiet'
  BY <1>1, Zenon DEF PktMiss, QuietInv, nlVars
<1>2. ASSUME NEW c \in Cpu, NEW o \in Obj, ~Dangling, PktCreate(c, o) PROVE Quiet'
  <2>1. races = {} /\ Quiet
    BY <1>2, Zenon DEF PktCreate, CreateSession, QuietInv
  <2> QED
    BY <1>2, <2>1 DEF PktCreate, CreateSession, TypeOK, StructInv, nlVars
<1>3. ASSUME NEW c \in Cpu, ~Dangling, PktGiveUp(c) PROVE Quiet'
  BY <1>3, Zenon DEF PktGiveUp, QuietInv, nlVars
<1>4. ASSUME NEW o \in Obj, ~Dangling, PktHit(o) PROVE Quiet'
  BY <1>4, Zenon DEF PktHit, Forward, QuietInv, nlVars
<1>5. ASSUME NEW o \in Obj, ~Dangling, NotifyPort(o) PROVE Quiet'
  BY <1>5 DEF NotifyPort, QuietInv, TypeOK, nlVars
<1>6. ASSUME NEW o \in Obj, ~Dangling, NotifyExhausted(o) PROVE Quiet'
  BY <1>6 DEF NotifyExhausted, QuietInv, TypeOK, nlVars
<1>7. ASSUME NEW o \in Obj, ~Dangling, NotifyAnnounce(o) PROVE Quiet'
  BY <1>7 DEF NotifyAnnounce, QuietInv, TypeOK, nlVars
<1>8. ASSUME NEW h \in Nl, NEW u \in Update, NEW tgt \in Target, NEW o \in Obj,
             ~Dangling, NlUpdateFind(h, u, tgt, o)
      PROVE  Quiet'
  BY <1>8 DEF NlUpdateFind, QuietInv, TypeOK
<1>9. ASSUME NEW h \in Nl, ~Dangling, NlUpdateCommit(h) PROVE Quiet'
  <2> DEFINE o == nlObj[h]
             approve == nlReq[h].type = "APPROVE"
  <2>1. /\ o \in Obj /\ races = {}
        /\ approve => mem[o] = "ready" /\ o \in hash /\ "DYING" \notin flags[o]
        /\ ~approve => flags' = flags
        /\ \A q \in Obj \ {o} : flags'[q] = flags[q]
        /\ "DYING" \in flags[o] => "DYING" \in flags'[o]
    BY <1>9, CommitQuiet, ZenonT(20)
  <2>2. Quiet
    BY <1>9, <2>1, Zenon DEF QuietInv
  <2>3. /\ UNCHANGED <<mem, hash, timerFree>>
        /\ lastEv' = IF approve THEN [lastEv EXCEPT ![o] = "START"] ELSE lastEv
        /\ nlPc' = [nlPc EXCEPT ![h] = "idle"]
        /\ nlObj' = [nlObj EXCEPT ![h] = NoObj]
    BY <1>9 DEF NlUpdateCommit, Idle
  <2> HIDE DEF o, approve
  <2>4. \A q \in Obj : mem'[q] \in {"raw", "ported"} =>
          q \in hash' /\ "APPROVED" \notin flags'[q] /\ lastEv'[q] = "NONE"
    BY <2>1, <2>2, <2>3 DEF TypeOK
  <2>5. \A q \in timerFree' : "DYING" \in flags'[q]
    BY <2>1, <2>2, <2>3 DEF TypeOK
  <2>6. \A k \in Nl : nlPc'[k] = "free" => "DYING" \in flags'[nlObj'[k]]
    BY <2>1, <2>2, <2>3 DEF TypeOK
  <2>7. \A q \in Ready' \ hash' : "DYING" \in flags'[q]
    BY <2>1, <2>2, <2>3 DEF TypeOK
  <2>8. \A q \in Obj : mem'[q] = "free" => lastEv'[q] = "NONE"
    BY <2>1, <2>2, <2>3 DEF TypeOK
  <2> QED
    BY <2>4, <2>5, <2>6, <2>7, <2>8
<1>10. ASSUME NEW h \in Nl, NEW tgt \in Target, NEW o \in Obj, ~Dangling, NlClear(h, tgt, o)
       PROVE  Quiet'
  BY <1>10 DEF NlClear, SetDying, QuietInv, TypeOK
<1>11. ASSUME NEW h \in Nl, ~Dangling, NlRelease(h) PROVE Quiet'
  <2> DEFINE o == nlObj[h]
  <2>1. o \in Obj /\ Release(o) /\ Idle(h) /\ timerFree' = timerFree
    BY <1>11 DEF NlRelease, TypeOK
  <2>2. races = {} /\ o \in hash /\ mem[o] = "ready"
    BY <2>1, ReleaseQuiet
  <2>3. Quiet /\ "DYING" \in flags[o]
    BY <1>11, <2>2 DEF QuietInv, NlRelease
  <2> HIDE DEF o
  <2> QED
    BY <2>1, <2>2, <2>3, ZenonT(20) DEF Release, EmitStop, Idle, TypeOK
<1>12. ASSUME NEW o \in Obj, ~Dangling, TimerCheck(o) PROVE Quiet'
  <2>1. races = {} /\ Quiet /\ mem[o] = "ready"
    BY <1>12 DEF TimerCheck, QuietInv, StructInv
  <2> QED
    BY <1>12, <2>1 DEF TimerCheck, TypeOK, nlVars
<1>13. ASSUME NEW o \in Obj, ~Dangling, TimerExpire(o) PROVE Quiet'
  BY <1>13 DEF TimerExpire, SetDying, QuietInv, TypeOK, nlVars
<1>14. ASSUME NEW o \in Obj, ~Dangling, TimerRelease(o) PROVE Quiet'
  <2>1. Release(o) /\ timerFree' = timerFree \ {o} /\ UNCHANGED nlVars /\ o \in timerFree
    BY <1>14 DEF TimerRelease
  <2>2. races = {} /\ o \in hash /\ mem[o] = "ready"
    BY <2>1, ReleaseQuiet
  <2>3. Quiet
    BY <1>14, <2>2 DEF QuietInv
  <2> QED
    BY <2>1, <2>2, <2>3, ZenonT(20) DEF Release, EmitStop, TypeOK, nlVars
<1>15. ASSUME NEW o \in Obj, ~Dangling, TimerReap(o) PROVE Quiet'
  <2>1. races = {} /\ Quiet
    BY <1>15, Zenon DEF TimerReap, QuietInv
  <2>2. \A h \in Nl : nlObj[h] # o
    BY <1>15 DEF TimerReap, Dangling, Held, nlVars, TypeOK
  <2> QED
    BY <1>15, <2>1, <2>2 DEF TimerReap, TypeOK, nlVars
<1>16. CASE UNCHANGED vars
  BY <1>16 DEF QuietInv, vars, Dangling, Held
<1> QED
  BY <1>1, <1>2, <1>3, <1>4, <1>5, <1>6, <1>7, <1>8, <1>9, <1>10, <1>11, <1>12,
     <1>13, <1>14, <1>15, <1>16, Zenon
  DEF Next, PacketStep, NetlinkStep, TimerStep, Undefined

(* Quiet holds in every reachable state without overlaps. *)
LEMMA QuietCorrect == Spec => []QuietInv
<1>1. Init => QuietInv
  BY DEF Init, QuietInv, Quiet, Ready
<1> QED
  BY <1>1, QuietStep, TypeCorrect, StructCorrect, PTL DEF Spec


(* A step keeps the event stream of a session that left the hash closed. *)
LEMMA StreamStep ==
  ASSUME TypeOK, StructInv, QuietInv, StreamClosed, [Next]_vars
  PROVE  StreamClosed'
<1> SUFFICES ASSUME races' = {}, NEW q \in Ready' \ hash'
             PROVE  lastEv'[q] \in {"STOP", "NONE"}
  BY DEF StreamClosed
<1> DEFINE Closed == lastEv'[q] \in {"STOP", "NONE"}
           Kept == /\ races = {} /\ lastEv' = lastEv
                   /\ Ready' \ hash' \subseteq Ready \ hash
<1>0. ASSUME Kept PROVE Closed
  BY <1>0 DEF StreamClosed
<1> USE DEF Ready
<1>r. ASSUME NEW o \in Obj, Release(o) PROVE Closed
  BY <1>r DEF Release, EmitStop, StreamClosed, TypeOK
<1>1. ASSUME NEW c \in Cpu, NEW ip \in IP, PktMiss(c, ip) PROVE Kept
  BY <1>1 DEF PktMiss
<1>2. ASSUME NEW c \in Cpu, NEW o \in Obj, PktCreate(c, o) PROVE Kept
  BY <1>2 DEF PktCreate, CreateSession, TypeOK
<1>3. ASSUME NEW c \in Cpu, PktGiveUp(c) PROVE Kept
  BY <1>3, Zenon DEF PktGiveUp
<1>4. ASSUME NEW o \in Obj, PktHit(o) PROVE Kept
  BY <1>4, Zenon DEF PktHit, Forward
<1>5. ASSUME NEW o \in Obj, NotifyPort(o) PROVE Kept
  BY <1>5 DEF NotifyPort, TypeOK
<1>6. ASSUME NEW o \in Obj, ~Dangling, NotifyExhausted(o) PROVE Closed
  BY <1>6 DEF NotifyExhausted, StreamClosed, QuietInv, Quiet, TypeOK
<1>7. ASSUME NEW o \in Obj, ~Dangling, NotifyAnnounce(o) PROVE Closed
  BY <1>7 DEF NotifyAnnounce, StreamClosed, QuietInv, Quiet, TypeOK
<1>8. ASSUME NEW h \in Nl, NEW u \in Update, NEW tgt \in Target, NEW o \in Obj,
             NlUpdateFind(h, u, tgt, o)
      PROVE  Kept
  BY <1>8, Zenon DEF NlUpdateFind
<1>9. ASSUME NEW h \in Nl, NlUpdateCommit(h) PROVE Closed
  <2> DEFINE o == nlObj[h]
             approve == nlReq[h].type = "APPROVE"
  <2>1. o \in Obj /\ races = {} /\ (approve => o \in hash)
    BY <1>9, CommitQuiet
  <2>2. /\ UNCHANGED <<mem, hash>>
        /\ lastEv' = IF approve THEN [lastEv EXCEPT ![o] = "START"] ELSE lastEv
    BY <1>9, Zenon DEF NlUpdateCommit
  <2> HIDE DEF o, approve
  <2> QED
    BY <2>1, <2>2 DEF StreamClosed, TypeOK
<1>10. ASSUME NEW h \in Nl, NEW tgt \in Target, NEW o \in Obj, NlClear(h, tgt, o)
       PROVE  Kept
  BY <1>10 DEF NlClear
<1>11. ASSUME NEW h \in Nl, NlRelease(h) PROVE Closed
  BY <1>11, <1>r, Zenon DEF NlRelease, TypeOK
<1>12. ASSUME NEW o \in Obj, ~Dangling, TimerCheck(o) PROVE Closed
  <2>1. races = {} /\ Quiet /\ mem[o] = "ready" /\ "DYING" \notin flags[o]
    BY <1>12, Zenon DEF TimerCheck, QuietInv, StructInv
  <2>2. o \in hash
    BY <2>1, Zenon DEF Quiet
  <2> QED
    BY <1>12, <2>1, <2>2 DEF TimerCheck, StreamClosed, TypeOK
<1>13. ASSUME NEW o \in Obj, TimerExpire(o) PROVE Kept
  BY <1>13, Zenon DEF TimerExpire
<1>14. ASSUME NEW o \in Obj, TimerRelease(o) PROVE Closed
  BY <1>14, <1>r, Zenon DEF TimerRelease
<1>15. ASSUME NEW o \in Obj, TimerReap(o) PROVE Closed
  BY <1>15 DEF TimerReap, StreamClosed, TypeOK
<1>16. CASE UNCHANGED vars
  BY <1>16, Zenon DEF vars, StreamClosed
<1> QED
  BY <1>0, <1>1, <1>2, <1>3, <1>4, <1>5, <1>6, <1>7, <1>8, <1>9, <1>10, <1>11,
     <1>12, <1>13, <1>14, <1>15, <1>16, Zenon
  DEF Next, PacketStep, NetlinkStep, TimerStep, Undefined

(* As long as no two operations have overlapped on one session, the last    *)
(* event about a session that left the hash is its STOP: every accounting   *)
(* record that was opened is closed.                                        *)
THEOREM StreamCorrect == Spec => []StreamClosed
<1>1. Init => StreamClosed
  BY DEF Init, StreamClosed, Ready
<1> QED
  BY <1>1, StreamStep, TypeCorrect, StructCorrect, QuietCorrect, PTL DEF Spec
=============================================================================
