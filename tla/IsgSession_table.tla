-------------------------- MODULE IsgSession_table --------------------------
(***************************************************************************)
(* What the hash table of sessions promises, for every set of objects,      *)
(* addresses and handlers: the many steps of packets, handlers and timers   *)
(* are single steps of SessionTable or none, until two of them overlap on   *)
(* one session; and the counters that isg_stat reports agree with the       *)
(* sessions there are.                                                      *)
(***************************************************************************)
EXTENDS IsgSession_proofs, FiniteSetTheorems

-----------------------------------------------------------------------------
(* IsgSession implements SessionTable.                                      *)

TableStep == [Table!TableNext]_(Table!tableVars)

(* The mapping of the bitmap, as long as nothing has overlapped. *)
LEMMA Mapped ==
  ASSUME ~Broken, ~Broken'
  PROVE  /\ Broken' = Broken
         /\ (IF Broken THEN {} ELSE bitmap) = bitmap
         /\ (IF Broken THEN {} ELSE bitmap)' = bitmap'
BY DEF Broken

(* A step that changes neither a port nor what is seen of a session. *)
LEMMA NoTableStep ==
  ASSUME ~Broken, ~Broken', bitmap' = bitmap, \A o \in Obj : Seen(o)' = Seen(o)
  PROVE  TableStep
<1>1. [o \in Obj |-> Seen(o)]' = [o \in Obj |-> Seen(o)]
  OBVIOUS
<1>2. Broken' = Broken
  BY DEF Broken
<1> QED
  BY <1>1, <1>2 DEF TableStep, Table!tableVars

(* What is seen of a session depends on five fields. *)
LEMMA SeenSame ==
  ASSUME ~Broken, ~Broken', NEW o \in Obj,
         ipaddr'[o] = ipaddr[o], port'[o] = port[o],
         "APPROVED" \in flags'[o] <=> "APPROVED" \in flags[o],
         o \in Ported' <=> o \in Ported
  PROVE  Seen(o)' = Seen(o)
<1>1. ("APPROVED" \in flags[o])' = ("APPROVED" \in flags[o])
  OBVIOUS
<1> QED
  BY <1>1 DEF Seen

(* Nothing repairs an overlap. *)
LEMMA BrokenStays == ASSUME TypeOK, Broken, [Next]_vars PROVE Broken'
<1>1. CASE Dangling
  <2>1. UNCHANGED vars
    BY <1>1 DEF Next, Undefined
  <2> QED
    BY <2>1, <1>1 DEF Broken, Dangling, Held, vars
<1>2. CASE races # {}
  <2>1. races \subseteq races'
    BY Zenon DEF Next, PacketStep, NetlinkStep, TimerStep, Undefined, vars, PktMiss, PktCreate,
       CreateSession, PktGiveUp, PktHit, Forward, NotifyPort, NotifyExhausted, NotifyAnnounce,
       NlUpdateFind, NlUpdateCommit, NlClear, NlRelease, Release, TimerCheck, TimerExpire,
       TimerRelease, TimerReap
  <2> QED
    BY <1>2, <2>1 DEF Broken
<1> QED
  BY <1>1, <1>2 DEF Broken

(* isg_free_session ends the session it unlinks. *)
LEMMA ReleaseEnds ==
  ASSUME TypeOK, StructInv, NEW o \in Obj, Release(o), ~Broken, ~Broken'
  PROVE  TableStep
<1>1. o \in hash /\ mem[o] = "ready" /\ races' = {}
  BY ReleaseQuiet DEF Broken
<1>2. o \in Ported /\ ipaddr[o] \in IP
  BY <1>1 DEF Ported, StructInv
<1>3. Seen(o).ip = ipaddr[o] /\ Seen(o).port = port[o]
  BY <1>2 DEF Seen
<1>4. Seen(o) # Table!Absent
  BY <1>2, <1>3, SessionAssumption DEF Table!Absent
<1>5. o \notin Ported'
  BY <1>1 DEF Release, Ported
<1>6. Seen(o)' = Table!Absent
  BY <1>5 DEF Seen, Table!Absent
<1>7. ASSUME NEW q \in Obj, q # o PROVE Seen(q)' = Seen(q)
  <2>1. q \in Ported' <=> q \in Ported
    BY <1>7 DEF Release, Ported
  <2> QED
    BY <2>1, SeenSame DEF Release, TypeOK
<1>8. [q \in Obj |-> Seen(q)]' = [[q \in Obj |-> Seen(q)] EXCEPT ![o] = Table!Absent]
  BY <1>6, <1>7, Zenon
<1>9. bitmap' = IF Seen(o).port # 0 THEN bitmap \ {Seen(o).port} ELSE bitmap
  BY <1>3 DEF Release, ReleasePort
<1>10. o \in Table!Linked
  BY <1>4 DEF Table!Linked
<1>11. [q \in Obj |-> Seen(q)][o] = Seen(o)
  OBVIOUS
<1>12. Table!End(o)
  BY <1>8, <1>9, <1>10, <1>11, Mapped DEF Table!End
<1> QED
  BY <1>12 DEF TableStep, Table!TableNext

(* The packet that gives a new session its port starts it. *)
LEMMA NotifyStarts ==
  ASSUME TypeOK, StructInv, Quiet, OneSessionPerIp, NEW o \in Obj, NotifyPort(o),
         ~Broken, ~Broken'
  PROVE  TableStep
<1>1. mem[o] = "raw" /\ o \in hash /\ ipaddr[o] \in IP /\ "APPROVED" \notin flags[o]
  BY DEF NotifyPort, Quiet, StructInv
<1>2. PICK p \in Port \ bitmap : (\A q \in Port \ bitmap : p <= q) /\ TakePort(o, p)
  BY DEF NotifyPort
<1>3. o \notin Ported /\ o \in Ported'
  BY <1>1 DEF NotifyPort, Ported, TypeOK
<1>4. Seen(o) = Table!Absent
  BY <1>3 DEF Seen, Table!Absent
<1>5. Seen(o)' = [ip |-> ipaddr[o], port |-> p, approved |-> FALSE]
  <2>1. ("APPROVED" \in flags[o])' = FALSE
    BY <1>1 DEF NotifyPort
  <2> QED
    BY <1>2, <1>3, <2>1, Zenon DEF Seen, NotifyPort, TakePort, TypeOK
<1>6. ASSUME NEW q \in Obj, q # o PROVE Seen(q)' = Seen(q)
  <2>1. q \in Ported' <=> q \in Ported
    BY <1>6 DEF NotifyPort, Ported, TypeOK
  <2>2. ipaddr'[q] = ipaddr[q] /\ port'[q] = port[q] /\ flags'[q] = flags[q]
    BY <1>2, <1>6 DEF NotifyPort, TakePort, TypeOK
  <2> QED
    BY <2>1, <2>2, SeenSame
<1>7. [q \in Obj |-> Seen(q)]' =
        [[q \in Obj |-> Seen(q)] EXCEPT ![o] = [ip |-> ipaddr[o], port |-> p, approved |-> FALSE]]
  BY <1>5, <1>6, Zenon
<1>8. o \notin Table!Linked
  BY <1>4 DEF Table!Linked
<1>9. Table!SessionOf(ipaddr[o]) = {}
  <2> SUFFICES ASSUME NEW q \in Obj, Seen(q) # Table!Absent, Seen(q).ip = ipaddr[o] PROVE FALSE
    BY DEF Table!SessionOf, Table!Linked
  <2>1. q \in Ported
    BY DEF Seen, Table!Absent
  <2>2. ipaddr[q] = ipaddr[o] /\ q \in hash
    BY <2>1 DEF Seen, Ported
  <2> QED
    BY <1>1, <1>3, <2>1, <2>2 DEF OneSessionPerIp
<1>10. bitmap' = bitmap \cup {p}
  BY <1>2 DEF TakePort
<1>11. Table!Start(o, ipaddr[o])
  BY <1>2, <1>7, <1>8, <1>9, <1>10, Mapped, Zenon DEF Table!Start, Table!Port, Port
<1> QED
  BY <1>1, <1>11 DEF TableStep, Table!TableNext

(* A request that commits without an overlap approves its session, or does  *)
(* nothing that is seen.                                                    *)
LEMMA CommitApproves ==
  ASSUME TypeOK, StructInv, NEW h \in Nl, NlUpdateCommit(h), ~Broken, ~Broken'
  PROVE  TableStep
<1>0. PICK o \in Obj : o = nlObj[h]
  BY DEF TypeOK, NlUpdateCommit
<1>1. o = nlObj[h] /\ nlReq[h] \in Update /\ races' = {}
  BY <1>0, Zenon DEF TypeOK, NlUpdateCommit, Broken
<1>2. \A q \in Obj \ {o} : flags'[q] = flags[q]
  BY <1>1 DEF NlUpdateCommit, TypeOK
<1>3. hash' = hash /\ mem' = mem /\ ipaddr' = ipaddr /\ port' = port /\ bitmap' = bitmap
  BY DEF NlUpdateCommit
<1>4. Ported' = Ported
  BY <1>3 DEF Ported
<1>5. ASSUME NEW q \in Obj, q # o PROVE Seen(q)' = Seen(q)
  BY <1>2, <1>3, <1>4, <1>5, SeenSame
<1>6. CASE nlReq[h].type = "APPROVE"
  <2>1. o \in hash /\ mem[o] = "ready" /\ "APPROVED" \in flags'[o]
    BY <1>1, <1>6, Zenon DEF NlUpdateCommit, TypeOK
  <2>2. o \in Ported /\ ipaddr[o] \in IP
    BY <2>1 DEF Ported, StructInv
  <2>3. Seen(o) = [ip |-> ipaddr[o], port |-> port[o], approved |-> "APPROVED" \in flags[o]]
    BY <2>2 DEF Seen
  <2>4. Seen(o)' = [ip |-> ipaddr[o], port |-> port[o], approved |-> TRUE]
    <3>1. ("APPROVED" \in flags[o])' = TRUE
      BY <2>1
    <3>2. o \in Ported'
      BY <1>4, <2>2
    <3>3. Seen(o)' = [ip |-> ipaddr'[o], port |-> port'[o], approved |-> ("APPROVED" \in flags[o])']
      BY <3>2 DEF Seen
    <3> QED
      BY <1>3, <3>1, <3>3, Zenon
  <2>5. Seen(o) # Table!Absent
    BY <2>2, <2>3, SessionAssumption DEF Table!Absent
  <2>6. Seen(o).ip = ipaddr[o] /\ Seen(o).port = port[o] /\ [q \in Obj |-> Seen(q)][o] = Seen(o)
    BY <2>3
  <2>7. [q \in Obj |-> Seen(q)]' =
          [[q \in Obj |-> Seen(q)] EXCEPT ![o] = [ip |-> @.ip, port |-> @.port, approved |-> TRUE]]
    BY <1>5, <2>4, <2>6, Zenon
  <2>8. o \in Table!Linked
    BY <1>1, <2>5 DEF Table!Linked
  <2>9. Table!Approve(o)
    BY <1>3, <2>7, <2>8, Mapped DEF Table!Approve
  <2> QED
    BY <1>1, <2>9 DEF TableStep, Table!TableNext
<1>7. CASE nlReq[h].type # "APPROVE"
  <2>1. flags' = flags
    <3>1. nlReq[h].flags = {}
      BY <1>1, <1>7 DEF NlUpdateCommit, TypeOK, Update
    <3>2. UpdateFlags(flags[o], nlReq[h].flags, "ASSIGN") = flags[o]
      BY <3>1 DEF UpdateFlags
    <3>3. flags' = [flags EXCEPT ![o] = flags[o]]
      BY <1>1, <1>7, <3>2, Zenon DEF NlUpdateCommit
    <3>4. flags \in [Obj -> SUBSET SessionFlags]
      BY DEF TypeOK
    <3> QED
      BY <3>3, <3>4
  <2>2. \A q \in Obj : Seen(q)' = Seen(q)
    BY <1>3, <1>4, <2>1, SeenSame
  <2> QED
    BY <1>3, <2>2, NoTableStep
<1> QED
  BY <1>6, <1>7

(* Every step is a step of the table or none. *)
LEMMA StepOfTable ==
  ASSUME TypeOK, StructInv, QuietInv, OneSessionPerIp, [Next]_vars
  PROVE  TableStep
<1>1. CASE Broken
  <2>1. Broken'
    BY <1>1, BrokenStays
  <2>2. Broken' = Broken /\ (\A o \in Obj : Seen(o)' = Seen(o))
        /\ (IF Broken THEN {} ELSE bitmap)' = (IF Broken THEN {} ELSE bitmap)
    BY <1>1, <2>1 DEF Seen
  <2>3. [o \in Obj |-> Seen(o)]' = [o \in Obj |-> Seen(o)]
    BY <2>2
  <2> QED
    BY <2>2, <2>3 DEF TableStep, Table!tableVars
<1>2. CASE ~Broken /\ Broken'
  <2>1. Broken' = TRUE /\ (IF Broken THEN {} ELSE bitmap)' = {}
    BY <1>2
  <2>2. \A o \in Obj : Seen(o)' = Table!Absent
    BY <1>2 DEF Seen, Table!Absent
  <2>3. [o \in Obj |-> Seen(o)]' = [o \in Obj |-> Table!Absent]
    BY <2>2
  <2>4. Table!Overlap
    BY <2>1, <2>3 DEF Table!Overlap
  <2> QED
    BY <2>4 DEF TableStep, Table!TableNext
<1>3. CASE ~Broken /\ ~Broken'
  <2> USE <1>3
  <2>1. Quiet /\ ~Dangling
    BY DEF QuietInv, Broken
  <2> DEFINE Unseen == /\ bitmap' = bitmap /\ ipaddr' = ipaddr /\ port' = port
                       /\ \A o \in Obj : "APPROVED" \in flags'[o] <=> "APPROVED" \in flags[o]
                       /\ \A o \in Obj : o \in Ported' <=> o \in Ported
  <2>2. ASSUME Unseen PROVE TableStep
    BY <2>2, SeenSame, NoTableStep
  <2>3. ASSUME NEW c \in Cpu, NEW ip \in IP, PktMiss(c, ip) PROVE TableStep
    BY <2>2, <2>3 DEF PktMiss, Ported
  <2>4. ASSUME NEW c \in Cpu, NEW o \in Obj, PktCreate(c, o) PROVE TableStep
    <3>1. o \notin Ported /\ o \notin Ported'
      BY <2>4 DEF PktCreate, CreateSession, Ported, TypeOK
    <3>2. \A q \in Obj : Seen(q)' = Seen(q)
      <4> TAKE q \in Obj
      <4>1. CASE q = o
        BY <3>1, <4>1 DEF Seen
      <4>2. CASE q # o
        <5>1. q \in Ported' <=> q \in Ported
          BY <2>4, <4>2 DEF PktCreate, CreateSession, Ported, TypeOK
        <5> QED
          BY <2>4, <4>2, <5>1, SeenSame DEF PktCreate, CreateSession, TypeOK
      <4> QED
        BY <4>1, <4>2
    <3> QED
      BY <2>4, <3>2, NoTableStep DEF PktCreate, CreateSession
  <2>5. ASSUME NEW c \in Cpu, PktGiveUp(c) PROVE TableStep
    BY <2>2, <2>5 DEF PktGiveUp, Ported
  <2>6. ASSUME NEW o \in Obj, PktHit(o) PROVE TableStep
    BY <2>2, <2>6 DEF PktHit, Forward, Ported
  <2>7. ASSUME NEW o \in Obj, NotifyPort(o) PROVE TableStep
    BY <2>1, <2>7, NotifyStarts
  <2>8. ASSUME NEW o \in Obj, NotifyExhausted(o) PROVE TableStep
    BY <2>2, <2>8 DEF NotifyExhausted, Ported, TypeOK
  <2>9. ASSUME NEW o \in Obj, NotifyAnnounce(o) PROVE TableStep
    BY <2>2, <2>9 DEF NotifyAnnounce, Ported, TypeOK
  <2>10. ASSUME NEW h \in Nl, NEW u \in Update, NEW tgt \in Target, NEW o \in Obj,
                NlUpdateFind(h, u, tgt, o)
         PROVE  TableStep
    BY <2>2, <2>10 DEF NlUpdateFind, Ported
  <2>11. ASSUME NEW h \in Nl, NlUpdateCommit(h) PROVE TableStep
    BY <2>11, CommitApproves
  <2>12. ASSUME NEW h \in Nl, NEW tgt \in Target, NEW o \in Obj, NlClear(h, tgt, o)
         PROVE  TableStep
    BY <2>2, <2>12 DEF NlClear, SetDying, Ported, TypeOK
  <2>13. ASSUME NEW h \in Nl, NlRelease(h) PROVE TableStep
    BY <2>13, ReleaseEnds DEF NlRelease, TypeOK
  <2>14. ASSUME NEW o \in Obj, TimerCheck(o) PROVE TableStep
    BY <2>2, <2>14, Zenon DEF TimerCheck, Ported
  <2>15. ASSUME NEW o \in Obj, TimerExpire(o) PROVE TableStep
    BY <2>2, <2>15 DEF TimerExpire, SetDying, Ported, TypeOK
  <2>16. ASSUME NEW o \in Obj, TimerRelease(o) PROVE TableStep
    BY <2>16, ReleaseEnds DEF TimerRelease
  <2>17. ASSUME NEW o \in Obj, TimerReap(o) PROVE TableStep
    <3>1. o \notin Ported /\ o \notin Ported'
      BY <2>17 DEF TimerReap, Ported, Broken, Dangling, TypeOK
    <3>2. \A q \in Obj : Seen(q)' = Seen(q)
      <4> TAKE q \in Obj
      <4>1. CASE q = o
        BY <3>1, <4>1, Zenon DEF Seen
      <4>2. CASE q # o
        <5>1. q \in Ported' <=> q \in Ported
          BY <2>17, <4>2 DEF TimerReap, Ported, TypeOK
        <5> QED
          BY <2>17, <4>2, <5>1, SeenSame DEF TimerReap, TypeOK
      <4> QED
        BY <4>1, <4>2
    <3> QED
      BY <2>17, <3>2, NoTableStep DEF TimerReap
  <2>18. CASE UNCHANGED vars
    BY <2>2, <2>18 DEF vars, Ported
  <2> QED
    BY <2>3, <2>4, <2>5, <2>6, <2>7, <2>8, <2>9, <2>10, <2>11, <2>12, <2>13, <2>14,
       <2>15, <2>16, <2>17, <2>18, SMTT(20)
    DEF Next, PacketStep, NetlinkStep, TimerStep, Undefined
<1> QED
  BY <1>1, <1>2, <1>3

(* The session life cycle of the module implements the table its clients    *)
(* are written against: for any number of sessions, cpus and handlers, a    *)
(* creation, an approval and an end each take effect in one step, with      *)
(* addresses and ports of their own, until two operations overlap on one    *)
(* session.                                                                 *)
THEOREM TableImplemented == Spec => ImplementsTable
<1>1. Init => Table!TableInit
  <2> SUFFICES ASSUME Init PROVE Table!TableInit
    OBVIOUS
  <2>1. races = {} /\ hash = {} /\ bitmap = {} /\ timerFree = {} /\ \A h \in Nl : nlObj[h] = NoObj
    BY DEF Init
  <2>2. ~Broken
    BY <2>1, SessionAssumption DEF Broken, Dangling, Held
  <2>3. \A o \in Obj : Seen(o) = Table!Absent
    BY <2>1 DEF Seen, Ported, Table!Absent
  <2>4. Broken = FALSE /\ (IF Broken THEN {} ELSE bitmap) = {}
    BY <2>1, <2>2
  <2>5. [o \in Obj |-> Seen(o)] = [o \in Obj |-> Table!Absent]
    BY <2>3
  <2> QED
    BY <2>4, <2>5 DEF Table!TableInit
<1>2. TypeOK /\ StructInv /\ QuietInv /\ OneSessionPerIp /\ [Next]_vars
        => [Table!TableNext]_(Table!tableVars)
  BY StepOfTable DEF TableStep
<1> QED
  BY <1>1, <1>2, TypeCorrect, StructCorrect, QuietCorrect, HashUnique, PTL
  DEF Spec, ImplementsTable, Table!TableSpec

-----------------------------------------------------------------------------
(* The counters.                                                            *)

(* A finite set counted anew after one object joined or left it. *)
LEMMA CardStep ==
  ASSUME NEW S, NEW T, NEW o, IsFiniteSet(S), S \ {o} = T \ {o}
  PROVE  /\ IsFiniteSet(T)
         /\ Cardinality(T) = Cardinality(S) + Bit(o \in T) - Bit(o \in S)
<1>1. CASE o \in T
  <2>1. T = S \cup {o}
    BY <1>1
  <2> QED
    BY <1>1, <2>1, FS_AddElement, FS_CardinalityType DEF Bit
<1>2. CASE o \notin T
  <2>1. T = S \ {o}
    BY <1>2
  <2> QED
    BY <1>2, <2>1, FS_RemoveElement, FS_CardinalityType DEF Bit
<1> QED
  BY <1>1, <1>2

(* The sets that are counted are finite. *)
LEMMA ObjFinite == ASSUME NEW S, S \subseteq Obj PROVE IsFiniteSet(S)
BY SessionAssumption, FS_Subset

(* The sessions in memory. *)
LEMMA ReadyFinite == IsFiniteSet(Ready)
BY ObjFinite DEF Ready

(* The sessions without accounting. *)
LEMMA UnaccountedFinite == IsFiniteSet(Unaccounted)
BY ObjFinite DEF Unaccounted

(* isg_free_session moves a unit from one counter to another. *)
LEMMA ReleaseTotal ==
  ASSUME TypeOK, NEW o \in Obj, Release(o)
  PROVE  /\ cnt'.approved + cnt'.unapproved + cnt'.dying
              = cnt.approved + cnt.unapproved + cnt.dying
         /\ cnt'.noaccounting = cnt.noaccounting
         /\ Ready' = Ready /\ Unaccounted' = Unaccounted
<1>1. Bit("APPROVED" \in flags[o]) \in Int
  BY BitType
<1> QED
  BY <1>1 DEF TypeOK, Counters, Release, CountFree, Count, Ready, Unaccounted

(* Both are zero when the module is loaded. *)
LEMMA TotalsInit == Init => TotalConserved /\ NoAcctExact
<1> SUFFICES ASSUME Init PROVE TotalConserved /\ NoAcctExact
  OBVIOUS
<1>1. Ready = {} /\ Unaccounted = {}
  BY DEF Init, Ready, Unaccounted
<1> QED
  BY <1>1, FS_EmptySet DEF Init, TotalConserved, NoAcctExact

(* Whatever overlaps, a step keeps the sum of the three life-cycle counters *)
(* at the number of sessions in memory and the no-accounting counter at the *)
(* number of sessions with that flag.                                       *)
LEMMA TotalsStep ==
  ASSUME TypeOK, StructInv, TotalConserved, NoAcctExact, [Next]_vars
  PROVE  TotalConserved' /\ NoAcctExact'
<1> USE DEF TotalConserved, NoAcctExact
<1> DEFINE Same == /\ cnt' = cnt /\ Ready' = Ready /\ Unaccounted' = Unaccounted
<1>0. Same => TotalConserved' /\ NoAcctExact'
  OBVIOUS
<1>1. ASSUME NEW c \in Cpu, NEW ip \in IP, PktMiss(c, ip) PROVE Same
  BY <1>1 DEF PktMiss, Ready, Unaccounted
<1>2. ASSUME NEW c \in Cpu, NEW o \in Obj, PktCreate(c, o) PROVE Same
  BY <1>2 DEF PktCreate, CreateSession, Ready, Unaccounted, TypeOK
<1>3. ASSUME NEW c \in Cpu, PktGiveUp(c) PROVE Same
  BY <1>3, ZenonT(20) DEF PktGiveUp, Ready, Unaccounted
<1>4. ASSUME NEW o \in Obj, PktHit(o) PROVE Same
  BY <1>4 DEF PktHit, Forward, Ready, Unaccounted
<1>5. ASSUME NEW o \in Obj, NotifyPort(o) PROVE Same
  BY <1>5 DEF NotifyPort, Ready, Unaccounted, TypeOK
<1>6. ASSUME NEW o \in Obj, NotifyExhausted(o) PROVE TotalConserved' /\ NoAcctExact'
  <2>1. Ready \ {o} = Ready' \ {o} /\ o \notin Ready /\ o \in Ready'
    BY <1>6 DEF NotifyExhausted, Ready, TypeOK
  <2>2. Unaccounted' = Unaccounted
    BY <1>6 DEF NotifyExhausted, Unaccounted, TypeOK
  <2>3. Cardinality(Ready') = Cardinality(Ready) + 1
    BY <2>1, CardStep, ReadyFinite, FS_CardinalityType DEF Bit
  <2> QED
    BY <1>6, <2>2, <2>3 DEF NotifyExhausted, CountExhausted, Count, Counters, TypeOK
<1>7. ASSUME NEW o \in Obj, NotifyAnnounce(o) PROVE TotalConserved' /\ NoAcctExact'
  <2>1. Ready \ {o} = Ready' \ {o} /\ o \notin Ready /\ o \in Ready'
    BY <1>7 DEF NotifyAnnounce, Ready, TypeOK
  <2>2. Unaccounted' = Unaccounted
    BY <1>7, Zenon DEF NotifyAnnounce, Unaccounted
  <2>3. Cardinality(Ready') = Cardinality(Ready) + 1
    BY <2>1, CardStep, ReadyFinite, FS_CardinalityType DEF Bit
  <2> QED
    BY <1>7, <2>2, <2>3 DEF NotifyAnnounce, Count, Counters, TypeOK
<1>8. ASSUME NEW h \in Nl, NEW u \in Update, NEW tgt \in Target, NEW o \in Obj,
             NlUpdateFind(h, u, tgt, o)
      PROVE  Same
  BY <1>8 DEF NlUpdateFind, Ready, Unaccounted
<1>9. ASSUME NEW h \in Nl, NlUpdateCommit(h) PROVE TotalConserved' /\ NoAcctExact'
  <2> DEFINE o == nlObj[h]
             f == UpdateFlags(flags[o], nlReq[h].flags, "ASSIGN")
             fresh == Bit(nlReq[h].type = "APPROVE" /\ "APPROVED" \notin f)
             n == Bit("NO_ACCT" \in f) - Bit("NO_ACCT" \in flags[o])
  <2>1. o \in Obj
    BY <1>9 DEF NlUpdateCommit, TypeOK
  <2>2. Count(fresh, -fresh, 0, n)
    BY <1>9, Zenon DEF NlUpdateCommit
  <2>3. fresh \in Int /\ n \in Int
    <3>1. fresh \in {0, 1}
      BY BitType
    <3>2. Bit("NO_ACCT" \in f) \in {0, 1}
      BY BitType
    <3>3. Bit("NO_ACCT" \in flags[o]) \in {0, 1}
      BY BitType
    <3> HIDE DEF f, o, fresh
    <3> QED
      BY <3>1, <3>2, <3>3
  <2>4. Ready' = Ready
    BY <1>9, Zenon DEF NlUpdateCommit, Ready
  <2>5. flags' = [flags EXCEPT ![o] = IF nlReq[h].type = "APPROVE"
                                       THEN f \cup {"APPROVED"} ELSE f]
    BY <1>9, Zenon DEF NlUpdateCommit
  <2>6. /\ Unaccounted \ {o} = Unaccounted' \ {o}
        /\ o \in Unaccounted' <=> "NO_ACCT" \in f
        /\ o \in Unaccounted <=> "NO_ACCT" \in flags[o]
    <3> HIDE DEF f
    <3> QED
      BY <2>1, <2>5 DEF Unaccounted, TypeOK
  <2>7. Cardinality(Unaccounted') = Cardinality(Unaccounted) + n
    BY <2>6, CardStep, UnaccountedFinite, FS_CardinalityType DEF Bit
  <2> HIDE DEF fresh, n
  <2> QED
    BY <2>2, <2>3, <2>4, <2>7, SMTT(20) DEF Count, Counters, TypeOK
<1>10. ASSUME NEW h \in Nl, NEW tgt \in Target, NEW o \in Obj, NlClear(h, tgt, o)
       PROVE  Same
  BY <1>10 DEF NlClear, SetDying, Ready, Unaccounted, TypeOK
<1>11. ASSUME NEW h \in Nl, NlRelease(h) PROVE TotalConserved' /\ NoAcctExact'
  <2>1. nlObj[h] \in Obj /\ Release(nlObj[h])
    BY <1>11 DEF NlRelease, TypeOK
  <2> QED
    BY <2>1, ReleaseTotal
<1>12. ASSUME NEW o \in Obj, TimerCheck(o) PROVE Same
  BY <1>12 DEF TimerCheck, Ready, Unaccounted
<1>13. ASSUME NEW o \in Obj, TimerExpire(o) PROVE Same
  BY <1>13 DEF TimerExpire, SetDying, Ready, Unaccounted, TypeOK
<1>14. ASSUME NEW o \in Obj, TimerRelease(o) PROVE TotalConserved' /\ NoAcctExact'
  BY <1>14, ReleaseTotal DEF TimerRelease
<1>15. ASSUME NEW o \in Obj, TimerReap(o) PROVE TotalConserved' /\ NoAcctExact'
  <2> DEFINE n == Bit("NO_ACCT" \in flags[o])
  <2>1. Ready \ {o} = Ready' \ {o} /\ o \in Ready /\ o \notin Ready'
    BY <1>15 DEF TimerReap, Ready, TypeOK, StructInv
  <2>2. /\ Unaccounted \ {o} = Unaccounted' \ {o}
        /\ o \notin Unaccounted'
        /\ o \in Unaccounted <=> "NO_ACCT" \in flags[o]
    BY <1>15 DEF TimerReap, Unaccounted, TypeOK
  <2>3. Cardinality(Ready') = Cardinality(Ready) - 1
    BY <2>1, CardStep, ReadyFinite, FS_CardinalityType DEF Bit
  <2>4. Cardinality(Unaccounted') = Cardinality(Unaccounted) - n
    BY <2>2, CardStep, UnaccountedFinite, FS_CardinalityType DEF Bit
  <2>5. n \in Int /\ Count(0, 0, -1, -n)
    BY <1>15, BitType DEF TimerReap, CountReap
  <2> HIDE DEF n
  <2> QED
    BY <2>3, <2>4, <2>5, SMTT(20) DEF Count, Counters, TypeOK
<1>16. CASE UNCHANGED vars
  BY <1>16, Zenon DEF vars, Ready, Unaccounted
<1> QED
  BY <1>0, <1>1, <1>2, <1>3, <1>4, <1>5, <1>6, <1>7, <1>8, <1>9, <1>10, <1>11, <1>12,
     <1>13, <1>14, <1>15, <1>16, SMTT(20)
  DEF Next, PacketStep, NetlinkStep, TimerStep, Undefined

(* The total the operator reads off the counters is the number of sessions  *)
(* in memory, in every reachable state.                                     *)
THEOREM TotalCorrect == Spec => []TotalConserved
<1>1. Init => TotalConserved /\ NoAcctExact
  BY TotalsInit
<1> QED
  BY <1>1, TotalsStep, TypeCorrect, StructCorrect, PTL DEF Spec

(* The no-accounting counter never drifts from the flags of the sessions. *)
THEOREM NoAcctCorrect == Spec => []NoAcctExact
<1>1. Init => TotalConserved /\ NoAcctExact
  BY TotalsInit
<1> QED
  BY <1>1, TotalsStep, TypeCorrect, StructCorrect, PTL DEF Spec

-----------------------------------------------------------------------------
(* The sessions the three life-cycle counters count. *)
ApprovedSet == {o \in hash : "APPROVED" \in flags[o]}
UnapprovedSet == {o \in Ready \cap hash : "APPROVED" \notin flags[o]}
DyingSet == Ready \ hash

Exact ==
  /\ cnt.approved = Cardinality(ApprovedSet)
  /\ cnt.unapproved = Cardinality(UnapprovedSet)
  /\ cnt.dying = Cardinality(DyingSet)

(* A step that concerns one session and counts what it did to it. *)
LEMMA ExactOne ==
  ASSUME TypeOK, Exact, NEW o \in Obj, NEW n \in Int,
         ApprovedSet \ {o} = ApprovedSet' \ {o},
         UnapprovedSet \ {o} = UnapprovedSet' \ {o},
         DyingSet \ {o} = DyingSet' \ {o},
         Count(Bit(o \in ApprovedSet') - Bit(o \in ApprovedSet),
               Bit(o \in UnapprovedSet') - Bit(o \in UnapprovedSet),
               Bit(o \in DyingSet') - Bit(o \in DyingSet), n)
  PROVE  Exact'
<1>1. ApprovedSet \subseteq Obj /\ UnapprovedSet \subseteq Obj /\ DyingSet \subseteq Obj
  BY Zenon DEF ApprovedSet, UnapprovedSet, DyingSet, Ready, TypeOK
<1>2. IsFiniteSet(ApprovedSet) /\ IsFiniteSet(UnapprovedSet) /\ IsFiniteSet(DyingSet)
  BY <1>1, ObjFinite
<1>3. Cardinality(ApprovedSet') =
        Cardinality(ApprovedSet) + Bit(o \in ApprovedSet') - Bit(o \in ApprovedSet)
  BY <1>2, CardStep
<1>4. Cardinality(UnapprovedSet') =
        Cardinality(UnapprovedSet) + Bit(o \in UnapprovedSet') - Bit(o \in UnapprovedSet)
  BY <1>2, CardStep
<1>5. Cardinality(DyingSet') =
        Cardinality(DyingSet) + Bit(o \in DyingSet') - Bit(o \in DyingSet)
  BY <1>2, CardStep
<1>6. /\ cnt'.approved = cnt.approved + (Bit(o \in ApprovedSet') - Bit(o \in ApprovedSet))
      /\ cnt'.unapproved = cnt.unapproved + (Bit(o \in UnapprovedSet') - Bit(o \in UnapprovedSet))
      /\ cnt'.dying = cnt.dying + (Bit(o \in DyingSet') - Bit(o \in DyingSet))
  BY DEF Count
<1>7. /\ Cardinality(ApprovedSet) \in Nat /\ Cardinality(UnapprovedSet) \in Nat
      /\ Cardinality(DyingSet) \in Nat
  BY <1>2, FS_CardinalityType
<1>8. /\ Bit(o \in ApprovedSet') \in Int /\ Bit(o \in ApprovedSet) \in Int
      /\ Bit(o \in UnapprovedSet') \in Int /\ Bit(o \in UnapprovedSet) \in Int
      /\ Bit(o \in DyingSet') \in Int /\ Bit(o \in DyingSet) \in Int
  BY BitType
<1> QED
  BY <1>3, <1>4, <1>5, <1>6, <1>7, <1>8 DEF Exact

(* isg_free_session counts the session it unlinks. *)
LEMMA ExactRelease ==
  ASSUME TypeOK, Exact, NEW o \in Obj, Release(o), races' = {}
  PROVE  Exact'
<1>1. o \in hash /\ mem[o] = "ready"
  BY ReleaseQuiet
<1>2. hash' = hash \ {o} /\ flags' = flags /\ Ready' = Ready
  BY DEF Release, Ready
<1>3. /\ ApprovedSet \ {o} = ApprovedSet' \ {o}
      /\ UnapprovedSet \ {o} = UnapprovedSet' \ {o}
      /\ DyingSet \ {o} = DyingSet' \ {o}
      /\ o \notin ApprovedSet' /\ o \notin UnapprovedSet' /\ o \in DyingSet'
      /\ o \notin DyingSet
      /\ o \in ApprovedSet <=> "APPROVED" \in flags[o]
      /\ o \in UnapprovedSet <=> "APPROVED" \notin flags[o]
  BY <1>1, <1>2 DEF ApprovedSet, UnapprovedSet, DyingSet, Ready
<1> DEFINE a == Bit("APPROVED" \in flags[o])
<1>4. Count(-a, a - 1, 1, 0)
  BY DEF Release, CountFree
<1>5. /\ Bit(o \in ApprovedSet') - Bit(o \in ApprovedSet) = -a
      /\ Bit(o \in UnapprovedSet') - Bit(o \in UnapprovedSet) = a - 1
      /\ Bit(o \in DyingSet') - Bit(o \in DyingSet) = 1
  BY <1>3 DEF Bit
<1> HIDE DEF a
<1> QED
  BY <1>3, <1>4, <1>5, ExactOne

(* isg_update_session counts the session it approves for the first time. *)
LEMMA ExactCommit ==
  ASSUME TypeOK, Quiet, Exact, NEW h \in Nl, NlUpdateCommit(h), races' = {}
  PROVE  Exact'
<1> DEFINE o == nlObj[h]
           u == nlReq[h]
           f == UpdateFlags(flags[o], u.flags, "ASSIGN")
           fresh == Bit(u.type = "APPROVE" /\ "APPROVED" \notin f)
           n == Bit("NO_ACCT" \in f) - Bit("NO_ACCT" \in flags[o])
<1>1. /\ o \in Obj
      /\ u.type = "APPROVE" => mem[o] = "ready" /\ o \in hash
      /\ u.type # "APPROVE" => flags' = flags
      /\ "APPROVED" \in flags[o] => "APPROVED" \in flags'[o]
      /\ \A q \in Obj \ {o} : flags'[q] = flags[q]
  BY CommitQuiet
<1>2. /\ hash' = hash /\ Ready' = Ready /\ Count(fresh, -fresh, 0, n)
      /\ u.type = "APPROVE" => "APPROVED" \in flags'[o]
  BY <1>1, ZenonT(20) DEF NlUpdateCommit, Ready, TypeOK
<1>3. u.type = "APPROVE" => ("APPROVED" \notin f <=> "APPROVED" \notin flags[o])
  <2>1. u \in Update /\ flags[o] \subseteq SessionFlags
    BY <1>1 DEF TypeOK
  <2>2. "APPROVED" \in f => "APPROVED" \in flags[o]
    BY <2>1 DEF UpdateFlags, Update, FLAGS_RW_MASK
  <2>3. races' = races
       \cup (IF u.type = "APPROVE" /\ mem[o] # "ready" THEN {"early_request"} ELSE {})
       \cup (IF u.type = "APPROVE" /\ ("DYING" \in flags[o] \/ o \notin hash)
             THEN {"late_approve"} ELSE {})
       \cup (IF "APPROVED" \in flags[o] \ f THEN {"reapprove"} ELSE {})
    BY Zenon DEF NlUpdateCommit
  <2> HIDE DEF f
  <2> QED
    BY <2>2, <2>3, Zenon
<1>4. n \in Int
  <2>1. Bit("NO_ACCT" \in f) \in {0, 1}
    BY BitType
  <2>2. Bit("NO_ACCT" \in flags[o]) \in {0, 1}
    BY BitType
  <2> HIDE DEF f, o
  <2> QED
    BY <2>1, <2>2
<1> HIDE DEF f, n, o, u
<1>5. /\ ApprovedSet \ {o} = ApprovedSet' \ {o}
      /\ UnapprovedSet \ {o} = UnapprovedSet' \ {o}
      /\ DyingSet' = DyingSet
  BY <1>1, <1>2 DEF ApprovedSet, UnapprovedSet, DyingSet, Ready, TypeOK
<1>6. CASE u.type = "APPROVE" /\ "APPROVED" \notin flags[o]
  <2>1. /\ o \in ApprovedSet' /\ o \notin ApprovedSet
        /\ o \notin UnapprovedSet' /\ o \in UnapprovedSet
    BY <1>1, <1>2, <1>6, Zenon DEF ApprovedSet, UnapprovedSet, Ready
  <2>2. fresh = 1
    BY <1>3, <1>6, Zenon DEF Bit
  <2>3. /\ Bit(o \in ApprovedSet') - Bit(o \in ApprovedSet) = fresh
        /\ Bit(o \in UnapprovedSet') - Bit(o \in UnapprovedSet) = -fresh
        /\ Bit(o \in DyingSet') - Bit(o \in DyingSet) = 0
    BY <1>5, <2>1, <2>2 DEF Bit
  <2> QED
    BY <1>1, <1>2, <1>4, <1>5, <2>3, ExactOne, ZenonT(20)
<1>7. CASE ~(u.type = "APPROVE" /\ "APPROVED" \notin flags[o])
  <2>1. "APPROVED" \in flags'[o] <=> "APPROVED" \in flags[o]
    BY <1>1, <1>7
  <2>2. ApprovedSet' = ApprovedSet /\ UnapprovedSet' = UnapprovedSet
    BY <1>1, <1>2, <2>1, SMTT(20) DEF ApprovedSet, UnapprovedSet, Ready, TypeOK
  <2>3. fresh = 0
    BY <1>3, <1>7 DEF Bit
  <2>4. /\ cnt'.approved = cnt.approved /\ cnt'.unapproved = cnt.unapproved
        /\ cnt'.dying = cnt.dying
    <3> HIDE DEF fresh
    <3>1. Count(0, 0, 0, n)
      BY <1>2, <2>3
    <3>2. cnt \in Counters
      BY DEF TypeOK
    <3> QED
      BY <3>1, <3>2, SMTT(20) DEF Count, Counters
  <2> QED
    BY <1>5, <2>2, <2>4, ZenonT(20) DEF Exact
<1> QED
  BY <1>6, <1>7

(* A step after which nothing has overlapped yet keeps the counters exact. *)
LEMMA ExactStep ==
  ASSUME TypeOK, StructInv, QuietInv, CountersExact, [Next]_vars
  PROVE  CountersExact'
<1> SUFFICES ASSUME races' = {}, ~Dangling' PROVE Exact'
  BY DEF CountersExact, Exact, ApprovedSet, UnapprovedSet, DyingSet
<1>0. ASSUME races = {}, ~Dangling PROVE Exact /\ Quiet
  BY <1>0 DEF CountersExact, Exact, ApprovedSet, UnapprovedSet, DyingSet, QuietInv
<1> DEFINE Same == /\ cnt' = cnt /\ ApprovedSet' = ApprovedSet
                   /\ UnapprovedSet' = UnapprovedSet /\ DyingSet' = DyingSet
<1>s. ASSUME Same, Exact PROVE Exact'
  BY <1>s DEF Exact
<1> USE DEF ApprovedSet, UnapprovedSet, DyingSet, Ready
<1>1. ASSUME NEW c \in Cpu, NEW ip \in IP, ~Dangling, PktMiss(c, ip) PROVE Same /\ races = {}
  BY <1>1, SMTT(20) DEF PktMiss
<1>2. ASSUME NEW c \in Cpu, NEW o \in Obj, ~Dangling, PktCreate(c, o) PROVE Same /\ races = {}
  BY <1>2 DEF PktCreate, CreateSession, TypeOK, StructInv, Dangling
<1>3. ASSUME NEW c \in Cpu, ~Dangling, PktGiveUp(c) PROVE Same /\ races = {}
  BY <1>3, Zenon DEF PktGiveUp
<1>4. ASSUME NEW o \in Obj, ~Dangling, PktHit(o) PROVE Same /\ races = {}
  BY <1>4, Zenon DEF PktHit, Forward
<1>5. ASSUME NEW o \in Obj, ~Dangling, NotifyPort(o) PROVE Same /\ races = {}
  BY <1>5 DEF NotifyPort, TypeOK
<1>6. ASSUME NEW o \in Obj, ~Dangling, NotifyExhausted(o) PROVE Exact'
  <2>1. races = {} /\ Exact /\ Quiet
    BY <1>0, <1>6, SMTT(20) DEF NotifyExhausted
  <2>2. /\ ApprovedSet' = ApprovedSet /\ UnapprovedSet' = UnapprovedSet
        /\ DyingSet \ {o} = DyingSet' \ {o} /\ o \in DyingSet' /\ o \notin DyingSet
    BY <1>6, <2>1 DEF NotifyExhausted, TypeOK, Quiet
  <2>3. Count(0, 0, 1, 0)
    BY <1>6, SMTT(20) DEF NotifyExhausted, CountExhausted
  <2>4. /\ Bit(o \in ApprovedSet') - Bit(o \in ApprovedSet) = 0
        /\ Bit(o \in UnapprovedSet') - Bit(o \in UnapprovedSet) = 0
        /\ Bit(o \in DyingSet') - Bit(o \in DyingSet) = 1
    BY <2>2 DEF Bit
  <2> HIDE DEF ApprovedSet, UnapprovedSet, DyingSet
  <2> QED
    BY <2>1, <2>2, <2>3, <2>4, ExactOne
<1>7. ASSUME NEW o \in Obj, ~Dangling, NotifyAnnounce(o) PROVE Exact'
  <2>1. races = {} /\ Exact /\ Quiet
    BY <1>0, <1>7, SMTT(20) DEF NotifyAnnounce
  <2>2. /\ ApprovedSet' = ApprovedSet /\ DyingSet' = DyingSet
        /\ UnapprovedSet \ {o} = UnapprovedSet' \ {o}
        /\ o \in UnapprovedSet' /\ o \notin UnapprovedSet
    BY <1>7, <2>1 DEF NotifyAnnounce, TypeOK, Quiet
  <2>3. Count(0, 1, 0, 0)
    BY <1>7 DEF NotifyAnnounce
  <2>4. /\ Bit(o \in ApprovedSet') - Bit(o \in ApprovedSet) = 0
        /\ Bit(o \in UnapprovedSet') - Bit(o \in UnapprovedSet) = 1
        /\ Bit(o \in DyingSet') - Bit(o \in DyingSet) = 0
    BY <2>2, SMTT(20) DEF Bit
  <2> HIDE DEF ApprovedSet, UnapprovedSet, DyingSet
  <2> QED
    BY <2>1, <2>2, <2>3, <2>4, ExactOne
<1>8. ASSUME NEW h \in Nl, NEW u \in Update, NEW tgt \in Target, NEW o \in Obj,
             ~Dangling, NlUpdateFind(h, u, tgt, o)
      PROVE  Same /\ races = {}
  BY <1>8 DEF NlUpdateFind
<1>9. ASSUME NEW h \in Nl, ~Dangling, NlUpdateCommit(h) PROVE Exact'
  <2>1. races = {}
    BY <1>9, CommitQuiet, SMTT(20)
  <2> QED
    BY <1>0, <1>9, <2>1, ExactCommit, SMTT(20)
<1>10. ASSUME NEW h \in Nl, NEW tgt \in Target, NEW o \in Obj, ~Dangling, NlClear(h, tgt, o)
       PROVE  Same /\ races = {}
  BY <1>10 DEF NlClear, SetDying, TypeOK
<1>11. ASSUME NEW h \in Nl, ~Dangling, NlRelease(h) PROVE Exact'
  <2>1. nlObj[h] \in Obj /\ Release(nlObj[h])
    BY <1>11 DEF NlRelease, TypeOK
  <2>2. races = {}
    BY <2>1, ReleaseQuiet, Zenon
  <2> QED
    BY <1>0, <1>11, <2>1, <2>2, ExactRelease
<1>12. ASSUME NEW o \in Obj, ~Dangling, TimerCheck(o) PROVE Same /\ races = {}
  BY <1>12, ZenonT(20) DEF TimerCheck
<1>13. ASSUME NEW o \in Obj, ~Dangling, TimerExpire(o) PROVE Same /\ races = {}
  BY <1>13 DEF TimerExpire, SetDying, TypeOK
<1>14. ASSUME NEW o \in Obj, ~Dangling, TimerRelease(o) PROVE Exact'
  <2>1. Release(o)
    BY <1>14 DEF TimerRelease
  <2>2. races = {}
    BY <2>1, ReleaseQuiet
  <2> QED
    BY <1>0, <1>14, <2>1, <2>2, ExactRelease
<1>15. ASSUME NEW o \in Obj, ~Dangling, TimerReap(o) PROVE Exact'
  <2>1. races = {} /\ Exact
    BY <1>0, <1>15, SMTT(20) DEF TimerReap
  <2>2. o \notin hash
    BY <1>15, SMTT(20) DEF TimerReap, Dangling, TypeOK
  <2>3. /\ ApprovedSet' = ApprovedSet /\ UnapprovedSet' = UnapprovedSet
        /\ DyingSet \ {o} = DyingSet' \ {o} /\ o \in DyingSet /\ o \notin DyingSet'
    BY <1>15, <2>2 DEF TimerReap, TypeOK, StructInv
  <2> DEFINE n == Bit("NO_ACCT" \in flags[o])
  <2>4. Count(0, 0, -1, -n) /\ -n \in Int
    BY <1>15, BitType DEF TimerReap, CountReap
  <2> HIDE DEF n, ApprovedSet, UnapprovedSet, DyingSet
  <2>5. /\ Bit(o \in ApprovedSet') - Bit(o \in ApprovedSet) = 0
        /\ Bit(o \in UnapprovedSet') - Bit(o \in UnapprovedSet) = 0
        /\ Bit(o \in DyingSet') - Bit(o \in DyingSet) = -1
    BY <2>3 DEF Bit
  <2>6. Count(Bit(o \in ApprovedSet') - Bit(o \in ApprovedSet),
              Bit(o \in UnapprovedSet') - Bit(o \in UnapprovedSet),
              Bit(o \in DyingSet') - Bit(o \in DyingSet), -n)
    BY <2>4, <2>5
  <2> QED
    BY <2>1, <2>3, <2>4, <2>6, ExactOne
<1>16. CASE UNCHANGED vars
  BY <1>0, <1>16, <1>s, Zenon DEF vars, Dangling, Held
<1> QED
  BY <1>0, <1>s, <1>1, <1>2, <1>3, <1>4, <1>5, <1>6, <1>7, <1>8, <1>9, <1>10, <1>11,
     <1>12, <1>13, <1>14, <1>15, <1>16, ZenonT(20)
  DEF Next, PacketStep, NetlinkStep, TimerStep, Undefined

(* As long as no two operations have overlapped on one session, show_count  *)
(* reports the approved, unapproved and dying sessions exactly.             *)
THEOREM CountersCorrect == Spec => []CountersExact
<1>1. Init => CountersExact
  <2> SUFFICES ASSUME Init PROVE Exact
    BY DEF CountersExact, Exact, ApprovedSet, UnapprovedSet, DyingSet
  <2>1. ApprovedSet = {} /\ UnapprovedSet = {} /\ DyingSet = {}
    BY DEF Init, ApprovedSet, UnapprovedSet, DyingSet, Ready
  <2> QED
    BY <2>1, FS_EmptySet DEF Init, Exact
<1> QED
  BY <1>1, ExactStep, TypeCorrect, StructCorrect, QuietCorrect, PTL DEF Spec

=============================================================================
