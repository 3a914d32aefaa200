--------------------------- MODULE Records_proofs ----------------------------
(***************************************************************************)
(* Proofs about accounting records: those of the services of a session in   *)
(* the kernel, with the memory and the timers they belong to, and those of  *)
(* sessions that the daemon's executor brings into the database.  For any   *)
(* number of services, handlers, cpus, threads and sessions.                *)
(***************************************************************************)
EXTENDS IsgService, Accounting, TLAPS

-----------------------------------------------------------------------------
(* The services of a session.                                               *)

NoRace(S) == races \cap S = {}

(* The list has the allocated services; handlers and packets point at       *)
(* these, and no two handlers at the same one.                              *)
Linked ==
  /\ TypeOK /\ srvHead \in Seq(Srv) /\ mem = Range(srvHead)
  /\ parent = "freed" => mem = {}
  /\ \A h \in Nl : pending[h] # None => pending[h] \in mem
  /\ \A c \in Cpu : found[c] # None => found[c] \in mem
  /\ \A h, g \in Nl : pending[h] # None /\ pending[h] = pending[g] => h = g

(* Once the session has left the hash the timers are off. *)
TimerInv ==
  NoRace({"late_apply", "late_start"}) => timer \subseteq mem /\ (~InHash => timer = {})

(* A service that is being applied is not on yet, so no packet starts it. *)
FreshInv ==
  NoRace({"mixed_apply"}) =>
    \A h \in Nl : pending[h] # None =>
      /\ flags[pending[h]] \cap {"SERVICE", "STATUS_ON", "ONLINE"} = {}
      /\ \A c \in Cpu : found[c] # pending[h]

(* The record of a service is open as long as the service is on-line. *)
OpenInv ==
  /\ \A s \in Srv : record[s] = "open" => parent = "freed" \/ s \in mem
  /\ NoRace({"mixed_apply"}) => \A s \in Srv : record[s] = "open" => "ONLINE" \in flags[s]

ServiceInv ==
  /\ Linked /\ TimerInv /\ FreshInv /\ OpenInv
  /\ RecordsClosed /\ ServicesMarked

(* The list after a service was linked before the others. *)
LEMMA Prepended ==
  ASSUME NEW q \in Seq(Srv), IsInjective(q), NEW s \in Srv, s \notin Range(q)
  PROVE  /\ <<s>> \o q \in Seq(Srv) /\ IsInjective(<<s>> \o q)
         /\ Range(<<s>> \o q) = {s} \cup Range(q)
<1> DEFINE r == <<s>> \o q
<1>1. r \in Seq(Srv) /\ Len(r) = Len(q) + 1 /\ r[1] = s /\ DOMAIN r = 1 .. Len(r) /\ DOMAIN q = 1 .. Len(q)
  OBVIOUS
<1>2. Len(q) \in Nat /\ \A n \in 2 .. Len(q) + 1 : r[n] = q[n - 1] /\ n - 1 \in 1 .. Len(q)
  OBVIOUS
<1> HIDE DEF r
<1>3. \A n \in 2 .. Len(q) + 1 : r[n] # s
  BY <1>1, <1>2 DEF Range
<1>4. IsInjective(r)
  <2> SUFFICES ASSUME NEW a \in 1 .. Len(r), NEW b \in 1 .. Len(r), r[a] = r[b] PROVE a = b
    BY <1>1 DEF IsInjective
  <2>1. CASE a = 1 \/ b = 1
    BY <1>1, <1>2, <1>3, <2>1
  <2>2. CASE a # 1 /\ b # 1
    <3>1. a \in 2 .. Len(q) + 1 /\ b \in 2 .. Len(q) + 1
      BY <1>1, <1>2, <2>2
    <3>2. q[a - 1] = q[b - 1] /\ a - 1 \in DOMAIN q /\ b - 1 \in DOMAIN q
      BY <1>1, <1>2, <3>1
    <3>3. a - 1 = b - 1
      BY <3>2 DEF IsInjective
    <3> QED
      BY <3>1, <3>3
  <2> QED
    BY <2>1, <2>2
<1>5. Range(r) = {s} \cup Range(q)
  <2>1. ASSUME NEW x \in Range(r) PROVE x \in {s} \cup Range(q)
    <3>1. PICK n \in 1 .. Len(r) : x = r[n]
      BY <1>1 DEF Range
    <3>2. CASE n = 1
      BY <1>1, <3>1, <3>2
    <3>3. CASE n # 1
      <4>1. n \in 2 .. Len(q) + 1
        BY <1>1, <1>2, <3>3
      <4>2. x = q[n - 1] /\ n - 1 \in DOMAIN q
        BY <1>1, <1>2, <3>1, <4>1
      <4> QED
        BY <4>2, Zenon DEF Range
    <3> QED
      BY <3>2, <3>3
  <2>2. ASSUME NEW x \in Range(q) PROVE x \in Range(r)
    <3>1. PICK n \in 1 .. Len(q) : x = q[n]
      BY <1>1 DEF Range
    <3>2. n + 1 \in 2 .. Len(q) + 1 /\ n + 1 \in DOMAIN r /\ (n + 1) - 1 = n
      BY <1>1, <1>2
    <3>3. r[n + 1] = x
      BY <1>2, <3>1, <3>2
    <3> QED
      BY <3>2, <3>3 DEF Range
  <2>3. s \in Range(r)
    BY <1>1, <1>2 DEF Range
  <2> QED
    BY <2>1, <2>2, <2>3
<1> QED
  BY <1>1, <1>4, <1>5 DEF r

(* isg_apply_service links a new service. *)
LEMMA ApplyLinkKeeps ==
  ASSUME ServiceInv, NEW h \in Nl, NEW s \in Srv, ApplyLink(h, s)
  PROVE  ServiceInv'
<1>1. /\ pending[h] = None /\ InHash /\ s \notin mem /\ mem' = mem \cup {s} /\ s # None
      /\ timer' = timer \cup {s} /\ srvHead' = <<s>> \o srvHead
      /\ races' = races \cup Note(parent = "dying", "late_apply")
      /\ UNCHANGED <<parent, approved, found, record, bytes>>
  BY ServiceAssumption DEF ApplyLink
<1>2. Linked
  BY DEF ServiceInv
<1>3. /\ flags' \in [Srv -> SUBSET AllFlags] /\ flags'[s] \cap {"SERVICE", "STATUS_ON", "ONLINE"} = {}
      /\ \A x \in Srv : x # s => flags'[x] = flags[x]
  BY <1>2 DEF ApplyLink, Linked, TypeOK, ParentFlags, AllFlags
<1>4. /\ pending' \in [Nl -> Srv \cup {None}] /\ pending'[h] = s
      /\ \A g \in Nl : g # h => pending'[g] = pending[g]
  BY <1>2 DEF ApplyLink, Linked, TypeOK
<1>5. srvHead' \in Seq(Srv) /\ IsInjective(srvHead') /\ Range(srvHead') = mem'
  BY <1>1, <1>2, Prepended DEF Linked, TypeOK
<1>6. Linked'
  <2>1. TypeOK'
    BY <1>1, <1>2, <1>3, <1>4, <1>5 DEF Linked, TypeOK, Note, Race
  <2>2. /\ \A g \in Nl : pending'[g] # None => pending'[g] \in mem'
        /\ \A c \in Cpu : found'[c] # None => found'[c] \in mem'
    BY <1>1, <1>2, <1>4 DEF Linked
  <2>3. \A f, g \in Nl : pending'[f] # None /\ pending'[f] = pending'[g] => f = g
    BY <1>1, <1>2, <1>4 DEF Linked
  <2>4. parent' # "freed"
    BY <1>1 DEF InHash
  <2> QED
    BY <1>5, <2>1, <2>2, <2>3, <2>4 DEF Linked
<1>7. \A S : NoRace(S)' => NoRace(S)
  BY <1>1 DEF NoRace
<1>8. TimerInv'
  BY <1>1, <1>7 DEF ServiceInv, TimerInv, InHash
<1>9. FreshInv'
  <2> SUFFICES ASSUME NoRace({"mixed_apply"}), NEW g \in Nl, pending'[g] # None
               PROVE  /\ flags'[pending'[g]] \cap {"SERVICE", "STATUS_ON", "ONLINE"} = {}
                      /\ \A c \in Cpu : found'[c] # pending'[g]
    BY <1>7 DEF FreshInv
  <2>1. CASE g = h
    BY <1>1, <1>2, <1>3, <1>4, <2>1 DEF Linked
  <2>2. CASE g # h
    <3>1. pending'[g] = pending[g] /\ pending[g] \in mem /\ pending[g] \in Srv
      BY <1>2, <1>4, <2>2 DEF Linked, TypeOK
    <3>2. flags'[pending[g]] = flags[pending[g]]
      BY <1>1, <1>3, <3>1
    <3> QED
      BY <1>1, <3>1, <3>2 DEF ServiceInv, FreshInv
  <2> QED
    BY <2>1, <2>2
<1>10. OpenInv'
  <2>1. \A x \in Srv : record'[x] = "open" => x \in mem /\ x # s
    BY <1>1 DEF ServiceInv, OpenInv, InHash
  <2> QED
    BY <1>1, <1>3, <1>7, <2>1 DEF ServiceInv, OpenInv
<1>11. RecordsClosed'
  BY <1>1 DEF RecordsClosed, InHash
<1>12. ServicesMarked'
  <2> SUFFICES ASSUME NoRace({"late_apply", "mixed_apply"}), NEW x \in mem'
               PROVE  "SERVICE" \in flags'[x] \/ \E g \in Nl : pending'[g] = x
    BY <1>7, Zenon DEF ServicesMarked, NoRace
  <2>1. CASE x = s
    BY <1>4, <2>1
  <2>2. CASE x # s
    <3>1. x \in mem /\ flags'[x] = flags[x]
      BY <1>1, <1>2, <1>3, <2>2 DEF Linked, TypeOK
    <3>2. "SERVICE" \in flags[x] \/ \E g \in Nl : pending[g] = x
      BY <3>1 DEF ServiceInv, ServicesMarked, NoRace
    <3>3. x # None
      BY <1>2, <3>1, ServiceAssumption DEF Linked, TypeOK, ServiceAssumption
    <3> QED
      BY <1>1, <1>4, <3>1, <3>2, <3>3
  <2> QED
    BY <2>1, <2>2
<1> QED
  BY <1>6, <1>8, <1>9, <1>10, <1>11, <1>12 DEF ServiceInv

(* It updates the newest service, which is its own unless applies overlap. *)
LEMMA ApplyUpdateKeeps ==
  ASSUME ServiceInv, NEW h \in Nl, NEW rw, ApplyUpdate(h, rw)
  PROVE  ServiceInv'
<1> DEFINE s == srvHead[1]
           update == InHash /\ "DYING" \notin flags[s]
<1>1. /\ pending[h] # None
      /\ races' = races \cup Note(s # pending[h], "mixed_apply") \cup Note(~update, "late_apply")
      /\ UNCHANGED <<parent, approved, srvHead, mem, timer, found, record, bytes>>
  BY DEF ApplyUpdate
<1>2. Linked
  BY DEF ServiceInv
<1>3. s \in mem /\ s \in Srv /\ pending[h] \in Srv
  <2>1. srvHead # <<>> /\ srvHead \in Seq(Srv) /\ mem = Range(srvHead)
    BY <1>1, <1>2 DEF Linked, Range
  <2>2. 1 \in DOMAIN srvHead /\ srvHead[1] \in Srv
    BY <2>1
  <2> QED
    BY <1>1, <1>2, <2>1, <2>2 DEF Range, Linked, TypeOK
<1>4. Marked(flags[s], rw) \in SUBSET AllFlags /\ "SERVICE" \in Marked(flags[s], rw)
  BY DEF Marked, UpdateFlags, FLAGS_RW_MASK, AllFlags
<1>5. /\ flags' \in [Srv -> SUBSET AllFlags] /\ \A x \in Srv : x # s => flags'[x] = flags[x]
      /\ update => "SERVICE" \in flags'[s]
  <2>1. flags' = IF update THEN [flags EXCEPT ![s] = Marked(flags[s], rw)] ELSE flags
    BY DEF ApplyUpdate
  <2> QED
    BY <1>2, <1>3, <1>4, <2>1 DEF Linked, TypeOK
<1>6. /\ pending' \in [Nl -> Srv \cup {None}] /\ pending'[h] = None
      /\ \A g \in Nl : g # h => pending'[g] = pending[g]
  BY <1>2 DEF ApplyUpdate, Linked, TypeOK
<1>7. /\ \A S : NoRace(S)' => NoRace(S)
      /\ NoRace({"mixed_apply"})' => s = pending[h]
      /\ NoRace({"late_apply", "mixed_apply"})' => s = pending[h] /\ update
  BY <1>1 DEF NoRace, Note
<1> HIDE DEF s, update
<1>8. Linked'
  <2>1. TypeOK'
    BY <1>1, <1>2, <1>5, <1>6 DEF Linked, TypeOK, Note, Race
  <2>2. /\ \A g \in Nl : pending'[g] # None => pending'[g] \in mem'
        /\ \A c \in Cpu : found'[c] # None => found'[c] \in mem'
    BY <1>1, <1>2, <1>6 DEF Linked
  <2>3. \A f, g \in Nl : pending'[f] # None /\ pending'[f] = pending'[g] => f = g
    BY <1>2, <1>6 DEF Linked
  <2> QED
    BY <1>1, <1>2, <2>1, <2>2, <2>3 DEF Linked
<1>9. TimerInv'
  BY <1>1, <1>7 DEF ServiceInv, TimerInv, InHash
<1>10. FreshInv'
  <2> SUFFICES ASSUME NoRace({"mixed_apply"})', NEW g \in Nl, pending'[g] # None
               PROVE  /\ flags'[pending'[g]] \cap {"SERVICE", "STATUS_ON", "ONLINE"} = {}
                      /\ \A c \in Cpu : found'[c] # pending'[g]
    BY DEF FreshInv
  <2>1. g # h /\ pending'[g] = pending[g] /\ pending[g] \in Srv
    BY <1>2, <1>6 DEF Linked, TypeOK
  <2>2. pending[g] # s /\ NoRace({"mixed_apply"})
    BY <1>1, <1>2, <1>7, <2>1 DEF Linked
  <2>3. flags'[pending[g]] = flags[pending[g]]
    BY <1>5, <2>1, <2>2
  <2> QED
    BY <1>1, <2>1, <2>2, <2>3 DEF ServiceInv, FreshInv
<1>11. OpenInv'
  <2>1. ASSUME NoRace({"mixed_apply"})', NEW x \in Srv, record[x] = "open"
        PROVE  "ONLINE" \in flags'[x]
    <3>1. NoRace({"mixed_apply"}) /\ "ONLINE" \in flags[x]
      BY <1>7, <2>1 DEF ServiceInv, OpenInv
    <3>2. x # s
      BY <1>1, <1>7, <2>1, <3>1 DEF ServiceInv, FreshInv
    <3> QED
      BY <1>5, <3>1, <3>2
  <2> QED
    BY <1>1, <2>1 DEF ServiceInv, OpenInv
<1>12. RecordsClosed'
  BY <1>1 DEF ServiceInv, RecordsClosed
<1>13. ServicesMarked'
  <2> SUFFICES ASSUME NoRace({"late_apply", "mixed_apply"})', NEW x \in mem
               PROVE  "SERVICE" \in flags'[x] \/ \E g \in Nl : pending'[g] = x
    BY <1>1 DEF ServicesMarked, NoRace
  <2>1. "SERVICE" \in flags[x] \/ \E g \in Nl : pending[g] = x
    BY <1>7, Zenon DEF ServiceInv, ServicesMarked, NoRace
  <2>2. CASE x = s
    BY <1>5, <1>7, <2>2
  <2>3. CASE x # s
    BY <1>2, <1>5, <1>6, <1>7, <2>1, <2>3 DEF Linked, TypeOK
  <2> QED
    BY <2>2, <2>3
<1> QED
  BY <1>8, <1>9, <1>10, <1>11, <1>12, <1>13 DEF ServiceInv

(* A step that links and frees nothing: packets find services that are on,  *)
(* and a flag is set only on a service that is marked or was found.         *)
LEMMA SameList ==
  ASSUME ServiceInv, UNCHANGED <<mem, srvHead, pending>>, TypeOK', races \subseteq races',
         parent' = "freed" => parent = "freed",
         \A c \in Cpu : found'[c] \in {found[c], None}
                        \/ (found'[c] \in mem /\ "STATUS_ON" \in flags[found'[c]]),
         \A s \in Srv : /\ "SERVICE" \in flags[s] => "SERVICE" \in flags'[s]
                        /\ \/ flags'[s] \subseteq flags[s]
                           \/ "SERVICE" \in flags[s]
                           \/ \E c \in Cpu : found[c] = s
  PROVE  Linked' /\ FreshInv' /\ ServicesMarked' /\ \A S : NoRace(S)' => NoRace(S)
<1>1. Linked
  BY DEF ServiceInv
<1>2. \A S : NoRace(S)' => NoRace(S)
  BY DEF NoRace
<1>3. Linked'
  <2>1. \A c \in Cpu : found'[c] # None => found'[c] \in mem'
    BY <1>1 DEF Linked
  <2> QED
    BY <1>1, <2>1 DEF Linked
<1>4. FreshInv'
  <2> SUFFICES ASSUME NoRace({"mixed_apply"}), NEW g \in Nl, pending[g] # None
               PROVE  /\ flags'[pending[g]] \cap {"SERVICE", "STATUS_ON", "ONLINE"} = {}
                      /\ \A c \in Cpu : found'[c] # pending[g]
    BY <1>2 DEF FreshInv
  <2>1. /\ flags[pending[g]] \cap {"SERVICE", "STATUS_ON", "ONLINE"} = {} /\ pending[g] \in Srv
        /\ \A c \in Cpu : found[c] # pending[g]
    BY <1>1 DEF ServiceInv, FreshInv, Linked, TypeOK
  <2>2. flags'[pending[g]] \subseteq flags[pending[g]]
    BY <2>1
  <2> QED
    BY <2>1, <2>2
<1>5. ServicesMarked'
  <2> SUFFICES ASSUME NoRace({"late_apply", "mixed_apply"}), NEW x \in mem
               PROVE  "SERVICE" \in flags'[x] \/ \E g \in Nl : pending[g] = x
    BY <1>2 DEF ServicesMarked, NoRace
  <2> QED
    BY <1>1, Zenon DEF ServiceInv, ServicesMarked, NoRace, Linked, TypeOK
<1> QED
  BY <1>2, <1>3, <1>4, <1>5

(* Steps that touch no record, timer or flag. *)
LEMMA QuietKeeps ==
  ASSUME ServiceInv, \/ Approve \/ ParentDying \/ \E s \in Srv : PktOnline(s)
                     \/ UNCHANGED vars
                     \/ \E c \in Cpu, s \in Srv : PktOffline(c, s)
  PROVE  ServiceInv'
<1>1. /\ UNCHANGED <<mem, srvHead, pending, flags, races, timer, record>>
      /\ parent' = parent \/ (parent = "live" /\ parent' = "dying")
  BY DEF Approve, PktOnline, PktOffline, ParentDying, vars
<1>2. Linked
  BY DEF ServiceInv
<1>3. /\ found' \in [Cpu -> Srv \cup {None}]
      /\ \A c \in Cpu : found'[c] \in {found[c], None}
                        \/ (found'[c] \in mem /\ "STATUS_ON" \in flags[found'[c]])
  <2>1. CASE found' = found
    BY <1>2, <2>1 DEF Linked, TypeOK
  <2>2. CASE \E c \in Cpu, s \in Srv : PktOffline(c, s)
    BY <1>2, <2>2 DEF Linked, TypeOK, PktOffline, Classified
  <2> QED
    BY <2>1, <2>2 DEF Approve, PktOnline, ParentDying, vars
<1>4. TypeOK'
  BY <1>1, <1>2, <1>3, Zenon DEF Linked, TypeOK, Approve, PktOnline, PktOffline, ParentDying, vars
<1>5. Linked' /\ FreshInv' /\ ServicesMarked'
  BY <1>1, <1>3, <1>4, SameList, Zenon
<1>6. TimerInv' /\ OpenInv' /\ RecordsClosed'
  BY <1>1, Zenon DEF ServiceInv, TimerInv, OpenInv, RecordsClosed, InHash, NoRace
<1> QED
  BY <1>5, <1>6 DEF ServiceInv

(* A service is switched: no bit but STATUS_ON changes. *)
LEMMA SwitchKeeps ==
  ASSUME ServiceInv, NEW s \in Srv, NEW op \in {"SET", "UNSET"}, Switch(s, op)
  PROVE  ServiceInv'
<1>1. /\ UNCHANGED <<parent, approved, mem, srvHead, pending, found, races, timer, record, bytes>>
      /\ "SERVICE" \in flags[s]
  BY DEF Switch
<1>2. Linked
  BY DEF ServiceInv
<1>3. UpdateFlags(flags[s], {"SERVICE", "STATUS_ON"}, op) \in {flags[s] \cup {"STATUS_ON"}, flags[s] \ {"STATUS_ON"}}
  <2>1. {"SERVICE", "STATUS_ON"} \cap FLAGS_RW_MASK = {"STATUS_ON"} /\ {"SERVICE", "STATUS_ON"} # {}
    BY DEF FLAGS_RW_MASK
  <2> QED
    BY <2>1 DEF UpdateFlags
<1>4. /\ flags' \in [Srv -> SUBSET AllFlags] /\ \A x \in Srv : x # s => flags'[x] = flags[x]
      /\ flags'[s] \in {flags[s] \cup {"STATUS_ON"}, flags[s] \ {"STATUS_ON"}}
  BY <1>2, <1>3 DEF Switch, Linked, TypeOK, AllFlags
<1>5. TypeOK'
  BY <1>1, <1>2, <1>4 DEF Linked, TypeOK
<1>6. Linked' /\ FreshInv' /\ ServicesMarked'
  <2>1. \A x \in Srv : /\ "SERVICE" \in flags[x] => "SERVICE" \in flags'[x]
                       /\ flags'[x] \subseteq flags[x] \/ "SERVICE" \in flags[x]
    BY <1>1, <1>4
  <2> QED
    BY <1>1, <1>5, <2>1, SameList, Zenon
<1>7. \A x \in Srv : "ONLINE" \in flags[x] => "ONLINE" \in flags'[x]
  BY <1>4, SMTT(20)
<1>8. TimerInv' /\ OpenInv' /\ RecordsClosed'
  BY <1>1, <1>7 DEF ServiceInv, TimerInv, OpenInv, RecordsClosed, InHash, NoRace
<1> QED
  BY <1>6, <1>8 DEF ServiceInv

(* The timer of a service fires: its record is not open when it is off. *)
LEMMA TimerKeeps ==
  ASSUME ServiceInv, NEW s \in Srv, TimerOffline(s) \/ TimerExpire(s)
  PROVE  ServiceInv'
<1>1. UNCHANGED <<parent, approved, mem, srvHead, pending, found, races>> /\ timer' = timer \ {s}
  BY DEF TimerOffline, TimerExpire
<1>2. Linked
  BY DEF ServiceInv
<1>3. /\ flags' \in [Srv -> SUBSET AllFlags] /\ \A x \in Srv : x # s => flags'[x] = flags[x]
      /\ flags'[s] \in {flags[s], flags[s] \ {"ONLINE"}}
      /\ record' \in [Srv -> {"none", "open", "closed", "lost"}]
      /\ \A x \in Srv : x # s => record'[x] = record[x]
      /\ \/ flags'[s] = flags[s] /\ record'[s] = record[s]
         \/ record'[s] = "lost"
      /\ bytes' \subseteq bytes
  BY <1>2 DEF TimerOffline, TimerExpire, Linked, TypeOK
<1>4. TypeOK'
  BY <1>1, <1>2, <1>3 DEF Linked, TypeOK
<1>5. Linked' /\ FreshInv' /\ ServicesMarked'
  <2>1. \A x \in Srv : /\ "SERVICE" \in flags[x] => "SERVICE" \in flags'[x]
                       /\ flags'[x] \subseteq flags[x]
    BY <1>3
  <2> QED
    BY <1>1, <1>4, <2>1, SameList, ZenonT(20)
<1>6. \A x \in Srv : record'[x] = "open" => record[x] = "open" /\ flags'[x] = flags[x]
  BY <1>3
<1>7. TimerInv' /\ OpenInv' /\ RecordsClosed'
  BY <1>1, <1>6 DEF ServiceInv, TimerInv, OpenInv, RecordsClosed, InHash, NoRace
<1> QED
  BY <1>5, <1>7 DEF ServiceInv

(* isg_start_session, for a service that a packet has found. *)
LEMMA PktStartKeeps ==
  ASSUME ServiceInv, NEW c \in Cpu, PktStart(c)
  PROVE  ServiceInv'
<1> DEFINE s == found[c]
<1>1. /\ s # None /\ UNCHANGED <<parent, approved, srvHead, mem, pending>>
      /\ \/ UNCHANGED <<flags, timer, record, bytes, races>>
         \/ /\ Start(s)
            /\ races' = races \cup Note(parent # "live", "late_start")
                              \cup Note("ONLINE" \in flags[s], "double_start")
  BY DEF PktStart
<1>2. Linked
  BY DEF ServiceInv
<1>3. s \in mem /\ s \in Srv
  BY <1>1, <1>2 DEF Linked, TypeOK
<1>4. /\ found' \in [Cpu -> Srv \cup {None}] /\ \A b \in Cpu : found'[b] \in {found[b], None}
  BY <1>2 DEF PktStart, Linked, TypeOK
<1>5. CASE UNCHANGED <<flags, timer, record, bytes, races>>
  <2>1. TypeOK'
    BY <1>1, <1>2, <1>4, <1>5 DEF Linked, TypeOK
  <2>2. Linked' /\ FreshInv' /\ ServicesMarked'
    BY <1>1, <1>4, <1>5, <2>1, SameList, Zenon
  <2>3. TimerInv' /\ OpenInv' /\ RecordsClosed'
    BY <1>1, <1>5, Zenon DEF ServiceInv, TimerInv, OpenInv, RecordsClosed, InHash, NoRace
  <2> QED
    BY <2>2, <2>3 DEF ServiceInv
<1>6. CASE /\ Start(s)
           /\ races' = races \cup Note(parent # "live", "late_start")
                             \cup Note("ONLINE" \in flags[s], "double_start")
  <2>1. /\ flags' \in [Srv -> SUBSET AllFlags] /\ flags'[s] = flags[s] \cup {"ONLINE"}
        /\ \A x \in Srv : x # s => flags'[x] = flags[x]
        /\ record' \in [Srv -> {"none", "open", "closed", "lost"}]
        /\ \A x \in Srv : x # s => record'[x] = record[x]
        /\ bytes' = bytes \ {s} /\ timer' = timer \cup {s}
    BY <1>2, <1>3, <1>6 DEF Start, Linked, TypeOK, AllFlags
  <2>2. races \subseteq races' /\ races' \subseteq Race /\ (NoRace({"late_start"})' => parent = "live")
    BY <1>2, <1>6 DEF Linked, TypeOK, Note, Race, NoRace
  <2>3. TypeOK'
    BY <1>1, <1>2, <1>3, <1>4, <2>1, <2>2 DEF Linked, TypeOK
  <2>4. Linked' /\ FreshInv' /\ ServicesMarked' /\ \A S : NoRace(S)' => NoRace(S)
    <3>1. \A x \in Srv : /\ "SERVICE" \in flags[x] => "SERVICE" \in flags'[x]
                         /\ flags'[x] \subseteq flags[x] \/ \E b \in Cpu : found[b] = x
      BY <2>1
    <3> QED
      BY <1>1, <1>4, <2>2, <2>3, <3>1, SameList, Zenon
  <2>5. TimerInv'
    <3>1. NoRace({"late_apply", "late_start"})' => NoRace({"late_start"})'
      BY DEF NoRace
    <3> QED
      BY <1>1, <1>3, <2>1, <2>2, <2>4, <3>1 DEF ServiceInv, TimerInv, InHash
  <2>6. OpenInv'
    BY <1>1, <1>3, <2>1, <2>4, Zenon DEF ServiceInv, OpenInv
  <2>7. RecordsClosed'
    <3>1. races' \cap {"late_start", "mixed_apply"} = {} => NoRace({"late_start"})'
      BY DEF NoRace
    <3> QED
      BY <1>1, <2>2, <3>1 DEF RecordsClosed
  <2> QED
    BY <2>4, <2>5, <2>6, <2>7 DEF ServiceInv
<1> QED
  BY <1>1, <1>5, <1>6

(* isg_free_session: every service stops, with its timer. *)
LEMMA ReleaseKeeps ==
  ASSUME ServiceInv, ParentRelease
  PROVE  ServiceInv'
<1> DEFINE online == {s \in Range(srvHead) : "ONLINE" \in flags[s]}
<1>1. /\ parent = "dying" /\ parent' = "unlinked" /\ StopServices(online)
      /\ UNCHANGED <<approved, srvHead, mem, pending, found, bytes, races>>
  BY DEF ParentRelease
<1>2. Linked
  BY DEF ServiceInv
<1>3. /\ flags' \in [Srv -> SUBSET AllFlags] /\ timer' = timer \ mem
      /\ \A x \in Srv : flags'[x] = IF x \in online THEN flags[x] \ {"ONLINE"} ELSE flags[x]
      /\ record' \in [Srv -> {"none", "open", "closed", "lost"}]
      /\ \A x \in Srv : record'[x] = IF x \in online THEN "closed" ELSE record[x]
  BY <1>1, <1>2 DEF StopServices, Linked, TypeOK
<1>4. TypeOK'
  BY <1>1, <1>2, <1>3 DEF Linked, TypeOK
<1>5. Linked' /\ FreshInv' /\ ServicesMarked'
  <2>1. \A x \in Srv : /\ "SERVICE" \in flags[x] => "SERVICE" \in flags'[x]
                       /\ flags'[x] \subseteq flags[x]
    BY <1>3
  <2> QED
    BY <1>1, <1>4, <2>1, SameList, Zenon
<1>6. TimerInv'
  BY <1>1, <1>3 DEF ServiceInv, TimerInv, InHash, NoRace
<1>7. \A x \in Srv : record'[x] = "open" => x \notin online /\ record[x] = "open" /\ x \in mem
  BY <1>1, <1>3, SMTT(20) DEF ServiceInv, OpenInv
<1>8. NoRace({"mixed_apply"}) => \A x \in Srv : record'[x] # "open"
  BY <1>2, <1>7 DEF ServiceInv, OpenInv, Linked
<1>9. OpenInv' /\ RecordsClosed'
  BY <1>1, <1>7, <1>8 DEF OpenInv, RecordsClosed, NoRace
<1> QED
  BY <1>5, <1>6, <1>9 DEF ServiceInv

(* The session and its services are given back. *)
LEMMA ReapKeeps ==
  ASSUME ServiceInv, ParentReap
  PROVE  ServiceInv'
<1>1. /\ parent = "unlinked" /\ parent' = "freed" /\ mem' = mem \ Range(srvHead) /\ srvHead' = <<>>
      /\ \A h \in Nl : pending[h] = None
      /\ \A c \in Cpu : found[c] = None
      /\ UNCHANGED <<approved, flags, timer, pending, found, record, bytes, races>>
  BY DEF ParentReap
<1>2. Linked
  BY DEF ServiceInv
<1>3. mem' = {} /\ Range(srvHead') = {} /\ IsInjective(srvHead')
  BY <1>1, <1>2 DEF Linked, Range, IsInjective
<1>4. TypeOK'
  BY <1>1, <1>2, <1>3 DEF Linked, TypeOK
<1>5. Linked' /\ FreshInv' /\ ServicesMarked'
  BY <1>1, <1>3, <1>4 DEF Linked, FreshInv, ServicesMarked
<1>6. TimerInv'
  BY <1>1 DEF ServiceInv, TimerInv, InHash, NoRace
<1>7. OpenInv' /\ RecordsClosed'
  BY <1>1 DEF ServiceInv, OpenInv, RecordsClosed, NoRace
<1> QED
  BY <1>5, <1>6, <1>7 DEF ServiceInv

(* The invariant holds in every state. *)
LEMMA ServiceCorrect == Spec => []ServiceInv
<1>1. Init => ServiceInv
  <2> SUFFICES ASSUME Init PROVE ServiceInv
    OBVIOUS
  <2>1. TypeOK /\ srvHead \in Seq(Srv) /\ mem = Range(srvHead)
    <3>1. srvHead \in Seq(Srv) /\ Range(srvHead) = {} /\ IsInjective(srvHead)
      BY DEF Init, Range, IsInjective
    <3>2. approved \in BOOLEAN /\ flags \in [Srv -> SUBSET AllFlags]
      BY Zenon DEF Init
    <3> QED
      BY <3>1, <3>2 DEF Init, TypeOK
  <2> QED
    BY <2>1 DEF Init, ServiceInv, Linked, TimerInv, FreshInv, OpenInv, RecordsClosed, ServicesMarked, InHash
<1>2. ServiceInv /\ [Next]_vars => ServiceInv'
  <2> SUFFICES ASSUME ServiceInv, Next \/ UNCHANGED vars PROVE ServiceInv'
    OBVIOUS
  <2>1. CASE \E h \in Nl, s \in Srv : ApplyLink(h, s)
    BY <2>1, ApplyLinkKeeps
  <2>2. CASE \E h \in Nl, rw \in {{}, {"STATUS_ON"}, {"STATUS_ON", "TAGGER", "NO_ACCT"}} : ApplyUpdate(h, rw)
    BY <2>2, ApplyUpdateKeeps
  <2>3. CASE \E s \in Srv, op \in {"SET", "UNSET"} : Switch(s, op)
    BY <2>3, SwitchKeeps
  <2>4. CASE \/ Approve \/ ParentDying \/ \E s \in Srv : PktOnline(s)
             \/ UNCHANGED vars
             \/ \E c \in Cpu, s \in Srv : PktOffline(c, s)
    BY <2>4, QuietKeeps
  <2>5. CASE \E c \in Cpu : PktStart(c)
    BY <2>5, PktStartKeeps
  <2>6. CASE \E s \in Srv : TimerOffline(s) \/ TimerExpire(s)
    BY <2>6, TimerKeeps
  <2>7. CASE ParentRelease
    BY <2>7, ReleaseKeeps
  <2>8. CASE ParentReap
    BY <2>8, ReapKeeps
  <2> QED
    BY <2>1, <2>2, <2>3, <2>4, <2>5, <2>6, <2>7, <2>8, Zenon DEF Next
<1> QED
  BY <1>1, <1>2, PTL DEF Spec

(* The pointers and the list of a session are what their types say. *)
THEOREM ServiceTypeCorrect == Spec => []TypeOK
<1>1. ServiceInv => TypeOK
  BY DEF ServiceInv, Linked
<1> QED
  BY <1>1, ServiceCorrect, PTL

(* The timer of a service never outlives its memory, unless the service was *)
(* applied to, or started for, a session that isg_free_session had already  *)
(* been called for.                                                         *)
THEOREM TimersCorrect == Spec => []TimersHaveMemory
<1>1. ServiceInv => TimersHaveMemory
  BY DEF ServiceInv, TimerInv, TimersHaveMemory, NoRace
<1> QED
  BY <1>1, ServiceCorrect, PTL

(* When a session has left the hash, the record of each of its services has *)
(* ended: isg_free_session stops those that are on-line, and there is no    *)
(* other open one unless a packet or an apply overlapped.                   *)
THEOREM RecordsCorrect == Spec => []RecordsClosed
<1>1. ServiceInv => RecordsClosed
  BY DEF ServiceInv
<1> QED
  BY <1>1, ServiceCorrect, PTL

(* A service that no handler is about to update has its SERVICE bit, by     *)
(* which its timer tells it from a session, unless applies overlapped each  *)
(* other or the free of the session.                                        *)
THEOREM MarkedCorrect == Spec => []ServicesMarked
<1>1. ServiceInv => ServicesMarked
  BY DEF ServiceInv
<1> QED
  BY <1>1, ServiceCorrect, PTL

(* The counters of an open record are emptied only with its end, unless two *)
(* packets started the service at once or an apply overwrote its flags.     *)
THEOREM BytesCorrect == Spec => BytesKept
<1>1. ServiceInv /\ [Next]_vars =>
        [\A s \in bytes \ bytes' : record[s] # "open" \/ record'[s] # "open"
                                   \/ races' \cap {"double_start", "mixed_apply"} # {}]_vars
  <2> SUFFICES ASSUME ServiceInv, Next, NEW s \in bytes \ bytes',
                      races' \cap {"double_start", "mixed_apply"} = {}
               PROVE  record[s] # "open" \/ record'[s] # "open"
    OBVIOUS
  <2>1. Linked /\ s \in Srv
    BY DEF ServiceInv, Linked, TypeOK
  <2>2. \/ \E c \in Cpu : PktStart(c)
        \/ \E x \in Srv : TimerExpire(x)
    BY Zenon DEF Next, ApplyLink, ApplyUpdate, Switch, Approve, PktOnline, PktOffline, TimerOffline,
           ParentDying, ParentRelease, ParentReap
  <2>3. ASSUME NEW c \in Cpu, PktStart(c) PROVE record[s] # "open"
    <3>1. /\ Start(found[c])
          /\ races' = races \cup Note(parent # "live", "late_start")
                            \cup Note("ONLINE" \in flags[found[c]], "double_start")
      BY <2>3 DEF PktStart
    <3>2. s = found[c]
      BY <3>1 DEF Start
    <3>3. "ONLINE" \notin flags[s] /\ NoRace({"mixed_apply"})
      BY <3>1, <3>2 DEF Note, NoRace
    <3> QED
      BY <2>1, <3>3, SMTT(20) DEF ServiceInv, OpenInv
  <2>4. ASSUME NEW x \in Srv, TimerExpire(x) PROVE record'[s] # "open"
    <3>1. s = x /\ record' = [record EXCEPT ![x] = "lost"]
      BY <2>4 DEF TimerExpire
    <3> QED
      BY <2>1, <3>1 DEF Linked, TypeOK
  <2> QED
    BY <2>2, <2>3, <2>4, Zenon
<1> QED
  BY <1>1, ServiceCorrect, PTL DEF Spec, BytesKept

-----------------------------------------------------------------------------
(* The circuit breaker.                                                     *)

(* As long as no thread switch has hit an increment the counter is the      *)
(* number of errors, and so is what a thread between read and write has     *)
(* seen of it.  A thread that has written is about to open the circuit.     *)
BreakerInv ==
  /\ BreakerTypeOK
  /\ ~torn => /\ run = consec
              /\ \A t \in Thread : pc[t] = "read" => seen[t] = consec
              /\ run >= Threshold => left # Closed \/ \E t \in Thread : pc[t] = "written"

(* account() is ahead of the breaker until its query has ended. *)
AheadInv == \A t \in Thread : at[t] \in {"query", "retry", "ok"} => pc[t] = "asked"

CircuitInv == BreakerInv /\ AheadInv /\ at \in [Thread -> {"none", "query", "retry", "ok", "err"}]

(* is_circuit_open, called by a thread that is not recording an error. *)
LEMMA LetsThroughKeeps ==
  ASSUME BreakerInv, NEW t, t \in Thread => pc[t] # "read", LetsThrough(t), seen' = seen,
         pc' \in [Thread -> {"idle", "asked", "read", "written"}],
         \A u \in Thread : pc'[u] = "read" <=> pc[u] = "read",
         \A u \in Thread : pc'[u] = "written" <=> pc[u] = "written"
  PROVE  BreakerInv'
<1>1. left \in Int /\ Threshold \in Nat \ {0} /\ Penalty \in Nat
  BY BreakerAssumption DEF BreakerAssumption, BreakerInv, BreakerTypeOK, Closed
<1>2. CASE left = 0
  <2>1. left' = Closed /\ consec' = 0 /\ run' = 0 /\ torn' = (torn \/ Reading(t))
    BY <1>2 DEF LetsThrough, Reset
  <2>2. BreakerTypeOK'
    BY <1>1, <2>1 DEF BreakerInv, BreakerTypeOK, CounterCap, Closed
  <2>3. ~torn' => \A u \in Thread : pc'[u] # "read"
    BY <2>1, Zenon DEF Reading
  <2> QED
    BY <1>1, <2>1, <2>2, <2>3 DEF BreakerInv
<1>3. CASE left # 0
  <2>1. UNCHANGED <<left, consec, run, torn>>
    BY <1>3 DEF LetsThrough
  <2>2. BreakerTypeOK'
    BY <2>1 DEF BreakerInv, BreakerTypeOK, CounterCap, Closed
  <2> QED
    BY <2>1, <2>2, Zenon DEF BreakerInv
<1> QED
  BY <1>2, <1>3

(* _record(False), between whose steps other threads may run. *)
LEMMA RecordKeeps ==
  ASSUME BreakerInv, NEW t \in Thread, RecordOk(t) \/ ErrRead(t) \/ ErrWrite(t) \/ ErrOpen(t)
  PROVE  BreakerInv'
<1>1. Threshold \in Nat \ {0} /\ Penalty \in Nat /\ Penalty # Closed
  BY BreakerAssumption DEF BreakerAssumption, Closed
<1>2. CASE RecordOk(t)
  <2>1. BreakerTypeOK'
    BY <1>1, <1>2 DEF RecordOk, BreakerInv, BreakerTypeOK, CounterCap, Closed
  <2>2. ~torn' => \A u \in Thread : pc'[u] # "read"
    BY <1>2, Zenon DEF RecordOk, Reading, BreakerInv, BreakerTypeOK
  <2> QED
    BY <1>1, <1>2, <2>1, <2>2 DEF RecordOk, BreakerInv
<1>3. CASE ErrRead(t)
  <2>1. BreakerTypeOK'
    BY <1>3 DEF ErrRead, BreakerInv, BreakerTypeOK, CounterCap, Closed
  <2>2. \A u \in Thread : pc[u] = "written" => pc'[u] = "written"
    BY <1>3 DEF ErrRead, BreakerInv, BreakerTypeOK
  <2>3. seen'[t] = consec /\ \A u \in Thread \ {t} : pc'[u] = pc[u] /\ seen'[u] = seen[u]
    BY <1>3 DEF ErrRead, BreakerInv, BreakerTypeOK
  <2> QED
    BY <1>3, <2>1, <2>2, <2>3 DEF ErrRead, BreakerInv
<1>4. CASE ErrWrite(t)
  <2>1. seen[t] \in 0 .. CounterCap /\ run \in 0 .. CounterCap
    BY DEF BreakerInv, BreakerTypeOK
  <2>2. Up(seen[t]) \in 0 .. CounterCap /\ Up(run) \in 0 .. CounterCap
    BY <1>1, <2>1 DEF Up, CounterCap
  <2>3. BreakerTypeOK'
    BY <1>1, <1>4, <2>2 DEF ErrWrite, BreakerInv, BreakerTypeOK, CounterCap, Closed
  <2>4. pc'[t] = "written" /\ (~torn' => ~torn /\ \A u \in Thread : pc'[u] # "read")
    BY <1>4, Zenon DEF ErrWrite, Reading, BreakerInv, BreakerTypeOK
  <2>5. ~torn' => consec' = run'
    BY <1>4, <2>4 DEF ErrWrite, BreakerInv
  <2> QED
    BY <2>3, <2>4, <2>5, Zenon DEF BreakerInv
<1>5. CASE ErrOpen(t)
  <2>1. BreakerTypeOK'
    BY <1>1, <1>5 DEF ErrOpen, BreakerInv, BreakerTypeOK, CounterCap, Closed
  <2>2. \A u \in Thread : pc'[u] = "read" => pc[u] = "read"
    BY <1>5 DEF ErrOpen, BreakerInv, BreakerTypeOK
  <2>3. ~torn' /\ run' >= Threshold => left' # Closed
    BY <1>1, <1>5 DEF ErrOpen, Opens, BreakerInv
  <2> QED
    BY <1>5, <2>1, <2>2, <2>3 DEF ErrOpen, BreakerInv
<1> QED
  BY <1>2, <1>3, <1>4, <1>5

(* Every step of the executor keeps the breaker's books. *)
LEMMA CircuitStep ==
  ASSUME CircuitInv, [AcctNext]_acctSpecVars
  PROVE  CircuitInv'
<1> DEFINE At == [Thread -> {"none", "query", "retry", "ok", "err"}]
<1>0. /\ at \in At /\ BreakerInv
      /\ pc \in [Thread -> {"idle", "asked", "read", "written"}]
  BY DEF CircuitInv, BreakerInv, BreakerTypeOK
<1>1. ASSUME UNCHANGED breakerVars PROVE BreakerInv'
  BY <1>0, <1>1 DEF breakerVars, BreakerInv, BreakerTypeOK, CounterCap, Closed
<1>2. CASE UNCHANGED acctSpecVars
  BY <1>1, <1>2 DEF acctSpecVars, acctVars, breakerVars, CircuitInv, AheadInv
<1>3. CASE \E s \in Sess : DispatchRecord(s)
  <2>1. UNCHANGED <<pc, seen, at>>
    BY <1>3 DEF DispatchRecord
  <2>2. BreakerInv'
    <3>1. CASE LetsThrough(Main)
      BY <1>0, <2>1, <3>1, AccountingAssumption, LetsThroughKeeps DEF AccountingAssumption
    <3>2. CASE ~LetsThrough(Main)
      BY <1>1, <1>3, <2>1, <3>2 DEF DispatchRecord, breakerVars
    <3> QED
      BY <3>1, <3>2
  <2> QED
    BY <2>1, <2>2 DEF CircuitInv, AheadInv
<1>4. CASE \E s \in Sess : NewSession(s)
  BY <1>1, <1>4 DEF NewSession, breakerVars, CircuitInv, AheadInv
<1>5. ASSUME NEW t \in Thread, TakeRecord(t) PROVE CircuitInv'
  <2>1. CASE UNCHANGED <<breakerVars, job, at>>
    BY <1>1, <2>1 DEF breakerVars, CircuitInv, AheadInv
  <2>2. CASE Ask(t) /\ at' = [at EXCEPT ![t] = "query"]
    <3>1. pc' = [pc EXCEPT ![t] = "asked"] /\ pc[t] = "idle" /\ seen' = seen /\ LetsThrough(t)
      BY <2>2 DEF Ask
    <3>2. BreakerInv'
      BY <1>0, <3>1, LetsThroughKeeps
    <3> QED
      BY <1>0, <2>2, <3>1, <3>2 DEF CircuitInv, AheadInv
  <2> QED
    BY <1>5, <2>1, <2>2 DEF TakeRecord
<1>6. ASSUME NEW t \in Thread, Answered(t) \/ ConnectionLost(t) \/ Refused(t) \/ Mistaken(t) PROVE CircuitInv'
  <2>1. at[t] \in {"query", "retry"} /\ UNCHANGED breakerVars
    BY <1>6 DEF Answered, ConnectionLost, Refused, Mistaken
  <2>2. PICK a \in {"ok", "retry", "err"} : at' = [at EXCEPT ![t] = a]
    BY <1>6 DEF Answered, ConnectionLost, Refused, Mistaken, AfterLoss
  <2>3. pc' = pc
    BY <2>1 DEF breakerVars
  <2> QED
    BY <1>0, <1>1, <2>1, <2>2, <2>3 DEF CircuitInv, AheadInv
<1>7. ASSUME NEW t \in Thread, QueryRaised(t) PROVE CircuitInv'
  <2>1. pc[t] = "asked" /\ pc' = [pc EXCEPT ![t] = "idle"] /\ at' = [at EXCEPT ![t] = "none"]
    BY <1>7 DEF QueryRaised, Finish, CircuitInv, AheadInv
  <2>2. UNCHANGED <<consec, left, seen, run, torn>>
    BY <1>7 DEF QueryRaised
  <2>3. BreakerInv'
    BY <1>0, <2>1, <2>2 DEF BreakerInv, BreakerTypeOK, CounterCap, Closed
  <2> QED
    BY <1>0, <2>1, <2>3 DEF CircuitInv, AheadInv
<1>8. ASSUME NEW t \in Thread, account(t) PROVE CircuitInv'
  <2>1. BreakerInv'
    BY <1>0, <1>8, RecordKeeps DEF account
  <2>2. CASE at' = [at EXCEPT ![t] = "none"] /\ \A u \in Thread \ {t} : pc'[u] = pc[u]
    BY <1>0, <2>1, <2>2 DEF CircuitInv, AheadInv
  <2>3. CASE at' = at /\ at[t] = "err" /\ \A u \in Thread \ {t} : pc'[u] = pc[u]
    BY <1>0, <2>1, <2>3 DEF CircuitInv, AheadInv
  <2> QED
    BY <1>0, <1>8, <2>2, <2>3 DEF account, Finish, RecordOk, ErrRead, ErrWrite, ErrOpen, acctVars
<1>9. CASE Tick /\ UNCHANGED acctVars
  <2>1. left' = left - 1 /\ left > 0 /\ UNCHANGED <<consec, pc, seen, run, torn, at>>
    BY <1>9 DEF Tick, acctVars
  <2>2. left' \in Closed .. Penalty /\ left' # Closed
    BY <1>0, <2>1, BreakerAssumption DEF BreakerAssumption, BreakerInv, BreakerTypeOK, Closed
  <2>3. BreakerInv'
    BY <1>0, <2>1, <2>2 DEF BreakerInv, BreakerTypeOK, CounterCap
  <2> QED
    BY <1>0, <2>1, <2>3 DEF CircuitInv, AheadInv
<1> QED
  BY <1>2, <1>3, <1>4, <1>5, <1>6, <1>7, <1>8, <1>9, Zenon DEF AcctNext, AcctWorkerStep

(* A backend that has failed Threshold times in a row is out of use once    *)
(* the threads have recorded it, however many of them share its counter,    *)
(* unless a thread switch hit an increment.                                 *)
THEOREM BreakerCorrect == AcctSpec => []OpenAfterThreshold
<1>1. AcctInit => CircuitInv
  <2> SUFFICES ASSUME AcctInit PROVE CircuitInv
    OBVIOUS
  <2>1. Threshold \in Nat \ {0} /\ Penalty \in Nat
    BY BreakerAssumption DEF BreakerAssumption
  <2>2. BreakerTypeOK
    <3>1. torn \in BOOLEAN
      BY Zenon DEF AcctInit, BreakerInit
    <3>2. consec \in 0 .. CounterCap /\ run \in 0 .. CounterCap /\ left \in Closed .. Penalty
      BY <2>1 DEF AcctInit, BreakerInit, CounterCap, Closed
    <3>3. pc \in [Thread -> {"idle", "asked", "read", "written"}] /\ seen \in [Thread -> 0 .. CounterCap]
      BY <2>1 DEF AcctInit, BreakerInit, CounterCap
    <3> QED
      BY <3>1, <3>2, <3>3 DEF BreakerTypeOK
  <2>3. BreakerInv
    BY <2>1, <2>2 DEF AcctInit, BreakerInit, BreakerInv
  <2> QED
    BY <2>3 DEF AcctInit, CircuitInv, AheadInv
<1>2. CircuitInv => OpenAfterThreshold
  BY Zenon DEF CircuitInv, BreakerInv, OpenAfterThreshold
<1> QED
  BY <1>1, <1>2, CircuitStep, PTL DEF AcctSpec

-----------------------------------------------------------------------------
(* The rows of radacct.                                                     *)

(* The row that the records up to number k make, run one after the other. *)
RowAt(k) == IF k = 0 THEN NoRow
            ELSE IF k = STOP THEN [stopped |-> TRUE, octets |-> k] ELSE [stopped |-> FALSE, octets |-> k]

RowInv ==
  /\ queue \in Seq(Record)
  /\ at \in [Thread -> {"none", "query", "retry", "ok", "err"}]
  /\ job \in [Thread -> Record \cup {NoJob}]
  /\ \A t \in Thread : at[t] \in {"query", "retry"} => job[t] \in Record
  /\ sent \in [Sess -> 0 .. STOP]
  /\ upto \in [Sess -> 0 .. STOP]
  /\ row = [s \in Sess |-> row[s]]
  /\ \A s \in Sess \ late : row[s] = RowAt(upto[s])

(* Record k, run again or in its turn, makes the row what it is to be. *)
LEMMA StoredInTurn ==
  ASSUME NEW u \in 0 .. STOP, NEW k \in {START, UPDATE, STOP}, k \in {u, u + 1}
  PROVE  Stored(RowAt(u), k) = RowAt(IF k > u THEN k ELSE u)
<1> DEFINE Open(x) == [stopped |-> FALSE, octets |-> x]
           Done    == [stopped |-> TRUE, octets |-> 3]
<1>1. u \in {0, 1, 2, 3} /\ k \in {1, 2, 3} /\ (k = u \/ k = u + 1)
  BY DEF START, UPDATE, STOP
<1>2. RowAt(0) = NoRow /\ RowAt(1) = Open(1) /\ RowAt(2) = Open(2) /\ RowAt(3) = Done
  BY DEF RowAt, STOP
<1>3. Open(1) # NoRow /\ Open(2) # NoRow /\ Done # NoRow
  BY DEF NoRow
<1>4. Stored(NoRow, 1) = Open(1) /\ Stored(Open(1), 1) = Open(1)
  BY <1>3 DEF Stored, START
<1>5. Stored(Open(1), 2) = Open(2) /\ Stored(Open(2), 2) = Open(2)
  <2>1. 2 # START /\ 2 # STOP
    BY DEF START, STOP
  <2> QED
    BY <1>3, <2>1, Zenon DEF Stored
<1>6. Stored(Open(2), 3) = Done /\ Stored(Done, 3) = Done
  <2>1. 3 # START /\ 3 = STOP
    BY DEF START, STOP
  <2> QED
    BY <1>3, <2>1, Zenon DEF Stored
<1> HIDE DEF Open, Done
<1>7. CASE k = u
  BY <1>1, <1>2, <1>4, <1>5, <1>6, <1>7
<1>8. CASE k = u + 1
  BY <1>1, <1>2, <1>4, <1>5, <1>6, <1>8
<1> QED
  BY <1>1, <1>7, <1>8

(* The server runs a query, for the first time or again. *)
LEMMA RunKeeps ==
  ASSUME RowInv, NEW t \in Thread, at[t] \in {"query", "retry"}, Run(t)
  PROVE  /\ upto' \in [Sess -> 0 .. STOP] /\ row' = [s \in Sess |-> row'[s]]
         /\ \A s \in Sess \ late' : row'[s] = RowAt(upto'[s])
<1> DEFINE s == job[t][1]
           k == job[t][2]
<1>1. s \in Sess /\ k \in {START, UPDATE, STOP}
  BY DEF RowInv, Record
<1>2. /\ row' = [row EXCEPT ![s] = Stored(row[s], k)]
      /\ upto' = [upto EXCEPT ![s] = IF k > upto[s] THEN k ELSE upto[s]]
      /\ late \subseteq late' /\ (k \in {upto[s], upto[s] + 1} \/ s \in late')
  BY Zenon DEF Run
<1> HIDE DEF s, k
<1>3. upto' \in [Sess -> 0 .. STOP]
  BY <1>1, <1>2 DEF RowInv, START, UPDATE, STOP
<1>5. row' = [q \in Sess |-> row'[q]]
  BY <1>1, <1>2, Zenon DEF RowInv
<1>6. \A q \in Sess \ late' : q # s => row'[q] = RowAt(upto'[q])
  BY <1>1, <1>2 DEF RowInv
<1>7. s \notin late' => row'[s] = RowAt(upto'[s])
  <2> SUFFICES ASSUME s \notin late' PROVE row'[s] = RowAt(upto'[s])
    BY Zenon
  <2>1. row[s] = RowAt(upto[s]) /\ upto[s] \in 0 .. STOP /\ k \in {upto[s], upto[s] + 1}
    BY <1>1, <1>2, SMTT(20) DEF RowInv
  <2>2. Stored(row[s], k) = RowAt(IF k > upto[s] THEN k ELSE upto[s])
    BY <1>1, <2>1, StoredInTurn
  <2> QED
    BY <1>1, <1>2, <2>2 DEF RowInv
<1> QED
  BY <1>3, <1>5, <1>6, <1>7

(* Every step of the executor leaves the rows as the records made them. *)
LEMMA RowStep ==
  ASSUME RowInv, [AcctNext]_acctSpecVars
  PROVE  RowInv'
<1> DEFINE At == [Thread -> {"none", "query", "retry", "ok", "err"}]
           Rows == \A s \in Sess \ late : row[s] = RowAt(upto[s])
<1>0. /\ queue \in Seq(Record) /\ at \in At /\ job \in [Thread -> Record \cup {NoJob}]
      /\ sent \in [Sess -> 0 .. STOP]
  BY DEF RowInv
<1>1. ASSUME UNCHANGED <<row, upto, late>>
      PROVE  upto' \in [Sess -> 0 .. STOP] /\ row' = [s \in Sess |-> row'[s]] /\ Rows'
  BY <1>1 DEF RowInv
<1>2. CASE UNCHANGED acctSpecVars
  BY <1>2 DEF acctSpecVars, acctVars, RowInv
<1>3. ASSUME NEW s \in Sess, DispatchRecord(s) PROVE RowInv'
  <2>1. UNCHANGED <<job, at, row, upto, late>> /\ sent' = [sent EXCEPT ![s] = sent[s] + 1] /\ sent[s] < STOP
    BY <1>3 DEF DispatchRecord
  <2>2. sent[s] \in 0 .. STOP
    BY <1>0
  <2>3. sent' \in [Sess -> 0 .. STOP] /\ sent'[s] \in {START, UPDATE, STOP}
    BY <1>0, <2>1, <2>2 DEF START, UPDATE, STOP
  <2>4. <<s, sent'[s]>> \in Record
    BY <2>3 DEF Record
  <2>5. queue' \in Seq(Record)
    <3>1. PICK r \in Record : queue' = Append(queue, r) \/ queue' = queue
      BY <1>3, <2>4 DEF DispatchRecord
    <3> QED
      BY <1>0, <3>1
  <2> QED
    BY <1>1, <2>1, <2>3, <2>5 DEF RowInv
<1>4. ASSUME NEW s \in Sess, NewSession(s) PROVE RowInv'
  <2>1. /\ sent' = [sent EXCEPT ![s] = 0] /\ row' = [row EXCEPT ![s] = NoRow] /\ upto' = [upto EXCEPT ![s] = 0]
        /\ late' = late \ {s} /\ UNCHANGED <<queue, job, at>>
    BY <1>4 DEF NewSession
  <2>2. 0 \in 0 .. STOP
    BY DEF STOP
  <2>3. sent' \in [Sess -> 0 .. STOP] /\ upto' \in [Sess -> 0 .. STOP] /\ row' = [q \in Sess |-> row'[q]]
    BY <1>0, <2>1, <2>2, Zenon DEF RowInv
  <2>4. \A q \in Sess \ late' : row'[q] = RowAt(upto'[q])
    BY <2>1, Zenon DEF RowInv, RowAt
  <2> QED
    BY <1>0, <2>1, <2>3, <2>4 DEF RowInv
<1>5. ASSUME NEW t \in Thread, TakeRecord(t) PROVE RowInv'
  <2>1. queue # <<>> /\ queue' = Tail(queue) /\ UNCHANGED <<sent, row, upto, late>>
    BY <1>5 DEF TakeRecord
  <2>2. Head(queue) \in Record /\ queue' \in Seq(Record)
    BY <1>0, <2>1
  <2>3. CASE UNCHANGED <<job, at>>
    BY <1>1, <2>1, <2>2, <2>3 DEF RowInv
  <2>4. CASE job' = [job EXCEPT ![t] = Head(queue)] /\ at' = [at EXCEPT ![t] = "query"]
    <3>1. job' \in [Thread -> Record \cup {NoJob}] /\ at' \in At
      BY <1>0, <2>2, <2>4
    <3>2. \A u \in Thread : at'[u] \in {"query", "retry"} => job'[u] \in Record
      BY <1>0, <2>2, <2>4 DEF RowInv
    <3> QED
      BY <1>0, <1>1, <2>1, <2>2, <3>1, <3>2 DEF RowInv
  <2> QED
    BY <1>5, <2>3, <2>4 DEF TakeRecord
<1>6. ASSUME NEW t \in Thread, Answered(t) \/ ConnectionLost(t) \/ Refused(t) \/ Mistaken(t) PROVE RowInv'
  <2>1. at[t] \in {"query", "retry"} /\ UNCHANGED <<sent, queue, job>>
    BY <1>6 DEF Answered, ConnectionLost, Refused, Mistaken
  <2>2. PICK a \in {"ok", "retry", "err"} : at' = [at EXCEPT ![t] = a]
    BY <1>6 DEF Answered, ConnectionLost, Refused, Mistaken, AfterLoss
  <2>3. Run(t) \/ UNCHANGED <<row, upto, late>>
    BY <1>6 DEF Answered, ConnectionLost, Refused, Mistaken
  <2>4. upto' \in [Sess -> 0 .. STOP] /\ row' = [s \in Sess |-> row'[s]] /\ Rows'
    BY <1>1, <2>1, <2>3, RunKeeps
  <2>5. at' \in At /\ \A u \in Thread : at'[u] \in {"query", "retry"} => job[u] \in Record
    BY <1>0, <2>1, <2>2 DEF RowInv
  <2> QED
    BY <1>0, <2>1, <2>4, <2>5 DEF RowInv
<1>7. ASSUME NEW t \in Thread, Finish(t) PROVE RowInv'
  <2>1. /\ job' = [job EXCEPT ![t] = NoJob] /\ at' = [at EXCEPT ![t] = "none"]
        /\ UNCHANGED <<sent, queue, row, upto, late>>
    BY <1>7 DEF Finish
  <2>2. job' \in [Thread -> Record \cup {NoJob}] /\ at' \in At
    BY <1>0, <2>1
  <2>3. \A u \in Thread : at'[u] \in {"query", "retry"} => job'[u] \in Record
    BY <1>0, <2>1 DEF RowInv
  <2> QED
    BY <1>0, <1>1, <2>1, <2>2, <2>3 DEF RowInv
<1>8. ASSUME NEW t \in Thread, QueryRaised(t) \/ account(t) PROVE RowInv'
  <2>1. Finish(t) \/ UNCHANGED acctVars
    BY <1>8 DEF QueryRaised, account
  <2> QED
    BY <1>7, <2>1, SMTT(20) DEF acctVars, RowInv
<1>9. CASE Tick /\ UNCHANGED acctVars
  BY <1>9 DEF acctVars, RowInv
<1> QED
  BY <1>2, <1>3, <1>4, <1>5, <1>6, <1>8, <1>9, Zenon DEF AcctNext, AcctWorkerStep

(* However often the workers repeat a query whose connection was lost, and  *)
(* whatever fails in between, records that the server has run in turn leave *)
(* the row closed with the counters of the STOP.                            *)
THEOREM RowCorrect == AcctSpec => []RowIsFinal
<1>1. AcctInit => RowInv
  BY DEF AcctInit, RowInv, RowAt, STOP
<1>2. RowInv => RowIsFinal
  BY DEF RowInv, RowIsFinal, RowAt, STOP
<1> QED
  BY <1>1, <1>2, RowStep, PTL DEF AcctSpec
=============================================================================
