--------------------------- MODULE Control_proofs ---------------------------
(***************************************************************************)
(* The requests of the clients reach the sessions they were meant for, for  *)
(* any number of sessions, addresses, ports and clients.                    *)
(*                                                                          *)
(* What a client knows stays true of the table as long as its sessions      *)
(* live (KnowInv), and a table without double addresses and ports           *)
(* (TableUnique) leaves isg_equal no choice, except where the event         *)
(* has no port and 0 stands for one.                                        *)
(***************************************************************************)
EXTENDS Control, TLAPS

-----------------------------------------------------------------------------
(* The session table keeps addresses and ports apart, whatever its size.    *)

TableInv == TableTypeOK /\ UniqueAddresses /\ UniquePorts

(* A new session takes an address that has none and a port that is free. *)
LEMMA StartKeeps ==
  ASSUME TableInv, NEW o \in Slot, NEW ip \in IP, Start(o, ip)
  PROVE  TableInv'
<1>1. PICK p \in Port \ bitmap :
        /\ tab' = [tab EXCEPT ![o] = [ip |-> ip, port |-> p, approved |-> FALSE]]
        /\ bitmap' = bitmap \cup {p}
  BY Zenon DEF Start
<1>2. tab'[o].ip = ip /\ tab'[o].port = p /\ tab'[o] # Absent
  BY <1>1, TableAssumption DEF TableInv, TableTypeOK, Absent
<1>3. \A q \in Slot : q # o => tab'[q] = tab[q]
  BY <1>1 DEF TableInv, TableTypeOK
<1>4. Linked' = Linked \cup {o}
  BY <1>2, <1>3 DEF Linked, Absent
<1>5. \A q \in Linked : q \in Slot /\ q # o /\ tab[q].ip # ip /\ tab[q].port \in bitmap
  BY DEF Linked, Start, SessionOf, TableInv, UniquePorts
<1>6. TableTypeOK'
  <2>1. [ip |-> ip, port |-> p, approved |-> FALSE] \in Session
    BY <1>1 DEF Session
  <2>2. tab' \in [Slot -> Session \cup {Absent}]
    BY <1>1, <2>1 DEF TableInv, TableTypeOK
  <2>3. bitmap' \subseteq Port
    BY <1>1 DEF TableInv, TableTypeOK
  <2>4. overlapped' \in BOOLEAN
    BY DEF Start, TableInv, TableTypeOK
  <2> QED
    BY <2>2, <2>3, <2>4 DEF TableTypeOK, Session, Absent, Port
<1>7. UniqueAddresses'
  BY <1>2, <1>3, <1>4, <1>5 DEF TableInv, UniqueAddresses
<1>8. UniquePorts'
  BY <1>1, <1>2, <1>3, <1>4, <1>5 DEF TableInv, UniquePorts
<1> QED
  BY <1>6, <1>7, <1>8 DEF TableInv

(* An approval touches neither. *)
LEMMA ApproveKeeps ==
  ASSUME TableInv, NEW o \in Slot, Approve(o)
  PROVE  TableInv'
<1>1. tab[o] \in Session
  BY DEF Approve, Linked, TableInv, TableTypeOK
<1>2. tab'[o] = [ip |-> tab[o].ip, port |-> tab[o].port, approved |-> TRUE]
  BY DEF Approve, TableInv, TableTypeOK
<1>3. tab'[o] \in Session /\ tab'[o] # Absent /\ tab'[o].ip = tab[o].ip /\ tab'[o].port = tab[o].port
  BY <1>1, <1>2, TableAssumption DEF Session, Absent
<1>4. \A q \in Slot : q # o => tab'[q] = tab[q]
  BY DEF Approve, TableInv, TableTypeOK
<1>5. Linked' = Linked
  BY <1>3, <1>4 DEF Linked, Absent, Approve
<1>6. TableTypeOK'
  <2>1. tab' \in [Slot -> Session \cup {Absent}]
    BY <1>2, <1>3 DEF Approve, TableInv, TableTypeOK
  <2> QED
    BY <2>1 DEF Approve, TableInv, TableTypeOK, Session, Absent, Port
<1>7. \A q \in Linked : tab'[q].ip = tab[q].ip /\ tab'[q].port = tab[q].port
  BY <1>3, <1>4 DEF Linked
<1>8. bitmap' = bitmap
  BY DEF Approve
<1>9. UniqueAddresses' /\ UniquePorts'
  BY <1>5, <1>7, <1>8 DEF TableInv, UniqueAddresses, UniquePorts
<1> QED
  BY <1>6, <1>9 DEF TableInv

(* The end of a session frees its port and that of no other. *)
LEMMA EndKeeps ==
  ASSUME TableInv, NEW o \in Slot, End(o)
  PROVE  TableInv' /\ Linked' = Linked \ {o} /\ \A q \in Slot : q # o => tab'[q] = tab[q]
<1>1. tab'[o] = Absent
  BY DEF End, TableInv, TableTypeOK
<1>2. \A q \in Slot : q # o => tab'[q] = tab[q]
  BY DEF End, TableInv, TableTypeOK
<1>3. Linked' = Linked \ {o}
  BY <1>1, <1>2 DEF Linked, Absent
<1>4. TableTypeOK'
  <2>1. tab' \in [Slot -> Session \cup {Absent}]
    BY DEF End, TableInv, TableTypeOK
  <2> QED
    BY <2>1, Zenon DEF End, TableInv, TableTypeOK, Session, Absent, Port
<1>5. \A q \in Linked \ {o} : tab[q].port \in bitmap'
  BY DEF End, TableInv, UniquePorts
<1>6. UniqueAddresses' /\ UniquePorts'
  BY <1>2, <1>3, <1>5 DEF TableInv, UniqueAddresses, UniquePorts, Linked
<1> QED
  BY <1>2, <1>3, <1>4, <1>6 DEF TableInv

(* Sessions of the table have addresses and ports of their own: no packet  *)
(* finds two sessions for its address, and a request that names a port      *)
(* (isg_find_session) means one session.                                    *)
THEOREM TableUnique == TableSpec => [](UniqueAddresses /\ UniquePorts)
<1>1. TableInit => TableInv
  <2> SUFFICES ASSUME TableInit PROVE TableInv
    OBVIOUS
  <2>1. Linked = {}
    BY DEF TableInit, Linked
  <2> QED
    BY <2>1, Zenon DEF TableInit, TableInv, TableTypeOK, UniqueAddresses, UniquePorts
<1>2. ASSUME TableInv, [TableNext]_tableVars PROVE TableInv'
  <2>1. CASE Overlap
    <3>1. Linked' = {}
      BY <2>1 DEF Overlap, Linked, Absent
    <3> QED
      BY <2>1, <3>1 DEF Overlap, TableInv, TableTypeOK, UniqueAddresses, UniquePorts, Session, Absent, Port
  <2>2. CASE UNCHANGED tableVars
    BY <1>2, <2>2 DEF tableVars, TableInv, TableTypeOK, UniqueAddresses, UniquePorts, Linked, Session,
                      Absent, Port
  <2> QED
    BY <1>2, <2>1, <2>2, StartKeeps, ApproveKeeps, EndKeeps DEF TableNext
<1>3. TableInv => UniqueAddresses /\ UniquePorts
  BY DEF TableInv
<1> QED
  BY <1>1, <1>2, <1>3, PTL DEF TableSpec

-----------------------------------------------------------------------------
(* The clients.                                                             *)

(* An event has what its kind names and zeros elsewhere. *)
WellFormed(t) ==
  /\ t.kind # "id" => t.id = NoId
  /\ t.kind \in {"id", "port"} => t.ip = NoIP
  /\ t.kind \in {"id", "ip"} => t.port = 0

NamesIn(tb, t, o) ==
  CASE t.kind = "id"   -> o = t.id
    [] t.kind = "port" -> tb[o].port = t.port
    [] t.kind = "ip"   -> tb[o].ip = t.ip
    [] t.kind = "both" -> tb[o].port = t.port /\ tb[o].ip = t.ip

(* What a client in state p that knows of sessions s has right. *)
Knows(tb, p, t, s, td) ==
  /\ \A o \in s : o \in Slot /\ tb[o] # Absent
  /\ p = "idle" => s = {}
  /\ p \in {"send", "refresh", "wait"} => \A o \in s : NamesIn(tb, t, o)
  /\ p = "sweep" => \A o \in s : tb[o].port \in td
  /\ WellFormed(t)

KnowInv == \A c \in Client : Knows(tab, pc[c], tgt[c], same[c], todo[c])

CtlInv == TypeOK /\ TableInv /\ KnowInv

(* A session that is there has an address and a number of its own. *)
LEMMA OfLinked ==
  ASSUME TableInv, NEW o \in Linked
  PROVE  o \in Slot /\ o # NoId /\ tab[o].ip # NoIP /\ tab[o].port \in Port
<1>1. o \in Slot /\ tab[o] \in Session
  BY DEF Linked, TableInv, TableTypeOK
<1> QED
  BY <1>1, ControlAssumption, TableAssumption DEF Session

(* The heart of it: an event that names session q fits q, and besides it    *)
(* only what is on port 0 when the event has no port.                       *)
LEMMA OnlyTheNamed ==
  ASSUME TableInv, NEW t \in Target, WellFormed(t), NEW q \in Linked, NamesIn(tab, t, q),
         NEW o \in Slot, isg_equal(t, o)
  PROVE  o = q \/ (t.kind \in {"id", "ip"} /\ tab[o].port = 0)
<1>1. o \in Linked
  BY DEF isg_equal
<1>2. tab[o].port = tab[q].port => o = q
  BY <1>1 DEF TableInv, UniquePorts
<1>3. tab[o].ip = tab[q].ip => o = q
  BY <1>1 DEF TableInv, UniqueAddresses
<1>4. o # NoId /\ tab[o].ip # NoIP
  BY <1>1, OfLinked
<1>5. CASE t.kind = "id"
  BY <1>4, <1>5 DEF isg_equal, NamesIn, WellFormed
<1>6. CASE t.kind = "port"
  BY <1>2, <1>4, <1>6 DEF isg_equal, NamesIn, WellFormed
<1>7. CASE t.kind = "ip"
  BY <1>3, <1>4, <1>7 DEF isg_equal, NamesIn, WellFormed
<1>8. CASE t.kind = "both"
  BY <1>2, <1>3, <1>4, <1>8 DEF isg_equal, NamesIn, WellFormed
<1> QED
  BY <1>5, <1>6, <1>7, <1>8 DEF Target, Kind

(* What a client knows survives a start, *)
LEMMA KnowsStart ==
  ASSUME TableInv, NEW o \in Slot, NEW ip \in IP, Start(o, ip),
         NEW p, NEW t, NEW s, NEW td, Knows(tab, p, t, s, td)
  PROVE  Knows(tab', p, t, s, td)
<1>1. \A q \in Slot : q # o => tab'[q] = tab[q]
  BY DEF Start, TableInv, TableTypeOK
<1>2. \A q \in s : q \in Slot /\ q # o
  BY DEF Knows, Start, Linked
<1>3. \A q \in s : tab'[q] = tab[q]
  BY <1>1, <1>2
<1> QED
  BY <1>3, Zenon DEF Knows, NamesIn, Absent

(* an approval, *)
LEMMA KnowsApprove ==
  ASSUME TableInv, NEW o \in Slot, Approve(o),
         NEW p, NEW t, NEW s, NEW td, Knows(tab, p, t, s, td)
  PROVE  Knows(tab', p, t, s, td)
<1>1. \A q \in Slot : q # o => tab'[q] = tab[q]
  BY DEF Approve, TableInv, TableTypeOK
<1>2. tab'[o] = [ip |-> tab[o].ip, port |-> tab[o].port, approved |-> TRUE]
  BY DEF Approve, TableInv, TableTypeOK
<1>3. tab'[o] # Absent /\ tab'[o].ip = tab[o].ip /\ tab'[o].port = tab[o].port
  BY <1>2 DEF Absent
<1>4. \A q \in s : tab'[q] # Absent /\ tab'[q].ip = tab[q].ip /\ tab'[q].port = tab[q].port
  BY <1>1, <1>3 DEF Knows
<1> QED
  BY <1>4, Zenon DEF Knows, NamesIn, Absent

(* and the end of a session, once that is struck out. *)
LEMMA KnowsEnd ==
  ASSUME TableInv, NEW o \in Slot, End(o),
         NEW p, NEW t \in Target, NEW s, NEW td, Knows(tab, p, t, s, td), NEW u,
         u = IF t.id = o THEN [kind |-> t.kind, id |-> NoId, port |-> t.port, ip |-> t.ip] ELSE t
  PROVE  Knows(tab', p, u, s \ {o}, td)
<1>1. \A q \in Slot : q # o => tab'[q] = tab[q]
  BY DEF End, TableInv, TableTypeOK
<1>2. \A q \in s \ {o} : tab'[q] = tab[q]
  BY <1>1 DEF Knows
<1>3. u.kind = t.kind /\ u.port = t.port /\ u.ip = t.ip /\ (t.id # o => u.id = t.id)
      /\ (t.id = o => u.id = NoId)
  OBVIOUS
<1>4. WellFormed(u)
  BY <1>3 DEF Knows, WellFormed
<1>5. \A q \in s \ {o} : NamesIn(tab, t, q) => NamesIn(tab', u, q)
  BY <1>2, <1>3, Zenon DEF NamesIn, Target, Kind
<1> QED
  BY <1>2, <1>4, <1>5, Zenon DEF Knows, Absent

-----------------------------------------------------------------------------
ClientTypeOK ==
  /\ pc \in [Client -> {"idle", "send", "sweep", "refresh", "wait"}]
  /\ tgt \in [Client -> Target]
  /\ upd \in [Client -> Operation]
  /\ same \in [Client -> SUBSET Slot]
  /\ todo \in [Client -> SUBSET Port]
  /\ mode \in [Client -> {"plain", "clear", "edit"}]
  /\ shown \in [Client -> {"none", "approved", "unapproved"}]

KernelOK == TableInv /\ ~overlapped /\ lim \in [Slot -> Limits]

(* With what clients know being S and T, they are right about the new table. *)
RightAfter(S, T) ==
  /\ S \in [Client -> SUBSET Slot] /\ T \in [Client -> Target]
  /\ \A c \in Client : Knows(tab', pc[c], T[c], S[c], todo[c])

OnlyChanges(o) == \A q \in Slot : q # o => tab'[q] = tab[q] /\ lim'[q] = lim[q]

(* The parts of the invariant, here and in the next state. *)
LEMMA Split == CtlInv <=> KernelOK /\ ClientTypeOK /\ KnowInv
  BY DEF CtlInv, TypeOK, KernelOK, ClientTypeOK, TableInv

LEMMA Join == KernelOK' /\ ClientTypeOK' /\ KnowInv' => CtlInv'
  BY DEF CtlInv, TypeOK, KernelOK, ClientTypeOK, TableInv

(* The end of a session. *)
LEMMA AfterEnd ==
  ASSUME CtlInv, NEW o \in Slot, End(o), UNCHANGED lim
  PROVE  KernelOK' /\ RightAfter(SameWithout(o), TgtWithout(o)) /\ OnlyChanges(o)
<1> USE Split
<1>1. KernelOK'
  <2>1. TableInv'
    BY EndKeeps DEF KernelOK
  <2>2. ~overlapped' /\ lim' \in [Slot -> Limits]
    BY DEF KernelOK, End
  <2> QED
    BY <2>1, <2>2 DEF KernelOK
<1>2. SameWithout(o) \in [Client -> SUBSET Slot]
  BY DEF SameWithout, ClientTypeOK
<1>3. \A c \in Client : [kind |-> tgt[c].kind, id |-> NoId, port |-> tgt[c].port, ip |-> tgt[c].ip] \in Target
  BY DEF ClientTypeOK, Target
<1>4. TgtWithout(o) \in [Client -> Target]
  BY <1>3 DEF TgtWithout, ClientTypeOK
<1>5. ASSUME NEW c \in Client
      PROVE  Knows(tab', pc[c], TgtWithout(o)[c], SameWithout(o)[c], todo[c])
  <2>1. Knows(tab, pc[c], tgt[c], same[c], todo[c])
    BY DEF KnowInv
  <2>2. SameWithout(o)[c] = same[c] \ {o}
    BY DEF SameWithout
  <2>3. TgtWithout(o)[c] = IF tgt[c].id = o
                           THEN [kind |-> tgt[c].kind, id |-> NoId, port |-> tgt[c].port, ip |-> tgt[c].ip]
                           ELSE tgt[c]
    BY DEF TgtWithout
  <2>4. tgt[c] \in Target
    BY DEF ClientTypeOK
  <2> QED
    BY <2>1, <2>2, <2>3, <2>4, KnowsEnd DEF KernelOK
<1>6. OnlyChanges(o)
  BY EndKeeps DEF OnlyChanges, KernelOK
<1> QED
  BY <1>1, <1>2, <1>4, <1>5, <1>6 DEF RightAfter

(* An approval. *)
LEMMA AfterApprove ==
  ASSUME CtlInv, NEW o \in Slot, NEW dirs \in Limits, Approve(o), SetRates(o, dirs)
  PROVE  KernelOK' /\ RightAfter(same, tgt) /\ OnlyChanges(o)
<1> USE Split
<1>1. TableInv' /\ ~overlapped'
  BY ApproveKeeps, Zenon DEF KernelOK, Approve
<1>2. lim' \in [Slot -> Limits] /\ \A q \in Slot : q # o => lim'[q] = lim[q]
  BY DEF SetRates, KernelOK
<1>3. \A q \in Slot : q # o => tab'[q] = tab[q]
  BY DEF Approve, KernelOK, TableInv, TableTypeOK
<1>4. \A c \in Client : Knows(tab', pc[c], tgt[c], same[c], todo[c])
  BY KnowsApprove DEF KnowInv, KernelOK
<1> QED
  BY <1>1, <1>2, <1>3, <1>4 DEF KernelOK, RightAfter, OnlyChanges, ClientTypeOK

(* A step that leaves the table alone. *)
LEMMA AfterNothing ==
  ASSUME CtlInv, UNCHANGED tableVars
  PROVE  TableInv' /\ ~overlapped' /\ RightAfter(same, tgt) /\ tab' = tab
<1> USE Split
<1>1. tab' = tab /\ bitmap' = bitmap /\ overlapped' = overlapped
  BY DEF tableVars
<1>2. TableInv'
  BY <1>1 DEF KernelOK, TableInv, TableTypeOK, UniqueAddresses, UniquePorts, Linked, Session, Absent, Port
<1>3. \A c \in Client : Knows(tab', pc[c], tgt[c], same[c], todo[c])
  BY <1>1 DEF KnowInv
<1> QED
  BY <1>1, <1>2, <1>3 DEF RightAfter, ClientTypeOK, KernelOK

(* A request that reaches session o. *)
LEMMA AfterEffect ==
  ASSUME CtlInv, NEW o \in Slot, NEW r \in Operation, Effect(o, r)
  PROVE  KernelOK' /\ RightAfter(KnownAfter(o, r), NamedAfter(o, r)) /\ OnlyChanges(o)
<1> USE Split
<1>1. CASE r.op = "clear"
  <2>1. End(o) /\ UNCHANGED lim /\ KnownAfter(o, r) = SameWithout(o) /\ NamedAfter(o, r) = TgtWithout(o)
    BY <1>1 DEF Effect, KnownAfter, NamedAfter
  <2> QED
    BY <2>1, AfterEnd
<1>2. CASE r.op = "approve"
  <2>1. Approve(o) /\ SetRates(o, r.dirs) /\ KnownAfter(o, r) = same /\ NamedAfter(o, r) = tgt
    BY <1>2 DEF Effect, KnownAfter, NamedAfter
  <2> QED
    BY <2>1, AfterApprove DEF Operation
<1>3. CASE r.op = "change"
  <2>1. SetRates(o, r.dirs) /\ UNCHANGED tableVars /\ KnownAfter(o, r) = same /\ NamedAfter(o, r) = tgt
    BY <1>3 DEF Effect, KnownAfter, NamedAfter
  <2>2. lim' \in [Slot -> Limits] /\ \A q \in Slot : q # o => lim'[q] = lim[q]
    BY <2>1 DEF SetRates, KernelOK, Operation
  <2> QED
    BY <2>1, <2>2, AfterNothing DEF KernelOK, OnlyChanges
<1>4. CASE r.op = "none"
  <2>1. UNCHANGED <<tableVars, lim>> /\ KnownAfter(o, r) = same /\ NamedAfter(o, r) = tgt
    BY <1>4 DEF Effect, KnownAfter, NamedAfter
  <2> QED
    BY <2>1, AfterNothing DEF KernelOK, OnlyChanges
<1> QED
  BY <1>1, <1>2, <1>3, <1>4 DEF Operation

-----------------------------------------------------------------------------
(* The blank event is one. *)
LEMMA Blank == Nobody \in Target /\ WellFormed(Nobody) /\ NoOp \in Operation
  BY ControlAssumption, TableAssumption DEF Nobody, NoOp, Target, Kind, Operation, WellFormed, Port

(* A client that leaves knows nothing, the others what they knew. *)
LEMMA LeaveKeeps ==
  ASSUME ClientTypeOK, NEW c \in Client, NEW S, NEW T, RightAfter(S, T), Leave(c, S, T)
  PROVE  ClientTypeOK' /\ KnowInv'
<1>1. ClientTypeOK'
  BY Blank DEF ClientTypeOK, Leave, RightAfter, Client, Target, Operation, Port
<1>2. ASSUME NEW d \in Client PROVE Knows(tab, pc[d], tgt[d], same[d], todo[d])'
  <2>1. CASE d = c
    <3>1. pc'[d] = "idle" /\ tgt'[d] = Nobody /\ same'[d] = {}
      BY <2>1 DEF Leave, RightAfter, ClientTypeOK
    <3> QED
      BY <3>1, Blank DEF Knows, WellFormed
  <2>2. CASE d # c
    <3>1. pc'[d] = pc[d] /\ tgt'[d] = T[d] /\ same'[d] = S[d] /\ todo'[d] = todo[d]
      BY <2>2 DEF Leave, RightAfter, ClientTypeOK
    <3>2. Knows(tab', pc[d], T[d], S[d], todo[d])
      BY DEF RightAfter
    <3> QED
      BY <3>1, <3>2, Zenon DEF Knows, NamesIn, WellFormed, Absent
  <2> QED
    BY <2>1, <2>2
<1> QED
  BY <1>1, <1>2 DEF KnowInv, Client

(* A client with other business keeps what it knows, rightly if S and T are. *)
LEMMA OthersKeep ==
  ASSUME ClientTypeOK, NEW S, NEW T, RightAfter(S, T), NEW d \in Client,
         pc'[d] = pc[d], tgt'[d] = T[d], same'[d] = S[d], todo'[d] = todo[d]
  PROVE  Knows(tab, pc[d], tgt[d], same[d], todo[d])'
<1>1. Knows(tab', pc[d], T[d], S[d], todo[d])
  BY DEF RightAfter
<1> QED
  BY <1>1, Zenon DEF Knows, NamesIn, WellFormed, Absent

(* A client that decides on a session it can name knows that session. *)
LEMMA DecideKeeps ==
  ASSUME CtlInv, NEW c \in Client, NEW t \in Target, WellFormed(t), NEW r \in Operation, Decide(c, t, r)
  PROVE  CtlInv' /\ tab' = tab /\ lim' = lim
<1> USE Split
<1>1. UNCHANGED <<tableVars, lim>>
  BY DEF Decide
<1>2. KernelOK' /\ RightAfter(same, tgt) /\ tab' = tab /\ lim' = lim
  BY <1>1, AfterNothing DEF KernelOK
<1>3. ClientTypeOK'
  BY DEF ClientTypeOK, Decide, Client, Target, Operation, Port
<1>4. ASSUME NEW d \in Client PROVE Knows(tab, pc[d], tgt[d], same[d], todo[d])'
  <2>1. CASE d = c
    <3>1. pc'[d] = "send" /\ tgt'[d] = t /\ same'[d] = {o \in Slot : Names(t, o)}
      BY <2>1 DEF Decide, ClientTypeOK
    <3>2. \A o \in same'[d] : o \in Slot /\ tab[o] # Absent /\ NamesIn(tab, t, o)
      BY <3>1, Zenon DEF Names, NamesIn, Linked
    <3> QED
      BY <1>2, <3>1, <3>2, Zenon DEF Knows, NamesIn, Absent
  <2>2. CASE d # c
    <3>1. pc'[d] = pc[d] /\ tgt'[d] = tgt[d] /\ same'[d] = same[d] /\ todo'[d] = todo[d]
      BY <2>2 DEF Decide, ClientTypeOK
    <3> QED
      BY <1>2, <3>1, OthersKeep
  <2> QED
    BY <2>1, <2>2
<1>5. KnowInv'
  BY <1>4 DEF KnowInv, Client
<1> QED
  BY <1>2, <1>3, <1>5, Join

(* Between refresh and wait a monitor knows the same. *)
LEMMA WatchingKeeps ==
  ASSUME ClientTypeOK, NEW c \in Client, NEW S, NEW T, RightAfter(S, T),
         pc[c] = "wait", pc' = [pc EXCEPT ![c] = "refresh"], tgt' = T, same' = S, UNCHANGED todo
  PROVE  KnowInv'
<1>1. ASSUME NEW d \in Client PROVE Knows(tab, pc[d], tgt[d], same[d], todo[d])'
  <2>1. CASE d = c
    <3>1. pc'[d] = "refresh"
      BY <2>1 DEF ClientTypeOK
    <3>2. Knows(tab', "wait", T[d], S[d], todo[d])
      BY <2>1 DEF RightAfter
    <3> QED
      BY <3>1, <3>2, Zenon DEF Knows, NamesIn, WellFormed, Absent
  <2>2. CASE d # c
    BY <2>2, OthersKeep DEF ClientTypeOK
  <2> QED
    BY <2>1, <2>2
<1> QED
  BY <1>1 DEF KnowInv, Client

-----------------------------------------------------------------------------
(* When nobody moves, or nothing is touched, nothing goes astray. *)
LEMMA Still ==
  ASSUME (pc' = pc /\ todo' = todo) \/ (tab' = tab /\ lim' = lim)
  PROVE  OnTarget
  BY DEF OnTarget, Moves, Touched

(* The request of c reaches one of the sessions that its event fits. *)
LEMMA RequestOnTarget ==
  ASSUME CtlInv, NEW c \in Client, pc[c] \in {"send", "wait"}, NEW o \in Found(tgt[c]), OnlyChanges(o),
         NEW new, pc' = [pc EXCEPT ![c] = new], UNCHANGED todo
  PROVE  OnTarget
<1> USE Split
<1> SUFFICES ASSUME NEW d \in Client, NEW q \in Slot, Moves(d), Touched(q), Meant(d) # {}
             PROVE  q \in Meant(d) \/ (Portless(d) /\ tab[q].port = 0)
  BY DEF OnTarget
<1>1. d = c
  BY DEF Moves, ClientTypeOK
<1>2. q = o
  BY DEF Touched, OnlyChanges
<1>3. Meant(d) = same[c] /\ (Portless(d) <=> tgt[c].kind \in {"id", "ip"})
  BY <1>1 DEF Meant, Portless
<1>4. PICK m \in same[c] : TRUE
  BY <1>3
<1>5. Knows(tab, pc[c], tgt[c], same[c], todo[c])
  BY DEF KnowInv
<1>6. m \in Linked /\ NamesIn(tab, tgt[c], m) /\ WellFormed(tgt[c])
  BY <1>4, <1>5 DEF Knows, Linked
<1>7. o \in Slot /\ isg_equal(tgt[c], o) /\ tgt[c] \in Target
  BY DEF Found, ClientTypeOK
<1>8. o = m \/ (tgt[c].kind \in {"id", "ip"} /\ tab[o].port = 0)
  BY <1>6, <1>7, OnlyTheNamed DEF KernelOK
<1> QED
  BY <1>2, <1>3, <1>4, <1>8

(* Sessions start, end and are approved. *)
LEMMA KernelStep ==
  ASSUME CtlInv, NEW o \in Slot,
         \/ \E ip \in IP : NewSession(o, ip)
         \/ Expire(o)
         \/ \E dirs \in Limits : Grant(o, dirs)
  PROVE  CtlInv' /\ OnTarget
<1> USE Split
<1>1. ASSUME NEW ip \in IP, NewSession(o, ip) PROVE CtlInv' /\ OnTarget
  <2>1. Start(o, ip) /\ lim' = [lim EXCEPT ![o] = {}] /\ UNCHANGED clientVars
    BY <1>1 DEF NewSession
  <2>2. KernelOK'
    <3>1. TableInv'
      BY <2>1, StartKeeps DEF KernelOK
    <3>2. ~overlapped' /\ lim' \in [Slot -> Limits]
      BY <2>1, ControlAssumption DEF KernelOK, Start
    <3> QED
      BY <3>1, <3>2 DEF KernelOK
  <2>3. RightAfter(same, tgt)
    BY <2>1, KnowsStart DEF KernelOK, KnowInv, RightAfter, ClientTypeOK
  <2>4. ClientTypeOK' /\ KnowInv'
    BY <2>1, <2>3, OthersKeep DEF clientVars, ClientTypeOK, KnowInv, Client, Target, Operation, Port
  <2> QED
    BY <2>1, <2>2, <2>4, Join, Still DEF clientVars
<1>2. CASE Expire(o)
  <2>1. KernelOK' /\ RightAfter(SameWithout(o), TgtWithout(o))
    BY <1>2, AfterEnd DEF Expire
  <2>2. ClientTypeOK'
    BY <1>2, <2>1 DEF Expire, RightAfter, ClientTypeOK, Client, Target, Operation, Port
  <2>3. KnowInv'
    BY <1>2, <2>1, OthersKeep, Zenon DEF Expire, KnowInv, Client
  <2> QED
    BY <1>2, <2>1, <2>2, <2>3, Join, Still DEF Expire
<1>3. ASSUME NEW dirs \in Limits, Grant(o, dirs) PROVE CtlInv' /\ OnTarget
  <2>1. KernelOK' /\ RightAfter(same, tgt)
    BY <1>3, AfterApprove DEF Grant
  <2>2. ClientTypeOK'
    BY <1>3 DEF Grant, clientVars, ClientTypeOK, Client, Target, Operation, Port
  <2>3. KnowInv'
    BY <1>3, <2>1, OthersKeep DEF Grant, clientVars, KnowInv, Client
  <2> QED
    BY <1>3, <2>1, <2>2, <2>3, Join, Still DEF Grant, clientVars
<1> QED
  BY <1>1, <1>2, <1>3

(* Whoever has decided sends. *)
LEMMA SendStep ==
  ASSUME CtlInv, NEW c \in Client, Send(c)
  PROVE  CtlInv' /\ OnTarget
<1> USE Split
<1>1. ASSUME NEW o \in Found(tgt[c]), Effect(o, upd[c]),
             Leave(c, KnownAfter(o, upd[c]), NamedAfter(o, upd[c]))
      PROVE  CtlInv' /\ OnTarget
  <2>1. o \in Slot /\ upd[c] \in Operation
    BY DEF Found, ClientTypeOK
  <2>2. KernelOK' /\ RightAfter(KnownAfter(o, upd[c]), NamedAfter(o, upd[c])) /\ OnlyChanges(o)
    BY <1>1, <2>1, AfterEffect
  <2>3. ClientTypeOK' /\ KnowInv'
    BY <1>1, <2>2, LeaveKeeps
  <2>4. OnTarget
    BY <1>1, <2>2, RequestOnTarget, Zenon DEF Send, Leave
  <2> QED
    BY <2>2, <2>3, <2>4, Join
<1>2. CASE Leave(c, same, tgt) /\ UNCHANGED <<tableVars, lim>>
  <2>1. KernelOK' /\ RightAfter(same, tgt) /\ tab' = tab /\ lim' = lim
    BY <1>2, AfterNothing DEF KernelOK
  <2>2. ClientTypeOK' /\ KnowInv'
    BY <1>2, <2>1, LeaveKeeps
  <2> QED
    BY <2>1, <2>2, Join, Still
<1> QED
  BY <1>1, <1>2 DEF Send

(* A target that parse_target makes is a proper event. *)
LEMMA NamesAreEvents ==
  ASSUME NEW t \in ByName, TableInv PROVE t \in Target /\ WellFormed(t)
  BY TableAssumption DEF ByName, Target, Kind, WellFormed, Port, Linked

(* Whoever is told of a session and decides. *)
LEMMA DecideStep ==
  ASSUME CtlInv,
         \/ \E c \in Client, t \in ByName, r \in OneRequest : Ask(c, t, r)
         \/ \E o \in Slot, r \in SessionUpdate : FindSession(o, r)
  PROVE  CtlInv' /\ OnTarget
<1> USE Split
<1>1. ASSUME NEW c \in Client, NEW t \in ByName, NEW r \in OneRequest, Ask(c, t, r)
      PROVE  CtlInv' /\ OnTarget
  <2>1. Decide(c, t, r) /\ r \in Operation
    BY <1>1 DEF Ask, OneRequest
  <2> QED
    BY <2>1, NamesAreEvents, DecideKeeps, Still DEF KernelOK
<1>2. ASSUME NEW o \in Slot, NEW r \in SessionUpdate, FindSession(o, r)
      PROVE  CtlInv' /\ OnTarget
  <2>1. o \in Linked /\ Decide(Api, _session_ev(o), r) /\ r \in Operation /\ Api \in Client
    BY <1>2 DEF FindSession, SessionUpdate, Client
  <2>2. tab[o] \in Session
    BY <2>1 DEF Linked, KernelOK, TableInv, TableTypeOK
  <2>3. _session_ev(o) \in Target /\ WellFormed(_session_ev(o))
    BY <2>2, Zenon DEF _session_ev, Target, Kind, WellFormed, Session
  <2> QED
    BY <2>1, <2>3, DecideKeeps, Still
<1> QED
  BY <1>1, <1>2

(* clear_all and clear_unapproved. *)
LEMMA SweepStep ==
  ASSUME CtlInv, NEW c \in Client,
         \/ \E unapproved \in BOOLEAN, listed \in SUBSET Slot : List(c, unapproved, listed)
         \/ \E p \in todo[c] : SweepOne(c, p)
         \/ SweepDone(c)
  PROVE  CtlInv' /\ OnTarget
<1> USE Split
<1>1. ASSUME NEW unapproved \in BOOLEAN, NEW listed \in SUBSET Slot, List(c, unapproved, listed)
      PROVE  CtlInv' /\ OnTarget
  <2>1. KernelOK' /\ RightAfter(same, tgt) /\ tab' = tab /\ lim' = lim
    BY <1>1, AfterNothing DEF KernelOK, List
  <2>2. {tab[o].port : o \in listed} \subseteq Port /\ listed \subseteq Linked
    BY <1>1, OfLinked DEF List, KernelOK
  <2>3. ClientTypeOK'
    BY <1>1, <2>2, Zenon DEF ClientTypeOK, List, Client, Target, Operation, Port
  <2>4. ASSUME NEW d \in Client PROVE Knows(tab, pc[d], tgt[d], same[d], todo[d])'
    <3>1. CASE d = c
      <4>1. pc'[d] = "sweep" /\ same'[d] = listed /\ todo'[d] = {tab[o].port : o \in listed}
            /\ tgt'[d] = tgt[d]
        BY <1>1, <3>1, Zenon DEF List, ClientTypeOK
      <4>2. WellFormed(tgt[d])
        BY DEF KnowInv, Knows
      <4>3. \A o \in listed : o \in Slot /\ tab[o] # Absent
        BY <2>2 DEF Linked
      <4> QED
        BY <2>1, <4>1, <4>2, <4>3, Zenon DEF Knows, WellFormed, Absent
    <3>2. CASE d # c
      BY <1>1, <2>1, <3>2, OthersKeep, Zenon DEF List, ClientTypeOK
    <3> QED
      BY <3>1, <3>2, Zenon
  <2>5. KnowInv'
    BY <2>4 DEF KnowInv, Client
  <2> QED
    BY <2>1, <2>3, <2>5, Join, Still
<1>2. ASSUME NEW p \in todo[c], SweepOne(c, p) PROVE CtlInv' /\ OnTarget
  <2>1. pc' = pc /\ pc[c] = "sweep" /\ todo' = [todo EXCEPT ![c] = todo[c] \ {p}]
    BY <1>2 DEF SweepOne, ClientTypeOK
  <2>2. PICK S, T : RightAfter(S, T) /\ same' = S /\ tgt' = T /\ KernelOK'
                    /\ \A o \in S[c] : o \in same[c] /\ tab'[o] = tab[o] /\ tab[o].port # p
    <3>1. ASSUME NEW o \in Found(SweepEvent(p)), End(o), same' = SameWithout(o), tgt' = TgtWithout(o)
          PROVE  \A q \in SameWithout(o)[c] : q \in same[c] /\ tab'[q] = tab[q] /\ tab[q].port # p
      <4>1. o \in Linked /\ o \in Slot
        BY <3>1 DEF Found, isg_equal
      <4>2. tab[o].port = p
        BY <3>1, <4>1, OfLinked DEF Found, isg_equal, SweepEvent, KernelOK
      <4>3. SameWithout(o)[c] = same[c] \ {o} /\ same[c] \subseteq Linked
        BY Zenon DEF SameWithout, KnowInv, Knows, Linked
      <4>4. \A q \in Linked : q # o => tab[q].port # p
        BY <4>1, <4>2 DEF KernelOK, TableInv, UniquePorts
      <4>5. \A q \in Slot : q # o => tab'[q] = tab[q]
        BY <3>1, <4>1, EndKeeps DEF KernelOK
      <4> QED
        BY <4>3, <4>4, <4>5, Zenon DEF Linked
    <3>2. ASSUME Found(SweepEvent(p)) = {}, tab' = tab
          PROVE  \A q \in same[c] : q \in same[c] /\ tab'[q] = tab[q] /\ tab[q].port # p
      <4>1. \A q \in same[c] : q \in Linked /\ q \in Slot
        BY DEF KnowInv, Knows, Linked
      <4> QED
        BY <3>2, <4>1 DEF Found, isg_equal, SweepEvent
    <3>3. CASE \E o \in Found(SweepEvent(p)) : End(o) /\ same' = SameWithout(o) /\ tgt' = TgtWithout(o)
      <4>1. PICK o \in Found(SweepEvent(p)) : End(o) /\ same' = SameWithout(o) /\ tgt' = TgtWithout(o)
        BY <3>3
      <4>2. o \in Slot /\ UNCHANGED lim
        BY <1>2 DEF Found, SweepOne
      <4> QED
        BY <3>1, <4>1, <4>2, AfterEnd, ZenonT(20)
    <3>4. CASE Found(SweepEvent(p)) = {} /\ UNCHANGED <<tableVars, same, tgt>>
      <4>1. UNCHANGED lim
        BY <1>2 DEF SweepOne
      <4> QED
        BY <3>2, <3>4, <4>1, AfterNothing, Zenon DEF KernelOK
    <3> QED
      BY <1>2, <3>3, <3>4, Zenon DEF SweepOne
  <2>3. ClientTypeOK'
    <3>1. UNCHANGED <<upd, mode, shown>>
      BY <1>2 DEF SweepOne
    <3>2. todo' \in [Client -> SUBSET Port]
      BY <2>1 DEF ClientTypeOK
    <3>3. same' \in [Client -> SUBSET Slot] /\ tgt' \in [Client -> Target]
      BY <2>2 DEF RightAfter
    <3> QED
      BY <2>1, <3>1, <3>2, <3>3 DEF ClientTypeOK, Client, Target, Operation, Port
  <2>4. ASSUME NEW d \in Client PROVE Knows(tab, pc[d], tgt[d], same[d], todo[d])'
    <3>1. CASE d = c
      <4>1. todo'[d] = todo[c] \ {p} /\ pc'[d] = "sweep"
        BY <2>1, <3>1 DEF ClientTypeOK
      <4>2. Knows(tab', "sweep", T[d], S[d], todo[c]) /\ \A o \in S[d] : tab'[o].port # p
        BY <2>1, <2>2, <3>1 DEF RightAfter
      <4> QED
        BY <2>2, <4>1, <4>2, Zenon DEF Knows, WellFormed, Absent
    <3>2. CASE d # c
      BY <2>1, <2>2, <3>2, OthersKeep, Zenon DEF ClientTypeOK
    <3> QED
      BY <3>1, <3>2
  <2>5. KnowInv'
    BY <2>4, Zenon DEF KnowInv, Client
  <2>6. OnTarget
    <3> SUFFICES ASSUME NEW d \in Client, NEW q \in Slot, Moves(d), Touched(q), Meant(d) # {}
                 PROVE  q \in Meant(d)
      BY DEF OnTarget
    <3>1. d = c
      BY <2>1 DEF Moves, ClientTypeOK
    <3>2. PICK o \in Found(SweepEvent(p)) : End(o)
      BY <1>2, Zenon DEF SweepOne, Touched, tableVars
    <3>3. o \in Linked /\ o \in Slot
      BY Zenon DEF Found, isg_equal
    <3>4. q = o
      BY <1>2, <3>2, <3>3, EndKeeps, Zenon DEF Touched, SweepOne, KernelOK
    <3>5. tab[o].port = p
      BY <3>3, OfLinked, Zenon DEF Found, isg_equal, SweepEvent, KernelOK
    <3>6. Meant(d) = {m \in same[c] : tab[m].port \notin todo[c] \ {p}}
      BY <2>1, <3>1 DEF Meant, ClientTypeOK
    <3>7. \A m \in same[c] : m \in Linked /\ tab[m].port \in todo[c]
      BY <2>1, Zenon DEF KnowInv, Knows, Linked
    <3>8. \A m \in Meant(d) : m = o
      BY <3>3, <3>5, <3>6, <3>7, ZenonT(20) DEF KernelOK, TableInv, UniquePorts
    <3> QED
      BY <3>4, <3>8
  <2> QED
    BY <2>2, <2>3, <2>5, <2>6, Join
<1>3. CASE SweepDone(c)
  <2>1. KernelOK' /\ RightAfter(same, tgt) /\ tab' = tab /\ lim' = lim
    BY <1>3, AfterNothing DEF KernelOK, SweepDone
  <2>2. ClientTypeOK' /\ KnowInv'
    BY <1>3, <2>1, LeaveKeeps DEF SweepDone
  <2> QED
    BY <2>1, <2>2, Join, Still
<1> QED
  BY <1>1, <1>2, <1>3, Zenon

(* A monitor sends a request. *)
LEMMA RequestStep ==
  ASSUME CtlInv, NEW c \in Client, NEW r \in Operation, Requests(c, r),
         mode' \in [Client -> {"plain", "clear", "edit"}]
  PROVE  CtlInv' /\ OnTarget
<1> USE Split
<1>1. /\ pc[c] = "wait" /\ pc' = [pc EXCEPT ![c] = "refresh"]
      /\ shown' = [shown EXCEPT ![c] = "none"] /\ UNCHANGED <<upd, todo>>
  BY DEF Requests, Redraw
<1>2. CASE \E o \in Found(tgt[c]) : Effect(o, r) /\ same' = KnownAfter(o, r) /\ tgt' = NamedAfter(o, r)
  <2>1. PICK o \in Found(tgt[c]) : Effect(o, r) /\ same' = KnownAfter(o, r) /\ tgt' = NamedAfter(o, r)
    BY <1>2
  <2>2. KernelOK' /\ RightAfter(same', tgt') /\ OnlyChanges(o)
    BY <2>1, AfterEffect DEF Found
  <2>3. KnowInv'
    BY <1>1, <2>2, WatchingKeeps, Zenon
  <2>4. ClientTypeOK'
    BY <1>1, <2>2 DEF RightAfter, ClientTypeOK, Client, Target, Operation, Port
  <2>5. OnTarget
    BY <1>1, <2>2, RequestOnTarget, Zenon
  <2> QED
    BY <2>2, <2>3, <2>4, <2>5, Join
<1>3. CASE UNCHANGED <<tableVars, lim, same, tgt>>
  <2>1. KernelOK' /\ RightAfter(same, tgt) /\ tab' = tab /\ lim' = lim
    BY <1>3, AfterNothing DEF KernelOK
  <2>2. KnowInv'
    BY <1>1, <1>3, <2>1, WatchingKeeps, Zenon
  <2>3. ClientTypeOK'
    BY <1>1, <1>3 DEF ClientTypeOK, Client, Target, Operation, Port
  <2> QED
    BY <2>1, <2>2, <2>3, Join, Still
<1> QED
  BY <1>2, <1>3 DEF Requests

(* A key that only changes what the monitor is doing, or no key at all. *)
LEMMA RedrawStep ==
  ASSUME CtlInv, NEW c \in Client, Redraw(c), Unasked,
         mode' \in [Client -> {"plain", "clear", "edit"}]
  PROVE  CtlInv' /\ OnTarget
<1> USE Split
<1>1. KernelOK' /\ RightAfter(same, tgt) /\ tab' = tab /\ lim' = lim
  BY AfterNothing DEF KernelOK, Unasked
<1>2. KnowInv'
  BY <1>1, WatchingKeeps, Zenon DEF Redraw, Unasked
<1>3. ClientTypeOK'
  BY DEF Redraw, Unasked, ClientTypeOK, Client, Target, Operation, Port
<1> QED
  BY <1>1, <1>2, <1>3, Join, Still

(* The monitor. *)
LEMMA MonitorKeeps ==
  ASSUME CtlInv, NEW c \in Client, MonitorStep(c)
  PROVE  CtlInv' /\ OnTarget
<1> USE Split
<1>1. ASSUME NEW new \in {"plain", "clear", "edit"}
      PROVE  /\ [mode EXCEPT ![c] = new] \in [Client -> {"plain", "clear", "edit"}]
             /\ mode \in [Client -> {"plain", "clear", "edit"}]
  BY DEF ClientTypeOK
<1>2. \A dirs \in Limits : {[op |-> "change", dirs |-> dirs], [op |-> "clear", dirs |-> {}],
                             [op |-> "approve", dirs |-> {}]} \subseteq Operation
  BY ControlAssumption DEF Operation
<1>3. ASSUME NEW t \in ByName, Monitor(c, t) PROVE CtlInv' /\ OnTarget
  <2>1. KernelOK' /\ RightAfter(same, tgt) /\ tab' = tab /\ lim' = lim
    BY <1>3, AfterNothing DEF KernelOK, Monitor
  <2>2. ClientTypeOK'
    BY <1>3, NamesAreEvents DEF Monitor, KernelOK, ClientTypeOK, Client, Target, Operation, Port
  <2>3. ASSUME NEW d \in Client PROVE Knows(tab, pc[d], tgt[d], same[d], todo[d])'
    <3>1. CASE d = c
      <4>1. pc'[d] = "refresh" /\ tgt'[d] = t /\ same'[d] = same[d]
        BY <1>3, <3>1 DEF Monitor, ClientTypeOK
      <4>2. same[d] = {}
        BY <1>3, <3>1 DEF Monitor, KnowInv, Knows
      <4> QED
        BY <1>3, <3>1, <4>1, <4>2, NamesAreEvents, Zenon DEF Monitor, KernelOK, Knows, WellFormed, Absent
    <3>2. CASE d # c
      BY <1>3, <2>1, <3>2, OthersKeep DEF Monitor, ClientTypeOK
    <3> QED
      BY <3>1, <3>2, Zenon
  <2>4. KnowInv'
    BY <2>3, Zenon DEF KnowInv, Client
  <2> QED
    BY <2>1, <2>2, <2>4, Join, Still
<1>4. CASE Refresh(c)
  <2>1. KernelOK' /\ RightAfter(same, tgt) /\ tab' = tab /\ lim' = lim
    BY <1>4, AfterNothing DEF KernelOK, Refresh
  <2>2. pc[c] = "refresh" /\ pc' = [pc EXCEPT ![c] = "wait"] /\ UNCHANGED <<tgt, upd, todo, mode>>
    BY <1>4 DEF Refresh
  <2>3. PICK s \in SUBSET Slot, w \in {"none", "approved", "unapproved"} :
          /\ same' = [same EXCEPT ![c] = s] /\ shown' = [shown EXCEPT ![c] = w]
          /\ s = same[c] \/ \A o \in s : Names(tgt[c], o)
    <3>1. PICK rows \in Answers(tgt[c]) :
            \/ \E o \in {q \in rows : Names(tgt[c], q)} :
                 /\ same' = [same EXCEPT ![c] = {o}]
                 /\ shown' = [shown EXCEPT ![c] = IF tab[o].approved THEN "approved" ELSE "unapproved"]
            \/ shown' = [shown EXCEPT ![c] = "none"] /\ UNCHANGED same
      BY <1>4 DEF Refresh
    <3>2. CASE \E o \in {q \in rows : Names(tgt[c], q)} :
                 /\ same' = [same EXCEPT ![c] = {o}]
                 /\ shown' = [shown EXCEPT ![c] = IF tab[o].approved THEN "approved" ELSE "unapproved"]
      <4>1. PICK o \in {q \in rows : Names(tgt[c], q)} :
                 /\ same' = [same EXCEPT ![c] = {o}]
                 /\ shown' = [shown EXCEPT ![c] = IF tab[o].approved THEN "approved" ELSE "unapproved"]
        BY <3>2, Zenon
      <4>2. o \in Slot
        BY <4>1 DEF Names, Linked
      <4>3. (IF tab[o].approved THEN "approved" ELSE "unapproved") \in {"none", "approved", "unapproved"}
        OBVIOUS
      <4>4. \A q \in {o} : Names(tgt[c], q)
        BY <4>1
      <4> QED
        BY <4>1, <4>2, <4>3, <4>4, Zenon
    <3>3. CASE shown' = [shown EXCEPT ![c] = "none"] /\ UNCHANGED same
      <4>1. same' = [same EXCEPT ![c] = same[c]] /\ same[c] \in SUBSET Slot
        BY <3>3 DEF ClientTypeOK
      <4> QED
        BY <3>3, <4>1, Zenon
    <3> QED
      BY <3>1, <3>2, <3>3
  <2>4. ClientTypeOK'
    BY <2>2, <2>3 DEF ClientTypeOK, Client, Target, Operation, Port
  <2>5. ASSUME NEW d \in Client PROVE Knows(tab, pc[d], tgt[d], same[d], todo[d])'
    <3>1. CASE d = c
      <4>1. pc'[d] = "wait" /\ tgt'[d] = tgt[c] /\ same'[d] = s
        BY <2>2, <2>3, <3>1 DEF ClientTypeOK
      <4>2. Knows(tab, "refresh", tgt[c], same[c], todo[c])
        BY <2>2, Zenon DEF KnowInv
      <4>3. \A o \in s : o \in Slot /\ tab[o] # Absent /\ NamesIn(tab, tgt[c], o)
        BY <2>3, <4>2, Zenon DEF Knows, Names, NamesIn, Linked
      <4>4. tab' = tab
        BY <2>1, SMTT(20)
      <4>5. WellFormed(tgt[c])
        BY <4>2 DEF Knows
      <4>6. Knows(tab, "wait", tgt[c], s, todo'[d])
        BY <4>3, <4>5 DEF Knows
      <4> QED
        BY <4>1, <4>4, <4>6, Zenon DEF Knows, NamesIn, WellFormed, Absent
    <3>2. CASE d # c
      BY <2>1, <2>2, <2>3, <3>2, OthersKeep DEF ClientTypeOK
    <3> QED
      BY <3>1, <3>2, Zenon
  <2>6. KnowInv'
    BY <2>5, Zenon DEF KnowInv, Client
  <2> QED
    BY <2>1, <2>4, <2>6, Join, Still
<1>5. CASE KeyQuit(c) \/ Break(c)
  <2>1. KernelOK' /\ RightAfter(same, tgt) /\ tab' = tab /\ lim' = lim
    BY <1>5, AfterNothing, ZenonT(20) DEF KernelOK, KeyQuit, Break
  <2>2. ClientTypeOK' /\ KnowInv'
    BY <1>5, <2>1, LeaveKeeps DEF KeyQuit, Break
  <2> QED
    BY <2>1, <2>2, Join, Still
<1>6. CASE Tick(c) \/ KeyClear(c) \/ KeyShaper(c)
  BY <1>1, <1>6, RedrawStep DEF Tick, KeyClear, KeyShaper
<1>7. CASE KeyApprove(c)
  BY <1>1, <1>2, <1>7, ControlAssumption, RedrawStep, RequestStep, Zenon DEF KeyApprove
<1>8. ASSUME NEW yes \in BOOLEAN, Answer(c, yes) PROVE CtlInv' /\ OnTarget
  BY <1>1, <1>2, <1>8, ControlAssumption, RedrawStep, RequestStep, Zenon DEF Answer
<1>9. CASE EndEdit(c)
  BY <1>1, <1>2, <1>9, RedrawStep, RequestStep, Zenon DEF EndEdit
<1> QED
  BY <1>3, <1>4, <1>5, <1>6, <1>7, <1>8, <1>9 DEF MonitorStep

-----------------------------------------------------------------------------
(* What the clients know is right initially, *)
LEMMA CtlInit == Init => CtlInv
<1> SUFFICES ASSUME Init PROVE CtlInv
  OBVIOUS
<1>1. TableInv /\ ~overlapped
  <2>1. Linked = {}
    BY DEF Init, TableInit, Linked
  <2> QED
    BY <2>1, Zenon DEF Init, TableInit, TableInv, TableTypeOK, UniqueAddresses, UniquePorts
<1>2. TypeOK
  BY <1>1, Blank, ControlAssumption DEF Init, TypeOK, TableInv
<1>3. KnowInv
  BY Blank DEF Init, KnowInv, Knows
<1> QED
  BY <1>1, <1>2, <1>3 DEF CtlInv

(* and after every step, which goes to the right session. *)
LEMMA CtlNext ==
  ASSUME CtlInv, [Next]_vars
  PROVE  CtlInv' /\ [OnTarget]_vars
<1>1. CASE UNCHANGED vars
  <2>1. tab' = tab /\ lim' = lim /\ UNCHANGED tableVars /\ UNCHANGED clientVars
    BY <1>1 DEF vars, tableVars, clientVars
  <2>2. KernelOK' /\ RightAfter(same, tgt)
    BY <2>1, AfterNothing, Split DEF KernelOK
  <2>3. ClientTypeOK'
    BY <2>1, Split DEF clientVars, ClientTypeOK, Client, Target, Operation, Port
  <2>4. KnowInv'
    BY <2>1, <2>2, OthersKeep, Split, Zenon DEF clientVars, KnowInv, Client
  <2> QED
    BY <1>1, <2>2, <2>3, <2>4, Join
<1>2. CASE Next
  BY <1>2, KernelStep, DecideStep, SendStep, SweepStep, MonitorKeeps, Zenon DEF Next
<1> QED
  BY <1>1, <1>2

(* While the session that a client was told about lives, no request of the *)
(* client (clear, change_rate, PUT /sessions, a monitor's key, a CoA        *)
(* request) changes another - unless it has no port and the other one is on *)
(* port 0.                                                                  *)
THEOREM RequestsReach == Spec => ReachesNamed
<1>1. Init => CtlInv
  BY CtlInit
<1>2. CtlInv /\ [Next]_vars => CtlInv' /\ [OnTarget]_vars
  BY CtlNext
<1> QED
  BY <1>1, <1>2, PTL DEF Spec, ReachesNamed

(* clear_all and clear_unapproved end every session of their list that has *)
(* not ended by itself.                                                     *)
THEOREM SweepComplete == Spec => []SweepLeavesNone
<1>1. CtlInv => SweepLeavesNone
  BY DEF CtlInv, KnowInv, Knows, SweepLeavesNone
<1>2. CtlInv /\ [Next]_vars => CtlInv'
  BY CtlNext
<1> QED
  BY <1>1, <1>2, CtlInit, PTL DEF Spec

=============================================================================
