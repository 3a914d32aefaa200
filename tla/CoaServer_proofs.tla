-------------------------- MODULE CoaServer_proofs --------------------------
(***************************************************************************)
(* Proofs about sanitize and about the CoA server that relies on it, for    *)
(* any number of services, types and classes.                               *)
(***************************************************************************)
EXTENDS CoaServer, WellFoundedInduction, TLAPS

-----------------------------------------------------------------------------
(* sanitize.                                                                *)

(* The types that the steps of sanitize need. *)
Shape ==
  /\ conf \in [Svc -> Definition]
  /\ known \subseteq Svc
  /\ k \in 0 .. N
  /\ onCls \in [Type -> [Class -> Svc \cup {NoOwner}]]
  /\ ret \in [Svc -> {"-", "A", "N"}]

(* An active service has been walked and owns every class it covers. *)
ActiveOwns ==
  \A s \in Svc : ret[s] = "A" =>
    s <= k /\ \A c \in conf[s].classes : onCls[conf[s].type][c] = s

Inv == Shape /\ ActiveOwns

(* sanitize starts with nothing active. *)
LEMMA InitInv == ServicesAssumption /\ Init => Inv
<1> SUFFICES ASSUME ServicesAssumption, Init PROVE Inv
  OBVIOUS
<1>1. N \in Nat
  BY DEF ServicesAssumption
<1>2. Shape
  BY <1>1 DEF ServicesAssumption, Init, Shape, Prepared, Svc, NoOwner
<1>3. ActiveOwns
  BY DEF Init, ActiveOwns
<1>. QED
  BY <1>2, <1>3 DEF Inv

(* Two owners of one class are the same service, so ownership of everything *)
(* an active service covers rules out a shared class.                       *)
LEMMA OwnersDiffer == Inv => NoSharedClass
<1> SUFFICES ASSUME Inv, NEW s \in Svc, NEW u \in Svc, s # u, ret[s] = "A", ret[u] = "A"
             PROVE ~Share(s, u)
  BY DEF NoSharedClass
<1>1. \A c \in conf[s].classes : onCls[conf[s].type][c] = s
  BY DEF Inv, ActiveOwns
<1>2. \A c \in conf[u].classes : onCls[conf[u].type][c] = u
  BY DEF Inv, ActiveOwns
<1>. QED
  BY <1>1, <1>2 DEF Share

(* A turn of the loop keeps it: a service becomes active only when none of  *)
(* its classes has an owner, and from then on nobody takes them from it.    *)
LEMMA StepInv == ServicesAssumption /\ Inv /\ [Next]_vars => Inv'
<1> SUFFICES ASSUME ServicesAssumption, Inv, [Next]_vars PROVE Inv'
  OBVIOUS
<1>0. N \in Nat
  BY DEF ServicesAssumption
<1>1. CASE UNCHANGED vars
  BY <1>1 DEF vars, Inv, Shape, ActiveOwns
<1>2. CASE Resolve
  <2> DEFINE s == k + 1
  <2>1. k \in 0 .. N /\ k < N /\ k' = s /\ s \in Svc /\ UNCHANGED <<conf, request, known>>
    BY <1>0, <1>2 DEF Resolve, Inv, Shape, Svc
  <2>2. Unknown(s) \/ Off(s) \/ Overlap(s) \/ On(s)
    BY <1>2, <2>1 DEF Resolve
  <2>3. conf[s].classes \subseteq Class /\ conf[s].type \in Type
    BY <2>1 DEF Inv, Shape, Definition
  <2>k. k' \in 0 .. N
    BY <1>0, <2>1 DEF Svc
  <2>m. \A u \in Svc : u <= k => u <= k'
    BY <1>0, <2>1 DEF Svc
  <2>n. ~(s <= k) /\ s <= k'
    BY <1>0, <2>1 DEF Svc
  <2> HIDE DEF s
  <2>4. CASE Unknown(s)
    BY <2>1, <2>4, <2>k, <2>m DEF Unknown, Inv, Shape, ActiveOwns
  <2>5. CASE Off(s)
    BY <2>1, <2>5, <2>k, <2>m DEF Off, Inv, Shape, ActiveOwns
  <2>6. CASE Overlap(s)
    <3>1. PICK c \in Taken(s) : ret' = [ret EXCEPT ![s] = "N", ![Owner(s, c)] = "N"]
      BY <2>6, Zenon DEF Overlap
    <3>2. ret' \in [Svc -> {"-", "A", "N"}] /\ \A u \in Svc : ret'[u] = "A" => ret[u] = "A"
      BY <3>1, <2>1, Zenon DEF Inv, Shape
    <3>. QED
      BY <2>1, <2>6, <2>k, <2>m, <3>2 DEF Overlap, Inv, Shape, ActiveOwns
  <2>7. CASE On(s)
    <3>1. Taken(s) = {} /\ ret' = [ret EXCEPT ![s] = "A"] /\ Claim(s)
      BY <2>7 DEF On
    <3>2. onCls' = [onCls EXCEPT ![conf[s].type] =
                      [c \in Class |-> IF c \in conf[s].classes THEN s ELSE onCls[conf[s].type][c]]]
      BY <3>1 DEF Claim
    <3>3. Shape'
      BY <2>1, <2>3, <2>k, <3>1, <3>2 DEF Inv, Shape
    <3>4. \A c \in conf[s].classes : onCls'[conf[s].type][c] = s
      BY <2>3, <3>2 DEF Inv, Shape
    <3>5. ASSUME NEW u \in Svc, u # s, ret[u] = "A", NEW c \in conf[u].classes
          PROVE  onCls'[conf[u].type][c] = u
      <4>1. onCls[conf[u].type][c] = u
        BY <3>5 DEF Inv, ActiveOwns
      <4>2. u # NoOwner /\ conf[u].type \in Type /\ c \in Class
        BY <1>0, <3>5 DEF Inv, Shape, Definition, Svc, NoOwner
      <4>3. CASE conf[u].type = conf[s].type
        <5>1. c \notin conf[s].classes
          BY <3>1, <4>1, <4>2, <4>3 DEF Taken, Owner
        <5>. QED
          BY <5>1, <4>1, <4>2, <4>3, <3>2, <2>3 DEF Inv, Shape
      <4>4. CASE conf[u].type # conf[s].type
        BY <4>1, <4>2, <4>4, <3>2, <2>3 DEF Inv, Shape
      <4>. QED
        BY <4>3, <4>4
    <3>6. ActiveOwns'
      <4> SUFFICES ASSUME NEW u \in Svc, ret'[u] = "A"
                   PROVE  u <= k' /\ \A c \in conf[u].classes : onCls'[conf[u].type][c] = u
        BY <2>1 DEF ActiveOwns
      <4>1. CASE u = s
        BY <4>1, <3>4, <2>n
      <4>2. CASE u # s
        <5>1. ret[u] = "A"
          BY <4>2, <3>1, <2>1 DEF Inv, Shape
        <5>. QED
          BY <5>1, <4>2, <3>5, <2>m DEF Inv, ActiveOwns
      <4>. QED
        BY <4>1, <4>2
    <3>. QED
      BY <3>3, <3>6 DEF Inv
  <2>. QED
    BY <2>2, <2>4, <2>5, <2>6, <2>7
<1>. QED
  BY <1>1, <1>2 DEF Next

(* Whatever is configured and asked for, sanitize never leaves two active   *)
(* services of one type with a class in common.                             *)
THEOREM SanitizeCorrect == Spec => []NoSharedClass
<1>1. ServicesAssumption
  BY ServicesAssumption
<1>2. Init => Inv
  BY <1>1, InitInv
<1>3. Inv /\ [Next]_vars => Inv'
  BY <1>1, StepInv
<1>. QED
  BY <1>2, <1>3, OwnersDiffer, PTL DEF Spec

-----------------------------------------------------------------------------
(* Whoever owns a class was asked for, is known, and covers it. *)
OwnersAsked ==
  \A t \in Type, c \in Class : onCls[t][c] # NoOwner =>
    LET u == onCls[t][c]
    IN u \in known /\ u <= k /\ request[u] = "A" /\ conf[u].type = t /\ c \in conf[u].classes

OffInv == Inv /\ OwnersAsked /\ OffForAReason

(* A turn of the loop gives a reason for whatever it turns off. *)
LEMMA StepOff == ServicesAssumption /\ OffInv /\ [Next]_vars => OwnersAsked' /\ OffForAReason'
<1> SUFFICES ASSUME ServicesAssumption, OffInv, [Next]_vars PROVE OwnersAsked' /\ OffForAReason'
  OBVIOUS
<1>0. N \in Nat
  BY DEF ServicesAssumption
<1>1. CASE UNCHANGED vars
  BY <1>1 DEF vars, OffInv, OwnersAsked, OffForAReason, Share
<1>2. CASE Resolve
  <2>1. PICK s \in Svc : /\ s = k + 1 /\ k' = s /\ UNCHANGED <<conf, request, known>>
                         /\ Unknown(s) \/ Off(s) \/ Overlap(s) \/ On(s)
    BY <1>0, <1>2 DEF Resolve, OffInv, Inv, Shape, Svc
  <2>2. k \in Nat /\ (\A u \in Svc : u <= k' <=> u <= k \/ u = s) /\ ~(s <= k)
    BY <1>0, <2>1 DEF OffInv, Inv, Shape, Svc
  <2>3. known \subseteq Svc /\ conf[s].type \in Type /\ conf[s].classes \subseteq Class
    BY <2>1 DEF OffInv, Inv, Shape, Definition
  <2>4. \A u \in Svc : u <= k => u <= k'
    BY <2>2
  <2> DEFINE Reason(x) == \E u \in known \ {x} : u <= k' /\ request[u] = "A" /\ ret'[u] = "N" /\ Share(x, u)
  <2>a. \A u \in known : u <= k /\ ret[u] = "N" => ret'[u] = "N"
    BY <2>1, <2>2, <2>3 DEF Unknown, Off, Overlap, On, OffInv, Inv, Shape
  <2>5. \A x \in known : x <= k /\ request[x] = "A" /\ ret[x] = "N" => Reason(x)
    BY <2>3, <2>4, <2>a DEF OffInv, OffForAReason
  <2>6. ASSUME \A x \in known : x <= k' /\ request[x] = "A" /\ ret'[x] = "N" => Reason(x)
        PROVE  OffForAReason'
    BY <2>1, <2>6 DEF OffForAReason, Share
  <2>7. CASE Unknown(s) \/ Off(s)
    <3>1. onCls' = onCls /\ \A x \in known : x # s => ret'[x] = ret[x]
      BY <2>3, <2>7 DEF Unknown, Off, OffInv, Inv, Shape
    <3>2. s \in known => request[s] # "A"
      BY <2>7 DEF Unknown, Off
    <3>3. OwnersAsked'
      BY <2>1, <2>3, <2>4, <3>1 DEF OffInv, OwnersAsked
    <3>4. OffForAReason'
      BY <2>2, <2>3, <2>5, <2>6, <3>1, <3>2
    <3>. QED
      BY <3>3, <3>4
  <2>8. CASE Overlap(s)
    <3>1. PICK c \in Taken(s) : ret' = [ret EXCEPT ![s] = "N", ![Owner(s, c)] = "N"]
      BY <2>8, Zenon DEF Overlap
    <3>2. PICK w \in known : w = Owner(s, c) /\ w <= k /\ request[w] = "A" /\ Share(s, w) /\ Share(w, s)
      BY <2>3, <3>1 DEF OffInv, OwnersAsked, Taken, Owner, Share
    <3>3. s \in known /\ request[s] = "A" /\ w # s
      BY <2>2, <2>8, <3>2 DEF Overlap
    <3>4. \A x \in known : x # s /\ x # w => ret'[x] = ret[x]
      BY <2>3, <3>1, <3>2 DEF OffInv, Inv, Shape
    <3>b. ret'[s] = "N" /\ ret'[w] = "N"
      BY <2>1, <2>3, <3>1, <3>2, <3>3 DEF OffInv, Inv, Shape
    <3>5. Reason(s) /\ Reason(w)
      BY <2>1, <2>2, <2>3, <3>2, <3>3, <3>b
    <3>6. OffForAReason'
      BY <2>2, <2>3, <2>5, <2>6, <3>4, <3>5
    <3>7. onCls' = onCls
      BY <2>8 DEF Overlap
    <3>8. OwnersAsked'
      BY <2>1, <2>3, <2>4, <3>7, Zenon DEF OffInv, OwnersAsked
    <3>. QED
      BY <3>6, <3>8
  <2>9. CASE On(s)
    <3>1. s \in known /\ request[s] = "A" /\ ret' = [ret EXCEPT ![s] = "A"] /\ Claim(s)
      BY <2>9 DEF On
    <3>2. \A x \in known : x # s => ret'[x] = ret[x]
      BY <2>3, <3>1 DEF OffInv, Inv, Shape
    <3>3. ret'[s] = "A"
      BY <3>1 DEF OffInv, Inv, Shape
    <3>4. OffForAReason'
      BY <2>2, <2>3, <2>5, <2>6, <3>2, <3>3
    <3>5. \A t \in Type, c \in Class :
            onCls'[t][c] = IF t = conf[s].type /\ c \in conf[s].classes THEN s ELSE onCls[t][c]
      BY <2>3, <3>1 DEF Claim, OffInv, Inv, Shape
    <3>6. s <= k'
      BY <2>2
    <3>7. OwnersAsked'
      <4> SUFFICES ASSUME NEW t \in Type, NEW c \in Class, onCls'[t][c] # NoOwner, NEW u, u = onCls'[t][c]
                   PROVE  u \in known /\ u <= k' /\ request[u] = "A" /\ conf[u].type = t
                          /\ c \in conf[u].classes
        BY <2>1 DEF OwnersAsked
      <4>1. CASE t = conf[s].type /\ c \in conf[s].classes
        BY <3>1, <3>5, <3>6, <4>1
      <4>2. CASE ~(t = conf[s].type /\ c \in conf[s].classes)
        BY <2>3, <2>4, <3>5, <4>2 DEF OffInv, OwnersAsked
      <4>. QED
        BY <4>1, <4>2
    <3>. QED
      BY <3>4, <3>7
  <2>. QED
    BY <2>1, <2>7, <2>8, <2>9
<1>. QED
  BY <1>1, <1>2 DEF Next

(* Whatever is configured and asked for, sanitize turns a service off only  *)
(* for another one that was asked for and shares a class with it.           *)
THEOREM OffReasoned == Spec => []OffForAReason
<1>1. ServicesAssumption
  BY ServicesAssumption
<1>2. Init => OffInv
  <2> SUFFICES ASSUME Init PROVE OffInv
    OBVIOUS
  <2>1. Inv
    BY <1>1, InitInv
  <2>2. OwnersAsked /\ OffForAReason
    BY DEF Init, OwnersAsked, OffForAReason, Svc, Prepared
  <2>. QED
    BY <2>1, <2>2 DEF OffInv
<1>3. OffInv /\ [Next]_vars => OffInv'
  BY <1>1, StepInv, StepOff DEF OffInv
<1>4. OffInv => OffForAReason
  BY DEF OffInv
<1>. QED
  BY <1>2, <1>3, <1>4, PTL DEF Spec

-----------------------------------------------------------------------------
(* sanitize has said something of the known services of the list that it    *)
(* has walked, and of no other.                                             *)
Walked == \A s \in Svc : ret[s] # "-" <=> s <= k /\ s \in known /\ request[s] # "-"

(* A turn of the loop walks one service. *)
LEMMA StepWalked ==
  ASSUME OffInv, Walked, Resolve
  PROVE  Walked'
<1>0. N \in Nat
  BY ServicesAssumption DEF ServicesAssumption
<1>1. PICK s \in Svc : /\ s = k + 1 /\ k' = s /\ UNCHANGED <<conf, request, known>>
                       /\ Unknown(s) \/ Off(s) \/ Overlap(s) \/ On(s)
  BY <1>0 DEF Resolve, OffInv, Inv, Shape, Svc
<1>2. (\A u \in Svc : u <= k' <=> u <= k \/ u = s) /\ ~(s <= k)
  BY <1>0, <1>1 DEF OffInv, Inv, Shape, Svc
<1>3. ret \in [Svc -> {"-", "A", "N"}] /\ ret[s] = "-"
  BY <1>2 DEF OffInv, Inv, Shape, Walked
<1>4. (ret'[s] # "-" <=> s \in known /\ request[s] # "-") /\ \A u \in Svc \ {s} : ret'[u] # "-" <=> ret[u] # "-"
  <2>1. CASE Unknown(s)
    BY <1>3, <2>1 DEF Unknown
  <2>2. CASE Off(s) \/ On(s)
    BY <1>3, <2>2 DEF Off, On
  <2>3. CASE Overlap(s)
    <3>1. PICK c \in Taken(s) : ret' = [ret EXCEPT ![s] = "N", ![Owner(s, c)] = "N"]
      BY <2>3, Zenon DEF Overlap
    <3>2. conf[s].type \in Type /\ c \in Class /\ Owner(s, c) # NoOwner
      BY <1>1, <3>1 DEF Taken, OffInv, Inv, Shape, Definition
    <3>3. Owner(s, c) \in known /\ Owner(s, c) <= k /\ request[Owner(s, c)] = "A"
      BY <3>2 DEF Owner, OffInv, OwnersAsked
    <3>4. Owner(s, c) \in Svc /\ ret[Owner(s, c)] # "-"
      BY <3>3 DEF Walked, OffInv, Inv, Shape
    <3>. QED
      BY <1>3, <2>3, <3>1, <3>4 DEF Overlap
  <2>. QED
    BY <1>1, <2>1, <2>2, <2>3
<1>5. \A u \in Svc \ {s} : ret'[u] # "-" <=> u <= k' /\ u \in known' /\ request'[u] # "-"
  BY <1>1, <1>2, <1>4 DEF Walked
<1>6. ret'[s] # "-" <=> s <= k' /\ s \in known' /\ request'[s] # "-"
  BY <1>1, <1>2, <1>4
<1>. QED
  BY <1>5, <1>6 DEF Walked

-----------------------------------------------------------------------------
(* A set of naturals that is not empty has a least member. *)
LEMMA Least ==
  ASSUME NEW S, S \subseteq Nat, S # {}
  PROVE  Min(S) \in S /\ \A x \in S : Min(S) <= x
<1>1. PICK m \in S : \A y \in S : ~ (<<y, m>> \in OpToRel(<, Nat))
  BY NatLessThanWellFounded, WFMin, Zenon
<1>2. \A y \in S : m <= y
  <2> SUFFICES ASSUME NEW y \in S PROVE m <= y
    OBVIOUS
  <2>1. <<y, m>> \in OpToRel(<, Nat) <=> y < m
    BY DEF OpToRel
  <2>2. ~(y < m)
    BY <1>1, <2>1, Zenon
  <2> QED
    BY <2>2
<1> QED
  BY <1>1, <1>2, Zenon DEF Min

(* One that has a bound has a greatest. *)
LEMMA Greatest ==
  ASSUME NEW n \in Nat, NEW S, S \subseteq 0 .. n, S # {}
  PROVE  Max(S) \in S /\ \A x \in S : x <= Max(S)
<1> DEFINE T == {n - x : x \in S}
<1>1. T \subseteq Nat /\ T # {}
  <2>1. \A x \in S : x \in Nat /\ x <= n
    OBVIOUS
  <2>2. \A x \in S : n - x \in Nat
    BY <2>1
  <2> QED
    BY <2>2, Zenon
<1>2. PICK m \in S : n - m = Min(T)
  BY <1>1, Least, Zenon
<1>3. \A x \in S : n - x \in T /\ Min(T) <= n - x
  BY <1>1, Least
<1>4. \A x \in S : m >= x
  BY <1>2, <1>3
<1> HIDE DEF T
<1> QED
  BY <1>2, <1>4, Zenon DEF Max

-----------------------------------------------------------------------------
(* The CoA server.                                                          *)

Working == pc \in {"sanitize", "send"}

(* The thread has a command in hand when it works on one. *)
CommandInv ==
  pc \in {"list", "sanitize", "send"} => cmd \in [kind : {"service"}, svc : Svc, op : {"A", "N"}]

(* Until the configuration changes, what is attached is known. *)
KnownInv ==
  ~restarted =>
    /\ Attached \cup Pending \subseteq known
    /\ Working => \A s \in Svc : request[s] # "-" => s \in known

(* Services are attached in front: what is to come is before what is there. *)
OrderInv == \A s \in Pending, u \in Attached : s < u

(* The list that sanitize walks is still what the kernel has, but for the   *)
(* service of the command, unless the session is gone or another service    *)
(* stands in front of that one by now.                                      *)
ListInv ==
  Working =>
    /\ request[cmd.svc] = cmd.op
    /\ \/ Attached = {} /\ Pending = {}
       \/ \E s \in Attached : s < cmd.svc
       \/ cmd.svc \in Attached /\ \A s \in Svc \ {cmd.svc} : status[s] = request[s]

(* What sanitize has let pass. *)
SentInv == pc = "send" => k = N /\ ~Refused /\ cmd.svc \in known

(* What is active and what will be have no class in common. *)
ApartInv ==
  ~missed /\ ~early /\ ~restarted => Apart(Active(status) \cup Active(plan))

SanitizeInv == OffInv /\ Walked

KernelInv ==
  /\ plan \in [Svc -> {"-", "A", "N"}] /\ status \in [Svc -> {"-", "A", "N"}]
  /\ CommandInv /\ KnownInv /\ OrderInv /\ ListInv /\ SentInv
  /\ pc = "dead" => restarted

CoaInv == SanitizeInv /\ KernelInv /\ ApartInv

(* A list that sanitize has not begun to walk. *)
LEMMA FreshList ==
  ASSUME NEW r, Fresh(r), SanitizeInv, conf' = conf, known' \subseteq known
  PROVE  SanitizeInv'
<1>0. N \in Nat
  BY ServicesAssumption DEF ServicesAssumption
<1>1. Shape'
  BY <1>0 DEF Fresh, Blank, Shape, SanitizeInv, OffInv, Inv, Svc, NoOwner
<1>2. k' = 0 /\ \A s \in Svc : ret'[s] = "-" /\ ~(s <= k')
  BY DEF Fresh, Blank, Svc
<1>3. ActiveOwns' /\ OffForAReason' /\ Walked'
  BY <1>1, <1>2 DEF ActiveOwns, OffForAReason, Walked, Shape
<1>4. OwnersAsked'
  BY DEF Fresh, OwnersAsked
<1> QED
  BY <1>1, <1>3, <1>4 DEF SanitizeInv, OffInv, Inv

(* Every step leaves sanitize alone, is a turn of its loop, or has a new    *)
(* list for it.                                                             *)
LEMMA SanitizeStep ==
  ASSUME SanitizeInv, [CoaNext]_coaSpecVars
  PROVE  SanitizeInv'
<1>1. ASSUME UNCHANGED vars PROVE SanitizeInv'
  BY <1>1 DEF vars, SanitizeInv, OffInv, Inv, Shape, ActiveOwns, OwnersAsked, OffForAReason, Walked, Share
<1>2. CASE Resolve
  <2>1. OffInv'
    BY <1>2, ServicesAssumption, StepInv, StepOff DEF SanitizeInv, OffInv, Next
  <2> QED
    BY <1>2, <2>1, StepWalked DEF SanitizeInv
<1>3. ASSUME NEW r, Fresh(r), conf' = conf, known' \in SUBSET known PROVE SanitizeInv'
  BY <1>3, FreshList
<1>4. CASE UNCHANGED coaSpecVars
  BY <1>1, <1>4 DEF coaSpecVars, sanitizeVars, vars
<1>5. CASE Apply \/ SessionEnds \/ BuildEvent
  BY <1>1, <1>5 DEF Apply, SessionEnds, BuildEvent, sanitizeVars, vars
<1>6. CASE Restart
  BY <1>3, <1>6 DEF Restart
<1>7. CASE \E p \in Packet : Refuse(p) \/ OneRequest(p) \/ Command(p)
  BY <1>1, <1>3, <1>7 DEF Refuse, OneRequest, Command, Reply, sanitizeVars, vars
<1>8. CASE GetList \/ SendRefused \/ Send
  BY <1>3, <1>8 DEF GetList, SendRefused, Send, Reply
<1>9. CASE Sanitize
  BY <1>2, <1>9 DEF Sanitize
<1> QED
  BY <1>4, <1>5, <1>6, <1>7, <1>8, <1>9, Zenon DEF CoaNext, CoaStep

(* A step after which the thread has nothing in hand and nothing more is    *)
(* attached or to come than before.                                         *)
LEMMA IdleKeeps ==
  ASSUME KernelInv, pc' = "idle", OrderInv',
         plan' \in [Svc -> {"-", "A", "N"}], status' \in [Svc -> {"-", "A", "N"}],
         Attached' \cup Pending' \subseteq Attached \cup Pending,
         ~restarted' => ~restarted /\ known' = known
  PROVE  KernelInv'
<1>1. CommandInv' /\ ListInv' /\ SentInv' /\ ~Working'
  BY DEF CommandInv, ListInv, SentInv, Working
<1>2. KnownInv'
  BY <1>1 DEF KernelInv, KnownInv
<1> QED
  BY <1>1, <1>2 DEF KernelInv

(* The next service of the answer goes in front of what is attached. *)
LEMMA ApplyMoves ==
  ASSUME KernelInv, Apply
  PROVE  \E s \in Pending :
           /\ status' = [status EXCEPT ![s] = plan[s]] /\ plan' = [plan EXCEPT ![s] = "-"]
           /\ Attached' = Attached \cup {s} /\ Pending' = Pending \ {s}
           /\ s \notin Attached
           /\ \A u \in Pending' : u < s
           /\ \A u \in Attached : s < u
<1>0. N \in Nat
  BY ServicesAssumption DEF ServicesAssumption
<1>1. Pending \subseteq 0 .. N /\ Pending # {}
  BY <1>0 DEF Pending, Svc, Apply
<1>2. Max(Pending) \in Pending /\ \A u \in Pending : u <= Max(Pending)
  BY <1>0, <1>1, Greatest, Zenon
<1>3. PICK s \in Pending : s = Max(Pending) /\ \A u \in Pending : u <= s
  BY <1>2, Zenon
<1>4. status' = [status EXCEPT ![s] = plan[s]] /\ plan' = [plan EXCEPT ![s] = "-"]
  BY <1>3 DEF Apply
<1>5. Attached' = Attached \cup {s} /\ Pending' = Pending \ {s}
  BY <1>4 DEF Attached, Pending, KernelInv
<1>6. \A u \in Attached : s < u
  BY DEF KernelInv, OrderInv
<1>7. s \notin Attached
  BY <1>0, <1>6 DEF Pending, Svc
<1>8. \A u \in Pending' : u < s
  BY <1>0, <1>3, <1>5 DEF Pending, Svc
<1> QED
  BY <1>4, <1>5, <1>6, <1>7, <1>8, Zenon

(* The end of the session takes everything with it. *)
LEMMA GoneEmpty ==
  ASSUME ZeroGone
  PROVE  /\ Attached' = {} /\ Pending' = {} /\ Active(status)' = {} /\ Active(plan)' = {}
         /\ plan' \in [Svc -> {"-", "A", "N"}] /\ status' \in [Svc -> {"-", "A", "N"}]
BY DEF ZeroGone, Attached, Pending, Active

(* The kernel's list keeps its order, and the thread's copy agrees with it  *)
(* as long as it matters.                                                   *)
LEMMA KernelStep ==
  ASSUME SanitizeInv, KernelInv, [CoaNext]_coaSpecVars
  PROVE  KernelInv'
<1>1. ASSUME UNCHANGED <<plan, status>>
      PROVE  /\ Attached' = Attached /\ Pending' = Pending
             /\ OrderInv'
             /\ plan' \in [Svc -> {"-", "A", "N"}] /\ status' \in [Svc -> {"-", "A", "N"}]
  BY <1>1 DEF Attached, Pending, OrderInv, KernelInv
<1>2. CASE UNCHANGED coaSpecVars
  BY <1>1, <1>2 DEF coaSpecVars, kernelVars, sanitizeVars, coaVars, KernelInv, CommandInv, KnownInv, ListInv,
                    SentInv, Working, Refused
<1>3. CASE Apply
  <2>1. PICK s \in Pending :
          /\ status' = [status EXCEPT ![s] = plan[s]] /\ plan' = [plan EXCEPT ![s] = "-"]
          /\ Attached' = Attached \cup {s} /\ Pending' = Pending \ {s}
          /\ s \notin Attached
          /\ \A u \in Pending' : u < s
          /\ \A u \in Attached : s < u
    BY <1>3, ApplyMoves
  <2>2. UNCHANGED <<conf, known, request, k, onCls, ret, pc, cmd, restarted>>
    BY <1>3 DEF Apply, sanitizeVars, coaVars
  <2>3. plan' \in [Svc -> {"-", "A", "N"}] /\ status' \in [Svc -> {"-", "A", "N"}]
    BY <2>1 DEF KernelInv, Pending
  <2>4. CommandInv' /\ SentInv' /\ (pc' = "dead" => restarted')
    BY <2>2 DEF KernelInv, CommandInv, SentInv, Refused
  <2>5. KnownInv'
    BY <2>1, <2>2 DEF KernelInv, KnownInv, Working
  <2>6. OrderInv'
    BY <2>1 DEF KernelInv, OrderInv
  <2>7. ListInv'
    <3> SUFFICES ASSUME Working
                 PROVE  /\ request[cmd.svc] = cmd.op
                        /\ \/ Attached' = {} /\ Pending' = {}
                           \/ \E u \in Attached' : u < cmd.svc
      BY <2>2 DEF ListInv, Working
    <3>1. \/ \E u \in Attached : u < cmd.svc
          \/ cmd.svc \in Attached
      BY <2>1 DEF KernelInv, ListInv
    <3> QED
      BY <2>1, <3>1 DEF KernelInv, ListInv
  <2> QED
    BY <2>3, <2>4, <2>5, <2>6, <2>7 DEF KernelInv
<1>4. CASE SessionEnds
  <2>1. UNCHANGED <<known, request, k, ret, pc, cmd, restarted>>
    BY <1>4 DEF SessionEnds, sanitizeVars, coaVars
  <2> QED
    BY <1>4, <2>1, GoneEmpty DEF SessionEnds, KernelInv, CommandInv, KnownInv, OrderInv, ListInv, SentInv, Working,
                                 Refused
<1>5. CASE Restart
  <2>1. Attached' = Attached /\ Pending' = {}
    BY <1>5 DEF Restart, Blank, Attached, Pending
  <2>2. OrderInv'
    BY <2>1 DEF OrderInv
  <2>3. plan' \in [Svc -> {"-", "A", "N"}] /\ status' \in [Svc -> {"-", "A", "N"}]
    BY <1>5 DEF Restart, Blank, KernelInv
  <2>4. pc' = "idle" /\ restarted'
    BY <1>5 DEF Restart
  <2> QED
    BY <2>1, <2>2, <2>3, <2>4, IdleKeeps
<1>6. CASE \E p \in Packet : Refuse(p) \/ OneRequest(p)
  <2>1. pc' = "idle" /\ UNCHANGED <<known, restarted>>
    BY <1>6 DEF Refuse, OneRequest, Reply
  <2>2. ZeroGone \/ UNCHANGED <<plan, status>>
    BY <1>6 DEF Refuse, OneRequest, kernelVars
  <2>3. CASE ZeroGone
    BY <2>1, <2>3, GoneEmpty, IdleKeeps DEF OrderInv
  <2>4. CASE UNCHANGED <<plan, status>>
    BY <2>1, <2>4, <1>1, IdleKeeps
  <2> QED
    BY <2>2, <2>3, <2>4
<1>7. CASE \E p \in Packet : Command(p)
  <2>1. PICK p \in Packet : Command(p)
    BY <1>7
  <2>2. UNCHANGED <<plan, status, known, restarted>> /\ pc' = "list" /\ cmd' = p /\ p.kind = "service"
    BY <2>1 DEF Command, kernelVars
  <2>3. p \in [kind : {"service"}, svc : Svc, op : {"A", "N"}]
    BY <2>2 DEF Packet
  <2> QED
    BY <1>1, <2>2, <2>3 DEF KernelInv, CommandInv, KnownInv, ListInv, SentInv, Working
<1>8. CASE GetList
  <2>1. UNCHANGED <<plan, status, known, restarted>>
    BY <1>8 DEF GetList, kernelVars
  <2>2. CASE pc' = "idle"
    BY <1>1, <2>1, <2>2, IdleKeeps
  <2>3. CASE pc' # "idle"
    <3>1. cmd \in [kind : {"service"}, svc : Svc, op : {"A", "N"}]
      BY <1>8 DEF GetList, KernelInv, CommandInv
    <3>2. Listed(cmd.svc) /\ pc' = "sanitize" /\ cmd' = cmd /\ request' = [status EXCEPT ![cmd.svc] = cmd.op]
      BY <1>8, <2>3 DEF GetList, Fresh, Reply
    <3>3. cmd.svc \in Attached /\ \A s \in Svc : request'[s] = IF s = cmd.svc THEN cmd.op ELSE status[s]
      BY <3>1, <3>2 DEF Listed, Attached, KernelInv
    <3>4. ListInv'
      BY <1>1, <2>1, <3>1, <3>2, <3>3 DEF ListInv
    <3>5. KnownInv'
      BY <1>1, <2>1, <3>1, <3>2, <3>3 DEF KernelInv, KnownInv, Attached
    <3> QED
      BY <1>1, <2>1, <3>1, <3>2, <3>4, <3>5 DEF KernelInv, CommandInv, SentInv
  <2> QED
    BY <2>2, <2>3
<1>9. CASE Sanitize
  <2>1. UNCHANGED <<plan, status, known, request, restarted, pc, cmd>> /\ pc = "sanitize"
    BY <1>9 DEF Sanitize, Resolve, kernelVars, coaVars
  <2> QED
    BY <1>1, <2>1 DEF KernelInv, CommandInv, KnownInv, ListInv, SentInv, Working
<1>10. CASE SendRefused
  BY <1>1, <1>10, IdleKeeps DEF SendRefused, Reply, kernelVars
<1>11. CASE BuildEvent
  <2>1. UNCHANGED <<plan, status, known, request, k, ret, restarted, cmd>> /\ pc = "sanitize" /\ k = N /\ ~Refused
    BY <1>11 DEF BuildEvent, kernelVars, sanitizeVars
  <2>2. Refused' = Refused
    BY <2>1 DEF Refused
  <2>3. cmd.svc \in Svc /\ request[cmd.svc] = cmd.op /\ cmd.op # "-"
    BY <2>1 DEF KernelInv, CommandInv, ListInv, Working
  <2>4. ~restarted => cmd.svc \in known
    BY <2>1, <2>3 DEF KernelInv, KnownInv, Working
  <2>5. CASE cmd.svc \in known
    <3>1. pc' = "send"
      BY <1>11, <2>5 DEF BuildEvent
    <3> QED
      BY <1>1, <2>1, <2>2, <2>5, <3>1 DEF KernelInv, CommandInv, KnownInv, ListInv, SentInv, Working
  <2>6. CASE cmd.svc \notin known
    <3>1. pc' = "dead" /\ restarted
      BY <1>11, <2>4, <2>6 DEF BuildEvent
    <3> QED
      BY <1>1, <2>1, <3>1 DEF KernelInv, CommandInv, KnownInv, ListInv, SentInv, Working
  <2> QED
    BY <2>5, <2>6
<1>12. CASE Send
  <2>1. pc' = "idle" /\ UNCHANGED <<plan, known, restarted>>
    BY <1>12 DEF Send, Reply
  <2>2. CASE Attached = {}
    BY <1>1, <1>12, <2>1, <2>2, IdleKeeps DEF Send
  <2>3. CASE Attached # {}
    <3>1. cmd.op \in {"A", "N"}
      BY <1>12 DEF Send, KernelInv, CommandInv
    <3>2. Min(Attached) \in Attached
      <4>1. Attached \subseteq Nat
        BY ServicesAssumption DEF ServicesAssumption, Attached, Svc
      <4> QED
        BY <2>3, <4>1, Least, Zenon
    <3>3. status' = [status EXCEPT ![Min(Attached)] = cmd.op]
      BY <1>12, <2>3 DEF Send
    <3>4. Attached' = Attached /\ Pending' = Pending /\ status' \in [Svc -> {"-", "A", "N"}]
      BY <2>1, <3>1, <3>2, <3>3 DEF Attached, Pending, KernelInv
    <3>5. OrderInv'
      BY <3>4 DEF KernelInv, OrderInv
    <3> QED
      BY <2>1, <3>4, <3>5, IdleKeeps DEF KernelInv
  <2> QED
    BY <2>2, <2>3
<1> QED
  BY <1>2, <1>3, <1>4, <1>5, <1>6, <1>7, <1>8, <1>9, <1>10, <1>11, <1>12, Zenon DEF CoaNext, CoaStep

(* The heart of it: when the event switches on the service it names, what   *)
(* sanitize has seen is what the kernel has.  A service that is active there *)
(* and not in the result of sanitize would be off together with another one *)
(* that shares a class with it; but no two of the active ones do, and the   *)
(* one being switched on is not off.                                        *)
LEMMA SwitchedOnApart ==
  ASSUME SanitizeInv, KernelInv, pc = "send", cmd.op = "A", ~restarted,
         Attached # {}, Min(Attached) = cmd.svc, Apart(Active(status)),
         NEW u \in Active(status), u # cmd.svc
  PROVE  ~Share(cmd.svc, u) /\ ~Share(u, cmd.svc)
<1> DEFINE s == cmd.svc
<1>0. N \in Nat /\ k = N /\ ~Refused /\ s \in known
  BY ServicesAssumption DEF ServicesAssumption, KernelInv, SentInv
<1>1. s \in Svc /\ u \in Svc /\ \A v \in Svc : v <= k
  BY <1>0 DEF KernelInv, CommandInv, Active, Svc
<1>2. Attached \subseteq Nat
  BY <1>0 DEF Attached, Svc
<1>3. ~ \E v \in Attached : v < s
  <2>1. \A v \in Attached : s <= v
    BY <1>2, Least, Zenon
  <2> QED
    BY <1>0, <1>1, <1>2, <2>1 DEF Svc
<1>4. request[s] = "A" /\ \A v \in Svc \ {s} : status[v] = request[v]
  BY <1>3 DEF KernelInv, ListInv, Working
<1>5. ret[s] = "A"
  <2>1. ret[s] # "-"
    BY <1>0, <1>1, <1>4 DEF SanitizeInv, Walked
  <2>2. ret[s] # "N"
    BY <1>0 DEF Refused
  <2> QED
    BY <1>1, <2>1, <2>2 DEF SanitizeInv, OffInv, Inv, Shape
<1>6. request[u] = "A" /\ u \in known
  BY <1>1, <1>4 DEF Active, KernelInv, KnownInv, Working
<1>7. ret[u] # "-"
  BY <1>1, <1>6 DEF SanitizeInv, Walked
<1>8. ret[u] # "N"
  <2> SUFFICES ASSUME ret[u] = "N" PROVE FALSE
    OBVIOUS
  <2>1. PICK w \in known \ {u} : request[w] = "A" /\ ret[w] = "N" /\ Share(u, w)
    BY <1>1, <1>6 DEF SanitizeInv, OffInv, OffForAReason
  <2>2. w \in Svc /\ w # s
    BY <1>5, <2>1 DEF SanitizeInv, OffInv, Inv, Shape
  <2>3. w \in Active(status)
    BY <1>4, <2>1, <2>2 DEF Active
  <2> QED
    BY <2>1, <2>3 DEF Apart
<1>9. ret[u] = "A"
  BY <1>1, <1>7, <1>8 DEF SanitizeInv, OffInv, Inv, Shape
<1>10. NoSharedClass
  BY OwnersDiffer DEF SanitizeInv, OffInv
<1> QED
  BY <1>1, <1>5, <1>9, <1>10 DEF NoSharedClass

(* No step makes two services active that share a class, but for the three  *)
(* reasons given.                                                           *)
LEMMA ApartStep ==
  ASSUME SanitizeInv, KernelInv, ApartInv, [CoaNext]_coaSpecVars
  PROVE  ApartInv'
<1> SUFFICES ASSUME ~missed', ~early', ~restarted'
             PROVE  Apart(Active(status) \cup Active(plan))'
  BY SMTT(20) DEF ApartInv
<1>0. conf' = conf
  BY SMTT(20) DEF CoaNext, CoaStep, Apply, SessionEnds, Restart, Refuse, OneRequest, Command, GetList, Sanitize, Resolve,
         SendRefused, BuildEvent, Send, coaSpecVars
<1>1. ASSUME UNCHANGED <<status, plan>>, UNCHANGED <<missed, early>>, restarted' = restarted
      PROVE  Apart(Active(status) \cup Active(plan))'
  BY <1>0, <1>1 DEF ApartInv, Apart, Active, Share
<1>2. CASE UNCHANGED coaSpecVars
  BY <1>1, <1>2 DEF coaSpecVars, kernelVars, history
<1>3. CASE Apply
  <2>1. PICK s \in Pending :
          /\ status' = [status EXCEPT ![s] = plan[s]] /\ plan' = [plan EXCEPT ![s] = "-"]
          /\ s \notin Attached
    BY <1>3, ApplyMoves
  <2>2. (Active(status) \cup Active(plan))' \subseteq Active(status) \cup Active(plan)
    BY <2>1 DEF Active, KernelInv, Pending
  <2>3. Apart(Active(status) \cup Active(plan))
    BY <1>3 DEF Apply, ApartInv, history
  <2> QED
    BY <1>0, <2>2, <2>3 DEF Apart, Share
<1>4. ASSUME ZeroGone PROVE Apart(Active(status) \cup Active(plan))'
  BY <1>4, GoneEmpty DEF Apart
<1>5. CASE SessionEnds
  BY <1>4, <1>5 DEF SessionEnds
<1>6. CASE \E p \in Packet : Refuse(p) \/ OneRequest(p) \/ Command(p)
  BY <1>1, <1>4, <1>6 DEF Refuse, OneRequest, Command, kernelVars, history
<1>7. CASE GetList \/ Sanitize \/ SendRefused \/ BuildEvent
  BY <1>1, <1>7 DEF GetList, Sanitize, SendRefused, BuildEvent, kernelVars, history
<1>8. CASE Send
  <2>1. UNCHANGED <<plan, restarted>> /\ pc = "send"
    BY <1>8, SMTT(20) DEF Send
  <2>2. CASE Attached = {}
    BY <1>1, <1>8, <2>1, <2>2 DEF Send, history
  <2>3. CASE Attached # {}
    <3>1. /\ ~missed /\ Min(Attached) = cmd.svc /\ ~early /\ Pending = {}
          /\ status' = [status EXCEPT ![cmd.svc] = cmd.op]
      BY <1>8, <2>3, Zenon DEF Send
    <3>2. Apart(Active(status)) /\ Active(plan)' = {}
      BY <2>1, <3>1 DEF ApartInv, Apart, Active, Pending
    <3>3. cmd.svc \in Svc /\ cmd.op \in {"A", "N"}
      BY <2>1 DEF KernelInv, CommandInv
    <3>4. Active(status)' \subseteq Active(status) \cup {cmd.svc}
      BY <3>1, <3>3 DEF KernelInv, Active
    <3>5. cmd.op # "A" => Active(status)' \subseteq Active(status)
      BY <3>1, <3>3 DEF KernelInv, Active
    <3>6. CASE cmd.op = "A"
      <4>1. \A u \in Active(status) : u # cmd.svc => ~Share(cmd.svc, u) /\ ~Share(u, cmd.svc)
        BY <2>1, <2>3, <3>1, <3>2, <3>6, SwitchedOnApart
      <4> QED
        BY <1>0, <3>2, <3>4, <4>1 DEF Apart, Share
    <3>7. CASE cmd.op # "A"
      BY <1>0, <3>2, <3>5, <3>7 DEF Apart, Share
    <3> QED
      BY <3>6, <3>7
  <2> QED
    BY <2>2, <2>3
<1>9. CASE Restart
  BY <1>9 DEF Restart
<1> QED
  BY <1>2, <1>3, <1>5, <1>6, <1>7, <1>8, <1>9, Zenon DEF CoaNext, CoaStep

(* Nothing is attached when the daemon has just answered. *)
LEMMA CoaInitInv == CoaInit => CoaInv
<1> SUFFICES ASSUME CoaInit PROVE CoaInv
  OBVIOUS
<1>1. Init
  BY DEF CoaInit
<1>2. Inv
  BY <1>1, ServicesAssumption, InitInv
<1>3. OwnersAsked /\ OffForAReason
  BY <1>1 DEF Init, OwnersAsked, OffForAReason, Svc, Prepared
<1>4. Walked
  BY <1>1, ServicesAssumption DEF ServicesAssumption, Init, Walked, Svc
<1>5. Attached = {} /\ Active(status) = {}
  BY DEF CoaInit, Attached, Active
<1>6. plan \in [Svc -> {"-", "A", "N"}] /\ Apart(Active(plan)) /\ Pending \subseteq known
  BY DEF CoaInit, Answered, Pending
<1>7. KernelInv
  BY <1>5, <1>6 DEF CoaInit, KernelInv, CommandInv, KnownInv, OrderInv, ListInv, SentInv, Working
<1>8. ApartInv
  BY <1>5, <1>6 DEF ApartInv
<1> QED
  BY <1>2, <1>3, <1>4, <1>7, <1>8 DEF CoaInv, SanitizeInv, OffInv

(* All of it, for every configuration, answer and sequence of packets. *)
LEMMA CoaCorrect == CoaSpec => []CoaInv
<1>1. CoaInv /\ [CoaNext]_coaSpecVars => CoaInv'
  BY SanitizeStep, KernelStep, ApartStep DEF CoaInv
<1> QED
  BY <1>1, CoaInitInv, PTL DEF CoaSpec

(* What sanitize promises holds of every list that the CoA server gives it. *)
THEOREM CommandsSanitized == CoaSpec => [](NoSharedClass /\ OffForAReason)
<1>1. CoaInv => NoSharedClass /\ OffForAReason
  BY OwnersDiffer DEF CoaInv, SanitizeInv, OffInv
<1> QED
  BY <1>1, CoaCorrect, PTL

(* Services that the CoA commands activate in the kernel have no class in   *)
(* common with those that are active there already, unless a command        *)
(* reached another service than it named, came before the whole answer was  *)
(* attached, or the daemon was restarted with another configuration.        *)
THEOREM ActiveApartCorrect == CoaSpec => []ActiveApart
<1>1. CoaInv => ActiveApart
  BY DEF CoaInv, ApartInv, ActiveApart, Apart
<1> QED
  BY <1>1, CoaCorrect, PTL

(* The CoA thread meets a service that it does not know, and ends over it,  *)
(* only when the daemon was restarted while the kernel kept the session.    *)
THEOREM DiesCorrect == CoaSpec => []DiesOnlyAfterRestart
<1>1. CoaInv => DiesOnlyAfterRestart
  BY DEF CoaInv, KernelInv, DiesOnlyAfterRestart
<1> QED
  BY <1>1, CoaCorrect, PTL
=============================================================================
