------------------------------ MODULE Control -------------------------------
(***************************************************************************)
(* The clients that act on sessions, on top of the session table: the       *)
(* command line (clear, change_rate, clear_all, clear_unapproved), the      *)
(* session monitor with its keys, PUT /sessions/{id} of the API, and the    *)
(* Disconnect and rate requests of the CoA server.                          *)
(*                                                                          *)
(* Each of them is told something about a session first - by the kernel's   *)
(* list, by the screen, by accounting - and sends its request later, when   *)
(* sessions may have ended, started and been approved.  A request names a   *)
(* session by number, by port or by address, and isg_equal accepts whatever *)
(* agrees in one of the three; what is left out is 0, and 0 is also the     *)
(* first port of the bitmap.                                                *)
(*                                                                          *)
(* The kernel's handlers are single steps here: IsgSession implements       *)
(* SessionTable.  Overlap, where that ends, is not part of this module.     *)
(***************************************************************************)
EXTENDS SessionTable, FiniteSets

CONSTANTS
  Operator,   \* the command line, a monitor, a CoA request
  Api,        \* the API: one event loop, one update at a time
  NoId,       \* the number of no session
  Dir,        \* the directions of traffic
  Limits      \* the sets of directions that requests limit

Client == Operator \cup {Api}

(* Of the rates of a request only the directions that they limit are kept. *)
(* It names a session by number, port or address, the API by the last two.  *)
(* A number is the slot of its session until that ends.                     *)
Kind == {"id", "port", "ip", "both"}
Target == [kind : Kind, id : Slot \cup {NoId}, port : Port, ip : IP \cup {NoIP}]
Operation == [op : {"clear", "approve", "change", "none"}, dirs : Limits]

ASSUME ControlAssumption ==
  NoId \notin Slot /\ Api \notin Operator /\ Limits \subseteq SUBSET Dir /\ {} \in Limits

VARIABLES
  lim,        \* slot -> the directions its session is limited in
  pc,         \* client -> idle, send, sweep, or the monitor's refresh and wait
  tgt,        \* client -> whom its event names
  upd,        \* client -> what it will ask for
  same,       \* client -> the sessions it was told about that have not ended
  todo,       \* client -> ports that clear_all and clear_unapproved have left
  mode,       \* monitor -> no question, a question, or a rate being typed
  shown       \* monitor -> whether it found its session, and approved

clientVars == <<pc, tgt, upd, same, todo, mode, shown>>
vars == <<tableVars, lim, clientVars>>

Nobody == [kind |-> "both", id |-> NoId, port |-> 0, ip |-> NoIP]
NoOp == [op |-> "none", dirs |-> {}]

TypeOK ==
  /\ TableTypeOK /\ ~overlapped
  /\ lim \in [Slot -> Limits]
  /\ pc \in [Client -> {"idle", "send", "sweep", "refresh", "wait"}]
  /\ tgt \in [Client -> Target]
  /\ upd \in [Client -> Operation]
  /\ same \in [Client -> SUBSET Slot]
  /\ todo \in [Client -> SUBSET Port]
  /\ mode \in [Client -> {"plain", "clear", "edit"}]
  /\ shown \in [Client -> {"none", "approved", "unapproved"}]

Init ==
  /\ TableInit
  /\ lim = [o \in Slot |-> {}]
  /\ pc = [c \in Client |-> "idle"]
  /\ tgt = [c \in Client |-> Nobody]
  /\ upd = [c \in Client |-> NoOp]
  /\ same = [c \in Client |-> {}]
  /\ todo = [c \in Client |-> {}]
  /\ mode = [c \in Client |-> "plain"]
  /\ shown = [c \in Client |-> "none"]

(* A client is done: nothing of what it knew is kept. *)
Leave(c, toldOf, names) ==
  /\ pc' = [pc EXCEPT ![c] = "idle"]
  /\ tgt' = [names EXCEPT ![c] = Nobody]
  /\ upd' = [upd EXCEPT ![c] = NoOp]
  /\ same' = [toldOf EXCEPT ![c] = {}]
  /\ mode' = [mode EXCEPT ![c] = "plain"]
  /\ shown' = [shown EXCEPT ![c] = "none"]
  /\ UNCHANGED todo

-----------------------------------------------------------------------------
(* The kernel. *)

(* The session that a request means by its name. *)
Names(t, o) ==
  /\ o \in Linked
  /\ CASE t.kind = "id"   -> o = t.id
       [] t.kind = "port" -> tab[o].port = t.port
       [] t.kind = "ip"   -> tab[o].ip = t.ip
       [] t.kind = "both" -> tab[o].port = t.port /\ tab[o].ip = t.ip

isg_equal_Any(t, o) == o \in Linked

(* A request is taken to mean whatever agrees in one field. *)
isg_equal(t, o) ==
  o \in Linked /\ (o = t.id \/ tab[o].port = t.port \/ tab[o].ip = t.ip)

(* isg_find_session returns the first such session in the order of the      *)
(* buckets, which is any.                                                   *)
Found(t) == {o \in Slot : isg_equal(t, o)}

(* What the clients know once session o is gone. *)
SameWithout(o) == [c \in Client |-> same[c] \ {o}]
TgtWithout(o) ==
  [c \in Client |-> IF tgt[c].id = o
                    THEN [kind |-> tgt[c].kind, id |-> NoId, port |-> tgt[c].port, ip |-> tgt[c].ip]
                    ELSE tgt[c]]

SetRates_Swapped(o, dirs) == lim' = [lim EXCEPT ![o] = {d \in Dir : \E e \in dirs : e # d}]

(* isg_update_session replaces both rates by those of the event, or neither *)
(* when there is no memory for them.                                        *)
SetRates(o, dirs) == lim' = [lim EXCEPT ![o] = dirs] \/ UNCHANGED lim

(* A request reaches session o. *)
Effect(o, r) ==
  CASE r.op = "clear"   -> End(o) /\ UNCHANGED lim
    [] r.op = "approve" -> Approve(o) /\ SetRates(o, r.dirs)
    [] r.op = "change"  -> SetRates(o, r.dirs) /\ UNCHANGED tableVars
    [] OTHER            -> UNCHANGED <<tableVars, lim>>

KnownAfter(o, r) == IF r.op = "clear" THEN SameWithout(o) ELSE same
NamedAfter(o, r) == IF r.op = "clear" THEN TgtWithout(o) ELSE tgt

(* A packet of an address without session. *)
NewSession(o, ip) ==
  /\ Start(o, ip)
  /\ lim' = [lim EXCEPT ![o] = {}]
  /\ UNCHANGED clientVars

(* A limit ends a session. *)
Expire(o) ==
  /\ End(o)
  /\ same' = SameWithout(o) /\ tgt' = TgtWithout(o)
  /\ UNCHANGED <<lim, pc, upd, todo, mode, shown>>

(* The daemon's answer for a new session. *)
Grant(o, dirs) ==
  /\ o \in Linked /\ ~tab[o].approved
  /\ Approve(o)
  /\ SetRates(o, dirs)
  /\ UNCHANGED clientVars

-----------------------------------------------------------------------------
(* One request: clear and change_rate of the command line, Disconnect and   *)
(* rate requests of the CoA server.                                         *)

OneRequest == {r \in Operation : r.op = "clear" => r.dirs = {}} \ [op : {"approve", "none"}, dirs : Limits]

(* parse_target: what the caller names, and whom that is. *)
ByName ==
  {[kind |-> "id", id |-> o, port |-> 0, ip |-> NoIP] : o \in Linked}
  \cup {[kind |-> "port", id |-> NoId, port |-> p, ip |-> NoIP] : p \in Port}
  \cup {[kind |-> "ip", id |-> NoId, port |-> 0, ip |-> i] : i \in IP}

Decide(c, t, r) ==
  /\ pc[c] = "idle"
  /\ pc' = [pc EXCEPT ![c] = "send"]
  /\ tgt' = [tgt EXCEPT ![c] = t]
  /\ upd' = [upd EXCEPT ![c] = r]
  /\ same' = [same EXCEPT ![c] = {o \in Slot : Names(t, o)}]
  /\ UNCHANGED <<tableVars, lim, todo, mode, shown>>

Ask(c, t, r) == c \in Operator /\ Decide(c, t, r)

(* The request is sent, by whoever decided it: it reaches a session or is   *)
(* answered with NACK.                                                      *)
Send(c) ==
  /\ pc[c] = "send"
  /\ \/ \E o \in Found(tgt[c]) :
          /\ Effect(o, upd[c])
          /\ Leave(c, KnownAfter(o, upd[c]), NamedAfter(o, upd[c]))
     \/ /\ Found(tgt[c]) = {}
        /\ Leave(c, same, tgt)
        /\ UNCHANGED <<tableVars, lim>>

-----------------------------------------------------------------------------
(* The API. *)

(* SessionUpdate as apply_update reads it: block comes first, then approve, *)
(* then the rates; approve or block alone may also say no.                  *)
SessionUpdate == {r \in Operation : r.op \in {"clear", "none"} => r.dirs = {}}

(* _session_ev names the session that was found by its port and address. *)
_session_ev(o) == [kind |-> "both", id |-> NoId, port |-> tab[o].port, ip |-> tab[o].ip]

(* update_session up to its request; 404 changes nothing. *)
FindSession(o, r) == o \in Linked /\ Decide(Api, _session_ev(o), r)

-----------------------------------------------------------------------------
(* clear_all and clear_unapproved. *)

List(c, unapproved, listed) ==
  /\ c \in Operator
  /\ pc[c] = "idle"
  /\ listed # {}
  /\ listed \subseteq {o \in Linked : unapproved => ~tab[o].approved}
  /\ pc' = [pc EXCEPT ![c] = "sweep"]
  /\ todo' = [todo EXCEPT ![c] = {tab[o].port : o \in listed}]
  /\ same' = [same EXCEPT ![c] = listed]
  /\ UNCHANGED <<tableVars, lim, tgt, upd, mode, shown>>

SweepEvent_NoPort(p) == [kind |-> "port", id |-> NoId, port |-> 0, ip |-> NoIP]

(* EVENT_SESS_CLEAR for one port of the list. *)
SweepEvent(p) == [kind |-> "port", id |-> NoId, port |-> p, ip |-> NoIP]

SweepOne(c, p) ==
  /\ pc[c] = "sweep"
  /\ p \in todo[c]
  /\ todo' = [todo EXCEPT ![c] = @ \ {p}]
  /\ \/ \E o \in Found(SweepEvent(p)) :
          /\ End(o)
          /\ same' = SameWithout(o) /\ tgt' = TgtWithout(o)
     \/ Found(SweepEvent(p)) = {} /\ UNCHANGED <<tableVars, same, tgt>>
  /\ UNCHANGED <<lim, pc, upd, mode, shown>>

SweepDone(c) ==
  /\ pc[c] = "sweep" /\ todo[c] = {}
  /\ Leave(c, same, tgt)
  /\ UNCHANGED <<tableVars, lim>>

-----------------------------------------------------------------------------
(* The session monitor. *)

Monitor(c, t) ==
  /\ c \in Operator
  /\ pc[c] = "idle"
  /\ pc' = [pc EXCEPT ![c] = "refresh"]
  /\ tgt' = [tgt EXCEPT ![c] = t]
  /\ UNCHANGED <<tableVars, lim, upd, same, todo, mode, shown>>

(* The rows the kernel answers with: one by address, all for port 0, else   *)
(* what isg_find_session meets first.                                       *)
Answers(t) ==
  CASE t.kind = "ip"                   -> {SessionOf(t.ip)}
    [] t.kind = "port" /\ t.port = 0   -> {Linked}
    [] OTHER -> IF Found(t) = {} THEN {{}} ELSE {{o} : o \in Found(t)}

(* _find keeps the row that fits the argument.  Without one the screen      *)
(* stays as it was.                                                         *)
Refresh(c) ==
  /\ pc[c] = "refresh"
  /\ pc' = [pc EXCEPT ![c] = "wait"]
  /\ \E rows \in Answers(tgt[c]) :
       LET mine == {o \in rows : Names(tgt[c], o)}
       IN \/ \E o \in mine :
               /\ same' = [same EXCEPT ![c] = {o}]
               /\ shown' = [shown EXCEPT ![c] = IF tab[o].approved THEN "approved" ELSE "unapproved"]
          \/ mine = {} /\ shown' = [shown EXCEPT ![c] = "none"] /\ UNCHANGED same
  /\ UNCHANGED <<tableVars, lim, tgt, upd, todo, mode>>

(* The interval passes, or a key that only draws the screen anew: what was  *)
(* found is found anew.                                                     *)
Redraw(c) ==
  /\ pc[c] = "wait"
  /\ pc' = [pc EXCEPT ![c] = "refresh"]
  /\ shown' = [shown EXCEPT ![c] = "none"]
Unasked == UNCHANGED <<tableVars, lim, tgt, upd, same, todo>>
Tick(c) == Redraw(c) /\ Unasked /\ UNCHANGED mode

(* The monitor sends a request; whether it was acknowledged is not looked at. *)
Requests(c, r) ==
  /\ Redraw(c)
  /\ \/ \E o \in Found(tgt[c]) :
          Effect(o, r) /\ same' = KnownAfter(o, r) /\ tgt' = NamedAfter(o, r)
     \/ Found(tgt[c]) = {} /\ UNCHANGED <<tableVars, lim, same, tgt>>
  /\ UNCHANGED <<upd, todo>>

KeyQuit(c) ==
  /\ pc[c] = "wait" /\ mode[c] = "plain"
  /\ Leave(c, same, tgt)
  /\ UNCHANGED <<tableVars, lim>>

(* Ctrl-C, or an error of the socket, ends the monitor also in the middle of *)
(* a question or an input.                                                   *)
Break(c) ==
  /\ pc[c] \in {"refresh", "wait"}
  /\ Leave(c, same, tgt)
  /\ UNCHANGED <<tableVars, lim>>

KeyClear(c) ==
  /\ mode[c] = "plain"
  /\ Redraw(c) /\ Unasked
  /\ mode' = [mode EXCEPT ![c] = "clear"]

(* Key a: an approved session is blocked after a question, another is       *)
(* approved at once, without rates.                                         *)
KeyApprove(c) ==
  /\ mode[c] = "plain"
  /\ \/ /\ shown[c] = "none"
        /\ Redraw(c) /\ Unasked /\ UNCHANGED mode
     \/ /\ shown[c] = "approved"
        /\ Redraw(c) /\ Unasked
        /\ mode' = [mode EXCEPT ![c] = "clear"]
     \/ /\ shown[c] = "unapproved"
        /\ Requests(c, [op |-> "approve", dirs |-> {}])
        /\ UNCHANGED mode

KeyShaper(c) ==
  /\ mode[c] = "plain"
  /\ Redraw(c) /\ Unasked
  /\ mode' = [mode EXCEPT ![c] = "edit"]

(* The answer to a question. *)
Answer(c, yes) ==
  /\ mode[c] = "clear"
  /\ mode' = [mode EXCEPT ![c] = "plain"]
  /\ IF yes THEN Requests(c, [op |-> "clear", dirs |-> {}]) ELSE Redraw(c) /\ Unasked

(* The end of the input: two numbers, either of which may be 0, or Esc or   *)
(* something else.                                                          *)
EndEdit(c) ==
  /\ mode[c] = "edit"
  /\ mode' = [mode EXCEPT ![c] = "plain"]
  /\ \/ \E dirs \in Limits : Requests(c, [op |-> "change", dirs |-> dirs])
     \/ Redraw(c) /\ Unasked

MonitorStep(c) ==
  \/ \E t \in ByName : Monitor(c, t)
  \/ Refresh(c) \/ Tick(c) \/ KeyQuit(c) \/ Break(c) \/ KeyClear(c) \/ KeyApprove(c) \/ KeyShaper(c)
  \/ \E yes \in BOOLEAN : Answer(c, yes)
  \/ EndEdit(c)

Next ==
  \/ \E o \in Slot : \/ \E ip \in IP : NewSession(o, ip)
                     \/ Expire(o)
                     \/ \E dirs \in Limits : Grant(o, dirs)
                     \/ \E r \in SessionUpdate : FindSession(o, r)
  \/ \E c \in Client : \/ \E t \in ByName, r \in OneRequest : Ask(c, t, r)
                       \/ Send(c)
                       \/ \E unapproved \in BOOLEAN, listed \in SUBSET Slot : List(c, unapproved, listed)
                       \/ \E p \in todo[c] : SweepOne(c, p)
                       \/ SweepDone(c)
                       \/ MonitorStep(c)

Spec == Init /\ [][Next]_vars

-----------------------------------------------------------------------------
(* Client c makes its move: no step of another changes these. *)
Moves(c) == pc[c] # "idle" /\ (pc'[c] # pc[c] \/ todo'[c] # todo[c])

(* The sessions that c means and that are still there. *)
Meant(c) ==
  IF pc[c] = "sweep" THEN {o \in same[c] : tab[o].port \notin todo'[c]} ELSE same[c]

(* The event of c has no port of its own. *)
Portless(c) == pc[c] # "sweep" /\ tgt[c].kind \in {"id", "ip"}

Touched(o) == tab'[o] # tab[o] \/ lim'[o] # lim[o]

OnTarget ==
  \A o \in Slot, c \in Client :
    Touched(o) /\ Moves(c) /\ Meant(c) # {} =>
      o \in Meant(c) \/ (Portless(c) /\ tab[o].port = 0)

(* While a session that a client was told about is there, its requests     *)
(* change no other one - with the exception of the session on port 0, which *)
(* any event without a port also fits (isg_equal).                          *)
ReachesNamed == [][OnTarget]_vars

(* clear_all and clear_unapproved get each session of their list: those     *)
(* still there are on ports still to be done.                               *)
SweepLeavesNone ==
  \A c \in Client : pc[c] = "sweep" => \A o \in same[c] : tab[o].port \in todo[c]

(* A limit of an approved session is lifted by a request that leaves that   *)
(* direction out or sets it to 0, by no other: the rate of one direction    *)
(* alone lifts the other, and so does approving from the monitor what the   *)
(* daemon approved meanwhile.  Before the daemon's answer a limit may also  *)
(* be replaced by that.                                                     *)
LimitsLifted ==
  [][\A o \in Slot, d \in Dir :
       tab[o].approved /\ tab'[o] # Absent /\ d \in lim[o] \ lim'[o] =>
         \E c \in Client : Moves(c) /\ (pc[c] = "send" => d \notin upd[c].dirs)]_vars
=============================================================================
