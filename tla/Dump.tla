-------------------------------- MODULE Dump --------------------------------
(***************************************************************************)
(* Requests and answers over one netlink socket: send_event, get_list and   *)
(* get_totals in the client, and in the kernel the answers that are sent    *)
(* through isg_send_event and isg_send_skb.                                 *)
(*                                                                          *)
(* The kernel runs the whole handler inside the client's sendto, so it has  *)
(* sent everything it is going to send before the client's first recv.      *)
(* Events are packed into buffers of Cap.  An allocation may fail, and the  *)
(* client's receive buffer holds SockCap buffers: what does not fit is      *)
(* lost, and the next recv raises ENOBUFS.                                  *)
(***************************************************************************)
EXTENDS Naturals, Sequences, SequencesExt

CONSTANTS
  N,            \* bound: sessions in the table
  Cap,          \* events in one buffer
  SockCap,      \* buffers in the client's receive queue
  MaxRequests,  \* bound: requests of the client on its socket
  MaxFaults     \* bound: failed allocations

ASSUME DumpAssumption ==
  /\ N \in Nat /\ Cap \in Nat \ {0} /\ SockCap \in Nat \ {0}
  /\ MaxRequests \in Nat /\ MaxFaults \in Nat

VARIABLES
  pc,           \* "idle", "kernel" (in sendto), "client" (in recv), "raised"
  kind, req,    \* what is asked for, and the number of the request
  reply, i,     \* the events the kernel answers with, and how many are done
  skb,          \* the buffer being filled; empty: none
  queue,        \* the client's receive queue
  overrun,      \* the socket's pending error
  results, terminated,   \* what the call returns
  faults,       \* history: failed allocations
  lost,         \* history: requests of which a buffer found the queue full
  cut,          \* history: a call was interrupted
  clean         \* history: nothing was left on the socket when the call began

history == <<faults, lost, cut, clean>>
dumpVars == <<pc, kind, req, reply, i, skb, queue, overrun, results, terminated, history>>

(* "one" is a list that names its session; "count" stands for every request *)
(* with a single event for an answer.                                       *)
Kind == {"list", "one", "totals", "count"}

(* n is what the event says of the session, last its NLMSG_DONE. *)
Event == [req : Nat, type : {"info", "totals", "count"}, id : Nat, n : Nat, last : BOOLEAN]

DumpTypeOK ==
  /\ pc \in {"idle", "kernel", "client", "raised"}
  /\ kind \in Kind /\ req \in Nat
  /\ reply \in Seq(Event) /\ i \in 0 .. Len(reply)
  /\ skb \in Seq(Event) /\ Len(skb) <= Cap
  /\ Len(queue) <= SockCap
  /\ \A f \in ToSet(queue) : f # <<>> /\ f \in Seq(Event) /\ Len(f) <= Cap
  /\ overrun \in BOOLEAN
  /\ results \in Seq(Event) /\ terminated \in BOOLEAN
  /\ faults \in 0 .. MaxFaults
  /\ lost \subseteq Nat /\ cut \in BOOLEAN /\ clean \in BOOLEAN

DumpInit ==
  /\ pc = "idle" /\ kind = "list" /\ req = 0 /\ reply = <<>> /\ i = 0
  /\ skb = <<>> /\ queue = <<>> /\ overrun = FALSE
  /\ results = <<>> /\ terminated = FALSE
  /\ faults = 0 /\ lost = {} /\ cut = FALSE /\ clean = TRUE

-----------------------------------------------------------------------------
(* The kernel. *)

Info(r, s) == [req |-> r, type |-> "info", id |-> s.id, n |-> s.n, last |-> FALSE]
Final(r) == [req |-> r, type |-> "info", id |-> 0, n |-> 0, last |-> TRUE]

(* The answer to request r of kind c when ss are the sessions it is about   *)
(* and total is what they add up to.                                        *)
Answer(r, c, ss, total) ==
  LET Infos == [k \in DOMAIN ss |-> Info(r, ss[k])]
  IN CASE c = "list" -> Append(Infos, Final(r))
       [] c = "one" -> <<IF ss = <<>> THEN Final(r) ELSE [Info(r, ss[1]) EXCEPT !.last = TRUE]>>
       [] c = "totals" -> <<[req |-> r, type |-> "totals", id |-> 0, n |-> total, last |-> FALSE]>>
                            \o Infos \o <<Final(r)>>
       [] c = "count" -> <<[req |-> r, type |-> "count", id |-> 0, n |-> total, last |-> TRUE]>>

Request_KeepsResults(c, ss, total) ==
  /\ pc \in {"idle", "raised"}
  /\ pc' = "kernel" /\ kind' = c /\ req' = req + 1
  /\ reply' = Answer(req', c, ss, total) /\ i' = 0
  /\ skb' = <<>> /\ terminated' = FALSE
  /\ clean' = (queue = <<>> /\ ~overrun)
  /\ UNCHANGED <<queue, overrun, results, faults, lost, cut>>

(* sendto: the request enters the kernel. *)
Request(c, ss, total) ==
  /\ pc \in {"idle", "raised"}
  /\ pc' = "kernel" /\ kind' = c /\ req' = req + 1
  /\ reply' = Answer(req', c, ss, total) /\ i' = 0
  /\ skb' = <<>> /\ results' = <<>> /\ terminated' = FALSE
  /\ clean' = (queue = <<>> /\ ~overrun)
  /\ UNCHANGED <<queue, overrun, faults, lost, cut>>

isg_send_skb_DropsOldest(b) ==
  IF Len(queue) < SockCap
    THEN queue' = Append(queue, b) /\ UNCHANGED <<overrun, lost>>
    ELSE queue' = Append(Tail(queue), b) /\ lost' = lost \cup {req} /\ UNCHANGED overrun

(* netlink_unicast with MSG_DONTWAIT. *)
isg_send_skb(b) ==
  IF Len(queue) < SockCap
    THEN queue' = Append(queue, b) /\ UNCHANGED <<overrun, lost>>
    ELSE overrun' = TRUE /\ lost' = lost \cup {req} /\ UNCHANGED queue

(* The next event of the answer. *)
Current == reply[i + 1]

(* isg_send_event: the event fits into the buffer, a new one if there is none. *)
Fits ==
  /\ ~Current.last /\ Len(skb) < Cap
  /\ skb' = Append(skb, Current)
  /\ UNCHANGED <<queue, overrun, lost, faults>>

Flush_Dropped ==
  /\ ~Current.last /\ Len(skb) = Cap
  /\ skb' = <<Current>>
  /\ UNCHANGED <<queue, overrun, lost, faults>>

(* The buffer is full: it is sent, and the event starts the next one. *)
Flush ==
  /\ ~Current.last /\ Len(skb) = Cap
  /\ isg_send_skb(skb)
  /\ skb' = <<Current>>
  /\ UNCHANGED faults

(* NLMSG_DONE goes out in the same buffer, or in one of its own. *)
Finish ==
  /\ Current.last /\ Len(skb) < Cap
  /\ isg_send_skb(Append(skb, Current))
  /\ skb' = <<>>
  /\ UNCHANGED faults

(* As Finish with a full buffer: two sends. *)
FlushFinish ==
  /\ Current.last /\ Len(skb) = Cap
  /\ isg_send_skb(skb)
  /\ skb' = <<>>
  /\ UNCHANGED faults

(* No memory for the event: the buffer is freed with what was in it. *)
NoEvent ==
  /\ faults < MaxFaults /\ faults' = faults + 1
  /\ skb' = <<>>
  /\ UNCHANGED <<queue, overrun, lost>>

(* No memory for a new buffer; a full one is sent before. *)
NoBuffer ==
  /\ faults < MaxFaults /\ faults' = faults + 1
  /\ skb' = <<>>
  /\ \/ skb = <<>> /\ UNCHANGED <<queue, overrun, lost>>
     \/ Len(skb) = Cap /\ isg_send_skb(skb)

(* One call of isg_send_event. *)
Send ==
  /\ pc = "kernel" /\ i < Len(reply)
  /\ \/ (Fits \/ Flush \/ Finish \/ NoEvent \/ NoBuffer) /\ i' = i + 1
     \/ FlushFinish /\ i' = i
  /\ UNCHANGED <<pc, kind, req, reply, results, terminated, cut, clean>>

(* No memory for the session that carries the sums: there is no answer. *)
NoAnswer ==
  /\ pc = "kernel" /\ i = 0 /\ kind \in {"totals", "count"}
  /\ faults < MaxFaults /\ faults' = faults + 1
  /\ i' = Len(reply)
  /\ UNCHANGED <<pc, kind, req, reply, skb, queue, overrun, results, terminated, lost, cut, clean>>

Return ==
  /\ pc = "kernel" /\ i = Len(reply)
  /\ pc' = "client"
  /\ UNCHANGED <<kind, req, reply, i, skb, queue, overrun, results, terminated, history>>

-----------------------------------------------------------------------------
(* The client. *)

(* What a call keeps of a buffer.  send_event reads the first event and     *)
(* does not look at its type.                                               *)
Kept(f) ==
  CASE kind = "count" -> <<f[1]>>
    [] kind = "totals" -> SelectSeq(f, LAMBDA e : e.type = "totals" \/ (e.type = "info" /\ e.id # 0))
    [] OTHER -> SelectSeq(f, LAMBDA e : e.type = "info" /\ e.id # 0)

(* get_totals ends with any NLMSG_DONE, get_list with one of its own type. *)
Ends(f) ==
  CASE kind = "count" -> TRUE
    [] kind = "totals" -> \E k \in DOMAIN f : f[k].last
    [] OTHER -> \E k \in DOMAIN f : f[k].last /\ f[k].type = "info"

(* One buffer is read. *)
Recv ==
  /\ pc = "client" /\ ~overrun /\ queue # <<>>
  /\ queue' = Tail(queue)
  /\ results' = results \o Kept(queue[1])
  /\ terminated' = Ends(queue[1])
  /\ pc' = IF Ends(queue[1]) THEN "idle" ELSE "client"
  /\ UNCHANGED <<kind, req, reply, i, skb, overrun, history>>

(* Nothing comes: socket.timeout ends the loop; send_event lets it through. *)
Timeout ==
  /\ pc = "client" /\ ~overrun /\ queue = <<>>
  /\ pc' = IF kind = "count" THEN "raised" ELSE "idle"
  /\ UNCHANGED <<kind, req, reply, i, skb, queue, overrun, results, terminated, history>>

(* KeyboardInterrupt: the lists return what they have. *)
Interrupt ==
  /\ pc = "client" /\ kind # "count"
  /\ pc' = "idle" /\ cut' = TRUE
  /\ UNCHANGED <<kind, req, reply, i, skb, queue, overrun, results, terminated, faults, lost, clean>>

(* ENOBUFS is reported before any data, and no handler catches it. *)
Raise ==
  /\ pc = "client" /\ overrun
  /\ overrun' = FALSE
  /\ pc' = "raised"
  /\ UNCHANGED <<kind, req, reply, i, skb, queue, results, terminated, history>>

CallStep == Send \/ NoAnswer \/ Return \/ Recv \/ Timeout \/ Raise

(* A client that asks for anything in any order. *)
DumpNext ==
  \/ \E c \in Kind, m \in 0 .. N :
       req < MaxRequests /\ Request(c, [k \in 1 .. m |-> [id |-> k, n |-> 0]], m)
  \/ CallStep
  \/ Interrupt

-----------------------------------------------------------------------------
Own(r) == SelectSeq(results, LAMBDA e : e.req = r)

(* A call that ends with NLMSG_DONE, on a socket on which nothing was left, *)
(* returns the whole answer in its order if no allocation failed and        *)
(* nothing of it found the queue full.                                      *)
CleanIsWhole ==
  pc = "idle" /\ terminated /\ faults = 0 /\ clean /\ req \notin lost =>
    results = SelectSeq(reply, LAMBDA e : e.id # 0 \/ e.type # "info")

(* A call returns nothing that was meant for another one, however many      *)
(* allocations failed, if it began on an empty socket or if no call on the  *)
(* socket was ever interrupted or overrun.                                  *)
OwnEntriesOnly == clean \/ (lost = {} /\ ~cut) => results = Own(req)

(* Once a buffer of a list was lost to a full queue the list never ends     *)
(* cleanly, whatever the client reads, unless an earlier call left buffers  *)
(* behind: the end of the list is the last thing sent, so it is lost too.   *)
LossIsNoticed ==
  pc = "idle" /\ terminated /\ req \in lost => cut \/ \E r \in lost : r < req
=============================================================================
