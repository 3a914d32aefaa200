------------------------------- MODULE Totals -------------------------------
(***************************************************************************)
(* The totals report: isg_send_session_totals walks the sessions without a  *)
(* lock (BucketWalk), adds up their bytes and keeps the TopSize sessions    *)
(* with the most bytes in a fixed array, replacing its smallest entry.      *)
(*                                                                          *)
(* bytes is what a session shows to the walk.                               *)
(***************************************************************************)
EXTENDS BucketWalk, Integers, FiniteSets, Functions

CONSTANTS
  TopSize,      \* ISG_TOP_N
  Bytes         \* byte counts a session may have

ASSUME TotalsAssumption == TopSize \in Nat \ {0} /\ Bytes \subseteq Nat

VARIABLES
  bytes,        \* session -> its bytes in both directions
  top,          \* the array of sessions
  top_min, top_min_idx,
  sum,          \* nis->stat
  misread       \* history: top_min was not the smallest entry of the array

tally == <<top, top_min, top_min_idx, sum, misread>>
vars == <<walkVars, bytes, tally>>

TypeOK ==
  /\ WalkTypeOK
  /\ bytes \in [Obj -> Bytes \cup {0}]
  /\ Len(top) <= TopSize /\ ToSet(top) \subseteq Obj
  /\ top_min \in Bytes \cup {0} /\ top_min_idx \in 1 .. TopSize
  /\ sum \in Nat
  /\ misread \in BOOLEAN

(* The variables of the function as it is entered. *)
Clear == top' = <<>> /\ top_min' = 0 /\ top_min_idx' = 1 /\ sum' = 0 /\ misread' = FALSE

Init ==
  /\ WalkInit
  /\ bytes = [o \in Obj |-> 0]
  /\ top = <<>> /\ top_min = 0 /\ top_min_idx = 1 /\ sum = 0 /\ misread = FALSE

(* The array is not full: the session takes the next slot. *)
Fill(total) ==
  /\ Len(top) < TopSize
  /\ top' = Append(top, pos)
  /\ IF total < top_min \/ Len(top') = 1
       THEN top_min' = total /\ top_min_idx' = Len(top')
       ELSE UNCHANGED <<top_min, top_min_idx>>
  /\ UNCHANGED misread

Skip(total) ==
  /\ Len(top) = TopSize /\ total <= top_min
  /\ UNCHANGED <<top, top_min, top_min_idx, misread>>

Replaced_First == [top EXCEPT ![1] = pos]

(* The slot of the smallest entry goes to the new session. *)
Replaced == [top EXCEPT ![top_min_idx] = pos]

(* The scan for the next smallest entry starts with the new session's total *)
(* and slot 1, and reads the slots from 2 on.                               *)
Rescan(total) ==
  LET Total(j) == bytes[top'[j]]
      Smaller == {j \in 2 .. TopSize : Total(j) < total}
      IsMin(j) == \A k \in Smaller : Total(j) < Total(k) \/ (Total(j) = Total(k) /\ j <= k)
  IN IF Smaller = {}
       THEN top_min' = total /\ top_min_idx' = 1
       ELSE \E j \in Smaller : IsMin(j) /\ top_min_idx' = j /\ top_min' = Total(j)

Replace(total) ==
  /\ Len(top) = TopSize /\ total > top_min
  /\ top' = Replaced
  /\ Rescan(total)
  /\ misread' = (misread \/ top_min' # bytes[top'[top_min_idx']]
                         \/ \E j \in 1 .. TopSize : bytes[top'[j]] < top_min')

Add_TopOnly(total) == sum' = IF total > top_min THEN sum + total ELSE sum

(* nis->stat adds up the sessions, in the array or not. *)
Add(total) == sum' = sum + total

Visit_WaitsForRemoved ==
  /\ pc = "at"
  /\ IF pos \in ToSet(list)
       THEN Step /\ Add(bytes[pos]) /\ (Fill(bytes[pos]) \/ Skip(bytes[pos]) \/ Replace(bytes[pos]))
       ELSE UNCHANGED <<walkVars, tally>>
  /\ UNCHANGED bytes

(* One session of the walk. *)
Visit ==
  /\ Step
  /\ Add(bytes[pos])
  /\ (Fill(bytes[pos]) \/ Skip(bytes[pos]) \/ Replace(bytes[pos]))
  /\ UNCHANGED bytes

(* The report is sent: the aggregate, the listed sessions, the end. *)
Report == End /\ Clear /\ UNCHANGED bytes

Create(o, b) == Insert(o) /\ bytes' = [bytes EXCEPT ![o] = b] /\ UNCHANGED tally

Next ==
  \/ \E o \in Obj, b \in Bytes : Create(o, b)
  \/ \E o \in Obj : Delete(o) /\ UNCHANGED <<bytes, tally>>
  \/ Begin /\ UNCHANGED <<bytes, tally>>
  \/ Visit
  \/ Report

Spec == Init /\ [][Next]_vars

(* A walk is not preempted for ever. *)
FairSpec == Spec /\ WF_vars(Visit)

-----------------------------------------------------------------------------
SumOver(S) == FoldFunctionOnSet(LAMBDA a, b : a + b, 0, bytes, S)

(* The aggregate has every session that was there all the time, once, and   *)
(* no others than those that were there when the walk passed, unless the    *)
(* saved successor of the walk was removed under it.                        *)
SumCountsEach ==
  pc = "done" /\ ~stale =>
    /\ sum >= SumOver(stable)
    /\ sum <= SumOver(Obj \ fresh)

(* A session that was there all the time and is not listed has no more      *)
(* bytes than any that is, unless the scan for the smallest entry passed    *)
(* over slot 1, or the walk was cut short.                                  *)
TopUnlessMisread ==
  pc = "done" /\ ~stale /\ ~misread =>
    \A o \in stable \ ToSet(top), l \in ToSet(top) : bytes[o] <= bytes[l]

(* "the top-10 sessions by traffic volume": no session the walk looked at   *)
(* and left out of the report has more bytes than one that is in it.        *)
TopIsTop ==
  \A o \in ToSet(visited) \ ToSet(top), l \in ToSet(top) : bytes[o] <= bytes[l]

(* A walk ends, however many sessions come and go. *)
WalkEnds == pc = "at" ~> pc = "done"
=============================================================================
