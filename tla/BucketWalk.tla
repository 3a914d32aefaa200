----------------------------- MODULE BucketWalk -----------------------------
(***************************************************************************)
(* The walk of one hash bucket without a lock (isg_lookup_session,          *)
(* isg_find_session, isg_send_sessions_list, isg_send_session_totals)       *)
(* against the insertions and removals that hold the bucket lock.           *)
(*                                                                          *)
(* hlist_bl_for_each_entry_safe saves the successor of an element before    *)
(* the element is looked at.  hlist_bl_del_init clears the successor of     *)
(* what it removes.  A removed session keeps its memory for 2 s, longer     *)
(* than a walk.  What a walk does with the sessions is up to its caller.    *)
(***************************************************************************)
EXTENDS Naturals, Sequences, SequencesExt

CONSTANTS
  Obj,      \* sessions of this bucket
  Null

ASSUME BucketAssumption == Null \notin Obj

VARIABLES
  list,     \* the bucket as its lock holders see it, newest first
  next,     \* the successor pointers
  fresh,    \* sessions not inserted yet
  pc,       \* the walk: "idle", "at" an element, "done"
  pos, n,   \* its cursor and the saved successor
  visited,  \* history: the elements looked at, in order
  stable,   \* history: the elements in the list ever since the walk began
  stale     \* history: the saved successor was removed

walkVars == <<list, next, fresh, pc, pos, n, visited, stable, stale>>

WalkTypeOK ==
  /\ ToSet(list) \subseteq Obj /\ IsInjective(list)
  /\ next \in [Obj -> Obj \cup {Null}]
  /\ \A i \in DOMAIN list : next[list[i]] = IF i < Len(list) THEN list[i + 1] ELSE Null
  /\ fresh \subseteq Obj
  /\ pc \in {"idle", "at", "done"}
  /\ pos \in Obj \cup {Null} /\ n \in Obj \cup {Null}
  /\ ToSet(visited) \subseteq Obj
  /\ stable \subseteq ToSet(list)
  /\ stale \in BOOLEAN

WalkInit ==
  /\ list = <<>>
  /\ next = [o \in Obj |-> Null]
  /\ fresh = Obj
  /\ pc = "idle" /\ pos = Null /\ n = Null
  /\ visited = <<>> /\ stable = {} /\ stale = FALSE

HeadOfList == IF list = <<>> THEN Null ELSE list[1]

(* hlist_bl_add_head in __isg_create_session. *)
Insert(o) ==
  /\ o \in fresh
  /\ fresh' = fresh \ {o}
  /\ next' = [next EXCEPT ![o] = HeadOfList]
  /\ list' = <<o>> \o list
  /\ UNCHANGED <<pc, pos, n, visited, stable, stale>>

(* hlist_bl_del_init. *)
Unlink(o) ==
  [p \in Obj |-> IF p = o THEN Null ELSE IF next[p] = o THEN next[o] ELSE next[p]]

(* isg_free_session. *)
Delete(o) ==
  /\ o \in ToSet(list)
  /\ next' = Unlink(o)
  /\ list' = SelectSeq(list, LAMBDA p : p # o)
  /\ stable' = stable \ {o}
  /\ stale' = (stale \/ (pc = "at" /\ n = o))
  /\ UNCHANGED <<fresh, pc, pos, n, visited>>

(* The cursor moves to o and its successor is saved. *)
MoveTo(o) ==
  /\ pos' = o
  /\ n' = IF o = Null THEN Null ELSE next[o]
  /\ pc' = IF o = Null THEN "done" ELSE "at"

Begin ==
  /\ pc = "idle"
  /\ MoveTo(HeadOfList)
  /\ stable' = ToSet(list) /\ visited' = <<>> /\ stale' = FALSE
  /\ UNCHANGED <<list, next, fresh>>

Step_FromCursor ==
  /\ pc = "at"
  /\ visited' = Append(visited, pos)
  /\ MoveTo(next[pos])
  /\ UNCHANGED <<list, next, fresh, stable, stale>>

(* The body of the loop, and on to the saved successor. *)
Step ==
  /\ pc = "at"
  /\ visited' = Append(visited, pos)
  /\ MoveTo(n)
  /\ UNCHANGED <<list, next, fresh, stable, stale>>

End ==
  /\ pc = "done"
  /\ pc' = "idle"
  /\ visited' = <<>> /\ stable' = {} /\ stale' = FALSE
  /\ UNCHANGED <<list, next, fresh, pos, n>>

-----------------------------------------------------------------------------
(* A walk finds every session that was in the bucket all the time, unless   *)
(* the successor it had saved was removed under it.                         *)
FindsUnlessStale == pc = "done" /\ ~stale => stable \subseteq ToSet(visited)
=============================================================================
