------------------------------ MODULE TcReload ------------------------------
(***************************************************************************)
(* Keeping the kernel's classification table equal to tc.conf: the life of  *)
(* the daemon (Daemon.run with its pid file), tc.reload and job_reload_tc,  *)
(* composed with the table of the kernel module (Nehash).  Every request of *)
(* a reload waits for its answer; a request or an answer may be lost, the   *)
(* operator may edit the file, and daemons may be started, signalled or     *)
(* killed at any moment.                                                    *)
(*                                                                          *)
(* The MD5 of a file stands for its content, the sequence of its prefixes.  *)
(* A daemon is named by its pid.  The handlers of the queue take no lock,   *)
(* so two daemons that load at the same time make anything of the table:    *)
(* the model ends there, with tangled.                                      *)
(***************************************************************************)
EXTENDS Nehash

CONSTANTS
  Good,         \* contents that parse
  Bad,          \* a missing file, or one with a line that is refused
  Broken,       \* a file with an address that inet_aton does not take
  None,         \* prev_md5 before anything was loaded
  Pids,         \* daemons 1 .. Pids, one started after the other
  Budgets       \* bounds: how many starts, edits and errors a behaviour has

ASSUME TcAssumption ==
  /\ Good \subseteq Seq(Prefix) /\ \A f \in Good : IsInjective(f)
  /\ {Bad, Broken, None} \cap Good = {} /\ Bad # Broken
  /\ Pids \in Nat /\ Budgets \subseteq [starts : Nat, edits : Nat, errors : Nat]

Content == Good \cup {Bad, Broken}

Daemon == 1 .. Pids
Nobody == 0

VARIABLES
  file,         \* content of tc.conf
  st,           \* daemon -> where Daemon.run is
  pid_file,     \* the pid in it, or Nobody
  prev,         \* daemon -> prev of job_reload_tc
  who, pc,      \* the daemon that loads, and "sweep", "add", "commit" or "reply"
  cur, todo,    \* the content being loaded, its prefixes not yet sent
  raced,        \* history: a daemon passed _check_pid before the last one had written
  again,        \* history: a daemon was signalled a second time
  tangled,      \* two daemons loaded at the same time
  unheard,      \* history: the answer to the last commit was lost
  starts, edits, errors     \* what is left of the budget

bounds == <<starts, edits, errors>>
loader == <<who, pc, cur, todo>>
life == <<st, pid_file, raced, again>>
vars == <<file, life, prev, loader, tangled, nehashVars, unheard, bounds>>

(* A deaf daemon is up without its loader. *)
State == {"new", "init", "ready", "up", "deaf", "stopping", "leaving", "dead"}

TypeOK ==
  /\ NehashTypeOK
  /\ file \in Content
  /\ st \in [Daemon -> State] /\ pid_file \in Daemon \cup {Nobody}
  /\ prev \in [Daemon -> Good \cup {None}]
  /\ who \in Daemon \cup {Nobody}
  /\ pc \in {"wait", "sweep", "add", "commit", "reply"} /\ (pc = "wait" <=> who = Nobody)
  /\ cur \in Good \cup {None} /\ Range(todo) \subseteq Prefix
  /\ raced \in BOOLEAN /\ again \in BOOLEAN /\ tangled \in BOOLEAN /\ unheard \in BOOLEAN
  /\ starts \in Nat /\ edits \in Nat /\ errors \in Nat

Init ==
  /\ nehash_init
  /\ file \in Content
  /\ st = [d \in Daemon |-> "new"] /\ pid_file = Nobody
  /\ prev = [d \in Daemon |-> None]
  /\ who = Nobody /\ pc = "wait" /\ cur = None /\ todo = <<>>
  /\ raced = FALSE /\ again = FALSE /\ tangled = FALSE /\ unheard = FALSE
  /\ \E b \in Budgets : starts = b.starts /\ edits = b.edits /\ errors = b.errors

Edit(f) ==
  /\ edits > 0 /\ f # file
  /\ file' = f
  /\ edits' = edits - 1
  /\ UNCHANGED <<life, prev, loader, tangled, nehashVars, unheard, starts, errors>>

Error == errors > 0 /\ errors' = errors - 1

-----------------------------------------------------------------------------
(* The life of a daemon. *)

Alive(d) == st[d] \notin {"new", "dead"}
Up(d) == st[d] \in {"up", "deaf"}

RunningAlready_Never == FALSE

(* The pid file has the pid of a process. *)
RunningAlready == pid_file # Nobody /\ Alive(pid_file)

(* _check_pid of the next daemon: it exits, or goes on to _init_kernel. *)
CheckPid(d) ==
  /\ starts > 0 /\ starts' = starts - 1
  /\ st[d] = "new" /\ \A e \in 1 .. d - 1 : st[e] # "new"
  /\ st' = [st EXCEPT ![d] = IF RunningAlready THEN "dead" ELSE "init"]
  /\ raced' = (raced \/ (~RunningAlready /\ \E e \in Daemon : st[e] \in {"init", "ready"}))
  /\ UNCHANGED <<file, pid_file, again, prev, loader, tangled, nehashVars, unheard, edits, errors>>

(* _init_kernel after its reload: the descriptors of the services are swept *)
(* and added one by one; OSError ends the daemon.                           *)
Descriptors(d) ==
  /\ st[d] = "ready" /\ who # d
  /\ \/ st' = [st EXCEPT ![d] = "up"] /\ pid_file' = d /\ UNCHANGED errors
     \/ st' = [st EXCEPT ![d] = "dead"] /\ Error /\ UNCHANGED pid_file
  /\ UNCHANGED <<file, raced, again, prev, loader, tangled, nehashVars, unheard, starts, edits>>

(* SIGTERM or SIGINT: _shutdown removes the pid file, whosever it is. *)
Shutdown(d) ==
  /\ st[d] \in {"up", "deaf", "stopping", "leaving"}
  /\ st' = [st EXCEPT ![d] = CASE @ = "up" -> "stopping" [] @ = "deaf" -> "leaving" [] OTHER -> @]
  /\ again' = (again \/ ~Up(d))
  /\ pid_file' = Nobody
  /\ UNCHANGED <<file, raced, prev, loader, tangled, nehashVars, unheard, bounds>>

(* OSError: reload returns None. *)
GiveUp == who' = Nobody /\ pc' = "wait" /\ cur' = None /\ todo' = <<>>

(* Daemon d ends: after its threads were joined for a while, or killed.  A  *)
(* reload under way ends with it, between two system calls.                 *)
Ends(d, from) ==
  /\ st[d] \in from
  /\ st' = [st EXCEPT ![d] = "dead"]
  /\ prev' = [prev EXCEPT ![d] = None]
  /\ IF who = d THEN GiveUp ELSE UNCHANGED loader
  /\ UNCHANGED <<file, pid_file, raced, again, tangled, nehashVars, unheard, bounds>>

Exit(d) == Ends(d, {"stopping", "leaving"})
Crash(d) == Ends(d, {"init", "ready", "up", "deaf"})

-----------------------------------------------------------------------------
(* The loader. *)

Changed(d) == file \in Good /\ file # prev[d]

(* A daemon that is told to stop reloads once more: the event ends the wait *)
(* of job_reload_tc, and reload comes before the next test of the event.    *)
AfterCheck(d) == [st EXCEPT ![d] = CASE @ = "init" -> "ready" [] @ = "stopping" -> "leaving" [] OTHER -> @]

(* reload of daemon d: a file that is missing, has a bad line or has not    *)
(* changed is left alone.                                                   *)
Check(d) ==
  /\ st[d] \in {"init", "up", "stopping"} /\ who # d
  /\ file # Broken /\ (Changed(d) \/ st[d] # "up")
  /\ st' = AfterCheck(d)
  /\ tangled' = (Changed(d) /\ who # Nobody)
  /\ IF Changed(d) THEN who' = d /\ pc' = "sweep" /\ cur' = file /\ todo' = file
                   ELSE UNCHANGED loader
  /\ UNCHANGED <<file, pid_file, raced, again, prev, nehashVars, unheard, bounds>>

(* An address of the file that cannot be read, or a socket that cannot be   *)
(* opened, is an exception nobody handles: it ends the daemon that starts,  *)
(* and of one that is up the loader.                                        *)
Uncaught(d) ==
  /\ st[d] \in {"init", "up", "stopping"} /\ who # d
  /\ \/ file = Broken /\ UNCHANGED errors
     \/ Changed(d) /\ Error
  /\ st' = [st EXCEPT ![d] = CASE @ = "init" -> "dead" [] @ = "up" -> "deaf" [] OTHER -> "leaving"]
  /\ UNCHANGED <<file, pid_file, raced, again, prev, loader, tangled, nehashVars, unheard, starts, edits>>

(* A request that does not reach the kernel. *)
RequestLost ==
  /\ pc \in {"sweep", "add", "commit"}
  /\ Error
  /\ GiveUp
  /\ UNCHANGED <<file, life, prev, tangled, nehashVars, unheard, starts, edits>>

SendSweep ==
  /\ pc = "sweep"
  /\ SweepQueue
  /\ \/ pc' = (IF todo = <<>> THEN "commit" ELSE "add") /\ UNCHANGED <<who, cur, todo, errors>>
     \/ Error /\ GiveUp
  /\ UNCHANGED <<file, life, prev, tangled, unheard, starts, edits>>

SendAdd ==
  /\ pc = "add"
  /\ \/ /\ \/ AddToQueue(Head(todo), FALSE) /\ UNCHANGED errors
           \/ AddToQueue(Head(todo), TRUE) /\ Error
        /\ todo' = Tail(todo)
        /\ pc' = IF todo' = <<>> THEN "commit" ELSE "add"
        /\ UNCHANGED <<who, cur>>
     \/ AddToQueue(Head(todo), FALSE) /\ Error /\ GiveUp
  /\ UNCHANGED <<file, life, prev, tangled, unheard, starts, edits>>

SendCommit ==
  /\ pc = "commit"
  /\ Commit
  /\ pc' = "reply"
  /\ UNCHANGED <<file, life, prev, who, cur, todo, tangled, unheard, bounds>>

(* The handler works in the context of the client, who waits. *)
KernelStep ==
  /\ \/ (SweepBucket \/ InsertBucket) /\ UNCHANGED errors
     \/ InsertNoMemory /\ Error
  /\ UNCHANGED <<file, life, prev, loader, tangled, unheard, starts, edits>>

Remember_File(d) == prev' = [prev EXCEPT ![d] = IF file \in Good THEN file ELSE cur]

(* reload returns the MD5 of what it read; _init_kernel drops it. *)
Remember(d) == prev' = [prev EXCEPT ![d] = IF st[d] = "ready" THEN @ ELSE cur]

Reply ==
  /\ pc = "reply"
  /\ GiveUp
  /\ \/ Remember(who) /\ unheard' = FALSE /\ UNCHANGED errors
     \/ Error /\ unheard' = TRUE /\ UNCHANGED prev
  /\ UNCHANGED <<file, life, tangled, nehashVars, starts, edits>>

(* What daemons and operators do while the kernel works on a commit touches *)
(* none of its variables: it is taken before or after.                      *)
Quiet == ~tangled /\ phase = "idle"

LoaderStep ==
  \/ KernelStep
  \/ Quiet /\ (SendSweep \/ SendAdd \/ SendCommit \/ Reply)
  \/ \E d \in Daemon : Quiet /\ (Check(d) \/ Uncaught(d) \/ Descriptors(d))

Next ==
  \/ LoaderStep
  \/ Quiet /\ RequestLost
  \/ \E d \in Daemon : Quiet /\ (CheckPid(d) \/ Shutdown(d) \/ Exit(d) \/ Crash(d))
  \/ \E f \in Content : Quiet /\ Edit(f)

Spec == Init /\ [][Next]_vars

(* The job runs again and again, and a reload that has begun goes on. *)
FairSpec == Spec /\ WF_vars(LoaderStep)

-----------------------------------------------------------------------------
(* The prefixes in the table. *)
Held == UNION {Range(table[i]) : i \in Bucket}

(* Whatever is lost, edited, killed or started in the middle of a reload,   *)
(* the table holds one whole file and never a mixture of two: a reload      *)
(* begins with NE_SWEEP_QUEUE.                                              *)
WholeFile ==
  phase = "idle" /\ "table" \notin short => \E f \in Good \cup {<<>>} : Held = Range(f)

(* The pid file keeps daemons apart, unless both looked at it before one    *)
(* had written it, or a daemon that was told to stop twice took the file of *)
(* the next one with it: no two do their jobs side by side, and two load at *)
(* the same time only when one of them was told to stop and has gone for    *)
(* its last reload.                                                         *)
DaemonsApart ==
  raced \/ again \/
    /\ \A d, e \in Daemon : Up(d) /\ Up(e) => d = e
    /\ tangled => \E d \in Daemon : st[d] \in {"stopping", "leaving"}

(* Once the operator leaves a correct file alone and a daemon is up whose   *)
(* loader no exception has ended, the kernel comes to hold the file, unless *)
(* the kernel had no memory for a line, which reload is not told, or the    *)
(* answer to the last commit was lost: prev is then behind the table, and a *)
(* file edited back to prev is not loaded.                                  *)
Converges ==
  <>[](file \in Good /\ (\E d \in Daemon : st[d] = "up") =>
         Held = Range(file) \/ "table" \in short \/ unheard \/ tangled)
=============================================================================
