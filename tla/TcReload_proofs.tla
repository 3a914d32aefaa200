-------------------------- MODULE TcReload_proofs ---------------------------
(***************************************************************************)
(* Proofs about the loading of the traffic classes: the pid file keeps      *)
(* daemons apart, however many there are, and the table of the kernel holds *)
(* one whole file, whatever is lost in the middle of a reload.              *)
(***************************************************************************)
EXTENDS TcReload, WellFoundedInduction, TLAPS

-----------------------------------------------------------------------------
(* The pid file keeps daemons apart.  A daemon that is up has its pid in    *)
(* the file, so none starts beside it; and at most one is between           *)
(* _check_pid and the writing of the file.                                  *)

Starting(d) == st[d] \in {"init", "ready"}

(* Where a daemon can be while it loads. *)
Loading == {"ready", "up", "stopping", "leaving"}

(* What is true of the daemons until two of them have raced or one was told *)
(* to stop twice.                                                           *)
Apart ==
  /\ \A d \in Daemon : Up(d) => pid_file = d
  /\ \A d, e \in Daemon : Starting(d) /\ Up(e) => FALSE
  /\ \A d, e \in Daemon : Starting(d) /\ Starting(e) => d = e
  /\ tangled => \E d \in Daemon : st[d] \in {"stopping", "leaving"}

LifeInv ==
  /\ st \in [Daemon -> State]
  /\ pid_file \in Daemon \cup {Nobody}
  /\ who \in Daemon \cup {Nobody}
  /\ who # Nobody => st[who] \in Loading
  /\ raced \in BOOLEAN /\ again \in BOOLEAN
  /\ raced \/ again \/ Apart

lifeVars == <<st, pid_file, raced, again, tangled, who>>

(* No daemon has the number 0. *)
LEMMA Numbers == Nobody \notin Daemon
  BY TcAssumption DEF Daemon, Nobody

(* Steps that leave the daemons and their loader as they are. *)
LEMMA SameLife == LifeInv /\ UNCHANGED lifeVars => LifeInv'
  BY DEF LifeInv, lifeVars, Apart, Starting, Up

(* Steps of a loader, with which it goes on or ends. *)
LEMMA LoaderEnds ==
  LifeInv /\ UNCHANGED <<st, pid_file, raced, again, tangled>> /\ who' \in {who, Nobody} => LifeInv'
  BY DEF LifeInv, Apart, Starting, Up

(* _check_pid. *)
LEMMA CheckPidKeeps == ASSUME LifeInv, NEW d \in Daemon, CheckPid(d), ~tangled PROVE LifeInv'
<1> USE Numbers
<1>1. /\ st[d] = "new" /\ UNCHANGED <<pid_file, again, tangled, who>> /\ st' \in [Daemon -> State]
      /\ \A e \in Daemon : e # d => st'[e] = st[e]
  BY DEF CheckPid, LifeInv, State, loader
<1>2. /\ st'[d] = IF RunningAlready THEN "dead" ELSE "init"
      /\ raced' = (raced \/ (~RunningAlready /\ \E e \in Daemon : st[e] \in {"init", "ready"}))
  BY DEF CheckPid, LifeInv
<1>3. who' # Nobody => st'[who'] \in Loading
  BY <1>1 DEF LifeInv, Loading
<1>4. raced' \in BOOLEAN
  BY <1>2
<1>5. raced' \/ again' \/ Apart'
  <2> SUFFICES ASSUME ~raced', ~again' PROVE Apart'
    OBVIOUS
  <2>1. Apart /\ (RunningAlready \/ \A e \in Daemon : ~Starting(e))
    BY <1>1, <1>2, Zenon DEF LifeInv, Starting
  <2>2. CASE RunningAlready
    BY <1>1, <1>2, <2>1, <2>2 DEF Apart, Starting, Up
  <2>3. CASE ~RunningAlready
    <3>1. \A e \in Daemon : ~Up(e) /\ ~Starting(e)
      BY <2>1, <2>3 DEF RunningAlready, Apart, Alive, Up
    <3>2. \A e \in Daemon : Starting(e)' => e = d
      BY <1>1, <3>1 DEF Starting
    <3>3. \A e \in Daemon : ~Up(e)'
      BY <1>1, <1>2, <2>3, <3>1 DEF Up
    <3>. QED
      BY <1>1, <3>2, <3>3 DEF Apart
  <2>. QED
    BY <2>2, <2>3
<1>. QED
  BY <1>1, <1>3, <1>4, <1>5 DEF LifeInv

(* The descriptors are loaded and the pid is written. *)
LEMMA DescriptorsKeeps == ASSUME LifeInv, NEW d \in Daemon, Descriptors(d), ~tangled PROVE LifeInv'
<1> USE Numbers
<1>1. /\ st[d] = "ready" /\ who # d /\ UNCHANGED <<raced, again, tangled, who>>
      /\ st' \in [Daemon -> State] /\ pid_file' \in Daemon \cup {Nobody}
      /\ \A e \in Daemon : e # d => st'[e] = st[e]
      /\ \/ st'[d] = "up" /\ pid_file' = d
         \/ st'[d] = "dead" /\ pid_file' = pid_file
  BY DEF Descriptors, LifeInv, State, loader
<1>2. who' # Nobody => st'[who'] \in Loading
  BY <1>1 DEF LifeInv
<1>3. ASSUME Apart PROVE Apart'
  <2>1. \A e \in Daemon : e # d => ~Starting(e) /\ ~Up(e)
    BY <1>1, <1>3 DEF Apart, Starting
  <2>. QED
    BY <1>1, <2>1 DEF Apart, Starting, Up
<1>. QED
  BY <1>1, <1>2, <1>3 DEF LifeInv

(* A signal. *)
LEMMA ShutdownKeeps == ASSUME LifeInv, NEW d \in Daemon, Shutdown(d), ~tangled PROVE LifeInv'
<1> USE Numbers
<1>1. /\ st[d] \in {"up", "deaf", "stopping", "leaving"} /\ UNCHANGED <<raced, tangled, who>>
      /\ st' \in [Daemon -> State] /\ pid_file' = Nobody
      /\ \A e \in Daemon : e # d => st'[e] = st[e]
      /\ st'[d] \in {"stopping", "leaving"}
      /\ again' = (again \/ ~Up(d))
  BY DEF Shutdown, LifeInv, State, loader
<1>2. who' # Nobody => st'[who'] \in Loading
  BY <1>1 DEF LifeInv, Loading
<1>3. again' \in BOOLEAN /\ (~again' => ~again /\ Up(d))
  BY <1>1, Zenon DEF LifeInv
<1>4. ASSUME Apart, Up(d) PROVE Apart'
  <2>1. \A e \in Daemon : ~Up(e)'
    BY <1>1, <1>4 DEF Apart, Up
  <2>2. \A e \in Daemon : ~Starting(e)'
    BY <1>1, <1>4 DEF Apart, Starting, Up
  <2>. QED
    BY <1>1, <2>1, <2>2 DEF Apart
<1>. QED
  BY <1>1, <1>2, <1>3, <1>4 DEF LifeInv

(* The end of a daemon. *)
LEMMA EndsKeeps ==
  ASSUME LifeInv, NEW d \in Daemon, NEW from, Ends(d, from), ~tangled PROVE LifeInv'
<1> USE Numbers
<1>1. /\ UNCHANGED <<pid_file, raced, again, tangled>>
      /\ st' \in [Daemon -> State] /\ st'[d] = "dead"
      /\ \A e \in Daemon : e # d => st'[e] = st[e]
      /\ who' = IF who = d THEN Nobody ELSE who
  BY DEF Ends, GiveUp, LifeInv, State, loader
<1>2. who' \in Daemon \cup {Nobody} /\ (who' # Nobody => st'[who'] \in Loading)
  BY <1>1 DEF LifeInv
<1>3. Apart => Apart'
  BY <1>1 DEF Apart, Starting, Up
<1>. QED
  BY <1>1, <1>2, <1>3 DEF LifeInv

(* A reload begins, or there is nothing to load. *)
LEMMA CheckKeeps == ASSUME LifeInv, NEW d \in Daemon, Check(d), ~tangled PROVE LifeInv'
<1> USE Numbers
<1>1. /\ st[d] \in {"init", "up", "stopping"} /\ who # d /\ UNCHANGED <<pid_file, raced, again>>
      /\ st' \in [Daemon -> State]
      /\ \A e \in Daemon : e # d => st'[e] = st[e]
      /\ st'[d] = IF st[d] = "init" THEN "ready" ELSE IF st[d] = "stopping" THEN "leaving" ELSE "up"
      /\ who' \in {who, d}
      /\ tangled' => who # Nobody
  BY Zenon DEF Check, AfterCheck, LifeInv, State, loader
<1>2. who' \in Daemon \cup {Nobody} /\ (who' # Nobody => st'[who'] \in Loading)
  BY <1>1 DEF LifeInv, Loading
<1>3. \A e \in Daemon : (Up(e)' <=> Up(e)) /\ (Starting(e)' <=> Starting(e))
  BY <1>1 DEF Up, Starting
<1>4. ASSUME Apart, tangled' PROVE \E e \in Daemon : st'[e] \in {"stopping", "leaving"}
  <2>1. who \in Daemon /\ who # d /\ st[who] \in Loading
    BY <1>1, <1>4 DEF LifeInv
  <2>2. CASE st[who] \in {"stopping", "leaving"}
    BY <1>1, <2>1, <2>2
  <2>3. CASE st[d] = "stopping"
    BY <1>1, <2>3
  <2>4. CASE st[who] \in {"ready", "up"} /\ st[d] \in {"init", "up"}
    <3>1. (Up(who) \/ Starting(who)) /\ (Up(d) \/ Starting(d))
      BY <2>4 DEF Up, Starting
    <3>. QED
      BY <1>4, <2>1, <3>1 DEF Apart
  <2>. QED
    BY <1>1, <2>1, <2>2, <2>3, <2>4 DEF Loading
<1>5. Apart => Apart'
  BY <1>1, <1>3, <1>4 DEF Apart
<1>. QED
  BY <1>1, <1>2, <1>5 DEF LifeInv

(* A reload ends in an exception. *)
LEMMA UncaughtKeeps == ASSUME LifeInv, NEW d \in Daemon, Uncaught(d), ~tangled PROVE LifeInv'
<1> USE Numbers
<1>1. /\ st[d] \in {"init", "up", "stopping"} /\ who # d
      /\ UNCHANGED <<pid_file, raced, again, tangled, who>>
      /\ st' \in [Daemon -> State]
      /\ \A e \in Daemon : e # d => st'[e] = st[e]
      /\ st'[d] = IF st[d] = "init" THEN "dead" ELSE IF st[d] = "up" THEN "deaf" ELSE "leaving"
  BY DEF Uncaught, LifeInv, State, loader
<1>2. who' # Nobody => st'[who'] \in Loading
  BY <1>1 DEF LifeInv
<1>3. \A e \in Daemon : (Up(e)' => Up(e)) /\ (Starting(e)' => Starting(e))
  BY <1>1 DEF Up, Starting
<1>4. Apart => Apart'
  BY <1>1, <1>3 DEF Apart
<1>. QED
  BY <1>1, <1>2, <1>4 DEF LifeInv

(* The invariant is kept by every step. *)
LEMMA NextKeeps == LifeInv /\ [Next]_vars => LifeInv'
<1> SUFFICES ASSUME LifeInv, [Next]_vars PROVE LifeInv'
  OBVIOUS
<1>1. CASE UNCHANGED vars
  BY <1>1, SameLife DEF vars, life, loader, lifeVars
<1>2. CASE KernelStep
  BY <1>2, SameLife DEF KernelStep, life, loader, lifeVars
<1>3. CASE SendSweep \/ SendAdd \/ SendCommit \/ Reply \/ RequestLost
  <2>1. UNCHANGED <<st, pid_file, raced, again, tangled>> /\ who' \in {who, Nobody}
    BY <1>3, Zenon DEF SendSweep, SendAdd, SendCommit, Reply, RequestLost, GiveUp, life
  <2>. QED
    BY <2>1, LoaderEnds
<1>4. CASE \E d \in Daemon : Quiet /\ (Check(d) \/ Uncaught(d) \/ Descriptors(d))
  BY <1>4, CheckKeeps, UncaughtKeeps, DescriptorsKeeps DEF Quiet
<1>5. CASE \E d \in Daemon : Quiet /\ (CheckPid(d) \/ Shutdown(d) \/ Exit(d) \/ Crash(d))
  BY <1>5, CheckPidKeeps, ShutdownKeeps, EndsKeeps DEF Quiet, Exit, Crash
<1>6. CASE \E f \in Content : Quiet /\ Edit(f)
  BY <1>6, SameLife DEF Edit, life, loader, lifeVars
<1>. QED
  BY <1>1, <1>2, <1>3, <1>4, <1>5, <1>6 DEF Next, LoaderStep

(* However many daemons are started, signalled and killed, their jobs run   *)
(* one at a time and their reloads overlap only while one of them stops,    *)
(* unless two starts raced or one was told to stop twice.                   *)
THEOREM PidFileWorks == Spec => []DaemonsApart
<1>1. Init => LifeInv
  BY Numbers, Zenon DEF Init, LifeInv, Apart, Starting, Up, State
<1>2. LifeInv => DaemonsApart
  BY DEF LifeInv, Apart, Up, DaemonsApart
<1>. QED
  BY <1>1, <1>2, NextKeeps, PTL DEF Spec

-----------------------------------------------------------------------------
(* The table holds one whole file.                                          *)

(* The table and the queue are lists of prefixes, and the walk of           *)
(* nehash_insert stays inside them.                                         *)
ListInv ==
  /\ phase \in {"idle", "sweep", "insert"} /\ idx \in Bucket
  /\ DOMAIN table = Bucket /\ \A i \in Bucket : table[i] \in Seq(Prefix)
  /\ queue \in Seq(Prefix) /\ todo \in Seq(Prefix)
  /\ last_ne[1] \in Bucket /\ last_ne[2] \in 0 .. Len(table[last_ne[1]])
  /\ phase # "insert" => last_ne = NoNode
  /\ phase = "insert" => queue # <<>>

(* The queue and what the loader has still to send make the file. *)
SentInv ==
  /\ phase # "idle" => pc = "reply"
  /\ pc = "sweep" => cur \in Good /\ todo = cur
  /\ pc = "add" => todo # <<>>
  /\ pc = "commit" => todo = <<>>
  /\ pc \in {"add", "commit"} =>
       cur \in Good /\ ("queue" \notin short => Range(queue) \cup Range(todo) = Range(cur))

(* The commit empties the table bucket by bucket, and what it has inserted  *)
(* is with the rest of the queue one file.                                  *)
CommitInv ==
  /\ phase = "sweep" => /\ \A i \in Bucket : i < idx => table[i] = <<>>
                        /\ "queue" \notin short => \E f \in Good : Range(queue) = Range(f)
  /\ phase = "insert" /\ "table" \notin short =>
       \E f \in Good : Held \cup Range(queue) = Range(f)

LoadInv == ListInv /\ SentInv /\ CommitInv /\ WholeFile

(* Quotients below a product. *)
LEMMA DivBound ==
  ASSUME NEW a \in Nat, NEW m \in Nat \ {0}, NEW k \in Nat \ {0}, a < k * m
  PROVE  a \div m \in 0 .. k - 1
BY Z3T(30)

(* The last number of a block of m that begins below k blocks. *)
LEMMA BlockEnd ==
  ASSUME NEW a \in Nat, NEW m \in Nat \ {0}, NEW k \in Nat \ {0}, a < k * m, a % m = 0
  PROVE  a + m - 1 \in Nat /\ a + m - 1 < k * m
<1> DEFINE q == a \div m
<1>1. q \in 0 .. k - 1
  BY DivBound, Zenon
<1>2. a = q * m
  BY Z3T(30)
<1> HIDE DEF q
<1>3. (q + 1) * m <= k * m
  BY <1>1, Z3T(30)
<1>4. (q + 1) * m = q * m + m
  BY <1>1, Z3T(30)
<1> QED
  BY <1>2, <1>3, <1>4, Z3T(30)

(* The buckets of a prefix are buckets of the table. *)
LEMMA PrefixBuckets ==
  ASSUME NEW e \in Prefix
  PROVE  FirstBucket(e) \in Bucket /\ LastBucket(e) \in Bucket
<1>1. /\ K \in 0 .. W /\ W \in Nat /\ W - (W - K) = K /\ W - K \in 0 .. W /\ e.plen \in 0 .. W
      /\ e.net \in Address /\ e.net % 2^(W - e.plen) = 0 /\ W - e.plen \in 0 .. W
  BY NehashAssumption
<1> DEFINE m == 2^(W - K)
           k == 2^K
           l == 2^(W - e.plen)
           j == 2^(e.plen)
           n == 2^W
<1>2. m \in Nat \ {0} /\ k \in Nat \ {0} /\ l \in Nat \ {0} /\ j \in Nat \ {0} /\ n \in Nat
  BY <1>1, PowerAssumption
<1>3. n = k * m /\ n = j * l
  BY <1>1, PowerAssumption
<1>4. e.net \in Nat /\ e.net < n
  BY <1>1, <1>2 DEF Address
<1>5. e.net + l - 1 \in Nat /\ e.net + l - 1 < n
  BY <1>1, <1>2, <1>3, <1>4, BlockEnd, ZenonT(20)
<1>6. \A a \in Nat : a < n => Key(a) \in Bucket
  BY <1>2, <1>3, DivBound DEF Key, Bucket
<1> QED
  BY <1>4, <1>5, <1>6 DEF FirstBucket, LastBucket

(* A list with one more entry at its head. *)
LEMMA RangeCons ==
  ASSUME NEW S, NEW s \in Seq(S), NEW e \in S
  PROVE  <<e>> \o s \in Seq(S) /\ Len(<<e>> \o s) = Len(s) + 1 /\ Range(<<e>> \o s) = {e} \cup Range(s)
<1> DEFINE r == <<e>> \o s
<1>1. r \in Seq(S) /\ Len(r) = Len(s) + 1 /\ r[1] = e /\ DOMAIN r = 1 .. Len(r) /\ DOMAIN s = 1 .. Len(s) /\ Len(s) \in Nat
  OBVIOUS
<1>2. \A n \in 1 .. Len(s) : r[n + 1] = s[n]
  OBVIOUS
<1> HIDE DEF r
<1>3. Range(r) \subseteq {e} \cup Range(s)
  <2> SUFFICES ASSUME NEW n \in 1 .. Len(r) PROVE r[n] \in {e} \cup Range(s)
    BY <1>1 DEF Range
  <2>1. n = 1 \/ (n - 1 \in 1 .. Len(s) /\ r[(n - 1) + 1] = s[n - 1] /\ (n - 1) + 1 = n)
    BY <1>1, <1>2
  <2> QED
    BY <1>1, <2>1 DEF Range
<1>4. {e} \cup Range(s) \subseteq Range(r)
  <2>1. e \in Range(r)
    BY <1>1 DEF Range
  <2>2. ASSUME NEW n \in 1 .. Len(s) PROVE s[n] \in Range(r)
    BY <1>1, <1>2 DEF Range
  <2> QED
    BY <1>1, <2>1, <2>2 DEF Range
<1> QED
  BY <1>1, <1>3, <1>4 DEF r

(* A list is its head and its tail. *)
LEMMA RangeSplit ==
  ASSUME NEW S, NEW s \in Seq(S), s # <<>>
  PROVE  /\ Head(s) \in S /\ Tail(s) \in Seq(S) /\ Range(s) = {Head(s)} \cup Range(Tail(s))
<1>1. Head(s) \in S /\ Tail(s) \in Seq(S) /\ s = <<Head(s)>> \o Tail(s)
  OBVIOUS
<1> QED
  BY <1>1, RangeCons, Zenon

(* A list with one more entry behind its first n. *)
LEMMA RangeInsert ==
  ASSUME NEW S, NEW s \in Seq(S), NEW e \in S, NEW n \in 0 .. Len(s)
  PROVE  /\ Behind(s, n, e) \in Seq(S) /\ Len(Behind(s, n, e)) = Len(s) + 1
         /\ Range(Behind(s, n, e)) = Range(s) \cup {e}
<1> DEFINE a == SubSeq(s, 1, n)
           b == SubSeq(s, n + 1, Len(s))
           r == Behind(s, n, e)
<1>1. /\ Len(s) \in Nat /\ a \in Seq(S) /\ Len(a) = n /\ b \in Seq(S) /\ Len(b) = Len(s) - n
      /\ \A i \in 1 .. n : a[i] = s[i]
      /\ \A i \in 1 .. Len(s) - n : b[i] = s[i + n]
  OBVIOUS
<1> HIDE DEF a, b
<1>2. /\ r \in Seq(S) /\ Len(r) = Len(s) + 1 /\ DOMAIN r = 1 .. Len(s) + 1 /\ DOMAIN s = 1 .. Len(s)
      /\ r[n + 1] = e
      /\ \A i \in 1 .. n : r[i] = a[i]
      /\ \A i \in 1 .. Len(s) - n : r[i + n + 1] = b[i]
  <2> DEFINE c == a \o <<e>>
  <2>1. /\ c \in Seq(S) /\ Len(c) = n + 1 /\ c[n + 1] = e
        /\ \A i \in 1 .. n : c[i] = a[i]
    BY <1>1
  <2>2. r = c \o b
    BY Zenon DEF a, b, Behind
  <2> HIDE DEF c, r
  <2>3. r \in Seq(S) /\ Len(r) = Len(c) + Len(b)
    <3>1. c \in Seq(S) /\ b \in Seq(S)
      BY <1>1, <2>1, Zenon
    <3> QED
      BY <2>2, <3>1
  <2>4. Len(r) = Len(s) + 1
    BY <1>1, <2>1, <2>3
  <2>5. DOMAIN r = 1 .. Len(s) + 1 /\ DOMAIN s = 1 .. Len(s)
    BY <2>3, <2>4
  <2>6. ASSUME NEW i \in 1 .. n + 1 PROVE r[i] = c[i]
    <3>1. i \in 1 .. Len(c) /\ c \in Seq(S) /\ b \in Seq(S)
      BY <1>1, <2>1
    <3> QED
      BY <2>2, <3>1
  <2>7. ASSUME NEW i \in 1 .. Len(s) - n PROVE r[i + n + 1] = b[i]
    <3>1. r[(n + 1) + i] = b[i]
      BY <1>1, <2>1, <2>2
    <3>2. (n + 1) + i = i + n + 1
      BY <1>1
    <3> QED
      BY <3>1, <3>2
  <2> QED
    BY <1>1, <2>1, <2>3, <2>4, <2>5, <2>6, <2>7
<1> HIDE DEF r
<1>3. ASSUME NEW i \in DOMAIN r PROVE r[i] \in Range(s) \cup {e}
  <2>1. CASE i <= n
    BY <1>1, <1>2, <2>1 DEF Range
  <2>2. CASE i > n + 1
    <3>1. i - n - 1 \in 1 .. Len(s) - n /\ (i - n - 1) + n + 1 = i /\ (i - n - 1) + n \in DOMAIN s
      BY <1>1, <1>2, <2>2
    <3>2. r[i] = s[(i - n - 1) + n]
      BY <1>1, <1>2, <3>1, ZenonT(20)
    <3> QED
      BY <3>1, <3>2 DEF Range
  <2> QED
    BY <1>1, <1>2, <2>1, <2>2
<1>4. ASSUME NEW i \in DOMAIN s PROVE s[i] \in Range(r)
  <2>1. CASE i <= n
    BY <1>1, <1>2, <2>1 DEF Range
  <2>2. CASE i > n
    <3>1. i - n \in 1 .. Len(s) - n /\ (i - n) + n = i /\ (i - n) + n + 1 \in DOMAIN r
      BY <1>1, <1>2, <2>2
    <3>2. s[i] = r[(i - n) + n + 1]
      BY <1>1, <1>2, <3>1, SMTT(20)
    <3> QED
      BY <3>1, <3>2 DEF Range
  <2> QED
    BY <1>1, <1>2, <2>1, <2>2
<1>5. e \in Range(r)
  BY <1>1, <1>2 DEF Range
<1>6. Range(r) = Range(s) \cup {e}
  BY <1>3, <1>4, <1>5 DEF Range
<1> QED
  BY <1>2, <1>6, Zenon DEF r

(* The walk of a bucket ends in it. *)
LEMMA PassedType ==
  ASSUME NEW e, NEW b \in Seq(Prefix)
  PROVE  Passed(e, b) \in 0 .. Len(b)
<1> DEFINE S == {n \in 0 .. Len(b) : \A i \in 1 .. n : e.plen <= b[i].plen}
           T == {Len(b) - n : n \in S}
<1>1. Len(b) \in Nat /\ S \subseteq 0 .. Len(b) /\ 0 \in S
  OBVIOUS
<1> HIDE DEF S
<1>2. T \subseteq Nat /\ T # {}
  <2>1. ASSUME NEW n \in S PROVE Len(b) - n \in Nat
    BY <1>1
  <2> QED
    BY <1>1, <2>1, Zenon
<1>3. PICK m \in T : \A y \in T : ~ (<<y, m>> \in OpToRel(<, Nat))
  BY <1>2, NatLessThanWellFounded, WFMin, Zenon
<1>4. PICK x \in S : m = Len(b) - x
  OBVIOUS
<1>5. ASSUME NEW y \in S PROVE x >= y
  <2>1. Len(b) - y \in T /\ Len(b) - y \in Nat /\ m \in Nat
    BY <1>1, <1>2
  <2>2. ~ (Len(b) - y < m)
    BY <1>3, <2>1, Zenon DEF OpToRel
  <2> QED
    BY <1>1, <1>4, <2>1, <2>2
<1>6. Max(S) \in S
  BY <1>5 DEF Max
<1> QED
  BY <1>1, <1>6 DEF Passed, S

(* The node behind which nehash_insert puts the prefix is one of the table. *)
LEMMA NodeType ==
  ASSUME ListInv, NEW e
  PROVE  LastNode(e)[1] \in Bucket /\ LastNode(e)[2] \in 0 .. Len(table[LastNode(e)[1]])
<1>1. Passed(e, table[idx]) \in 0 .. Len(table[idx])
  BY PassedType DEF ListInv
<1>2. LastNode(e) = last_ne \/ LastNode(e) = <<idx, Passed(e, table[idx])>>
  BY Zenon DEF LastNode
<1> QED
  BY <1>1, <1>2 DEF ListInv

(* One bucket gets a prefix. *)
LEMMA Grown ==
  ASSUME ListInv, NEW i \in Bucket, NEW s \in Seq(Prefix), NEW e,
         table' = [table EXCEPT ![i] = s], Len(s) = Len(table[i]) + 1,
         Range(s) = Range(table[i]) \cup {e}
  PROVE  /\ DOMAIN table' = Bucket /\ \A j \in Bucket : table'[j] \in Seq(Prefix)
         /\ \A j \in Bucket : Len(table[j]) \in Nat /\ Len(table[j]) <= Len(table'[j])
         /\ Held' = Held \cup {e}
<1>1. DOMAIN table = Bucket /\ \A j \in Bucket : table[j] \in Seq(Prefix) /\ Len(table[j]) \in Nat
  BY DEF ListInv
<1>2. table'[i] = s /\ DOMAIN table' = Bucket /\ \A j \in Bucket : j # i => table'[j] = table[j]
  BY <1>1, Zenon
<1>3. \A j \in Bucket : table'[j] \in Seq(Prefix)
  BY <1>1, <1>2, Zenon
<1>4. \A j \in Bucket : Len(table[j]) \in Nat /\ Len(table[j]) <= Len(table'[j])
  BY <1>1, <1>2
<1>5. \A j \in Bucket : Range(table'[j]) = Range(table[j]) \/ (j = i /\ Range(table'[j]) = Range(table[j]) \cup {e})
  BY <1>2, Zenon
<1>6. Held' = UNION {Range(table'[j]) : j \in Bucket}
  BY DEF Held, Bucket, Range
<1>7. Held' \subseteq Held \cup {e}
  BY <1>5, <1>6, Zenon DEF Held
<1>8. Held \subseteq Held'
  BY <1>5, <1>6 DEF Held
<1>9. e \in Held'
  BY <1>2, <1>6
<1> QED
  BY <1>2, <1>3, <1>4, <1>7, <1>8, <1>9, Zenon

(* What one step of nehash_insert does to the table. *)
LEMMA Inserted ==
  ASSUME ListInv, InsertBucket
  PROVE  /\ DOMAIN table' = Bucket /\ \A j \in Bucket : table'[j] \in Seq(Prefix)
         /\ \A j \in Bucket : Len(table[j]) \in Nat /\ Len(table[j]) <= Len(table'[j])
         /\ Held' = Held \cup {Head(queue)}
<1> DEFINE e == Head(queue)
           node == LastNode(e)
<1>1. e \in Prefix
  BY RangeSplit DEF ListInv, InsertBucket
<1>2. node[1] \in Bucket /\ node[2] \in 0 .. Len(table[node[1]]) /\ idx \in Bucket
      /\ table[node[1]] \in Seq(Prefix) /\ table[idx] \in Seq(Prefix)
  BY NodeType DEF ListInv
<1>3. CASE table' = [table EXCEPT ![idx] = <<e>> \o @]
  <2> DEFINE s == <<e>> \o table[idx]
  <2>1. s \in Seq(Prefix) /\ Len(s) = Len(table[idx]) + 1 /\ Range(s) = Range(table[idx]) \cup {e}
    BY <1>1, <1>2, RangeCons
  <2>2. table' = [table EXCEPT ![idx] = s]
    BY <1>3
  <2> HIDE DEF s, e
  <2> QED
    BY <1>2, <2>1, <2>2, Grown, Zenon DEF e
<1>4. CASE table' = InsertBehind(table, node, e)
  <2> DEFINE b == table[node[1]]
             s == Behind(b, node[2], e)
  <2>1. s \in Seq(Prefix) /\ Len(s) = Len(b) + 1 /\ Range(s) = Range(b) \cup {e}
    <3>1. b \in Seq(Prefix) /\ node[2] \in 0 .. Len(b)
      BY <1>2
    <3> HIDE DEF b, node, e
    <3> QED
      BY <1>1, <3>1, RangeInsert
  <2>2. table' = [table EXCEPT ![node[1]] = s]
    BY <1>4 DEF InsertBehind
  <2> HIDE DEF s, node, e
  <2> QED
    BY <1>2, <2>1, <2>2, Grown, Zenon DEF e
<1> QED
  BY <1>3, <1>4 DEF InsertBucket

(* The first bucket, and the node that stands for none. *)
LEMMA ZeroBucket ==
  /\ 0 \in Bucket /\ NoNode[1] = 0 /\ NoNode[2] = 0
  /\ \A b \in Seq(Prefix) : 0 \in 0 .. Len(b)
<1>1. K \in 0 .. W
  BY NehashAssumption
<1>2. 2^K \in Nat \ {0}
  BY <1>1, PowerAssumption, Zenon
<1> QED
  BY <1>2 DEF Bucket, NoNode

(* Buckets are consecutive numbers. *)
LEMMA BucketOrder ==
  ASSUME NEW i \in Bucket, NEW j \in Bucket
  PROVE  i \in Nat /\ j \in Nat /\ (i + 1 \notin Bucket => j <= i) /\ (i < j => i + 1 \in Bucket)
<1>1. K \in 0 .. W
  BY NehashAssumption
<1>2. 2^K \in Nat \ {0}
  BY <1>1, PowerAssumption, Zenon
<1> QED
  BY <1>2 DEF Bucket

(* What the beginning of the next prefix leaves. *)
LEMMA NextPrefixLeaves ==
  ASSUME NEW q \in Seq(Prefix), NextPrefix(q), DOMAIN table' = Bucket,
         \A i \in Bucket : table'[i] \in Seq(Prefix), UNCHANGED todo, todo \in Seq(Prefix)
  PROVE  /\ ListInv' /\ queue' = q
         /\ phase' = "idle" <=> q = <<>>
         /\ phase' = "insert" <=> q # <<>>
         /\ phase' # "sweep"
<1>1. queue' = q /\ last_ne' = NoNode
  BY Zenon DEF NextPrefix
<1>2. CASE q = <<>>
  <2>1. phase' = "idle" /\ idx' = 0
    BY <1>2, Zenon DEF NextPrefix
  <2> QED
    BY <1>1, <1>2, <2>1, ZeroBucket DEF ListInv, Bucket, NoNode
<1>3. CASE q # <<>>
  <2>1. phase' = "insert" /\ idx' = FirstBucket(Head(q))
    BY <1>3, Zenon DEF NextPrefix
  <2>2. idx' \in Bucket
    BY <1>3, <2>1, RangeSplit, PrefixBuckets, Zenon
  <2> QED
    BY <1>1, <1>3, <2>1, <2>2, ZeroBucket DEF ListInv, Bucket, NoNode
<1> QED
  BY <1>2, <1>3

(* The loader waits for the answer while the kernel works. *)
LEMMA KernelSent ==
  ASSUME SentInv, phase # "idle", UNCHANGED loader
  PROVE  SentInv'
BY DEF SentInv, loader

(* A bucket is emptied. *)
LEMMA SweepKeeps ==
  ASSUME LoadInv, SweepBucket, UNCHANGED loader
  PROVE  LoadInv'
<1>1. /\ phase = "sweep" /\ idx \in Bucket /\ DOMAIN table = Bucket
      /\ table' = [table EXCEPT ![idx] = <<>>] /\ UNCHANGED todo
      /\ queue \in Seq(Prefix) /\ todo \in Seq(Prefix) /\ last_ne = NoNode
      /\ \A i \in Bucket : table[i] \in Seq(Prefix)
      /\ \A i \in Bucket : i < idx => table[i] = <<>>
      /\ "queue" \notin short => \E f \in Good : Range(queue) = Range(f)
  BY DEF LoadInv, ListInv, CommitInv, SweepBucket, loader
<1>2. /\ DOMAIN table' = Bucket /\ table'[idx] = <<>>
      /\ \A i \in Bucket : i # idx => table'[i] = table[i]
  BY <1>1, Zenon
<1>3. \A i \in Bucket : table'[i] \in Seq(Prefix)
  BY <1>1, <1>2
<1>4. SentInv'
  BY <1>1, KernelSent DEF LoadInv
<1>5. CASE idx + 1 \in Bucket
  <2>1. idx' = idx + 1 /\ UNCHANGED <<queue, phase, last_ne, short>>
    BY <1>5, Zenon DEF SweepBucket
  <2>2. ListInv'
    BY <1>1, <1>2, <1>3, <1>5, <2>1, ZeroBucket DEF ListInv, Bucket, NoNode
  <2>3. \A i \in Bucket : i < idx' => table'[i] = <<>>
    BY <1>1, <1>2, <2>1 DEF Bucket
  <2>4. phase' = "sweep" /\ ("queue" \notin short' => \E f \in Good : Range(queue') = Range(f))
    BY <1>1, <2>1, Zenon
  <2>5. CommitInv' /\ WholeFile'
    BY <2>3, <2>4, Zenon DEF CommitInv, WholeFile
  <2> QED
    BY <1>4, <2>2, <2>5 DEF LoadInv
<1>6. CASE idx + 1 \notin Bucket
  <2>1. /\ NextPrefix(queue)
        /\ short' = IF "queue" \in short THEN {"table"} ELSE {}
    BY <1>6, Zenon DEF SweepBucket
  <2>2. /\ ListInv' /\ queue' = queue /\ phase' # "sweep"
        /\ phase' = "idle" <=> queue = <<>>
    BY <1>1, <1>2, <1>3, <2>1, NextPrefixLeaves
  <2>3. ASSUME NEW i \in Bucket PROVE table'[i] = <<>>
    <3>1. i = idx \/ i < idx
      BY <1>1, <1>6, BucketOrder
    <3> QED
      BY <1>1, <1>2, <3>1
  <2>4. Held' = {}
    BY <2>3 DEF Held, Bucket, Range
  <2>5. "table" \notin short' => \E f \in Good : Range(queue) = Range(f)
    BY <1>1, <2>1
  <2>6. CommitInv'
    BY <2>2, <2>4, <2>5, ZenonT(20) DEF CommitInv, Range
  <2>7. WholeFile'
    BY <2>4 DEF WholeFile, Range
  <2> QED
    BY <1>4, <2>2, <2>6, <2>7 DEF LoadInv
<1> QED
  BY <1>5, <1>6

(* A prefix is put in a bucket. *)
LEMMA InsertKeeps ==
  ASSUME LoadInv, InsertBucket, UNCHANGED loader
  PROVE  LoadInv'
<1> DEFINE e == Head(queue)
           node == LastNode(e)
<1>1. /\ phase = "insert" /\ queue # <<>> /\ queue \in Seq(Prefix) /\ todo \in Seq(Prefix)
      /\ UNCHANGED <<todo, short>> /\ idx \in Bucket
      /\ last_ne[1] \in Bucket /\ last_ne[2] \in 0 .. Len(table[last_ne[1]])
      /\ "table" \notin short => \E f \in Good : Held \cup Range(queue) = Range(f)
  BY DEF LoadInv, ListInv, CommitInv, InsertBucket, loader
<1>2. /\ DOMAIN table' = Bucket /\ \A j \in Bucket : table'[j] \in Seq(Prefix)
      /\ \A j \in Bucket : Len(table[j]) \in Nat /\ Len(table[j]) <= Len(table'[j])
      /\ Held' = Held \cup {e}
  BY Inserted DEF LoadInv
<1>3. e \in Prefix /\ Tail(queue) \in Seq(Prefix) /\ Range(queue) = {e} \cup Range(Tail(queue))
  BY <1>1, RangeSplit, Zenon
<1>4. SentInv'
  BY <1>1, KernelSent DEF LoadInv
<1>5. CASE idx < LastBucket(e)
  <2>1. idx' = idx + 1 /\ (last_ne' = last_ne \/ last_ne' = node) /\ UNCHANGED <<queue, phase>>
    BY <1>5, Zenon DEF InsertBucket
  <2>2. idx' \in Bucket
    <3>1. LastBucket(e) \in Bucket
      BY <1>3, PrefixBuckets
    <3> QED
      BY <1>1, <1>5, <2>1, <3>1, BucketOrder, Zenon
  <2>3. node[1] \in Bucket /\ node[2] \in 0 .. Len(table[node[1]])
    BY NodeType DEF LoadInv
  <2> HIDE DEF node
  <2>4. last_ne'[1] \in Bucket /\ last_ne'[2] \in 0 .. Len(table[last_ne'[1]])
    BY <1>1, <2>1, <2>3, Zenon
  <2>5. last_ne'[2] \in 0 .. Len(table'[last_ne'[1]])
    <3>1. Len(table[last_ne'[1]]) \in Nat /\ Len(table[last_ne'[1]]) <= Len(table'[last_ne'[1]])
          /\ table'[last_ne'[1]] \in Seq(Prefix)
      BY <1>2, <2>4, Zenon
    <3> QED
      BY <2>4, <3>1
  <2>6. ListInv'
    BY <1>1, <1>2, <2>1, <2>2, <2>4, <2>5 DEF ListInv, Bucket
  <2>7. CommitInv' /\ WholeFile'
    <3>1. Held' \cup Range(queue') = Held \cup Range(queue)
      BY <1>2, <1>3, <2>1 DEF Range
    <3> QED
      BY <1>1, <2>1, <3>1 DEF CommitInv, WholeFile
  <2> QED
    BY <1>4, <2>6, <2>7 DEF LoadInv
<1>6. CASE ~ (idx < LastBucket(e))
  <2>1. NextPrefix(Tail(queue))
    BY <1>6, Zenon DEF InsertBucket
  <2>2. /\ ListInv' /\ queue' = Tail(queue) /\ phase' # "sweep"
        /\ phase' = "idle" <=> Tail(queue) = <<>>
    BY <1>1, <1>2, <1>3, <2>1, NextPrefixLeaves, Zenon
  <2>3. Held' \cup Range(Tail(queue)) = Held \cup Range(queue)
    BY <1>2, <1>3
  <2>4. CommitInv'
    <3>1. "table" \notin short' => \E f \in Good : Held' \cup Range(queue') = Range(f)
      BY <1>1, <2>2, <2>3, Zenon
    <3> QED
      BY <2>2, <3>1, Zenon DEF CommitInv
  <2>5. WholeFile'
    <3> SUFFICES ASSUME phase' = "idle", "table" \notin short' PROVE \E f \in Good : Held' = Range(f)
      BY DEF WholeFile, Range
    <3>1. Range(Tail(queue)) = {}
      BY <2>2 DEF Range
    <3> QED
      BY <1>1, <2>3, <3>1, Zenon
  <2> QED
    BY <1>4, <2>2, <2>4, <2>5 DEF LoadInv
<1> QED
  BY <1>5, <1>6

(* Without memory the rest of the prefix is left out, and the table is      *)
(* known to be short.                                                       *)
LEMMA NoMemoryKeeps ==
  ASSUME LoadInv, InsertNoMemory, UNCHANGED loader
  PROVE  LoadInv'
<1>1. /\ phase = "insert" /\ queue # <<>> /\ queue \in Seq(Prefix) /\ todo \in Seq(Prefix)
      /\ UNCHANGED <<todo, table>> /\ NextPrefix(Tail(queue)) /\ "table" \in short'
      /\ DOMAIN table = Bucket /\ \A i \in Bucket : table[i] \in Seq(Prefix)
  BY DEF LoadInv, ListInv, InsertNoMemory, loader
<1>2. Tail(queue) \in Seq(Prefix)
  BY <1>1, RangeSplit, Zenon
<1>3. ListInv' /\ phase' # "sweep"
  BY <1>1, <1>2, NextPrefixLeaves, Zenon
<1>4. SentInv'
  BY <1>1, KernelSent DEF LoadInv
<1> QED
  BY <1>1, <1>3, <1>4 DEF LoadInv, CommitInv, WholeFile

(* A step that leaves the table at rest. *)
LEMMA RestKeeps ==
  ASSUME LoadInv, phase = "idle", UNCHANGED <<table, phase, idx, last_ne>>,
         queue' \in Seq(Prefix), todo' \in Seq(Prefix),
         "table" \in short' <=> "table" \in short, SentInv'
  PROVE  LoadInv'
<1>1. ListInv'
  BY DEF LoadInv, ListInv, Bucket, NoNode
<1>2. Held' = Held
  BY DEF Held, Bucket, Range
<1> QED
  BY <1>1, <1>2 DEF LoadInv, CommitInv, WholeFile, Range

(* A step that only gives the reload up. *)
LEMMA GiveUpKeeps ==
  ASSUME LoadInv, phase = "idle", UNCHANGED nehashVars, UNCHANGED loader \/ GiveUp
  PROVE  LoadInv'
<1>1. UNCHANGED <<table, phase, idx, last_ne, queue, short>>
  BY Zenon DEF nehashVars
<1>2. queue' \in Seq(Prefix) /\ todo' \in Seq(Prefix)
  <2>1. queue \in Seq(Prefix) /\ todo \in Seq(Prefix)
    BY Zenon DEF LoadInv, ListInv
  <2>2. todo' = todo \/ todo' = <<>>
    BY Zenon DEF loader, GiveUp
  <2>3. <<>> \in Seq(Prefix)
    OBVIOUS
  <2> QED
    BY <1>1, <2>1, <2>2, <2>3, Zenon
<1>3. SentInv'
  BY <1>1, Zenon DEF LoadInv, SentInv, loader, GiveUp, Range
<1> QED
  BY <1>1, <1>2, <1>3, RestKeeps

(* A reload begins. *)
LEMMA BeginKeeps ==
  ASSUME LoadInv, phase = "idle", NEW d \in Daemon, Check(d)
  PROVE  LoadInv'
<1>1. CASE ~Changed(d)
  BY <1>1, GiveUpKeeps DEF Check
<1>2. CASE Changed(d)
  <2>1. pc' = "sweep" /\ cur' = file /\ todo' = file /\ file \in Good /\ UNCHANGED nehashVars
    BY <1>2, Zenon DEF Check, Changed
  <2>2. UNCHANGED <<table, phase, idx, last_ne, queue, short>>
    BY <2>1, Zenon DEF nehashVars
  <2>3. queue' \in Seq(Prefix) /\ todo' \in Seq(Prefix)
    BY <2>1, <2>2, TcAssumption DEF LoadInv, ListInv
  <2>4. SentInv'
    BY <2>1, <2>2 DEF SentInv
  <2> QED
    BY <2>2, <2>3, <2>4, RestKeeps
<1> QED
  BY <1>1, <1>2

(* NE_SWEEP_QUEUE. *)
LEMMA SendSweepKeeps == ASSUME LoadInv, phase = "idle", SendSweep PROVE LoadInv'
<1>1. /\ pc = "sweep" /\ queue' = <<>> /\ short' = short \ {"queue"}
      /\ UNCHANGED <<table, phase, idx, last_ne>> /\ cur \in Good /\ todo = cur /\ todo \in Seq(Prefix)
  BY DEF SendSweep, SweepQueue, LoadInv, ListInv, SentInv
<1>2. Range(queue') = {} /\ queue' \in Seq(Prefix)
  BY <1>1 DEF Range
<1>3. CASE GiveUp
  BY <1>1, <1>2, <1>3, RestKeeps DEF GiveUp, SentInv
<1>4. CASE pc' = (IF todo = <<>> THEN "commit" ELSE "add") /\ UNCHANGED <<who, cur, todo, errors>>
  <2>1. SentInv'
    BY <1>1, <1>2, <1>4 DEF SentInv
  <2> QED
    BY <1>1, <1>2, <1>4, <2>1, RestKeeps
<1> QED
  BY <1>3, <1>4 DEF SendSweep

(* NE_ADD_QUEUE. *)
LEMMA SendAddKeeps == ASSUME LoadInv, phase = "idle", SendAdd PROVE LoadInv'
<1> DEFINE e == Head(todo)
<1>1. /\ pc = "add" /\ todo # <<>> /\ todo \in Seq(Prefix) /\ queue \in Seq(Prefix)
      /\ UNCHANGED <<table, phase, idx, last_ne>> /\ cur \in Good
      /\ "queue" \notin short => Range(queue) \cup Range(todo) = Range(cur)
  BY DEF SendAdd, AddToQueue, LoadInv, ListInv, SentInv
<1>2. e \in Prefix /\ Tail(todo) \in Seq(Prefix) /\ Range(todo) = {e} \cup Range(Tail(todo))
  BY <1>1, RangeSplit, Zenon
<1>3. <<e>> \o queue \in Seq(Prefix) /\ Range(<<e>> \o queue) = {e} \cup Range(queue)
  BY <1>1, <1>2, RangeCons
<1>4. \/ queue' = <<e>> \o queue /\ short' = short
      \/ queue' = queue /\ short' = short \cup {"queue"}
  BY DEF SendAdd, AddToQueue
<1>5. queue' \in Seq(Prefix) /\ ("table" \in short' <=> "table" \in short)
  BY <1>1, <1>3, <1>4, Zenon
<1>6. CASE GiveUp
  BY <1>1, <1>5, <1>6, RestKeeps DEF GiveUp, SentInv
<1>7. CASE /\ todo' = Tail(todo)
           /\ pc' = (IF todo' = <<>> THEN "commit" ELSE "add")
           /\ UNCHANGED <<who, cur>>
  <2>1. "queue" \notin short' => Range(queue') \cup Range(todo') = Range(cur)
    BY <1>1, <1>2, <1>3, <1>4, <1>7, Zenon
  <2>2. SentInv'
    BY <1>1, <1>7, <2>1 DEF SentInv
  <2> QED
    BY <1>1, <1>2, <1>5, <1>7, <2>2, RestKeeps
<1> QED
  BY <1>6, <1>7, Zenon DEF SendAdd

(* NE_COMMIT. *)
LEMMA SendCommitKeeps == ASSUME LoadInv, phase = "idle", SendCommit PROVE LoadInv'
<1>1. /\ pc = "commit" /\ pc' = "reply" /\ phase' = "sweep" /\ idx' = 0
      /\ UNCHANGED <<queue, table, last_ne, short, cur, todo>> /\ cur \in Good /\ todo = <<>>
      /\ "queue" \notin short => Range(queue) \cup Range(todo) = Range(cur)
  BY DEF SendCommit, Commit, LoadInv, SentInv
<1>2. "queue" \notin short => Range(queue) = Range(cur)
  <2>1. Range(todo) = {}
    BY <1>1 DEF Range
  <2> QED
    BY <1>1, <2>1, Zenon
<1>3. ListInv'
  <2>1. /\ DOMAIN table = Bucket /\ \A i \in Bucket : table[i] \in Seq(Prefix)
        /\ queue \in Seq(Prefix) /\ todo \in Seq(Prefix) /\ last_ne = NoNode
    BY Zenon DEF LoadInv, ListInv
  <2> QED
    BY <1>1, <2>1, ZeroBucket DEF ListInv, Bucket, NoNode
<1>4. SentInv'
  BY <1>1 DEF SentInv
<1>5. CommitInv' /\ WholeFile'
  <2>1. ASSUME NEW i \in Bucket PROVE ~ (i < idx')
    BY <1>1, BucketOrder
  <2>2. "queue" \notin short' => \E f \in Good : Range(queue') = Range(f)
    BY <1>1, <1>2
  <2>3. phase' = "sweep"
    BY <1>1
  <2> QED
    BY <2>1, <2>2, <2>3 DEF CommitInv, WholeFile, Bucket
<1> QED
  BY <1>3, <1>4, <1>5 DEF LoadInv

(* Every step keeps the invariant. *)
LEMMA LoadKeeps == LoadInv /\ [Next]_vars => LoadInv'
<1> SUFFICES ASSUME LoadInv, [Next]_vars PROVE LoadInv'
  OBVIOUS
<1>1. CASE KernelStep
  BY <1>1, SweepKeeps, InsertKeeps, NoMemoryKeeps DEF KernelStep
<1>2. CASE Quiet /\ (SendSweep \/ SendAdd \/ SendCommit)
  BY <1>2, SendSweepKeeps, SendAddKeeps, SendCommitKeeps DEF Quiet
<1>3. CASE Quiet /\ (Reply \/ RequestLost)
  BY <1>3, GiveUpKeeps DEF Quiet, Reply, RequestLost
<1>4. CASE \E d \in Daemon : Quiet /\ Check(d)
  BY <1>4, BeginKeeps DEF Quiet
<1>5. CASE \E d \in Daemon : Quiet /\ (Uncaught(d) \/ Descriptors(d) \/ CheckPid(d) \/ Shutdown(d))
  BY <1>5, GiveUpKeeps DEF Quiet, Uncaught, Descriptors, CheckPid, Shutdown
<1>6. CASE \E d \in Daemon : Quiet /\ (Exit(d) \/ Crash(d))
  BY <1>6, GiveUpKeeps DEF Quiet, Exit, Crash, Ends
<1>7. CASE \E f \in Content : Quiet /\ Edit(f)
  BY <1>7, GiveUpKeeps DEF Quiet, Edit
<1>8. CASE UNCHANGED vars
  <2>1. UNCHANGED nehashVars /\ UNCHANGED loader
    BY <1>8, Zenon DEF vars
  <2>2. UNCHANGED <<table, phase, idx, last_ne, queue, short, pc, cur, todo>>
    BY <2>1, Zenon DEF nehashVars, loader
  <2>3. ListInv'
    BY <2>2, Zenon DEF LoadInv, ListInv, Bucket, NoNode
  <2>4. SentInv'
    BY <2>2 DEF LoadInv, SentInv
  <2>5. Held' = Held
    BY <2>2 DEF Held, Bucket, Range
  <2>6. CommitInv'
    <3>1. phase' = "sweep" =>
            /\ \A i \in Bucket : i < idx' => table'[i] = <<>>
            /\ "queue" \notin short' => \E f \in Good : Range(queue') = Range(f)
      BY <2>2, Zenon DEF LoadInv, CommitInv
    <3>2. phase' = "insert" /\ "table" \notin short' =>
            \E f \in Good : Held' \cup Range(queue') = Range(f)
      BY <2>2, <2>5, Zenon DEF LoadInv, CommitInv
    <3> QED
      BY <3>1, <3>2, Zenon DEF CommitInv
  <2>7. WholeFile'
    BY <2>2, <2>5, Zenon DEF LoadInv, WholeFile, Range
  <2> QED
    BY <2>3, <2>4, <2>6, <2>7 DEF LoadInv
<1> QED
  BY <1>1, <1>2, <1>3, <1>4, <1>5, <1>6, <1>7, <1>8 DEF Next, LoaderStep

(* The table begins empty. *)
LEMMA LoadInit == Init => LoadInv
<1> SUFFICES ASSUME Init PROVE LoadInv
  OBVIOUS
<1>1. ListInv
  BY ZeroBucket DEF Init, nehash_init, ListInv, NoNode
<1>2. SentInv /\ CommitInv
  BY DEF Init, nehash_init, SentInv, CommitInv
<1>3. Held = {}
  BY DEF Init, nehash_init, Held, Range
<1>4. WholeFile
  BY <1>3 DEF WholeFile, Range
<1> QED
  BY <1>1, <1>2, <1>4 DEF LoadInv

(* Whatever is lost, edited, killed or started in the middle of a reload,   *)
(* the table of nehash_commit_queue holds one whole file, for every set of  *)
(* files, prefixes and daemons.                                             *)
THEOREM WholeFileCorrect == Spec => []WholeFile
<1>1. LoadInv => WholeFile
  BY DEF LoadInv
<1> QED
  BY <1>1, LoadInit, LoadKeeps, PTL DEF Spec
=============================================================================
