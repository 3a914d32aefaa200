------------------------------- MODULE Nehash -------------------------------
(***************************************************************************)
(* The traffic classification table (isg_nehash.c).  Prefixes are queued,   *)
(* then a commit empties the table and inserts the queue, one bucket after  *)
(* the other, while packets look up without a lock.  A prefix shorter than  *)
(* the hash key is put into each of the buckets it spans; a bucket is kept  *)
(* in descending order of masks, so that the first match is the longest.    *)
(* The client of the table is in TcReload.                                  *)
(*                                                                          *)
(* The class of a prefix is the prefix itself: no two are confused.  The    *)
(* order of masks is the order of prefix lengths.                           *)
(***************************************************************************)
EXTENDS Integers, Sequences, Functions, FiniteSetsExt

CONSTANTS
  W,          \* bits of an address (32)
  K,          \* nehash_key_len
  Prefix      \* the prefixes a client may queue

Address == 0 .. 2^W - 1
Bucket == 0 .. 2^K - 1

(* tc.reload refuses a length above W and prefixes with host bits. *)
ASSUME NehashAssumption ==
  /\ W \in Nat /\ K \in 1 .. W
  /\ \A e \in Prefix : e.plen \in 0 .. W /\ e.net \in Address /\ e.net % 2^(W - e.plen) = 0

(* The law of exponents, which the proofs need and no prover knows. *)
ASSUME PowerAssumption == \A i \in 0 .. W : 2^i \in Nat \ {0} /\ 2^W = 2^i * 2^(W - i)

VARIABLES
  queue,      \* nehash_queue
  table,      \* the buckets
  phase,      \* "idle", "sweep" or "insert"
  idx,        \* bucket the commit works on
  last_ne,    \* the node <<bucket, position>> of that name in nehash_insert
  loaded,     \* history: the queue the table is from
  short       \* history: which of queue and table kzalloc failed for

nehashVars == <<queue, table, phase, idx, last_ne, loaded, short>>

NoNode == <<0, 0>>

NehashTypeOK ==
  /\ Range(queue) \subseteq Prefix
  /\ DOMAIN table = Bucket
  /\ \A i \in Bucket : Range(table[i]) \subseteq Prefix
  /\ phase \in {"idle", "sweep", "insert"}
  /\ idx \in Bucket
  /\ last_ne[1] \in Bucket /\ last_ne[2] \in 0 .. Len(table[last_ne[1]])
  /\ Range(loaded) \subseteq Prefix
  /\ short \subseteq {"queue", "table"}

nehash_init ==
  /\ queue = <<>>
  /\ table = [i \in Bucket |-> <<>>]
  /\ phase = "idle" /\ idx = 0 /\ last_ne = NoNode
  /\ loaded = <<>> /\ short = {}

Covers(e, a) == a \div 2^(W - e.plen) = e.net \div 2^(W - e.plen)

Key(a) == a \div 2^(W - K)

FirstBucket(e) == Key(e.net)

(* The catch-all prefix is in the first bucket only. *)
LastBucket(e) == IF e.plen = 0 THEN FirstBucket(e) ELSE Key(e.net + 2^(W - e.plen) - 1)

(* NE_ADD_QUEUE: nehash_add_to_queue puts the prefix at the head, or drops  *)
(* it without memory; the client is told nothing.                           *)
AddToQueue(e, dropped) ==
  /\ queue' = IF dropped THEN queue ELSE <<e>> \o queue
  /\ short' = IF dropped THEN short \cup {"queue"} ELSE short
  /\ UNCHANGED <<table, phase, idx, last_ne, loaded>>

SweepQueue_Not == UNCHANGED nehashVars

(* NE_SWEEP_QUEUE. *)
SweepQueue ==
  /\ queue' = <<>>
  /\ short' = short \ {"queue"}
  /\ UNCHANGED <<table, phase, idx, last_ne, loaded>>

(* NE_COMMIT takes the lock of the writers. *)
Commit ==
  /\ phase' = "sweep"
  /\ idx' = 0
  /\ UNCHANGED <<queue, table, last_ne, loaded, short>>

(* Start with the prefix at the head of the queue q, or end the commit. *)
NextPrefix(q) ==
  /\ queue' = q
  /\ last_ne' = NoNode
  /\ phase' = IF q = <<>> THEN "idle" ELSE "insert"
  /\ idx' = IF q = <<>> THEN 0 ELSE FirstBucket(Head(q))

(* nehash_sweep_entries, one bucket. *)
SweepBucket ==
  /\ phase = "sweep"
  /\ table' = [table EXCEPT ![idx] = <<>>]
  /\ IF idx + 1 \in Bucket
     THEN idx' = idx + 1 /\ UNCHANGED <<queue, phase, last_ne, loaded, short>>
     ELSE /\ NextPrefix(queue)
          /\ loaded' = queue
          /\ short' = IF "queue" \in short THEN {"table"} ELSE {}

(* How many entries of a bucket the walk passes before the new one. *)
Passed(e, b) == Max({n \in 0 .. Len(b) : \A i \in 1 .. n : e.plen <= b[i].plen})

(* last_ne after the walk of bucket idx; it is not reset between buckets. *)
LastNode(e) ==
  LET n == Passed(e, table[idx]) IN IF n > 0 THEN <<idx, n>> ELSE last_ne

(* hlist_add_behind the n-th node of the bucket b. *)
Behind(b, n, e) == SubSeq(b, 1, n) \o <<e>> \o SubSeq(b, n + 1, Len(b))

InsertBehind(t, node, e) == [t EXCEPT ![node[1]] = Behind(@, node[2], e)]

(* nehash_insert, one bucket of the prefix. *)
InsertBucket ==
  LET e    == Head(queue)
      node == LastNode(e) IN
  /\ phase = "insert"
  /\ table' =
       IF table[idx] = <<>> \/ node = NoNode
       THEN [table EXCEPT ![idx] = <<e>> \o @]
       ELSE InsertBehind(table, node, e)
  /\ IF idx < LastBucket(e)
     THEN /\ idx' = idx + 1
          /\ last_ne' = IF table[idx] = <<>> THEN last_ne ELSE node
          /\ UNCHANGED <<queue, phase>>
     ELSE NextPrefix(Tail(queue))
  /\ UNCHANGED <<loaded, short>>

(* kzalloc fails: the rest of this prefix is left out and the commit goes   *)
(* on.                                                                      *)
InsertNoMemory ==
  /\ phase = "insert"
  /\ short' = short \cup {"table"}
  /\ NextPrefix(Tail(queue))
  /\ UNCHANGED <<table, loaded>>

(* nehash_lookup: the entries that a packet may be given; none if empty. *)
FirstMatch(b, Match(_)) ==
  {b[i] : i \in {j \in DOMAIN b : Match(b[j]) /\ \A k \in 1 .. j - 1 : ~Match(b[k])}}

Default == FirstMatch(table[0], LAMBDA e : e.plen = 0)

nehash_lookup_NoDefault(a) == FirstMatch(table[Key(a)], LAMBDA e : Covers(e, a))

nehash_lookup(a) ==
  LET found == FirstMatch(table[Key(a)], LAMBDA e : Covers(e, a)) IN
  IF found # {} THEN found ELSE Default

-----------------------------------------------------------------------------
(* The definition of classification: the longest prefix with the address. *)
Longest(f, a) ==
  {e \in Range(f) : Covers(e, a) /\ \A d \in Range(f) : Covers(d, a) => d.plen <= e.plen}

(* A line of tc.conf comes before the lines that refine it, so in the queue *)
(* it is behind them; the catch-all line may stand anywhere, as it does at  *)
(* the end of tc.conf.example.                                              *)
WideFirst(f) ==
  \A i, j \in DOMAIN f :
    f[i].plen # 0 /\ f[i].plen < f[j].plen /\ Covers(f[i], f[j].net) => i > j

(* A packet that comes when the table is at rest gets the class of its      *)
(* longest prefix, if refinements follow what they refine in the file: in   *)
(* another order it may not, as last_ne is not reset between the buckets of *)
(* a prefix.  A packet that comes in the middle of a commit gets that class *)
(* too, before or after, or the catch-all or none, and never another.       *)
LongestPrefix ==
  "table" \notin short /\ WideFirst(loaded) =>
    \A a \in Address :
      IF phase = "idle" THEN nehash_lookup(a) = Longest(loaded, a)
      ELSE \A e \in nehash_lookup(a) : e \in Longest(loaded, a) \/ e.plen = 0
=============================================================================
