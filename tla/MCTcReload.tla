----------------------------- MODULE MCTcReload -----------------------------
(* Small instances of TcReload for TLC. *)
EXTENDS TcReload

P(net, plen) == [net |-> net, plen |-> plen]

(* Nested prefixes of every kind: the catch-all, one that spans two         *)
(* buckets, the first bucket of the span, and an address in its last.       *)
Nested == {P(0, 0), P(0, 1), P(0, 2), P(3, 3)}

(* Wide lines first and narrow lines first, the catch-all at either end. *)
Files ==
  { <<P(0, 1), P(0, 2), P(0, 0)>>,
    <<P(0, 0), P(3, 3), P(0, 1)>> }

(* Two daemons with an edit and an error; three with neither. *)
TwoOrThree == {[starts |-> 2, edits |-> 1, errors |-> 1], [starts |-> 3, edits |-> 0, errors |-> 0]}
=============================================================================
