----------------------------- MODULE MCBroadcast -----------------------------
(***************************************************************************)
(* BroadcastClient with versions that differ in length, carry a suffix, do *)
(* not parse or are not known, items with and without a range, counts      *)
(* around the saturation, and a clock that is right or slow.               *)
(***************************************************************************)
EXTENDS BroadcastClient

P(n) == [num |-> n, suffix |-> FALSE]

V19 == <<P(1), P(9)>>
V190 == <<P(1), P(9), P(0)>>
V110 == <<P(1), [num |-> 10, suffix |-> TRUE], P(7)>>
VOverflow == <<P(1), P(21)>>

MCVersions == {V19, V110, VOverflow, None}

MCItems ==
  {[id |-> "all", min |-> None, max |-> None, expires_at |-> 2],
   [id |-> "from", min |-> V190, max |-> None, expires_at |-> None],
   [id |-> "upto", min |-> None, max |-> V190, expires_at |-> None]}

MCCounts == {<<0>>, <<1>>, <<16, 0>>, <<0, 17>>}
=============================================================================
