--------------------------- MODULE MCCircuitClient ---------------------------
(***************************************************************************)
(* CircuitClient, and beside it the picks of EntryPick on the same feed,   *)
(* with a fleet of three nodes on two continents, seen through directories *)
(* that differ in membership, weight, country and AS.                      *)
(***************************************************************************)
EXTENDS CircuitClient, EntryPick

MCNode(id, country, asn, weight) ==
  [country |-> country, asn |-> asn, weight |-> weight,
   relay_id |-> id, exit_id |-> id, pubkey |-> id, dial |-> id, seal |-> id]

MCIds == 1..3

(* Three countries, two ASes: AS diversity is required.  The weights are   *)
(* equal and the nodes are not listed by id.                               *)
Diverse == <<MCNode(3, "us", 10, 2), MCNode(1, "nl", 10, 2), MCNode(2, "de", 20, 2)>>

(* Node 2 moved to the AS of the others: the AS rule is relaxed.  Node 1   *)
(* has no weight, which ties it with node 2 once weights are floored.      *)
Relaxed == <<MCNode(1, "nl", 10, 0), MCNode(2, "de", 10, 1), MCNode(3, "us", 10, 3)>>

(* Node 3 moved to an unknown AS; the weights of the others saturate.      *)
Unknown == <<MCNode(3, "us", 0, 2), MCNode(2, "de", 20, 3), MCNode(1, "nl", 10, 2)>>

(* Node 3 left and the others are in one country: no circuit exists.       *)
OneCountry == <<MCNode(1, "nl", 10, 2), MCNode(2, "nl", 20, 3)>>

MCDirectories == {Diverse, Relaxed, Unknown, OneCountry}

MCHints == {<<None, None>>, <<"nl", None>>}
MCLegs == {<<1, 2>>, <<2, 3>>}
MCQualities == {[rtt_ms |-> 10, degraded |-> FALSE], [rtt_ms |-> 90, degraded |-> TRUE]}
MCTimezones == {None, "europe", "americas", "africa"}
=============================================================================
