--------------------------- MODULE MCRelayFailover ---------------------------
(***************************************************************************)
(* RelayFailover on two relays in one country, one abroad, and one that is *)
(* disabled by its weight.                                                 *)
(***************************************************************************)
EXTENDS RelayFailover

MCNode(id, country, weight, active, stale) ==
  [id |-> id, country |-> country, city |-> country, weight |-> weight,
   active |-> active, families |-> {"ipv4"}, egress_v6 |-> FALSE, stale |-> stale]

MCIds == {"a", "b", "c", "d"}

Full == {MCNode("a", "nl", 1, TRUE, FALSE), MCNode("b", "nl", 5, TRUE, FALSE),
         MCNode("c", "de", 1, TRUE, FALSE), MCNode("d", "de", 0, TRUE, FALSE)}

(* Relay b is in maintenance, d is enabled and dialed over IPv6 only.      *)
Maintenance ==
  {MCNode("a", "nl", 1, TRUE, FALSE), MCNode("b", "nl", 5, FALSE, FALSE),
   MCNode("c", "de", 1, TRUE, FALSE),
   [MCNode("d", "de", 1, TRUE, FALSE) EXCEPT !.families = {"ipv6"}]}

MCLists == {Full, Maintenance}

MCQueries ==
  {[country |-> Any, city |-> Any, ip |-> "both", require_ipv6_egress |-> FALSE],
   [country |-> "nl", city |-> Any, ip |-> "ipv4", require_ipv6_egress |-> FALSE]}

(* For the stale run: a v11 list in which one relay missed its heartbeats. *)
StaleLists ==
  {{MCNode("a", "nl", 1, TRUE, TRUE), MCNode("b", "nl", 5, TRUE, FALSE)}}
=============================================================================
