--------------------------- MODULE RelaySelection ---------------------------
(***************************************************************************)
(* Choosing a single-hop relay from a list                                 *)
(* (warren-discovery/src/selector.rs, query.rs, relay.rs), as operators on *)
(* sets of relays.                                                         *)
(*                                                                         *)
(* A wire node carries the fields of the signed list that a choice could   *)
(* depend on; FromWire is the conversion to the relay the selector sees.   *)
(* A weighted random pick is any candidate: every weight above zero can be *)
(* drawn, and the seed (the retry attempt) is arbitrary.  Countries and    *)
(* cities are compared without regard to case, so a value stands for all   *)
(* its spellings.                                                          *)
(***************************************************************************)
EXTENDS Integers

CONSTANTS
  Ids,        \* Ed25519 identities of nodes
  Countries,
  Cities,
  Any         \* no constraint

WireNode == [id : Ids, country : Countries, city : Cities, weight : Nat,
             active : BOOLEAN, families : SUBSET {"ipv4", "ipv6"},
             egress_v6 : BOOLEAN, stale : BOOLEAN]

\* families holds the families of the entry endpoints that have a listener.
Relay == [id : Ids, country : Countries, city : Cities, weight : Nat,
          active : BOOLEAN, families : SUBSET {"ipv4", "ipv6"},
          egress_v6 : BOOLEAN]

Query == [country : Countries \cup {Any}, city : Cities \cup {Any},
          ip : {"both", "ipv4", "ipv6"}, require_ipv6_egress : BOOLEAN]

(***************************************************************************)
(* `json_node_to_warren`, `from_public`: the heartbeat verdict `stale` of  *)
(* a v11 node has no place in the runtime relay.                           *)
(***************************************************************************)
FromWire(n) ==
  [id |-> n.id, country |-> n.country, city |-> n.city, weight |-> n.weight,
   active |-> n.active, families |-> n.families, egress_v6 |-> n.egress_v6]

LocationMatches(q, r) ==
  /\ q.country \in {Any, r.country}
  /\ q.city \in {Any, r.city}

IpMatches(q, r) ==
  IF q.ip = "both" THEN r.families # {} ELSE q.ip \in r.families

\* `WarrenRelayQuery::matches`
Matches(q, r) ==
  /\ r.active
  /\ LocationMatches(q, r)
  /\ IpMatches(q, r)
  /\ q.require_ipv6_egress => r.egress_v6

\* `select` takes the first match of the list, whatever its weight.
SelectCandidates(relays, q) == {r \in relays : Matches(q, r)}

\* `select_with_rng`, `select_for_attempt`
WeightedCandidates(relays, q) == {r \in relays : r.weight > 0 /\ Matches(q, r)}

\* The failed relay excluded from the global stage only.
SlipRetriesFailed(relays, q, failed) ==
  LET home == {r \in WeightedCandidates(relays, q) : r.country = failed.country}
  IN  IF home # {} THEN home
      ELSE {r \in WeightedCandidates(relays, q) : r.id # failed.id}

\* The country kept as soon as it has another relay, eligible or not.
SlipHomeBeforeEligible(relays, q, failed) ==
  LET home == {r \in relays : r.country = failed.country /\ r.id # failed.id}
      others == {r \in WeightedCandidates(relays, q) : r.id # failed.id}
  IN  IF home # {} THEN home \cap others ELSE others

(***************************************************************************)
(* `select_failover_alternative`: another eligible relay, in the failed    *)
(* one's country if there is one.                                          *)
(***************************************************************************)
FailoverCandidates(relays, q, failed) ==
  LET others == {r \in WeightedCandidates(relays, q) : r.id # failed.id}
      home   == {r \in others : r.country = failed.country}
  IN  IF home # {} THEN home ELSE others
=============================================================================
