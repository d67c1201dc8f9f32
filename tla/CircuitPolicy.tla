---------------------------- MODULE CircuitPolicy ----------------------------
(***************************************************************************)
(* Which (entry, exit) pairs of a verified multi-hop directory may form a  *)
(* circuit (warren-discovery/src/multihop_directory.rs): the diversity     *)
(* rule, the directory view used by the daemon and iOS, and the flat       *)
(* entry/exit projections used by the SDK family.                          *)
(*                                                                         *)
(* A directory is the sequence of nodes that verification vouched for.     *)
(* Ids and weights are naturals (ids are byte arrays compared in order),   *)
(* a country is a value compared without regard to case in the code, so a  *)
(* value here stands for all its spellings.  `dial` stands for the address *)
(* pair, cover domain, carrier flag and edge certificate of a hop, which   *)
(* always travel together; `seal` for the exit's sealed-setup keys.        *)
(***************************************************************************)
EXTENDS Integers, Sequences

CONSTANTS
  Countries,  \* ISO countries
  Pubkeys,    \* Ed25519 identities of the dialed hop
  Dials,      \* dialing material of a hop
  Seals,      \* HPKE key material of an exit
  None        \* absent value: no country filter, no circuit, no sample

Node == [relay_id : Nat, exit_id : Nat, pubkey : Pubkeys, country : Countries,
         asn : Nat, weight : Nat, dial : Dials, seal : Seals]

\* A hop of the flat views, as an exit.
ExitHop == [exit_id : Nat, pubkey : Pubkeys, country : Countries,
            asn : Nat, weight : Nat, dial : Dials, seal : Seals]

ASSUME NoneIsNoHop == None \notin ExitHop

-----------------------------------------------------------------------------
(* The diversity rule *)

\* `CircuitPolicy::from_asns`: the fleet spans two or more known ASNs.
AsDiversityRequired(asns) == \E a, b \in asns \ {0} : a # b

FleetAsns(nodes) == {nodes[i].asn : i \in DOMAIN nodes}

\* An unknown ASN taken to differ from every other.
SlipUnknownAsnDiffers(asRequired, entry, exit, distinctNode) ==
  /\ distinctNode
  /\ entry.country # exit.country
  /\ asRequired => entry.asn # exit.asn

(***************************************************************************)
(* `circuit_permitted`, the one home of the rule.                          *)
(***************************************************************************)
CircuitPermitted(asRequired, entry, exit, distinctNode) ==
  /\ distinctNode
  /\ entry.country # exit.country
  /\ asRequired => /\ entry.asn # 0
                   /\ exit.asn # 0
                   /\ entry.asn # exit.asn

-----------------------------------------------------------------------------
(* The directory view *)

CountryMatches(filter, country) == filter = None \/ filter = country

\* The avoid-set honoured on the exit leg only.
SlipDrainOnExitOnly(dir, entryCountry, exitCountry, excluded) ==
  {p \in (DOMAIN dir) \X (DOMAIN dir) :
     LET e == dir[p[1]]
         x == dir[p[2]]
     IN  /\ CountryMatches(entryCountry, e.country)
         /\ p[1] # p[2]
         /\ CountryMatches(exitCountry, x.country)
         /\ x.exit_id \notin excluded
         /\ CircuitPermitted(AsDiversityRequired(FleetAsns(dir)), e, x,
                             e.relay_id # x.relay_id)}

(***************************************************************************)
(* `valid_circuits`: index pairs allowed by the country hints, the drained *)
(* avoid-set (on both legs, by exit id) and the diversity rule.            *)
(***************************************************************************)
ValidCircuits(dir, entryCountry, exitCountry, excluded) ==
  {p \in (DOMAIN dir) \X (DOMAIN dir) :
     LET e == dir[p[1]]
         x == dir[p[2]]
     IN  /\ CountryMatches(entryCountry, e.country)
         /\ e.exit_id \notin excluded
         /\ p[1] # p[2]
         /\ CountryMatches(exitCountry, x.country)
         /\ x.exit_id \notin excluded
         /\ CircuitPermitted(AsDiversityRequired(FleetAsns(dir)), e, x,
                             e.relay_id # x.relay_id)}

-----------------------------------------------------------------------------
(* The flat views *)

\* `entries()`: every vouched node as an entry hop.
Entries(dir) ==
  [i \in DOMAIN dir |->
     [exit_id |-> dir[i].exit_id, pubkey |-> dir[i].pubkey,
      country |-> dir[i].country, asn |-> dir[i].asn,
      weight |-> dir[i].weight, dial |-> dir[i].dial]]

\* `exits()`: every vouched node as an exit, dialed directly until via_entry.
Exits(dir) ==
  [i \in DOMAIN dir |->
     [exit_id |-> dir[i].exit_id, pubkey |-> dir[i].pubkey,
      country |-> dir[i].country, asn |-> dir[i].asn,
      weight |-> dir[i].weight, dial |-> dir[i].dial, seal |-> dir[i].seal]]

\* The diversity rule re-stated for the flat view, without the unknown ASN.
SlipPermitsUnknownAsn(asRequired, entry, exit) ==
  /\ entry.exit_id # exit.exit_id
  /\ entry.country # exit.country
  /\ asRequired => entry.asn # exit.asn

\* `CircuitPolicy::permits`: the same rule, told apart by exit id.
Permits(asRequired, entry, exit) ==
  CircuitPermitted(asRequired, entry, exit, entry.exit_id # exit.exit_id)

(***************************************************************************)
(* `via_entry`: the exit as dialed through an entry.  What is dialed is    *)
(* the entry's, what is sealed for and routed by stays the exit's.         *)
(***************************************************************************)
ViaEntry(exit, entry, asRequired) ==
  IF Permits(asRequired, entry, exit)
  THEN [exit EXCEPT !.dial = entry.dial, !.pubkey = entry.pubkey]
  ELSE None
=============================================================================
