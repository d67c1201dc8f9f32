---------------------------- MODULE DirectoryChain ----------------------------
(***************************************************************************)
(* The three-level trust chain of the multi-hop directory                  *)
(* (warren-discovery/src/multihop_directory.rs): the operator's draft and  *)
(* the gates it passes, the server envelope put around it, and the         *)
(* client's verification down to the single node.                          *)
(*                                                                         *)
(* A node of the directory is a record                                     *)
(*   [id, fields, exit_endpoint, pin, dns_off, geo,                        *)
(*    relay_by, exit_sig, attestation]                                     *)
(* fields is the set of optional fields present ("mlkem" is the exit's     *)
(* ML-KEM key), pin the edge-certificate pin ("none", "hex" or             *)
(* "malformed"), geo the country and ASN, relay_by the key that signed the *)
(* relay descriptor, exit_sig = [by, context, dns] the signature on the    *)
(* exit descriptor and attestation = [by, geo] the one on the geo.  What   *)
(* each signature binds is decided in warrenguard_multihop, outside this   *)
(* repository: a relay descriptor's and a classical exit descriptor's bind *)
(* identities only, "v2" binds the DNS bit too, "pq" the bit and the       *)
(* ML-KEM key.                                                             *)
(*                                                                         *)
(* A build is [fields, pins, roots]: the optional fields its structs have, *)
(* and the server and root keys it pins (none: any key is accepted).       *)
(***************************************************************************)
EXTENDS Integers, Sequences, FiniteSets

CONSTANTS
  NoDirectory,
  Ids, Geos, Fields,   \* what nodes are, where, and which optional fields exist
  OpKeys, Roots        \* operational keys, and the root keys that certify them

Node ==
  [id : Ids, fields : SUBSET Fields, exit_endpoint : BOOLEAN,
   pin : {"none", "hex", "malformed"}, dns_off : BOOLEAN, geo : Geos,
   relay_by : OpKeys,
   exit_sig : [by : OpKeys, context : {"v1", "v2", "pq"}, dns : BOOLEAN],
   attestation : [by : OpKeys, geo : Geos]]

Draft == [nodes : Seq(Node), op : OpKeys, root : Roots, generation : Nat]

\* A verified directory.
Directory == [nodes : Seq(Node), op : OpKeys, generation : Nat, dropped : Nat]

-----------------------------------------------------------------------------
(* A single node *)

PqVerifies(op, node) ==
  /\ node.exit_sig.by = op
  /\ node.exit_sig.context = "pq"
  /\ node.exit_sig.dns = node.dns_off
  /\ "mlkem" \in node.fields

\* `verify_exit_descriptor_with_dns_attestation`: "v2" attests the DNS bit.
DnsAttested(op, node) ==
  /\ node.exit_sig.by = op
  /\ node.exit_sig.context = "v2"
  /\ node.exit_sig.dns = node.dns_off

Unattested(op, node) == node.exit_sig.by = op /\ node.exit_sig.context = "v1"

\* The DNS bit believed under a signature that does not bind it.
SlipTrustsDnsBit(op, node) ==
  /\ node.relay_by = op
  /\ PqVerifies(op, node) \/ DnsAttested(op, node) \/ Unattested(op, node)
  /\ node.attestation = [by |-> op, geo |-> node.geo]

(***************************************************************************)
(* `node_fully_vouched`: PQ first, then the classical contexts; an exit    *)
(* without in-tunnel DNS needs a signature that says so.                   *)
(***************************************************************************)
FullyVouched(op, node) ==
  /\ node.relay_by = op
  /\ \/ PqVerifies(op, node)
     \/ DnsAttested(op, node)
     \/ Unattested(op, node) /\ ~node.dns_off
  /\ node.attestation = [by |-> op, geo |-> node.geo]

\* `exits()`: the ML-KEM key is surfaced only if the PQ signature binds it.
SurfacesMlKem(op, node) == PqVerifies(op, node)

-----------------------------------------------------------------------------
(* The draft: [nodes, op, root, generation]; root certified op *)

\* A struct keeps the optional fields it has.
Parsed(known, node) ==
  [node EXCEPT !.fields = @ \cap known,
               !.pin = IF "edge_pin" \in known THEN @ ELSE "none"]

ParsedAll(known, nodes) == [i \in DOMAIN nodes |-> Parsed(known, nodes[i])]

\* The lossless gate missing: what this build drops is dropped silently.
SlipStripsSilently(known, nodes) == TRUE

\* `ensure_lossless_roundtrip`, by a server that knows the given fields.
Lossless(known, nodes) == ParsedAll(known, nodes) = nodes

\* The first node taken for all of them.
SlipChecksFirstNode(draft) ==
  draft.nodes # <<>> => FullyVouched(draft.op, draft.nodes[1])

(***************************************************************************)
(* `validate_self_consistent`: every node is vouched by the operational    *)
(* key the draft claims.  The root certificate is not checked: the server  *)
(* pins no root.                                                           *)
(***************************************************************************)
SelfConsistent(draft) ==
  \A i \in DOMAIN draft.nodes : FullyVouched(draft.op, draft.nodes[i])

\* `check_edge_cert_pins`
PinsWellFormed(nodes) == \A i \in DOMAIN nodes : nodes[i].pin # "malformed"

\* `redact_exit_endpoints`
Redacted(nodes) == [i \in DOMAIN nodes |-> [nodes[i] EXCEPT !.exit_endpoint = FALSE]]

-----------------------------------------------------------------------------
(* The envelope *)

Preimage(nodes, op, root, generation, key) ==
  [nodes |-> nodes, op |-> op, root |-> root, generation |-> generation, key |-> key]

(***************************************************************************)
(* `sign_directory_draft`, for pins that are well-formed (it refuses       *)
(* others).  form is what transport may do to the text, as in SignedList;  *)
(* "other_version" is a document of another format version.                *)
(***************************************************************************)
Enveloped(nodes, draft, key) ==
  [form |-> "intact", nodes |-> nodes, op |-> draft.op, root |-> draft.root,
   generation |-> draft.generation, key |-> key,
   signature |-> Preimage(nodes, draft.op, draft.root, draft.generation, key)]

PinAllows(pins, key) == pins = {} \/ key \in pins

\* The envelope is checked on a re-serialization of what was parsed.
EnvelopeHolds(build, doc) ==
  doc.signature = Preimage(ParsedAll(build.fields, doc.nodes), doc.op, doc.root,
                           doc.generation, doc.key)

(***************************************************************************)
(* `verify_multihop_directory_any`, without the last step: the checks in   *)
(* the order they are made.                                                *)
(***************************************************************************)
Verdict(build, doc) ==
  IF doc.form = "oversized" THEN "input-too-large"
  ELSE IF doc.form = "not_json" THEN "malformed-json"
  ELSE IF doc.form = "other_version" THEN "unsupported-version"
  ELSE IF ~PinsWellFormed(ParsedAll(build.fields, doc.nodes)) THEN "malformed-edge-pin"
  ELSE IF ~PinAllows(build.pins, doc.key) THEN "server-pubkey-mismatch"
  ELSE IF doc.form = "bad_hex" THEN "invalid-hex"
  ELSE IF ~EnvelopeHolds(build, doc) THEN "bad-envelope-signature"
  ELSE IF ~PinAllows(build.roots, doc.root) THEN "bad-operational-cert"
  ELSE "ok"

(***************************************************************************)
(* Its last step: the nodes that are not fully vouched are dropped and     *)
(* counted, the rest keep their order.                                     *)
(***************************************************************************)
Kept(build, doc) ==
  LET nodes   == ParsedAll(build.fields, doc.nodes)
      vouched == {i \in DOMAIN nodes : FullyVouched(doc.op, nodes[i])}
      Rank(i) == Cardinality({j \in vouched : j <= i})
  IN  [k \in 1..Cardinality(vouched) |-> nodes[CHOOSE i \in vouched : Rank(i) = k]]

Verified(build, doc) ==
  [nodes |-> Kept(build, doc), op |-> doc.op, generation |-> doc.generation,
   dropped |-> Len(doc.nodes) - Len(Kept(build, doc))]
=============================================================================
