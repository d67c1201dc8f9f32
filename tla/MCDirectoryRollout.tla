-------------------------- MODULE MCDirectoryRollout --------------------------
(***************************************************************************)
(* DirectoryRollout with builds that lack, or have, the field of the /v2   *)
(* route and the edge pin, two operational keys under two roots, and       *)
(* drafts that are sound, half re-minted, half re-attested, or carry an    *)
(* ML-KEM key or a DNS bit that no signature binds.                        *)
(***************************************************************************)
EXTENDS DirectoryRollout

MCFrozen == {"cover_domain", "mlkem"}
MCFull == MCFrozen \cup {"endpoint_v6", "edge_pin"}

MCNode(id, by, context, fields, dns) ==
  [id |-> id, fields |-> fields, exit_endpoint |-> TRUE, pin |-> "none",
   dns_off |-> dns, geo |-> "nl", relay_by |-> by,
   exit_sig |-> [by |-> by, context |-> context, dns |-> dns],
   attestation |-> [by |-> by, geo |-> "nl"]]

MCDraft(op, root, a, b) == [op |-> op, root |-> root, nodes |-> <<a, b>>]

MCPq(op) == MCNode(1, op, "pq", {"mlkem", "cover_domain"}, TRUE)
MCDual(op) == MCNode(2, op, "v1", {"endpoint_v6"}, FALSE)

MCDrafts ==
  {MCDraft("op1", "root1", MCPq("op1"), MCDual("op1")),
   MCDraft("op2", "root2", MCNode(1, "op2", "v2", {}, TRUE), MCDual("op2")),
   (* An ML-KEM key merely carried.                                        *)
   MCDraft("op1", "root1", MCNode(1, "op1", "v1", {"mlkem"}, FALSE), MCPq("op1")),
   (* The second node still under the previous operational key.            *)
   MCDraft("op2", "root2", MCPq("op2"), MCDual("op1")),
   (* Moved without a new attestation.                                     *)
   MCDraft("op1", "root1", MCPq("op1"), [MCDual("op1") EXCEPT !.geo = "de"]),
   (* In-tunnel DNS switched off under a signature that does not say so.   *)
   MCDraft("op1", "root1", MCPq("op1"), MCNode(2, "op1", "v1", {}, TRUE))}

MCClientBuilds ==
  {[fields |-> MCFrozen, pins |-> {"k1"}, roots |-> {"root1"}],
   [fields |-> MCFull, pins |-> {"k1", "k2"}, roots |-> {"root1", "root2"}],
   [fields |-> MCFull, pins |-> {}, roots |-> {}]}

MCServerBuilds == {MCFrozen, MCFull}
=============================================================================
