------------------------------ MODULE SignedList ------------------------------
(***************************************************************************)
(* Signing and verifying the relay list (warren-discovery/src/signed.rs,   *)
(* envelope.rs) and filtering it through the offline roster (roster.rs).   *)
(*                                                                         *)
(* A signature covers the bytes the signer's structs serialize to, and a   *)
(* reader checks it against the bytes its own structs serialize to after   *)
(* parsing.  What matters of the bytes is therefore the version, the       *)
(* mandatory content (body) and the set of optional fields present: a      *)
(* reader drops the optional fields its structs do not have, and then      *)
(* rebuilds other bytes than were signed.  A build is a record             *)
(*   [fields, versions, pins]                                              *)
(* of the optional fields of its structs, the versions it accepts and the  *)
(* server keys it pins (none: any key is accepted).  Keys and signatures   *)
(* are ideal; hex case is not represented (pins match in any case).        *)
(***************************************************************************)
EXTENDS Integers

CONSTANTS
  V10Fields,       \* optional members of SIGNED_V10_FIELDS
  V11ExtraFields,  \* SIGNED_V11_EXTRA_FIELDS
  UnknownFields,   \* fields no released schema declares
  Keys             \* server keys

AllFields == V10Fields \cup V11ExtraFields \cup UnknownFields

ASSUME SchemaAssumption ==
  /\ V10Fields \cap UnknownFields = {}
  /\ V11ExtraFields \cap UnknownFields = {}

Build == [fields : SUBSET AllFields, versions : SUBSET {10, 11}, pins : SUBSET Keys]

-----------------------------------------------------------------------------
(* The schema allowlists *)

\* `field_is_covered`
Covered(version) ==
  IF version = 11 THEN V10Fields \cup V11ExtraFields ELSE V10Fields

\* `unknown_signed_fields_for`: the caller refuses to emit unless empty.
UnknownSignedFields(version, fields) == fields \ Covered(version)

-----------------------------------------------------------------------------
(* Signing and verifying *)

Preimage(version, body, fields, key) ==
  [version |-> version, body |-> body, fields |-> fields, key |-> key]

(***************************************************************************)
(* `sign_relay_list_versioned`.  form is what transport may do to the      *)
(* text: leave it "intact", or make it "oversized", "not_json", "bad_hex"  *)
(* (in the key or the signature) or "off_curve".                           *)
(***************************************************************************)
Signed(version, body, fields, key) ==
  [form |-> "intact", version |-> version, body |-> body, fields |-> fields,
   key |-> key, signature |-> Preimage(version, body, fields, key)]

\* A field added to the text on its way, which no signature covers.
Decorated(wire, extra) == [wire EXCEPT !.fields = @ \cup extra]

PinAllows(pins, key) == pins = {} \/ key \in pins

\* The fields that parsing keeps.
Parsed(build, wire) == wire.fields \cap build.fields

\* The extended tier left out of the rebuilt bytes.
SlipForgetsExtendedTier(build, wire) ==
  [wire.signature EXCEPT !.fields = @ \cap V10Fields]
    = Preimage(wire.version, wire.body, Parsed(build, wire) \cap V10Fields, wire.key)

\* The raw text taken for the signed bytes.
SlipChecksRawText(build, wire) ==
  wire.signature = Preimage(wire.version, wire.body, wire.fields, wire.key)

SignatureHolds(build, wire) ==
  wire.signature = Preimage(wire.version, wire.body, Parsed(build, wire), wire.key)

\* The failure classified against the newest schema the build knows.
SlipOwnSchema(wire) ==
  IF wire.fields \ (V10Fields \cup V11ExtraFields) = {}
  THEN "bad-signature"
  ELSE "bad-signature-unknown-field"

\* `classify_bad_signature`, against the version the document declares.
BadSignatureReason(wire) ==
  IF UnknownSignedFields(wire.version, wire.fields) = {}
  THEN "bad-signature"
  ELSE "bad-signature-unknown-field"

(***************************************************************************)
(* `verify_signed_relay_list_any`: the checks in the order they are made,  *)
(* with the code of the first that fails.  A single malformed node fails   *)
(* the whole list (json_node_to_warren), but only behind the signature.    *)
(***************************************************************************)
Verdict(build, wire) ==
  IF wire.form = "oversized" THEN "input-too-large"
  ELSE IF wire.form = "not_json" THEN "malformed-json"
  ELSE IF wire.version \notin build.versions THEN "unsupported-version"
  ELSE IF ~PinAllows(build.pins, wire.key) THEN "server-pubkey-mismatch"
  ELSE IF wire.form = "bad_hex" THEN "invalid-hex"
  ELSE IF wire.form = "off_curve" THEN "pubkey-not-on-curve"
  ELSE IF ~SignatureHolds(build, wire) THEN BadSignatureReason(wire)
  ELSE IF wire.body.malformed THEN "malformed-node"
  ELSE "ok"

-----------------------------------------------------------------------------
(* The roster *)

\* The place left to the online list.
SlipTrustsListedPlace(roster, relay) ==
  \E e \in roster : e.id = relay.id /\ e.exit_id = relay.exit_id

(***************************************************************************)
(* `authorizes`: identity, stable exit id and advertised place (country    *)
(* and city, in any case) are all as the offline key attested.             *)
(***************************************************************************)
Authorizes(roster, relay) ==
  \E e \in roster : /\ e.id = relay.id
                    /\ e.exit_id = relay.exit_id
                    /\ e.place = relay.place

\* `authorize`
Authorized(roster, relays) == {r \in relays : Authorizes(roster, r)}
=============================================================================
