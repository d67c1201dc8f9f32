---------------------------- MODULE ReleaseManifest ----------------------------
(***************************************************************************)
(* Signing and verifying a release manifest (src/release.rs).              *)
(*                                                                         *)
(* A binary is its contents; its hash and size name it exactly, so the     *)
(* manifest carries the binary itself.  A build identifier is what the     *)
(* binary answers to --version.  Signatures are ideal: one is the bytes it *)
(* covers and the key it was made with.  The channel and the signing time  *)
(* are informational and left out.                                         *)
(***************************************************************************)
EXTENDS Integers

CONSTANTS
  Signers,    \* Ed25519 keys
  Releases,   \* build identifiers
  Binaries    \* the builds there are

RELEASE_MANIFEST_VERSION == 1

\* `canonical_preimage`: every field but the signature.
Preimage(m) ==
  [version |-> m.version, release |-> m.release, binary |-> m.binary,
   generation |-> m.generation, expires_at |-> m.expires_at, signer |-> m.signer]

\* `sign_canonical_preimage`
SignPreimage(preimage, key) == [over |-> preimage, key |-> key]

(***************************************************************************)
(* `sign_release_manifest`, for the format version of the signer's build.  *)
(* form is what storage and transport make of the text: "intact",          *)
(* "oversized", "not_json", or "bad_hex" in the signature.                 *)
(***************************************************************************)
SignRelease(version, release, binary, generation, expires_at, key) ==
  LET unsigned == [version |-> version, release |-> release, binary |-> binary,
                   generation |-> generation, expires_at |-> expires_at, signer |-> key]
  IN  [form |-> "intact", version |-> version, release |-> release, binary |-> binary,
       generation |-> generation, expires_at |-> expires_at, signer |-> key,
       signature |-> SignPreimage(Preimage(unsigned), key)]

\* The generation and the expiry left out of what is compared.
SlipSignsIdentityOnly(preimage, signer, form, signature) ==
  IF form = "bad_hex" THEN "invalid-hex"
  ELSE IF /\ signature.key = signer
          /\ signature.over.release = preimage.release
          /\ signature.over.binary = preimage.binary
       THEN "ok"
  ELSE "bad-signature"

(***************************************************************************)
(* `verify_canonical_preimage`.  A key off the curve cannot reach it from  *)
(* verify_release_manifest, which has compared the key with a good pin.    *)
(***************************************************************************)
VerifyPreimage(preimage, signer, form, signature) ==
  IF form = "bad_hex" THEN "invalid-hex"
  ELSE IF signature = SignPreimage(preimage, signer) THEN "ok"
  ELSE "bad-signature"

\* `verify_release_manifest`; the pin matches in any case of its hex.
VerifyRelease(m, pin) ==
  IF m.form = "oversized" THEN "input-too-large"
  ELSE IF m.form = "not_json" THEN "json"
  ELSE IF m.version # RELEASE_MANIFEST_VERSION THEN "unsupported-version"
  ELSE IF m.signer # pin THEN "signer-pubkey-mismatch"
  ELSE VerifyPreimage(Preimage(m), m.signer, m.form, m.signature)

\* Good for one more second.
SlipExpiresLate(m, now) == now > m.expires_at

\* `VerifiedRelease::is_expired`
IsExpired(m, now) == now >= m.expires_at
=============================================================================
