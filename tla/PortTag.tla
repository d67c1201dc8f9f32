------------------------------- MODULE PortTag -------------------------------
(***************************************************************************)
(* Port-forward attribution as operators (warren-contract                  *)
(* src/pf_attribution.rs): the tag the API mints with every port           *)
(* entitlement, and the envelope that carries both to an exit.             *)
(*                                                                         *)
(* The byte layouts are the fields of records.  The API signing key k      *)
(* stands for both keys derived from it, `k_enc` and `k_sign`; the AEAD    *)
(* and the signature are ideal: a ciphertext opens, and a signature        *)
(* verifies, only under its own key and over what it was made over.        *)
(***************************************************************************)
EXTENDS Integers

CONSTANT None

\* `aad`: the domain and the version are constant.
Aad(epoch) == epoch

\* The epoch left out of what is signed.
SlipPreimageSkipsEpoch(epoch, nonce, ciphertext) ==
  [nonce |-> nonce, ciphertext |-> ciphertext]

\* `signing_preimage`
SigningPreimage(epoch, nonce, ciphertext) ==
  [aad |-> Aad(epoch), nonce |-> nonce, ciphertext |-> ciphertext]

\* `seal`; the nonce is fresh.
Sealed(k, epoch, nonce, account) ==
  LET ciphertext == [key |-> k, nonce |-> nonce, aad |-> Aad(epoch), account |-> account]
  IN  [epoch      |-> epoch,
       nonce      |-> nonce,
       ciphertext |-> ciphertext,
       signature  |-> [key |-> k, over |-> SigningPreimage(epoch, nonce, ciphertext)]]

\* `AttributionTag::verify`
Verifies(tag, k) ==
  tag.signature = [key  |-> k,
                   over |-> SigningPreimage(tag.epoch, tag.nonce, tag.ciphertext)]

\* `AttributionTag::open`: the account, or None for `Undecryptable`.
Opened(tag, k) ==
  LET c == tag.ciphertext
  IN  IF c.key = k /\ c.nonce = tag.nonce /\ c.aad = Aad(tag.epoch) THEN c.account ELSE None

-----------------------------------------------------------------------------
(* The envelope *)

\* `EntitlementEnvelope::new` takes any tag.
Envelope(token, tag) == [token |-> token, tag |-> tag]

(***************************************************************************)
(* `EntitlementEnvelope::parse` of what arrives of an envelope, in the     *)
(* order of the checks.  "bare" is a token alone, as a client predating    *)
(* the envelope sends it.                                                  *)
(***************************************************************************)
ParseVerdict(form) ==
  IF form \in {"bare", "truncated"} THEN "wrong-length"
  ELSE IF form = "other_envelope" THEN "unsupported-version"
  ELSE IF form = "other_tag" THEN "tag-unsupported-version"
  ELSE "ok"

\* The envelope read from the bytes; "garbled" has another epoch in them.
Parsed(form, envelope) ==
  IF form = "garbled"
  THEN [envelope EXCEPT !.tag.epoch = envelope.token.epoch]
  ELSE envelope

(***************************************************************************)
(* What an exit admits: the envelope parses, its tag verifies under the    *)
(* published key, and the tag is of the token's epoch ("The exit refuses a *)
(* tag whose epoch differs from the token's").                             *)
(***************************************************************************)
Admits(form, envelope, published) ==
  /\ ParseVerdict(form) = "ok"
  /\ LET e == Parsed(form, envelope)
     IN  Verifies(e.tag, published) /\ e.tag.epoch = e.token.epoch
=============================================================================
