------------------------------- MODULE RouteKem -------------------------------
(***************************************************************************)
(* The signed route key (src/route_kem.rs) and what is sealed to it (the   *)
(* route-admission documents of src/dto.rs).                               *)
(*                                                                         *)
(* A block is what the token directory serves: the key, its id, the limit  *)
(* and the exits, with the server's signature over part of it.  Signatures *)
(* are ideal: one is the message it covers and the key it was made with.   *)
(* Keys stand for their own bytes.                                         *)
(***************************************************************************)
EXTENDS Integers

CONSTANTS
  None,
  ServerKeys   \* Ed25519 keys that may sign a block

ROUTE_ADMISSION_VERSION == 1

\* `signed_message`: the limit and the exits are not in it.
SignedMessage(block, valid_until) ==
  [version |-> block.version, kem_key_id |-> block.kem_key_id,
   kem_pubkey |-> block.kem_pubkey, valid_until |-> valid_until]

\* `sign`: a signature already there is ignored.
Sign(block, server_key, valid_until) ==
  [block EXCEPT !.kem_signature =
     [valid_until |-> valid_until, form |-> "hex",
      over |-> SignedMessage(block, valid_until), by |-> server_key]]

\* The expiry is read from the block and not from what was signed.
SlipExpiryUnsigned(block, pins, now) ==
  IF block.kem_signature = None THEN "unsigned"
  ELSE IF block.kem_signature.form # "hex" THEN "malformed"
  ELSE IF now >= block.kem_signature.valid_until THEN "expired"
  ELSE IF \E pin \in pins :
            /\ block.kem_signature.by = pin
            /\ block.kem_signature.over.kem_pubkey = block.kem_pubkey
       THEN "ok"
  ELSE "bad-signature"

(***************************************************************************)
(* `verify`, its refusals in their order.  A pin that does not decode      *)
(* matches no signature.                                                   *)
(***************************************************************************)
VerifyKem(block, pins, now) ==
  IF block.kem_signature = None THEN "unsigned"
  ELSE IF block.kem_signature.form # "hex" THEN "malformed"
  ELSE IF now >= block.kem_signature.valid_until THEN "expired"
  ELSE IF pins = {} THEN "no-pinned-key"
  ELSE IF /\ block.kem_signature.by \in pins
          /\ block.kem_signature.over
               = SignedMessage(block, block.kem_signature.valid_until)
       THEN "ok"
  ELSE "bad-signature"

(***************************************************************************)
(* `lenient_route_admission`: a block that does not parse reads as absent, *)
(* and the rest of the directory stands.                                   *)
(***************************************************************************)
LenientBlock(served) == IF served.form = "json" THEN served.block ELSE None

\* A client seals to the key of a block of its version that is vouched for.
MaySeal(block, pins, now) ==
  /\ block # None
  /\ block.version = ROUTE_ADMISSION_VERSION
  /\ VerifyKem(block, pins, now) = "ok"

\* `SealedToApiBlob`: the id names the key to open it with; the associated
\* data is not in it, the API rebuilds it.
SealedToApi(block, bound_to) ==
  [kem_key_id |-> block.kem_key_id, kem_pubkey |-> block.kem_pubkey,
   bound_to |-> bound_to]

OpensFor(blob, keys, bound_to) ==
  /\ \E k \in keys : k.kem_key_id = blob.kem_key_id /\ k.kem_pubkey = blob.kem_pubkey
  /\ blob.bound_to = bound_to
=============================================================================
