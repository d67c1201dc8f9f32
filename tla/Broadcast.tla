------------------------------ MODULE Broadcast ------------------------------
(***************************************************************************)
(* The server-signed broadcast documents as operators                      *)
(* (warren-discovery/src/notices.rs, announcements.rs, forum_digest.rs,    *)
(* version_range.rs).  Notices and announcements carry items and share     *)
(* every rule, so the "items" channel stands for either; the "digest"      *)
(* channel carries one unread count per forum account.                     *)
(*                                                                         *)
(* An item is [id, min, max, expires_at]; min and max are client versions  *)
(* or None, expires_at a time or None.  A version is the sequence of its   *)
(* dotted parts, [num, suffix]: num is the number the part starts with, or *)
(* None if it starts with none, suffix whether anything follows the number *)
(* (a pre-release or a build tag).                                         *)
(***************************************************************************)
EXTENDS Integers, Sequences

CONSTANTS
  None,
  MaxComponent,     \* u64::MAX
  UnreadSaturated   \* UNREAD_SATURATED

ASSUME SaturatedAssumption == UnreadSaturated \in Nat
ASSUME ComponentAssumption == MaxComponent \in Nat
ASSUME BroadcastNoneAssumption == None \notin Nat

-----------------------------------------------------------------------------
(* Client versions *)

Version == Seq([num : Nat \cup {None}, suffix : BOOLEAN])

\* The parts that `numeric_components` visits and keeps.
NumericParts(v) ==
  {i \in DOMAIN v : /\ \A j \in 1..i : v[j].num # None
                    /\ \A j \in 1..(i - 1) : ~v[j].suffix}

Parses(v) ==
  /\ v # None
  /\ NumericParts(v) # {}
  /\ \A i \in NumericParts(v) : v[i].num <= MaxComponent

\* A missing trailing component reads as 0.
Component(v, i) == IF i \in NumericParts(v) THEN v[i].num ELSE 0

\* Missing components taken to end the comparison.
SlipShorterIsLess(v, w) ==
  \E i \in NumericParts(w) :
    /\ i \notin NumericParts(v) \/ Component(v, i) < Component(w, i)
    /\ \A j \in 1..(i - 1) : Component(v, j) = Component(w, j)

\* `cmp_version` is Less, for versions that parse.
Less(v, w) ==
  \E i \in NumericParts(v) \cup NumericParts(w) :
    /\ Component(v, i) < Component(w, i)
    /\ \A j \in 1..(i - 1) : Component(v, j) = Component(w, j)

(***************************************************************************)
(* `in_bounds`: both bounds are inclusive, and a range is not satisfied    *)
(* when it cannot be decided.                                              *)
(***************************************************************************)
InBounds(client, min, max) ==
  \/ min = None /\ max = None
  \/ /\ client # None
     /\ min # None => Parses(client) /\ Parses(min) /\ ~Less(client, min)
     /\ max # None => Parses(client) /\ Parses(max) /\ ~Less(max, client)

-----------------------------------------------------------------------------
(* The documents *)

\* A count past the last digit starts over.
SlipWraps(counts) == [s \in DOMAIN counts |-> counts[s] % (UnreadSaturated + 1)]

\* `pack_unread_counts`
Packed(counts) ==
  [s \in DOMAIN counts |->
     IF counts[s] <= UnreadSaturated THEN counts[s] ELSE UnreadSaturated]

(***************************************************************************)
(* `sign_notices`, `sign_announcements`, `sign_forum_digest`.  Keys and    *)
(* signatures are ideal.                                                   *)
(***************************************************************************)
Document(generation, body, signedAt, expiresAt, key) ==
  [generation |-> generation, body |-> body, signed_at |-> signedAt,
   expires_at |-> expiresAt, key |-> key]

(***************************************************************************)
(* `verify_..._any`, in the order of the checks.  form is what transport   *)
(* (or a server of another format) may have made of the document; "grown"  *)
(* is one signed over a field that the client's structs do not have,       *)
(* "bad_counts" a digest signed over something that is not hex digits.     *)
(***************************************************************************)
Verdict(form, doc, pins) ==
  IF form = "oversized" THEN "input-too-large"
  ELSE IF form = "not_json" THEN "json"
  ELSE IF form = "other_version" THEN "unsupported-version"
  ELSE IF pins # {} /\ doc.key \notin pins THEN "server-pubkey-mismatch"
  ELSE IF form = "bad_hex" THEN "invalid-hex"
  ELSE IF form = "off_curve" THEN "pubkey-not-on-curve"
  ELSE IF form = "grown" THEN "bad-signature"
  ELSE IF form = "bad_counts" THEN "invalid-counts"
  ELSE "ok"

\* `is_expired`
Expired(doc, clock) == clock >= doc.expires_at

\* The item's own lifetime taken for the only one.
SlipIgnoresEnvelopeExpiry(doc, clock, version) ==
  {i \in doc.body : /\ i.expires_at = None \/ i.expires_at > clock
                    /\ InBounds(version, i.min, i.max)}

\* `active_for`
ActiveFor(doc, clock, version) ==
  IF Expired(doc, clock) THEN {}
  ELSE {i \in doc.body : /\ i.expires_at = None \/ i.expires_at > clock
                         /\ InBounds(version, i.min, i.max)}

\* `unread_for`; slots are counted from 0.
UnreadFor(doc, clock, slot) ==
  IF Expired(doc, clock) \/ slot + 1 \notin DOMAIN doc.body THEN 0
  ELSE doc.body[slot + 1]
=============================================================================
