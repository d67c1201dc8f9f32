------------------------------ MODULE ListTrust ------------------------------
(***************************************************************************)
(* The relay list and the roster in the field: an API server of some build *)
(* publishes generation after generation under the online key of the       *)
(* moment, the operator's offline key publishes rosters on its own         *)
(* schedule, and clients of several builds fetch whatever a cache still    *)
(* holds, in any order, some of it decorated or damaged on the way.        *)
(* Servers and clients are upgraded independently.                         *)
(*                                                                         *)
(* The generation check is the caller's in the code (signed.rs says it     *)
(* MUST be made); Fetch makes it.  So is the emit gate: Publish makes it,  *)
(* PublishUngated stands for a server that does not.                       *)
(***************************************************************************)
EXTENDS SignedList, Sequences

CONSTANTS
  Clients,
  ClientBuilds,   \* the builds clients run
  SignerFields,   \* the field sets of the builds the server runs
  Bodies,         \* [relays, malformed] a generation may carry
  FieldSets,      \* sets of optional fields a publication may populate
  Rosters,        \* rosters the offline key may sign
  Forms,          \* what transport may do to the text
  None,
  MaxGeneration   \* bound on publications

ASSUME ClientBuildsAssumption == ClientBuilds \subseteq Build
ASSUME SignerAssumption ==
  /\ SignerFields \subseteq SUBSET AllFields
  /\ FieldSets \subseteq SUBSET AllFields
ASSUME GenerationAssumption == MaxGeneration \in Nat
ASSUME BodiesAssumption == \A b \in Bodies : b.malformed \in BOOLEAN

VARIABLES
  signer,    \* the optional fields of the server's structs
  key,       \* the online key in use
  wires,     \* the documents published; the generation is the index
  gated,     \* the generations that passed the emit gate
  build,     \* the build of each client
  held,      \* the list each client uses: [generation, fields, body], or None
  attested   \* the roster each client uses

vars == <<signer, key, wires, gated, build, held, attested>>

Generations == DOMAIN wires

Documents ==
  {Signed(v, b, f, k) : v \in {10, 11}, b \in Bodies, f \in FieldSets, k \in Keys}

HeldList == [generation : 1..MaxGeneration, fields : SUBSET AllFields, body : Bodies]

TypeOK ==
  /\ signer \in SignerFields
  /\ key \in Keys
  /\ wires \in Seq(Documents)
  /\ Len(wires) <= MaxGeneration
  /\ gated \subseteq Generations
  /\ build \in [Clients -> ClientBuilds]
  /\ held \in [Clients -> HeldList \cup {None}]
  /\ attested \in [Clients -> Rosters]

Init ==
  /\ signer \in SignerFields
  /\ key \in Keys
  /\ wires = <<>>
  /\ gated = {}
  /\ build \in [Clients -> ClientBuilds]
  /\ held = [c \in Clients |-> None]
  /\ attested \in [Clients -> Rosters]

-----------------------------------------------------------------------------
(* The server *)

Emit(version, body, fields) ==
  /\ Len(wires) < MaxGeneration
  /\ fields \subseteq signer
  /\ wires' = Append(wires, Signed(version, body, fields, key))
  /\ UNCHANGED <<signer, key, build, held, attested>>

Publish(version, body, fields) ==
  /\ UnknownSignedFields(version, fields) = {}
  /\ Emit(version, body, fields)
  /\ gated' = gated \cup {Len(wires) + 1}

PublishUngated(version, body, fields) ==
  /\ UnknownSignedFields(version, fields) # {}
  /\ Emit(version, body, fields)
  /\ gated' = gated

UpgradeServer(fields) ==
  /\ signer' = fields
  /\ UNCHANGED <<key, wires, gated, build, held, attested>>

RotateKey(k) ==
  /\ key' = k
  /\ UNCHANGED <<signer, wires, gated, build, held, attested>>

-----------------------------------------------------------------------------
(* The clients *)

Newer(c, g) == held[c] # None => held[c].generation <= g

Fetch(c, g, extra, form) ==
  LET wire == [Decorated(wires[g], extra) EXCEPT !.form = form]
  IN  /\ Verdict(build[c], wire) = "ok"
      /\ Newer(c, g)
      /\ held' = [held EXCEPT ![c] = [generation |-> g,
                                      fields     |-> Parsed(build[c], wire),
                                      body       |-> wire.body]]
      /\ UNCHANGED <<signer, key, wires, gated, build, attested>>

FetchRoster(c, r) ==
  /\ attested' = [attested EXCEPT ![c] = r]
  /\ UNCHANGED <<signer, key, wires, gated, build, held>>

\* A restart into another build; what it held is fetched again.
UpgradeClient(c, b) ==
  /\ build' = [build EXCEPT ![c] = b]
  /\ held' = [held EXCEPT ![c] = None]
  /\ UNCHANGED <<signer, key, wires, gated, attested>>

Next ==
  \/ \E v \in {10, 11}, b \in Bodies, f \in FieldSets :
       Publish(v, b, f) \/ PublishUngated(v, b, f)
  \/ \E f \in SignerFields : UpgradeServer(f)
  \/ \E k \in Keys : RotateKey(k)
  \/ \E c \in Clients, g \in Generations, x \in FieldSets, f \in Forms :
       Fetch(c, g, x, f)
  \/ \E c \in Clients, r \in Rosters : FetchRoster(c, r)
  \/ \E c \in Clients, b \in ClientBuilds : UpgradeClient(c, b)

Spec == Init /\ [][Next]_vars

\* The relays a client may dial.
Usable(c) ==
  IF held[c] = None THEN {} ELSE Authorized(attested[c], held[c].body.relays)

-----------------------------------------------------------------------------
(* Properties *)

(***************************************************************************)
(* Schema skew, key rotation and caches never cause an outage behind the   *)
(* emit gate: a document that passed it is accepted by every build that    *)
(* has the schema of its version and pins its key, whichever server build  *)
(* signed it and whatever fields unknown to the client were added on its   *)
(* way, unless it carries a malformed node.                                *)
(***************************************************************************)
Implements(b, version) == version \in b.versions /\ Covered(version) \subseteq b.fields

GatedIsReadable ==
  \A g \in gated, b \in ClientBuilds :
    /\ Implements(b, wires[g].version)
    /\ PinAllows(b.pins, wires[g].key)
    /\ ~wires[g].body.malformed
    => \A extra \in SUBSET (AllFields \ b.fields) :
         Verdict(b, Decorated(wires[g], extra)) = "ok"

(***************************************************************************)
(* A document that slipped past the gate fails with a reason that says so: *)
(* no build with the schema of its version ever reports a mere bad         *)
(* signature for an undamaged document, so an operator can tell skew from  *)
(* tampering.                                                              *)
(***************************************************************************)
SkewIsNamed ==
  \A g \in Generations, b \in ClientBuilds :
    Implements(b, wires[g].version) => Verdict(b, wires[g]) # "bad-signature"

\* What a client acts on is exactly what one publication signed.
HeldIsSigned ==
  \A c \in Clients :
    held[c] # None =>
      LET signature == wires[held[c].generation].signature
      IN  held[c].fields = signature.fields /\ held[c].body = signature.body

(***************************************************************************)
(* The whole machine, with its builds, schemas, keys and caches, is the    *)
(* TrustedDocument that clients rely on.  A step that lets a client act on *)
(* anything but one publication (a field added on the way, or the loss of  *)
(* one it does not know), or go back behind the one it has, is none of     *)
(* TrustedDocument's.                                                      *)
(***************************************************************************)
SignedAs(g) ==
  [generation |-> g,
   fields     |-> wires[g].signature.fields,
   body       |-> wires[g].signature.body]

Trusted == INSTANCE TrustedDocument WITH
  Documents <- HeldList,
  issued    <- {SignedAs(g) : g \in Generations},
  view      <- held

IsTrustedDocument == Trusted!Spec

(***************************************************************************)
(* List and roster are of different ages in general (a node is re-keyed or *)
(* moved between them), yet a client never has two ways to read one exit   *)
(* id: its usable relays name an exit with one key in one place, the one   *)
(* of the roster.                                                          *)
(***************************************************************************)
OneReadingPerExit ==
  \A c \in Clients :
    \A r, s \in Usable(c) : r.exit_id = s.exit_id => r = s
=============================================================================
