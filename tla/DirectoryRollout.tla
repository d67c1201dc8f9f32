--------------------------- MODULE DirectoryRollout ---------------------------
(***************************************************************************)
(* The multi-hop directory in the field.  The operator posts drafts minted *)
(* offline, some of them half re-minted or re-attested; the API server, of *)
(* some build, gates them, keeps the last one, overlays the edge pins its  *)
(* exits heartbeat, and serves the result on two routes: /v1, whose shape  *)
(* is frozen, and /v2, which carries every field.  Clients of several      *)
(* builds fetch what either route or a cache gives them.  Keys rotate.     *)
(*                                                                         *)
(* What is the API server's own (posting, overlaying, which fields /v1     *)
(* omits) is modelled from what the docs of this crate require of it; so   *)
(* are the client's generation check and its choice of route.              *)
(***************************************************************************)
EXTENDS DirectoryChain

CONSTANTS
  Clients,
  ClientBuilds,   \* the builds clients run
  ServerBuilds,   \* the field sets of the builds the server runs
  FrozenFields,   \* the fields of the /v1 shape
  Drafts,         \* [nodes, op, root] the operator may post
  Keys,           \* online keys
  Pins,           \* what an exit may heartbeat: "hex", "malformed"
  Forms,          \* what transport may do to the text
  MaxDrafts,      \* bound on drafts
  MaxServed       \* bound on the served documents still in a cache

(***************************************************************************)
(* The ML-KEM key is older than the /v2 route: every field since then, the *)
(* second address family first, is left to /v2.                            *)
(***************************************************************************)
ASSUME RolloutAssumption ==
  /\ Drafts \subseteq [nodes : Seq(Node), op : OpKeys, root : Roots]
  /\ "mlkem" \in FrozenFields
  /\ Pins \subseteq {"hex", "malformed"}
  /\ MaxDrafts \in Nat /\ MaxServed \in Nat

VARIABLES
  server,  \* the optional fields of the server's structs
  key,     \* the online key in use
  posted,  \* the accepted drafts; the generation is the index
  pin,     \* the pin every exit heartbeats, or "none"
  served,  \* [route, doc]: the served documents that caches may replay
  build,   \* the build of each client
  dir      \* each client's verified directory and its route, or NoDirectory

rolloutVars == <<server, key, posted, pin, served, build, dir>>

RolloutTypeOK ==
  /\ server \in ServerBuilds
  /\ key \in Keys
  /\ posted \in Seq(Draft) /\ Len(posted) <= MaxDrafts
  /\ pin \in Pins \cup {"none"}
  /\ \A s \in served : s.route \in {"v1", "v2"} /\ s.doc.form = "intact" /\ s.doc.key \in Keys
  /\ build \in [Clients -> ClientBuilds]
  /\ dir \in [Clients -> [route : {"v1", "v2"}, got : Directory] \cup {NoDirectory}]

RolloutInit ==
  /\ server \in ServerBuilds
  /\ key \in Keys
  /\ posted = <<>>
  /\ pin = "none"
  /\ served = {}
  /\ build \in [Clients -> ClientBuilds]
  /\ dir = [c \in Clients |-> NoDirectory]

-----------------------------------------------------------------------------
(* The server *)

PostDraft(d) ==
  LET draft == [nodes |-> d.nodes, op |-> d.op, root |-> d.root,
                generation |-> Len(posted) + 1]
  IN  /\ Len(posted) < MaxDrafts
      /\ Lossless(server, d.nodes)
      /\ SelfConsistent(draft)
      /\ posted' = Append(posted, draft)
      /\ UNCHANGED <<server, key, pin, served, build, dir>>

Heartbeat(p) ==
  /\ pin' = p
  /\ UNCHANGED <<server, key, posted, served, build, dir>>

\* A server that models edge pins overlays the live one on every node.
Overlaid(nodes) ==
  IF "edge_pin" \in server
  THEN [i \in DOMAIN nodes |-> [nodes[i] EXCEPT !.pin = pin]]
  ELSE nodes

ClientView(nodes, fields) ==
  Redacted(Overlaid(ParsedAll(server \cap fields, nodes)))

\* A refused signature leaves the route without a new document.
Serve(route, fields) ==
  /\ posted # <<>>
  /\ LET draft == posted[Len(posted)]
         nodes == ClientView(draft.nodes, fields)
         added == [route |-> route, doc |-> Enveloped(nodes, draft, key)]
     IN  /\ PinsWellFormed(nodes)
         /\ Cardinality(served \cup {added}) <= MaxServed
         /\ served' = served \cup {added}
  /\ UNCHANGED <<server, key, posted, pin, build, dir>>

ServeV1 == Serve("v1", FrozenFields)
ServeV2 == Serve("v2", server)

(***************************************************************************)
(* Builds only move forward.  The draft is stored as it was posted, and    *)
(* the gate has passed judgement for the build of that day: a server       *)
(* rolled back below it would be lossy after all.                          *)
(***************************************************************************)
UpgradeServer(fields) ==
  /\ server \subseteq fields
  /\ server' = fields
  /\ UNCHANGED <<key, posted, pin, served, build, dir>>

\* A document leaves the last cache.
Evict(s) ==
  /\ served' = served \ {s}
  /\ UNCHANGED <<server, key, posted, pin, build, dir>>

RotateKey(k) ==
  /\ key' = k
  /\ UNCHANGED <<server, posted, pin, served, build, dir>>

-----------------------------------------------------------------------------
(* The clients *)

NotOlder(c, doc) == dir[c] # NoDirectory => dir[c].got.generation <= doc.generation

Fetch(c, s, form) ==
  LET doc == [s.doc EXCEPT !.form = form]
  IN  /\ Verdict(build[c], doc) = "ok"
      /\ NotOlder(c, doc)
      /\ dir' = [dir EXCEPT ![c] = [route |-> s.route, got |-> Verified(build[c], doc)]]
      /\ UNCHANGED <<server, key, posted, pin, served, build>>

UpgradeClient(c, b) ==
  /\ build' = [build EXCEPT ![c] = b]
  /\ dir' = [dir EXCEPT ![c] = NoDirectory]
  /\ UNCHANGED <<server, key, posted, pin, served>>

RolloutNext ==
  \/ \E d \in Drafts : PostDraft(d)
  \/ \E p \in Pins : Heartbeat(p)
  \/ ServeV1
  \/ ServeV2
  \/ \E f \in ServerBuilds : UpgradeServer(f)
  \/ \E k \in Keys : RotateKey(k)
  \/ \E s \in served : Evict(s)
  \/ \E c \in Clients, s \in served, f \in Forms : Fetch(c, s, f)
  \/ \E c \in Clients, b \in ClientBuilds : UpgradeClient(c, b)

RolloutSpec == RolloutInit /\ [][RolloutNext]_rolloutVars

-----------------------------------------------------------------------------
(* Properties *)

(***************************************************************************)
(* Between the operator's draft and a client no build drops anything on    *)
(* the sly: a client that accepts a directory has every node of the draft, *)
(* in order, with every field of the route it was served on, differing in  *)
(* nothing but the redacted exit endpoint and the overlaid pin.            *)
(***************************************************************************)
RouteFields(route, fields) ==
  IF route = "v1" THEN fields \cap FrozenFields ELSE fields

NothingLost ==
  \A c \in Clients :
    dir[c] # NoDirectory =>
      LET got  == dir[c].got
          sent == posted[got.generation]
      IN  /\ got.dropped = 0
          /\ got.op = sent.op
          /\ Len(got.nodes) = Len(sent.nodes)
          /\ \A i \in DOMAIN sent.nodes :
               got.nodes[i] =
                 [sent.nodes[i] EXCEPT !.exit_endpoint = FALSE,
                                       !.pin = got.nodes[i].pin,
                                       !.fields = RouteFields(dir[c].route, @)]

(***************************************************************************)
(* Client first: a served directory is accepted by every build that models *)
(* the fields it carries and trusts its server and its root key, whichever *)
(* operational key it was minted under; no gate lets a directory through   *)
(* that such a client refuses, or has to thin out.                         *)
(***************************************************************************)
Models(b, nodes) ==
  \A i \in DOMAIN nodes :
    /\ nodes[i].fields \subseteq b.fields
    /\ nodes[i].pin # "none" => "edge_pin" \in b.fields

ServedIsReadable ==
  \A s \in served, b \in ClientBuilds :
    /\ Models(b, s.doc.nodes)
    /\ PinAllows(b.pins, s.doc.key)
    /\ PinAllows(b.roots, s.doc.root)
    => Verdict(b, s.doc) = "ok" /\ Verified(b, s.doc).dropped = 0

(***************************************************************************)
(* What a dialing client relies on is what the operational key its pinned  *)
(* root certified has signed, through rotations, mixed signature           *)
(* generations and partial re-mints: a node is sealed for post-quantum     *)
(* exactly if it was minted so (no key merely carried is used, no minted   *)
(* one silently given up), and goes without in-tunnel DNS exactly if it    *)
(* was minted to.                                                          *)
(***************************************************************************)
DialMaterialIsBound ==
  \A c \in Clients :
    dir[c] # NoDirectory =>
      LET got == dir[c].got
      IN  \A i \in DOMAIN got.nodes :
            LET n      == got.nodes[i]
                minted == posted[got.generation].nodes[i].exit_sig
            IN  /\ SurfacesMlKem(got.op, n) <=> minted.context = "pq"
                /\ n.dns_off <=> minted.context \in {"v2", "pq"} /\ minted.dns
                /\ {n.relay_by, n.exit_sig.by, n.attestation.by} = {got.op}
=============================================================================
