---------------------------- MODULE RouteAdmission ----------------------------
(***************************************************************************)
(* Route sessions admitted by anchor.  A device holds a main session at    *)
(* one exit on a token; the API leases the token's serial to that exit.    *)
(* The device seals an anchor secret to the API's route key and registers  *)
(* it through its main exit; it opens route sessions at other exits with   *)
(* locators, the same secret sealed for one exit each, and the API admits  *)
(* at most max_routes of them while the anchor lives.  The anchor outlives *)
(* a main that reconnects.  The API keeps anchors and route leases in      *)
(* memory, restarts, and rotates its route key; answers are lost.          *)
(*                                                                         *)
(* One device is modelled: anchors do not interact.  The API, the exits    *)
(* and the client are other repositories: what they do is what the request *)
(* and answer documents of src/dto.rs require of them.  The ledger of      *)
(* token leases survives a restart of the API.                             *)
(***************************************************************************)
EXTENDS RouteKem, FiniteSets

CONSTANTS
  Exits,
  Server, Foreign,  \* the server key clients pin, and another
  MaxRoutes,        \* R
  AnchorTtl, RouteTtl, RestoreWindow, Validity,
  MaxKey,           \* bound on the route keys
  MaxTime           \* bound on the clock

\* A locator sealed for one exit, and what that exit makes of it.
Locator == [kem_key_id : Nat, kem_pubkey : Nat, bound_to : Exits]
RouteSession == [locator : Locator, state : {"asking", "admitted", "resubmit"}]

ASSUME RouteAssumption ==
  /\ Server \in ServerKeys /\ Foreign \in ServerKeys \ {Server}
  /\ {MaxRoutes, AnchorTtl, RouteTtl, RestoreWindow, Validity, MaxKey}
       \subseteq Nat \ {0}
  /\ MaxTime \in Nat

ASSUME NoneAssumption == None \notin Exits \cup RouteSession

VARIABLES
  now,
  key,        \* id of the route key in force
  vouched,    \* until when the API ever vouched for each key
  block,      \* the block the client keeps, or None
  lease,      \* the exit the token's serial is leased to, or None
  anchor,     \* the API's anchor: [exit, until]
  routes,     \* until when the API leases a route to each exit
  restored,   \* end of the API's restore window
  main,       \* [exit, anchored]: the main session, or None
  session,    \* each exit's route session [locator, state], or None
  confirmed   \* when the API last confirmed the anchor to its main exit

vars == <<now, key, vouched, block, lease, anchor, routes, restored, main, session,
          confirmed>>

Live(until) == now < until

ApiKey(k) == [kem_key_id |-> k, kem_pubkey |-> k]

\* The keys the API opens with: the one in force, and those clients may
\* still seal to.
Kept == {ApiKey(k) : k \in {key} \cup {j \in 1..MaxKey : now < vouched[j]}}

\* The block the API serves now.
Published ==
  Sign([version |-> ROUTE_ADMISSION_VERSION, kem_key_id |-> key, kem_pubkey |-> key,
        kem_signature |-> None],
       Server, now + Validity)

NoAnchor == [exit |-> None, until |-> 0]

Init ==
  /\ now = 0
  /\ key = 1 /\ vouched = [k \in 1..MaxKey |-> 0]
  /\ block = None
  /\ lease = None /\ anchor = NoAnchor
  /\ routes = [x \in Exits |-> 0]
  /\ restored = 0
  /\ main = None
  /\ session = [x \in Exits |-> None]
  /\ confirmed = 0

-----------------------------------------------------------------------------
(* The directory *)

(***************************************************************************)
(* What a fetch may bring: the API's block, the block of a server that has *)
(* a later version or does not sign, one whose expiry was edited, one with *)
(* a key of somebody else's, or something that does not parse.             *)
(***************************************************************************)
Served ==
  [form : {"json"},
   block : {Published,
            [Published EXCEPT !.version = 2],
            [Published EXCEPT !.kem_signature = None],
            [Published EXCEPT !.kem_signature.form = "not hex"],
            [Published EXCEPT !.kem_signature.valid_until = @ + 1],
            Sign([Published EXCEPT !.kem_pubkey = 0], Foreign, now + Validity)}]
  \cup {[form |-> "other", block |-> None]}

\* The client keeps a block it may seal to, and asks again before it seals.
FetchDirectory ==
  /\ \E s \in Served :
       block' = IF MaySeal(LenientBlock(s), {Server}, now) THEN s.block ELSE None
  /\ vouched' = [vouched EXCEPT ![key] = now + Validity]
  /\ UNCHANGED <<now, key, lease, anchor, routes, restored, main, session, confirmed>>

RotateKey ==
  /\ key < MaxKey
  /\ key' = key + 1
  /\ UNCHANGED <<now, vouched, block, lease, anchor, routes, restored, main, session,
                 confirmed>>

-----------------------------------------------------------------------------
(* The main session *)

\* The token's serial is leased to one exit at a time (`SerialInUse`).
Leasable(x) == lease \in {None, x}

OpenMain(x) ==
  /\ main = None
  /\ Leasable(x)
  /\ lease' = x
  /\ main' = [exit |-> x, anchored |-> FALSE]
  /\ UNCHANGED <<now, key, vouched, block, anchor, routes, restored, session, confirmed>>

\* The main session ends; its exit reports it (`SessionCloseRequest`), or
\* the report is lost.  There is no anchor close.
EndMain ==
  /\ main # None
  /\ main' = None
  /\ lease' \in {lease, None}
  /\ UNCHANGED <<now, key, vouched, block, anchor, routes, restored, session, confirmed>>

\* A lease nobody renewed lapses, with or without a session under it.
LapseLease ==
  /\ lease # None
  /\ lease' = None
  /\ UNCHANGED <<now, key, vouched, block, anchor, routes, restored, main, session,
                 confirmed>>

\* `RouteAnchorRefusal`
AnchorVerdict(x, blob) ==
  IF lease # x THEN "no_lease"
  ELSE IF ~OpensFor(blob, Kept, "serial") THEN "invalid_seal"
  ELSE "bound"

(***************************************************************************)
(* The client seals its secret for the token of the main session and the   *)
(* exit sends it (`SessionRouteAnchorRequest`): a first attach, a re-home  *)
(* or a confirmation.  The request or the answer may be lost, or the store *)
(* be full.  The exit of a session without a lease asks for a new token.   *)
(***************************************************************************)
RegisterAnchor ==
  /\ main # None /\ ~main.anchored
  /\ MaySeal(block, {Server}, now)
  /\ CASE AnchorVerdict(main.exit, SealedToApi(block, "serial")) = "bound" ->
            /\ anchor' = [exit |-> main.exit, until |-> now + AnchorTtl]
            /\ confirmed' = now
            /\ main' \in {main, [main EXCEPT !.anchored = TRUE]}
       [] AnchorVerdict(main.exit, SealedToApi(block, "serial")) = "no_lease" ->
            /\ main' = None
            /\ UNCHANGED <<anchor, confirmed>>
       [] OTHER -> UNCHANGED <<anchor, confirmed, main>>
  /\ UNCHANGED <<now, key, vouched, block, lease, routes, restored, session>>

\* The anchor serials of `SessionRouteRenewRequest`: one that is not
\* attached for the caller is unknown, and the client is told.
RenewAnchor ==
  /\ main # None /\ main.anchored
  /\ IF Live(anchor.until) /\ anchor.exit = main.exit
     THEN /\ anchor' = [anchor EXCEPT !.until = now + AnchorTtl]
          /\ confirmed' = now
          /\ UNCHANGED main
     ELSE /\ main' = [main EXCEPT !.anchored = FALSE]
          /\ UNCHANGED <<anchor, confirmed>>
  /\ UNCHANGED <<now, key, vouched, block, lease, routes, restored, session>>

-----------------------------------------------------------------------------
(* Route sessions *)

\* The client presents itself at exit x with a locator sealed for exit y:
\* the same exit, unless the connection was steered to another.
PresentLocator(x, y) ==
  /\ session[x] = None
  /\ MaySeal(block, {Server}, now)
  /\ session' = [session EXCEPT ![x] =
       [locator |-> SealedToApi(block, y), state |-> "asking"]]
  /\ UNCHANGED <<now, key, vouched, block, lease, anchor, routes, restored, main,
                 confirmed>>

Held(x) == Cardinality({y \in Exits \ {x} : Live(routes[y])})

\* A restart is told from an anchor that is gone only when there is none.
SlipNoRestoreWindow(x, blob) ==
  IF ~OpensFor(blob, Kept, x) THEN "invalid_locator"
  ELSE IF ~Live(anchor.until) THEN "anchor_unknown"
  ELSE IF Held(x) >= MaxRoutes THEN "route_limit"
  ELSE "admitted"

\* A locator answered as if the restore window never ended.
SlipRestoresForEver(x, blob) ==
  IF ~OpensFor(blob, Kept, x) THEN "invalid_locator"
  ELSE IF ~Live(anchor.until) THEN "restoring"
  ELSE IF Held(x) >= MaxRoutes THEN "route_limit"
  ELSE "admitted"

\* `RouteOpenRefusal`; a lease the caller holds does not count against it.
RouteVerdict(x, blob) ==
  IF ~OpensFor(blob, Kept, x) THEN "invalid_locator"
  ELSE IF ~Live(anchor.until)
       THEN IF now < restored THEN "restoring" ELSE "anchor_unknown"
  ELSE IF Held(x) >= MaxRoutes THEN "route_limit"
  ELSE "admitted"

\* What the exit makes of the answer.
AfterVerdict(s, verdict) ==
  IF verdict = "admitted" THEN [s EXCEPT !.state = "admitted"]
  ELSE IF verdict = "restoring" THEN s
  ELSE None

(***************************************************************************)
(* `SessionRouteOpenRequest`, for a new session or with the locator the    *)
(* exit retained; the answer may be lost.                                  *)
(***************************************************************************)
OpenRoute(x, heard) ==
  /\ session[x] # None /\ session[x].state # "admitted"
  /\ LET verdict == RouteVerdict(x, session[x].locator)
     IN  /\ routes' = IF verdict = "admitted"
                      THEN [routes EXCEPT ![x] = now + RouteTtl] ELSE routes
         /\ session' = IF heard
                       THEN [session EXCEPT ![x] = AfterVerdict(@, verdict)] ELSE session
  /\ UNCHANGED <<now, key, vouched, block, lease, anchor, restored, main, confirmed>>

\* The route serials of `SessionRouteRenewRequest`: an exit that holds no
\* lease submits its locator again.
RenewRoute(x) ==
  /\ session[x] # None /\ session[x].state = "admitted"
  /\ IF Live(routes[x])
     THEN /\ routes' = [routes EXCEPT ![x] = now + RouteTtl]
          /\ UNCHANGED session
     ELSE /\ session' = [session EXCEPT ![x].state = "resubmit"]
          /\ UNCHANGED routes
  /\ UNCHANGED <<now, key, vouched, block, lease, anchor, restored, main, confirmed>>

\* `SessionRouteCloseRequest`, idempotent, or lost.
CloseRoute(x) ==
  /\ session[x] # None
  /\ session' = [session EXCEPT ![x] = None]
  /\ routes' \in {routes, [routes EXCEPT ![x] = 0]}
  /\ UNCHANGED <<now, key, vouched, block, lease, anchor, restored, main, confirmed>>

-----------------------------------------------------------------------------
(* The API restarts; time passes *)

Restart ==
  /\ anchor' = NoAnchor
  /\ routes' = [x \in Exits |-> 0]
  /\ restored' = now + RestoreWindow
  /\ UNCHANGED <<now, key, vouched, block, lease, main, session, confirmed>>

\* The API drops what has lapsed: a route lease no later than its anchor.
Tick ==
  /\ now < MaxTime
  /\ now' = now + 1
  /\ LET lives == anchor.until > now + 1
     IN  /\ anchor' = IF lives THEN anchor ELSE NoAnchor
         /\ routes' = [x \in Exits |->
                         IF lives /\ routes[x] > now + 1 THEN routes[x] ELSE 0]
  /\ UNCHANGED <<key, vouched, block, lease, restored, main, session, confirmed>>

Next ==
  \/ FetchDirectory \/ RotateKey
  \/ EndMain \/ LapseLease \/ RegisterAnchor \/ RenewAnchor
  \/ \E x \in Exits :
       \/ OpenMain(x)
       \/ RenewRoute(x)
       \/ CloseRoute(x)
       \/ \E y \in Exits : PresentLocator(x, y)
       \/ \E heard \in BOOLEAN : OpenRoute(x, heard)
  \/ Restart
  \/ Tick

Spec == Init /\ [][Next]_vars

\* Exits renew on every renewal tick, and an answer gets through at last.
FairSpec == Spec /\ \A x \in Exits : WF_vars(RenewRoute(x)) /\ WF_vars(OpenRoute(x, TRUE))

-----------------------------------------------------------------------------
(* Properties *)

(***************************************************************************)
(* What a device seals, it seals to a key of the API, at a time the API    *)
(* vouched for it: not to the key of whoever served the directory, nor     *)
(* after the signature lapsed, however long the block sat in a cache.      *)
(***************************************************************************)
SealedToVouchedKey ==
  [][\A x \in Exits :
       session'[x] # None /\ session[x] = None
       => /\ session'[x].locator.kem_pubkey \in 1..key
          /\ now < vouched[session'[x].locator.kem_pubkey]]_vars

(***************************************************************************)
(* A route session that ran is not lost to a restart of the API or to a    *)
(* main that reconnects: unless the client or the limit ends it, or the    *)
(* API no longer has its key, it ends only when the anchor has been        *)
(* without confirmation for a whole anchor lifetime or restore window.     *)
(***************************************************************************)
Lesser(a, b) == IF a < b THEN a ELSE b

OutlivesRestart ==
  [][\A x \in Exits :
       /\ session[x] # None /\ session[x].state = "resubmit"
       /\ OpenRoute(x, TRUE) /\ session'[x] = None
       => \/ now >= confirmed + Lesser(AnchorTtl, RestoreWindow)
          \/ Held(x) >= MaxRoutes
          \/ ApiKey(session[x].locator.kem_key_id) \notin Kept]_vars

(***************************************************************************)
(* When the anchor is gone for good, every route session ends: no exit     *)
(* serves for ever on a dead anchor.                                       *)
(***************************************************************************)
AnchorGone == ~Live(anchor.until) /\ now >= restored

RoutesEndWithAnchor ==
  <>[]AnchorGone => \A x \in Exits : []<>(session[x] = None)
=============================================================================
