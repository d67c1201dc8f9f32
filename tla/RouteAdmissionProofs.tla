------------------------- MODULE RouteAdmissionProofs -------------------------
(***************************************************************************)
(* Proofs about RouteAdmission, for every set of exits, every limit and    *)
(* every lifetime.                                                         *)
(***************************************************************************)
EXTENDS RouteAdmission, TLAPS

RouteTypeOK ==
  /\ now \in Nat
  /\ key \in 1..MaxKey
  /\ vouched \in [1..MaxKey -> Nat]
  /\ anchor \in [exit : Exits \cup {None}, until : Nat]
  /\ restored \in Nat
  /\ confirmed \in 0..now
  /\ main \in [exit : Exits, anchored : BOOLEAN] \cup {None}
  /\ session \in [Exits -> RouteSession \cup {None}]

\* The API never vouches for a key beyond the validity of its signatures.
VouchedInv == \A k \in 1..MaxKey : vouched[k] <= now + Validity

\* A block the client kept was signed by the API for a key it vouched for
\* at least as long as the block says.
BlockInv ==
  block # None =>
    /\ block.kem_pubkey \in 1..key
    /\ block.kem_key_id = block.kem_pubkey
    /\ block.kem_signature.valid_until \in Nat
    /\ block.kem_signature.valid_until <= vouched[block.kem_pubkey]

\* A session that was admitted holds a locator sealed for its own exit.
SessionInv ==
  \A x \in Exits :
    session[x] # None =>
      /\ session[x].locator.kem_key_id = session[x].locator.kem_pubkey
      /\ session[x].state # "asking" => session[x].locator.bound_to = x

\* An anchor lives a lifetime from its confirmation; once a route was
\* admitted it dies of age or in a restart no earlier than that.
AnchorInv ==
  /\ Live(anchor.until) => anchor.until = confirmed + AnchorTtl
  /\ \/ Live(anchor.until)
     \/ now >= confirmed + AnchorTtl
     \/ restored >= confirmed + RestoreWindow
     \/ \A x \in Exits : session[x] # None => session[x].state = "asking"

RouteInv ==
  /\ RouteTypeOK
  /\ VouchedInv
  /\ BlockInv
  /\ SessionInv
  /\ AnchorInv

vouchVars == <<now, key, vouched, block>>
anchorVars == <<now, anchor, restored, confirmed>>

LEMMA Numbers ==
  /\ MaxRoutes \in Nat \ {0} /\ AnchorTtl \in Nat \ {0} /\ RestoreWindow \in Nat \ {0}
  /\ Validity \in Nat \ {0} /\ MaxKey \in Nat \ {0}
  /\ Foreign # Server
BY RouteAssumption

-----------------------------------------------------------------------------
(* Blocks *)

\* What a fetch brings is kept only if it is the block the API signed.
LEMMA OnlyThePublished ==
  ASSUME NEW s \in Served, MaySeal(LenientBlock(s), {Server}, now),
         now \in Nat, key \in 1..MaxKey
  PROVE  s.block = Published
<1> DEFINE P == Published
<1>0. /\ P.version = 1 /\ P.kem_key_id = key /\ P.kem_pubkey = key
      /\ P = [version |-> 1, kem_key_id |-> key, kem_pubkey |-> key,
              kem_signature |-> P.kem_signature]
      /\ P.kem_signature =
           [valid_until |-> now + Validity, form |-> "hex", by |-> Server,
            over |-> [version |-> 1, kem_key_id |-> key, kem_pubkey |-> key,
                      valid_until |-> now + Validity]]
  BY DEF Published, Sign, SignedMessage, ROUTE_ADMISSION_VERSION
<1>1. now + Validity \in Nat
  BY Numbers
<1>2. s.form = "json" /\ MaySeal(s.block, {Server}, now)
  BY DEF LenientBlock, MaySeal
<1>3. s.block.version = 1 /\ VerifyKem(s.block, {Server}, now) = "ok"
  BY <1>2 DEF MaySeal, ROUTE_ADMISSION_VERSION
<1>4. /\ s.block.kem_signature # None /\ s.block.kem_signature.form = "hex"
      /\ s.block.kem_signature.by \in {Server}
      /\ s.block.kem_signature.over
           = SignedMessage(s.block, s.block.kem_signature.valid_until)
  BY <1>3 DEF VerifyKem
<1> DEFINE Blocks ==
             {P, [P EXCEPT !.version = 2], [P EXCEPT !.kem_signature = None],
              [P EXCEPT !.kem_signature.form = "not hex"],
              [P EXCEPT !.kem_signature.valid_until = @ + 1],
              Sign([P EXCEPT !.kem_pubkey = 0], Foreign, now + Validity)}
<1>5. s \in [form : {"json"}, block : Blocks] \cup {[form |-> "other", block |-> None]}
  BY DEF Served
<1>6. s.block \in Blocks
  <2> HIDE DEF Blocks
  <2> QED  BY <1>2, <1>5
<1> HIDE DEF P
<1>7. s.block # [P EXCEPT !.version = 2]
  BY <1>0, <1>3
<1>8. s.block # [P EXCEPT !.kem_signature = None]
  BY <1>0, <1>4
<1>9. s.block # [P EXCEPT !.kem_signature.form = "not hex"]
  BY <1>0, <1>4
<1>10. s.block # [P EXCEPT !.kem_signature.valid_until = @ + 1]
  BY <1>0, <1>1, <1>4 DEF SignedMessage
<1>11. s.block # Sign([P EXCEPT !.kem_pubkey = 0], Foreign, now + Validity)
  <2>1. Sign([P EXCEPT !.kem_pubkey = 0], Foreign, now + Validity).kem_signature.by
          = Foreign
    BY <1>0 DEF Sign
  <2> QED  BY <1>4, <2>1, Numbers
<1>12. s.block = P
  BY <1>6, <1>7, <1>8, <1>9, <1>10, <1>11
<1> QED  BY <1>12 DEF P

\* The client seals, at any time, to a key that is still vouched for.
LEMMA SealsToVouched ==
  ASSUME RouteTypeOK, BlockInv, MaySeal(block, {Server}, now)
  PROVE  /\ block.kem_pubkey \in 1..key
         /\ block.kem_key_id = block.kem_pubkey
         /\ now < vouched[block.kem_pubkey]
<1>1. block # None /\ VerifyKem(block, {Server}, now) = "ok"
  BY DEF MaySeal
<1>2. ~(now >= block.kem_signature.valid_until)
  BY <1>1 DEF VerifyKem
<1>3. vouched[block.kem_pubkey] \in Nat
  BY <1>1, Numbers DEF RouteTypeOK, BlockInv
<1> QED  BY <1>1, <1>2, <1>3 DEF BlockInv, RouteTypeOK

-----------------------------------------------------------------------------
(* The invariant holds at the start, and every step keeps it *)

LEMMA RouteInitially == Init => RouteInv
<1> SUFFICES ASSUME Init PROVE RouteInv
  OBVIOUS
<1>1. RouteTypeOK
  BY Numbers DEF Init, RouteTypeOK, NoAnchor
<1>2. VouchedInv /\ BlockInv /\ SessionInv /\ AnchorInv
  BY Numbers DEF Init, VouchedInv, BlockInv, SessionInv, AnchorInv, Live,
                         NoAnchor
<1> QED  BY <1>1, <1>2 DEF RouteInv

LEMMA TypeStep ==
  ASSUME RouteInv, [Next]_vars
  PROVE  RouteTypeOK'
<1> USE Numbers
<1>0. RouteTypeOK
  BY DEF RouteInv
<1>1. CASE FetchDirectory
  BY <1>0, <1>1 DEF FetchDirectory, RouteTypeOK
<1>2. CASE RotateKey
  BY <1>0, <1>2 DEF RotateKey, RouteTypeOK
<1>3. CASE EndMain \/ LapseLease
  BY <1>0, <1>3 DEF EndMain, LapseLease, RouteTypeOK
<1>4. CASE RegisterAnchor
  <2>1. main \in [exit : Exits, anchored : BOOLEAN]
    BY <1>0, <1>4 DEF RegisterAnchor, RouteTypeOK
  <2>2. /\ main' \in [exit : Exits, anchored : BOOLEAN] \cup {None}
        /\ \/ UNCHANGED <<anchor, confirmed>>
           \/ anchor' = [exit |-> main.exit, until |-> now + AnchorTtl] /\ confirmed' = now
        /\ UNCHANGED <<now, key, vouched, restored, session>>
    BY <1>4, <2>1 DEF RegisterAnchor
  <2>3. anchor' \in [exit : Exits \cup {None}, until : Nat] /\ confirmed' \in 0..now'
    BY <1>0, <2>1, <2>2 DEF RouteTypeOK
  <2> QED  BY <1>0, <2>2, <2>3 DEF RouteTypeOK
<1>5. CASE RenewAnchor
  <2>1. main \in [exit : Exits, anchored : BOOLEAN]
    BY <1>0, <1>5 DEF RenewAnchor, RouteTypeOK
  <2>2. /\ main' \in [exit : Exits, anchored : BOOLEAN]
        /\ \/ UNCHANGED <<anchor, confirmed>>
           \/ anchor' = [anchor EXCEPT !.until = now + AnchorTtl] /\ confirmed' = now
        /\ UNCHANGED <<now, key, vouched, restored, session>>
    BY <1>5, <2>1 DEF RenewAnchor
  <2>3. anchor' \in [exit : Exits \cup {None}, until : Nat] /\ confirmed' \in 0..now'
    BY <1>0, <2>2 DEF RouteTypeOK
  <2> QED  BY <1>0, <2>1, <2>2, <2>3 DEF RouteTypeOK
<1>6. ASSUME NEW x \in Exits, OpenMain(x) \/ RenewRoute(x) \/ CloseRoute(x)
      PROVE  RouteTypeOK'
  <2>1. CASE OpenMain(x)
    BY <1>0, <2>1 DEF OpenMain, RouteTypeOK
  <2>2. CASE RenewRoute(x)
    <3>1. session[x] \in RouteSession
      BY <1>0, <2>2 DEF RenewRoute, RouteTypeOK
    <3>2. [session[x] EXCEPT !.state = "resubmit"] \in RouteSession
      BY <3>1 DEF RouteSession
    <3> QED  BY <1>0, <2>2, <3>2 DEF RenewRoute, RouteTypeOK
  <2>3. CASE CloseRoute(x)
    BY <1>0, <2>3 DEF CloseRoute, RouteTypeOK
  <2> QED  BY <1>6, <2>1, <2>2, <2>3
<1>7. ASSUME NEW x \in Exits, NEW y \in Exits, PresentLocator(x, y)
      PROVE  RouteTypeOK'
  <2>1. SealedToApi(block, y) \in Locator
    BY <1>0, <1>7, SealsToVouched DEF PresentLocator, SealedToApi, Locator, RouteInv
  <2>2. /\ UNCHANGED <<now, key, vouched, anchor, restored, main, confirmed>>
        /\ session' = [session EXCEPT ![x] =
             [locator |-> SealedToApi(block, y), state |-> "asking"]]
    BY <1>7 DEF PresentLocator
  <2>3. [locator |-> SealedToApi(block, y), state |-> "asking"] \in RouteSession
    BY <2>1 DEF RouteSession
  <2> QED  BY <1>0, <2>2, <2>3 DEF RouteTypeOK
<1>8. ASSUME NEW x \in Exits, NEW heard \in BOOLEAN, OpenRoute(x, heard)
      PROVE  RouteTypeOK'
  <2>1. \A v : AfterVerdict(session[x], v) \in RouteSession \cup {None}
    BY <1>0, <1>8 DEF OpenRoute, AfterVerdict, RouteTypeOK, RouteSession
  <2> QED  BY <1>0, <1>8, <2>1 DEF OpenRoute, RouteTypeOK
<1>9. CASE Restart \/ Tick
  <2>1. NoAnchor \in [exit : Exits \cup {None}, until : Nat]
    BY DEF NoAnchor
  <2>2. /\ anchor' \in {anchor, NoAnchor} /\ now' \in {now, now + 1}
        /\ restored' \in {restored, now + RestoreWindow}
        /\ UNCHANGED <<key, vouched, main, session, confirmed>>
    BY <1>9 DEF Restart, Tick
  <2>3. now \in Nat /\ restored' \in Nat /\ confirmed \in 0..now'
    BY <1>0, <2>2 DEF RouteTypeOK
  <2> QED  BY <1>0, <2>1, <2>2, <2>3 DEF RouteTypeOK
<1>10. CASE UNCHANGED vars
  BY <1>0, <1>10 DEF vars, RouteTypeOK
<1> QED  BY <1>1, <1>2, <1>3, <1>4, <1>5, <1>6, <1>7, <1>8, <1>9, <1>10 DEF Next

LEMMA VouchStep ==
  ASSUME RouteInv, [Next]_vars
  PROVE  VouchedInv' /\ BlockInv'
<1> USE Numbers
<1>0. RouteTypeOK /\ VouchedInv /\ BlockInv
  BY DEF RouteInv
<1>1. CASE FetchDirectory
  <2>1. PICK s \in Served :
          block' = IF MaySeal(LenientBlock(s), {Server}, now) THEN s.block ELSE None
    BY <1>1 DEF FetchDirectory
  <2>2. /\ vouched' = [vouched EXCEPT ![key] = now + Validity]
        /\ now' = now /\ key' = key
    BY <1>1 DEF FetchDirectory
  <2>3. CASE MaySeal(LenientBlock(s), {Server}, now)
    <3>1. block' = Published
      BY <1>0, <2>1, <2>3, OnlyThePublished DEF RouteTypeOK
    <3>2. /\ block'.kem_pubkey = key /\ block'.kem_key_id = key
          /\ block'.kem_signature.valid_until = now + Validity
      BY <3>1 DEF Published, Sign
    <3> QED  BY <1>0, <2>2, <3>2 DEF RouteTypeOK, VouchedInv, BlockInv
  <2>4. CASE ~MaySeal(LenientBlock(s), {Server}, now)
    BY <1>0, <2>1, <2>2, <2>4 DEF RouteTypeOK, VouchedInv, BlockInv
  <2> QED  BY <2>3, <2>4
<1>2. CASE RotateKey
  BY <1>0, <1>2 DEF RotateKey, RouteTypeOK, VouchedInv, BlockInv
<1>3. CASE Tick
  BY <1>0, <1>3 DEF Tick, RouteTypeOK, VouchedInv, BlockInv
<1>4. CASE UNCHANGED vouchVars
  BY <1>0, <1>4 DEF vouchVars, VouchedInv, BlockInv
<1>5. FetchDirectory \/ RotateKey \/ Tick \/ UNCHANGED vouchVars
  BY DEF Next, vars, vouchVars, EndMain, LapseLease, RegisterAnchor, RenewAnchor,
         OpenMain, RenewRoute, CloseRoute, PresentLocator, OpenRoute, Restart
<1> QED  BY <1>1, <1>2, <1>3, <1>4, <1>5

LEMMA SessionStep ==
  ASSUME RouteInv, [Next]_vars
  PROVE  SessionInv'
<1>0. RouteTypeOK /\ BlockInv /\ SessionInv
  BY DEF RouteInv
<1>1. ASSUME NEW x \in Exits, NEW y \in Exits, PresentLocator(x, y)
      PROVE  SessionInv'
  <2>1. block.kem_key_id = block.kem_pubkey
    BY <1>0, <1>1, SealsToVouched DEF PresentLocator
  <2> QED  BY <1>0, <1>1, <2>1 DEF PresentLocator, SealedToApi, RouteTypeOK, SessionInv
<1>2. ASSUME NEW x \in Exits, NEW heard \in BOOLEAN, OpenRoute(x, heard)
      PROVE  SessionInv'
  <2> DEFINE v == RouteVerdict(x, session[x].locator)
  <2>1. /\ session[x] \in RouteSession
        /\ session' \in {session, [session EXCEPT ![x] = AfterVerdict(session[x], v)]}
    BY <1>0, <1>2 DEF OpenRoute, RouteTypeOK
  <2>2. v = "admitted" => session[x].locator.bound_to = x
    BY DEF RouteVerdict, OpensFor
  <2> HIDE DEF v
  <2>3. AfterVerdict(session[x], v) # None =>
          /\ AfterVerdict(session[x], v).locator = session[x].locator
          /\ AfterVerdict(session[x], v).state # session[x].state => v = "admitted"
    BY <2>1 DEF AfterVerdict, RouteSession
  <2> QED  BY <1>0, <1>2, <2>1, <2>2, <2>3 DEF OpenRoute, RouteTypeOK, SessionInv
<1>3. ASSUME NEW x \in Exits, RenewRoute(x) \/ CloseRoute(x)
      PROVE  SessionInv'
  BY <1>0, <1>3 DEF RenewRoute, CloseRoute, RouteTypeOK, RouteSession, SessionInv
<1>4. CASE UNCHANGED session
  BY <1>0, <1>4 DEF SessionInv
<1>5. \/ UNCHANGED session
      \/ \E x \in Exits : \/ RenewRoute(x)
                          \/ CloseRoute(x)
                          \/ \E y \in Exits : PresentLocator(x, y)
                          \/ \E heard \in BOOLEAN : OpenRoute(x, heard)
  BY DEF Next, vars, EndMain, LapseLease, RegisterAnchor, RenewAnchor, OpenMain,
         FetchDirectory, RotateKey, Restart, Tick
<1> QED  BY <1>1, <1>2, <1>3, <1>4, <1>5

LEMMA AnchorConfirmed ==
  ASSUME RouteTypeOK, RegisterAnchor \/ RenewAnchor
  PROVE  /\ UNCHANGED <<now, restored, session>>
         /\ \/ UNCHANGED <<anchor, confirmed>>
            \/ anchor'.until = now + AnchorTtl /\ confirmed' = now
BY DEF RegisterAnchor, RenewAnchor, RouteTypeOK

LEMMA AnchorStep ==
  ASSUME RouteInv, [Next]_vars
  PROVE  AnchorInv'
<1> USE Numbers
<1>0. RouteTypeOK /\ AnchorInv
  BY DEF RouteInv
<1>1. CASE RegisterAnchor \/ RenewAnchor
  <2>1. /\ UNCHANGED <<now, restored, session>>
        /\ \/ UNCHANGED <<anchor, confirmed>>
           \/ anchor'.until = now + AnchorTtl /\ confirmed' = now
    BY <1>0, <1>1, AnchorConfirmed
  <2>2. CASE UNCHANGED <<anchor, confirmed>>
    BY <1>0, <2>1, <2>2 DEF AnchorInv, Live
  <2>3. CASE anchor'.until = now + AnchorTtl /\ confirmed' = now
    <3>1. now \in Nat /\ now' = now
      BY <1>0, <2>1 DEF RouteTypeOK
    <3> QED  BY <2>3, <3>1 DEF AnchorInv, Live
  <2> QED  BY <2>1, <2>2, <2>3
<1>2. CASE UNCHANGED anchorVars /\ UNCHANGED session
  BY <1>0, <1>2 DEF anchorVars, AnchorInv, Live
<1>3. ASSUME NEW x \in Exits, NEW y \in Exits, PresentLocator(x, y)
      PROVE  AnchorInv'
  BY <1>0, <1>3 DEF PresentLocator, AnchorInv, Live, RouteTypeOK
<1>4. ASSUME NEW x \in Exits, NEW heard \in BOOLEAN, OpenRoute(x, heard)
      PROVE  AnchorInv'
  <2> DEFINE v == RouteVerdict(x, session[x].locator)
  <2>1. /\ session[x] \in RouteSession
        /\ session' \in {session, [session EXCEPT ![x] = AfterVerdict(session[x], v)]}
        /\ UNCHANGED anchorVars
    BY <1>0, <1>4 DEF OpenRoute, RouteTypeOK, anchorVars
  <2>2. CASE Live(anchor.until)
    BY <1>0, <2>1, <2>2 DEF anchorVars, AnchorInv, Live
  <2>3. CASE ~Live(anchor.until)
    <3>1. v # "admitted"
      BY <2>3 DEF RouteVerdict
    <3> HIDE DEF v
    <3>2. AfterVerdict(session[x], v) \in {session[x], None}
      BY <3>1 DEF AfterVerdict
    <3> QED  BY <1>0, <2>1, <3>2 DEF anchorVars, AnchorInv, Live, RouteTypeOK
  <2> QED  BY <2>2, <2>3
<1>5. ASSUME NEW x \in Exits, RenewRoute(x) \/ CloseRoute(x)
      PROVE  AnchorInv'
  BY <1>0, <1>5 DEF RenewRoute, CloseRoute, AnchorInv, Live, RouteTypeOK
<1>6. CASE Restart
  BY <1>0, <1>6 DEF Restart, NoAnchor, AnchorInv, Live, RouteTypeOK
<1>7. CASE Tick
  BY <1>0, <1>7 DEF Tick, NoAnchor, AnchorInv, Live, RouteTypeOK
<1>8. \/ UNCHANGED anchorVars /\ UNCHANGED session
      \/ RegisterAnchor \/ RenewAnchor
      \/ \E x \in Exits : \/ RenewRoute(x)
                          \/ CloseRoute(x)
                          \/ \E y \in Exits : PresentLocator(x, y)
                          \/ \E heard \in BOOLEAN : OpenRoute(x, heard)
      \/ Restart \/ Tick
  <2>1. CASE \/ UNCHANGED vars \/ FetchDirectory \/ RotateKey \/ EndMain \/ LapseLease
             \/ \E x \in Exits : OpenMain(x)
    BY <2>1 DEF vars, anchorVars, FetchDirectory, RotateKey, EndMain, LapseLease, OpenMain
  <2> QED  BY <2>1 DEF Next
<1> QED  BY <1>1, <1>2, <1>3, <1>4, <1>5, <1>6, <1>7, <1>8

THEOREM RouteInvariance == Spec => []RouteInv
<1>1. RouteInv /\ [Next]_vars => RouteInv'
  BY TypeStep, VouchStep, SessionStep, AnchorStep DEF RouteInv
<1> QED  BY RouteInitially, <1>1, PTL DEF Spec

-----------------------------------------------------------------------------
(* The theorems *)

\* Whatever a directory fetch brings and whenever the locator is sealed, it
\* is sealed to a key of the API, while the API vouches for it (the signed
\* route key of src/route_kem.rs).
THEOREM SealsOnlyToTheApi == Spec => SealedToVouchedKey
<1> DEFINE Sealed ==
      \A x \in Exits :
        session'[x] # None /\ session[x] = None
        => /\ session'[x].locator.kem_pubkey \in 1..key
           /\ now < vouched[session'[x].locator.kem_pubkey]
<1>1. RouteInv /\ [Next]_vars => Sealed
  <2> SUFFICES ASSUME RouteInv, [Next]_vars, NEW x \in Exits,
                      session'[x] # None, session[x] = None
               PROVE  /\ session'[x].locator.kem_pubkey \in 1..key
                      /\ now < vouched[session'[x].locator.kem_pubkey]
    OBVIOUS
  <2>0. RouteTypeOK /\ BlockInv
    BY DEF RouteInv
  <2>1. PICK y \in Exits : PresentLocator(x, y)
    <3>1. ASSUME NEW z \in Exits, \/ RenewRoute(z) \/ CloseRoute(z)
                                  \/ \E heard \in BOOLEAN : OpenRoute(z, heard)
          PROVE  FALSE
      BY <2>0, <3>1 DEF RenewRoute, CloseRoute, OpenRoute, RouteTypeOK
    <3>2. ASSUME NEW z \in Exits, NEW y \in Exits, PresentLocator(z, y)
          PROVE  z = x
      BY <2>0, <3>2 DEF PresentLocator, RouteTypeOK
    <3>3. session' # session
      OBVIOUS
    <3>4. \E z \in Exits : \/ RenewRoute(z) \/ CloseRoute(z)
                           \/ \E heard \in BOOLEAN : OpenRoute(z, heard)
                           \/ \E y \in Exits : PresentLocator(z, y)
      BY <3>3 DEF Next, vars, EndMain, LapseLease, RegisterAnchor, RenewAnchor, OpenMain,
             FetchDirectory, RotateKey, Restart, Tick
    <3> QED  BY <3>1, <3>2, <3>4
  <2>2. MaySeal(block, {Server}, now)
    BY <2>1 DEF PresentLocator
  <2>3. session'[x].locator.kem_pubkey = block.kem_pubkey
    BY <2>0, <2>1 DEF PresentLocator, SealedToApi, RouteTypeOK
  <2> QED  BY <2>0, <2>2, <2>3, SealsToVouched
<1> HIDE DEF Sealed
<1>2. Spec => [][Sealed]_vars
  BY <1>1, RouteInvariance, PTL DEF Spec
<1> QED  BY <1>2 DEF Sealed, SealedToVouchedKey

\* A route session that the API forgot in a restart is answered as restoring
\* or admitted again until its anchor has been unconfirmed for an anchor
\* lifetime or a restore window, whatever restarts lie between (the
\* "restoring" refusal of the route-open answer in src/dto.rs).
THEOREM RoutesSurviveRestarts == Spec => OutlivesRestart
<1> DEFINE Survives ==
      \A x \in Exits :
        /\ session[x] # None /\ session[x].state = "resubmit"
        /\ OpenRoute(x, TRUE) /\ session'[x] = None
        => \/ now >= confirmed + Lesser(AnchorTtl, RestoreWindow)
           \/ Held(x) >= MaxRoutes
           \/ ApiKey(session[x].locator.kem_key_id) \notin Kept
<1>1. RouteInv => Survives
  <2> SUFFICES ASSUME RouteInv, NEW x \in Exits,
                      session[x] # None, session[x].state = "resubmit",
                      OpenRoute(x, TRUE), session'[x] = None,
                      ~(Held(x) >= MaxRoutes),
                      ApiKey(session[x].locator.kem_key_id) \in Kept
               PROVE  now >= confirmed + Lesser(AnchorTtl, RestoreWindow)
    OBVIOUS
  <2>0. RouteTypeOK /\ SessionInv /\ AnchorInv
    BY DEF RouteInv
  <2> DEFINE blob == session[x].locator
             v    == RouteVerdict(x, blob)
  <2>1. /\ session[x] \in RouteSession /\ blob.bound_to = x
        /\ blob.kem_key_id = blob.kem_pubkey
    BY <2>0 DEF RouteTypeOK, SessionInv
  <2>2. OpensFor(blob, Kept, x)
    BY <2>1 DEF OpensFor, ApiKey
  <2>3. v \notin {"admitted", "restoring"}
    <3>1. session'[x] = AfterVerdict(session[x], v)
      BY <2>0 DEF OpenRoute, RouteTypeOK
    <3> HIDE DEF v
    <3> QED  BY <2>1, <3>1, NoneAssumption DEF AfterVerdict, RouteSession
  <2>4. ~Live(anchor.until) /\ ~(now < restored)
    BY <2>2, <2>3 DEF RouteVerdict
  <2>5. now >= confirmed + AnchorTtl \/ restored >= confirmed + RestoreWindow
    BY <2>0, <2>4 DEF AnchorInv
  <2> QED  BY <2>0, <2>4, <2>5, Numbers DEF Lesser, RouteTypeOK
<1> HIDE DEF Survives
<1>2. Spec => [][Survives]_vars
  BY <1>1, RouteInvariance, PTL DEF Spec
<1> QED  BY <1>2 DEF Survives, OutlivesRestart
=============================================================================
