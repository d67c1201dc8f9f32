--------------------------- MODULE ListTrustProofs ---------------------------
(***************************************************************************)
(* Proofs about the relay list in the field, for every schema, every set   *)
(* of builds and every number of clients and publications.                 *)
(***************************************************************************)
EXTENDS ListTrust, TLAPS

(***************************************************************************)
(* The inductive invariant: behind the types, what the emit gate left on   *)
(* the gated documents, and that a client's list is a published one as the *)
(* client's signature check saw it.                                        *)
(***************************************************************************)
GateHeld ==
  \A g \in gated : UnknownSignedFields(wires[g].version, wires[g].fields) = {}

HeldWasPublished ==
  \A c \in Clients : held[c] # None => held[c].generation \in Generations

IInv == TypeOK /\ GateHeld /\ HeldWasPublished /\ HeldIsSigned

-----------------------------------------------------------------------------
(* Lemmas *)

(* A published document is what one signing produced.                      *)
LEMMA DocumentShape ==
  ASSUME NEW w \in Documents
  PROVE  /\ w.form = "intact"
         /\ w.version \in {10, 11}
         /\ w.body \in Bodies
         /\ w.fields \in FieldSets
         /\ w.key \in Keys
         /\ w.signature = Preimage(w.version, w.body, w.fields, w.key)
BY DEF Documents, Signed

(* Publishing appends one document and disturbs none.                      *)
LEMMA EmitAppends ==
  ASSUME TypeOK,
         NEW v \in {10, 11}, NEW b \in Bodies, NEW f \in FieldSets, Emit(v, b, f)
  PROVE  /\ wires' \in Seq(Documents)
         /\ Len(wires') = Len(wires) + 1
         /\ Len(wires') <= MaxGeneration
         /\ Generations' = Generations \cup {Len(wires) + 1}
         /\ Len(wires) + 1 \notin Generations
         /\ \A g \in Generations : wires'[g] = wires[g]
         /\ wires'[Len(wires) + 1] = Signed(v, b, f, key)
<1> DEFINE d == Signed(v, b, f, key)
<1>1. d \in Documents
  BY DEF TypeOK, Documents
<1>2. wires \in Seq(Documents) /\ wires' = Append(wires, d) /\ Len(wires) < MaxGeneration
  BY DEF TypeOK, Emit
<1> HIDE DEF d
<1>3. Len(wires) \in Nat /\ MaxGeneration \in Nat
  BY <1>2, GenerationAssumption
<1>4. /\ wires' \in Seq(Documents)
      /\ Len(wires') = Len(wires) + 1
      /\ \A g \in 1..Len(wires) : wires'[g] = wires[g]
      /\ wires'[Len(wires) + 1] = d
      /\ DOMAIN wires = 1..Len(wires)
      /\ DOMAIN wires' = 1..(Len(wires) + 1)
  BY <1>1, <1>2
<1> QED
  BY <1>2, <1>3, <1>4 DEF Generations, d

(* Accepting a document means that its signature covers what was parsed.   *)
LEMMA AcceptedIsSigned ==
  ASSUME NEW b, NEW w, Verdict(b, w) = "ok"
  PROVE  SignatureHolds(b, w)
BY DEF Verdict, BadSignatureReason

-----------------------------------------------------------------------------
(* The invariant *)

LEMMA InitEstablishes == Init => IInv
<1> SUFFICES ASSUME Init PROVE IInv
  OBVIOUS
<1>1. TypeOK
  BY GenerationAssumption DEF Init, TypeOK, Generations
<1>2. GateHeld /\ HeldWasPublished /\ HeldIsSigned
  BY DEF Init, GateHeld, HeldWasPublished, HeldIsSigned
<1> QED
  BY <1>1, <1>2 DEF IInv

(* A publication, gated or not: whatever is held still names a published   *)
(* document, and the gated documents are the old ones, or the new one too  *)
(* when the gate let it pass.                                              *)
LEMMA EmitPreserves ==
  ASSUME IInv,
         NEW v \in {10, 11}, NEW b \in Bodies, NEW f \in FieldSets, Emit(v, b, f),
         \/ gated' = gated
         \/ /\ gated' = gated \cup {Len(wires) + 1}
            /\ UnknownSignedFields(v, f) = {}
  PROVE  IInv'
<1> USE DEF IInv
<1>1. UNCHANGED <<signer, key, build, held, attested>>
  BY DEF Emit
<1>0. /\ wires' \in Seq(Documents)
      /\ Len(wires') <= MaxGeneration
      /\ Generations' = Generations \cup {Len(wires) + 1}
      /\ \A g \in Generations : wires'[g] = wires[g]
      /\ wires'[Len(wires) + 1] = Signed(v, b, f, key)
  BY EmitAppends
<1>2. /\ Generations \subseteq Generations'
      /\ Len(wires) + 1 \in Generations'
      /\ \A g \in Generations : wires'[g] = wires[g]
      /\ wires'[Len(wires) + 1].version = v
      /\ wires'[Len(wires) + 1].fields = f
  BY <1>0 DEF Signed
<1>3. TypeOK'
  <2>1. gated' \subseteq Generations'
    BY <1>2 DEF TypeOK
  <2> QED
    BY <1>0, <1>1, <2>1 DEF TypeOK
<1>4. GateHeld'
  <2> SUFFICES ASSUME NEW g \in gated'
               PROVE  UnknownSignedFields(wires'[g].version, wires'[g].fields) = {}
    BY DEF GateHeld
  <2>1. CASE g \in gated
    BY <1>2, <2>1 DEF GateHeld, TypeOK
  <2>2. CASE g \notin gated
    BY <1>2, <2>2
  <2> QED
    BY <2>1, <2>2
<1>5. HeldWasPublished'
  BY <1>1, <1>2 DEF HeldWasPublished
<1>6. HeldIsSigned'
  BY <1>1, <1>2 DEF HeldIsSigned, HeldWasPublished
<1> QED
  BY <1>3, <1>4, <1>5, <1>6

(* A fetch: the signature check ties what the client takes to what was     *)
(* signed, whatever was added on the way.                                  *)
LEMMA FetchTakesSigned ==
  ASSUME IInv, NEW c \in Clients, NEW g \in Generations, NEW x \in FieldSets,
         NEW form \in Forms, Fetch(c, g, x, form)
  PROVE  /\ held' = [held EXCEPT ![c] = SignedAs(g)]
         /\ SignedAs(g) \in HeldList
<1> DEFINE wire == [Decorated(wires[g], x) EXCEPT !.form = form]
           new  == [generation |-> g, fields |-> Parsed(build[c], wire), body |-> wire.body]
<1>0. Verdict(build[c], wire) = "ok" /\ held' = [held EXCEPT ![c] = new]
  BY DEF Fetch
<1>1. SignatureHolds(build[c], wire)
  BY <1>0, AcceptedIsSigned
<1>2. /\ wires[g] \in Documents
      /\ g \in 1..MaxGeneration
  BY GenerationAssumption DEF IInv, TypeOK, Generations
<1>3. /\ wire.signature = wires[g].signature
      /\ wire.body = wires[g].body
      /\ wire.body \in Bodies
  BY <1>2 DEF Documents, Signed, Decorated
<1>4. /\ new.fields = wires[g].signature.fields
      /\ new.body = wires[g].signature.body
  BY <1>1, <1>3 DEF SignatureHolds, Preimage
<1>5. new.fields \in SUBSET AllFields
  <2>1. wires[g].signature.fields \in FieldSets
    BY <1>2 DEF Documents, Signed, Preimage
  <2> HIDE DEF new
  <2> QED
    BY <1>4, <2>1, SignerAssumption
<1>6. new = SignedAs(g)
  BY <1>4 DEF SignedAs
<1>7. new \in HeldList
  BY <1>2, <1>3, <1>5 DEF HeldList
<1> QED
  BY <1>0, <1>6, <1>7

LEMMA FetchPreserves ==
  ASSUME IInv, NEW c \in Clients, NEW g \in Generations, NEW x \in FieldSets,
         NEW form \in Forms, Fetch(c, g, x, form)
  PROVE  IInv'
<1>0. /\ held' = [held EXCEPT ![c] = SignedAs(g)]
      /\ SignedAs(g) \in HeldList
      /\ UNCHANGED <<signer, key, wires, gated, build, attested>>
  <2>1. UNCHANGED <<signer, key, wires, gated, build, attested>>
    BY DEF Fetch
  <2> QED
    BY <2>1, FetchTakesSigned
<1>1. TypeOK'
  BY <1>0 DEF IInv, TypeOK, Generations
<1>2. \A d \in Clients : held'[d] = IF d = c THEN SignedAs(g) ELSE held[d]
  BY <1>0 DEF IInv, TypeOK
<1>3. GateHeld' /\ HeldWasPublished' /\ HeldIsSigned'
  BY <1>0, <1>2
     DEF IInv, GateHeld, HeldWasPublished, HeldIsSigned, Generations, SignedAs
<1> QED
  BY <1>1, <1>3 DEF IInv

LEMMA NextPreserves == IInv /\ [Next]_vars => IInv'
<1> SUFFICES ASSUME IInv, [Next]_vars PROVE IInv'
  OBVIOUS
<1> USE DEF IInv
<1>1. ASSUME NEW v \in {10, 11}, NEW b \in Bodies, NEW f \in FieldSets,
             Publish(v, b, f) \/ PublishUngated(v, b, f)
      PROVE  IInv'
  BY <1>1, EmitPreserves DEF Publish, PublishUngated
<1>2. ASSUME NEW f \in SignerFields, UpgradeServer(f)
      PROVE  IInv'
  BY <1>2 DEF UpgradeServer, TypeOK, GateHeld, HeldWasPublished, HeldIsSigned, Generations
<1>3. ASSUME NEW k \in Keys, RotateKey(k)
      PROVE  IInv'
  BY <1>3 DEF RotateKey, TypeOK, GateHeld, HeldWasPublished, HeldIsSigned, Generations
<1>4. ASSUME NEW c \in Clients, NEW g \in Generations, NEW x \in FieldSets,
             NEW form \in Forms, Fetch(c, g, x, form)
      PROVE  IInv'
  BY <1>4, FetchPreserves
<1>5. ASSUME NEW c \in Clients, NEW r \in Rosters, FetchRoster(c, r)
      PROVE  IInv'
  BY <1>5 DEF FetchRoster, TypeOK, GateHeld, HeldWasPublished, HeldIsSigned, Generations
<1>6. ASSUME NEW c \in Clients, NEW b \in ClientBuilds, UpgradeClient(c, b)
      PROVE  IInv'
  <2>1. /\ UNCHANGED <<signer, key, wires, gated, attested>>
        /\ build' \in [Clients -> ClientBuilds]
        /\ held' \in [Clients -> HeldList \cup {None}]
        /\ \A d \in Clients : held'[d] # None => held'[d] = held[d]
    BY <1>6 DEF UpgradeClient, TypeOK
  <2> QED
    BY <2>1 DEF TypeOK, GateHeld, HeldWasPublished, HeldIsSigned, Generations
<1>7. CASE UNCHANGED vars
  BY <1>7 DEF vars, TypeOK, GateHeld, HeldWasPublished, HeldIsSigned, Generations
<1> QED
  BY <1>1, <1>2, <1>3, <1>4, <1>5, <1>6, <1>7 DEF Next

LEMMA InvariantHolds == Spec => []IInv
<1>1. Init => IInv
  BY InitEstablishes
<1>2. IInv /\ [Next]_vars => IInv'
  BY NextPreserves
<1> QED
  BY <1>1, <1>2, PTL DEF Spec

-----------------------------------------------------------------------------
(* The theorems *)

(***************************************************************************)
(* Every variable keeps its type: documents are published once and never   *)
(* altered, and a client's list carries what one of them can carry.        *)
(***************************************************************************)
THEOREM TypeCorrect == Spec => []TypeOK
<1>1. IInv => TypeOK
  BY DEF IInv
<1> QED
  BY <1>1, InvariantHolds, PTL

(***************************************************************************)
(* The emit gate suffices: a document that passed it is readable by every  *)
(* build that implements its version and pins its key, whatever is added   *)
(* to it on the way that the build does not know.                          *)
(***************************************************************************)
THEOREM EmitGateSuffices == Spec => []GatedIsReadable
<1>1. IInv => GatedIsReadable
  <2> SUFFICES ASSUME IInv,
                      NEW g \in gated, NEW b \in ClientBuilds,
                      Implements(b, wires[g].version),
                      PinAllows(b.pins, wires[g].key),
                      ~wires[g].body.malformed,
                      NEW extra \in SUBSET (AllFields \ b.fields)
               PROVE  Verdict(b, Decorated(wires[g], extra)) = "ok"
    BY DEF GatedIsReadable
  <2> DEFINE wire == Decorated(wires[g], extra)
  <2>1. wires[g] \in Documents
    BY DEF IInv, TypeOK, Generations
  <2>2. /\ wire.form = "intact"
        /\ wire.version = wires[g].version
        /\ wire.body = wires[g].body
        /\ wire.key = wires[g].key
        /\ wire.fields = wires[g].fields \cup extra
        /\ wire.signature = Preimage(wires[g].version, wires[g].body,
                                     wires[g].fields, wires[g].key)
    BY <2>1 DEF Documents, Signed, Decorated
  <2>3. wires[g].fields \subseteq b.fields
    BY DEF IInv, GateHeld, UnknownSignedFields, Implements
  <2>4. Parsed(b, wire) = wires[g].fields
    BY <2>2, <2>3 DEF Parsed
  <2> HIDE DEF wire
  <2>5. SignatureHolds(b, wire)
    BY <2>2, <2>4 DEF SignatureHolds
  <2> QED
    BY <2>2, <2>5 DEF Verdict, Implements, wire
<1> QED
  BY <1>1, InvariantHolds, PTL

(***************************************************************************)
(* Schema skew is named: a build that implements the version of an         *)
(* undamaged document never reports it as merely badly signed.             *)
(***************************************************************************)
THEOREM SkewHasItsOwnReason == Spec => []SkewIsNamed
<1>1. IInv => SkewIsNamed
  <2> SUFFICES ASSUME IInv,
                      NEW g \in Generations, NEW b \in ClientBuilds,
                      Implements(b, wires[g].version),
                      UnknownSignedFields(wires[g].version, wires[g].fields) = {}
               PROVE  SignatureHolds(b, wires[g])
    BY DEF SkewIsNamed, Verdict, BadSignatureReason
  <2>1. wires[g] \in Documents
    BY DEF IInv, TypeOK, Generations
  <2>2. wires[g].fields \subseteq b.fields
    BY DEF UnknownSignedFields, Implements
  <2>3. Parsed(b, wires[g]) = wires[g].fields
    BY <2>2 DEF Parsed
  <2> QED
    BY <2>1, <2>3, DocumentShape DEF SignatureHolds
<1> QED
  BY <1>1, InvariantHolds, PTL

(***************************************************************************)
(* Each step of the machine is a step of TrustedDocument, or nothing to    *)
(* it.                                                                     *)
(***************************************************************************)
LEMMA EmitIssues ==
  ASSUME IInv,
         NEW v \in {10, 11}, NEW b \in Bodies, NEW f \in FieldSets, Emit(v, b, f)
  PROVE  \E d \in HeldList : Trusted!Issue(d)
<1>a. wires \in Seq(Documents) /\ Len(wires) \in Nat
  BY DEF IInv, TypeOK
<1>n. PICK n \in Nat : n = Len(wires) + 1
  BY <1>a
<1>0. /\ Generations' = Generations \cup {n}
      /\ Generations = 1..Len(wires)
      /\ n <= MaxGeneration
      /\ \A g \in Generations : wires'[g] = wires[g]
      /\ wires'[n] = Signed(v, b, f, key)
  <2>1. TypeOK
    BY DEF IInv
  <2>2. Generations = 1..Len(wires)
    BY <1>a DEF Generations
  <2> QED
    BY <1>n, <2>1, <2>2, EmitAppends
<1>1. \A g \in Generations : SignedAs(g)' = SignedAs(g)
  BY <1>0 DEF SignedAs
<1>2. SignedAs(n)' = [generation |-> n, fields |-> f, body |-> b]
  BY <1>0 DEF SignedAs, Signed, Preimage
<1>3. SignedAs(n)' \in HeldList
  <2>1. n \in 1..MaxGeneration
    BY <1>a, <1>n, <1>0, GenerationAssumption
  <2>2. f \in SUBSET AllFields
    BY SignerAssumption
  <2> QED
    BY <1>2, <2>1, <2>2 DEF HeldList
<1>4. {SignedAs(g) : g \in Generations}'
        = {SignedAs(g) : g \in Generations} \cup {SignedAs(n)'}
  BY <1>0, <1>1
<1>5. \A e \in {SignedAs(g) : g \in Generations} : e.generation < n
  BY <1>a, <1>n, <1>0 DEF SignedAs
<1>6. SignedAs(n)'.generation = n
  BY <1>2
<1>7. held' = held
  BY DEF Emit
<1> QED
  BY <1>3, <1>4, <1>5, <1>6, <1>7 DEF Trusted!Issue

LEMMA FetchAdopts ==
  ASSUME IInv, NEW c \in Clients, NEW g \in Generations, NEW x \in FieldSets,
         NEW form \in Forms, Fetch(c, g, x, form)
  PROVE  Trusted!Adopt(c, SignedAs(g))
<1>1. /\ held' = [held EXCEPT ![c] = SignedAs(g)]
      /\ Newer(c, g)
      /\ UNCHANGED wires
  <2>1. Newer(c, g) /\ UNCHANGED wires
    BY DEF Fetch
  <2> QED
    BY <2>1, FetchTakesSigned
<1>2. SignedAs(g).generation = g
  BY DEF SignedAs
<1>3. UNCHANGED {SignedAs(n) : n \in Generations}
  BY <1>1 DEF SignedAs, Generations
<1> QED
  BY <1>1, <1>2, <1>3 DEF Trusted!Adopt, Newer

(***************************************************************************)
(* The relay list in the field implements TrustedDocument: whatever builds *)
(* and keys are about, and whatever happens to a text on its way, a client *)
(* acts on exactly what one publication signed and never goes back.        *)
(***************************************************************************)
THEOREM ListIsTrustedDocument == Spec => IsTrustedDocument
<1>1. Init => Trusted!Init
  BY DEF Init, Generations, Trusted!Init
<1>2. IInv /\ [Next]_vars => [Trusted!Next]_(Trusted!vars)
  <2> SUFFICES ASSUME IInv, [Next]_vars
               PROVE  [Trusted!Next]_(Trusted!vars)
    OBVIOUS
  <2> DEFINE published == {SignedAs(g) : g \in Generations}
  <2>0. ASSUME UNCHANGED wires PROVE UNCHANGED published
    BY <2>0 DEF SignedAs, Generations
  <2>1. ASSUME NEW v \in {10, 11}, NEW b \in Bodies, NEW f \in FieldSets,
               Publish(v, b, f) \/ PublishUngated(v, b, f)
        PROVE  Trusted!Next
    BY <2>1, EmitIssues DEF Publish, PublishUngated, Trusted!Next
  <2>2. ASSUME NEW c \in Clients, NEW g \in Generations, NEW x \in FieldSets,
               NEW form \in Forms, Fetch(c, g, x, form)
        PROVE  Trusted!Next
    BY <2>2, FetchAdopts DEF Trusted!Next
  <2>3. ASSUME NEW c \in Clients, NEW b \in ClientBuilds, UpgradeClient(c, b)
        PROVE  Trusted!Next
    BY <2>0, <2>3 DEF UpgradeClient, Trusted!Next, Trusted!Forget
  <2>4. ASSUME UNCHANGED <<wires, held>>
        PROVE  UNCHANGED Trusted!vars
    BY <2>0, <2>4 DEF Trusted!vars
  <2> QED
    BY <2>1, <2>2, <2>3, <2>4
       DEF Next, UpgradeServer, RotateKey, FetchRoster, vars
<1> QED
  BY <1>1, <1>2, InvariantHolds, PTL DEF Spec, IsTrustedDocument, Trusted!Spec

(***************************************************************************)
(* As long as the offline key attests each exit id once per roster, no     *)
(* client has two readings of an exit, whatever the ages of its list and   *)
(* its roster.                                                             *)
(***************************************************************************)
THEOREM RosterSettlesIdentity ==
  ASSUME \A roster \in Rosters : \A d, e \in roster : d.exit_id = e.exit_id => d = e,
         \A body \in Bodies : \A r, s \in body.relays :
            r.id = s.id /\ r.exit_id = s.exit_id /\ r.place = s.place => r = s
  PROVE  Spec => []OneReadingPerExit
<1>1. IInv => OneReadingPerExit
  <2> SUFFICES ASSUME IInv, NEW c \in Clients,
                      NEW r \in Usable(c), NEW s \in Usable(c), r.exit_id = s.exit_id
               PROVE  r = s
    BY DEF OneReadingPerExit
  <2>1. /\ held[c] # None
        /\ r \in held[c].body.relays /\ Authorizes(attested[c], r)
        /\ s \in held[c].body.relays /\ Authorizes(attested[c], s)
    BY DEF Usable, Authorized
  <2>2. attested[c] \in Rosters /\ held[c].body \in Bodies
    BY <2>1 DEF IInv, TypeOK, HeldList
  <2>3. PICK d \in attested[c] : d.id = r.id /\ d.exit_id = r.exit_id /\ d.place = r.place
    BY <2>1 DEF Authorizes
  <2>4. PICK e \in attested[c] : e.id = s.id /\ e.exit_id = s.exit_id /\ e.place = s.place
    BY <2>1 DEF Authorizes
  <2>5. d = e
    BY <2>2, <2>3, <2>4
  <2> QED
    BY <2>1, <2>2, <2>3, <2>4, <2>5
<1> QED
  BY <1>1, InvariantHolds, PTL
=============================================================================
