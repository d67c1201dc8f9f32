-------------------------- MODULE PortForwardProofs --------------------------
(***************************************************************************)
(* Proofs about PortForward, for every set of accounts, exits, ports,      *)
(* entitlements and cases and every bound: a mapped port is accountable,   *)
(* an entitlement maps one port, and a strike hits who held the port.      *)
(***************************************************************************)
EXTENDS PortForward, TLAPS

\* A tag the API opens, with the key that minted it, to the account.
OpensTo(tag, account) ==
  /\ tag.ciphertext.account = account
  /\ tag.ciphertext.nonce = tag.nonce
  /\ tag.ciphertext.aad = Aad(tag.epoch)
  /\ tag.ciphertext.key \in 1..key

IssuedOK(s) ==
  issued[s] # None =>
    /\ issued[s].account \in Accounts /\ issued[s].epoch \in 1..MaxEpoch
    /\ \E k \in 1..key : issued[s].tag = Sealed(k, issued[s].epoch, s, issued[s].account)

LedgerOK(s) == spent[s] # None => issued[s] # None

\* The port of a mapping was an entitlement's, spent at this exit.
MapOK(x, p) ==
  LET m == mappings[x][p]
  IN  m # None =>
        /\ m.serial \in Serials /\ issued[m.serial] # None
        /\ spent[m.serial] = x
        /\ m.since \in 0..now
        /\ OpensTo(m.tag, issued[m.serial].account)

(***************************************************************************)
(* While an exit waits for the answer to a spend the port it is for stays  *)
(* free and rested, and once the spend is granted nothing else can map it: *)
(* the ledger names this exit and no port of the fleet has it yet.         *)
(***************************************************************************)
AskOK(x) ==
  LET a == asking[x]
      s == a.envelope.token.serial
  IN  a # None =>
        /\ a = [port |-> a.port, envelope |-> a.envelope, granted |-> a.granted]
        /\ a.granted \in BOOLEAN \cup {None}
        /\ a.port \in Ports
        /\ s \in Serials /\ issued[s] # None
        /\ OpensTo(a.envelope.tag, issued[s].account)
        /\ mappings[x][a.port] = None /\ free_at[x][a.port] <= now
        /\ a.granted = TRUE /\ a.granted # None =>
             /\ spent[s] = x
             /\ \A y \in Exits, q \in Ports :
                  mappings[y][q] # None => mappings[y][q].serial # s

(***************************************************************************)
(* A port that changed hands since an incident did so after it: it rested  *)
(* when its mapping ended, so a later mapping begins later than the        *)
(* incident.                                                               *)
(***************************************************************************)
HeldBy(x, p, at, culprit) ==
  LET m == mappings[x][p]
  IN  /\ m = None => free_at[x][p] > at
      /\ m # None /\ m.since <= at => Holder(m) = culprit

CaseOK(c) ==
  LET k == cases[c]
  IN  k # None =>
        /\ k.at <= now
        /\ k.strike \in {None, k.culprit}
        /\ HeldBy(k.exit, k.port, k.at, k.culprit)

AckOK(a) ==
  /\ a.case \in Cases /\ cases[a.case] # None
  /\ a.outcome = "revoked" /\ a.holder_since <= cases[a.case].at =>
       \A k \in 1..MaxKey : Opened(a.tag, k) \in {None, cases[a.case].culprit}

Shapes ==
  /\ now \in 0..MaxTime /\ epoch \in 1..MaxEpoch /\ key \in 1..MaxKey
  /\ published \in [Exits -> 1..key]
  /\ issued = [s \in Serials |-> issued[s]]
  /\ spent \in [Serials -> Exits \cup {None}]
  /\ asking = [x \in Exits |-> asking[x]]
  /\ mappings = [x \in Exits |-> [p \in Ports |-> mappings[x][p]]]
  /\ free_at \in [Exits -> [Ports -> Nat]]
  /\ cases \in [Cases -> CaseRecord \cup {None}]

PortInv ==
  /\ Shapes
  /\ \A s \in Serials : IssuedOK(s) /\ LedgerOK(s)
  /\ \A x \in Exits, p \in Ports : MapOK(x, p)
  /\ OnePortPerEntitlement
  /\ \A x \in Exits : AskOK(x)
  /\ \A c \in Cases : CaseOK(c)
  /\ \A a \in acks : AckOK(a)

-----------------------------------------------------------------------------
(* Tags *)

\* A tag that opens to an account opens to nobody else, and under some key.
LEMMA OpensToOne ==
  ASSUME NEW tag, NEW account, OpensTo(tag, account)
  PROVE  /\ \A k : Opened(tag, k) \in {account, None}
         /\ \E k \in 1..key : Opened(tag, k) = account
  BY DEF OpensTo, Opened

(***************************************************************************)
(* What an exit admits with a token and a minted tag is that token and     *)
(* that tag: an epoch edited into it does not verify.                      *)
(***************************************************************************)
LEMMA AdmittedIsMinted ==
  ASSUME NEW token, NEW e, NEW n, NEW account, NEW k \in 1..key, NEW form, NEW pub,
         Admits(form, Envelope(token, Sealed(k, e, n, account)), pub)
  PROVE  LET got == Parsed(form, Envelope(token, Sealed(k, e, n, account)))
         IN  got.token = token /\ OpensTo(got.tag, account)
<1> DEFINE tag == Sealed(k, e, n, account)
           got == Parsed(form, Envelope(token, tag))
<1>1. CASE form # "garbled"
  BY <1>1 DEF Parsed, Envelope, Sealed, OpensTo
<1>2. CASE form = "garbled"
  <2>1. /\ got.token = token
        /\ got.tag = [tag EXCEPT !.epoch = token.epoch]
    BY <1>2 DEF Parsed, Envelope, Sealed
  <2>2. /\ got.tag.epoch = token.epoch /\ got.tag.signature = tag.signature
        /\ got.tag.nonce = tag.nonce /\ got.tag.ciphertext = tag.ciphertext
    BY <2>1 DEF Sealed
  <2>3. got.tag.signature
          = [key |-> pub, over |-> SigningPreimage(token.epoch, tag.nonce, tag.ciphertext)]
    BY <2>2 DEF Admits, Verifies
  <2>4. SigningPreimage(e, tag.nonce, tag.ciphertext)
          = SigningPreimage(token.epoch, tag.nonce, tag.ciphertext)
    BY <2>2, <2>3 DEF Sealed
  <2>5. Aad(e) = Aad(token.epoch)
    BY <2>4 DEF SigningPreimage
  <2> QED  BY <2>1, <2>2, <2>5 DEF OpensTo, Sealed
<1> QED  BY <1>1, <1>2

-----------------------------------------------------------------------------
(* What a step keeps *)

\* Which steps change what.
LEMMA WhoChanges ==
  ASSUME [Next]_vars
  PROVE  /\ \/ UNCHANGED <<now, epoch, key>>
            \/ Tick \/ NextEpoch \/ RotateKey
         /\ \/ UNCHANGED issued
            \/ \E a \in Accounts, s \in Serials, e \in 1..MaxEpoch : Issue(a, s, e)
         /\ \/ UNCHANGED published
            \/ \E x \in Exits : RefreshPublished(x)
         /\ \/ UNCHANGED spent
            \/ \E x \in Exits : Spend(x)
            \/ \E x \in Exits, p \in Ports : Unmap(x, p)
         /\ \/ UNCHANGED asking
            \/ \E x \in Exits : Answer(x) \/ LoseAnswer(x) \/ RestartExit(x) \/ Spend(x)
            \/ \E x \in Exits, p \in Ports, s \in Serials, t \in Serials, form \in Forms :
                 Present(x, p, s, t, form)
         /\ \/ UNCHANGED <<mappings, free_at>>
            \/ \E x \in Exits : Answer(x) \/ RestartExit(x)
            \/ \E x \in Exits, p \in Ports : Unmap(x, p)
            \/ \E c \in Cases : ApplyAbuseRevoke(c)
         /\ \/ UNCHANGED cases
            \/ \E c \in Cases, x \in Exits, p \in Ports : Incident(c, x, p)
            \/ \E a \in acks : HandleAck(a)
         /\ \/ UNCHANGED acks
            \/ \E c \in Cases : ApplyAbuseRevoke(c)
<1>1. CASE \E a \in Accounts, s \in Serials, e \in 1..MaxEpoch : Issue(a, s, e)
  <2>1. UNCHANGED <<now, epoch, key, published, spent, asking, mappings, free_at, cases, acks>>
    BY <1>1 DEF Issue
  <2> QED  BY ONLY <1>1, <2>1
<1>2. CASE \E x \in Exits, p \in Ports, s \in Serials, t \in Serials, form \in Forms :
             Present(x, p, s, t, form)
  <2>1. UNCHANGED <<now, epoch, key, published, issued, spent, mappings, free_at, cases, acks>>
    BY <1>2 DEF Present
  <2> QED  BY ONLY <1>2, <2>1
<1>3. CASE \E x \in Exits : Spend(x)
  <2>1. UNCHANGED <<now, epoch, key, published, issued, mappings, free_at, cases, acks>>
    BY <1>3 DEF Spend
  <2> QED  BY ONLY <1>3, <2>1
<1>4. CASE \E x \in Exits : Answer(x)
  <2>1. UNCHANGED <<now, epoch, key, published, issued, spent, free_at, cases, acks>>
    BY <1>4 DEF Answer
  <2> QED  BY ONLY <1>4, <2>1
<1>5. CASE \E x \in Exits : LoseAnswer(x)
  <2>1. UNCHANGED <<now, epoch, key, published, issued, spent, mappings, free_at, cases, acks>>
    BY <1>5 DEF LoseAnswer
  <2> QED  BY ONLY <1>5, <2>1
<1>6. CASE \E x \in Exits : RestartExit(x)
  <2>1. UNCHANGED <<now, epoch, key, published, issued, spent, cases, acks>>
    BY <1>6 DEF RestartExit
  <2> QED  BY ONLY <1>6, <2>1
<1>7. CASE \E x \in Exits : RefreshPublished(x)
  <2>1. UNCHANGED <<now, epoch, key, issued, spent, asking, mappings, free_at, cases, acks>>
    BY <1>7 DEF RefreshPublished
  <2> QED  BY ONLY <1>7, <2>1
<1>8. CASE \E x \in Exits, p \in Ports : Unmap(x, p)
  <2>1. UNCHANGED <<now, epoch, key, published, issued, asking, cases, acks>>
    BY <1>8 DEF Unmap
  <2> QED  BY ONLY <1>8, <2>1
<1>9. CASE \E c \in Cases, x \in Exits, p \in Ports : Incident(c, x, p)
  <2>1. UNCHANGED <<now, epoch, key, published, issued, spent, asking, mappings, free_at, acks>>
    BY <1>9 DEF Incident
  <2> QED  BY ONLY <1>9, <2>1
<1>10. CASE \E c \in Cases : ApplyAbuseRevoke(c)
  <2>1. UNCHANGED <<now, epoch, key, published, issued, spent, asking, cases>>
    BY <1>10 DEF ApplyAbuseRevoke
  <2> QED  BY ONLY <1>10, <2>1
<1>11. CASE \E a \in acks : HandleAck(a)
  <2>1. UNCHANGED <<now, epoch, key, published, issued, spent, asking, mappings, free_at, acks>>
    BY <1>11 DEF HandleAck
  <2> QED  BY ONLY <1>11, <2>1
<1>12. CASE RotateKey \/ NextEpoch \/ Tick
  <2>1. UNCHANGED <<published, issued, spent, asking, mappings, free_at, cases, acks>>
    BY <1>12 DEF RotateKey, NextEpoch, Tick
  <2> QED  BY ONLY <1>12, <2>1
<1>13. CASE UNCHANGED vars
  BY <1>13 DEF vars
<1> QED
  BY <1>1, <1>2, <1>3, <1>4, <1>5, <1>6, <1>7, <1>8, <1>9, <1>10, <1>11, <1>12, <1>13 DEF Next

\* Time and keys go up, and what is issued stays.
LEMMA Grows ==
  ASSUME PortInv, [Next]_vars
  PROVE  /\ now \in Nat /\ now' \in Nat /\ now <= now'
         /\ 1..key \subseteq 1..key'
         /\ \A s \in Serials : issued[s] # None => issued'[s] = issued[s]
<1>0. now \in Nat /\ key \in Nat
  BY PortBoundsAssumption DEF PortInv, Shapes
<1>1. CASE Tick
  BY <1>0, <1>1 DEF Tick
<1>2. CASE RotateKey
  BY <1>0, <1>2 DEF RotateKey
<1>3. ASSUME NEW a \in Accounts, NEW t \in Serials, NEW e \in 1..MaxEpoch, Issue(a, t, e)
      PROVE  \A s \in Serials : issued[s] # None => issued'[s] = issued[s]
  BY <1>3 DEF Issue, PortInv, Shapes
<1>4. CASE UNCHANGED <<now, key, issued>>
  BY <1>0, <1>4
<1>5. ASSUME NEW a \in Accounts, NEW t \in Serials, NEW e \in 1..MaxEpoch, Issue(a, t, e)
      PROVE  UNCHANGED <<now, key>>
  BY <1>5 DEF Issue
<1>6. \/ Tick \/ RotateKey \/ UNCHANGED <<now, key, issued>>
      \/ \E a \in Accounts, t \in Serials, e \in 1..MaxEpoch : Issue(a, t, e)
  BY WhoChanges DEF NextEpoch
<1> QED  BY <1>0, <1>1, <1>2, <1>3, <1>4, <1>5, <1>6

\* Only an answer maps a port; a port unmapped rests from now on.
LEMMA PortChanges ==
  ASSUME PortInv, [Next]_vars, NEW x \in Exits, NEW p \in Ports
  PROVE  \/ Answer(x) /\ asking[x].port = p /\ asking[x].granted = TRUE
         \/ mappings'[x][p] = mappings[x][p] /\ free_at'[x][p] = free_at[x][p]
         \/ /\ mappings'[x][p] = None /\ free_at'[x][p] = now + Cooldown /\ now' = now
            /\ mappings[x][p] # None \/ asking'[x] = None
<1> USE DEF PortInv, Shapes
<1>1. CASE UNCHANGED <<mappings, free_at>>
  BY <1>1
<1>2. ASSUME NEW y \in Exits, Answer(y)
      PROVE  \/ Answer(x) /\ asking[x].port = p /\ asking[x].granted = TRUE
             \/ mappings'[x][p] = mappings[x][p] /\ free_at'[x][p] = free_at[x][p]
  <2>1. asking[y].granted \in BOOLEAN /\ asking[y].port \in Ports
    BY <1>2 DEF Answer, AskOK
  <2>2. free_at' = free_at
    BY <1>2 DEF Answer
  <2>3. CASE y # x \/ asking[y].port # p \/ asking[y].granted # TRUE
    BY <1>2, <2>1, <2>2, <2>3 DEF Answer
  <2> QED  BY <1>2, <2>3
<1>3. ASSUME NEW y \in Exits, NEW q \in Ports, Unmap(y, q)
      PROVE  \/ mappings'[x][p] = mappings[x][p] /\ free_at'[x][p] = free_at[x][p]
             \/ /\ mappings'[x][p] = None /\ free_at'[x][p] = now + Cooldown /\ now' = now
                /\ mappings[x][p] # None
  <2>1. CASE x = y /\ p = q
    BY <1>3, <2>1 DEF Unmap
  <2>2. CASE x # y \/ p # q
    BY <1>3, <2>2 DEF Unmap
  <2> QED  BY <2>1, <2>2
<1>4. ASSUME NEW c \in Cases, ApplyAbuseRevoke(c)
      PROVE  \/ mappings'[x][p] = mappings[x][p] /\ free_at'[x][p] = free_at[x][p]
             \/ /\ mappings'[x][p] = None /\ free_at'[x][p] = now + Cooldown /\ now' = now
                /\ mappings[x][p] # None
  <2> DEFINE y == cases[c].exit
             q == cases[c].port
  <2>1. y \in Exits /\ q \in Ports /\ now' = now
    <3> HIDE DEF PortInv, Shapes
    <3>1. cases[c] # None /\ now' = now
      BY <1>4 DEF ApplyAbuseRevoke
    <3>2. cases[c] \in CaseRecord
      BY <3>1 DEF PortInv, Shapes
    <3> QED  BY <3>1, <3>2 DEF CaseRecord
  <2>2. CASE mappings[y][q] = None
    <3> HIDE DEF PortInv, Shapes
    <3>1. UNCHANGED <<mappings, free_at>>
      BY <1>4, <2>2 DEF ApplyAbuseRevoke
    <3> QED  BY ONLY <3>1
  <2>3. CASE mappings[y][q] # None
    <3> HIDE DEF PortInv, Shapes
    <3>1. /\ mappings' = [mappings EXCEPT ![y][q] = None]
          /\ free_at' = [free_at EXCEPT ![y][q] = now + Cooldown]
      BY <1>4, <2>3 DEF ApplyAbuseRevoke
    <3> HIDE DEF y, q
    <3>0. /\ mappings = [z \in Exits |-> [r \in Ports |-> mappings[z][r]]]
          /\ free_at \in [Exits -> [Ports -> Nat]]
      BY DEF PortInv, Shapes
    <3>2. CASE x = y /\ p = q
      BY <2>1, <2>3, <3>0, <3>1, <3>2
    <3>3. CASE x # y \/ p # q
      BY <2>1, <3>0, <3>1, <3>3
    <3> QED  BY <3>2, <3>3, Zenon
  <2> QED  BY <2>2, <2>3
<1>5. ASSUME NEW y \in Exits, RestartExit(y)
      PROVE  \/ mappings'[x][p] = mappings[x][p] /\ free_at'[x][p] = free_at[x][p]
             \/ /\ mappings'[x][p] = None /\ free_at'[x][p] = now + Cooldown /\ now' = now
                /\ asking'[x] = None
  <2>1. CASE x = y
    BY <1>5, <2>1 DEF RestartExit
  <2>2. CASE x # y
    BY <1>5, <2>2 DEF RestartExit
  <2> QED  BY <2>1, <2>2
<1>6. \/ UNCHANGED <<mappings, free_at>>
      \/ \E y \in Exits : Answer(y) \/ RestartExit(y)
      \/ \E y \in Exits, q \in Ports : Unmap(y, q)
      \/ \E c \in Cases : ApplyAbuseRevoke(c)
  <2> HIDE DEF PortInv, Shapes
  <2> QED  BY WhoChanges
<1> HIDE DEF PortInv, Shapes
<1> QED  BY <1>1, <1>2, <1>3, <1>4, <1>5, <1>6

(***************************************************************************)
(* The ledger changes only by a spend, of an entitlement nobody spent, and *)
(* by the release of a mapping that ends.                                  *)
(***************************************************************************)
LEMMA LedgerChanges ==
  ASSUME PortInv, [Next]_vars, NEW s \in Serials
  PROVE  \/ spent'[s] = spent[s]
         \/ /\ spent[s] = None
            /\ \E x \in Exits : /\ Spend(x) /\ asking[x].envelope.token.serial = s
                                /\ spent'[s] = x
         \/ \E x \in Exits, p \in Ports :
              Unmap(x, p) /\ mappings[x][p].serial = s /\ mappings'[x][p] = None
<1> USE DEF PortInv, Shapes
<1>1. CASE UNCHANGED spent
  BY <1>1
<1>2. ASSUME NEW x \in Exits, Spend(x), spent'[s] # spent[s]
      PROVE  spent[s] = None /\ asking[x].envelope.token.serial = s /\ spent'[s] = x
  BY <1>2 DEF Spend
<1>3. ASSUME NEW x \in Exits, NEW p \in Ports, Unmap(x, p), spent'[s] # spent[s]
      PROVE  mappings[x][p].serial = s /\ mappings'[x][p] = None
  <2>1. mappings'[x][p] = None
    BY <1>3 DEF Unmap
  <2>2. spent' = [spent EXCEPT ![mappings[x][p].serial] = None]
    BY <1>3 DEF Unmap
  <2> QED  BY <1>3, <2>1, <2>2
<1> HIDE DEF PortInv, Shapes
<1> QED  BY <1>1, <1>2, <1>3, WhoChanges

LEMMA AskChanges ==
  ASSUME PortInv, [Next]_vars, NEW x \in Exits
  PROVE  \/ asking'[x] = None
         \/ asking'[x] = asking[x] /\ ~Answer(x)
         \/ \E p \in Ports, s \in Serials, t \in Serials, form \in Forms :
              Present(x, p, s, t, form)
         \/ Spend(x)
<1>0. asking = [y \in Exits |-> asking[y]]
  BY DEF PortInv, Shapes
<1>1. CASE UNCHANGED asking
  <2>1. Answer(x) => asking'[x] = None
    BY <1>0 DEF Answer
  <2> QED  BY <1>1, <2>1
<1>2. ASSUME NEW y \in Exits, Answer(y) \/ LoseAnswer(y) \/ RestartExit(y)
      PROVE  asking'[x] = None \/ (asking'[x] = asking[x] /\ ~Answer(x))
  <2>1. asking' = [asking EXCEPT ![y] = None]
    BY <1>2 DEF Answer, LoseAnswer, RestartExit
  <2>2. Answer(x) => asking'[x] = None
    BY <1>0 DEF Answer
  <2> QED  BY <1>0, <2>1, <2>2
<1>3. ASSUME NEW y \in Exits, NEW p \in Ports, NEW s \in Serials, NEW t \in Serials,
             NEW form \in Forms, Present(y, p, s, t, form)
      PROVE  \/ asking'[x] = asking[x] /\ ~Answer(x)
             \/ asking'[x] = None
             \/ y = x
  <2>1. Answer(x) => asking'[x] = None
    BY <1>0 DEF Answer
  <2> QED  BY <1>0, <1>3, <2>1 DEF Present
<1>4. ASSUME NEW y \in Exits, Spend(y)
      PROVE  \/ asking'[x] = asking[x] /\ ~Answer(x)
             \/ asking'[x] = None
             \/ y = x
  <2>1. Answer(x) => asking'[x] = None
    BY <1>0 DEF Answer
  <2> QED  BY <1>0, <1>4, <2>1 DEF Spend
<1>5. \/ UNCHANGED asking
      \/ \E y \in Exits : Answer(y) \/ LoseAnswer(y) \/ RestartExit(y) \/ Spend(y)
      \/ \E y \in Exits, p \in Ports, s \in Serials, t \in Serials, form \in Forms :
           Present(y, p, s, t, form)
  BY WhoChanges
<1> QED  BY <1>1, <1>2, <1>3, <1>4, <1>5

LEMMA CaseChanges ==
  ASSUME PortInv, [Next]_vars, NEW c \in Cases
  PROVE  \/ cases'[c] = cases[c]
         \/ \E x \in Exits, p \in Ports : Incident(c, x, p)
         \/ \E a \in acks : HandleAck(a) /\ a.case = c
<1>0. cases \in [Cases -> CaseRecord \cup {None}]
  BY DEF PortInv, Shapes
<1>1. ASSUME NEW d \in Cases, NEW x \in Exits, NEW p \in Ports, Incident(d, x, p), d # c
      PROVE  cases'[c] = cases[c]
  BY <1>0, <1>1 DEF Incident
<1>2. ASSUME NEW a \in acks, HandleAck(a), a.case # c
      PROVE  cases'[c] = cases[c]
  BY <1>0, <1>2 DEF HandleAck
<1>3. \/ UNCHANGED cases
      \/ \E d \in Cases, x \in Exits, p \in Ports : Incident(d, x, p)
      \/ \E a \in acks : HandleAck(a)
  BY WhoChanges
<1> QED  BY <1>1, <1>2, <1>3

-----------------------------------------------------------------------------
(* Entitlements and mappings *)

LEMMA IssuedStep ==
  ASSUME PortInv, [Next]_vars, NEW s \in Serials
  PROVE  IssuedOK(s)'
<1>0. 1..key \subseteq 1..key' /\ IssuedOK(s) /\ key \in 1..key
  BY Grows, PortBoundsAssumption DEF PortInv, Shapes
<1>1. CASE issued'[s] = issued[s]
  BY <1>0, <1>1 DEF IssuedOK
<1>2. ASSUME NEW a \in Accounts, NEW t \in Serials, NEW e \in 1..MaxEpoch, Issue(a, t, e)
      PROVE  IssuedOK(s)'
  <2>1. CASE t = s
    <3>1. issued'[s] = [account |-> a, epoch |-> e, tag |-> Sealed(key, e, s, a)]
      BY <1>2, <2>1 DEF Issue, PortInv, Shapes
    <3> QED  BY <1>0, <3>1 DEF IssuedOK
  <2>2. CASE t # s
    BY <1>1, <1>2, <2>2 DEF Issue, PortInv, Shapes
  <2> QED  BY <2>1, <2>2
<1>3. \/ UNCHANGED issued
      \/ \E a \in Accounts, t \in Serials, e \in 1..MaxEpoch : Issue(a, t, e)
  BY WhoChanges
<1> QED  BY <1>1, <1>2, <1>3

LEMMA LedgerStep ==
  ASSUME PortInv, [Next]_vars, NEW s \in Serials
  PROVE  LedgerOK(s)'
<1>0. LedgerOK(s) /\ \A u \in Serials : issued[u] # None => issued'[u] = issued[u]
  BY Grows DEF PortInv
<1>1. CASE spent'[s] = spent[s]
  BY <1>0, <1>1 DEF LedgerOK
<1>2. ASSUME NEW x \in Exits, Spend(x), asking[x].envelope.token.serial = s
      PROVE  LedgerOK(s)'
  <2>1. issued[s] # None
    BY <1>2 DEF Spend, PortInv, AskOK
  <2> QED  BY <1>0, <2>1 DEF LedgerOK
<1>3. ASSUME NEW x \in Exits, NEW p \in Ports, Unmap(x, p), mappings[x][p].serial = s
      PROVE  LedgerOK(s)'
  <2>1. issued[s] # None
    BY <1>3 DEF Unmap, PortInv, MapOK
  <2> QED  BY <1>0, <2>1 DEF LedgerOK
<1> QED  BY <1>1, <1>2, <1>3, LedgerChanges

\* What the API opens it opens as long as it keeps the key.
LEMMA StillOpens ==
  ASSUME 1..key \subseteq 1..key', NEW tag, NEW account, OpensTo(tag, account)
  PROVE  OpensTo(tag, account)'
BY DEF OpensTo

LEMMA MapStep ==
  ASSUME PortInv, [Next]_vars, NEW x \in Exits, NEW p \in Ports
  PROVE  MapOK(x, p)'
<1> DEFINE m == mappings[x][p]
<1>0. /\ MapOK(x, p) /\ AskOK(x)
      /\ now \in Nat /\ now' \in Nat /\ now <= now' /\ 1..key \subseteq 1..key'
      /\ \A s \in Serials : issued[s] # None => issued'[s] = issued[s]
  BY Grows DEF PortInv
<1>1. CASE Answer(x) /\ asking[x].port = p /\ asking[x].granted = TRUE
  <2>1. /\ asking[x] # None /\ asking[x].granted # None
        /\ UNCHANGED <<now, key, issued, spent>>
        /\ mappings'[x][p] = [serial |-> asking[x].envelope.token.serial,
                              tag |-> asking[x].envelope.tag, since |-> now]
    BY <1>1 DEF Answer, PortInv, Shapes
  <2>2. LET s == asking[x].envelope.token.serial
        IN  /\ s \in Serials /\ issued[s] # None /\ spent[s] = x
            /\ OpensTo(asking[x].envelope.tag, issued[s].account)
    BY <1>0, <1>1, <2>1 DEF AskOK
  <2>3. PICK s, tag, account :
          /\ s \in Serials /\ s = asking[x].envelope.token.serial /\ tag = asking[x].envelope.tag
          /\ account = issued[s].account
    BY <2>2
  <2>4. OpensTo(tag, account)'
    BY <1>0, <2>2, <2>3, StillOpens
  <2>5. PICK w : /\ w = mappings'[x][p] /\ w.serial = s /\ w.tag = tag /\ w.since = now
    BY <2>1, <2>3
  <2>6. issued'[s] # None /\ issued'[s].account = account /\ spent'[s] = x
    BY <2>1, <2>2, <2>3
  <2>7. w.since \in 0..now'
    BY <1>0, <2>5
  <2>8. s \in Serials
    BY <2>3
  <2> HIDE DEF m
  <2> QED  BY ONLY <2>4, <2>5, <2>6, <2>7, <2>8 DEF MapOK
<1>2. CASE mappings'[x][p] = m /\ m # None
  <2>1. /\ m.serial \in Serials /\ issued[m.serial] # None /\ spent[m.serial] = x
        /\ m.since \in 0..now /\ OpensTo(m.tag, issued[m.serial].account)
    BY <1>0, <1>2 DEF MapOK
  <2>2. ASSUME NEW y \in Exits, NEW q \in Ports, Unmap(y, q), mappings[y][q].serial = m.serial,
               mappings'[y][q] = None
        PROVE  FALSE
    <3>1. mappings[y][q] # None
      BY <2>2 DEF Unmap
    <3>2. x = y /\ p = q
      BY <1>2, <2>2, <3>1 DEF PortInv, OnePortPerEntitlement
    <3> QED  BY <1>2, <2>2, <3>2
  <2>3. spent'[m.serial] = x
    BY <2>1, <2>2, LedgerChanges, PortNoneAssumption
  <2> QED  BY <1>0, <1>2, <2>1, <2>3 DEF MapOK, OpensTo
<1>3. CASE mappings'[x][p] = None
  BY <1>3 DEF MapOK
<1> QED  BY <1>1, <1>2, <1>3, PortChanges

\* The entitlement an answer maps is spent here and maps nothing else.
MapsUnmapped(x, p) ==
  /\ spent[mappings'[x][p].serial] = x
  /\ \A y \in Exits, q \in Ports :
       mappings[y][q] # None => mappings[y][q].serial # mappings'[x][p].serial

LEMMA AnswerMaps ==
  ASSUME PortInv, NEW x \in Exits, NEW p \in Ports,
         Answer(x), asking[x].port = p, asking[x].granted = TRUE
  PROVE  MapsUnmapped(x, p)
<1>1. AskOK(x) /\ asking[x] # None /\ asking[x].granted # None
  BY DEF Answer, PortInv
<1>2. mappings'[x][p].serial = asking[x].envelope.token.serial
  BY DEF Answer, PortInv, Shapes
<1> QED  BY <1>1, <1>2 DEF AskOK, MapsUnmapped

LEMMA OnePortStep ==
  ASSUME PortInv, [Next]_vars
  PROVE  OnePortPerEntitlement'
<1> SUFFICES ASSUME NEW x \in Exits, NEW y \in Exits, NEW p \in Ports, NEW q \in Ports,
                    mappings'[x][p] # None, mappings'[y][q] # None,
                    mappings'[x][p].serial = mappings'[y][q].serial
             PROVE  x = y /\ p = q
  BY DEF OnePortPerEntitlement
<1> DEFINE mapped == Answer(x) /\ asking[x].port = p /\ asking[x].granted = TRUE
           other  == Answer(y) /\ asking[y].port = q /\ asking[y].granted = TRUE
<1>0. \A z \in Exits, r \in Ports :
        \/ Answer(z) /\ asking[z].port = r /\ asking[z].granted = TRUE
        \/ mappings'[z][r] = mappings[z][r]
        \/ mappings'[z][r] = None
  BY PortChanges
<1>1. mapped \/ mappings'[x][p] = mappings[x][p]
  BY <1>0, Zenon
<1>2. other \/ mappings'[y][q] = mappings[y][q]
  BY <1>0, Zenon
<1>3. mapped => MapsUnmapped(x, p)
  BY AnswerMaps
<1>4. other => MapsUnmapped(y, q)
  BY AnswerMaps
<1>5. CASE mapped /\ other
  BY <1>3, <1>4, <1>5 DEF MapsUnmapped
<1>6. CASE mappings'[x][p] = mappings[x][p] /\ mappings'[y][q] = mappings[y][q]
  BY <1>6 DEF PortInv, OnePortPerEntitlement
<1>7. CASE mapped /\ mappings'[y][q] = mappings[y][q]
  BY <1>3, <1>7 DEF MapsUnmapped
<1>8. CASE other /\ mappings'[x][p] = mappings[x][p]
  BY <1>4, <1>8 DEF MapsUnmapped
<1> QED  BY <1>1, <1>2, <1>5, <1>6, <1>7, <1>8

LEMMA AskStep ==
  ASSUME PortInv, [Next]_vars, NEW x \in Exits
  PROVE  AskOK(x)'
<1> DEFINE a == asking[x]
           s == a.envelope.token.serial
<1>0. /\ AskOK(x)
      /\ now \in Nat /\ now' \in Nat /\ now <= now' /\ 1..key \subseteq 1..key'
      /\ \A u \in Serials : issued[u] # None => issued'[u] = issued[u]
  <2>1. AskOK(x)
    BY DEF PortInv
  <2>2. /\ now \in Nat /\ now' \in Nat /\ now <= now' /\ 1..key \subseteq 1..key'
        /\ \A u \in Serials : issued[u] # None => issued'[u] = issued[u]
    BY Grows
  <2> QED  BY <2>1, <2>2, Zenon
<1>1. CASE asking'[x] = None
  BY <1>1 DEF AskOK
<1>2. CASE a # None /\ asking'[x] = a /\ ~Answer(x)
  <2>1. /\ a = [port |-> a.port, envelope |-> a.envelope, granted |-> a.granted]
        /\ a.granted \in BOOLEAN \cup {None} /\ a.port \in Ports
        /\ s \in Serials /\ issued'[s] = issued[s] /\ issued[s] # None
        /\ OpensTo(a.envelope.tag, issued[s].account)
    BY <1>0, <1>2 DEF AskOK
  <2>2. OpensTo(a.envelope.tag, issued[s].account)'
    BY <1>0, <1>2, <2>1 DEF OpensTo
  <2>3. mappings'[x][a.port] = None /\ free_at'[x][a.port] <= now'
    <3>1. mappings[x][a.port] = None /\ free_at[x][a.port] <= now
      BY <1>0, <1>2 DEF AskOK
    <3>2. free_at[x][a.port] \in Nat
      BY <2>1 DEF PortInv, Shapes
    <3>3. PICK p \in Ports : p = a.port
      BY <2>1
    <3>4. ~Answer(x) /\ asking'[x] # None
      BY <1>2
    <3>5. mappings'[x][p] = mappings[x][p] /\ free_at'[x][p] = free_at[x][p]
      BY <3>1, <3>3, <3>4, PortChanges
    <3> QED  BY <1>0, <3>1, <3>2, <3>3, <3>5
  <2>4. ASSUME a.granted = TRUE /\ a.granted # None
        PROVE  /\ spent'[s] = x
               /\ \A y \in Exits, q \in Ports :
                    mappings'[y][q] # None => mappings'[y][q].serial # s
    <3>1. spent[s] = x
      BY <1>0, <1>2, <2>4 DEF AskOK
    <3>2. \A y \in Exits, q \in Ports : mappings[y][q] # None => mappings[y][q].serial # s
      BY <1>0, <1>2, <2>4 DEF AskOK
    <3>3. ASSUME NEW y \in Exits, NEW q \in Ports, Unmap(y, q), mappings[y][q].serial = s
          PROVE  FALSE
      BY <3>2, <3>3 DEF Unmap
    <3>4. spent'[s] = x
      BY <2>1, <3>1, <3>3, LedgerChanges, PortNoneAssumption
    <3>5. ASSUME NEW y \in Exits, NEW q \in Ports, mappings'[y][q] # None,
                 mappings'[y][q].serial = s
          PROVE  FALSE
      <4>0. mappings'[y][q] # mappings[y][q]
        BY <3>2, <3>5
      <4>1. Answer(y) /\ asking[y].port = q /\ asking[y].granted = TRUE
        BY <4>0, <3>5, PortChanges
      <4>2. MapsUnmapped(y, q)
        BY <4>1, AnswerMaps
      <4>3. y = x
        BY <3>1, <3>5, <4>2 DEF MapsUnmapped
      <4>4. Answer(x)
        BY <4>1, <4>3, Zenon
      <4>5. ~Answer(x)
        BY <1>2
      <4> QED  BY <4>4, <4>5
    <3> QED  BY <3>4, <3>5
  <2> QED  BY <1>2, <2>1, <2>2, <2>3, <2>4, Zenon DEF AskOK
<1>3. ASSUME NEW p \in Ports, NEW u \in Serials, NEW t \in Serials, NEW form \in Forms,
             Present(x, p, u, t, form)
      PROVE  AskOK(x)'
  <2> DEFINE envelope == Envelope(Token(u), issued[t].tag)
             got == Parsed(form, envelope)
  <2>1. /\ issued[u] # None /\ issued[t] # None /\ issued[u].account = issued[t].account
        /\ mappings[x][p] = None /\ free_at[x][p] <= now
        /\ Admits(form, envelope, published[x])
        /\ UNCHANGED <<now, key, issued, mappings, free_at>>
    BY <1>3 DEF Present
  <2>2. asking'[x] = [port |-> p, envelope |-> got, granted |-> None]
    <3>1. asking' = [asking EXCEPT ![x] = [port |-> p, envelope |-> got, granted |-> None]]
      BY <1>3 DEF Present
    <3>2. asking = [y \in Exits |-> asking[y]]
      BY DEF PortInv, Shapes
    <3> QED  BY ONLY <3>1, <3>2, x \in Exits
  <2>3. IssuedOK(t)
    BY DEF PortInv
  <2>4. PICK k \in 1..key : issued[t].tag = Sealed(k, issued[t].epoch, t, issued[t].account)
    BY <2>1, <2>3 DEF IssuedOK
  <2>5. got.token = Token(u) /\ OpensTo(got.tag, issued[t].account)
    BY <2>1, <2>4, AdmittedIsMinted
  <2>6. \E g : /\ asking'[x] = [port |-> p, envelope |-> g, granted |-> None]
               /\ g.token = Token(u) /\ OpensTo(g.tag, issued[t].account)
    BY <2>2, <2>5
  <2>7. PICK g : /\ asking'[x] = [port |-> p, envelope |-> g, granted |-> None]
                 /\ g.token = Token(u) /\ OpensTo(g.tag, issued[t].account)
    BY <2>6
  <2>8. g.token.serial = u
    BY <2>7 DEF Token
  <2>9. OpensTo(g.tag, issued[u].account)'
    <3>1. OpensTo(g.tag, issued[u].account)
      BY <2>1, <2>7
    <3>2. key' = key /\ issued' = issued
      BY <1>3 DEF Present
    <3> QED  BY ONLY <3>1, <3>2 DEF OpensTo
  <2> QED  BY <2>1, <2>7, <2>8, <2>9 DEF AskOK
<1>4. CASE Spend(x)
  <2>1. /\ a # None /\ a.granted = None
        /\ UNCHANGED <<now, key, issued, mappings, free_at>>
    BY <1>4 DEF Spend
  <2>2. PICK grant \in BOOLEAN :
          /\ grant <=> spent[s] = None /\ a.envelope.token.epoch = epoch
          /\ asking' = [asking EXCEPT ![x].granted = grant]
          /\ spent' = IF grant THEN [spent EXCEPT ![s] = x] ELSE spent
    BY <1>4 DEF Spend
  <2>3. /\ a = [port |-> a.port, envelope |-> a.envelope, granted |-> a.granted]
        /\ a.port \in Ports /\ s \in Serials /\ issued[s] # None
        /\ OpensTo(a.envelope.tag, issued[s].account)
        /\ mappings[x][a.port] = None /\ free_at[x][a.port] <= now
    BY <1>0, <2>1 DEF AskOK
  <2>4. asking'[x] = [port |-> a.port, envelope |-> a.envelope, granted |-> grant]
    <3>1. asking'[x] = [a EXCEPT !.granted = grant]
      BY <2>2 DEF PortInv, Shapes
    <3> QED  BY <2>3, <3>1
  <2>5. OpensTo(a.envelope.tag, issued[s].account)'
    BY <2>1, <2>3, <2>4 DEF OpensTo
  <2>6. ASSUME grant = TRUE
        PROVE  /\ spent'[s] = x
               /\ \A y \in Exits, q \in Ports :
                    mappings[y][q] # None => mappings[y][q].serial # s
    <3>1. spent'[s] = x
      <4>1. spent \in [Serials -> Exits \cup {None}]
        BY DEF PortInv, Shapes
      <4>2. spent' = [spent EXCEPT ![s] = x]
        BY <2>2, <2>6
      <4> QED  BY <2>3, <4>1, <4>2
    <3>2. \A y \in Exits, q \in Ports : mappings[y][q] # None => spent[mappings[y][q].serial] = y
      BY DEF PortInv, MapOK
    <3>3. spent[s] = None
      BY <2>2, <2>6
    <3> QED  BY <3>1, <3>2, <3>3, PortNoneAssumption
  <2>7. /\ asking'[x].port = a.port /\ asking'[x].envelope = a.envelope
        /\ asking'[x].granted = grant
    BY <2>4
  <2>8. mappings'[x][a.port] = None /\ free_at'[x][a.port] <= now' /\ issued'[s] # None
    BY <2>1, <2>3
  <2>9. grant = TRUE => \A y \in Exits, q \in Ports :
                          mappings'[y][q] # None => mappings'[y][q].serial # s
    BY <2>1, <2>6
  <2>10. asking'[x] = [port |-> asking'[x].port, envelope |-> asking'[x].envelope,
                       granted |-> asking'[x].granted]
    BY <2>4
  <2> QED  BY <2>3, <2>5, <2>6, <2>7, <2>8, <2>9, <2>10, Zenon DEF AskOK
<1>5. CASE a = None /\ asking'[x] = a
  BY <1>1, <1>5
<1> QED  BY <1>1, <1>2, <1>3, <1>4, <1>5, AskChanges

-----------------------------------------------------------------------------
(* Cases *)

\* Who held a port at a moment that is over stays known to its mapping or rest.
LEMMA HolderStep ==
  ASSUME PortInv, [Next]_vars, NEW x \in Exits, NEW p \in Ports, NEW at \in Nat, NEW culprit,
         at <= now, HeldBy(x, p, at, culprit)
  PROVE  HeldBy(x, p, at, culprit)'
<1>0. /\ MapOK(x, p) /\ AskOK(x)
      /\ now \in Nat /\ now' \in Nat /\ now <= now'
      /\ \A s \in Serials : issued[s] # None => issued'[s] = issued[s]
      /\ Cooldown \in Nat \ {0}
  BY Grows, PortBoundsAssumption DEF PortInv
<1>1. CASE Answer(x) /\ asking[x].port = p /\ asking[x].granted = TRUE
  <2>1. mappings[x][p] = None /\ free_at[x][p] <= now
    BY <1>0, <1>1 DEF AskOK, Answer
  <2>2. asking[x] # None /\ asking[x].granted # None
    BY <1>1 DEF Answer
  <2>3. mappings'[x][p] = [serial |-> asking[x].envelope.token.serial,
                           tag |-> asking[x].envelope.tag, since |-> now]
    BY <1>1, <2>2 DEF Answer, PortInv, Shapes
  <2>4. free_at[x][p] > at
    BY <2>1 DEF HeldBy
  <2>5. free_at[x][p] \in Nat
    BY DEF PortInv, Shapes
  <2>6. now > at /\ mappings'[x][p].since = now
    BY <1>0, <2>1, <2>3, <2>4, <2>5
  <2>7. free_at'[x][p] > at
    BY <1>1, <2>4 DEF Answer
  <2> QED  BY <1>0, <2>6, <2>7 DEF HeldBy
<1>2. CASE mappings'[x][p] = mappings[x][p] /\ free_at'[x][p] = free_at[x][p]
  <2>1. CASE mappings[x][p] = None
    BY <1>2, <2>1 DEF HeldBy
  <2>2. CASE mappings[x][p] # None
    <3>1. issued'[mappings[x][p].serial] = issued[mappings[x][p].serial]
      BY <1>0, <2>2 DEF MapOK
    <3> QED  BY <1>2, <2>2, <3>1 DEF HeldBy, Holder
  <2> QED  BY <2>1, <2>2
<1>3. CASE mappings'[x][p] = None /\ free_at'[x][p] = now + Cooldown
  <2>1. free_at'[x][p] > at
    BY <1>0, <1>3
  <2> QED  BY <1>3, <2>1 DEF HeldBy
<1> QED  BY <1>1, <1>2, <1>3, PortChanges

\* An acknowledgement accuses the culprit of its case, or nobody.
LEMMA AccusedIsCulprit ==
  ASSUME PortInv, NEW a \in acks
  PROVE  Accused(a, cases[a.case].at) \in {None, cases[a.case].culprit}
<1>1. AckOK(a) /\ key \in 1..MaxKey
  BY DEF PortInv, Shapes
<1>2. CASE a.outcome = "revoked" /\ a.holder_since <= cases[a.case].at
  BY <1>1, <1>2 DEF AckOK, Accused
<1>3. CASE ~(a.outcome = "revoked" /\ a.holder_since <= cases[a.case].at)
  BY <1>3 DEF Accused
<1> QED  BY <1>2, <1>3

\* What an acknowledgement does to its case.
LEMMA AckCloses ==
  ASSUME PortInv, NEW a \in acks, HandleAck(a)
  PROVE  \E r \in CaseRecord, strike \in Accounts \cup {None} :
           /\ cases[a.case] = r
           /\ strike \in {None, r.culprit}
           /\ cases' = [cases EXCEPT ![a.case] = [r EXCEPT !.closed = TRUE, !.strike = strike]]
<1>1. a.case \in Cases /\ cases[a.case] # None /\ cases \in [Cases -> CaseRecord \cup {None}]
  BY DEF PortInv, Shapes, AckOK
<1>2. PICK r \in CaseRecord : cases[a.case] = r
  BY <1>1
<1>3. PICK strike : strike = Accused(a, cases[a.case].at)
  OBVIOUS
<1>4. strike \in {None, r.culprit} /\ strike \in Accounts \cup {None}
  BY <1>2, <1>3, AccusedIsCulprit DEF CaseRecord
<1>5. cases' = [cases EXCEPT ![a.case].closed = TRUE, ![a.case].strike = strike]
  BY <1>3 DEF HandleAck
<1>6. cases' = [cases EXCEPT ![a.case] = [r EXCEPT !.closed = TRUE, !.strike = strike]]
  BY <1>1, <1>2, <1>5
<1> QED  BY <1>2, <1>4, <1>6

LEMMA CasesStep ==
  ASSUME PortInv, [Next]_vars
  PROVE  /\ cases' \in [Cases -> CaseRecord \cup {None}]
         /\ \A c \in Cases : cases[c] # None =>
              cases'[c] # None /\ cases'[c].at = cases[c].at /\ cases'[c].culprit = cases[c].culprit
<1>0. /\ cases \in [Cases -> CaseRecord \cup {None}] /\ None \notin CaseRecord
      /\ now \in 0..MaxTime
  BY PortNoneAssumption DEF PortInv, Shapes
<1>1. ASSUME NEW c \in Cases, NEW x \in Exits, NEW p \in Ports, Incident(c, x, p)
      PROVE  /\ cases' \in [Cases -> CaseRecord \cup {None}]
             /\ \A d \in Cases : cases[d] # None => cases'[d] = cases[d]
  <2>1. Holder(mappings[x][p]) \in Accounts
    BY <1>1 DEF Incident, Holder, PortInv, MapOK, IssuedOK
  <2>2. cases' = [cases EXCEPT ![c] =
                    [exit |-> x, port |-> p, at |-> now, closed |-> FALSE,
                     strike |-> None, culprit |-> Holder(mappings[x][p])]]
    BY <1>1 DEF Incident
  <2>3. [exit |-> x, port |-> p, at |-> now, closed |-> FALSE,
         strike |-> None, culprit |-> Holder(mappings[x][p])] \in CaseRecord
    BY <1>0, <2>1 DEF CaseRecord
  <2>4. cases[c] = None
    BY <1>1 DEF Incident
  <2> QED  BY <1>0, <2>2, <2>3, <2>4
<1>2. ASSUME NEW a \in acks, HandleAck(a)
      PROVE  /\ cases' \in [Cases -> CaseRecord \cup {None}]
             /\ \A d \in Cases : cases[d] # None =>
                  /\ cases'[d] # None
                  /\ cases'[d].at = cases[d].at /\ cases'[d].culprit = cases[d].culprit
  <2>1. PICK r \in CaseRecord, strike \in Accounts \cup {None} :
          /\ cases[a.case] = r
          /\ strike \in {None, r.culprit}
          /\ cases' = [cases EXCEPT ![a.case] = [r EXCEPT !.closed = TRUE, !.strike = strike]]
    BY <1>2, AckCloses
  <2>2. [r EXCEPT !.closed = TRUE, !.strike = strike] \in CaseRecord
    BY <2>1 DEF CaseRecord
  <2>3. /\ [r EXCEPT !.closed = TRUE, !.strike = strike].at = r.at
        /\ [r EXCEPT !.closed = TRUE, !.strike = strike].culprit = r.culprit
    BY DEF CaseRecord
  <2>4. ASSUME NEW d \in Cases, d # a.case  PROVE cases'[d] = cases[d]
    BY <1>0, <2>1, <2>4
  <2>5. a.case \in Cases
    BY DEF PortInv, AckOK
  <2>6. /\ cases'[a.case] \in CaseRecord
        /\ cases'[a.case].at = cases[a.case].at
        /\ cases'[a.case].culprit = cases[a.case].culprit
    BY <1>0, <2>1, <2>2, <2>3, <2>5
  <2>7. cases' \in [Cases -> CaseRecord \cup {None}]
    BY <1>0, <2>1, <2>2
  <2> QED  BY <1>0, <2>4, <2>6, <2>7
<1>3. CASE UNCHANGED cases
  BY <1>0, <1>3
<1>4. \/ UNCHANGED cases
      \/ \E c \in Cases, x \in Exits, p \in Ports : Incident(c, x, p)
      \/ \E a \in acks : HandleAck(a)
  BY WhoChanges
<1> QED  BY <1>1, <1>2, <1>3, <1>4

LEMMA CaseStep ==
  ASSUME PortInv, [Next]_vars, NEW c \in Cases
  PROVE  CaseOK(c)'
<1>0. /\ CaseOK(c) /\ now \in Nat /\ now' \in Nat /\ now <= now'
      /\ cases \in [Cases -> CaseRecord \cup {None}]
  BY Grows DEF PortInv, Shapes
<1> DEFINE kept(r) == /\ r.at \in Nat /\ r.at <= now /\ r.exit \in Exits /\ r.port \in Ports
                      /\ r.strike \in {None, r.culprit}
                      /\ HeldBy(r.exit, r.port, r.at, r.culprit)
<1>1. ASSUME NEW r \in CaseRecord, kept(r), cases'[c] = r
      PROVE  CaseOK(c)'
  <2>1. HeldBy(r.exit, r.port, r.at, r.culprit)'
    BY <1>1, HolderStep
  <2> QED  BY <1>0, <1>1, <2>1 DEF CaseOK
<1>2. ASSUME NEW r \in CaseRecord, cases[c] = r, cases[c] # None
      PROVE  kept(r)
  BY <1>0, <1>2, PortBoundsAssumption DEF CaseOK, CaseRecord
<1>3. CASE cases'[c] = cases[c] /\ cases[c] # None
  <2>1. PICK r \in CaseRecord : cases[c] = r
    BY <1>0, <1>3
  <2>2. cases'[c] = r
    BY <1>3, <2>1
  <2>3. kept(r)
    BY <1>2, <1>3, <2>1
  <2> QED  BY <1>1, <2>2, <2>3
<1>4. ASSUME NEW x \in Exits, NEW p \in Ports, Incident(c, x, p)
      PROVE  CaseOK(c)'
  <2>1. /\ mappings[x][p] # None
        /\ cases' = [cases EXCEPT ![c] =
                       [exit |-> x, port |-> p, at |-> now, closed |-> FALSE,
                        strike |-> None, culprit |-> Holder(mappings[x][p])]]
        /\ UNCHANGED <<now, issued, mappings, free_at>>
    BY <1>4 DEF Incident
  <2>2. cases'[c] = [exit |-> x, port |-> p, at |-> now, closed |-> FALSE,
                     strike |-> None, culprit |-> Holder(mappings[x][p])]
    BY <1>0, <2>1
  <2>3. /\ cases'[c].exit = x /\ cases'[c].port = p /\ cases'[c].at = now
        /\ cases'[c].strike = None /\ cases'[c].culprit = Holder(mappings[x][p])
    BY <2>2
  <2>4. mappings' = mappings /\ Holder(mappings[x][p])' = Holder(mappings[x][p])
    BY <2>1 DEF Holder
  <2>5. HeldBy(cases[c].exit, cases[c].port, cases[c].at, cases[c].culprit)'
    BY <2>1, <2>3, <2>4 DEF HeldBy
  <2> QED  BY <1>0, <2>1, <2>3, <2>5 DEF CaseOK
<1>5. ASSUME NEW a \in acks, HandleAck(a), a.case = c
      PROVE  CaseOK(c)'
  <2>0. PICK r \in CaseRecord, strike \in Accounts \cup {None} :
          /\ cases[a.case] = r
          /\ strike \in {None, r.culprit}
          /\ cases' = [cases EXCEPT ![a.case] = [r EXCEPT !.closed = TRUE, !.strike = strike]]
    BY <1>5, AckCloses
  <2>1. /\ cases[c] = r
        /\ strike \in {None, r.culprit}
        /\ cases' = [cases EXCEPT ![c] = [r EXCEPT !.closed = TRUE, !.strike = strike]]
    BY <1>5, <2>0
  <2> DEFINE q == [r EXCEPT !.closed = TRUE, !.strike = strike]
  <2>2. q \in CaseRecord /\ cases'[c] = q
    <3>1. cases[c] # None
      BY <2>1, PortNoneAssumption
    <3>2. strike \in Accounts \cup {None}
      BY <2>1 DEF CaseRecord
    <3>3. q \in CaseRecord
      BY <3>2 DEF CaseRecord
    <3> QED  BY <1>0, <2>1, <3>3
  <2>3. kept(r)
    BY <1>2, <2>1, PortNoneAssumption
  <2>4. /\ q.at = r.at /\ q.exit = r.exit /\ q.port = r.port
        /\ q.culprit = r.culprit /\ q.strike = strike
    BY DEF CaseRecord
  <2> HIDE DEF q
  <2>5. kept(q)
    BY <2>1, <2>3, <2>4
  <2> QED  BY <1>1, <2>2, <2>5
<1>6. CASE cases'[c] = cases[c] /\ cases[c] = None
  BY <1>6 DEF CaseOK
<1> QED  BY <1>3, <1>4, <1>5, <1>6, CaseChanges

LEMMA AckStep ==
  ASSUME PortInv, [Next]_vars, NEW a \in acks'
  PROVE  AckOK(a)'
<1>0. /\ \A c \in Cases : cases[c] # None =>
           cases'[c] # None /\ cases'[c].at = cases[c].at /\ cases'[c].culprit = cases[c].culprit
      /\ key \in 1..MaxKey
  BY CasesStep DEF PortInv, Shapes
<1>1. CASE a \in acks
  <2>1. AckOK(a)
    BY <1>1 DEF PortInv
  <2> QED  BY <1>0, <2>1 DEF AckOK
<1>2. ASSUME NEW c \in Cases, ApplyAbuseRevoke(c), a \notin acks
      PROVE  AckOK(a)'
  <2> DEFINE x == cases[c].exit
             p == cases[c].port
             m == mappings[x][p]
  <2>1. cases[c] # None /\ cases' = cases
    BY <1>2 DEF ApplyAbuseRevoke
  <2>2. CASE m = None
    <3>1. a = [case |-> c, outcome |-> "not_allocated"]
      <4>1. acks' = acks \cup {[case |-> c, outcome |-> "not_allocated"]}
        BY <1>2, <2>2 DEF ApplyAbuseRevoke
      <4> QED  BY <1>2, <4>1
    <3> QED  BY <2>1, <3>1 DEF AckOK
  <2>3. CASE m # None
    <3>1. a = [case |-> c, outcome |-> "revoked", holder_since |-> m.since, tag |-> m.tag]
      BY <1>2, <2>3 DEF ApplyAbuseRevoke
    <3>2. x \in Exits /\ p \in Ports /\ CaseOK(c)
      <4>1. cases[c] \in CaseRecord
        BY <2>1 DEF PortInv, Shapes
      <4> QED  BY <4>1 DEF CaseRecord, PortInv
    <3>3. OpensTo(m.tag, Holder(m))
      BY <2>3, <3>2 DEF PortInv, MapOK, Holder
    <3>4. ASSUME m.since <= cases[c].at
          PROVE  Holder(m) = cases[c].culprit
      BY <2>1, <2>3, <3>2, <3>4 DEF CaseOK, HeldBy
    <3>5. a.case = c /\ a.tag = m.tag /\ a.holder_since = m.since
      BY <3>1
    <3>6. ASSUME a.holder_since <= cases[a.case].at
          PROVE  \A k \in 1..MaxKey : Opened(a.tag, k) \in {None, cases[a.case].culprit}
      <4>1. OpensTo(a.tag, cases[c].culprit)
        BY <3>3, <3>4, <3>5, <3>6
      <4> QED  BY <3>5, <4>1, OpensToOne
    <3> QED  BY <2>1, <3>5, <3>6, Zenon DEF AckOK
  <2> QED  BY <2>2, <2>3
<1>3. acks' = acks \/ \E c \in Cases : ApplyAbuseRevoke(c)
  BY WhoChanges
<1> QED  BY <1>1, <1>2, <1>3

LEMMA ShapesStep ==
  ASSUME PortInv, [Next]_vars
  PROVE  Shapes'
<1> USE PortBoundsAssumption DEF PortInv, Shapes
<1>1. now' \in 0..MaxTime /\ epoch' \in 1..MaxEpoch /\ key' \in 1..MaxKey
  <2>1. CASE Tick
    BY <2>1 DEF Tick
  <2>2. CASE NextEpoch
    BY <2>2 DEF NextEpoch
  <2>3. CASE RotateKey
    BY <2>3 DEF RotateKey
  <2>4. CASE UNCHANGED <<now, epoch, key>>
    BY <2>4
  <2>5. Tick \/ NextEpoch \/ RotateKey \/ UNCHANGED <<now, epoch, key>>
    <3> HIDE DEF PortInv, Shapes
    <3> QED  BY WhoChanges
  <2> QED  BY <2>1, <2>2, <2>3, <2>4, <2>5
<1>2. published' \in [Exits -> 1..key']
  <2>1. ASSUME NEW x \in Exits, RefreshPublished(x)
        PROVE  published' \in [Exits -> 1..key']
    BY <2>1 DEF RefreshPublished
  <2>2. CASE UNCHANGED published
    <3>1. 1..key \subseteq 1..key'
      BY Grows
    <3> QED  BY <2>2, <3>1
  <2>3. UNCHANGED published \/ \E x \in Exits : RefreshPublished(x)
    <3> HIDE DEF PortInv, Shapes
    <3> QED  BY WhoChanges
  <2> QED  BY <2>1, <2>2, <2>3
<1>3. issued' = [s \in Serials |-> issued'[s]]
  <2>1. UNCHANGED issued \/ \E a \in Accounts, s \in Serials, e \in 1..MaxEpoch : Issue(a, s, e)
    <3> HIDE DEF PortInv, Shapes
    <3> QED  BY WhoChanges
  <2> QED  BY <2>1 DEF Issue
<1>4. asking' = [x \in Exits |-> asking'[x]]
  <2>1. ASSUME NEW x \in Exits, NEW b, asking' = [asking EXCEPT ![x] = b]
        PROVE  asking' = [y \in Exits |-> asking'[y]]
    BY <2>1
  <2>2. ASSUME NEW x \in Exits, Answer(x) \/ LoseAnswer(x) \/ RestartExit(x)
        PROVE  asking' = [y \in Exits |-> asking'[y]]
    BY <2>2 DEF Answer, LoseAnswer, RestartExit
  <2>3. ASSUME NEW x \in Exits, NEW p \in Ports, NEW s \in Serials, NEW t \in Serials,
               NEW form \in Forms, Present(x, p, s, t, form)
        PROVE  asking' = [y \in Exits |-> asking'[y]]
    BY <2>3 DEF Present
  <2>4. ASSUME NEW x \in Exits, Spend(x)
        PROVE  asking' = [y \in Exits |-> asking'[y]]
    BY <2>4 DEF Spend
  <2>5. CASE UNCHANGED asking
    BY <2>5
  <2>6. \/ UNCHANGED asking
        \/ \E x \in Exits : Answer(x) \/ LoseAnswer(x) \/ RestartExit(x) \/ Spend(x)
        \/ \E x \in Exits, p \in Ports, s \in Serials, t \in Serials, form \in Forms :
             Present(x, p, s, t, form)
    <3> HIDE DEF PortInv, Shapes
    <3> QED  BY WhoChanges
  <2> HIDE DEF PortInv, Shapes
  <2> QED  BY <2>2, <2>3, <2>4, <2>5, <2>6
<1>5. /\ mappings' = [x \in Exits |-> [p \in Ports |-> mappings'[x][p]]]
      /\ free_at' \in [Exits -> [Ports -> Nat]]
  <2>1. /\ mappings = [x \in Exits |-> [p \in Ports |-> mappings[x][p]]]
        /\ free_at \in [Exits -> [Ports -> Nat]] /\ now + Cooldown \in Nat
    OBVIOUS
  <2>2. ASSUME NEW x \in Exits, NEW p \in Ports, NEW m, mappings' = [mappings EXCEPT ![x][p] = m]
        PROVE  mappings' = [y \in Exits |-> [q \in Ports |-> mappings'[y][q]]]
    BY <2>1, <2>2
  <2>3. ASSUME NEW x \in Exits, NEW p \in Ports,
               free_at' = [free_at EXCEPT ![x][p] = now + Cooldown]
        PROVE  free_at' \in [Exits -> [Ports -> Nat]]
    BY <2>1, <2>3
  <2>4. ASSUME NEW x \in Exits, RestartExit(x)
        PROVE  /\ mappings' = [y \in Exits |-> [p \in Ports |-> mappings'[y][p]]]
               /\ free_at' \in [Exits -> [Ports -> Nat]]
    BY <2>1, <2>4 DEF RestartExit
  <2>5. ASSUME NEW x \in Exits, Answer(x)
        PROVE  \E p \in Ports : \E m : mappings' \in {mappings, [mappings EXCEPT ![x][p] = m]}
    <3>1. asking[x].port \in Ports
      <4> HIDE DEF PortInv, Shapes
      <4>1. AskOK(x) /\ asking[x] # None
        BY <2>5 DEF Answer, PortInv
      <4> QED  BY <4>1 DEF AskOK
    <3> QED  BY <2>5, <3>1 DEF Answer
  <2>6. ASSUME NEW c \in Cases, ApplyAbuseRevoke(c)
        PROVE  \E x \in Exits, p \in Ports :
                 \/ UNCHANGED <<mappings, free_at>>
                 \/ /\ mappings' = [mappings EXCEPT ![x][p] = None]
                    /\ free_at' = [free_at EXCEPT ![x][p] = now + Cooldown]
    <3>1. cases[c] # None
      <4> HIDE DEF PortInv, Shapes
      <4> QED  BY <2>6 DEF ApplyAbuseRevoke
    <3>2. cases[c] \in CaseRecord
      BY <3>1
    <3>3. cases[c].exit \in Exits /\ cases[c].port \in Ports
      <4> HIDE DEF PortInv, Shapes
      <4> QED  BY <3>2 DEF CaseRecord
    <3> HIDE DEF PortInv, Shapes
    <3> QED  BY <2>6, <3>3 DEF ApplyAbuseRevoke
  <2>7. \/ UNCHANGED <<mappings, free_at>>
        \/ \E x \in Exits : Answer(x) \/ RestartExit(x)
        \/ \E x \in Exits, p \in Ports : Unmap(x, p)
        \/ \E c \in Cases : ApplyAbuseRevoke(c)
    <3> HIDE DEF PortInv, Shapes
    <3> QED  BY WhoChanges
  <2>8. ASSUME NEW x \in Exits, Answer(x)
        PROVE  free_at' = free_at
    BY <2>8 DEF Answer
  <2>9. ASSUME NEW x \in Exits, NEW p \in Ports, Unmap(x, p)
        PROVE  /\ mappings' = [mappings EXCEPT ![x][p] = None]
               /\ free_at' = [free_at EXCEPT ![x][p] = now + Cooldown]
    BY <2>9 DEF Unmap
  <2> HIDE DEF PortInv, Shapes
  <2> DEFINE goal == /\ mappings' = [y \in Exits |-> [q \in Ports |-> mappings'[y][q]]]
                     /\ free_at' \in [Exits -> [Ports -> Nat]]
  <2>10. ASSUME UNCHANGED <<mappings, free_at>>  PROVE goal
    BY <2>1, <2>10
  <2>11. ASSUME NEW x \in Exits, NEW p \in Ports,
                mappings' = [mappings EXCEPT ![x][p] = None],
                free_at' = [free_at EXCEPT ![x][p] = now + Cooldown]
         PROVE  goal
    BY <2>2, <2>3, <2>11
  <2>12. ASSUME NEW x \in Exits, Answer(x)
         PROVE  goal
    <3>1. PICK p \in Ports : \E m : mappings' \in {mappings, [mappings EXCEPT ![x][p] = m]}
      BY <2>5, <2>12
    <3>2. PICK m : mappings' \in {mappings, [mappings EXCEPT ![x][p] = m]}
      BY <3>1
    <3>3. mappings' = [y \in Exits |-> [q \in Ports |-> mappings'[y][q]]]
      BY <2>1, <2>2, <3>2
    <3>4. free_at' \in [Exits -> [Ports -> Nat]]
      BY <2>1, <2>8, <2>12
    <3> QED  BY <3>3, <3>4
  <2> HIDE DEF goal
  <2>13. ASSUME NEW c \in Cases, ApplyAbuseRevoke(c)
         PROVE  goal
    <3>1. PICK x \in Exits, p \in Ports :
            \/ UNCHANGED <<mappings, free_at>>
            \/ /\ mappings' = [mappings EXCEPT ![x][p] = None]
               /\ free_at' = [free_at EXCEPT ![x][p] = now + Cooldown]
      BY <2>6, <2>13
    <3> QED  BY <2>10, <2>11, <3>1
  <2>14. ASSUME NEW x \in Exits, NEW p \in Ports, Unmap(x, p)
         PROVE  goal
    BY <2>9, <2>11, <2>14
  <2>15. ASSUME NEW x \in Exits, RestartExit(x)
         PROVE  goal
    BY <2>4, <2>15 DEF goal
  <2>16. goal
    <3>1. CASE UNCHANGED <<mappings, free_at>>
      BY <2>10, <3>1
    <3>2. CASE \E x \in Exits : Answer(x) \/ RestartExit(x)
      BY <2>12, <2>15, <3>2
    <3>3. CASE \E x \in Exits, p \in Ports : Unmap(x, p)
      BY <2>14, <3>3
    <3>4. CASE \E c \in Cases : ApplyAbuseRevoke(c)
      BY <2>13, <3>4
    <3> QED  BY <2>7, <3>1, <3>2, <3>3, <3>4
  <2> QED  BY <2>16 DEF goal
<1>6. spent' \in [Serials -> Exits \cup {None}]
  <2>1. ASSUME NEW x \in Exits, Spend(x)  PROVE spent' \in [Serials -> Exits \cup {None}]
    <3>1. \/ spent' = spent
          \/ spent' = [spent EXCEPT ![asking[x].envelope.token.serial] = x]
      BY <2>1 DEF Spend
    <3> QED  BY <3>1
  <2>2. ASSUME NEW x \in Exits, NEW p \in Ports, Unmap(x, p)
        PROVE  spent' \in [Serials -> Exits \cup {None}]
    BY <2>2 DEF Unmap
  <2>3. \/ UNCHANGED spent \/ \E x \in Exits : Spend(x)
        \/ \E x \in Exits, p \in Ports : Unmap(x, p)
    <3> HIDE DEF PortInv, Shapes
    <3> QED  BY WhoChanges
  <2> QED  BY <2>1, <2>2, <2>3
<1>7. cases' \in [Cases -> CaseRecord \cup {None}]
  <2> HIDE DEF PortInv, Shapes
  <2> QED  BY CasesStep
<1> QED  BY <1>1, <1>2, <1>3, <1>4, <1>5, <1>6, <1>7

-----------------------------------------------------------------------------
(* The theorems *)

LEMMA PortInvariant == Spec => []PortInv
<1>1. Init => PortInv
  <2> SUFFICES ASSUME Init PROVE PortInv
    OBVIOUS
  <2>1. Shapes
    BY PortBoundsAssumption DEF Init, Shapes
  <2>2. \A s \in Serials : IssuedOK(s) /\ LedgerOK(s)
    BY DEF Init, IssuedOK, LedgerOK
  <2>3. (\A x \in Exits, p \in Ports : MapOK(x, p)) /\ OnePortPerEntitlement
    BY DEF Init, MapOK, OnePortPerEntitlement
  <2>4. \A x \in Exits : AskOK(x)
    BY DEF Init, AskOK
  <2>5. (\A c \in Cases : CaseOK(c)) /\ (\A a \in acks : AckOK(a))
    BY DEF Init, CaseOK
  <2> QED  BY <2>1, <2>2, <2>3, <2>4, <2>5 DEF PortInv
<1>2. PortInv /\ [Next]_vars => PortInv'
  <2> SUFFICES ASSUME PortInv, [Next]_vars PROVE PortInv'
    OBVIOUS
  <2>1. (\A s \in Serials : IssuedOK(s) /\ LedgerOK(s))'
    BY IssuedStep, LedgerStep
  <2>2. (\A x \in Exits, p \in Ports : MapOK(x, p))'
    BY MapStep
  <2>3. (\A x \in Exits : AskOK(x))'
    BY AskStep
  <2>4. (\A c \in Cases : CaseOK(c))'
    BY CaseStep
  <2>5. (\A a \in acks : AckOK(a))'
    BY AckStep
  <2> QED  BY ShapesStep, OnePortStep, <2>1, <2>2, <2>3, <2>4, <2>5 DEF PortInv
<1> QED  BY <1>1, <1>2, PTL DEF Spec

(***************************************************************************)
(* The state of the port-forward system stays in its type: what an exit    *)
(* asks for was issued, what it maps is spent there, and every             *)
(* acknowledgement is of a case.                                           *)
(***************************************************************************)
THEOREM PortTypeCorrect == Spec => []TypeOK
<1>1. PortInv => TypeOK
  BY DEF PortInv, Shapes, IssuedOK, LedgerOK, MapOK, AskOK, AckOK, TypeOK
<1> QED  BY <1>1, PortInvariant, PTL

(***************************************************************************)
(* For every fleet and every account: the tag an exit keeps with a mapped  *)
(* port opens, under a key the API has had, to the account the entitlement *)
(* was issued to, whatever came over the wire.                             *)
(***************************************************************************)
THEOREM GrantsAreAccountable == Spec => []GrantIsAccountable
<1>1. ASSUME PortInv  PROVE GrantIsAccountable
  <2>1. ASSUME NEW x \in Exits, NEW p \in Ports, mappings[x][p] # None
        PROVE  \E k \in 1..key : Opened(mappings[x][p].tag, k) = Holder(mappings[x][p])
    <3>1. OpensTo(mappings[x][p].tag, issued[mappings[x][p].serial].account)
      BY <1>1, <2>1 DEF PortInv, MapOK
    <3>2. \E k \in 1..key :
            Opened(mappings[x][p].tag, k) = issued[mappings[x][p].serial].account
      BY <3>1, OpensToOne
    <3> QED  BY <2>1, <3>2 DEF Holder
  <2> QED  BY <2>1 DEF GrantIsAccountable
<1> QED  BY <1>1, PortInvariant, PTL

(***************************************************************************)
(* For every fleet: one entitlement never maps two ports, although answers *)
(* are lost, exits restart and the ledger's releases may not arrive.       *)
(***************************************************************************)
THEOREM EntitlementsMapOnce == Spec => []OnePortPerEntitlement
<1>1. PortInv => OnePortPerEntitlement
  BY DEF PortInv
<1> QED  BY <1>1, PortInvariant, PTL

(***************************************************************************)
(* For every fleet and every cooldown of at least a second: a strike hits  *)
(* the account that held the port when the incident happened, or nobody.   *)
(***************************************************************************)
THEOREM StrikesHitTheCulprit == Spec => []StrikeHitsHolder
<1>1. PortInv => StrikeHitsHolder
  BY DEF PortInv, CaseOK, StrikeHitsHolder
<1> QED  BY <1>1, PortInvariant, PTL
=============================================================================
