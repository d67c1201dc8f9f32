----------------------------- MODULE PortForward -----------------------------
(***************************************************************************)
(* Port forwarding and its attribution across API, exits and clients: an   *)
(* account is issued entitlements with tags, presents them to exits, an    *)
(* exit spends the entitlement at the API and maps a port; an abuse        *)
(* complaint about a port travels to the exit, its acknowledgement brings  *)
(* the tag back, and the API opens it to strike an account                 *)
(* (src/pf_attribution.rs and the port-forward documents of src/dto.rs).   *)
(*                                                                         *)
(* Epochs roll over, the API key rotates, exits restart and lose their     *)
(* mappings (they are in RAM only), answers and acknowledgements are lost, *)
(* delayed and repeated.                                                   *)
(*                                                                         *)
(* The API and the exits are other repositories: what they do with these   *)
(* documents is what the documents say their fields are for.               *)
(***************************************************************************)
EXTENDS PortTag, FiniteSets

CONSTANTS
  Accounts, Exits, Ports,
  Serials,        \* the entitlements that may be issued
  Cases,          \* abuse cases
  Forms,          \* what may arrive of an envelope
  Cooldown,       \* seconds a port rests after its mapping ends
  Prefetch,       \* how many epochs ahead the API issues
  MaxKey,         \* bound on the API keys
  MaxEpoch,       \* bound on the epochs
  MaxTime         \* bound on the clock

\* What the API keeps of a case.
CaseRecord ==
  [exit : Exits, port : Ports, at : 0..MaxTime, closed : BOOLEAN,
   strike : Accounts \cup {None}, culprit : Accounts]

ASSUME PortNoneAssumption == None \notin Accounts \cup Exits \cup CaseRecord
ASSUME PortBoundsAssumption ==
  /\ Cooldown \in Nat \ {0} /\ Prefetch \in Nat
  /\ MaxKey \in Nat \ {0} /\ MaxEpoch \in Nat \ {0} /\ MaxTime \in Nat

VARIABLES
  now,        \* seconds
  epoch,      \* the current entitlement epoch
  key,        \* the API signing key
  published,  \* the attribution key each exit fetched last
  issued,     \* what was issued under each serial, or None
  spent,      \* the API's ledger: the exit each serial is spent at, or None
  asking,     \* each exit's outstanding spend, or None
  mappings,   \* each exit's mapping of each port, or None
  free_at,    \* when each port of each exit may be mapped again
  cases,      \* what the API knows of each case, or None
  acks        \* acknowledgements on their way to the API

vars == <<now, epoch, key, published, issued, spent, asking, mappings, free_at, cases, acks>>

Token(s) == [serial |-> s, epoch |-> issued[s].epoch]

Holder(mapping) == IF mapping = None THEN None ELSE issued[mapping.serial].account

TypeOK ==
  /\ now \in 0..MaxTime /\ epoch \in 1..MaxEpoch /\ key \in 1..MaxKey
  /\ published \in [Exits -> 1..key]
  /\ \A s \in Serials :
       issued[s] # None => issued[s].account \in Accounts /\ issued[s].epoch \in 1..MaxEpoch
  /\ spent \in [Serials -> Exits \cup {None}]
  /\ \A s \in Serials : spent[s] # None => issued[s] # None
  /\ \A x \in Exits : asking[x] # None => issued[asking[x].envelope.token.serial] # None
  /\ \A x \in Exits, p \in Ports :
       mappings[x][p] # None =>
         spent[mappings[x][p].serial] = x /\ mappings[x][p].since \in 0..now
  /\ cases \in [Cases -> CaseRecord \cup {None}]
  /\ \A a \in acks : cases[a.case] # None

Init ==
  /\ now = 0 /\ epoch = 1 /\ key = 1
  /\ published = [x \in Exits |-> 1]
  /\ issued = [s \in Serials |-> None]
  /\ spent = [s \in Serials |-> None]
  /\ asking = [x \in Exits |-> None]
  /\ mappings = [x \in Exits |-> [p \in Ports |-> None]]
  /\ free_at = [x \in Exits |-> [p \in Ports |-> 0]]
  /\ cases = [c \in Cases |-> None]
  /\ acks = {}

-----------------------------------------------------------------------------
(* Entitlements *)

\* An entitlement for this epoch or a prefetched one, and the tag minted
\* beside it.
Issue(a, s, e) ==
  /\ issued[s] = None
  /\ e \in epoch..(epoch + Prefetch) /\ e <= MaxEpoch
  /\ issued' = [issued EXCEPT ![s] =
                  [account |-> a, epoch |-> e, tag |-> Sealed(key, e, s, a)]]
  /\ UNCHANGED <<now, epoch, key, published, spent, asking, mappings, free_at, cases, acks>>

(***************************************************************************)
(* A client asks exit x for port p with its token s, in an envelope with   *)
(* the tag it has of t: `EntitlementEnvelope::new` does not tie them.      *)
(***************************************************************************)
Present(x, p, s, t, form) ==
  /\ issued[s] # None /\ issued[t] # None /\ issued[s].account = issued[t].account
  /\ asking[x] = None
  /\ mappings[x][p] = None /\ free_at[x][p] <= now
  /\ LET envelope == Envelope(Token(s), issued[t].tag)
     IN  /\ Admits(form, envelope, published[x])
         /\ asking' = [asking EXCEPT ![x] =
                         [port |-> p, envelope |-> Parsed(form, envelope), granted |-> None]]
  /\ UNCHANGED <<now, epoch, key, published, issued, spent, mappings, free_at, cases, acks>>

\* A ledger per exit.
SlipSpendsPerExit(x) ==
  /\ asking[x] # None /\ asking[x].granted = None
  /\ LET token == asking[x].envelope.token
     IN  \E grant \in BOOLEAN :
           /\ grant <=> spent[token.serial] # x /\ token.epoch = epoch
           /\ asking' = [asking EXCEPT ![x].granted = grant]
           /\ spent' = IF grant THEN [spent EXCEPT ![token.serial] = x] ELSE spent
  /\ UNCHANGED <<now, epoch, key, published, issued, mappings, free_at, cases, acks>>

\* The API answers a spend: AlreadySpent, WrongEpoch, or granted.
Spend(x) ==
  /\ asking[x] # None /\ asking[x].granted = None
  /\ LET token == asking[x].envelope.token
     IN  \E grant \in BOOLEAN :
           /\ grant <=> spent[token.serial] = None /\ token.epoch = epoch
           /\ asking' = [asking EXCEPT ![x].granted = grant]
           /\ spent' = IF grant THEN [spent EXCEPT ![token.serial] = x] ELSE spent
  /\ UNCHANGED <<now, epoch, key, published, issued, mappings, free_at, cases, acks>>

\* The exit maps the port if the entitlement was granted.
Answer(x) ==
  /\ asking[x] # None /\ asking[x].granted # None
  /\ LET a == asking[x]
     IN  mappings' = IF a.granted
                     THEN [mappings EXCEPT ![x][a.port] =
                             [serial |-> a.envelope.token.serial,
                              tag    |-> a.envelope.tag,
                              since  |-> now]]
                     ELSE mappings
  /\ asking' = [asking EXCEPT ![x] = None]
  /\ UNCHANGED <<now, epoch, key, published, issued, spent, free_at, cases, acks>>

\* The exit gives up on the spend: nothing is mapped, the ledger keeps it.
LoseAnswer(x) ==
  /\ asking[x] # None
  /\ asking' = [asking EXCEPT ![x] = None]
  /\ UNCHANGED <<now, epoch, key, published, issued, spent, mappings, free_at, cases, acks>>

\* The mapping ends, and its entitlement is released, if the call arrives.
Unmap(x, p) ==
  /\ mappings[x][p] # None
  /\ mappings' = [mappings EXCEPT ![x][p] = None]
  /\ free_at' = [free_at EXCEPT ![x][p] = now + Cooldown]
  /\ spent' \in {spent, [spent EXCEPT ![mappings[x][p].serial] = None]}
  /\ UNCHANGED <<now, epoch, key, published, issued, asking, cases, acks>>

-----------------------------------------------------------------------------
(* Abuse cases *)

\* Something happens through the mapped port p of x that a complaint will
\* name.  The culprit is history: the API does not know it.
Incident(c, x, p) ==
  /\ cases[c] = None
  /\ mappings[x][p] # None
  /\ cases' = [cases EXCEPT ![c] =
                 [exit |-> x, port |-> p, at |-> now, closed |-> FALSE,
                  strike |-> None, culprit |-> Holder(mappings[x][p])]]
  /\ UNCHANGED <<now, epoch, key, published, issued, spent, asking, mappings, free_at, acks>>

(***************************************************************************)
(* The revoke of an open case reaches the exit, with any of its answers to *)
(* a sync push, more than once if the acknowledgement does not arrive.     *)
(***************************************************************************)
ApplyAbuseRevoke(c) ==
  /\ cases[c] # None /\ ~cases[c].closed
  /\ LET x == cases[c].exit
         p == cases[c].port
         m == mappings[x][p]
     IN  IF m = None
         THEN /\ acks' = acks \cup {[case |-> c, outcome |-> "not_allocated"]}
              /\ UNCHANGED <<mappings, free_at>>
         ELSE /\ acks' = acks \cup {[case |-> c, outcome |-> "revoked",
                                     holder_since |-> m.since, tag |-> m.tag]}
              /\ mappings' = [mappings EXCEPT ![x][p] = None]
              /\ free_at' = [free_at EXCEPT ![x][p] = now + Cooldown]
  /\ UNCHANGED <<now, epoch, key, published, issued, spent, asking, cases>>

\* The holder of the port taken for the culprit, whenever it got the port.
SlipIgnoresHolderSince(a, at) == IF a.outcome = "revoked" THEN Opened(a.tag, key) ELSE None

\* Whom an acknowledgement accuses of an incident: nobody if nothing held
\* the port, if it changed hands since, or if the tag does not open.
Accused(a, at) ==
  IF a.outcome = "revoked" /\ a.holder_since <= at THEN Opened(a.tag, key) ELSE None

\* An acknowledgement arrives, late, again, or never.
HandleAck(a) ==
  /\ ~cases[a.case].closed
  /\ cases' = [cases EXCEPT ![a.case].closed = TRUE,
                            ![a.case].strike = Accused(a, cases[a.case].at)]
  /\ UNCHANGED <<now, epoch, key, published, issued, spent, asking, mappings, free_at, acks>>

-----------------------------------------------------------------------------
(* The world *)

\* Mappings and rests are in RAM; a restart takes longer than a rest.
RestartExit(x) ==
  /\ asking' = [asking EXCEPT ![x] = None]
  /\ mappings' = [mappings EXCEPT ![x] = [p \in Ports |-> None]]
  /\ free_at' = [free_at EXCEPT ![x] = [p \in Ports |-> now + Cooldown]]
  /\ UNCHANGED <<now, epoch, key, published, issued, spent, cases, acks>>

RotateKey ==
  /\ key < MaxKey
  /\ key' = key + 1
  /\ UNCHANGED <<now, epoch, published, issued, spent, asking, mappings, free_at, cases, acks>>

\* An exit fetches the key directory.
RefreshPublished(x) ==
  /\ published' = [published EXCEPT ![x] = key]
  /\ UNCHANGED <<now, epoch, key, issued, spent, asking, mappings, free_at, cases, acks>>

NextEpoch ==
  /\ epoch < MaxEpoch
  /\ epoch' = epoch + 1
  /\ UNCHANGED <<now, key, published, issued, spent, asking, mappings, free_at, cases, acks>>

Tick ==
  /\ now < MaxTime
  /\ now' = now + 1
  /\ UNCHANGED <<epoch, key, published, issued, spent, asking, mappings, free_at, cases, acks>>

Next ==
  \/ \E a \in Accounts, s \in Serials, e \in 1..MaxEpoch : Issue(a, s, e)
  \/ \E x \in Exits, p \in Ports, s \in Serials, t \in Serials, form \in Forms :
       Present(x, p, s, t, form)
  \/ \E x \in Exits :
       Spend(x) \/ Answer(x) \/ LoseAnswer(x) \/ RestartExit(x) \/ RefreshPublished(x)
  \/ \E x \in Exits, p \in Ports : Unmap(x, p)
  \/ \E c \in Cases, x \in Exits, p \in Ports : Incident(c, x, p)
  \/ \E c \in Cases : ApplyAbuseRevoke(c)
  \/ \E a \in acks : HandleAck(a)
  \/ RotateKey \/ NextEpoch \/ Tick

Spec == Init /\ [][Next]_vars

-----------------------------------------------------------------------------
(* Properties *)

(***************************************************************************)
(* A mapped port is accountable: whatever the envelope suffered on its way *)
(* and whichever of its tags a client put in it, the tag the exit keeps is *)
(* one the API can open, under the key that minted it, to the account the  *)
(* entitlement was issued to.                                              *)
(***************************************************************************)
GrantIsAccountable ==
  \A x \in Exits, p \in Ports :
    LET m == mappings[x][p]
    IN  m # None => \E k \in 1..key : Opened(m.tag, k) = Holder(m)

(***************************************************************************)
(* One entitlement maps one port in the whole fleet, over lost answers,    *)
(* restarts and repeated requests.                                         *)
(***************************************************************************)
OnePortPerEntitlement ==
  \A x, y \in Exits : \A p, q \in Ports :
    /\ mappings[x][p] # None /\ mappings[y][q] # None
    /\ mappings[x][p].serial = mappings[y][q].serial
    => x = y /\ p = q

(***************************************************************************)
(* A strike hits the account that held the port at the time of the         *)
(* incident, or nobody, although the port may have changed hands, the exit *)
(* restarted and the revoke been applied twice before the case closed.     *)
(***************************************************************************)
StrikeHitsHolder ==
  \A c \in Cases :
    cases[c] # None => cases[c].strike \in {None, cases[c].culprit}
=============================================================================
