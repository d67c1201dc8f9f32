---------------------------- MODULE RelayFailover ----------------------------
(***************************************************************************)
(* A single-hop client under relay failures: it selects a relay from the   *)
(* list it holds, dials it, and when the dial or the connection fails asks *)
(* the selector for an alternative, naming the relay that just failed.     *)
(* Only that one relay is excluded: the selector remembers nothing.        *)
(* Meanwhile lists are refreshed, the user changes the query, and relays   *)
(* go down and come back.                                                  *)
(***************************************************************************)
EXTENDS RelaySelection, FiniteSets

CONSTANTS
  NoRelay,  \* absence of a relay
  Lists,    \* the sets of wire nodes a refresh may deliver
  Queries   \* the queries the user may ask

ASSUME ListsAssumption == Lists \subseteq SUBSET WireNode
ASSUME QueriesAssumption == Queries \subseteq Query
ASSUME NoRelayAssumption == NoRelay \notin Relay

VARIABLES
  list,     \* the wire nodes of the list in use
  query,    \* the user's constraints
  down,     \* ids of the relays that do not answer
  current,  \* the relay dialed or connected to, or NoRelay
  phase     \* "idle", "dialing" or "connected"

relayVars == <<list, query, down, current, phase>>

Relays == {FromWire(n) : n \in list}
Eligible == WeightedCandidates(Relays, query)

RelayTypeOK ==
  /\ list \in Lists
  /\ query \in Queries
  /\ down \subseteq Ids
  /\ current \in Relay \cup {NoRelay}
  /\ phase \in {"idle", "dialing", "connected"}
  /\ phase = "idle" <=> current = NoRelay

RelayInit ==
  /\ list \in Lists
  /\ query \in Queries
  /\ down = {}
  /\ current = NoRelay
  /\ phase = "idle"

-----------------------------------------------------------------------------
(* The client *)

\* NoRelayMatch leaves the client idle.
SelectFrom(candidates) ==
  /\ IF candidates = {}
     THEN current' = NoRelay /\ phase' = "idle"
     ELSE /\ current' \in candidates
          /\ phase' = "dialing"
  /\ UNCHANGED <<list, query, down>>

Connect ==
  /\ phase = "idle"
  /\ \/ SelectFrom(SelectCandidates(Relays, query))
     \/ SelectFrom(WeightedCandidates(Relays, query))

DialSucceeds ==
  /\ phase = "dialing"
  /\ current.id \notin down
  /\ phase' = "connected"
  /\ UNCHANGED <<list, query, down, current>>

\* A dial that times out, or a connection that dies.
FailOver ==
  /\ phase \in {"dialing", "connected"}
  /\ current.id \in down
  /\ SelectFrom(FailoverCandidates(Relays, query, current))

-----------------------------------------------------------------------------
(* Its environment *)

RefreshList(l) ==
  /\ list' = l
  /\ UNCHANGED <<query, down, current, phase>>

ChangeQuery(q) ==
  /\ query' = q
  /\ UNCHANGED <<list, down, current, phase>>

GoDown(i) ==
  /\ down' = down \cup {i}
  /\ UNCHANGED <<list, query, current, phase>>

ComeUp(i) ==
  /\ down' = down \ {i}
  /\ UNCHANGED <<list, query, current, phase>>

RelayNext ==
  \/ Connect
  \/ DialSucceeds
  \/ FailOver
  \/ \E l \in Lists : RefreshList(l)
  \/ \E q \in Queries : ChangeQuery(q)
  \/ \E i \in Ids : GoDown(i) \/ ComeUp(i)

RelaySpec == RelayInit /\ [][RelayNext]_relayVars

-----------------------------------------------------------------------------
(* Properties *)

(***************************************************************************)
(* A failover never stays on the relay that failed, honours the list and   *)
(* the query of the moment (not those the relay was chosen under), crosses *)
(* a border only when the country it leaves has nothing else to offer, and *)
(* gives up only when no country has.                                      *)
(***************************************************************************)
FailoverIsSound ==
  [][FailOver =>
       LET others == {r \in Eligible : r.id # current.id}
       IN  /\ current' = NoRelay => others = {}
           /\ current' # NoRelay =>
                /\ current'.id # current.id
                /\ \E n \in list : n.active /\ n.weight > 0 /\ FromWire(n) = current'
                /\ LocationMatches(query, current')
                /\ current'.country # current.country =>
                     \A r \in others : r.country # current.country]_relayVars

(***************************************************************************)
(* What a memory of one failed relay can cope with: at most one eligible   *)
(* relay down and one up.  With two relays of a country down the failover  *)
(* may go back and forth between them for ever.                            *)
(***************************************************************************)
AtMostOneDown ==
  /\ Cardinality({r.id : r \in Eligible} \cap down) <= 1
  /\ \E r \in Eligible : r.id \notin down

EnvironmentQuiet == UNCHANGED <<list, query, down>>

(***************************************************************************)
(* The doc of the wire field: "A stale node is a DIAGNOSTIC, never a       *)
(* candidate".  The conversion drops the flag, so the selector cannot tell *)
(* and the code does not satisfy this.                                     *)
(***************************************************************************)
StaleIsNeverACandidate ==
  [][(Connect \/ FailOver) /\ current' # NoRelay =>
       \E n \in list : FromWire(n) = current' /\ ~n.stale]_relayVars
=============================================================================
