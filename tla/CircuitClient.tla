---------------------------- MODULE CircuitClient ----------------------------
(***************************************************************************)
(* A long-lived multi-hop client: it polls the selection with the          *)
(* directory, advisory, RTT store, drain set, country hints and clock it   *)
(* holds at that moment, and flies the circuit the selection returns.      *)
(* Everything else is the environment of the selection code: directories   *)
(* are refreshed (nodes come and go, weights and ASNs change, and with     *)
(* them whether AS diversity is required), the server reports or loses     *)
(* legs, the tunnel layer measures entries, exits signal a drain, the user *)
(* changes the hints, time passes.                                         *)
(***************************************************************************)
EXTENDS DirectoryFeed

CONSTANTS
  Legs,         \* <<relay id, exit id>> pairs the advisory may report
  Qualities,    \* [rtt_ms, degraded] a report may carry
  Rtts,         \* raw entry RTTs the tunnel layer may measure
  Measured,     \* endpoint keys that get measured
  Hints,        \* <<entry country, exit country>> the user may ask for
  Ttl,          \* DEFAULT_RTT_TTL_SECS
  MaxTime       \* bound on the clock

ASSUME SignalsAssumption ==
  /\ Legs \subseteq Nat \X Nat
  /\ Qualities \subseteq [rtt_ms : Nat, degraded : BOOLEAN]
  /\ Rtts \subseteq Nat
  /\ Measured \subseteq Pubkeys
  /\ Ttl \in Nat \ {0}
  /\ MaxTime \in Nat
ASSUME CircuitNoneAssumption == None \notin Nat /\ None \notin Nat \X Nat

VARIABLES
  advisory,  \* the last advisory: a partial function on Legs
  samples,   \* the RTT store
  hint,      \* country hints
  now,       \* the clock
  circuit    \* <<relay id, exit id>> of the flying circuit, or None

vars == <<dir, advisory, samples, drained, hint, now, circuit>>

Rtt == INSTANCE RttStore WITH Endpoints <- Pubkeys

\* What the selection reads: `node_rtt_from` keys the store by pubkey.
Signals ==
  [dir      |-> dir,
   advisory |-> advisory,
   rtt      |-> [k \in Pubkeys |-> Rtt!FreshRtt(samples, k, now, Ttl)],
   now      |-> now]

Pairs == ValidCircuits(dir, hint[1], hint[2], drained)

TypeOK ==
  /\ FeedTypeOK
  /\ DOMAIN advisory \subseteq Legs
  /\ \A l \in DOMAIN advisory : advisory[l] \in LegQuality
  /\ samples \in Rtt!SampleMap
  /\ hint \in Hints
  /\ now \in 0..MaxTime
  /\ circuit \in (Nat \X Nat) \cup {None}

Init ==
  /\ FeedInit
  /\ advisory = [l \in {} |-> None]
  /\ samples = Rtt!EmptyStore
  /\ hint \in Hints
  /\ now = 0
  /\ circuit = None

-----------------------------------------------------------------------------
(* The client *)

Poll ==
  /\ IF Pairs = {}
     THEN circuit' = None
     ELSE \E p \in Pairs : /\ Selected(Signals, Pairs, circuit, p)
                           /\ circuit' = CircuitIds(dir, p)
  /\ UNCHANGED <<dir, advisory, samples, drained, hint, now>>

Measure(k, rtt) ==
  /\ samples' = Rtt!Recorded(samples, k, rtt, now, Ttl)
  /\ UNCHANGED <<dir, advisory, drained, hint, now, circuit>>

-----------------------------------------------------------------------------
(* Its environment *)

Feed == FeedNext /\ UNCHANGED <<advisory, samples, hint, now, circuit>>

ReportLeg(l, q) ==
  /\ advisory' = [m \in (DOMAIN advisory) \cup {l} |->
                    IF m = l THEN [rtt_ms     |-> q.rtt_ms,
                                   degraded   |-> q.degraded,
                                   sampled_at |-> now]
                             ELSE advisory[m]]
  /\ UNCHANGED <<dir, samples, drained, hint, now, circuit>>

\* A failed fetch or parse is "no advisory".
LoseAdvisory ==
  /\ advisory' = [l \in {} |-> None]
  /\ UNCHANGED <<dir, samples, drained, hint, now, circuit>>

ChangeHint(h) ==
  /\ hint' = h
  /\ UNCHANGED <<dir, advisory, samples, drained, now, circuit>>

Tick ==
  /\ now < MaxTime
  /\ now' = now + 1
  /\ UNCHANGED <<dir, advisory, samples, drained, hint, circuit>>

Environment ==
  \/ Feed
  \/ \E l \in Legs, q \in Qualities : ReportLeg(l, q)
  \/ LoseAdvisory
  \/ \E h \in Hints : ChangeHint(h)
  \/ Tick

Next ==
  \/ Poll
  \/ \E k \in Measured, rtt \in Rtts : Measure(k, rtt)
  \/ Environment

Spec == Init /\ [][Next]_vars

\* The client keeps polling; nothing obliges the environment to act.
FairSpec == Spec /\ WF_vars(Poll)

-----------------------------------------------------------------------------
(* Properties *)

(***************************************************************************)
(* Whatever circuit is flying, a poll can only return one that satisfies   *)
(* every rule in force now: two distinct nodes in different countries, in  *)
(* known and different ASes if the directory spans two ASes, neither of    *)
(* them drained, both where the user asks.  A circuit that was legal under *)
(* an earlier directory, drain set or hint is not excused by hysteresis.   *)
(* (The rules are stated on nodes, not on valid_circuits.)                 *)
(***************************************************************************)
AllowedHops(e, x) ==
  /\ e.relay_id # x.relay_id
  /\ e.country # x.country
  /\ {e.exit_id, x.exit_id} \cap drained = {}
  /\ hint[1] \in {None, e.country}
  /\ hint[2] \in {None, x.country}
  /\ (\E i, j \in DOMAIN dir : /\ dir[i].asn # 0
                               /\ dir[j].asn # 0
                               /\ dir[i].asn # dir[j].asn)
       => e.asn # 0 /\ x.asn # 0 /\ e.asn # x.asn

PollChoiceAllowed ==
  \A i, j \in DOMAIN dir :
    Selected(Signals, Pairs, circuit, <<i, j>>) => AllowedHops(dir[i], dir[j])

(***************************************************************************)
(* A poll has at most one outcome, the circuit it returns is the one the   *)
(* next poll returns as long as nothing changed, and a directory that only *)
(* lists its nodes in another order changes nothing: neither the selection *)
(* nor a reshuffling server can make a client reconnect in a loop.  Ids    *)
(* name nodes, so a directory that lists an id twice is excepted.          *)
(***************************************************************************)
DistinctIds(nodes) ==
  \A i, j \in DOMAIN nodes :
    \/ nodes[i].relay_id = nodes[j].relay_id
    \/ nodes[i].exit_id = nodes[j].exit_id
    => i = j

RepeatsItself ==
  \A p \in Pairs :
    Selected(Signals, Pairs, circuit, p) =>
      \A q \in Pairs :
        /\ Selected(Signals, Pairs, circuit, q) => q = p
        /\ Selected(Signals, Pairs, CircuitIds(dir, p), q) <=> q = p

IgnoresOrder ==
  LET relisted      == [Signals EXCEPT !.dir = Reversed(dir)]
      relistedPairs == ValidCircuits(Reversed(dir), hint[1], hint[2], drained)
  IN  \A i, j \in DOMAIN dir :
        Selected(Signals, Pairs, circuit, <<i, j>>)
          <=> Selected(relisted, relistedPairs, circuit,
                       <<Len(dir) + 1 - i, Len(dir) + 1 - j>>)

PollIsStable == DistinctIds(dir) => RepeatsItself /\ IgnoresOrder

(***************************************************************************)
(* A circuit that is still offered is given up only for a better one: by   *)
(* more than the margin, or, when its own leg is freshly degraded, for one *)
(* that scores at least as well.  Circuits are rated here by the reports   *)
(* that are current: a stale one neither pins nor bans a circuit.          *)
(***************************************************************************)
CurrentReport(p) ==
  LET leg == CircuitIds(dir, p)
  IN  IF leg \in DOMAIN advisory /\ now <= advisory[leg].sampled_at + StaleAfter
      THEN advisory[leg] ELSE None

Rating(p) ==
  PathScore(CircuitWeight(dir, p),
            OrNeutral(Rtt!FreshRtt(samples, dir[p[1]].pubkey, now, Ttl)),
            CurrentReport(p))

SwitchImproves ==
  [][\A p, q \in Pairs :
       /\ DistinctIds(dir)
       /\ CircuitIds(dir, p) = circuit
       /\ CircuitIds(dir, q) = circuit'
       /\ circuit' # circuit
       => \/ 100 * Rating(q) > (100 + SwitchMarginPct) * Rating(p)
          \/ Degraded(CurrentReport(p)) /\ Rating(q) >= Rating(p)]_vars

(***************************************************************************)
(* The fallback law of the module doc: with no advisory, no fresh sample   *)
(* and no measured RTT the selection is exactly pick_circuit_by_weight.    *)
(* With a circuit flying the margin protects it also then, so the law is   *)
(* stated for the first pick.                                              *)
(***************************************************************************)
NoSignal ==
  /\ \A p \in Pairs : CircuitLeg(Signals, p) = None
  /\ \A k \in Pubkeys : Signals.rtt[k] = None

ReturnsWeightPick ==
  \A p \in Pairs :
    Selected(Signals, Pairs, circuit, p) <=> PickedByWeight(dir, Pairs, p)

FirstPickIsByWeight == NoSignal /\ circuit = None => ReturnsWeightPick

(***************************************************************************)
(* The SDK's flat view and the daemon's directory view make the same       *)
(* choice: via_entry forms a circuit exactly for the valid pairs, and, for *)
(* every exit, the entry selection returns the entry of the pair the       *)
(* circuit selection returns among the pairs with that exit.               *)
(***************************************************************************)
DualRole(nodes) ==
  \A i \in DOMAIN nodes : nodes[i].relay_id = nodes[i].exit_id

ViewsAgree ==
  DualRole(dir) /\ DistinctIds(dir) =>
    LET required == AsDiversityRequired(FleetAsns(Entries(dir)))
        valid    == ValidCircuits(dir, None, None, {})
        flown    == IF circuit = None THEN None ELSE circuit[1]
    IN  \A j \in DOMAIN dir :
          LET exit  == Exits(dir)[j]
              toJ   == {p \in valid : p[2] = j}
              prev  == IF circuit = None THEN None ELSE <<flown, exit.exit_id>>
          IN  \A i \in DOMAIN dir :
                /\ ViaEntry(exit, Entries(dir)[i], required) # None
                     <=> <<i, j>> \in valid
                /\ SelectedEntry(Signals, Entries(dir), required, exit, flown, i)
                     <=> Selected(Signals, toJ, prev, <<i, j>>)

(***************************************************************************)
(* A client that keeps polling leaves a draining node, on either leg,      *)
(* unless the drain ends first.                                            *)
(***************************************************************************)
FliesThrough(x) == circuit # None /\ (circuit[1] = x \/ circuit[2] = x)

DrainedNodeIsLeft ==
  \A x \in Drainable :
    (x \in drained /\ FliesThrough(x)) ~> (x \notin drained \/ ~FliesThrough(x))
=============================================================================
