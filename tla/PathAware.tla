------------------------------ MODULE PathAware ------------------------------
(***************************************************************************)
(* The deterministic, path-aware choice of a circuit                       *)
(* (warren-discovery/src/path_aware.rs): combined weights are scaled by    *)
(* the measured cost of the path, a degraded leg is penalised, and the     *)
(* circuit that is already flying is kept unless it is gone, degraded or   *)
(* beaten by a margin.                                                     *)
(*                                                                         *)
(* The signals of one call are gathered in a record                        *)
(*   [dir, advisory, rtt, now]                                             *)
(* dir is the verified directory, advisory the partial function from       *)
(* <<relay id, exit id>> to the leg the unsigned advisory reports, rtt the *)
(* client's reading (or None) for each endpoint key, now the clock.        *)
(* Choices are relations: IsBest(...) holds of the one element the sort    *)
(* puts first.  The scores stay below 2^128 for every u64 weight and u32   *)
(* cost, so the u128 saturation of the code never happens and is left out; *)
(* the u64 saturation of the weight product does, and is kept.             *)
(***************************************************************************)
EXTENDS CircuitPolicy

CONSTANTS
  NeutralRtt,       \* neutral_rtt_ms
  HalfScoreRtt,     \* half_score_rtt_ms
  DegradedDiv,      \* degraded_penalty_div
  SwitchMarginPct,  \* switch_margin_pct
  StaleAfter,       \* stale_after_secs
  ScoreScale,       \* SCORE_SCALE
  MaxWeight         \* u64::MAX

ASSUME ParamsAssumption ==
  /\ NeutralRtt \in Nat /\ HalfScoreRtt \in Nat /\ DegradedDiv \in Nat
  /\ SwitchMarginPct \in Nat /\ StaleAfter \in Nat
  /\ ScoreScale \in Nat \ {0} /\ MaxWeight \in Nat \ {0}

LegQuality == [rtt_ms : Nat, degraded : BOOLEAN, sampled_at : Nat]

-----------------------------------------------------------------------------
(* Scores *)

AtLeastOne(n) == IF n = 0 THEN 1 ELSE n

\* `a.weight.max(1).saturating_mul(b.weight.max(1))`
CombinedWeight(entry, exit) ==
  LET product == AtLeastOne(entry.weight) * AtLeastOne(exit.weight)
  IN  IF product <= MaxWeight THEN product ELSE MaxWeight

\* A sample of any age.
SlipNeverStale(sig, relayId, exitId) ==
  IF <<relayId, exitId>> \in DOMAIN sig.advisory
  THEN sig.advisory[<<relayId, exitId>>]
  ELSE None

(***************************************************************************)
(* The advisory's leg, when it is there and not stale (`fresh_leg`).  A    *)
(* sample stamped after now counts as age 0.                               *)
(***************************************************************************)
FreshLeg(sig, relayId, exitId) ==
  IF /\ <<relayId, exitId>> \in DOMAIN sig.advisory
     /\ sig.now - sig.advisory[<<relayId, exitId>>].sampled_at <= StaleAfter
  THEN sig.advisory[<<relayId, exitId>>]
  ELSE None

Degraded(leg) == leg # None /\ leg.degraded

OrNeutral(rtt) == IF rtt = None THEN NeutralRtt ELSE rtt

(***************************************************************************)
(* `path_score`: weight * SCALE * K / (K + client + leg), in integers,     *)
(* divided once more when the leg is degraded.                             *)
(***************************************************************************)
PathScore(weight, clientRtt, leg) ==
  LET k     == AtLeastOne(HalfScoreRtt)
      legMs == IF leg = None THEN NeutralRtt ELSE leg.rtt_ms
      score == (weight * ScoreScale * k) \div (k + clientRtt + legMs)
  IN  IF Degraded(leg) THEN score \div AtLeastOne(DegradedDiv) ELSE score

\* The score a challenger has to exceed.
ChallengerBar(score) == (score * (100 + SwitchMarginPct)) \div 100

-----------------------------------------------------------------------------
(* The directory view: pairs of indices into sig.dir *)

CircuitIds(dir, p) == <<dir[p[1]].relay_id, dir[p[2]].exit_id>>

\* The order of `pairs`: row by row, as valid_circuits emits them.
PairOrder(p, q) == p[1] < q[1] \/ (p[1] = q[1] /\ p[2] <= q[2])

\* Ties left to the stable sort: the input order decides.
SlipTieOnOrder(dir, p, q) == PairOrder(p, q)

\* `tie_break`, then the input order because the sort is stable.
TieOrder(dir, p, q) ==
  LET a == CircuitIds(dir, p)
      b == CircuitIds(dir, q)
  IN  \/ a[1] < b[1]
      \/ a[1] = b[1] /\ a[2] < b[2]
      \/ a = b /\ PairOrder(p, q)

CircuitWeight(dir, p) == CombinedWeight(dir[p[1]], dir[p[2]])

\* `pick_circuit_by_weight`
PickedByWeight(dir, pairs, p) ==
  /\ p \in pairs
  /\ \A q \in pairs : \/ CircuitWeight(dir, p) > CircuitWeight(dir, q)
                      \/ /\ CircuitWeight(dir, p) = CircuitWeight(dir, q)
                         /\ TieOrder(dir, p, q)

CircuitLeg(sig, p) ==
  FreshLeg(sig, sig.dir[p[1]].relay_id, sig.dir[p[2]].exit_id)

CircuitScore(sig, p) ==
  PathScore(CircuitWeight(sig.dir, p),
            OrNeutral(sig.rtt[sig.dir[p[1]].pubkey]),
            CircuitLeg(sig, p))

IsBest(sig, pairs, p) ==
  /\ p \in pairs
  /\ \A q \in pairs : \/ CircuitScore(sig, p) > CircuitScore(sig, q)
                      \/ /\ CircuitScore(sig, p) = CircuitScore(sig, q)
                         /\ TieOrder(sig.dir, p, q)

\* `pairs.iter().find(..)`: the first pair that carries the flying ids.
IsIncumbent(sig, pairs, prev, p) ==
  /\ p \in pairs
  /\ CircuitIds(sig.dir, p) = prev
  /\ \A q \in pairs : CircuitIds(sig.dir, q) = prev => PairOrder(p, q)

\* The incumbent survives: not degraded, and not beaten by the margin.
Retained(sig, pairs, prev, p) ==
  /\ IsIncumbent(sig, pairs, prev, p)
  /\ ~Degraded(CircuitLeg(sig, p))
  /\ \A b \in pairs :
       IsBest(sig, pairs, b) =>
         CircuitScore(sig, b) <= ChallengerBar(CircuitScore(sig, p))

(***************************************************************************)
(* `select_circuit_path_aware`: p is the pair returned for the flying      *)
(* circuit prev (None when there is none).                                 *)
(***************************************************************************)
Selected(sig, pairs, prev, p) ==
  IF \E q \in pairs : Retained(sig, pairs, prev, q)
  THEN Retained(sig, pairs, prev, p)
  ELSE IsBest(sig, pairs, p)

-----------------------------------------------------------------------------
(* The flat view: indices into a sequence of entries, for one chosen exit *)

PermittedEntries(entries, exit, asRequired) ==
  {i \in DOMAIN entries : Permits(asRequired, entries[i], exit)}

\* On the dual-role fleet a node's relay id is its exit id.
EntryLeg(sig, entry, exit) == FreshLeg(sig, entry.exit_id, exit.exit_id)

EntryScore(sig, entry, exit) ==
  PathScore(CombinedWeight(entry, exit), OrNeutral(sig.rtt[entry.pubkey]),
            EntryLeg(sig, entry, exit))

EntryRank(sig, entries, exit, i, j) ==
  LET a == EntryScore(sig, entries[i], exit)
      b == EntryScore(sig, entries[j], exit)
  IN  \/ a > b
      \/ a = b /\ entries[i].exit_id < entries[j].exit_id
      \/ a = b /\ entries[i].exit_id = entries[j].exit_id /\ i <= j

IsBestEntry(sig, entries, candidates, exit, i) ==
  /\ i \in candidates
  /\ \A j \in candidates : EntryRank(sig, entries, exit, i, j)

\* `ranked.iter().find(..)`: the first in rank order, unlike the pair view.
IsEntryIncumbent(sig, entries, candidates, exit, prev, i) ==
  /\ i \in candidates
  /\ entries[i].exit_id = prev
  /\ \A j \in candidates :
       entries[j].exit_id = prev => EntryRank(sig, entries, exit, i, j)

EntryRetained(sig, entries, candidates, exit, prev, i) ==
  /\ IsEntryIncumbent(sig, entries, candidates, exit, prev, i)
  /\ ~Degraded(EntryLeg(sig, entries[i], exit))
  /\ \A b \in candidates :
       IsBestEntry(sig, entries, candidates, exit, b) =>
         EntryScore(sig, entries[b], exit)
           <= ChallengerBar(EntryScore(sig, entries[i], exit))

\* `select_entry_path_aware`
SelectedEntry(sig, entries, asRequired, exit, prev, i) ==
  LET candidates == PermittedEntries(entries, exit, asRequired)
  IN  IF \E j \in candidates :
           EntryRetained(sig, entries, candidates, exit, prev, j)
      THEN EntryRetained(sig, entries, candidates, exit, prev, i)
      ELSE IsBestEntry(sig, entries, candidates, exit, i)
=============================================================================
