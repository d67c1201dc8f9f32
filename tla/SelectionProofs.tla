---------------------------- MODULE SelectionProofs ----------------------------
(***************************************************************************)
(* Proofs about the two ways a multi-hop client selects its hops, for any  *)
(* directories, advisories, measurements, parameters and bounds: the       *)
(* long-lived client of CircuitClient, which ranks circuits by their path  *)
(* scores, and the picks of EntryPick, which know no path signals.         *)
(***************************************************************************)
EXTENDS CircuitClient, EntryPick, TLAPS

-----------------------------------------------------------------------------
(* The scores of PathAware *)

(***************************************************************************)
(* Arithmetic of the scores.                                               *)
(***************************************************************************)
LEMMA DivisionInNat ==
  ASSUME NEW a \in Nat, NEW b \in Nat \ {0}
  PROVE  a \div b \in Nat
  OBVIOUS

LEMMA ProductInNat ==
  ASSUME NEW a \in Nat, NEW b \in Nat
  PROVE  a * b \in Nat
  OBVIOUS

LEMMA ScoreInNat ==
  ASSUME NEW weight \in Nat, NEW rtt \in Nat, NEW leg \in LegQuality \cup {None}
  PROVE  PathScore(weight, rtt, leg) \in Nat
  <1>. DEFINE k     == AtLeastOne(HalfScoreRtt)
              legMs == IF leg = None THEN NeutralRtt ELSE leg.rtt_ms
              score == (weight * ScoreScale * k) \div (k + rtt + legMs)
  <1>1. k \in Nat \ {0} /\ AtLeastOne(DegradedDiv) \in Nat \ {0}
    BY ParamsAssumption DEF AtLeastOne
  <1>2. legMs \in Nat
    BY ParamsAssumption DEF LegQuality
  <1>3. weight * ScoreScale \in Nat
    BY ParamsAssumption, ProductInNat
  <1>. HIDE DEF k, legMs
  <1>4. weight * ScoreScale * k \in Nat
    BY <1>1, <1>3, ProductInNat
  <1>5. k + rtt + legMs \in Nat \ {0}
    BY <1>1, <1>2
  <1>6. score \in Nat
    BY <1>4, <1>5, DivisionInNat
  <1>7. PathScore(weight, rtt, leg)
          = IF Degraded(leg) THEN score \div AtLeastOne(DegradedDiv) ELSE score
    BY DEF PathScore, k, legMs
  <1>. HIDE DEF score
  <1>8. score \div AtLeastOne(DegradedDiv) \in Nat
    BY <1>1, <1>6, DivisionInNat
  <1>. QED
    BY <1>6, <1>7, <1>8

LEMMA WeightInNat ==
  ASSUME NEW e \in Node, NEW x \in Node
  PROVE  CombinedWeight(e, x) \in Nat
  <1>1. AtLeastOne(e.weight) \in Nat /\ AtLeastOne(x.weight) \in Nat
    BY DEF Node, AtLeastOne
  <1>2. AtLeastOne(e.weight) * AtLeastOne(x.weight) \in Nat
    BY <1>1, ProductInNat
  <1>. QED
    BY <1>2, ParamsAssumption DEF CombinedWeight

(***************************************************************************)
(* Exceeding the bar is exceeding the score by more than the margin, the   *)
(* bar is never below the score, and both survive the rounding.            *)
(***************************************************************************)
LEMMA BarArithmetic ==
  ASSUME NEW s \in Nat, NEW t \in Nat
  PROVE  /\ ChallengerBar(s) \in Nat
         /\ s <= ChallengerBar(s)
         /\ t > ChallengerBar(s) => 100 * t > (100 + SwitchMarginPct) * s
  <1>. DEFINE y == s * (100 + SwitchMarginPct)
              m == s * SwitchMarginPct
  <1>1. SwitchMarginPct \in Nat
    BY ParamsAssumption
  <1>2. m \in Nat /\ y = 100 * s + m /\ (100 + SwitchMarginPct) * s = y
    BY <1>1
  <1>. HIDE DEF y, m
  <1>3. y \in Nat /\ y >= 100 * s
    BY <1>2
  <1>4. /\ y \div 100 \in Nat
        /\ 100 * (y \div 100) <= y
        /\ y < 100 * (y \div 100) + 100
    BY <1>3
  <1>5. ChallengerBar(s) = y \div 100
    BY DEF ChallengerBar, y
  <1>. QED
    BY <1>2, <1>3, <1>4, <1>5

(***************************************************************************)
(* Scaling by at least the divisor before dividing loses no order.         *)
(***************************************************************************)
LEMMA ScaledDivisionKeepsOrder ==
  ASSUME NEW v \in Nat, NEW w \in Nat, NEW c \in Nat, NEW d \in Nat \ {0},
         c >= d, v < w
  PROVE  (v * c) \div d < (w * c) \div d
  <1>. DEFINE q == (v * c) \div d
              r == (w * c) \div d
              gap == w - v - 1
  <1>1. v * c \in Nat /\ w * c \in Nat
    BY ProductInNat
  <1>2. /\ q \in Nat /\ r \in Nat
        /\ d * q <= v * c
        /\ w * c < d * r + d
    BY <1>1
  <1>3. gap \in Nat /\ gap * c \in Nat /\ w * c = v * c + c + gap * c
    BY ProductInNat
  <1>. HIDE DEF q, r, gap
  <1>4. d * q \in Nat /\ d * r \in Nat
    BY <1>2, ProductInNat
  <1>5. d * q < d * r
    BY <1>1, <1>2, <1>3, <1>4
  <1>6. q < r
    <2>. SUFFICES ASSUME r <= q PROVE FALSE
      BY <1>2
    <2>1. q - r \in Nat /\ d * (q - r) \in Nat
      BY <1>2, ProductInNat
    <2>2. d * q = d * r + d * (q - r)
      BY <1>2
    <2>. QED
      BY <1>4, <1>5, <2>1, <2>2
  <1>. QED
    BY <1>6 DEF q, r

-----------------------------------------------------------------------------
(* What the clients are fed *)

\* A refresh or a drain keeps the feed's types.
LEMMA FeedStep == FeedTypeOK /\ FeedNext => FeedTypeOK'
  BY DEF FeedTypeOK, FeedNext, RefreshDirectory, SignalDrain, EndDrain

-----------------------------------------------------------------------------
(* The long-lived client *)

(***************************************************************************)
(* What the proofs take from the constants and from a verified directory.  *)
(***************************************************************************)
LEMMA DirectoryFacts ==
  ASSUME NEW d \in Directories
  PROVE  /\ d \in Seq(Node)
         /\ DOMAIN d \subseteq Nat
         /\ \A i \in DOMAIN d : d[i] \in Node
  BY DirectoriesAssumption

LEMMA PairFacts ==
  ASSUME TypeOK, NEW p \in Pairs
  PROVE  /\ p[1] \in DOMAIN dir /\ p[2] \in DOMAIN dir
         /\ p = <<p[1], p[2]>>
         /\ p[1] \in Nat /\ p[2] \in Nat
         /\ dir[p[1]] \in Node /\ dir[p[2]] \in Node
         /\ CircuitIds(dir, p) \in Nat \X Nat
  <1>1. p \in (DOMAIN dir) \X (DOMAIN dir)
    BY DEF Pairs, ValidCircuits
  <1>2. dir \in Directories
    BY DEF TypeOK, FeedTypeOK
  <1>3. /\ p[1] \in Nat /\ p[2] \in Nat
        /\ dir[p[1]] \in Node /\ dir[p[2]] \in Node
    BY <1>1, <1>2, DirectoryFacts
  <1>4. dir[p[1]].relay_id \in Nat /\ dir[p[2]].exit_id \in Nat
    BY <1>3 DEF Node
  <1>. QED
    BY <1>1, <1>3, <1>4 DEF CircuitIds

(***************************************************************************)
(* Type correctness.                                                       *)
(***************************************************************************)
LEMMA StoreStaysTyped ==
  ASSUME samples \in Rtt!SampleMap, now \in Nat,
         NEW k \in Pubkeys, NEW rtt \in Nat
  PROVE  Rtt!Recorded(samples, k, rtt, now, Ttl) \in Rtt!SampleMap
  <1>1. ASSUME samples[k] # None
        PROVE  samples[k].rtt_ms \in Nat
    BY <1>1 DEF Rtt!SampleMap, Rtt!RttSample
  <1>2. Rtt!FreshRtt(samples, k, now, Ttl) \in Nat \cup {None}
    BY <1>1 DEF Rtt!FreshRtt
  <1>3. Rtt!Smoothed(samples, k, rtt, now, Ttl) \in Nat
    BY <1>2 DEF Rtt!Smoothed, Rtt!Midpoint
  <1>4. [rtt_ms |-> Rtt!Smoothed(samples, k, rtt, now, Ttl), measured_at |-> now]
          \in Rtt!RttSample
    BY <1>3 DEF Rtt!RttSample
  <1>. QED
    BY <1>4 DEF Rtt!Recorded, Rtt!SampleMap

THEOREM TypeCorrect == Spec => []TypeOK
  <1>. USE SignalsAssumption
  <1>1. Init => TypeOK
    <2>. SUFFICES ASSUME Init PROVE TypeOK
      OBVIOUS
    <2>1. samples \in Rtt!SampleMap
      BY DEF Init, Rtt!EmptyStore, Rtt!SampleMap
    <2>2. DOMAIN advisory \subseteq Legs /\ \A l \in DOMAIN advisory : advisory[l] \in LegQuality
      BY DEF Init
    <2>3. /\ dir \in Directories /\ drained \subseteq Drainable /\ hint \in Hints
          /\ now \in 0..MaxTime /\ circuit \in (Nat \X Nat) \cup {None}
      BY DEF Init, FeedInit
    <2>. QED
      BY <2>1, <2>2, <2>3 DEF TypeOK, FeedTypeOK
  <1>2. TypeOK /\ [Next]_vars => TypeOK'
    <2>. SUFFICES ASSUME TypeOK, [Next]_vars PROVE TypeOK'
      OBVIOUS
    <2>1. CASE Poll
      <3>1. circuit' \in (Nat \X Nat) \cup {None}
        BY <2>1, PairFacts DEF Poll
      <3>. QED
        BY <2>1, <3>1 DEF Poll, TypeOK, FeedTypeOK
    <2>2. ASSUME NEW k \in Measured, NEW rtt \in Rtts, Measure(k, rtt)
          PROVE  TypeOK'
      <3>1. samples' \in Rtt!SampleMap
        BY <2>2, StoreStaysTyped DEF Measure, TypeOK, FeedTypeOK
      <3>. QED
        BY <2>2, <3>1 DEF Measure, TypeOK, FeedTypeOK
    <2>3. ASSUME NEW l \in Legs, NEW q \in Qualities, ReportLeg(l, q)
          PROVE  TypeOK'
      <3>1. [rtt_ms |-> q.rtt_ms, degraded |-> q.degraded, sampled_at |-> now]
              \in LegQuality
        BY DEF LegQuality, TypeOK, FeedTypeOK
      <3>2. DOMAIN advisory' \subseteq Legs
        BY <2>3 DEF ReportLeg, TypeOK, FeedTypeOK
      <3>3. \A m \in DOMAIN advisory' : advisory'[m] \in LegQuality
        BY <2>3, <3>1 DEF ReportLeg, TypeOK, FeedTypeOK
      <3>. QED
        BY <2>3, <3>2, <3>3 DEF ReportLeg, TypeOK, FeedTypeOK
    <2>4. CASE LoseAdvisory
      BY <2>4 DEF LoseAdvisory, TypeOK, FeedTypeOK
    <2>5. CASE Feed
      BY <2>5, FeedStep DEF Feed, TypeOK, FeedTypeOK
    <2>7. ASSUME NEW h \in Hints, ChangeHint(h)
          PROVE  TypeOK'
      BY <2>7 DEF ChangeHint, TypeOK, FeedTypeOK
    <2>8. CASE Tick
      BY <2>8 DEF Tick, TypeOK, FeedTypeOK
    <2>9. CASE UNCHANGED vars
      BY <2>9 DEF vars, TypeOK, FeedTypeOK
    <2>. QED
      BY <2>1, <2>2, <2>3, <2>4, <2>5, <2>7, <2>8, <2>9 DEF Next, Environment
  <1>. QED
    BY <1>1, <1>2, PTL DEF Spec

(***************************************************************************)
(* Any choice obeys the rules in force, whatever circuit was flying: both  *)
(* branches of the selection return a member of the valid pairs.           *)
(***************************************************************************)
LEMMA SelectedIsValid ==
  ASSUME NEW sig, NEW pairs, NEW prev, NEW p, Selected(sig, pairs, prev, p)
  PROVE  p \in pairs
  BY DEF Selected, Retained, IsIncumbent, IsBest

LEMMA ValidIsAllowed ==
  ASSUME NEW i \in DOMAIN dir, NEW j \in DOMAIN dir, <<i, j>> \in Pairs
  PROVE  AllowedHops(dir[i], dir[j])
  <1>. DEFINE e == dir[i]
              x == dir[j]
  <1>1. /\ CountryMatches(hint[1], e.country) /\ CountryMatches(hint[2], x.country)
        /\ e.exit_id \notin drained /\ x.exit_id \notin drained
        /\ CircuitPermitted(AsDiversityRequired(FleetAsns(dir)), e, x, e.relay_id # x.relay_id)
    BY DEF Pairs, ValidCircuits
  <1>2. ASSUME NEW a \in DOMAIN dir, NEW b \in DOMAIN dir,
               dir[a].asn # 0, dir[b].asn # 0, dir[a].asn # dir[b].asn
        PROVE  AsDiversityRequired(FleetAsns(dir))
    BY <1>2 DEF AsDiversityRequired, FleetAsns
  <1>. QED
    BY <1>1, <1>2 DEF AllowedHops, CountryMatches, CircuitPermitted

THEOREM PollObeysPolicy == Spec => []PollChoiceAllowed
  <1>1. PollChoiceAllowed
    BY SelectedIsValid, ValidIsAllowed DEF PollChoiceAllowed
  <1>. QED
    BY <1>1, PTL

\* The score of an allowed circuit under the client's signals.
LEMMA CircuitScoreInNat ==
  ASSUME TypeOK, NEW p \in Pairs
  PROVE  CircuitScore(Signals, p) \in Nat
  <1>1. /\ dir[p[1]] \in Node /\ dir[p[2]] \in Node
        /\ dir[p[1]].pubkey \in Pubkeys
    BY PairFacts DEF Node
  <1>2. CircuitWeight(dir, p) \in Nat
    BY <1>1, WeightInNat DEF CircuitWeight
  <1>3. CircuitLeg(Signals, p) \in LegQuality \cup {None}
    BY DEF CircuitLeg, FreshLeg, Signals, TypeOK, FeedTypeOK
  <1>4. \A k \in Pubkeys : Signals.rtt[k] \in Nat \cup {None}
    BY DEF Signals, TypeOK, FeedTypeOK, Rtt!FreshRtt, Rtt!SampleMap, Rtt!RttSample
  <1>5. OrNeutral(Signals.rtt[dir[p[1]].pubkey]) \in Nat
    BY <1>1, <1>4, ParamsAssumption DEF OrNeutral
  <1>6. CircuitScore(Signals, p)
          = PathScore(CircuitWeight(dir, p),
                      OrNeutral(Signals.rtt[dir[p[1]].pubkey]),
                      CircuitLeg(Signals, p))
    BY DEF CircuitScore, Signals
  <1>. QED
    BY <1>2, <1>3, <1>5, <1>6, ScoreInNat

(***************************************************************************)
(* The sort has one first element.                                         *)
(***************************************************************************)
LEMMA TieOrderAntisymmetric ==
  ASSUME TypeOK, NEW p \in Pairs, NEW q \in Pairs,
         TieOrder(dir, p, q), TieOrder(dir, q, p)
  PROVE  p = q
  <1>. DEFINE a == CircuitIds(dir, p)
              b == CircuitIds(dir, q)
  <1>1. /\ a[1] \in Nat /\ a[2] \in Nat /\ b[1] \in Nat /\ b[2] \in Nat
        /\ p[1] \in Nat /\ p[2] \in Nat /\ q[1] \in Nat /\ q[2] \in Nat
        /\ p = <<p[1], p[2]>> /\ q = <<q[1], q[2]>>
    BY PairFacts
  <1>2. \/ a[1] < b[1] \/ (a[1] = b[1] /\ a[2] < b[2])
        \/ (a = b /\ PairOrder(p, q))
    BY DEF TieOrder
  <1>3. \/ b[1] < a[1] \/ (b[1] = a[1] /\ b[2] < a[2])
        \/ (b = a /\ PairOrder(q, p))
    BY DEF TieOrder
  <1>. HIDE DEF a, b
  <1>4. PairOrder(p, q) /\ PairOrder(q, p)
    BY <1>1, <1>2, <1>3
  <1>5. p[1] = q[1] /\ p[2] = q[2]
    BY <1>1, <1>4 DEF PairOrder
  <1>. QED
    BY <1>1, <1>5

LEMMA BestIsUnique ==
  ASSUME TypeOK, NEW p, NEW q, IsBest(Signals, Pairs, p), IsBest(Signals, Pairs, q)
  PROVE  p = q
  <1>1. p \in Pairs /\ q \in Pairs
    BY DEF IsBest
  <1>2. CircuitScore(Signals, p) \in Nat /\ CircuitScore(Signals, q) \in Nat
    BY <1>1, CircuitScoreInNat
  <1>3. Signals.dir = dir
    BY DEF Signals
  <1>4. \/ CircuitScore(Signals, p) > CircuitScore(Signals, q)
        \/ /\ CircuitScore(Signals, p) = CircuitScore(Signals, q)
           /\ TieOrder(dir, p, q)
    BY <1>1, <1>3 DEF IsBest
  <1>5. \/ CircuitScore(Signals, q) > CircuitScore(Signals, p)
        \/ /\ CircuitScore(Signals, q) = CircuitScore(Signals, p)
           /\ TieOrder(dir, q, p)
    BY <1>1, <1>3 DEF IsBest
  <1>6. TieOrder(dir, p, q) /\ TieOrder(dir, q, p)
    BY <1>2, <1>4, <1>5
  <1>. QED
    BY <1>1, <1>6, TieOrderAntisymmetric

\* Where ids name nodes, a circuit's ids name its pair.
LEMMA IdsNamePair ==
  ASSUME TypeOK, DistinctIds(dir), NEW p \in Pairs, NEW q \in Pairs,
         CircuitIds(dir, p) = CircuitIds(dir, q)
  PROVE  p = q
  <1>1. /\ p[1] \in DOMAIN dir /\ p[2] \in DOMAIN dir /\ p = <<p[1], p[2]>>
        /\ q[1] \in DOMAIN dir /\ q[2] \in DOMAIN dir /\ q = <<q[1], q[2]>>
    BY PairFacts
  <1>2. /\ dir[p[1]].relay_id = dir[q[1]].relay_id
        /\ dir[p[2]].exit_id = dir[q[2]].exit_id
    BY DEF CircuitIds
  <1>3. p[1] = q[1] /\ p[2] = q[2]
    BY <1>1, <1>2 DEF DistinctIds
  <1>. QED
    BY <1>1, <1>3

LEMMA OfferedIsIncumbent ==
  ASSUME TypeOK, DistinctIds(dir), NEW p \in Pairs
  PROVE  /\ IsIncumbent(Signals, Pairs, CircuitIds(dir, p), p)
         /\ \A q : IsIncumbent(Signals, Pairs, CircuitIds(dir, p), q) => q = p
  <1>1. PairOrder(p, p)
    BY PairFacts DEF PairOrder
  <1>2. \A q \in Pairs : CircuitIds(dir, q) = CircuitIds(dir, p) => q = p
    BY IdsNamePair
  <1>3. Signals.dir = dir
    BY DEF Signals
  <1>. QED
    BY <1>1, <1>2, <1>3 DEF IsIncumbent

(***************************************************************************)
(* A poll has at most one outcome, and polling again returns it again.     *)
(* The outcome is either the retained incumbent, which the next poll       *)
(* retains on the same evidence, or the first of the sort, which the next  *)
(* poll retains because nothing beats it, or returns for being the first   *)
(* when its leg is degraded.                                               *)
(***************************************************************************)
LEMMA PollRepeats ==
  ASSUME TypeOK, DistinctIds(dir)
  PROVE  RepeatsItself
  <1>. SUFFICES ASSUME NEW p \in Pairs, Selected(Signals, Pairs, circuit, p),
                       NEW q \in Pairs
                PROVE  /\ Selected(Signals, Pairs, circuit, q) => q = p
                       /\ Selected(Signals, Pairs, CircuitIds(dir, p), q) <=> q = p
    BY DEF RepeatsItself
  <1>. DEFINE ids == CircuitIds(dir, p)
  <1>0. Signals.dir = dir
    BY DEF Signals
  <1>1. Selected(Signals, Pairs, circuit, q) => q = p
    <2>1. CASE \E r \in Pairs : Retained(Signals, Pairs, circuit, r)
      <3>. SUFFICES ASSUME Selected(Signals, Pairs, circuit, q) PROVE q = p
        OBVIOUS
      <3>1. /\ Retained(Signals, Pairs, circuit, p)
            /\ Retained(Signals, Pairs, circuit, q)
        BY <2>1 DEF Selected
      <3>2. CircuitIds(dir, p) = circuit /\ CircuitIds(dir, q) = circuit
        BY <1>0, <3>1 DEF Retained, IsIncumbent
      <3>. QED
        BY <3>2, IdsNamePair
    <2>2. CASE ~\E r \in Pairs : Retained(Signals, Pairs, circuit, r)
      BY <2>2, BestIsUnique DEF Selected
    <2>. QED
      BY <2>1, <2>2
  <1>2. \A r \in Pairs : Retained(Signals, Pairs, ids, r) => r = p
    BY OfferedIsIncumbent DEF Retained
  <1>3. CASE Retained(Signals, Pairs, ids, p)
    <2>1. Selected(Signals, Pairs, ids, q) <=> Retained(Signals, Pairs, ids, q)
      BY <1>3 DEF Selected
    <2>. QED
      BY <1>1, <1>2, <1>3, <2>1
  <1>4. CASE ~Retained(Signals, Pairs, ids, p)
    <2>1. ~\E r \in Pairs : Retained(Signals, Pairs, ids, r)
      BY <1>2, <1>4
    <2>2. Selected(Signals, Pairs, ids, q) <=> IsBest(Signals, Pairs, q)
      BY <2>1 DEF Selected
    <2>3. ~\E r \in Pairs : Retained(Signals, Pairs, circuit, r)
      <3>. SUFFICES ASSUME NEW r \in Pairs, Retained(Signals, Pairs, circuit, r)
                    PROVE  FALSE
        OBVIOUS
      <3>1. Retained(Signals, Pairs, circuit, p)
        BY DEF Selected
      <3>2. circuit = ids
        BY <1>0, <3>1 DEF Retained, IsIncumbent
      <3>. QED
        BY <1>4, <3>1, <3>2
    <2>4. IsBest(Signals, Pairs, p)
      BY <2>3 DEF Selected
    <2>. QED
      BY <1>1, <2>2, <2>4, BestIsUnique
  <1>. QED
    BY <1>3, <1>4

(***************************************************************************)
(* Reversing the directory carries pairs to pairs with the same ids, so    *)
(* with the same weight, leg and score; as ids name pairs, the order of    *)
(* the sort and the incumbent carry over, and with them the selection.     *)
(***************************************************************************)
LEMMA PollHasNoOrder ==
  ASSUME TypeOK, DistinctIds(dir)
  PROVE  IgnoresOrder
<1>. DEFINE rev   == Reversed(dir)
            sig   == [Signals EXCEPT !.dir = rev]
            pairs == ValidCircuits(rev, hint[1], hint[2], drained)
            r(i)  == Len(dir) + 1 - i
            R(p)  == <<r(p[1]), r(p[2])>>
<1>1. /\ DOMAIN rev = DOMAIN dir
      /\ \A i \in DOMAIN dir : r(i) \in DOMAIN dir /\ rev[r(i)] = dir[i] /\ r(r(i)) = i
      /\ \A i \in DOMAIN dir : i \in Nat
  <2>1. dir \in Seq(Node)
    BY DirectoryFacts DEF TypeOK, FeedTypeOK
  <2>. QED
    BY <2>1 DEF Reversed
<1>2. /\ sig.dir = rev /\ sig.advisory = advisory /\ sig.rtt = Signals.rtt /\ sig.now = now
      /\ Signals.dir = dir /\ Signals.advisory = advisory /\ Signals.now = now
  BY DEF Signals
<1>. HIDE DEF rev, sig, r
<1>3. FleetAsns(rev) = FleetAsns(dir)
  BY <1>1 DEF FleetAsns
<1>4. \A p \in Pairs : p[1] \in DOMAIN dir /\ p[2] \in DOMAIN dir /\ p = <<p[1], p[2]>>
  BY PairFacts
<1>5. \A i, j \in DOMAIN dir : <<i, j>> \in Pairs <=> <<r(i), r(j)>> \in pairs
  <2>. SUFFICES ASSUME NEW i \in DOMAIN dir, NEW j \in DOMAIN dir
                PROVE  <<i, j>> \in Pairs <=> <<r(i), r(j)>> \in pairs
    OBVIOUS
  <2>1. i # j <=> r(i) # r(j)
    BY <1>1
  <2>. QED
    BY <1>1, <1>3, <2>1 DEF Pairs, ValidCircuits
<1>6. \A q \in pairs : /\ q[1] \in DOMAIN dir /\ q[2] \in DOMAIN dir
                       /\ R(q) \in Pairs /\ R(R(q)) = q
  <2>. SUFFICES ASSUME NEW q \in pairs
                PROVE  /\ q[1] \in DOMAIN dir /\ q[2] \in DOMAIN dir
                       /\ R(q) \in Pairs /\ R(R(q)) = q
    OBVIOUS
  <2>1. q[1] \in DOMAIN dir /\ q[2] \in DOMAIN dir /\ q = <<q[1], q[2]>>
    BY <1>1 DEF ValidCircuits
  <2>2. <<r(r(q[1])), r(r(q[2]))>> = q
    BY <1>1, <2>1
  <2>3. <<r(q[1]), r(q[2])>> \in Pairs
    BY <1>1, <1>5, <2>1, <2>2
  <2>. QED
    BY <2>1, <2>2, <2>3
<1>7. \A p \in Pairs : R(p) \in pairs /\ R(R(p)) = p
  BY <1>1, <1>4, <1>5
<1>. HIDE DEF pairs
\* What the sort and the search read of a pair.
<1>8. ASSUME NEW p \in Pairs
      PROVE  /\ CircuitIds(rev, R(p)) = CircuitIds(dir, p)
             /\ CircuitLeg(sig, R(p)) = CircuitLeg(Signals, p)
             /\ CircuitScore(sig, R(p)) = CircuitScore(Signals, p)
  <2>1. rev[R(p)[1]] = dir[p[1]] /\ rev[R(p)[2]] = dir[p[2]]
    BY <1>1, <1>4
  <2>. HIDE DEF R
  <2>2. CircuitIds(rev, R(p)) = CircuitIds(dir, p)
    BY <2>1 DEF CircuitIds
  <2>3. CircuitLeg(sig, R(p)) = CircuitLeg(Signals, p)
    BY <1>2, <2>1 DEF CircuitLeg, FreshLeg
  <2>4. CircuitWeight(rev, R(p)) = CircuitWeight(dir, p)
    BY <2>1 DEF CircuitWeight
  <2>. QED
    BY <1>2, <2>1, <2>2, <2>3, <2>4 DEF CircuitScore
<1>. HIDE DEF R
<1>9. ASSUME NEW p \in Pairs, NEW q \in Pairs
      PROVE  TieOrder(rev, R(p), R(q)) <=> TieOrder(dir, p, q)
  <2>1. CASE p = q
    <3>1. PairOrder(p, p) /\ PairOrder(R(p), R(p))
      <4>1. /\ p[1] \in Nat /\ p[2] \in Nat
            /\ R(p)[1] \in Nat /\ R(p)[2] \in Nat
        BY <1>1, <1>4 DEF R
      <4>. QED
        BY <4>1 DEF PairOrder
    <3>. QED
      BY <2>1, <3>1 DEF TieOrder
  <2>2. CASE p # q
    <3>1. CircuitIds(dir, p) # CircuitIds(dir, q)
      BY <2>2, IdsNamePair
    <3>. QED
      BY <1>8, <3>1 DEF TieOrder
  <2>. QED
    BY <2>1, <2>2
<1>10. ASSUME NEW p \in Pairs
       PROVE  IsBest(sig, pairs, R(p)) <=> IsBest(Signals, Pairs, p)
  <2>1. IsBest(sig, pairs, R(p))
          <=> \A q \in Pairs : \/ CircuitScore(sig, R(p)) > CircuitScore(sig, R(q))
                               \/ /\ CircuitScore(sig, R(p)) = CircuitScore(sig, R(q))
                                  /\ TieOrder(rev, R(p), R(q))
    BY <1>2, <1>6, <1>7 DEF IsBest
  <2>. QED
    BY <1>2, <1>8, <1>9, <2>1 DEF IsBest
<1>11. ASSUME NEW p \in Pairs
       PROVE  IsIncumbent(sig, pairs, circuit, R(p)) <=> IsIncumbent(Signals, Pairs, circuit, p)
  <2>1. CASE CircuitIds(dir, p) # circuit
    BY <1>2, <1>8, <2>1 DEF IsIncumbent
  <2>2. CASE CircuitIds(dir, p) = circuit
    <3>1. IsIncumbent(Signals, Pairs, circuit, p)
      BY <2>2, OfferedIsIncumbent
    <3>2. \A q \in pairs : CircuitIds(rev, q) = circuit => q = R(p)
      BY <1>6, <1>8, <2>2, IdsNamePair
    <3>3. PairOrder(R(p), R(p))
      <4>1. R(p)[1] \in Nat /\ R(p)[2] \in Nat
        BY <1>1, <1>4 DEF R
      <4>. QED
        BY <4>1 DEF PairOrder
    <3>. QED
      BY <1>2, <1>7, <1>8, <2>2, <3>1, <3>2, <3>3 DEF IsIncumbent
  <2>. QED
    BY <2>1, <2>2
<1>12. ASSUME NEW p \in Pairs
       PROVE  Retained(sig, pairs, circuit, R(p)) <=> Retained(Signals, Pairs, circuit, p)
  <2>1. (\A b \in pairs :
           IsBest(sig, pairs, b)
             => CircuitScore(sig, b) <= ChallengerBar(CircuitScore(sig, R(p))))
        <=> (\A b \in Pairs :
               IsBest(Signals, Pairs, b)
                 => CircuitScore(Signals, b) <= ChallengerBar(CircuitScore(Signals, p)))
    BY <1>6, <1>7, <1>8, <1>10
  <2>. QED
    BY <1>8, <1>11, <2>1 DEF Retained
<1>13. (\E q \in pairs : Retained(sig, pairs, circuit, q))
         <=> (\E p \in Pairs : Retained(Signals, Pairs, circuit, p))
  BY <1>6, <1>7, <1>12
<1>14. ASSUME NEW p \in Pairs
       PROVE  Selected(sig, pairs, circuit, R(p)) <=> Selected(Signals, Pairs, circuit, p)
  BY <1>10, <1>12, <1>13 DEF Selected
<1>15. ASSUME NEW i \in DOMAIN dir, NEW j \in DOMAIN dir
       PROVE  Selected(sig, pairs, circuit, <<r(i), r(j)>>)
                <=> Selected(Signals, Pairs, circuit, <<i, j>>)
  <2>1. CASE <<i, j>> \in Pairs
    BY <1>14, <2>1 DEF R
  <2>2. CASE <<i, j>> \notin Pairs
    BY <1>5, <2>2, SelectedIsValid
  <2>. QED
    BY <2>1, <2>2
<1>. QED
  BY <1>15 DEF IgnoresOrder, rev, sig, pairs, r

(***************************************************************************)
(* A poll repeats itself, and does not follow the order of the directory.  *)
(***************************************************************************)
THEOREM PollIsDeterministicAndStable == Spec => []PollIsStable
<1>1. TypeOK => PollIsStable
  BY PollRepeats, PollHasNoOrder DEF PollIsStable
<1>. QED
  BY <1>1, TypeCorrect, PTL

\* The selection reads the reports that are current.
LEMMA RatingIsScore ==
  ASSUME TypeOK, NEW p \in Pairs
  PROVE  CurrentReport(p) = CircuitLeg(Signals, p) /\ Rating(p) = CircuitScore(Signals, p)
<1>1. dir[p[1]].pubkey \in Pubkeys
  BY PairFacts DEF Node
<1>2. Signals.rtt[dir[p[1]].pubkey]
        = Rtt!FreshRtt(samples, dir[p[1]].pubkey, now, Ttl)
  BY <1>1 DEF Signals
<1>3. \A l \in DOMAIN advisory :
        now - advisory[l].sampled_at <= StaleAfter
          <=> now <= advisory[l].sampled_at + StaleAfter
  <2>1. now \in Nat /\ \A l \in DOMAIN advisory : advisory[l].sampled_at \in Nat
    BY DEF TypeOK, LegQuality
  <2>. QED
    BY <2>1, ParamsAssumption
<1>4. CurrentReport(p) = CircuitLeg(Signals, p)
  BY <1>3 DEF CurrentReport, CircuitIds, CircuitLeg, FreshLeg, Signals
<1>. QED
  BY <1>2, <1>4 DEF Rating, CircuitScore, Signals

(***************************************************************************)
(* A circuit that is still offered is given up only for a better one.      *)
(* Only a poll changes the circuit, and it does not return a retained      *)
(* incumbent here; so the incumbent is degraded, or some first of the sort *)
(* beats the bar, and what the poll returned is that first.                *)
(***************************************************************************)
THEOREM SwitchOnlyForBetter == Spec => SwitchImproves
  <1>1. ASSUME TypeOK, [Next]_vars, DistinctIds(dir),
               NEW p \in Pairs, NEW q \in Pairs,
               CircuitIds(dir, p) = circuit,
               CircuitIds(dir, q) = circuit',
               circuit' # circuit
        PROVE  \/ 100 * Rating(q) > (100 + SwitchMarginPct) * Rating(p)
               \/ Degraded(CurrentReport(p)) /\ Rating(q) >= Rating(p)
    <2>0. Signals.dir = dir
      BY DEF Signals
    <2>1. Poll
      BY <1>1 DEF Next, Environment, Measure, Feed, ReportLeg, LoseAdvisory,
                  ChangeHint, Tick, vars
    <2>2. Selected(Signals, Pairs, circuit, q)
      <3>1. PICK r \in Pairs : /\ Selected(Signals, Pairs, circuit, r)
                               /\ circuit' = CircuitIds(dir, r)
        BY <1>1, <2>1 DEF Poll
      <3>2. r = q
        BY <1>1, <3>1, IdsNamePair
      <3>. QED
        BY <3>1, <3>2
    <2>3. ~\E r \in Pairs : Retained(Signals, Pairs, circuit, r)
      <3>. SUFFICES ASSUME NEW r \in Pairs, Retained(Signals, Pairs, circuit, r)
                    PROVE  FALSE
        OBVIOUS
      <3>1. Retained(Signals, Pairs, circuit, q)
        BY <2>2 DEF Selected
      <3>. QED
        BY <1>1, <2>0, <3>1 DEF Retained, IsIncumbent
    <2>4. IsBest(Signals, Pairs, q)
      BY <2>2, <2>3 DEF Selected
    <2>5. IsIncumbent(Signals, Pairs, circuit, p)
      BY <1>1, OfferedIsIncumbent
    <2>6. CircuitScore(Signals, p) \in Nat /\ CircuitScore(Signals, q) \in Nat
      BY <1>1, CircuitScoreInNat
    <2>7. CircuitScore(Signals, q) >= CircuitScore(Signals, p)
      BY <1>1, <2>4, <2>6 DEF IsBest
    <2>8. CASE Degraded(CircuitLeg(Signals, p))
      BY <1>1, <2>7, <2>8, RatingIsScore
    <2>9. CASE ~Degraded(CircuitLeg(Signals, p))
      <3>1. PICK b \in Pairs :
              /\ IsBest(Signals, Pairs, b)
              /\ ~(CircuitScore(Signals, b) <= ChallengerBar(CircuitScore(Signals, p)))
        BY <1>1, <2>3, <2>5, <2>9 DEF Retained
      <3>2. b = q
        BY <1>1, <2>4, <3>1, BestIsUnique
      <3>3. ChallengerBar(CircuitScore(Signals, p)) \in Nat
        BY <2>6, BarArithmetic
      <3>4. CircuitScore(Signals, q) > ChallengerBar(CircuitScore(Signals, p))
        BY <2>6, <3>1, <3>2, <3>3
      <3>5. 100 * CircuitScore(Signals, q)
              > (100 + SwitchMarginPct) * CircuitScore(Signals, p)
        BY <2>6, <3>4, BarArithmetic
      <3>. QED
        BY <1>1, <3>5, RatingIsScore
    <2>. QED
      BY <2>8, <2>9
  <1>2. TypeOK /\ [Next]_vars =>
          [\A p, q \in Pairs :
             /\ DistinctIds(dir)
             /\ CircuitIds(dir, p) = circuit
             /\ CircuitIds(dir, q) = circuit'
             /\ circuit' # circuit
             => \/ 100 * Rating(q) > (100 + SwitchMarginPct) * Rating(p)
                \/ Degraded(CurrentReport(p)) /\ Rating(q) >= Rating(p)]_vars
    BY <1>1
  <1>. QED
    BY <1>2, TypeCorrect, PTL DEF Spec, SwitchImproves

(***************************************************************************)
(* The fallback law, as far as it holds: with no signal at all and no      *)
(* circuit flying, the selection is exactly pick_circuit_by_weight.  The   *)
(* hypothesis relates the constants of the code; it holds for the shipped  *)
(* ones, whose scale is a million.                                         *)
(***************************************************************************)
THEOREM FirstPickLaw ==
  ASSUME ScoreScale * AtLeastOne(HalfScoreRtt)
           >= AtLeastOne(HalfScoreRtt) + NeutralRtt + NeutralRtt
  PROVE  Spec => []FirstPickIsByWeight
  <1>. DEFINE k == AtLeastOne(HalfScoreRtt)
              c == ScoreScale * k
              d == k + NeutralRtt + NeutralRtt
  <1>1. TypeOK => FirstPickIsByWeight
    <2>. SUFFICES ASSUME TypeOK, NoSignal, circuit = None, NEW p \in Pairs
                  PROVE  Selected(Signals, Pairs, circuit, p)
                           <=> PickedByWeight(dir, Pairs, p)
      BY DEF FirstPickIsByWeight, ReturnsWeightPick
    <2>0. Signals.dir = dir
      BY DEF Signals
    <2>1. \A q \in Pairs : CircuitIds(dir, q) # circuit
      BY PairFacts, CircuitNoneAssumption
    <2>2. ~\E q \in Pairs : Retained(Signals, Pairs, circuit, q)
      BY <2>0, <2>1 DEF Retained, IsIncumbent
    <2>3. k \in Nat \ {0} /\ ScoreScale \in Nat /\ NeutralRtt \in Nat
      BY ParamsAssumption DEF AtLeastOne
    <2>4. c \in Nat /\ d \in Nat \ {0} /\ c >= d
      BY <2>3, ProductInNat
    <2>5. ASSUME NEW q \in Pairs
          PROVE  /\ CircuitWeight(dir, q) \in Nat
                 /\ CircuitScore(Signals, q) = (CircuitWeight(dir, q) * c) \div d
      <3>1. /\ dir[q[1]] \in Node /\ dir[q[2]] \in Node
            /\ dir[q[1]].pubkey \in Pubkeys
        BY <2>5, PairFacts DEF Node
      <3>2. CircuitWeight(dir, q) \in Nat
        BY <3>1, WeightInNat DEF CircuitWeight
      <3>3. CircuitLeg(Signals, q) = None /\ Signals.rtt[dir[q[1]].pubkey] = None
        BY <2>5, <3>1 DEF NoSignal
      <3>4. CircuitScore(Signals, q) = PathScore(CircuitWeight(dir, q), NeutralRtt, None)
        BY <2>0, <3>3 DEF CircuitScore, OrNeutral
      <3>5. @ = (CircuitWeight(dir, q) * ScoreScale * k) \div d
        BY DEF PathScore, Degraded
      <3>. HIDE DEF k
      <3>6. CircuitWeight(dir, q) * ScoreScale * k = CircuitWeight(dir, q) * c
        BY <2>3, <3>2
      <3>. QED
        BY <3>2, <3>4, <3>5, <3>6
    <2>. HIDE DEF k, c, d
    <2>6. ASSUME NEW q \in Pairs
          PROVE  /\ CircuitScore(Signals, p) > CircuitScore(Signals, q)
                      <=> CircuitWeight(dir, p) > CircuitWeight(dir, q)
                 /\ CircuitScore(Signals, p) = CircuitScore(Signals, q)
                      <=> CircuitWeight(dir, p) = CircuitWeight(dir, q)
      <3>1. /\ CircuitWeight(dir, p) \in Nat /\ CircuitWeight(dir, q) \in Nat
            /\ CircuitScore(Signals, p) = (CircuitWeight(dir, p) * c) \div d
            /\ CircuitScore(Signals, q) = (CircuitWeight(dir, q) * c) \div d
        BY <2>5, <2>6
      <3>2. CircuitScore(Signals, p) \in Nat /\ CircuitScore(Signals, q) \in Nat
        BY <2>6, CircuitScoreInNat
      <3>3. CASE CircuitWeight(dir, p) < CircuitWeight(dir, q)
        <4>1. CircuitScore(Signals, p) < CircuitScore(Signals, q)
          BY <2>4, <3>1, <3>3, ScaledDivisionKeepsOrder
        <4>. QED
          BY <3>1, <3>2, <3>3, <4>1
      <3>4. CASE CircuitWeight(dir, q) < CircuitWeight(dir, p)
        <4>1. CircuitScore(Signals, q) < CircuitScore(Signals, p)
          BY <2>4, <3>1, <3>4, ScaledDivisionKeepsOrder
        <4>. QED
          BY <3>1, <3>2, <3>4, <4>1
      <3>5. CASE CircuitWeight(dir, p) = CircuitWeight(dir, q)
        BY <3>1, <3>2, <3>5
      <3>. QED
        BY <3>1, <3>3, <3>4, <3>5
    <2>7. IsBest(Signals, Pairs, p) <=> PickedByWeight(dir, Pairs, p)
      BY <2>0, <2>6 DEF IsBest, PickedByWeight
    <2>. QED
      BY <2>2, <2>7 DEF Selected
  <1>. QED
    BY <1>1, TypeCorrect, PTL

(***************************************************************************)
(* The flat view and the directory view agree.  The map i |-> <<i, j>>     *)
(* carries the entries permitted for exit j onto the valid pairs that end  *)
(* in j, and preserves the score, the rank, the incumbent and with them    *)
(* the choice.                                                             *)
(***************************************************************************)
LEMMA PermittedIsValid ==
  ASSUME TypeOK, DualRole(dir), NEW i \in DOMAIN dir, NEW j \in DOMAIN dir
  PROVE  Permits(AsDiversityRequired(FleetAsns(Entries(dir))), Entries(dir)[i], Exits(dir)[j])
           <=> <<i, j>> \in ValidCircuits(dir, None, None, {})
  <1>1. FleetAsns(Entries(dir)) = FleetAsns(dir)
    BY DEF FleetAsns, Entries
  <1>2. /\ Entries(dir)[i].exit_id = dir[i].relay_id
        /\ Entries(dir)[i].country = dir[i].country
        /\ Entries(dir)[i].asn = dir[i].asn
        /\ Exits(dir)[j].exit_id = dir[j].relay_id
        /\ Exits(dir)[j].country = dir[j].country
        /\ Exits(dir)[j].asn = dir[j].asn
    BY DEF Entries, Exits, DualRole
  <1>3. Permits(AsDiversityRequired(FleetAsns(Entries(dir))), Entries(dir)[i], Exits(dir)[j])
          <=> CircuitPermitted(AsDiversityRequired(FleetAsns(dir)), dir[i], dir[j],
                               dir[i].relay_id # dir[j].relay_id)
    BY <1>1, <1>2 DEF Permits, CircuitPermitted
  <1>. QED
    BY <1>3 DEF ValidCircuits, CountryMatches, CircuitPermitted

LEMMA ViaEntryIffPermitted ==
  ASSUME TypeOK, NEW i \in DOMAIN dir, NEW j \in DOMAIN dir, NEW required
  PROVE  ViaEntry(Exits(dir)[j], Entries(dir)[i], required) # None
           <=> Permits(required, Entries(dir)[i], Exits(dir)[j])
  <1>1. dir[i] \in Node /\ dir[j] \in Node
    BY DirectoryFacts DEF TypeOK, FeedTypeOK
  <1>2. Exits(dir)[j] \in ExitHop
    BY <1>1 DEF Node, Exits, ExitHop
  <1>3. Entries(dir)[i].dial \in Dials /\ Entries(dir)[i].pubkey \in Pubkeys
    BY <1>1 DEF Node, Entries
  <1>4. [Exits(dir)[j] EXCEPT !.dial = Entries(dir)[i].dial, !.pubkey = Entries(dir)[i].pubkey]
          \in ExitHop
    BY <1>2, <1>3 DEF ExitHop
  <1>. QED
    BY <1>4, NoneIsNoHop DEF ViaEntry

THEOREM ViewsAlwaysAgree == Spec => []ViewsAgree
  <1>1. TypeOK => ViewsAgree
    <2>. DEFINE required == AsDiversityRequired(FleetAsns(Entries(dir)))
                valid    == ValidCircuits(dir, None, None, {})
                flown    == IF circuit = None THEN None ELSE circuit[1]
                entries  == Entries(dir)
    <2>. SUFFICES ASSUME TypeOK, DualRole(dir), DistinctIds(dir),
                         NEW j \in DOMAIN dir, NEW i \in DOMAIN dir
                  PROVE  LET exit == Exits(dir)[j]
                             toJ  == {p \in valid : p[2] = j}
                             prev == IF circuit = None THEN None ELSE <<flown, exit.exit_id>>
                         IN  /\ ViaEntry(exit, entries[i], required) # None
                                  <=> <<i, j>> \in valid
                             /\ SelectedEntry(Signals, entries, required, exit, flown, i)
                                  <=> Selected(Signals, toJ, prev, <<i, j>>)
      BY DEF ViewsAgree
    <2>. DEFINE exit == Exits(dir)[j]
                toJ  == {p \in valid : p[2] = j}
                prev == IF circuit = None THEN None ELSE <<flown, exit.exit_id>>
                cand == PermittedEntries(entries, exit, required)
    <2>0. Signals.dir = dir /\ DOMAIN entries = DOMAIN dir /\ DOMAIN dir \subseteq Nat
      BY DirectoryFacts DEF Signals, Entries, TypeOK, FeedTypeOK
    <2>1. \A m \in DOMAIN dir :
            Permits(required, entries[m], exit) <=> <<m, j>> \in valid
      BY PermittedIsValid
    <2>2. ViaEntry(exit, entries[i], required) # None <=> <<i, j>> \in valid
      BY <2>1, ViaEntryIffPermitted
    <2>3. /\ \A m \in DOMAIN dir : m \in cand <=> <<m, j>> \in toJ
          /\ cand \subseteq DOMAIN dir
          /\ \A p \in toJ : p = <<p[1], j>> /\ p[1] \in cand
      <3>1. \A m \in DOMAIN dir : m \in cand <=> <<m, j>> \in toJ
        BY <2>0, <2>1 DEF PermittedEntries
      <3>2. cand \subseteq DOMAIN dir
        BY <2>0 DEF PermittedEntries
      <3>3. \A p \in toJ : p = <<p[1], j>> /\ p[1] \in DOMAIN dir
        BY DEF ValidCircuits
      <3>. QED
        BY <3>1, <3>2, <3>3
    <2>4. ASSUME NEW m \in DOMAIN dir
          PROVE  /\ entries[m].exit_id = dir[m].relay_id
                 /\ dir[m].relay_id \in Nat
                 /\ CircuitIds(dir, <<m, j>>) = <<dir[m].relay_id, exit.exit_id>>
                 /\ EntryLeg(Signals, entries[m], exit) = CircuitLeg(Signals, <<m, j>>)
                 /\ EntryScore(Signals, entries[m], exit) = CircuitScore(Signals, <<m, j>>)
      <3>1. /\ entries[m].exit_id = dir[m].relay_id /\ exit.exit_id = dir[j].exit_id
            /\ entries[m].weight = dir[m].weight /\ exit.weight = dir[j].weight
            /\ entries[m].pubkey = dir[m].pubkey
        BY DEF Entries, Exits, DualRole
      <3>2. dir[m].relay_id \in Nat
        BY DirectoryFacts DEF TypeOK, FeedTypeOK, Node
      <3>3. EntryLeg(Signals, entries[m], exit) = CircuitLeg(Signals, <<m, j>>)
        BY <2>0, <3>1 DEF EntryLeg, CircuitLeg
      <3>4. CombinedWeight(entries[m], exit) = CircuitWeight(dir, <<m, j>>)
        BY <3>1 DEF CombinedWeight, CircuitWeight
      <3>5. EntryScore(Signals, entries[m], exit) = CircuitScore(Signals, <<m, j>>)
        BY <2>0, <3>1, <3>3, <3>4 DEF EntryScore, CircuitScore
      <3>. QED
        BY <3>1, <3>2, <3>3, <3>5 DEF CircuitIds
    <2>5. ASSUME NEW m \in DOMAIN dir, NEW n \in DOMAIN dir
          PROVE  EntryRank(Signals, entries, exit, m, n)
                   <=> \/ CircuitScore(Signals, <<m, j>>) > CircuitScore(Signals, <<n, j>>)
                       \/ /\ CircuitScore(Signals, <<m, j>>) = CircuitScore(Signals, <<n, j>>)
                          /\ TieOrder(dir, <<m, j>>, <<n, j>>)
      <3>1. exit.exit_id \in Nat /\ m \in Nat /\ n \in Nat /\ j \in Nat
        BY <2>0, DirectoryFacts DEF Exits, TypeOK, FeedTypeOK, Node
      <3>2. TieOrder(dir, <<m, j>>, <<n, j>>)
              <=> \/ dir[m].relay_id < dir[n].relay_id
                  \/ dir[m].relay_id = dir[n].relay_id /\ m <= n
        BY <2>4, <3>1 DEF TieOrder, PairOrder
      <3>. QED
        BY <2>4, <3>2 DEF EntryRank
    <2>. HIDE DEF required, valid, entries, exit, toJ, cand
    <2>6. ASSUME NEW m \in DOMAIN dir
          PROVE  IsBestEntry(Signals, entries, cand, exit, m)
                   <=> IsBest(Signals, toJ, <<m, j>>)
      <3>. DEFINE Before(q) ==
                    \/ CircuitScore(Signals, <<m, j>>) > CircuitScore(Signals, q)
                    \/ /\ CircuitScore(Signals, <<m, j>>) = CircuitScore(Signals, q)
                       /\ TieOrder(dir, <<m, j>>, q)
      <3>1. IsBestEntry(Signals, entries, cand, exit, m)
              <=> m \in cand /\ \A n \in cand : Before(<<n, j>>)
        BY <2>3, <2>5 DEF IsBestEntry
      <3>2. IsBest(Signals, toJ, <<m, j>>)
              <=> <<m, j>> \in toJ /\ \A q \in toJ : Before(q)
        BY <2>0 DEF IsBest
      <3>. HIDE DEF Before
      <3>3. (\A n \in cand : Before(<<n, j>>)) => \A q \in toJ : Before(q)
        <4>. SUFFICES ASSUME \A n \in cand : Before(<<n, j>>), NEW q \in toJ
                      PROVE  Before(q)
          OBVIOUS
        <4>1. q = <<q[1], j>> /\ q[1] \in cand
          BY <2>3
        <4>. QED
          BY <4>1
      <3>4. (\A q \in toJ : Before(q)) => \A n \in cand : Before(<<n, j>>)
        BY <2>3
      <3>. QED
        BY <2>3, <3>1, <3>2, <3>3, <3>4
    <2>7. ASSUME NEW m \in DOMAIN dir
          PROVE  /\ dir[m].relay_id = flown <=> CircuitIds(dir, <<m, j>>) = prev
                 /\ \A n \in DOMAIN dir : dir[n].relay_id = flown => (dir[m].relay_id = flown => n = m)
      <3>1. dir[m].relay_id \in Nat /\ exit.exit_id \in Nat
        BY <2>4, DirectoryFacts DEF exit, Exits, TypeOK, FeedTypeOK, Node
      <3>2. dir[m].relay_id = flown <=> <<dir[m].relay_id, exit.exit_id>> = prev
        <4>1. CASE circuit = None
          BY <3>1, <4>1, CircuitNoneAssumption
        <4>2. CASE circuit # None
          BY <4>2
        <4>. QED
          BY <4>1, <4>2
      <3>3. CircuitIds(dir, <<m, j>>) = <<dir[m].relay_id, exit.exit_id>>
        BY <2>4
      <3>4. \A n \in DOMAIN dir : dir[n].relay_id = dir[m].relay_id => n = m
        BY DEF DistinctIds
      <3>. QED
        BY <3>2, <3>3, <3>4
    <2>. HIDE DEF prev, flown
    <2>8. ASSUME NEW m \in DOMAIN dir
          PROVE  IsEntryIncumbent(Signals, entries, cand, exit, flown, m)
                   <=> IsIncumbent(Signals, toJ, prev, <<m, j>>)
      <3>1. EntryRank(Signals, entries, exit, m, m)
        BY <2>0, <2>4 DEF EntryRank
      <3>2. PairOrder(<<m, j>>, <<m, j>>)
        BY <2>0 DEF PairOrder
      <3>3. IsEntryIncumbent(Signals, entries, cand, exit, flown, m)
              <=> m \in cand /\ dir[m].relay_id = flown
        BY <2>3, <2>4, <2>7, <3>1 DEF IsEntryIncumbent
      <3>4. IsIncumbent(Signals, toJ, prev, <<m, j>>)
              <=> <<m, j>> \in toJ /\ CircuitIds(dir, <<m, j>>) = prev
        <4>. SUFFICES ASSUME <<m, j>> \in toJ, CircuitIds(dir, <<m, j>>) = prev,
                             NEW q \in toJ, CircuitIds(dir, q) = prev
                      PROVE  q = <<m, j>>
          BY <2>0, <3>2 DEF IsIncumbent
        <4>1. q = <<q[1], j>> /\ q[1] \in DOMAIN dir
          BY <2>3
        <4>2. dir[q[1]].relay_id = flown /\ dir[m].relay_id = flown
          BY <2>7, <4>1
        <4>. QED
          BY <2>7, <4>1, <4>2
      <3>. QED
        BY <2>3, <2>7, <3>3, <3>4
    <2>9. ASSUME NEW m \in DOMAIN dir
          PROVE  EntryRetained(Signals, entries, cand, exit, flown, m)
                   <=> Retained(Signals, toJ, prev, <<m, j>>)
      <3>1. (\A b \in cand : IsBestEntry(Signals, entries, cand, exit, b) =>
               EntryScore(Signals, entries[b], exit)
                 <= ChallengerBar(EntryScore(Signals, entries[m], exit)))
            <=> \A b \in toJ : IsBest(Signals, toJ, b) =>
                  CircuitScore(Signals, b) <= ChallengerBar(CircuitScore(Signals, <<m, j>>))
        <4>. DEFINE Below(n) == IsBestEntry(Signals, entries, cand, exit, n) =>
                                  EntryScore(Signals, entries[n], exit)
                                    <= ChallengerBar(EntryScore(Signals, entries[m], exit))
                    BelowPair(p) == IsBest(Signals, toJ, p) =>
                                      CircuitScore(Signals, p)
                                        <= ChallengerBar(CircuitScore(Signals, <<m, j>>))
        <4>1. ASSUME NEW n \in cand
              PROVE  Below(n) <=> BelowPair(<<n, j>>)
          <5>1. n \in DOMAIN dir
            BY <2>3
          <5>2. /\ EntryScore(Signals, entries[n], exit) = CircuitScore(Signals, <<n, j>>)
                /\ EntryScore(Signals, entries[m], exit) = CircuitScore(Signals, <<m, j>>)
            BY <2>4, <5>1
          <5>3. IsBestEntry(Signals, entries, cand, exit, n)
                  <=> IsBest(Signals, toJ, <<n, j>>)
            BY <2>6, <5>1
          <5>. QED
            BY ONLY <5>2, <5>3, Zenon
        <4>2. /\ \A n \in cand : <<n, j>> \in toJ
              /\ \A p \in toJ : p = <<p[1], j>> /\ p[1] \in cand
          BY <2>3
        <4>. HIDE DEF Below, BelowPair
        <4>3. (\A n \in cand : Below(n)) <=> \A p \in toJ : BelowPair(p)
          BY ONLY <4>1, <4>2
        <4>. QED
          BY ONLY <4>3, Zenon DEF Below, BelowPair
      <3>2. EntryLeg(Signals, entries[m], exit) = CircuitLeg(Signals, <<m, j>>)
        BY <2>4
      <3>3. IsEntryIncumbent(Signals, entries, cand, exit, flown, m)
              <=> IsIncumbent(Signals, toJ, prev, <<m, j>>)
        BY <2>8
      <3>. QED
        BY ONLY <3>1, <3>2, <3>3, Zenon DEF EntryRetained, Retained
    <2>10. (\E m \in cand : EntryRetained(Signals, entries, cand, exit, flown, m))
             <=> \E p \in toJ : Retained(Signals, toJ, prev, p)
      BY <2>3, <2>9
    <2>11. SelectedEntry(Signals, entries, required, exit, flown, i)
             <=> Selected(Signals, toJ, prev, <<i, j>>)
      BY <2>6, <2>9, <2>10 DEF SelectedEntry, Selected, cand
    <2>. QED
      BY <2>2, <2>11 DEF exit, toJ, prev
  <1>. QED
    BY <1>1, TypeCorrect, PTL

-----------------------------------------------------------------------------
(* The picks without path signals *)

LEMMA CurrentDirectory ==
  ASSUME TypeOK
  PROVE  /\ dir \in Seq(Node)
         /\ DOMAIN dir = 1..Len(dir) /\ Len(dir) \in Nat
         /\ \A i \in DOMAIN dir : dir[i] \in Node
  BY DirectoriesAssumption DEF TypeOK, FeedTypeOK

(***************************************************************************)
(* The listing order of the directory does not matter.  Reversal carries   *)
(* candidates to candidates and, as ids are distinct, the order of the     *)
(* picks to itself: the index only decides between equal ids.              *)
(***************************************************************************)
THEOREM ListingOrderIsIrrelevant == Spec => []ReorderNeverMoves
  <1>1. TypeOK => ReorderNeverMoves
    <2>. SUFFICES ASSUME TypeOK, DistinctExitIds(dir), NEW client \in Timezones,
                         NEW i \in DOMAIN dir, NEW j \in DOMAIN dir
                  PROVE  Dialed(dir, client, i, j)
                           <=> Dialed(Reversed(dir), client, Len(dir) + 1 - i, Len(dir) + 1 - j)
      BY DEF ReorderNeverMoves
    <2>. DEFINE r(m) == Len(dir) + 1 - m
                rev  == Reversed(dir)
    <2>1. /\ DOMAIN rev = DOMAIN dir
          /\ \A m \in DOMAIN dir : r(m) \in DOMAIN dir /\ rev[r(m)] = dir[m] /\ r(r(m)) = m
          /\ \A m \in DOMAIN dir : m \in Nat /\ dir[m] \in Node
      BY CurrentDirectory DEF Reversed
    <2>. HIDE DEF r, rev
    <2>2. FleetAsns(rev) = FleetAsns(dir)
      BY <2>1 DEF FleetAsns
    <2>3. ASSUME NEW m \in DOMAIN dir, NEW n \in DOMAIN dir
          PROVE  /\ WeightOrder(Exits(rev), r(m), r(n)) <=> WeightOrder(Exits(dir), m, n)
                 /\ WeightOrder(Entries(rev), r(m), r(n)) <=> WeightOrder(Entries(dir), m, n)
      <3>1. /\ Exits(dir)[m].weight = dir[m].weight /\ Exits(dir)[m].exit_id = dir[m].exit_id
            /\ Exits(dir)[n].weight = dir[n].weight /\ Exits(dir)[n].exit_id = dir[n].exit_id
            /\ Exits(rev)[r(m)].weight = dir[m].weight /\ Exits(rev)[r(m)].exit_id = dir[m].exit_id
            /\ Exits(rev)[r(n)].weight = dir[n].weight /\ Exits(rev)[r(n)].exit_id = dir[n].exit_id
        BY <2>1 DEF Exits
      <3>2. /\ Entries(dir)[m].weight = dir[m].weight /\ Entries(dir)[m].exit_id = dir[m].exit_id
            /\ Entries(dir)[n].weight = dir[n].weight /\ Entries(dir)[n].exit_id = dir[n].exit_id
            /\ Entries(rev)[r(m)].weight = dir[m].weight /\ Entries(rev)[r(m)].exit_id = dir[m].exit_id
            /\ Entries(rev)[r(n)].weight = dir[n].weight /\ Entries(rev)[r(n)].exit_id = dir[n].exit_id
        BY <2>1 DEF Entries
      <3>3. dir[m].exit_id = dir[n].exit_id => m = n
        BY DEF DistinctExitIds
      <3>4. m <= m /\ r(m) <= r(m)
        BY <2>1
      <3>. QED
        BY <3>1, <3>2, <3>3, <3>4 DEF WeightOrder
    <2>4. \A m \in DOMAIN dir : m \in ExitCandidates(dir) <=> r(m) \in ExitCandidates(rev)
      BY <2>1 DEF ExitCandidates
    <2>5. PickedExit(Exits(dir), ExitCandidates(dir), j)
            <=> PickedExit(Exits(rev), ExitCandidates(rev), r(j))
      <3>1. \A m \in ExitCandidates(rev) : r(m) \in ExitCandidates(dir) /\ r(r(m)) = m
        BY <2>1, <2>4 DEF ExitCandidates
      <3>2. \A m \in ExitCandidates(dir) : m \in DOMAIN dir
        BY DEF ExitCandidates
      <3>. QED
        BY <2>3, <2>4, <3>1, <3>2 DEF PickedExit
    <2>. DEFINE C == EntryCandidates(dir, j)
                D == EntryCandidates(rev, r(j))
    <2>6. /\ C \subseteq DOMAIN dir /\ D \subseteq DOMAIN dir
          /\ \A m \in DOMAIN dir : m \in C <=> r(m) \in D
      <3>1. C \subseteq DOMAIN dir /\ D \subseteq DOMAIN dir
        BY <2>1 DEF EntryCandidates, PermittedEntries, Entries
      <3>2. ASSUME NEW m \in DOMAIN dir
            PROVE  m \in C <=> r(m) \in D
        <4>1. Entries(rev)[r(m)] = Entries(dir)[m] /\ Exits(rev)[r(j)] = Exits(dir)[j]
          BY <2>1 DEF Entries, Exits
        <4>2. m \in DOMAIN Entries(dir) /\ r(m) \in DOMAIN Entries(rev)
          BY <2>1 DEF Entries
        <4>3. AsRequired(rev) = AsRequired(dir)
          BY <2>2 DEF AsRequired
        <4>. QED
          BY <2>1, <4>1, <4>2, <4>3 DEF EntryCandidates, PermittedEntries
      <3>. QED
        BY <3>1, <3>2
    <2>. HIDE DEF C, D
    <2>. DEFINE P == PreferClientContinent(Entries(dir), C, client)
                Q == PreferClientContinent(Entries(rev), D, client)
    <2>7. /\ P \subseteq DOMAIN dir /\ Q \subseteq DOMAIN dir
          /\ \A m \in DOMAIN dir : m \in P <=> r(m) \in Q
      <3>. DEFINE near(m) == client # None /\ ContinentOf(dir[m].country) = client
                  N == {m \in C : near(m)}
                  M == {m \in D : near(r(m))}
      <3>1. \A m \in DOMAIN dir : /\ Entries(dir)[m].country = dir[m].country
                                  /\ Entries(rev)[m].country = dir[r(m)].country
        BY <2>1 DEF Entries
      <3>2. P = IF N = {} THEN C ELSE N
        BY <2>6, <3>1 DEF PreferClientContinent
      <3>3. Q = IF M = {} THEN D ELSE M
        BY <2>6, <3>1, Zenon DEF PreferClientContinent
      <3>4. \A m \in DOMAIN dir : m \in N <=> r(m) \in M
        BY <2>1, <2>6
      <3>5. N \subseteq DOMAIN dir /\ M \subseteq DOMAIN dir
        BY <2>6
      <3>. HIDE DEF N, M
      <3>6. N = {} <=> M = {}
        BY <2>1, <3>4, <3>5
      <3>. QED
        BY <2>6, <3>2, <3>3, <3>4, <3>5, <3>6
    <2>8. PickedEntry(Entries(dir), C, client, i)
            <=> PickedEntry(Entries(rev), D, client, r(i))
      <3>1. PickedEntry(Entries(dir), C, client, i)
              <=> i \in P /\ \A m \in P : WeightOrder(Entries(dir), i, m)
        BY DEF PickedEntry
      <3>2. PickedEntry(Entries(rev), D, client, r(i))
              <=> r(i) \in Q /\ \A m \in Q : WeightOrder(Entries(rev), r(i), m)
        BY DEF PickedEntry
      <3>. HIDE DEF P, Q
      <3>3. \A m \in Q : r(m) \in P /\ r(r(m)) = m
        BY <2>1, <2>7
      <3>. QED
        BY <2>3, <2>7, <3>1, <3>2, <3>3
    <2>. QED
      BY <2>5, <2>8 DEF Dialed, C, D, r, rev
  <1>. QED
    BY <1>1, TypeCorrect, PTL

(***************************************************************************)
(* The score without a signal grows with the weight, not strictly: floored *)
(* weights, a saturated product and the rounding only make ties.           *)
(***************************************************************************)
LEMMA DivisionIsMonotone ==
  ASSUME NEW v \in Nat, NEW w \in Nat, NEW c \in Nat, NEW d \in Nat \ {0}, v <= w
  PROVE  (v * c) \div d <= (w * c) \div d
  <1>. DEFINE q == (v * c) \div d
              r == (w * c) \div d
              gap == w - v
  <1>1. v * c \in Nat /\ w * c \in Nat
    BY ProductInNat
  <1>2. /\ q \in Nat /\ r \in Nat
        /\ d * q <= v * c
        /\ w * c < d * r + d
    BY <1>1
  <1>3. gap \in Nat /\ gap * c \in Nat /\ w * c = v * c + gap * c
    BY ProductInNat
  <1>. HIDE DEF q, r, gap
  <1>4. d * q \in Nat /\ d * r \in Nat
    BY <1>2, ProductInNat
  <1>5. d * q < d * r + d
    BY <1>1, <1>2, <1>3, <1>4
  <1>6. q <= r
    <2>. SUFFICES ASSUME r < q PROVE FALSE
      BY <1>2
    <2>1. q - r - 1 \in Nat /\ d * (q - r - 1) \in Nat
      BY <1>2, ProductInNat
    <2>2. d * q = d * r + d + d * (q - r - 1)
      BY <1>2
    <2>. QED
      BY <1>4, <1>5, <2>1, <2>2
  <1>. QED
    BY <1>6 DEF q, r

LEMMA ProductIsMonotone ==
  ASSUME NEW a \in Nat, NEW b \in Nat, NEW c \in Nat, a <= b
  PROVE  a * c <= b * c
  <1>. DEFINE gap == b - a
  <1>1. gap \in Nat /\ gap * c \in Nat /\ a * c \in Nat
    BY ProductInNat
  <1>2. b * c = a * c + gap * c
    OBVIOUS
  <1>. HIDE DEF gap
  <1>. QED
    BY <1>1, <1>2

LEMMA ScoreGrowsWithWeight ==
  ASSUME TypeOK, NEW m \in DOMAIN dir, NEW n \in DOMAIN dir, NEW j \in DOMAIN dir,
         dir[m].weight <= dir[n].weight
  PROVE  /\ EntryScore(NoSignals, Entries(dir)[m], Exits(dir)[j]) \in Nat
         /\ EntryScore(NoSignals, Entries(dir)[n], Exits(dir)[j]) \in Nat
         /\ EntryScore(NoSignals, Entries(dir)[m], Exits(dir)[j])
              <= EntryScore(NoSignals, Entries(dir)[n], Exits(dir)[j])
  <1>. DEFINE k    == AtLeastOne(HalfScoreRtt)
              c    == ScoreScale * k
              d    == k + NeutralRtt + NeutralRtt
              w(x) == CombinedWeight(Entries(dir)[x], Exits(dir)[j])
  <1>1. c \in Nat /\ d \in Nat \ {0} /\ k \in Nat \ {0} /\ ScoreScale \in Nat
    <2>1. k \in Nat \ {0} /\ ScoreScale \in Nat /\ NeutralRtt \in Nat
      BY ParamsAssumption DEF AtLeastOne
    <2>. QED
      BY <2>1, ProductInNat
  <1>2. /\ dir[m] \in Node /\ dir[n] \in Node /\ dir[j] \in Node
        /\ Exits(dir)[j].weight = dir[j].weight
    BY CurrentDirectory DEF Exits
  <1>3. ASSUME NEW x \in {m, n}
        PROVE  /\ Entries(dir)[x].weight = dir[x].weight
               /\ Entries(dir)[x].pubkey = dir[x].pubkey /\ dir[x].pubkey \in Pubkeys
    BY <1>2 DEF Entries, Node
  <1>4. w(m) \in Nat /\ w(n) \in Nat /\ w(m) <= w(n)
    <2>. DEFINE a == AtLeastOne(dir[m].weight)
                b == AtLeastOne(dir[n].weight)
                x == AtLeastOne(dir[j].weight)
    <2>1. a \in Nat /\ b \in Nat /\ x \in Nat /\ a <= b
      BY <1>2 DEF AtLeastOne, Node
    <2>2. /\ w(m) = IF a * x <= MaxWeight THEN a * x ELSE MaxWeight
          /\ w(n) = IF b * x <= MaxWeight THEN b * x ELSE MaxWeight
      BY <1>2, <1>3 DEF CombinedWeight
    <2>. HIDE DEF a, b, x
    <2>3. a * x \in Nat /\ b * x \in Nat /\ a * x <= b * x
      BY <2>1, ProductInNat, ProductIsMonotone
    <2>. QED
      BY <2>2, <2>3, ParamsAssumption
  <1>5. ASSUME NEW x \in {m, n}
        PROVE  EntryScore(NoSignals, Entries(dir)[x], Exits(dir)[j]) = (w(x) * c) \div d
    <2>1. EntryLeg(NoSignals, Entries(dir)[x], Exits(dir)[j]) = None
      BY DEF EntryLeg, FreshLeg, NoSignals
    <2>2. OrNeutral(NoSignals.rtt[Entries(dir)[x].pubkey]) = NeutralRtt
      BY <1>3 DEF OrNeutral, NoSignals
    <2>3. EntryScore(NoSignals, Entries(dir)[x], Exits(dir)[j]) = PathScore(w(x), NeutralRtt, None)
      BY <2>1, <2>2 DEF EntryScore
    <2>4. @ = (w(x) * ScoreScale * k) \div d
      BY DEF PathScore, Degraded
    <2>. DEFINE p == w(x)
    <2>5. p \in Nat
      BY <1>4
    <2>. HIDE DEF k, p
    <2>6. p * ScoreScale * k = p * c
      BY <1>1, <2>5
    <2>. QED
      BY <2>3, <2>4, <2>6 DEF p
  <1>. HIDE DEF c, d, w
  <1>6. /\ (w(m) * c) \div d \in Nat /\ (w(n) * c) \div d \in Nat
        /\ (w(m) * c) \div d <= (w(n) * c) \div d
    BY <1>1, <1>4, DivisionIsMonotone, DivisionInNat, ProductInNat
  <1>. QED
    BY <1>5, <1>6

(***************************************************************************)
(* The entry picked is one of the best of the no-signal order, and where   *)
(* no weight is floored and no product saturates pick_entry is the         *)
(* no-signal order of select_entry_path_aware on the same partition.  The  *)
(* hypothesis relates the constants of the code: the scale is at least the *)
(* ratio of the neutral denominator to K.                                  *)
(***************************************************************************)
THEOREM NoSignalOrder ==
  ASSUME ScoreScale * AtLeastOne(HalfScoreRtt)
           >= AtLeastOne(HalfScoreRtt) + NeutralRtt + NeutralRtt
  PROVE  Spec => []FollowsNoSignalOrder
  <1>. DEFINE k == AtLeastOne(HalfScoreRtt)
              c == ScoreScale * k
              d == k + NeutralRtt + NeutralRtt
  <1>1. TypeOK => \A client \in Timezones, j \in DOMAIN dir : OneOfTheBest(client, j)
    <2>. SUFFICES ASSUME TypeOK, NEW client \in Timezones, NEW j \in DOMAIN dir,
                         NEW i \in Preferred(client, j), NEW other \in Preferred(client, j),
                         PickedEntry(Entries(dir), EntryCandidates(dir, j), client, i)
                  PROVE  EntryScore(NoSignals, Entries(dir)[i], Exits(dir)[j])
                           >= EntryScore(NoSignals, Entries(dir)[other], Exits(dir)[j])
      BY DEF OneOfTheBest
    <2>. DEFINE score(m) == EntryScore(NoSignals, Entries(dir)[m], Exits(dir)[j])
    <2>1. i \in DOMAIN dir /\ other \in DOMAIN dir
      BY DEF Preferred, PreferClientContinent, EntryCandidates, PermittedEntries, Entries
    <2>2. dir[i].weight \in Nat /\ dir[other].weight \in Nat
      BY <2>1, CurrentDirectory DEF Node
    <2>3. Entries(dir)[i].weight = dir[i].weight /\ Entries(dir)[other].weight = dir[other].weight
      BY <2>1 DEF Entries
    <2>4. WeightOrder(Entries(dir), i, other)
      BY DEF PickedEntry, Preferred
    <2>5. dir[other].weight <= dir[i].weight
      BY <2>2, <2>3, <2>4 DEF WeightOrder
    <2>6. score(other) \in Nat /\ score(i) \in Nat /\ score(other) <= score(i)
      BY <2>1, <2>5, ScoreGrowsWithWeight
    <2>. HIDE DEF score
    <2>7. score(i) >= score(other)
      BY <2>6
    <2>. QED
      BY <2>7 DEF score
  <1>2. TypeOK => \A client \in Timezones, j \in DOMAIN dir :
                    ExactWeights(j) => SameOrder(client, j)
    <2>. SUFFICES ASSUME TypeOK, NEW client \in Timezones, NEW j \in DOMAIN dir,
                         ExactWeights(j), NEW i \in DOMAIN dir
                  PROVE  PickedEntry(Entries(dir), EntryCandidates(dir, j), client, i)
                           <=> IsBestEntry(NoSignals, Entries(dir),
                                           PreferClientContinent(Entries(dir),
                                             EntryCandidates(dir, j), client),
                                           Exits(dir)[j], i)
      BY DEF SameOrder, Preferred
    <2>. DEFINE P == PreferClientContinent(Entries(dir), EntryCandidates(dir, j), client)
                w(m) == dir[m].weight
                score(m) == EntryScore(NoSignals, Entries(dir)[m], Exits(dir)[j])
    <2>1. P \subseteq DOMAIN dir
      BY DEF PreferClientContinent, EntryCandidates, PermittedEntries, Entries
    <2>2. /\ k \in Nat \ {0} /\ ScoreScale \in Nat /\ NeutralRtt \in Nat
          /\ c \in Nat /\ d \in Nat \ {0} /\ c >= d
      <3>1. k \in Nat \ {0} /\ ScoreScale \in Nat /\ NeutralRtt \in Nat
        BY ParamsAssumption DEF AtLeastOne
      <3>. QED
        BY <3>1, ProductInNat
    <2>3. ASSUME NEW m \in DOMAIN dir
          PROVE  /\ w(m) \in Nat \ {0} /\ w(j) \in Nat \ {0}
                 /\ w(m) * w(j) \in Nat
                 /\ score(m) = ((w(m) * w(j)) * c) \div d
      <3>1. dir[m] \in Node /\ dir[j] \in Node /\ dir[m].pubkey \in Pubkeys
        BY CurrentDirectory DEF Node
      <3>2. w(m) \in Nat \ {0} /\ w(j) \in Nat \ {0}
        BY <3>1 DEF Node, ExactWeights
      <3>3. /\ Entries(dir)[m].weight = w(m) /\ Exits(dir)[j].weight = w(j)
            /\ Entries(dir)[m].pubkey = dir[m].pubkey
        BY DEF Entries, Exits
      <3>4. CombinedWeight(Entries(dir)[m], Exits(dir)[j]) = w(m) * w(j)
        BY <3>2, <3>3 DEF CombinedWeight, AtLeastOne, ExactWeights
      <3>5. EntryLeg(NoSignals, Entries(dir)[m], Exits(dir)[j]) = None
        BY DEF EntryLeg, FreshLeg, NoSignals
      <3>6. OrNeutral(NoSignals.rtt[Entries(dir)[m].pubkey]) = NeutralRtt
        BY <3>1, <3>3 DEF OrNeutral, NoSignals
      <3>7. score(m) = PathScore(w(m) * w(j), NeutralRtt, None)
        BY <3>4, <3>5, <3>6 DEF EntryScore
      <3>8. @ = ((w(m) * w(j)) * ScoreScale * k) \div d
        BY DEF PathScore, Degraded
      <3>9. w(m) * w(j) \in Nat
        BY <3>2, ProductInNat
      <3>. DEFINE p == w(m) * w(j)
      <3>10. p \in Nat
        BY <3>9
      <3>. HIDE DEF k, p
      <3>11. p * ScoreScale * k = p * c
        BY <2>2, <3>10
      <3>. QED
        BY <3>2, <3>7, <3>8, <3>9, <3>11 DEF p
    <2>. HIDE DEF k, c, d
    <2>4. ASSUME NEW m \in DOMAIN dir, NEW n \in DOMAIN dir, w(m) < w(n)
          PROVE  w(m) * w(j) < w(n) * w(j)
      <3>1. w(m) \in Nat \ {0} /\ w(n) \in Nat \ {0} /\ w(j) \in Nat \ {0}
        BY <2>3
      <3>2. PICK gap \in Nat \ {0} : w(n) = w(m) + gap
        <4>1. w(n) - w(m) \in Nat \ {0} /\ w(n) = w(m) + (w(n) - w(m))
          BY <2>4, <3>1
        <4>. QED
          BY <4>1
      <3>. DEFINE a == w(m)
                  b == w(j)
      <3>3. a \in Nat /\ b \in Nat \ {0} /\ w(n) = a + gap
        BY <3>1, <3>2
      <3>. HIDE DEF a, b
      <3>4. a * b < (a + gap) * b
        BY <3>3
      <3>. QED
        BY <3>3, <3>4 DEF a, b
    <2>5. ASSUME NEW m \in DOMAIN dir, NEW n \in DOMAIN dir, w(m) < w(n)
          PROVE  score(m) < score(n)
      <3>. DEFINE u == w(m) * w(j)
                  v == w(n) * w(j)
      <3>1. /\ u \in Nat /\ v \in Nat /\ u < v
            /\ score(m) = (u * c) \div d /\ score(n) = (v * c) \div d
        BY <2>3, <2>4, <2>5
      <3>. HIDE DEF u, v
      <3>2. (u * c) \div d < (v * c) \div d
        BY <2>2, <3>1, ScaledDivisionKeepsOrder
      <3>. QED
        BY <3>1, <3>2
    <2>6. ASSUME NEW m \in DOMAIN dir
          PROVE  score(m) \in Nat
      <3>. DEFINE u == w(m) * w(j)
      <3>1. u \in Nat /\ score(m) = (u * c) \div d
        BY <2>3
      <3>. HIDE DEF u
      <3>2. u * c \in Nat
        BY <2>2, <3>1, ProductInNat
      <3>. QED
        BY <2>2, <3>1, <3>2, DivisionInNat
    <2>7. ASSUME NEW m \in DOMAIN dir, NEW n \in DOMAIN dir
          PROVE  /\ score(m) > score(n) <=> w(m) > w(n)
                 /\ score(m) = score(n) <=> w(m) = w(n)
      <3>. HIDE DEF score, w
      <3>1. w(m) \in Nat /\ w(n) \in Nat /\ score(m) \in Nat /\ score(n) \in Nat
        BY <2>3, <2>6
      <3>2. w(m) < w(n) => score(m) < score(n)
        BY <2>5
      <3>3. w(n) < w(m) => score(n) < score(m)
        BY <2>5
      <3>4. w(m) = w(n) => score(m) = score(n)
        BY <2>3
      <3>. QED
        BY <3>1, <3>2, <3>3, <3>4
    <2>8. ASSUME NEW m \in DOMAIN dir
          PROVE  EntryRank(NoSignals, Entries(dir), Exits(dir)[j], i, m)
                   <=> WeightOrder(Entries(dir), i, m)
      <3>1. /\ Entries(dir)[m].weight = w(m) /\ Entries(dir)[i].weight = w(i)
        BY DEF Entries
      <3>2. EntryRank(NoSignals, Entries(dir), Exits(dir)[j], i, m)
              <=> \/ score(i) > score(m)
                  \/ /\ score(i) = score(m)
                     /\ Entries(dir)[i].exit_id < Entries(dir)[m].exit_id
                  \/ /\ score(i) = score(m)
                     /\ Entries(dir)[i].exit_id = Entries(dir)[m].exit_id /\ i <= m
        BY DEF EntryRank
      <3>. HIDE DEF score, w
      <3>. QED
        BY <2>7, <3>1, <3>2 DEF WeightOrder
    <2>9. PickedEntry(Entries(dir), EntryCandidates(dir, j), client, i)
            <=> i \in P /\ \A m \in P : WeightOrder(Entries(dir), i, m)
      BY DEF PickedEntry
    <2>. HIDE DEF P
    <2>10. IsBestEntry(NoSignals, Entries(dir), P, Exits(dir)[j], i)
             <=> i \in P /\ \A m \in P : WeightOrder(Entries(dir), i, m)
      BY <2>1, <2>8 DEF IsBestEntry
    <2>. QED
      BY <2>9, <2>10 DEF P
  <1>3. TypeOK => FollowsNoSignalOrder
    BY <1>1, <1>2 DEF FollowsNoSignalOrder
  <1>. QED
    BY <1>3, TypeCorrect, PTL
=============================================================================
