---------------------------- MODULE ClientProofs ---------------------------
(***************************************************************************)
(* Proofs about what a client keeps and shows: the RTT store, and the      *)
(* connection with its relays, block and phase. The two share no state;    *)
(* each section proves about its own specification.                        *)
(***************************************************************************)
EXTENDS RttCache, ClientConnection, TLAPS

(***************************************************************************)
(* RttCache, for every set of endpoints, measurements, TTL, prune argument *)
(* and clock bound.                                                        *)
(***************************************************************************)

(***************************************************************************)
(* The midpoint of two measurements lies between them, and moves either    *)
(* one by at most half their distance, rounded up.                         *)
(***************************************************************************)
LEMMA MidpointBetween ==
  ASSUME NEW a \in Nat, NEW b \in Nat
  PROVE  /\ Midpoint(a, b) \in Nat
         /\ a <= b => a <= Midpoint(a, b) /\ Midpoint(a, b) <= b
         /\ b <= a => b <= Midpoint(a, b) /\ Midpoint(a, b) <= a
         /\ 2 * Distance(Midpoint(a, b), a) <= Distance(b, a) + 1
  BY DEF Midpoint, Distance

(***************************************************************************)
(* A reading is a natural number or None, and it is not None exactly for a *)
(* sample of a live chain: saturating the age changes no comparison with a *)
(* positive TTL.                                                           *)
(***************************************************************************)
LEMMA FreshReading ==
  ASSUME NEW store \in SampleMap, NEW e \in Endpoints, NEW t \in Nat,
         NEW ttl \in Nat \ {0}
  PROVE  /\ FreshRtt(store, e, t, ttl) \in Nat \cup {None}
         /\ FreshRtt(store, e, t, ttl) # None <=>
              store[e] # None /\ t - store[e].measured_at < ttl
         /\ FreshRtt(store, e, t, ttl) # None =>
              FreshRtt(store, e, t, ttl) = store[e].rtt_ms
  <1>1. CASE store[e] = None
    BY <1>1 DEF FreshRtt
  <1>2. CASE store[e] # None
    <2>1. store[e] \in RttSample
      BY <1>2 DEF SampleMap
    <2>2. store[e].rtt_ms \in Nat /\ store[e].measured_at \in Nat
      BY <2>1 DEF RttSample
    <2>3. store[e].rtt_ms # None
      BY <2>2, NoneAssumption
    <2>4. Age(t, store[e].measured_at) < ttl <=> t - store[e].measured_at < ttl
      BY <2>2 DEF Age
    <2>. QED
      BY <1>2, <2>2, <2>3, <2>4 DEF FreshRtt
  <1>. QED
    BY <1>1, <1>2

(***************************************************************************)
(* Recording gives the endpoint a sample stamped now and leaves the other  *)
(* endpoints alone.                                                        *)
(***************************************************************************)
LEMMA RecordedSample ==
  ASSUME NEW store \in SampleMap, NEW e \in Endpoints, NEW rtt \in Nat,
         NEW t \in Nat, NEW ttl \in Nat \ {0}
  PROVE  /\ Smoothed(store, e, rtt, t, ttl) \in Nat
         /\ Recorded(store, e, rtt, t, ttl) \in SampleMap
         /\ Recorded(store, e, rtt, t, ttl)[e] \in RttSample
         /\ Recorded(store, e, rtt, t, ttl)[e].rtt_ms
              = Smoothed(store, e, rtt, t, ttl)
         /\ Recorded(store, e, rtt, t, ttl)[e].measured_at = t
         /\ \A f \in Endpoints \ {e} :
              Recorded(store, e, rtt, t, ttl)[f] = store[f]
  <1>1. Smoothed(store, e, rtt, t, ttl) \in Nat
    BY FreshReading, MidpointBetween DEF Smoothed
  <1>. DEFINE s == [rtt_ms |-> Smoothed(store, e, rtt, t, ttl), measured_at |-> t]
  <1>2. s \in RttSample /\ s.rtt_ms = Smoothed(store, e, rtt, t, ttl) /\ s.measured_at = t
    BY <1>1 DEF RttSample
  <1>3. Recorded(store, e, rtt, t, ttl) = [store EXCEPT ![e] = s]
    BY DEF Recorded
  <1>. HIDE DEF s
  <1>. QED
    BY <1>1, <1>2, <1>3 DEF SampleMap

(***************************************************************************)
(* What the other proofs take from the type invariant.                     *)
(***************************************************************************)
LEMMA TypeFacts ==
  ASSUME TypeOK
  PROVE  /\ samples \in SampleMap /\ unpruned \in SampleMap
         /\ now \in Nat
         /\ seen \in [Endpoints -> SUBSET Rtts]
         /\ Ttl \in Nat \ {0}
         /\ Rtts \subseteq Nat
  BY TimeAssumption, TtlAssumption, RttsAssumption DEF TypeOK

(***************************************************************************)
(* Type correctness.                                                       *)
(***************************************************************************)
THEOREM TypeCorrect == Spec => []TypeOK
  <1>. USE TimeAssumption, TtlAssumption, RttsAssumption
  <1>1. Init => TypeOK
    <2>. SUFFICES ASSUME Init PROVE TypeOK
      OBVIOUS
    <2>1. samples \in SampleMap /\ unpruned \in SampleMap
      BY DEF Init, EmptyStore, SampleMap
    <2>2. now \in 0..MaxTime
      BY DEF Init
    <2>3. seen \in [Endpoints -> SUBSET Rtts]
      BY DEF Init
    <2>4. steppedBack \in BOOLEAN
      BY DEF Init
    <2>. QED
      BY <2>1, <2>2, <2>3, <2>4 DEF TypeOK
  <1>2. TypeOK /\ [Next]_vars => TypeOK'
    <2>. SUFFICES ASSUME TypeOK, [Next]_vars PROVE TypeOK'
      OBVIOUS
    <2>. USE DEF TypeOK
    <2>1. ASSUME NEW e \in Endpoints, NEW rtt \in Rtts, Record(e, rtt)
          PROVE  TypeOK'
      <3>1. samples' \in SampleMap /\ unpruned' \in SampleMap
        BY <2>1, RecordedSample DEF Record
      <3>2. seen' \in [Endpoints -> SUBSET Rtts]
        BY <2>1 DEF Record
      <3>. QED
        BY <2>1, <3>1, <3>2 DEF Record
    <2>2. ASSUME NEW ttl \in PruneTtls, Prune(ttl)
          PROVE  TypeOK'
      BY <2>2 DEF Prune, Pruned, SampleMap
    <2>3. ASSUME NEW t \in 0..MaxTime, Advance(t) \/ StepBack(t)
          PROVE  TypeOK'
      BY <2>3 DEF Advance, StepBack
    <2>4. CASE UNCHANGED vars
      BY <2>4 DEF vars
    <2>. QED
      BY <2>1, <2>2, <2>3, <2>4 DEF Next
  <1>. QED
    BY <1>1, <1>2, PTL DEF Spec

(***************************************************************************)
(* What a record step does to the store, by the state of the chain.        *)
(***************************************************************************)
LEMMA RecordStep ==
  ASSUME TypeOK, NEW e \in Endpoints, NEW rtt \in Rtts, Record(e, rtt)
  PROVE  /\ \A f \in Endpoints : f # e => /\ samples'[f] = samples[f]
                                         /\ unpruned'[f] = unpruned[f]
                                         /\ seen'[f] = seen[f]
         /\ LiveChain(e) =>
              /\ samples[e].rtt_ms \in Nat
              /\ samples'[e].rtt_ms = Midpoint(samples[e].rtt_ms, rtt)
              /\ seen'[e] = seen[e] \cup {rtt}
         /\ ~LiveChain(e) => samples'[e].rtt_ms = rtt /\ seen'[e] = {rtt}
  <1>1. /\ samples' = Recorded(samples, e, rtt, now, Ttl)
        /\ unpruned' = Recorded(unpruned, e, rtt, now, Ttl)
        /\ seen' = [seen EXCEPT ![e] = IF LiveChain(e) THEN @ \cup {rtt} ELSE {rtt}]
    BY DEF Record
  <1>2. /\ samples \in SampleMap /\ unpruned \in SampleMap
        /\ now \in Nat /\ Ttl \in Nat \ {0} /\ rtt \in Nat
    BY TypeFacts
  <1>3. /\ \A f \in Endpoints \ {e} :
             Recorded(samples, e, rtt, now, Ttl)[f] = samples[f]
        /\ Recorded(samples, e, rtt, now, Ttl)[e].rtt_ms
             = Smoothed(samples, e, rtt, now, Ttl)
    BY <1>2 DEF Recorded, SampleMap
  <1>4. \A f \in Endpoints \ {e} :
          Recorded(unpruned, e, rtt, now, Ttl)[f] = unpruned[f]
    BY <1>2 DEF Recorded, SampleMap
  <1>5. /\ FreshRtt(samples, e, now, Ttl) # None <=> LiveChain(e)
        /\ LiveChain(e) => FreshRtt(samples, e, now, Ttl) = samples[e].rtt_ms
    BY <1>2, FreshReading DEF LiveChain
  <1>6. LiveChain(e) => samples[e].rtt_ms \in Nat
    BY <1>2 DEF LiveChain, SampleMap, RttSample
  <1>7. samples'[e].rtt_ms = IF LiveChain(e) THEN Midpoint(samples[e].rtt_ms, rtt)
                                             ELSE rtt
    BY <1>1, <1>3, <1>5 DEF Smoothed
  <1>8. seen \in [Endpoints -> SUBSET Rtts]
    BY TypeFacts
  <1>. QED
    BY <1>1, <1>3, <1>4, <1>6, <1>7, <1>8

(***************************************************************************)
(* Every stored value is bracketed by raw measurements of its own chain.   *)
(* The invariant is inductive by itself, given type correctness: a record  *)
(* either extends a live chain, and the midpoint stays inside the bracket  *)
(* widened by the new measurement, or starts a chain of one.               *)
(***************************************************************************)
THEOREM ChainBracketsSample == Spec => []SmoothedWithinChain
  <1>. USE TimeAssumption, TtlAssumption, RttsAssumption
  <1>1. Init => SmoothedWithinChain
    BY DEF Init, SmoothedWithinChain, EmptyStore
  <1>2. TypeOK /\ SmoothedWithinChain /\ [Next]_vars => SmoothedWithinChain'
    <2>. SUFFICES ASSUME TypeOK, SmoothedWithinChain, [Next]_vars,
                         NEW f \in Endpoints, samples'[f] # None
                  PROVE  \E lo, hi \in seen'[f] :
                           lo <= samples'[f].rtt_ms /\ samples'[f].rtt_ms <= hi
      BY DEF SmoothedWithinChain
    <2>. USE TypeFacts
    <2>1. ASSUME NEW e \in Endpoints, NEW rtt \in Rtts, Record(e, rtt)
          PROVE  \E lo, hi \in seen'[f] :
                   lo <= samples'[f].rtt_ms /\ samples'[f].rtt_ms <= hi
      <3>1. CASE f # e
        <4>1. samples'[f] = samples[f] /\ seen'[f] = seen[f]
          BY <2>1, <3>1, RecordStep
        <4>. QED
          BY <4>1 DEF SmoothedWithinChain
      <3>2. CASE f = e /\ LiveChain(e)
        <4>2. samples'[e].rtt_ms = Midpoint(samples[e].rtt_ms, rtt)
          BY <2>1, <3>2, RecordStep
        <4>3. seen'[e] = seen[e] \cup {rtt}
          BY <2>1, <3>2, RecordStep
        <4>4. PICK lo \in seen[e], hi \in seen[e] :
                lo <= samples[e].rtt_ms /\ samples[e].rtt_ms <= hi
          BY <3>2 DEF LiveChain, SmoothedWithinChain
        <4>5. lo \in Nat /\ hi \in Nat /\ rtt \in Nat
          OBVIOUS
        <4>6. samples[e].rtt_ms \in Nat
          BY <2>1, <3>2, RecordStep
        <4>7. CASE rtt <= samples[e].rtt_ms
          <5>0. /\ rtt <= Midpoint(samples[e].rtt_ms, rtt)
                /\ Midpoint(samples[e].rtt_ms, rtt) <= samples[e].rtt_ms
                /\ Midpoint(samples[e].rtt_ms, rtt) \in Nat
            BY <4>5, <4>6, <4>7, MidpointBetween
          <5>1. rtt <= samples'[e].rtt_ms /\ samples'[e].rtt_ms <= hi
            BY <4>2, <4>4, <4>5, <4>6, <5>0
          <5>. QED
            BY <3>2, <4>3, <5>1
        <4>8. CASE samples[e].rtt_ms <= rtt
          <5>0. /\ samples[e].rtt_ms <= Midpoint(samples[e].rtt_ms, rtt)
                /\ Midpoint(samples[e].rtt_ms, rtt) <= rtt
                /\ Midpoint(samples[e].rtt_ms, rtt) \in Nat
            BY <4>5, <4>6, <4>8, MidpointBetween
          <5>1. lo <= samples'[e].rtt_ms /\ samples'[e].rtt_ms <= rtt
            BY <4>2, <4>4, <4>5, <4>6, <5>0
          <5>. QED
            BY <3>2, <4>3, <5>1
        <4>. QED
          BY <4>5, <4>6, <4>7, <4>8
      <3>3. CASE f = e /\ ~LiveChain(e)
        <4>1. samples'[e].rtt_ms = rtt /\ seen'[e] = {rtt}
          BY <2>1, <3>3, RecordStep
        <4>. QED
          BY <3>3, <4>1
      <3>. QED
        BY <3>1, <3>2, <3>3
    <2>2. ASSUME NEW ttl \in PruneTtls, Prune(ttl)
          PROVE  \E lo, hi \in seen'[f] :
                   lo <= samples'[f].rtt_ms /\ samples'[f].rtt_ms <= hi
      <3>1. samples'[f] = samples[f] /\ seen' = seen
        BY <2>2 DEF Prune, Pruned
      <3>. QED
        BY <3>1 DEF SmoothedWithinChain
    <2>3. CASE UNCHANGED <<samples, seen>>
      BY <2>3 DEF SmoothedWithinChain
    <2>. QED
      BY <2>1, <2>2, <2>3 DEF Next, Advance, StepBack, vars
  <1>. QED
    BY <1>1, <1>2, TypeCorrect, PTL DEF Spec

(***************************************************************************)
(* Pruning is unobservable as long as the clock never stepped back.  The   *)
(* strengthening: the store and the never-pruned one agree on an endpoint, *)
(* or the sample that only the latter still holds is a full TTL old, which *)
(* it remains under a clock that only advances.                            *)
(***************************************************************************)
PrunedOnlyStale ==
  ~steppedBack =>
    \A e \in Endpoints :
      \/ samples[e] = unpruned[e]
      \/ /\ samples[e] = None
         /\ now - unpruned[e].measured_at >= Ttl

\* No read can tell whether prune ran, while the clock only advances.
THEOREM PruningIsHousekeeping == Spec => []PruneUnobservable
  <1>. USE TimeAssumption, TtlAssumption, RttsAssumption, PruneAssumption
  <1>1. Init => PrunedOnlyStale
    BY DEF Init, PrunedOnlyStale
  <1>2. TypeOK /\ PrunedOnlyStale /\ [Next]_vars => PrunedOnlyStale'
    <2>. SUFFICES ASSUME TypeOK, PrunedOnlyStale, [Next]_vars, ~steppedBack',
                         NEW f \in Endpoints
                  PROVE  \/ samples'[f] = unpruned'[f]
                         \/ /\ samples'[f] = None
                            /\ now' - unpruned'[f].measured_at >= Ttl
      BY DEF PrunedOnlyStale
    <2>. DEFINE Goal == \/ samples'[f] = unpruned'[f]
                        \/ /\ samples'[f] = None
                           /\ now' - unpruned'[f].measured_at >= Ttl
    <2>. USE TypeFacts
    <2>0. ~steppedBack /\ (samples[f] = unpruned[f]
                           \/ (samples[f] = None
                               /\ unpruned[f] # None
                               /\ now - unpruned[f].measured_at >= Ttl))
      BY DEF PrunedOnlyStale, Next, Record, Prune, Advance, StepBack, vars
    <2>1. ASSUME NEW e \in Endpoints, NEW rtt \in Rtts, Record(e, rtt)
          PROVE  Goal
      <3>1. CASE f # e
        <4>1. samples'[f] = samples[f] /\ unpruned'[f] = unpruned[f] /\ now' = now
          BY <2>1, <3>1, RecordStep DEF Record
        <4>. QED
          BY <2>0, <4>1
      <3>2. CASE f = e
        <4>1. FreshRtt(samples, e, now, Ttl) = FreshRtt(unpruned, e, now, Ttl)
          <5>1. CASE samples[e] = unpruned[e]
            BY <5>1 DEF FreshRtt
          <5>2. CASE samples[e] # unpruned[e]
            <6>1. /\ samples[e] = None
                  /\ unpruned[e] # None
                  /\ now - unpruned[e].measured_at >= Ttl
              BY <2>0, <3>2, <5>2
            <6>2. unpruned[e].measured_at \in Nat
              BY <6>1 DEF SampleMap, RttSample
            <6>3. ~(Age(now, unpruned[e].measured_at) < Ttl)
              BY <6>1, <6>2 DEF Age
            <6>. QED
              BY <6>1, <6>3 DEF FreshRtt
          <5>. QED
            BY <5>1, <5>2
        <4>2. samples'[e] = unpruned'[e]
          BY <2>1, <4>1 DEF Record, Recorded, Smoothed, SampleMap
        <4>. QED
          BY <3>2, <4>2
      <3>. QED
        BY <3>1, <3>2
    <2>2. ASSUME NEW ttl \in PruneTtls, Prune(ttl)
          PROVE  Goal
      <3>1. ttl \in Nat /\ ttl >= Ttl
        OBVIOUS
      <3>2. unpruned' = unpruned /\ now' = now
        BY <2>2 DEF Prune
      <3>3. CASE samples'[f] = samples[f]
        BY <2>0, <3>2, <3>3
      <3>4. CASE samples'[f] # samples[f]
        <4>1. /\ samples[f] # None
              /\ samples'[f] = None
              /\ ~(Age(now, samples[f].measured_at) < ttl)
          BY <2>2, <3>4 DEF Prune, Pruned
        <4>2. samples[f].measured_at \in Nat
          BY <4>1 DEF SampleMap, RttSample
        <4>3. now - samples[f].measured_at >= Ttl
          BY <3>1, <4>1, <4>2 DEF Age
        <4>. QED
          BY <2>0, <3>2, <4>1, <4>3
      <3>. QED
        BY <3>3, <3>4
    <2>3. ASSUME NEW t \in 0..MaxTime, Advance(t)
          PROVE  Goal
      <3>1. samples' = samples /\ unpruned' = unpruned /\ now' \in Nat /\ now' > now
        BY <2>3 DEF Advance
      <3>2. unpruned[f] # None => unpruned[f].measured_at \in Nat
        BY DEF SampleMap, RttSample
      <3>. QED
        BY <2>0, <3>1, <3>2
    <2>4. CASE UNCHANGED vars
      BY <2>0, <2>4 DEF vars
    <2>. QED
      BY <2>1, <2>2, <2>3, <2>4 DEF Next, StepBack
  <1>3. TypeOK /\ PrunedOnlyStale => PruneUnobservable
    <2>. SUFFICES ASSUME TypeOK, PrunedOnlyStale, ~steppedBack, NEW e \in Endpoints
                  PROVE  FreshRtt(samples, e, now, Ttl) = FreshRtt(unpruned, e, now, Ttl)
      BY DEF PruneUnobservable
    <2>1. CASE samples[e] = unpruned[e]
      BY <2>1 DEF FreshRtt
    <2>2. CASE samples[e] # unpruned[e]
      <3>1. samples[e] = None /\ now - unpruned[e].measured_at >= Ttl
        BY <2>2 DEF PrunedOnlyStale
      <3>2. now \in Nat /\ samples \in SampleMap /\ unpruned \in SampleMap
        BY DEF TypeOK
      <3>3. CASE unpruned[e] = None
        BY <2>2, <3>1, <3>3
      <3>4. CASE unpruned[e] # None
        <4>1. unpruned[e].measured_at \in Nat
          BY <3>2, <3>4 DEF SampleMap, RttSample
        <4>2. ~(now - unpruned[e].measured_at < Ttl)
          BY <3>1, <3>2, <4>1
        <4>. QED
          BY <3>1, <3>2, <4>2, FreshReading
      <3>. QED
        BY <3>3, <3>4
    <2>. QED
      BY <2>1, <2>2
  <1>. QED
    BY <1>1, <1>2, <1>3, TypeCorrect, PTL DEF Spec

(***************************************************************************)
(* No single measurement moves a live value more than halfway to it.       *)
(***************************************************************************)
THEOREM OneOutlierOneHalf == Spec => OutlierMovesHalfway
  <1>. USE TimeAssumption, TtlAssumption, RttsAssumption
  <1>1. ASSUME TypeOK, NEW e \in Endpoints, NEW rtt \in Rtts,
               Record(e, rtt), LiveChain(e)
        PROVE  2 * Distance(samples'[e].rtt_ms, samples[e].rtt_ms)
                 <= Distance(rtt, samples[e].rtt_ms) + 1
    <2>1. /\ samples[e].rtt_ms \in Nat
          /\ samples'[e].rtt_ms = Midpoint(samples[e].rtt_ms, rtt)
      BY <1>1, RecordStep
    <2>2. rtt \in Nat
      OBVIOUS
    <2>. QED
      BY <2>1, <2>2, MidpointBetween
  <1>2. TypeOK /\ [Next]_vars =>
          [\A e \in Endpoints, rtt \in Rtts :
             Record(e, rtt) /\ LiveChain(e) =>
               2 * Distance(samples'[e].rtt_ms, samples[e].rtt_ms)
                 <= Distance(rtt, samples[e].rtt_ms) + 1]_vars
    BY <1>1
  <1>. QED
    BY <1>2, TypeCorrect, PTL DEF Spec, OutlierMovesHalfway

LEMMA MidpointCloser ==
  ASSUME NEW a \in Nat, NEW b \in Nat
  PROVE  \/ Midpoint(a, b) \in {b - 1, b}
         \/ Distance(Midpoint(a, b), b) < Distance(a, b)
  BY DEF Midpoint, Distance

(***************************************************************************)
(* The distance to a value that is measured again and again falls with     *)
(* every measurement until it is one millisecond at most, for every TTL    *)
(* and every way the clock runs.                                           *)
(***************************************************************************)
THEOREM MeasurementsApproach == Spec => EveryMeasurementApproaches
  <1>. USE TimeAssumption, TtlAssumption, RttsAssumption
  <1>1. ASSUME TypeOK, NEW e \in Endpoints, NEW rtt \in Rtts, Record(e, rtt)
        PROVE  \/ samples'[e].rtt_ms \in {rtt - 1, rtt}
               \/ /\ LiveChain(e)
                  /\ Distance(samples'[e].rtt_ms, rtt) < Distance(samples[e].rtt_ms, rtt)
    <2>1. CASE LiveChain(e)
      <3>1. /\ samples[e].rtt_ms \in Nat /\ rtt \in Nat
            /\ samples'[e].rtt_ms = Midpoint(samples[e].rtt_ms, rtt)
        BY <1>1, <2>1, RecordStep
      <3>. QED
        BY <2>1, <3>1, MidpointCloser
    <2>2. CASE ~LiveChain(e)
      BY <1>1, <2>2, RecordStep
    <2>. QED
      BY <2>1, <2>2
  <1>2. TypeOK /\ [Next]_vars =>
          [\A e \in Endpoints, rtt \in Rtts :
             Record(e, rtt) =>
               \/ samples'[e].rtt_ms \in {rtt - 1, rtt}
               \/ /\ LiveChain(e)
                  /\ Distance(samples'[e].rtt_ms, rtt)
                       < Distance(samples[e].rtt_ms, rtt)]_vars
    BY <1>1
  <1>. QED
    BY <1>2, TypeCorrect, PTL DEF Spec, EveryMeasurementApproaches

-----------------------------------------------------------------------------
(***************************************************************************)
(* ClientConnection, for every list, query and set of relays: what is      *)
(* shown is true of the block, the block falls only at an intended end,    *)
(* and a failover picks soundly.                                           *)
(***************************************************************************)

(***************************************************************************)
(* How the session stands to the relay and to the block.  A relay is only  *)
(* dialed behind the block, so a session, which a dial begins, has it; a   *)
(* session that ends or fails has let its relay go; and one that closes is *)
(* no longer wanted, or finishing it would open the network under a user   *)
(* who asked to be connected.                                              *)
(***************************************************************************)
SessionInv ==
  /\ ~Alive => session = "none" /\ phase = "idle"
  /\ session \in {"closing", "failed"} => phase = "idle"
  /\ phase # "idle" => block
  /\ Protecting => block
  /\ session = "closing" => ~wanted

ClientInv == ClientTypeOK /\ SessionInv

-----------------------------------------------------------------------------
(* Selection *)

\* The relays of a list are relays.
LEMMA RelaysAreRelays ==
  ASSUME list \in Lists
  PROVE  Relays \subseteq Relay
<1>1. list \subseteq WireNode
  BY ListsAssumption
<1>2. ASSUME NEW n \in WireNode PROVE FromWire(n) \in Relay
  BY DEF WireNode, FromWire, Relay
<1> QED  BY <1>1, <1>2 DEF Relays

\* What the selectors offer comes from the list.
LEMMA CandidatesAreListed ==
  ASSUME NEW q, NEW failed
  PROVE  /\ SelectCandidates(Relays, q) \subseteq Relays
         /\ WeightedCandidates(Relays, q) \subseteq Relays
         /\ FailoverCandidates(Relays, q, failed) \subseteq Relays
  BY DEF SelectCandidates, WeightedCandidates, FailoverCandidates

\* A choice from the list keeps the relay and the phase in step.
LEMMA SelectFromTypes ==
  ASSUME RelayTypeOK, NEW candidates \in SUBSET Relays, SelectFrom(candidates)
  PROVE  RelayTypeOK' /\ phase' \in {"idle", "dialing"}
<1>1. candidates \subseteq Relay /\ NoRelay \notin Relay
  BY RelaysAreRelays, NoRelayAssumption DEF RelayTypeOK
<1>2. UNCHANGED <<list, query, down>>
  BY DEF SelectFrom
<1>3. CASE candidates = {}
  BY <1>2, <1>3 DEF SelectFrom, RelayTypeOK
<1>4. CASE candidates # {}
  BY <1>1, <1>2, <1>4 DEF SelectFrom, RelayTypeOK
<1> QED  BY <1>3, <1>4

LEMMA DropTypes == ASSUME RelayTypeOK, Drop PROVE RelayTypeOK'
  BY DEF RelayTypeOK, Drop

\* The flow and the evidence are of the same kind.
LEMMA FlowTypes ==
  /\ Flowing \in EgressEvidence
  /\ [Flowing EXCEPT !.host_offline = TRUE] \in EgressEvidence
  /\ [Flowing EXCEPT !.exit_egress_dead = TRUE] \in EgressEvidence
  BY DEF Flowing, EgressEvidence

-----------------------------------------------------------------------------
(* Every step keeps the invariant *)

LEMMA ConnectStep ==
  ASSUME ClientInv, StartConnecting
  PROVE  ClientInv'
<1>1. PICK candidates \in SUBSET Relays : SelectFrom(candidates)
  BY CandidatesAreListed DEF StartConnecting, Connect
<1>2. RelayTypeOK' /\ phase' \in {"idle", "dialing"}
  BY <1>1, SelectFromTypes DEF ClientInv, ClientTypeOK
<1>3. /\ Alive /\ wanted /\ block' = TRUE
      /\ session' = IF phase' = "dialing" THEN "none" ELSE "failed"
      /\ UNCHANGED <<lockdown, wanted, daemon, flow, egress>>
  BY DEF StartConnecting
<1>4. ClientTypeOK'
  BY <1>2, <1>3 DEF ClientInv, ClientTypeOK
<1>5. SessionInv'
  BY <1>2, <1>3 DEF SessionInv, Alive, Protecting
<1> QED  BY <1>4, <1>5 DEF ClientInv

LEMMA FailOverStep ==
  ASSUME ClientInv, Redial \/ MoveOff
  PROVE  ClientInv'
<1>1. SelectFrom(FailoverCandidates(Relays, query, current))
  BY DEF Redial, MoveOff, FailOver
<1>2. RelayTypeOK' /\ phase' \in {"idle", "dialing"}
  BY <1>1, CandidatesAreListed, SelectFromTypes DEF ClientInv, ClientTypeOK
<1>3. /\ Alive /\ block
      /\ session' \in {session, "held", "failed"}
      /\ IF session' = "failed" THEN phase' # "dialing"
         ELSE phase' = "dialing" /\ session' \in {"none", "held"}
      /\ UNCHANGED <<lockdown, wanted, daemon, block, flow, egress>>
  <2>1. CASE Redial
    BY <2>1 DEF Redial, FailOver, ClientInv, SessionInv
  <2>2. CASE MoveOff
    BY <2>2 DEF MoveOff, ClientInv, SessionInv, Protecting
  <2> QED  BY <2>1, <2>2
<1>4. ClientTypeOK'
  BY <1>2, <1>3 DEF ClientInv, ClientTypeOK
<1>5. SessionInv'
  BY <1>2, <1>3 DEF SessionInv, Alive, Protecting
<1> QED  BY <1>4, <1>5 DEF ClientInv

LEMMA EstablishStep ==
  ASSUME ClientInv, Establish
  PROVE  ClientInv'
<1>1. /\ phase = "dialing" /\ phase' = "connected" /\ session' = "held" /\ Alive
      /\ UNCHANGED <<list, query, down, current, lockdown, wanted, daemon, block>>
      /\ flow' = Flowing /\ egress' = Flowing
  BY DEF Establish, DialSucceeds
<1>2. ClientTypeOK'
  BY <1>1, FlowTypes DEF ClientInv, ClientTypeOK, RelayTypeOK
<1>3. SessionInv'
  BY <1>1 DEF ClientInv, SessionInv, Alive, Protecting
<1> QED  BY <1>2, <1>3 DEF ClientInv

\* The steps that change neither the relay nor the block.
LEMMA SessionStep ==
  ASSUME ClientInv, AskToConnect \/ BlockFails \/ Retry \/ Drain \/ Probe \/ Flows
  PROVE  ClientInv'
<1>1. UNCHANGED <<relayVars, lockdown, daemon, block>>
  BY DEF AskToConnect, BlockFails, Retry, Drain, Probe, Flows
<1>2. ClientTypeOK'
  <2>1. RelayTypeOK'
    BY <1>1 DEF ClientInv, ClientTypeOK, RelayTypeOK, relayVars
  <2>2. /\ wanted' \in {wanted, TRUE}
        /\ session' \in {session, "none", "draining", "failed"}
    BY DEF AskToConnect, BlockFails, Retry, Drain, Probe, Flows
  <2>3. flow \in EgressEvidence /\ egress \in EgressEvidence
    BY DEF ClientInv, ClientTypeOK
  <2>4. flow' \in EgressEvidence /\ egress' \in EgressEvidence
    BY <2>3, FlowTypes DEF AskToConnect, BlockFails, Retry, Drain, Probe, Flows
  <2> QED  BY <1>1, <2>1, <2>2, <2>4 DEF ClientInv, ClientTypeOK
<1>3. SessionInv'
  BY <1>1 DEF ClientInv, SessionInv, Alive, Protecting, relayVars, AskToConnect, BlockFails,
              Retry, Drain, Probe, Flows
<1> QED  BY <1>2, <1>3 DEF ClientInv

\* The ends of a session.
LEMMA EndStep ==
  ASSUME ClientInv,
         AskToDisconnect \/ LoseOwner \/ ShutDownDaemon \/ KillDaemon \/ RebootHost
  PROVE  ClientInv'
<1>1. Drop /\ UNCHANGED <<lockdown, flow, egress>>
  BY DEF AskToDisconnect, LoseOwner, ShutDownDaemon, KillDaemon, RebootHost
<1>2. RelayTypeOK' /\ phase' = "idle"
  BY <1>1, DropTypes DEF ClientInv, ClientTypeOK, Drop
<1>3. /\ block' \in BOOLEAN /\ wanted' \in BOOLEAN
      /\ daemon' \in {"up", "stopped", "dead"} /\ session' \in {"none", "closing"}
      /\ session' = "closing" => ~wanted' /\ daemon' = "up"
  BY DEF AskToDisconnect, LoseOwner, ShutDownDaemon, KillDaemon, RebootHost, Hold, ClientInv,
         ClientTypeOK, Alive
<1>4. ClientTypeOK'
  BY <1>1, <1>2, <1>3 DEF ClientInv, ClientTypeOK
<1>5. SessionInv'
  BY <1>2, <1>3 DEF SessionInv, Alive, Protecting
<1> QED  BY <1>4, <1>5 DEF ClientInv

\* The steps that may let the block fall: no relay is dialed by then.
LEMMA ReleaseStep ==
  ASSUME ClientInv, FinishDisconnect \/ StartDaemon \/ Revert
  PROVE  ClientInv'
<1>1. /\ session \in {"none", "closing"} /\ phase = "idle" /\ session' = "none"
      /\ UNCHANGED <<relayVars, lockdown, flow, egress>>
  BY DEF FinishDisconnect, StartDaemon, Revert, ClientInv, SessionInv, Alive
<1>2. /\ block' \in BOOLEAN /\ wanted' \in BOOLEAN
      /\ daemon' \in {"up", "stopped", "dead"}
  BY DEF FinishDisconnect, StartDaemon, Revert, Hold, ClientInv, ClientTypeOK
<1>3. ClientTypeOK'
  BY <1>1, <1>2 DEF ClientInv, ClientTypeOK, RelayTypeOK, relayVars
<1>4. SessionInv'
  BY <1>1 DEF SessionInv, Alive, Protecting, relayVars
<1> QED  BY <1>3, <1>4 DEF ClientInv

LEMMA WorldStep ==
  ASSUME ClientInv, World
  PROVE  ClientInv'
<1>1. UNCHANGED <<current, phase, lockdown, wanted, daemon, session, block, flow, egress>>
  BY DEF World, RefreshList, ChangeQuery, GoDown, ComeUp, clientVars
<1>2. list' \in Lists /\ query' \in Queries /\ down' \subseteq Ids
  BY DEF World, RefreshList, ChangeQuery, GoDown, ComeUp, ClientInv, ClientTypeOK, RelayTypeOK
<1>3. ClientTypeOK'
  BY <1>1, <1>2 DEF ClientInv, ClientTypeOK, RelayTypeOK
<1>4. SessionInv'
  BY <1>1 DEF ClientInv, SessionInv, Alive, Protecting
<1> QED  BY <1>3, <1>4 DEF ClientInv

LEMMA ClientInvariant == ClientSpec => []ClientInv
<1>1. ClientInit => ClientInv
  BY FlowTypes
     DEF ClientInit, RelayInit, ClientInv, ClientTypeOK, RelayTypeOK, SessionInv, Alive,
         Protecting
<1>2. ClientInv /\ [ClientNext]_allVars => ClientInv'
  <2> SUFFICES ASSUME ClientInv, [ClientNext]_allVars PROVE ClientInv'
    OBVIOUS
  <2>1. CASE UNCHANGED allVars
    BY <2>1 DEF allVars, relayVars, clientVars, ClientInv, ClientTypeOK, RelayTypeOK,
                SessionInv, Alive, Protecting
  <2> QED
    BY <2>1, ConnectStep, FailOverStep, EstablishStep, SessionStep, EndStep, ReleaseStep,
       WorldStep DEF ClientNext
<1> QED  BY <1>1, <1>2, PTL DEF ClientSpec

-----------------------------------------------------------------------------
(* Theorems *)

\* The client keeps its types, whatever its lists, queries and relays are.
THEOREM ClientTypeCorrect == ClientSpec => []ClientTypeOK
<1>1. ClientInv => ClientTypeOK
  BY DEF ClientInv
<1> QED  BY <1>1, ClientInvariant, PTL

(***************************************************************************)
(* The phase shown never claims a block that is not there and never hides  *)
(* one that is, in every order of dials, drains, crashes and restarts.     *)
(***************************************************************************)
THEOREM ShownIsAlwaysTrue == ClientSpec => []ShownIsTrue
<1>1. ClientInv => ShownIsTrue
  <2> SUFFICES ASSUME ClientInv, Alive
               PROVE  /\ Shown = "exposed" => ~block
                      /\ Shown \in {"protected", "interrupted", "blocked"} => block
    BY DEF ShownIsTrue
  <2>0. block \in BOOLEAN
    BY DEF ClientInv, ClientTypeOK
  <2>1. CASE session \in {"closing", "draining"}
    BY <2>1 DEF Shown, Status, ReducePhase
  <2>2. CASE session = "failed"
    BY <2>0, <2>2 DEF Shown, Status, ReducePhase
  <2>3. CASE session = "held"
    BY <2>0, <2>3 DEF Shown, Status, ReducePhase, ClientInv, SessionInv, Protecting
  <2>4. CASE session = "none"
    BY <2>0, <2>4 DEF Shown, Status, ReducePhase
  <2> QED  BY <2>1, <2>2, <2>3, <2>4 DEF ClientInv, ClientTypeOK
<1> QED  BY <1>1, ClientInvariant, PTL

(***************************************************************************)
(* No step takes the block from a user who wants the session, and under    *)
(* lockdown none does but the manual escape.                               *)
(***************************************************************************)
THEOREM BlockHolds == ClientSpec => HoldsUntilIntended
<1>1. ClientInv /\ [ClientNext]_allVars =>
        [block /\ ~block' => ~wanted' /\ (lockdown => Revert)]_allVars
  <2> SUFFICES ASSUME ClientInv, ClientNext, block, ~block'
               PROVE  ~wanted' /\ (lockdown => Revert)
    BY DEF allVars, clientVars
  <2>1. CASE FinishDisconnect
    BY <2>1 DEF FinishDisconnect, Hold, ExpectedPosture, ClientInv, SessionInv
  <2>2. CASE LoseOwner
    BY <2>2 DEF LoseOwner, Hold, ExpectedPosture
  <2>3. CASE ShutDownDaemon
    BY <2>3 DEF ShutDownDaemon, Hold, ExpectedPosture
  <2>4. CASE KillDaemon
    BY <2>4 DEF KillDaemon, ExpectedPosture
  <2>5. CASE RebootHost
    BY <2>5 DEF RebootHost, Hold, ExpectedPosture
  <2>6. CASE StartDaemon
    BY <2>6 DEF StartDaemon
  <2>7. CASE Revert
    BY <2>7 DEF Revert
  <2> QED
    BY <2>1, <2>2, <2>3, <2>4, <2>5, <2>6, <2>7
       DEF ClientNext, AskToConnect, StartConnecting, BlockFails, Retry, Establish, Redial,
           Drain, MoveOff, Probe, AskToDisconnect, World, Flows, clientVars
<1> QED  BY <1>1, ClientInvariant, PTL DEF ClientSpec, HoldsUntilIntended

(***************************************************************************)
(* Nobody is cut off by a step of the daemon, the app or the host that he  *)
(* did not ask for, whatever the relays, and lockdown apart.               *)
(***************************************************************************)
THEOREM OpenStaysOpen == ClientSpec => BlocksOnPurpose
<1>1. ClientInv /\ [ClientNext]_allVars => [~block /\ block' => wanted \/ lockdown]_allVars
  <2> SUFFICES ASSUME ClientInv, ClientNext, ~block, block'
               PROVE  wanted \/ lockdown
    BY DEF allVars, clientVars
  <2>1. CASE StartConnecting
    BY <2>1 DEF StartConnecting
  <2>2. CASE FinishDisconnect
    BY <2>2 DEF FinishDisconnect, Hold, ExpectedPosture
  <2>3. CASE LoseOwner \/ KillDaemon
    BY <2>3 DEF LoseOwner, KillDaemon, Protecting, ClientInv, SessionInv
  <2>4. CASE ShutDownDaemon \/ RebootHost
    BY <2>4 DEF ShutDownDaemon, RebootHost, Hold, ExpectedPosture
  <2>5. CASE StartDaemon \/ Revert
    BY <2>5 DEF StartDaemon, Revert
  <2> QED
    BY <2>1, <2>2, <2>3, <2>4, <2>5
       DEF ClientNext, AskToConnect, BlockFails, Retry, Establish, Redial,
           Drain, MoveOff, Probe, AskToDisconnect, World, Flows, clientVars
<1> QED  BY <1>1, ClientInvariant, PTL DEF ClientSpec, BlocksOnPurpose

(***************************************************************************)
(* For every list and query, also those that changed since the relay was   *)
(* chosen, a failover leaves the failed relay, picks an enabled, active    *)
(* node of the list in hand that the query allows, and crosses a border or *)
(* gives up only when it has to.                                           *)
(***************************************************************************)
THEOREM FailoverPicksSoundly == ClientSpec => FailoverIsSound
<1> DEFINE Others == {r \in Eligible : r.id # current.id}
           Picks == /\ current' = NoRelay => Others = {}
                    /\ current' # NoRelay =>
                         /\ current'.id # current.id
                         /\ \E n \in list : n.active /\ n.weight > 0 /\ FromWire(n) = current'
                         /\ LocationMatches(query, current')
                         /\ current'.country # current.country =>
                              \A r \in Others : r.country # current.country
<1>1. ASSUME ClientInv, FailOver PROVE Picks
  <2> DEFINE home == {r \in Others : r.country = current.country}
             picked == FailoverCandidates(Relays, query, current)
  <2>1. picked = IF home # {} THEN home ELSE Others
    BY DEF FailoverCandidates, Eligible
  <2>2. picked \subseteq Relay /\ NoRelay \notin Relay
    BY <1>1, RelaysAreRelays, CandidatesAreListed, NoRelayAssumption
       DEF ClientInv, ClientTypeOK, RelayTypeOK
  <2>3. IF picked = {} THEN current' = NoRelay ELSE current' \in picked
    BY <1>1 DEF FailOver, SelectFrom
  <2>4. CASE picked = {}
    BY <2>1, <2>3, <2>4
  <2>5. CASE picked # {}
    <3>1. current' \in picked /\ current' # NoRelay /\ current' \in Others
      BY <2>1, <2>2, <2>3, <2>5
    <3>2. current' \in Relays /\ current'.weight > 0 /\ Matches(query, current')
      BY <3>1 DEF Eligible, WeightedCandidates
    <3>3. PICK n \in list : FromWire(n) = current'
      BY <3>2 DEF Relays
    <3>4. n.active /\ n.weight > 0 /\ LocationMatches(query, current')
      BY <3>2, <3>3 DEF FromWire, Matches
    <3>5. current'.country # current.country => home = {}
      BY <2>1, <3>1
    <3> QED  BY <3>1, <3>3, <3>4, <3>5
  <2> QED  BY <2>4, <2>5
<1>2. ClientInv /\ [ClientNext]_allVars => [FailOver => Picks]_relayVars
  BY <1>1
<1>3. [][FailOver => Picks]_relayVars => FailoverIsSound
  BY DEF FailoverIsSound
<1> QED  BY <1>2, <1>3, ClientInvariant, PTL DEF ClientSpec

=============================================================================
