------------------------------ MODULE RttCache ------------------------------
(***************************************************************************)
(* The RTT store as a state machine: the tunnel layer records measurements *)
(* at connection lifecycle points, the embedder prunes when it likes, and  *)
(* the wall clock the embedder passes in moves forward or is stepped back  *)
(* (the code reads no clock of its own and guards the subtraction with     *)
(* saturating_sub for that reason).                                        *)
(*                                                                         *)
(* Three history variables serve the properties.  seen[e] holds the raw    *)
(* measurements of the current chain of e: those recorded since the last   *)
(* gap of a full TTL, or since the chain was pruned away.  `unpruned` is   *)
(* the store as it would be had prune never been called.  `steppedBack`    *)
(* says whether the clock ever moved backwards.                            *)
(***************************************************************************)
EXTENDS RttStore

CONSTANTS
  Rtts,        \* raw round-trip times the transport reports, ms
  SteadyRtt,   \* the RTT a path settles on, for the convergence property
  Ttl,         \* DEFAULT_RTT_TTL_SECS
  PruneTtls,   \* the ttl arguments the embedder prunes with
  MaxTime      \* bound on the clock

ASSUME RttsAssumption == Rtts \subseteq Nat /\ SteadyRtt \in Rtts
ASSUME TtlAssumption  == Ttl \in Nat \ {0}
ASSUME PruneAssumption == PruneTtls \subseteq {t \in Nat : t >= Ttl}
ASSUME TimeAssumption == MaxTime \in Nat

VARIABLES
  samples,   \* the store
  now,       \* the clock value the embedder passes to the next call
  seen,      \* history: raw measurements of the current chain
  unpruned,  \* history: the store without prune
  steppedBack \* history: the clock moved backwards at least once

vars == <<samples, now, seen, unpruned, steppedBack>>

TypeOK ==
  /\ samples \in SampleMap
  /\ now \in 0..MaxTime
  /\ seen \in [Endpoints -> SUBSET Rtts]
  /\ unpruned \in SampleMap
  /\ steppedBack \in BOOLEAN

Init ==
  /\ samples = EmptyStore
  /\ now = 0
  /\ seen = [e \in Endpoints |-> {}]
  /\ unpruned = EmptyStore
  /\ steppedBack = FALSE

-----------------------------------------------------------------------------
(* The operations *)

\* The chain of e is live when its last measurement is younger than a TTL.
LiveChain(e) == samples[e] # None /\ now - samples[e].measured_at < Ttl

Record(e, rtt) ==
  /\ samples' = Recorded(samples, e, rtt, now, Ttl)
  /\ seen' = [seen EXCEPT ![e] = IF LiveChain(e) THEN @ \cup {rtt} ELSE {rtt}]
  /\ unpruned' = Recorded(unpruned, e, rtt, now, Ttl)
  /\ UNCHANGED <<now, steppedBack>>

Prune(ttl) ==
  /\ samples' = Pruned(samples, now, ttl)
  /\ UNCHANGED <<now, seen, unpruned, steppedBack>>

Advance(t) ==
  /\ t > now
  /\ now' = t
  /\ UNCHANGED <<samples, seen, unpruned, steppedBack>>

StepBack(t) ==
  /\ t < now
  /\ now' = t
  /\ steppedBack' = TRUE
  /\ UNCHANGED <<samples, seen, unpruned>>

Next ==
  \/ \E e \in Endpoints, rtt \in Rtts : Record(e, rtt)
  \/ \E ttl \in PruneTtls : Prune(ttl)
  \/ \E t \in 0..MaxTime : Advance(t)
  \/ \E t \in 0..MaxTime : StepBack(t)

Spec == Init /\ [][Next]_vars

(***************************************************************************)
(* Fairness for the convergence property only: connections to an endpoint  *)
(* keep completing and some of them report the RTT the path really has.    *)
(***************************************************************************)
SteadySpec == Spec /\ \A e \in Endpoints : WF_vars(Record(e, SteadyRtt))

-----------------------------------------------------------------------------
(* Properties *)

(***************************************************************************)
(* A stored value is always bracketed by raw measurements of its own live  *)
(* chain: whatever the order of records, prunes, idle periods and clock    *)
(* steps, a measurement older than an idle gap of one TTL no longer has    *)
(* any influence, and smoothing never leaves the observed range.           *)
(***************************************************************************)
SmoothedWithinChain ==
  \A e \in Endpoints :
    samples[e] # None =>
      \E lo, hi \in seen[e] : lo <= samples[e].rtt_ms /\ samples[e].rtt_ms <= hi

(***************************************************************************)
(* "Optional housekeeping": as long as the clock never stepped back, no    *)
(* reader can tell whether prune was ever called, also through later       *)
(* records that would have blended with a pruned sample.                   *)
(***************************************************************************)
PruneUnobservable ==
  ~steppedBack => \A e \in Endpoints :
    FreshRtt(samples, e, now, Ttl) = FreshRtt(unpruned, e, now, Ttl)

(***************************************************************************)
(* One outlier moves a live value at most halfway (rounded up): the rule   *)
(* that keeps a single bad connection from reordering the entries.         *)
(***************************************************************************)
Distance(a, b) == IF a >= b THEN a - b ELSE b - a

OutlierMovesHalfway ==
  [][\A e \in Endpoints, rtt \in Rtts :
       Record(e, rtt) /\ LiveChain(e) =>
         2 * Distance(samples'[e].rtt_ms, samples[e].rtt_ms)
           <= Distance(rtt, samples[e].rtt_ms) + 1]_vars

(***************************************************************************)
(* A measurement leaves the value at what it measured, up to the           *)
(* millisecond of rounding, or strictly closer to it than it was: the      *)
(* distance that falls until Converges holds.                              *)
(***************************************************************************)
EveryMeasurementApproaches ==
  [][\A e \in Endpoints, rtt \in Rtts :
       Record(e, rtt) =>
         \/ samples'[e].rtt_ms \in {rtt - 1, rtt}
         \/ /\ LiveChain(e)
            /\ Distance(samples'[e].rtt_ms, rtt) < Distance(samples[e].rtt_ms, rtt)]_vars

(***************************************************************************)
(* If from some time on every measurement of e reports SteadyRtt, the      *)
(* store settles on it, up to the one millisecond the rounding towards     *)
(* zero loses when it is approached from below.                            *)
(***************************************************************************)
MeasuresOnlySteady(e) == \A r \in Rtts : Record(e, r) => r = SteadyRtt

Converges ==
  \A e \in Endpoints :
    <>[][MeasuresOnlySteady(e)]_vars
      => <>[](samples[e] # None =>
                 samples[e].rtt_ms \in {SteadyRtt - 1, SteadyRtt})
=============================================================================
