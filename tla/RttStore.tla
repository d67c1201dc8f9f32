------------------------------ MODULE RttStore ------------------------------
(***************************************************************************)
(* The client's store of measured entry round-trip times                   *)
(* (warren-discovery/src/rtt.rs), as operators on the map the store keeps: *)
(* samples[e] is the smoothed RTT of endpoint e with the time it was       *)
(* measured, or None.  The module has no state of its own; RttCache makes  *)
(* a state machine of it and CircuitClient reads it to rank circuits.      *)
(***************************************************************************)
EXTENDS Integers

CONSTANTS
  Endpoints,  \* Ed25519 endpoint pubkeys, the keys of the store
  None        \* absence of a sample, a reading, a circuit

ASSUME NoneAssumption == None \notin Nat

(***************************************************************************)
(* One smoothed round-trip time.  rtt_ms is a u32 and the midpoint of two  *)
(* u32 is a u32, so the width never shows and Nat stands for it.           *)
(***************************************************************************)
RttSample == [rtt_ms : Nat, measured_at : Nat]

SampleMap == [Endpoints -> RttSample \cup {None}]

EmptyStore == [e \in Endpoints |-> None]

\* `now.saturating_sub(t)`: a sample stamped in the future has age 0.
Age(now, t) == IF now >= t THEN now - t ELSE 0

(***************************************************************************)
(* Definitions named Slip... are plausible mistakes in the definition that *)
(* follows them; they are used only to show that the properties notice.    *)
(***************************************************************************)
SlipMidpointRoundsUp(a, b) == (a + b + 1) \div 2

\* `u32::midpoint` rounds towards zero.
Midpoint(a, b) == (a + b) \div 2

(***************************************************************************)
(* `fresh_rtt_ms`: the sample when it is younger than ttl, else None.      *)
(***************************************************************************)
FreshRtt(samples, e, now, ttl) ==
  IF samples[e] # None /\ Age(now, samples[e].measured_at) < ttl
  THEN samples[e].rtt_ms
  ELSE None

SlipSmoothsStale(samples, e, rtt, now, ttl) ==
  IF samples[e] = None THEN rtt ELSE Midpoint(samples[e].rtt_ms, rtt)

(***************************************************************************)
(* `record`: a fresh previous sample is blended by midpoint, a stale or    *)
(* absent one is replaced, and the measurement time is now in both cases.  *)
(* ttl is DEFAULT_RTT_TTL_SECS, the store's one staleness notion.          *)
(***************************************************************************)
Smoothed(samples, e, rtt, now, ttl) ==
  LET prev == FreshRtt(samples, e, now, ttl)
  IN  IF prev = None THEN rtt ELSE Midpoint(prev, rtt)

Recorded(samples, e, rtt, now, ttl) ==
  [samples EXCEPT ![e] = [rtt_ms |-> Smoothed(samples, e, rtt, now, ttl),
                          measured_at |-> now]]

SlipPrunesEarly(samples, now, ttl) ==
  [e \in Endpoints |->
     IF samples[e] # None /\ Age(now, samples[e].measured_at) + 1 < ttl
     THEN samples[e]
     ELSE None]

(***************************************************************************)
(* `prune`: samples whose age reached the caller's ttl are dropped.        *)
(***************************************************************************)
Pruned(samples, now, ttl) ==
  [e \in Endpoints |->
     IF samples[e] # None /\ Age(now, samples[e].measured_at) < ttl
     THEN samples[e]
     ELSE None]
=============================================================================
