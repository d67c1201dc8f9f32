--------------------------- MODULE BroadcastClient ---------------------------
(***************************************************************************)
(* A broadcast channel in the field.  The operator publishes and withdraws *)
(* items (or the forum's counts change), the server signs what it has at   *)
(* the moment with a short lifetime, and a client shows what it holds,     *)
(* while refreshes are blocked, old documents come back from caches, its   *)
(* clock lags, and it restarts in other versions.                          *)
(*                                                                         *)
(* A behaviour follows one channel, "items" or "digest": the channels have *)
(* nothing in common but the clock.  The lifetime of a document, the       *)
(* generation of every change and the client's high-water mark are what    *)
(* the module docs require of the callers of this crate.                   *)
(***************************************************************************)
EXTENDS Broadcast, FiniteSets

CONSTANTS
  Items,          \* the items the operator may publish
  CountLists,     \* the sequences of unread counts the forum may have
  Slots,          \* the slots of accounts, counted from 0
  Versions,       \* the versions the client may run, None if unknown
  Keys,           \* online keys
  Pins,           \* the server keys the client pins
  Forms,          \* what transport may make of a document
  Lags,           \* how far the client's clock may be behind
  Lifetime,       \* how long a signed document is valid
  MaxGeneration,  \* bound on changes
  MaxCached,      \* bound on the documents still in a cache
  MaxTime         \* bound on the clock

ASSUME LifetimeAssumption == Lifetime \in Nat \ {0}
ASSUME LagsAssumption == Lags \subseteq Int
ASSUME CountsAssumption == CountLists \subseteq Seq(Nat) /\ Slots \subseteq Nat
ASSUME ItemsAssumption ==
  \A i \in Items : /\ {i.min, i.max} \subseteq {None} \cup Version
                   /\ i.expires_at \in Nat \cup {None}
ASSUME VersionsAssumption == Versions \subseteq {None} \cup Version
ASSUME BoundsAssumption ==
  MaxGeneration \in Nat /\ MaxCached \in Nat /\ MaxTime \in Nat

VARIABLES
  channel,  \* "items" or "digest"
  now,      \* the server's clock
  bodies,   \* what was published, generation after generation
  cached,   \* signed documents still in a cache
  held,     \* the verified document the client uses, or None
  seen,     \* the client's high-water mark
  version,  \* the client's version
  lag,      \* how far its clock is behind
  gone      \* history: [at, generation] of each mark's withdrawal, or None

vars == <<channel, now, bodies, cached, held, seen, version, lag, gone>>

Marks == IF channel = "items" THEN Items ELSE Slots

Body == IF bodies = <<>> THEN <<>> ELSE bodies[Len(bodies)]

Published == IF bodies = <<>> THEN {} ELSE bodies[Len(bodies)]

CountAt(counts, s) == IF s + 1 \in DOMAIN counts THEN counts[s + 1] ELSE 0

\* The marks a body puts in front of a user: its items, or its nonzero slots.
MarksOf(body) ==
  IF channel = "items" THEN body
  ELSE {s \in Slots : CountAt(body, s) > 0}

Bodies == IF channel = "items" THEN SUBSET Items ELSE CountLists

TypeOK ==
  /\ channel \in {"items", "digest"}
  /\ now \in 0..MaxTime
  /\ bodies \in Seq(Bodies)
  /\ Len(bodies) <= MaxGeneration
  /\ \A d \in cached : d.generation \in 1..Len(bodies) /\ d.signed_at \in 0..now
  /\ held # None => held.generation \in 1..Len(bodies) /\ held.generation <= seen
  /\ seen \in 0..Len(bodies)
  /\ version \in Versions
  /\ lag \in Lags
  /\ gone \in [Marks -> {None} \cup [at : 0..now, generation : 1..Len(bodies)]]

Init ==
  /\ channel \in {"items", "digest"}
  /\ now = 0
  /\ bodies = <<>>
  /\ cached = {}
  /\ held = None
  /\ seen = 0
  /\ version \in Versions
  /\ lag \in Lags
  /\ gone = [m \in Marks |-> None]

-----------------------------------------------------------------------------
(* The server *)

\* Every publication and every withdrawal is a generation of its own.
Change(body) ==
  /\ Len(bodies) < MaxGeneration
  /\ bodies' = Append(bodies, body)
  /\ UNCHANGED <<channel, now, cached, held, seen, version, lag>>

NowGone == [at |-> now, generation |-> Len(bodies) + 1]

\* Ids are assigned by the server and not used twice.
Publish(i) ==
  /\ channel = "items"
  /\ i \notin Published /\ gone[i] = None
  /\ Change(Published \cup {i})
  /\ gone' = gone

Withdraw(i) ==
  /\ channel = "items"
  /\ i \in Published
  /\ Change(Published \ {i})
  /\ gone' = [gone EXCEPT ![i] = NowGone]

\* A rebuild of the digest: users read threads and receive replies.
Rebuild(counts) ==
  /\ channel = "digest"
  /\ counts # Body
  /\ Change(counts)
  /\ gone' = [m \in Marks |->
                IF m \in MarksOf(counts) THEN None
                ELSE IF m \in MarksOf(Body) THEN NowGone
                ELSE gone[m]]

\* What a document carries of the content.
Rendered(body) == IF channel = "items" THEN body ELSE Packed(body)

\* The current content, signed anew under the online key of the moment.
SignCurrent(k) ==
  /\ bodies # <<>>
  /\ LET doc == Document(Len(bodies), Rendered(bodies[Len(bodies)]),
                         now, now + Lifetime, k)
     IN  /\ Cardinality(cached \cup {doc}) <= MaxCached
         /\ cached' = cached \cup {doc}
  /\ UNCHANGED <<channel, now, bodies, held, seen, version, lag, gone>>

Evict(d) ==
  /\ cached' = cached \ {d}
  /\ UNCHANGED <<channel, now, bodies, held, seen, version, lag, gone>>

Tick ==
  /\ now < MaxTime
  /\ now' = now + 1
  /\ UNCHANGED <<channel, bodies, cached, held, seen, version, lag, gone>>

-----------------------------------------------------------------------------
(* The client *)

\* The document of any generation taken.
SlipTakesAnyGeneration(d, form) ==
  /\ Verdict(form, d, Pins) = "ok"
  /\ held' = d
  /\ seen' = IF d.generation > seen THEN d.generation ELSE seen
  /\ UNCHANGED <<channel, now, bodies, cached, version, lag, gone>>

Fetch(d, form) ==
  /\ Verdict(form, d, Pins) = "ok"
  /\ d.generation >= seen
  /\ held' = d
  /\ seen' = d.generation
  /\ UNCHANGED <<channel, now, bodies, cached, version, lag, gone>>

\* The document is not kept over a restart, the high-water mark is.
Restart(v) ==
  /\ held' = None
  /\ version' = v
  /\ UNCHANGED <<channel, now, bodies, cached, seen, lag, gone>>

Next ==
  \/ \E i \in Items : Publish(i) \/ Withdraw(i)
  \/ \E counts \in CountLists : Rebuild(counts)
  \/ \E k \in Keys : SignCurrent(k)
  \/ \E d \in cached : Evict(d)
  \/ Tick
  \/ \E d \in cached, form \in Forms : Fetch(d, form)
  \/ \E v \in Versions : Restart(v)

Spec == Init /\ [][Next]_vars

\* What the client shows: items, or the slots with a badge.
Clock == now - lag

Shown ==
  IF held = None THEN {}
  ELSE IF channel = "items" THEN ActiveFor(held, Clock, version)
  ELSE {s \in Slots : UnreadFor(held, Clock, s) > 0}

-----------------------------------------------------------------------------
(* Properties *)

(***************************************************************************)
(* Anti-freeze: whatever is blocked, replayed or restarted, an item or a   *)
(* badge is off the screen one document lifetime after it was withdrawn,   *)
(* later only by what the client's clock is behind.                        *)
(***************************************************************************)
WithdrawnCeiling ==
  \A m \in Shown : gone[m] # None => now < gone[m].at + Lifetime + lag

(***************************************************************************)
(* Anti-rollback: a client that has seen any document from after a         *)
(* withdrawal does not show the withdrawn again, also after a restart and  *)
(* also if an older document is still valid and comes back first.          *)
(***************************************************************************)
SeenIsGone ==
  \A m \in Shown : gone[m] # None => seen < gone[m].generation

(***************************************************************************)
(* Targeting: what is shown is meant for the client's version, by the      *)
(* order of the versions' values; a range that cannot be decided shows     *)
(* nothing, an item without a range reaches everyone.                      *)
(***************************************************************************)
Base == MaxComponent + 1

Value(v) == Component(v, 1) * Base * Base + Component(v, 2) * Base + Component(v, 3)

TargetedOnly ==
  held # None /\ channel = "items" /\ ~Expired(held, Clock) =>
    \A i \in held.body :
      (i.expires_at # None => Clock < i.expires_at) =>
        (i \in Shown
           <=> \/ i.min = None /\ i.max = None
               \/ /\ Parses(version)
                  /\ i.min # None => Parses(i.min) /\ Value(i.min) <= Value(version)
                  /\ i.max # None => Parses(i.max) /\ Value(version) <= Value(i.max))

(***************************************************************************)
(* A badge is the account's own count of the generation held, saturated,   *)
(* or none: packing and the slot lookup neither shift, wrap nor invent.    *)
(***************************************************************************)
BadgeIsTrue ==
  held # None /\ channel = "digest" /\ ~Expired(held, Clock) =>
    \A s \in Slots :
      LET count == CountAt(bodies[held.generation], s)
          badge == UnreadFor(held, Clock, s)
      IN  /\ badge <= UnreadSaturated
          /\ badge = count \/ (badge = UnreadSaturated /\ count > badge)
=============================================================================
