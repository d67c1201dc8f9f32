# TLA+ models of warren-contract

`warren-contract` is the crate that the Warren API, exits, relays and clients
share: the wire documents, their signatures, and the pure decisions every party
has to take the same way. `warren-discovery`, the crate inside it, holds the
signed directories and the selection of exits, entries and relays.

Almost all of the code is pure: a function of its arguments, with the clock and
the random source passed in. What is hard about it is therefore not inside one
call. It is what a *sequence* of calls does, made by parties of different
versions, on documents of different ages, that arrive late, twice or never,
while clocks, keys, fleets and versions change. So every component is modelled
in two layers:

- a module of **operators**, one per function of the code (`PathAware`,
  `SignedList`, `PortTag`, ...);
- a **state machine** whose actions are the calls the parties make and what can
  happen between them (`CircuitClient`, `ListTrust`, `PortForward`, ...), with
  the properties at its end.

Some parties (the API, the exits, the daemon) live in other repositories. Their
actions do what the documents of this crate say the documents are for, and are
marked external in the map unless a document's text fixes them.

An `MC...` module supplies the constants of a small instance, a `...Proofs`
module the theorems: `ClientProofs` and `ApiProofs` those of two machines each,
which share no state, `SelectionProofs` those of the multi-hop client and of the
picks beside it, the others those of the machine they are named for.

## 1. Inventory

| Component (source) | State | Operations | Interacts with |
|---|---|---|---|
| RTT cache (`rtt.rs`) | sample per endpoint: smoothed RTT, time | `record`, `fresh_rtt_ms`, `prune` | tunnel layer writes, selectors read |
| Path-aware selection (`path_aware.rs`) | none; the caller keeps the flying circuit | `select_circuit_path_aware`, `select_entry_path_aware`, `pick_circuit_by_weight`, scores | RTT cache, advisory, directory |
| Circuit policy (`multihop_directory.rs`) | AS rule computed from a fleet | `valid_circuits`, `entries`, `exits`, `permits`, `via_entry` | path-aware selection, entry pick |
| Directory publication (`multihop_directory.rs`) | stored draft, served documents, clients' copies | lossless gate, self-consistency, `sign_directory_draft`, `redact_exit_endpoints`, `verify_multihop_directory_any`, descriptor checks | operator, API server, clients |
| Entry and exit pick (`pick.rs`) | none | `pick_exit`, `prefer_client_continent`, `pick_entry` | circuit policy |
| Relay selection (`selector.rs`, `query.rs`, `relay.rs`) | the list and the query | `select`, `select_for_attempt`, `select_failover_alternative` | signed list, tunnel (dial results) |
| Signed list and roster (`signed.rs`, `roster.rs`, `envelope.rs`) | documents, generation, pins | allowlist scan, sign, verify, classify, `authorize` | API server, offline key, clients |
| Broadcast documents (`notices.rs`, `announcements.rs`, `forum_digest.rs`, `version_range.rs`) | verified document, generation | sign, verify, `is_expired`, `active_for`, `unread_for`, packing | API server, clients |
| Port-forward attribution (`pf_attribution.rs`, `dto.rs`) | tags; the API's ledger; the exits' mappings; abuse cases | `seal`, `open`, `verify`, envelope `parse`/`encode`; spend, release, revoke, acknowledge | API, exits, clients |
| Release manifests, update agent (`release.rs`, `dto.rs`) | catalogue, rollout; an exit's boot slot, mark, agent state | sign, verify, register with an offer, stage, swap, confirm, persist | API, exits |
| Hardware qualification (`dto.rs`) | none | `ExitHwQual` verdict, class, estimate | exits |
| Route admission (`route_kem.rs`, `dto.rs`) | signed route key, anchors, route leases | sign, verify, seal, register, renew, open | API, exits, clients |
| Subscriptions, deltas, CRL (`dto.rs`) | vouchers, subscriptions, log of generations, CRL version | redeem, refund, override, retire; poll, snapshot, revoke | API, exits |
| Phase, kill switch (`phase.rs`, `killswitch.rs`) | none; the daemon's tunnel and block | `reduce_phase`, `expected_posture` | daemon, clients, relay failover |
| JSON reader, verifier binary (`json_io.rs`, `bin/`) | none | parse, print | files |
| Request signatures (`auth.rs`) | none; server keeps nonces | `sign_request` | clients, API |
| Fallback (`fallback.rs`) | none | `fallback_candidates` | clients |
| Listings, statistics, payments (`dto.rs`) | none | single-field validation | API, clients |
| SS58, env, product (`ss58.rs`, `env.rs`, `product.rs`) | none | encode, parse, constants | all |

What is hard in it:

- **Staleness.** RTT samples, advisory legs, directories, lists, rosters,
  published keys and the client's own last circuit are all of different ages
  when one call reads them together.
- **Version skew.** A verifier rebuilds what was signed from the fields *it*
  knows, so publisher, server and client versions meet in every signature.
- **Order and loss.** Verification has no memory and mostly no clock;
  generations and expiries are compared by the caller. Documents are cached and
  replayed, spends and acknowledgements are lost and repeated.
- **Restarts.** Exits keep mappings and a freshly swapped binary in RAM, the API
  keeps anchors there, clients lose the document they held, daemons crash with
  the firewall's block up.
- **Boundaries.** `<` against `<=` on expiries and TTLs, saturating arithmetic
  in scores, weights of zero, a digit per unread count.
- **Two implementations of one rule.** Circuit view against flat view,
  weight-only pick against path-aware pick, read-time expiry against pruning.

`PROJECT.json` lists each of these at its line under `hazards`, with the
property that watches it.

## 2. The models

### RTT cache: `RttStore`, `RttCache`

`RttStore` has the three methods on a map; `RttCache` calls them in any order
under a clock that moves forward and is set back. History variables keep the raw
measurements of the current chain (`seen`) and the store that was never pruned
(`unpruned`).

- `SmoothedWithinChain`: a blend carries a value on beyond its own TTL, but it
  never leaves the range of the measurements chained to it by gaps under a TTL.
- `PruneUnobservable`: no reader, now or after later blends, can tell whether
  pruning took place, as long as the clock was not set back and the prune TTL is
  not below the read TTL. (With a clock set back a pruned sample might have
  become fresh again.)
- `Converges`: repeated equal measurements bring the value to within the one
  millisecond that `u32::midpoint`, which rounds down, can lose from below.

What the doc of `record` says of one outlier (`OutlierMovesHalfway`), and that a
measurement leaves the value nearer to it unless only the rounding is between
them (`EveryMeasurementApproaches`, the distance that falls until `Converges`
holds), are proved and not part of the run.

### Multi-hop client: `CircuitPolicy`, `PathAware`, `DirectoryFeed`, `CircuitClient`

`CircuitPolicy` has the directory's views and the diversity rules, `PathAware`
the scores and both selections. A selection is an operator
`Selected(signals, pairs, previous, pair)` that is true of the pair the code
returns; that there is exactly one is a property. `CircuitClient` composes them
with `RttStore` (by `INSTANCE`): measurements, advisories reported and lost,
directory refreshes, drains that begin and end, country hints, time, and `Poll`.
Directory and drains come to every multi-hop client the same way: they are
`DirectoryFeed`, which `EntryPick` extends too.

- `PollChoiceAllowed`: whatever is flying, a poll returns only what the rules of
  *now* allow, stated on nodes and not through `valid_circuits`.
- `PollIsStable`: the answer is unique, it is the answer again if nothing
  changes, and the same circuit when the directory is listed in another order
  (reversed), which is what separates a tie broken by id from one by position.
- `ViewsAgree`: the flat entry view of the SDK and the pair view of the daemon
  reach the same decision for every exit.
- `SwitchImproves`: a circuit still on offer is given up only for one better by
  more than the margin, or when it is freshly degraded. What is fresh the
  property says itself (`CurrentReport`), apart from the selection's reading of
  a leg.
- `DrainedNodeIsLeft`: a polling client leaves a draining node on either leg.

`path_aware.rs` says that without any signal the selection is *exactly*
`pick_circuit_by_weight`. It is with nothing flying (`FirstPickIsByWeight`, a
theorem); with a circuit flying the margin also protects the incumbent against
a heavier newcomer.

### Entry and exit pick: `EntryPick`

The picks of `pick.rs`, for a client on any continent (or with no timezone) that
keeps nothing between two picks. They read the directory and the drains of
`DirectoryFeed`, so `MCCircuitClient` brings both clients to one feed and one run
checks them.

- `ReorderNeverMoves`: the directory's order is irrelevant.
- `FollowsNoSignalOrder`: `pick.rs` says `pick_entry` is exactly the no-signal
  order of `select_entry_path_aware`. It is where weights are at least one and
  their product does not saturate. At these edges the latter, which floors
  weights at 1 and saturates, may tie entries that `pick_entry` tells apart (of
  weights 0 and 1, say); the property then says that the pick is one of its best.

### Single-hop failover: `RelaySelection`, `RelayFailover`

A client connects, fails over and reconnects over lists and queries that change
under it and relays that go down and come up. The weighted random pick is any
candidate of positive weight, which covers every seed. `FailoverIsSound` states
the two-stage policy against the list of the moment. The machine is one
component of `ClientConnection`, whose run checks it.

### The client's connection: `ClientContract`, `ClientConnection`

`ClientContract` has the two tables of `phase.rs` and `killswitch.rs` whole.
`ClientConnection` composes them with `RelayFailover`: the user asks, the daemon
raises the block and dials, dials fail and are redialled by the failover policy,
tunnels drain and move, egress dies and recovers, the app or the daemon is
killed, the host reboots, a service manager starts the daemon again. Lockdown is
fixed for a behaviour.

- `ShownIsTrue`: the phase shown is right about the block, in both directions.
- `HoldsUntilIntended`: only an intended end lifts the block.
- `NeverBricked`: without lockdown, a user who is done gets the network back.
- `ProtectedAgain`: when the world settles, whoever wants a connection ends
  protected. The memory of a failover is one relay, so this is stated for at
  most one eligible relay down: with two dead relays in a country with nothing
  else the code can alternate between them while a live one abroad is never
  tried.

The other direction of `HoldsUntilIntended`, that an open network is closed only
for a user who wants a session or under lockdown (`BlocksOnPurpose`), is proved
and not part of the run.

### Signed list and roster: `SignedList`, `ListTrust`, `TrustedDocument`

A field is a name in a schema; a build has the set of fields its structs have.
`SignatureHolds` re-serializes what the build parsed, as the code does, so a
signature fails exactly when the build lost a signed field. Servers are upgraded,
keys rotate, documents are served from caches, unsigned fields are added and
texts damaged on the way; lists and rosters are fetched apart.

- `GatedIsReadable`: the emission gate is enough: what passed it is readable by
  every build of its schema that pins its key.
- `SkewIsNamed`: a document that slipped past the gate fails with the reason
  that says so, judged by the version it declares.
- `IsTrustedDocument`: the machine implements `TrustedDocument`, an abstract
  specification with nothing but issued documents and what each client acts on:
  one of them, whole, and never an older one than it holds. The refinement maps
  a generation to the fields and the body its signature covers, so that a field
  added on the way, or a lost one, is no step of the abstract specification.
- `OneReadingPerExit`: after the roster, one exit id is one key in one place.

One unreadable node rejects the whole list, by `collect` into a `Result`; the
model keeps that verdict. Nothing is promised about it.

### Multi-hop directory: `DirectoryChain`, `DirectoryRollout`

Operators post drafts (sound, or with nodes under an older key, unattested, or
with a bit or key no signature binds), a server of some build gates, stores,
overlays edge pins and serves on `/v1` and `/v2`, clients of other builds
verify. `NothingLost`: what a client accepts is the draft, whole. `ServedIsReadable`:
no gate lets through what a client of the same fields refuses or thins out.
`DialMaterialIsBound`: post-quantum sealing and the DNS bit are used exactly as
minted.

The model's actions assume what the crate's docs ask of deployment, and these are
worth knowing: the lossless gate judges for the build that runs it, so a server
must not be rolled back below it; a `/v2` field has to be known to clients
before it is served (client first); one malformed edge pin withholds the whole
directory at serve time.

### Broadcast documents: `Broadcast`, `BroadcastClient`

Notices and announcements share one model (channel `items`): the two files have
the same verification and the same targeting. The forum digest is the other
channel. Content changes bump a generation, any generation current at signing
may be cached and arrive at any time, the client's clock may be behind.

- `WithdrawnCeiling`: withdrawn content is off the screen one document lifetime
  after its withdrawal, plus the lag of the client's clock.
- `SeenIsGone`: a client that has seen a later document never shows it again.
- `TargetedOnly`: an audience is decided by the value of versions (`1.9 =
  1.9.0 < 1.10.7`), and an undecidable one is no match.
- `BadgeIsTrue`: packing saturates, never wraps, shifts or invents.

The generation check is documented as the caller's; `Fetch` makes it, with a
high-water mark that survives restarts. Without either, `SeenIsGone` fails, which
is what its mutant shows.

### Port forwarding: `PortTag`, `PortForward`

Tags and envelopes are the crate's code. The API's ledger, the exits' handlers
and the case decision belong to other repositories and are modelled from what the
documents in `dto.rs` say their fields are for. They are marked external in the
map. Answers are lost, acknowledgements repeated and delayed, exits restart,
epochs roll over, the API key rotates and exits refresh the published one late.

- `GrantIsAccountable`: whatever the client put in the envelope and whatever
  happened to it on the way, the tag behind a mapped port opens, under the key
  that minted it, to the account that was issued the entitlement.
- `OnePortPerEntitlement`: fleet-wide, over retries and lost answers.
- `StrikeHitsHolder`: a case strikes the holder at the time of the incident or
  nobody. Times are in seconds, so that a port lost and regained within one
  second could not be told apart; the rest a port takes after its mapping ends
  (`Cooldown`) is what rules that out, and the model has it.

Two consequences the model makes visible and the code accepts: an entitlement
whose granted spend was lost stays spent for its epoch, and a tag minted under
an older key can be opened only while the API keeps that key (the strike is then
nobody's).

### Exit releases: `ReleaseManifest`, `ExitFleet`, `HwQual`

The operator signs releases offline, generation after generation; the API
catalogues them and hands them out in the answers to heartbeats, the canary
first; an exit verifies, downloads, swaps, confirms with its new version, and
reboots at any point of it. A RAM-only exit runs the new binary before it is
persisted. Storage and transport damage manifests or replace them by others
under the right and under a foreign key.

- `BootsWhatWasSigned`: the boot slot always is the binary of the generation the
  high-water mark names.
- `NeverOlder`: no swap to a generation at or below the mark, nor on a manifest
  that expired while the download took its time; the mark never falls.
- `BadReleaseStopsAtCanary`: a binary that is not what its manifest says runs on
  no other exit, through lost and repeated heartbeats.
- `Converges`: a sound rollout reaches the whole fleet.

Two choices are the model's, where `release.rs` leaves them to the updater: the
mark is written together with the boot slot (apart, a crash between the two
would break one property or the other), and the expiry is checked again before
the swap. Undoing a release takes a new generation: the mark refuses the old.

`HwQual` is the verdict of the exit's bench, a pure function. It is proved
monotone: a node that measures at least as well never gets a lower verdict.

### Route admission: `RouteKem`, `RouteAdmission`

`RouteKem` has the signed key block and its refusals in the order of
`route_kem.rs`. `RouteAdmission` follows one device: it takes a block of any age
from a cache, or one that another key signed, seals an anchor and locators to
it, registers through its main exit, opens route sessions at other exits, and
renews; the API restarts without its anchors, rotates its key and asks for
resubmission; answers are lost.

- `SealedToVouchedKey`: what is sealed, is sealed to a key the API vouched for,
  before the vouching lapsed.
- `OutlivesRestart`: a restart or a reconnecting main costs no route session
  that the restore window covers.
- `RoutesEndWithAnchor`: no exit serves for ever on a dead anchor.

### Subscriptions: `Subscriptions`, `SubscriberSync`

The store redeems, refunds, extends, rate-limits and retires; every mutation is
a generation of a log whose tail is dropped. The exit polls with the generation
it knows and gets a delta or a snapshot, polls the CRL apart, misses polls,
applies answers late and restarts with nothing. A campaign code has no quota or
one that bites; the run takes one without.

- `AllowlistIsGeneration`: the allowlist is the store's at the generation named.
- `NoMoreThanPaid`: time ahead is covered by vouchers, each counted once.
- `RevocationReachesExit`: a revocation in force is enforced in the end, even if
  no allowlist arrives, whatever lapsed before it and whatever was lost of a
  list on the way: no shorter list passes under its version and signature.
- `LapseReachesExit`: a ban that lapsed is lifted: a finding.
- `PaidIsServed`: who paid and was never revoked gets in.

What the model had to settle, and a change to either side has to keep: a delta
lists additions and removals apart and neither carries a generation, so the API
must name each account once, by its last event; a snapshot carries no expiry, so an
exit that relies on it serves until a removal is listed; a withdrawal whose
payment is no longer matched with a voucher moves only money.

## 3. Runs

| Run | Machine and fairness | States | Bounds that matter |
|---|---|---|---|
| `rtt_cache` | `RttCache`, `SteadySpec` | 30 k | one endpoint, clock to 4 with TTL 2, so a chain outlives two TTLs; prune TTL equal to and above the read TTL; four RTTs around an odd midpoint and an outlier |
| `circuit_client` | `CircuitClient`, `FairSpec` | 23 k | three nodes on two continents in four directories: AS rule on with equal weights not listed by id, relaxed with a zero weight, with an unknown AS and a saturating product, and without any circuit; four timezones; two advisory legs, one degraded; clock to 2 with staleness 1 and TTL 2 |
| `relay_stale` | `RelayFailover`, `Spec` | violation | one stale relay in a v11 list |
| `list_trust` | `ListTrust`, `Spec` | 39 k | three client builds, two server builds, a field of no released schema, two keys, two generations, two rosters that disagree |
| `directory_rollout` | `DirectoryRollout`, `Spec` | 86 k | six drafts, two server and three client builds, two generations, two cached documents |
| `broadcast` | `BroadcastClient`, `Spec` | 3.3 M | three generations (published, withdrawn, one later), two cached documents, lifetime 1 on a clock to 3, right or one second slow; saturation at 15 with counts 16 and 17 |
| `port_forward` | `PortForward`, `Spec` | 875 k | two accounts, two exits, one port, two entitlements, one case, two epochs and keys, one second; symmetric in accounts, exits and entitlements |
| `client_connection` | `ClientConnection`, `FairClientSpec` | 37 k | two relays at home, one abroad, one disabled or IPv6 only, at most one eligible relay down for the liveness; both lockdown settings |
| `exit_fleet` | `ExitFleet`, `FairSpec` | 78 k | two exits, the second RAM-only; two plans (an upgrade rolled back under a new generation, a mislabelled binary); clock to 2 with manifests that expire at 1, 2 or later |
| `route_admission` | `RouteAdmission`, `FairSpec` | 669 k | two exits and one route session allowed, so that the limit bites; anchor lifetime 2, the shorter lifetimes 1, clock to 2, two route keys |
| `subscriber_sync` | `SubscriberSync`, `FairSpec` | 755 k | two accounts, a bought voucher and an unlimited campaign code with a deadline; three generations, clock to 1, two revocations, so that one follows a lapse; reasons that lapse and with a line break |
| `crl_lapse` | `SubscriberSync`, `FairSpec` | violation | one generation at time 0, two revocations |

The bounds are small because each hazard needs few things: a conflict of two
documents needs two generations, of two parties two exits or builds, of two times
a TTL crossed once. Every action fires in every run it belongs to, and each
property is broken, under the same bounds, by a mutant of the code it watches: a
`Slip...` operator beside the definition it distorts. Constants that
stand for code constants are scaled: `ScoreScale` is 1,000 for
1,000,000 with costs near 100 ms, which keeps the condition the proofs need;
`MaxWeight` stands for `u64::MAX`, and is small so that saturation happens.

Deadlock is checked in every run but `route_admission` and the two of
`SubscriberSync`: there the clock, the keys, the log and the revocations are
bounded, and a behaviour that used them up with nothing left to renew or to poll
may stop.

### Runs that find a disagreement

- `relay_stale`: `signed.rs` says a stale node is *never a candidate*. The flag is
  dropped by `json_node_to_warren`, and no selector can see it.
- `crl_lapse`: `CrlResponse::version` is *bumped on every revocation insert* and
  consumers *use it to deduplicate polls*; `IssuanceRefusal` has bans that lapse
  *on their own*. A list without the lapsed entry has the version the exit
  already holds and an entry carries no end, so the exit enforces the ban until
  somebody else is revoked or it restarts. If the lapse changed the version too,
  or an entry carried its end, the property would hold.

### Fairness

- `CircuitClient`: weak fairness of `Poll`: the embedder polls as long as it
  runs. Nothing is assumed of measurements, advisories or refreshes.
- `ClientConnection`: weak fairness of the daemon's own work (a dial ends, a
  failed one leads to a failover, a disconnect finishes), of its egress probe,
  and of the service manager that starts a dead daemon. Nothing is assumed of
  the user, relays or crashes; `Settled` is a premise in the formula.
- `ExitFleet`: weak fairness of heartbeats, of an answer to one that arrives, of
  the agent's steps on the machine and of widening a rollout whose canary is
  healthy; strong fairness of a download of the right bytes, which is retried
  and may fail any number of times in between.
- `RouteAdmission`: weak fairness of an exit's renewal and of a resubmission
  that is heard: both are timers of the exit.
- `SubscriberSync`: weak fairness of the two polls, each that is answered.
- `RttCache`: weak fairness of one measurement, for `Converges` only: it states
  what repeated measurements do, not that they come.
- All other runs check safety only and assume nothing.

## 4. Proofs

All theorems are for every value of the constants that satisfies the named
`ASSUME`s: bounds are naturals, parameters positive where the code's are, `None`
is not a value. Every safety invariant and every action property of a run is a
theorem.

| Module | Theorem (property) |
|---|---|
| `ClientProofs` | on `RttCache`: `TypeCorrect`, `ChainBracketsSample` (`SmoothedWithinChain`), `PruningIsHousekeeping` (`PruneUnobservable`), `OneOutlierOneHalf` (`OutlierMovesHalfway`), `MeasurementsApproach` (`EveryMeasurementApproaches`); on `ClientConnection`: `ClientTypeCorrect`, `ShownIsAlwaysTrue` (`ShownIsTrue`), `BlockHolds` (`HoldsUntilIntended`), `OpenStaysOpen` (`BlocksOnPurpose`), `FailoverPicksSoundly` (`FailoverIsSound`) |
| `SelectionProofs` | on `CircuitClient`: `TypeCorrect`, `PollObeysPolicy` (`PollChoiceAllowed`), `PollIsDeterministicAndStable` (`PollIsStable`), `SwitchOnlyForBetter` (`SwitchImproves`), `FirstPickLaw` (`FirstPickIsByWeight`), `ViewsAlwaysAgree` (`ViewsAgree`); on `EntryPick`: `ListingOrderIsIrrelevant` (`ReorderNeverMoves`), `NoSignalOrder` (`FollowsNoSignalOrder`) |
| `ListTrustProofs` | `TypeCorrect`, `EmitGateSuffices` (`GatedIsReadable`), `SkewHasItsOwnReason` (`SkewIsNamed`), `ListIsTrustedDocument` (`IsTrustedDocument`), `RosterSettlesIdentity` (`OneReadingPerExit`) |
| `BroadcastProofs` | `TypeCorrect`, `AntiFreeze` (`WithdrawnCeiling`), `AntiRollback` (`SeenIsGone`), `AudiencesAreMeant` (`TargetedOnly`), `AudienceIsAnInterval`, `BadgesAreTrue` (`BadgeIsTrue`) |
| `PortForwardProofs` | `PortTypeCorrect`, `GrantsAreAccountable` (`GrantIsAccountable`), `EntitlementsMapOnce` (`OnePortPerEntitlement`), `StrikesHitTheCulprit` (`StrikeHitsHolder`) |
| `ExitFleetProofs` | `TypeCorrect`, `BootsSigned` (`BootsWhatWasSigned`), `NeverGoesBack` (`NeverOlder`), `BadReleaseIsContained` (`BadReleaseStopsAtCanary`); on `HwQual`: `BetterHardwareIsNeverJudgedWorse` |
| `RouteAdmissionProofs` | `RouteInvariance` (`RouteInv`), `SealsOnlyToTheApi` (`SealedToVouchedKey`), `RoutesSurviveRestarts` (`OutlivesRestart`) |
| `ApiProofs` | on `SubscriberSync`: `AllowlistFollowsStore` (`AllowlistIsGeneration`), `TimeIsPaidFor` (`NoMoreThanPaid`); on `DirectoryRollout`: `RolloutInvariance` (`RolloutInv`), `DirectoriesAreWhole` (`NothingLost`), `ServedVerifies` (`ServedIsReadable`), `DialsAsMinted` (`DialMaterialIsBound`) |

Along which arguments:

- *RTT cache.* `SmoothedWithinChain` is inductive with the types, by a lemma
  that a midpoint lies between its arguments. `PruneUnobservable` is not:
  `PrunedOnlyStale` says the two stores agree on an endpoint, or the one that was
  pruned lacks a sample past its TTL. A midpoint that rounds down is strictly
  nearer to the measurement, unless it is the millisecond below it.
- *Connection.* `SessionInv` says how the session stands to the relay and the
  block: a relay is dialed only behind the block, a session that ends has let its
  relay go, and one that closes is no longer wanted. The last conjunct is what
  `HoldsUntilIntended` needs: without it the end of a disconnect could open the
  network under a user who asked to connect again.
- *Selection.* The state enters only through the types. The work is in the order
  the sort makes (score, combined weight, ids, position) and in the arithmetic of
  the margin: the score falls with the cost and grows with the weight, strictly
  once the scale exceeds the neutral cost, and best elements exist and are
  unique. A reversed directory has the same pairs under other positions, and
  where ids are distinct no order gets as far as the position. `RatingIsScore`
  joins the property's own reading of a report with the one the selection scores
  by. `FirstPickLaw` and `NoSignalOrder` assume `ScoreScale * K >= K + 2 *
  NeutralRtt`: 50,000,000 against 170 in the code.
- *Signed list.* `IInv` = types, what the gate left on gated documents, that a
  held list was published, and that it is what was signed (`HeldIsSigned`). The
  refinement shows a publication to be an `Issue`, a fetch an `Adopt`, a client's
  upgrade a `Forget` and every other step a stutter. `RosterSettlesIdentity`
  assumes that a roster lists an exit id once, and a list a relay once.
- *Broadcast.* `IInv` = types, every cached or held document says what its
  generation contained and was signed before any later withdrawal, and a
  withdrawn mark is in no generation from its withdrawal on. The properties alone
  are not inductive: they say nothing of the documents still to arrive.
  `TargetedOnly` and `BadgeIsTrue` then follow from what a held body is. For the
  badge, the digits that `Packed` writes for a slot are the ones the slot lookup
  reads back. For the audience, the lexical order of up to three parts is the
  order of the versions' values, as a part is below the base.
  `AudienceIsAnInterval` needs no such bound: versions are compared as sequences
  of components, a shorter one padded with zeros; two that differ have a least
  place where they do, since the naturals are well-founded, so the order is total
  and what is not lower is transitive.
- *Port forwarding.* `PortInv` follows one tag through the machine: what the API
  issued opens, under the key of that time, to the account it was issued to
  (`IssuedOK`); what an exit asks for or has mapped carries such a tag (`AskOK`,
  `MapOK`); a serial is in flight or mapped only at the exit the ledger has it
  spent at (`LedgerOK`). The step proofs start from one lemma, `WhoChanges`,
  which says of each variable what actions write it. For the strike, `CaseOK`
  says who held the port at the time of the incident, and that whoever maps it
  later maps it later than that, by the cooldown; `AckOK` that an acknowledgement
  for an incident within the holder's time carries the culprit's tag, however
  late it arrives.
- *Exit releases.* `Inv` = shapes, and per exit that a manifest in hand is one
  the operator signed and is above the mark until its generation is the mark, that
  what runs after a swap is its binary (`AgentOK`), that the slot is the mark's
  binary (`DiskOK`), and that the heartbeat row says what the exit reported
  (`RowOK`). It rests on verification only ever delivering what the operator
  signed (`DeliveredIsGenuine`). `CanaryInv` adds, for the containment of a bad
  release, that an exit beyond the canary has only met sound releases.
- *Route admission.* `RouteInv` says of a block a client kept that the API signed
  it for a key it vouched for, at least for as long as the block says; of a
  session that was admitted that its locator is sealed for its own exit; and of an
  anchor that, once it admitted a route, it ends by its age or by a restart whose
  restore window is over. What a device seals is then sealed in time, and a
  route is refused for none but the reasons `OutlivesRestart` lists.
- *Subscribers.* `LogInv` says that an account with an entry in the log up to a
  generation has a last one, and that the last of all is what the store has of
  it. A delta over a range then takes a list that is right at its start to one
  that is right at its end, since it names each account once, by its last event
  in the range, and an account it does not name has not changed.
  `NoMoreThanPaid` is inductive with `VoucherInv`: an account redeems finitely
  many vouchers, a voucher is redeemed no more often than its quota, if it has one, and one that
  is withdrawn has a quota of one, so a refund that ends an access ends that of
  the only redeemer and leaves no place for another. The sum over vouchers comes
  from the library, as a recursion that picks an arbitrary element; `SumExists`,
  `SumsAgree` and `SumSplit` show that it exists, that it is one sum on all sets
  and that it does not depend on the pick, each by a smallest counterexample
  (`MinSubset`), since the subsets of a finite set are well-founded.
- *Multi-hop directory.* `RolloutInv` ties every document and every client's copy
  to the draft of its generation (`IsView`: the same nodes in the same order, but
  for the endpoint, the pin and the fields of the route), and says that every
  draft kept is whole for the server's build, also after an upgrade, and vouched
  node by node. The envelope is over the re-serialized nodes, so what verifies
  lost nothing; and no view of a vouched node fails the client's own checks, so
  nothing is dropped.

Three theorems have a hypothesis beyond the constants' assumptions that says
something of the system. `RosterSettlesIdentity` is above. `AudiencesAreMeant`
is about versions and bounds of up to three parts: `Value`, by which the property
states what the order means, has three digits.
`BadReleaseIsContained` assumes of every plan (`Unambiguous`) that its first
release is sound and that a binary which answers to the version of a planned
release is that release's binary. It is needed: TLC finds that two releases
signed under each other's names pass the canary, which reports the version of
the second while it still runs the first. An operator who swaps two binaries'
names is not caught by a canary that is asked for its version only.

Each inductive invariant was checked by TLC on the run's instance before or
beside its proof. `OutlierMovesHalfway`, `EveryMeasurementApproaches`,
`BlocksOnPurpose`, `FirstPickIsByWeight` and the type invariants are proved and
not part of a run.

Only model-checked: the liveness properties (both `Converges`,
`DrainedNodeIsLeft`, `NeverBricked`, `ProtectedAgain`, `RoutesEndWithAnchor`,
`RevocationReachesExit`, `PaidIsServed`), which are beyond the prover together with
everything about `ENABLED`.

No module declares a `RECURSIVE` operator.

## 5. Abstractions

- Cryptography is ideal: a signature or ciphertext is a record of its key and
  its content. Base58, hex and JSON are forms a text may be in, enumerated in
  the order the verifiers check them.
- Ids are naturals where the code orders them and model values elsewhere;
  countries and cities stand for all their spellings, as the code compares them
  without case.
- Selections are deterministic predicates; random picks are any candidate.
- Sizes: a text above the input limit is a form of its own. Signers do not check
  that limit.
- Expiry of the relay list and the roster (`is_expired`) is left to the caller in
  the code and not part of these models.

- The firewall's block is one bit, the daemon's session one state of `phase.rs`;
  an exit's agent is the update state of `dto.rs` and the manifest in hand.
- One device in `RouteAdmission`, one exit in `SubscriberSync`: neither anchors
  nor exits interact. Referrals and the mobile stores' payments extend a
  subscription the way a voucher does and are left out.

### Not modelled

`PROJECT.json` says why per component. In short: pure encodings and constants
(`ss58`, `env`, `product`), the JSON reader and the binary around the verifier,
single-field validation and listings in `dto.rs`, the request signature (the
window and the nonces that make it a protocol are in the API, and this
repository does not say how they are kept) and the fallback list (consumed in
the clients).

## 6. Plan

Every safety property of a passing run is proved. What is left is proof at the edges,
in the order of worth:

1. `AudiencesAreMeant` for versions of any length, over a definition of the value
   of a version that is not bounded to three digits. The interval law is proved
   for any length; what is left is the agreement of order and value.
2. More of the step facts under the liveness properties that need no fairness, as
   `EveryMeasurementApproaches` is for the cache: that a step brings a list, a
   session or an anchor no further from where it must end.
