---------------------------- MODULE SubscriberSync ----------------------------
(***************************************************************************)
(* An exit follows the subscription store and the revocation list          *)
(* (`GET /v1/subscribers/active`, the CRL of src/dto.rs).  It polls with   *)
(* the generation it knows and is answered with the changes since, or with *)
(* a whole snapshot when the store no longer serves that range; it polls   *)
(* the CRL apart and honours it before the allowlist.  Polls fail, and the *)
(* exit restarts with nothing.  An answer that is applied late is the      *)
(* answer of an earlier poll.                                              *)
(*                                                                         *)
(* The exit is another repository: it does what the documents of the two   *)
(* answers ask of it.                                                      *)
(***************************************************************************)
EXTENDS Subscriptions

CONSTANTS
  Reasons,      \* why an account may be revoked: free-form text
  LineBreaks,   \* those of them with a line break
  Admin, Foreign,   \* the key that signs the CRL, and another
  MaxVersion    \* bound on the versions of the CRL

CRL_REASON_PORT_FORWARDING_ABUSE == "port-forwarding-abuse"

\* What an exit has of an account it lets in; a snapshot has no expiry.
Allowance == [expires_at : Nat \cup {None}, rate_bps : Rates \cup {None}]

ASSUME SyncAssumption ==
  /\ None \notin Allowance
  /\ LineBreaks \subseteq Reasons
  /\ CRL_REASON_PORT_FORWARDING_ABUSE \in Reasons \ LineBreaks
  /\ Admin # Foreign
  /\ MaxVersion \in Nat

VARIABLES
  crl,      \* the API's list: [version, revocations: account -> reason or None]
  known,    \* the generation the exit applied last, or None
  allowed,  \* its allowlist: [expires_at, rate_bps] or None for each account
  held      \* the CRL it applied last

exitVars == <<known, allowed, held>>
vars == <<storeVars, crl, exitVars>>

NoneRevoked == [version |-> 0, revocations |-> [a \in Accounts |-> None]]

Init ==
  /\ StoreInit
  /\ crl = NoneRevoked
  /\ known = None /\ allowed = [a \in Accounts |-> None]
  /\ held = NoneRevoked

-----------------------------------------------------------------------------
(* The allowlist *)

\* The log still serves the range after generation `since`.
Serves(since) == since # None /\ kept <= since /\ since <= generation

Changed(since) == {log[i].who : i \in (since + 1)..generation}

\* Every addition and every removal of the range, each in its own list.
SlipListsEveryEvent(since) ==
  [from_generation |-> since, to_generation |-> generation,
   added |-> [a \in {log[i].who : i \in {j \in (since + 1)..generation : log[j].entry # None}}
                |-> LET last == CHOOSE i \in (since + 1)..generation :
                                  /\ log[i].who = a /\ log[i].entry # None
                                  /\ \A j \in (i + 1)..generation :
                                       log[j].who # a \/ log[j].entry = None
                    IN  log[last].entry],
   removed |-> {log[i].who : i \in {j \in (since + 1)..generation : log[j].entry = None}}]

(***************************************************************************)
(* `SubscribersDeltaResponse`.  Neither list carries generations, so the   *)
(* exit cannot merge them: the answer names each account once, by what the *)
(* range left of it.                                                       *)
(***************************************************************************)
Delta(since) ==
  [from_generation |-> since, to_generation |-> generation,
   added |-> [a \in {b \in Changed(since) : subscription[b] # None} |-> subscription[a]],
   removed |-> {a \in Changed(since) : subscription[a] = None}]

\* The exit adds, then removes, then jumps to the generation.
ApplyDelta(delta) ==
  /\ allowed' = [a \in Accounts |->
       IF a \in delta.removed THEN None
       ELSE IF a \in DOMAIN delta.added THEN delta.added[a]
       ELSE allowed[a]]
  /\ known' = delta.to_generation

\* `ActiveSubscribersResponse`: the keys and the caps, but no expiry.
Snapshot ==
  [generation |-> generation,
   active_pubkeys |-> {a \in Accounts : IsActive(a)},
   rate_overrides |-> [a \in {b \in Accounts : subscription[b] # None} |->
                         subscription[a].rate_bps]]

\* A full replacement.
ApplySnapshot(snapshot) ==
  /\ allowed' = [a \in Accounts |->
       IF a \in snapshot.active_pubkeys
       THEN [expires_at |-> None, rate_bps |-> snapshot.rate_overrides[a]] ELSE None]
  /\ known' = snapshot.generation

PollSubscribers ==
  /\ IF Serves(known) THEN ApplyDelta(Delta(known)) ELSE ApplySnapshot(Snapshot)
  /\ UNCHANGED <<storeVars, crl, held>>

-----------------------------------------------------------------------------
(* The revocation list *)

\* Line breaks pass the deserializer.
SlipAnyReason(reason) == TRUE

\* `deserialize_single_line_reason`
SingleLine(reason) == reason \notin LineBreaks

\* `AdminCrlRevokeRequest`: the version is bumped on every insert.
Revoke(a, reason) ==
  /\ SingleLine(reason)
  /\ crl.version < MaxVersion
  /\ crl.revocations[a] = None
  /\ crl' = [version |-> crl.version + 1,
             revocations |-> [crl.revocations EXCEPT ![a] = reason]]
  /\ UNCHANGED <<storeVars, exitVars>>

\* A ban for port-forwarding abuse lapses on its own: the entry goes.  Only
\* an insert bumps the version, so that stays.
LapseBan(a) ==
  /\ crl.revocations[a] = CRL_REASON_PORT_FORWARDING_ABUSE
  /\ crl' = [crl EXCEPT !.revocations[a] = None]
  /\ UNCHANGED <<storeVars, exitVars>>

(***************************************************************************)
(* `crl_canonical_message`: the entries sorted by account, one line each.  *)
(* A reason with a line break reads as other entries, so a list with one   *)
(* has the message of another list: here, of the empty one.                *)
(***************************************************************************)
CanonicalMessage(list) ==
  IF \A a \in Accounts : list.revocations[a] \notin LineBreaks
  THEN list ELSE [list EXCEPT !.revocations = [a \in Accounts |-> None]]

SignCrl(list, key) == [list |-> list, over |-> CanonicalMessage(list), by |-> key]

\* The answer parses, is signed by the configured admin key, and covers the
\* list that came.
AcceptsCrl(answer) ==
  /\ \A a \in Accounts :
       answer.list.revocations[a] # None => SingleLine(answer.list.revocations[a])
  /\ answer.by = Admin
  /\ answer.over = CanonicalMessage(answer.list)

\* An exit keeps the list it holds when the one that comes has its version
\* or is refused.
TakeCrl(answer) ==
  /\ held' = IF AcceptsCrl(answer) /\ answer.list.version # held.version
             THEN answer.list ELSE held
  /\ UNCHANGED <<storeVars, crl, known, allowed>>

PollCrl == TakeCrl(SignCrl(crl, Admin))

\* What arrives is signed by someone else, or lost an entry on the way.
PollDamagedCrl ==
  \/ TakeCrl(SignCrl([crl EXCEPT !.version = @ + 1], Foreign))
  \/ \E a \in Accounts :
       /\ crl.revocations[a] # None
       /\ TakeCrl([SignCrl(crl, Admin) EXCEPT !.list.revocations[a] = None])

-----------------------------------------------------------------------------

RestartExit ==
  /\ known # None
  /\ known' = None /\ allowed' = [a \in Accounts |-> None]
  /\ held' = NoneRevoked
  /\ UNCHANGED <<storeVars, crl>>

\* The CRL is honoured before the allowlist; an expiry that is known holds
\* also when the API cannot be reached.
Admits(a) ==
  /\ held.revocations[a] = None
  /\ allowed[a] # None
  /\ allowed[a].expires_at # None => now < allowed[a].expires_at

Next ==
  \/ StoreNext /\ UNCHANGED <<crl, exitVars>>
  \/ \E a \in Accounts : LapseBan(a) \/ \E reason \in Reasons : Revoke(a, reason)
  \/ PollSubscribers
  \/ PollCrl
  \/ PollDamagedCrl
  \/ RestartExit

\* Each poll repeats and gets through at last, whatever the other does.
Spec == Init /\ [][Next]_vars
FairSpec == Spec /\ WF_vars(PollSubscribers) /\ WF_vars(PollCrl)

-----------------------------------------------------------------------------
(* Properties *)

(***************************************************************************)
(* The allowlist of an exit is the store's at the generation it names,     *)
(* however it got there: by deltas over accounts that came, went and came  *)
(* back, by a fallback snapshot, or anew after a restart.                  *)
(***************************************************************************)
AllowlistIsGeneration ==
  known # None =>
    \A a \in Accounts :
      LET there == SubscriptionAt(known, a)
      IN  IF allowed[a] # None
          THEN /\ there # None
               /\ allowed[a].rate_bps = there.rate_bps
               /\ allowed[a].expires_at \in {None, there.expires_at}
          ELSE there # None => there.expires_at <= now

(***************************************************************************)
(* No account has more time ahead than the vouchers it redeemed grant,     *)
(* each counted once, and none for a voucher whose refund took the access  *)
(* back: through retries, shared campaign codes and withdrawals.           *)
(***************************************************************************)
PaidBy(a) == {v \in Vouchers : a \in redeemed[v] /\ withdrawn[v] \notin {"cancelled", "expired"}}

NoMoreThanPaid ==
  \A a \in Accounts :
    IsActive(a) =>
      subscription[a].expires_at
        <= now + MapThenSumSet(LAMBDA v : Duration[v], PaidBy(a))

(***************************************************************************)
(* Every revocation in force reaches the exit, although the allowlist sync *)
(* may never succeed, bans lapse without a new version, and a list can     *)
(* lose an entry on the way: none hides behind a version the exit has seen.*)
(***************************************************************************)
RevocationReachesExit ==
  []<>(\A a \in Accounts :
         crl.revocations[a] # None => held.revocations[a] = crl.revocations[a])

(***************************************************************************)
(* A ban that lapsed is lifted at the exit (`lapses_at_unix_secs`: "when   *)
(* the ban lapses on its own"; `CrlResponse::version`: "consumers use it   *)
(* to deduplicate polls").                                                 *)
(***************************************************************************)
LapseReachesExit ==
  []<>(\A a \in Accounts : crl.revocations[a] = None => held.revocations[a] = None)

(***************************************************************************)
(* Who paid and was never revoked is served, whatever happens to other     *)
(* accounts: the exit lets the account in before its time is over.         *)
(***************************************************************************)
PaidIsServed ==
  \A a \in Accounts :
    [](crl.revocations[a] = None) => []<>(IsActive(a) => Admits(a))
=============================================================================
