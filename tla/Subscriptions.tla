---------------------------- MODULE Subscriptions ----------------------------
(***************************************************************************)
(* The subscription store of the API, as the account and admin documents   *)
(* of src/dto.rs describe it: vouchers are redeemed, refunded and          *)
(* cancelled, subscriptions are extended, rate-limited and retired, every  *)
(* mutation is one generation of a log, and old generations are dropped.   *)
(*                                                                         *)
(* The API is another repository: what it does is what those documents say *)
(* of it.  Time is one clock.  Referral bonuses and the mobile stores'     *)
(* payments extend a subscription the way a voucher does and are left out. *)
(***************************************************************************)
EXTENDS Integers, Sequences, FiniteSetsExt

CONSTANTS
  None,
  Accounts,
  Vouchers,
  Duration,     \* seconds each voucher grants
  Quota,        \* accounts that may redeem each voucher, or None for any number
  Deadline,     \* first second each voucher is void, or None
  Rates,        \* per-wallet rate caps
  MaxGeneration, MaxTime   \* bounds on the log and the clock

\* What the store has of a subscriber.
Subscription == [expires_at : Nat, rate_bps : Rates \cup {None}]

ASSUME SubscriptionsAssumption ==
  /\ None \notin Accounts \cup Nat \cup Subscription
  /\ Duration \in [Vouchers -> Nat \ {0}]
  /\ Quota \in [Vouchers -> (Nat \ {0}) \cup {None}]
  /\ Deadline \in [Vouchers -> Nat \cup {None}]
  /\ Rates \subseteq Nat
  /\ MaxGeneration \in Nat /\ MaxTime \in Nat

VARIABLES
  now,
  subscription,   \* [expires_at, rate_bps] of each account, or None
  log,            \* the mutations, one per generation
  kept,           \* generations up to this one are dropped from the served log
  redeemed,       \* the accounts that redeemed each voucher
  withdrawn       \* each voucher: "no", "pending", "cancelled", "expired", "refunded" or
                  \* "rejected"

storeVars == <<now, subscription, log, kept, redeemed, withdrawn>>

\* The store's generation strictly increases on every mutation.
generation == Len(log)

\* Who subscribes at generation g, until when and under which cap: what the
\* last mutation of the account up to g left, or None.
SubscriptionAt(g, a) ==
  LET mine == {i \in 1..g : log[i].who = a}
  IN  IF mine = {} THEN None ELSE log[Max(mine)].entry

IsActive(a) == subscription[a] # None /\ now < subscription[a].expires_at

Mutate(a, entry) ==
  /\ generation < MaxGeneration
  /\ log' = Append(log, [who |-> a, entry |-> entry])
  /\ subscription' = [subscription EXCEPT ![a] = entry]

StoreInit ==
  /\ now = 0
  /\ subscription = [a \in Accounts |-> None]
  /\ log = <<>> /\ kept = 0
  /\ redeemed = [v \in Vouchers |-> {}]
  /\ withdrawn = [v \in Vouchers |-> "no"]

-----------------------------------------------------------------------------

\* The quota counts accounts, and lets one of them come back.
SlipRedeemsTwice(v, a) ==
  /\ withdrawn[v] # "cancelled"
  /\ Deadline[v] # None => now < Deadline[v]
  /\ Quota[v] # None => Cardinality(redeemed[v] \ {a}) < Quota[v]

(***************************************************************************)
(* 410 once cancelled, void from its deadline, 409 for a second redemption *)
(* of the account or past the quota.                                       *)
(***************************************************************************)
Redeemable(v, a) ==
  /\ withdrawn[v] # "cancelled"
  /\ Deadline[v] # None => now < Deadline[v]
  /\ a \notin redeemed[v]
  /\ Quota[v] # None => Cardinality(redeemed[v]) < Quota[v]

\* `POST /v1/register`: the voucher's time is added to what is left.  A
\* retry after a lost answer, or with the auto-voucher, changes nothing.
RegisterAccount(a, v) ==
  /\ Redeemable(v, a)
  /\ LET old  == subscription[a]
         left == IF IsActive(a) THEN old.expires_at ELSE now
     IN  Mutate(a, [expires_at |-> left + Duration[v],
                    rate_bps |-> IF old = None THEN None ELSE old.rate_bps])
  /\ redeemed' = [redeemed EXCEPT ![v] = @ \cup {a}]
  /\ UNCHANGED <<now, kept, withdrawn>>

\* A subscription that lapsed is retired.
Retire(a) ==
  /\ subscription[a] # None /\ ~IsActive(a)
  /\ Mutate(a, None)
  /\ UNCHANGED <<now, kept, redeemed, withdrawn>>

\* An override is set, changed or cleared: the entry is sent again.
SetRate(a, rate) ==
  /\ subscription[a] # None /\ subscription[a].rate_bps # rate
  /\ Mutate(a, [subscription[a] EXCEPT !.rate_bps = rate])
  /\ UNCHANGED <<now, kept, redeemed, withdrawn>>

\* `POST /v1/withdrawal` for the purchase of a single-use voucher.
DeclareWithdrawal(v) ==
  /\ Quota[v] = 1
  /\ withdrawn[v] = "no"
  /\ withdrawn' = [withdrawn EXCEPT ![v] = "pending"]
  /\ UNCHANGED <<now, subscription, log, kept, redeemed>>

(***************************************************************************)
(* The operator refunds, also out of the window when the body overrides    *)
(* it: the unredeemed voucher is cancelled, or the subscription of whoever *)
(* redeemed it is ended (`access_revoked`), or the payment cannot be       *)
(* matched with a voucher any more and only the money moves.               *)
(***************************************************************************)
RefundWithdrawal(v) ==
  /\ withdrawn[v] = "pending"
  /\ \/ /\ redeemed[v] = {}
        /\ withdrawn' = [withdrawn EXCEPT ![v] = "cancelled"]
        /\ UNCHANGED <<subscription, log>>
     \/ \E a \in redeemed[v] :
          /\ withdrawn' = [withdrawn EXCEPT ![v] = "expired"]
          /\ IF subscription[a] = None THEN UNCHANGED <<subscription, log>>
             ELSE Mutate(a, None)
     \/ /\ withdrawn' = [withdrawn EXCEPT ![v] = "refunded"]
        /\ UNCHANGED <<subscription, log>>
  /\ UNCHANGED <<now, kept, redeemed>>

RejectWithdrawal(v) ==
  /\ withdrawn[v] = "pending"
  /\ withdrawn' = [withdrawn EXCEPT ![v] = "rejected"]
  /\ UNCHANGED <<now, subscription, log, kept, redeemed>>

\* Old generations are no longer served.
TruncateLog ==
  /\ kept < generation
  /\ kept' = generation
  /\ UNCHANGED <<now, subscription, log, redeemed, withdrawn>>

Tick ==
  /\ now < MaxTime
  /\ now' = now + 1
  /\ UNCHANGED <<subscription, log, kept, redeemed, withdrawn>>

StoreNext ==
  \/ \E a \in Accounts :
       \/ \E v \in Vouchers : RegisterAccount(a, v)
       \/ Retire(a)
       \/ \E rate \in Rates \cup {None} : SetRate(a, rate)
  \/ \E v \in Vouchers :
       DeclareWithdrawal(v) \/ RefundWithdrawal(v) \/ RejectWithdrawal(v)
  \/ TruncateLog
  \/ Tick
=============================================================================
