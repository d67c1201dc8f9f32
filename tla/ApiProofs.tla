----------------------------- MODULE ApiProofs -----------------------------
(***************************************************************************)
(* Proofs about what the API keeps and serves: the subscribers an exit     *)
(* follows, and the multi-hop directory it stores and signs.  The two      *)
(* share no state; each section proves about its own specification.        *)
(***************************************************************************)
EXTENDS SubscriberSync, DirectoryRollout, FiniteSetTheorems, TLAPS

(***************************************************************************)
(* SubscriberSync, for every set of accounts and vouchers and every bound. *)
(***************************************************************************)

\* The entries an account has in the log up to a generation, and its last.
Mine(g, a) == {i \in 1..g : log[i].who = a}

IsLast(g, a, i) == i \in Mine(g, a) /\ \A j \in Mine(g, a) : i >= j

StoreInv ==
  /\ now \in Nat
  /\ subscription \in [Accounts -> Subscription \cup {None}]
  /\ log \in Seq([who : Accounts, entry : Subscription \cup {None}])
  /\ redeemed \in [Vouchers -> SUBSET Accounts]

\* An account that has an entry up to a generation has a last one, and the
\* last of all is what the store has of it.
LogInv ==
  \A a \in Accounts :
    /\ \A g \in 0..generation : Mine(g, a) # {} => \E i \in 1..g : IsLast(g, a, i)
    /\ SubscriptionAt(generation, a) = subscription[a]

SyncInv ==
  /\ StoreInv
  /\ LogInv
  /\ known \in (0..generation) \cup {None}
  /\ allowed \in [Accounts -> Allowance \cup {None}]
  /\ AllowlistIsGeneration

-----------------------------------------------------------------------------
(* The log *)

LEMMA MaxIs ==
  ASSUME NEW S \in SUBSET Nat, NEW i \in S, \A j \in S : i >= j
  PROVE  Max(S) = i
<1>1. ASSUME NEW j \in S, \A k \in S : j >= k
      PROVE  j = i
  <2>1. j >= i /\ i >= j /\ i \in Nat /\ j \in Nat
    BY <1>1
  <2> QED  BY <2>1
<1>2. (CHOOSE x \in S : \A y \in S : x >= y) = i
  BY <1>1
<1> QED  BY <1>2 DEF Max

\* What the last entry of an account up to a generation says.
LEMMA LastEntry ==
  ASSUME NEW g \in Nat, NEW a, NEW i, IsLast(g, a, i)
  PROVE  SubscriptionAt(g, a) = log[i].entry
<1>1. Mine(g, a) \in SUBSET Nat /\ i \in Mine(g, a) /\ \A j \in Mine(g, a) : i >= j
  BY DEF IsLast, Mine
<1>2. Max(Mine(g, a)) = i
  BY <1>1, MaxIs
<1> QED  BY <1>1, <1>2 DEF SubscriptionAt, Mine

LEMMA NoEntry ==
  ASSUME NEW g, NEW a, Mine(g, a) = {}
  PROVE  SubscriptionAt(g, a) = None
  BY DEF SubscriptionAt, Mine

\* What a step does to the store.
LEMMA StoreChanges ==
  ASSUME SyncInv, [Next]_vars
  PROVE  /\ now' \in Nat /\ now <= now'
         /\ \/ UNCHANGED <<subscription, log>>
            \/ \E a \in Accounts, entry \in Subscription \cup {None} :
                 Mutate(a, entry) /\ UNCHANGED exitVars
         /\ \/ UNCHANGED <<now, log, subscription>>
            \/ UNCHANGED exitVars
<1>0. StoreInv
  BY DEF SyncInv
<1>1. ASSUME NEW a \in Accounts, NEW v \in Vouchers, RegisterAccount(a, v)
      PROVE  now' = now /\ \E entry \in Subscription \cup {None} : Mutate(a, entry)
  <2> DEFINE old  == subscription[a]
             left == IF IsActive(a) THEN old.expires_at ELSE now
             entry == [expires_at |-> left + Duration[v],
                       rate_bps |-> IF old = None THEN None ELSE old.rate_bps]
  <2>1. old \in Subscription \cup {None} /\ now \in Nat /\ Duration[v] \in Nat
    BY <1>0, SubscriptionsAssumption DEF StoreInv
  <2>2. left \in Nat
    BY <2>1 DEF IsActive, Subscription
  <2>3. entry \in Subscription
    BY <2>1, <2>2 DEF Subscription
  <2>4. Mutate(a, entry) /\ now' = now
    BY <1>1 DEF RegisterAccount
  <2> QED  BY <2>3, <2>4
<1>2. ASSUME NEW a \in Accounts, NEW r \in Rates \cup {None}, SetRate(a, r)
      PROVE  now' = now /\ \E entry \in Subscription \cup {None} : Mutate(a, entry)
  <2>1. [subscription[a] EXCEPT !.rate_bps = r] \in Subscription
    BY <1>0, <1>2 DEF SetRate, StoreInv, Subscription
  <2> QED  BY <1>2, <2>1 DEF SetRate
<1>3. ASSUME NEW a \in Accounts, Retire(a)
      PROVE  now' = now /\ \E entry \in Subscription \cup {None} : Mutate(a, entry)
  BY <1>3 DEF Retire
<1>4. ASSUME NEW v \in Vouchers, RefundWithdrawal(v)
      PROVE  /\ now' = now
             /\ \/ UNCHANGED <<subscription, log>>
                \/ \E a \in Accounts : Mutate(a, None)
  BY <1>0, <1>4 DEF RefundWithdrawal, StoreInv
<1>5. CASE StoreNext /\ UNCHANGED <<crl, exitVars>>
  <2>1. ASSUME \E v \in Vouchers : DeclareWithdrawal(v) \/ RejectWithdrawal(v)
        PROVE  UNCHANGED <<now, subscription, log>>
    BY <1>0, <2>1 DEF DeclareWithdrawal, RejectWithdrawal, StoreInv
  <2>2. ASSUME TruncateLog \/ Tick
        PROVE  UNCHANGED <<subscription, log>> /\ now' \in Nat /\ now <= now'
    BY <1>0, <2>2 DEF TruncateLog, Tick, StoreInv
  <2>3. /\ now' \in Nat /\ now <= now'
        /\ \/ UNCHANGED <<subscription, log>>
           \/ \E a \in Accounts, entry \in Subscription \cup {None} : Mutate(a, entry)
    <3>1. now \in Nat
      BY <1>0 DEF StoreInv
    <3> QED  BY <1>1, <1>2, <1>3, <1>4, <1>5, <2>1, <2>2, <3>1 DEF StoreNext
  <2> QED  BY <1>5, <2>3
<1>6. CASE UNCHANGED storeVars
  BY <1>0, <1>6 DEF storeVars, StoreInv
<1>7. (StoreNext /\ UNCHANGED <<crl, exitVars>>) \/ UNCHANGED storeVars
  BY DEF Next, vars, LapseBan, Revoke, PollSubscribers, PollCrl, PollDamagedCrl, TakeCrl,
         RestartExit
<1> QED  BY <1>5, <1>6, <1>7

\* What a mutation leaves: the log up to before it, and one entry more.
LEMMA Mutated ==
  ASSUME SyncInv, NEW a \in Accounts, NEW entry \in Subscription \cup {None}, Mutate(a, entry)
  PROVE  /\ log' \in Seq([who : Accounts, entry : Subscription \cup {None}])
         /\ generation \in Nat /\ generation' = generation + 1
         /\ \A i \in 1..generation : log'[i] = log[i]
         /\ log'[generation + 1] = [who |-> a, entry |-> entry]
         /\ subscription' \in [Accounts -> Subscription \cup {None}]
         /\ subscription'[a] = entry
         /\ \A b \in Accounts \ {a} : subscription'[b] = subscription[b]
<1>1. /\ log \in Seq([who : Accounts, entry : Subscription \cup {None}])
      /\ subscription \in [Accounts -> Subscription \cup {None}]
  BY DEF SyncInv, StoreInv
<1>2. [who |-> a, entry |-> entry] \in [who : Accounts, entry : Subscription \cup {None}]
  OBVIOUS
<1>3. log' = Append(log, [who |-> a, entry |-> entry])
  BY DEF Mutate
<1>4. subscription' = [subscription EXCEPT ![a] = entry]
  BY DEF Mutate
<1> QED  BY <1>1, <1>2, <1>3, <1>4 DEF generation

LEMMA LogGrows ==
  ASSUME SyncInv, [Next]_vars
  PROVE  generation \in Nat /\ generation' \in Nat /\ generation <= generation'
<1>0. generation \in Nat
  BY DEF SyncInv, StoreInv, generation
<1>1. CASE log' = log
  BY <1>0, <1>1 DEF generation
<1>2. ASSUME NEW b \in Accounts, NEW entry \in Subscription \cup {None}, Mutate(b, entry)
      PROVE  generation' = generation + 1
  BY <1>2, Mutated
<1> QED  BY <1>0, <1>1, <1>2, StoreChanges

\* The past of the log does not change.
LEMMA PastStays ==
  ASSUME SyncInv, [Next]_vars, NEW g \in 0..generation, NEW a \in Accounts
  PROVE  /\ generation \in Nat /\ generation' \in Nat /\ generation <= generation'
         /\ Mine(g, a)' = Mine(g, a)
         /\ SubscriptionAt(g, a)' = SubscriptionAt(g, a)
<1>0. generation \in Nat /\ StoreInv
  BY DEF SyncInv, StoreInv, generation
<1>1. CASE log' = log
  BY <1>0, <1>1 DEF generation, Mine, SubscriptionAt
<1>2. ASSUME NEW b \in Accounts, NEW entry \in Subscription \cup {None}, Mutate(b, entry)
      PROVE  /\ generation' \in Nat /\ generation <= generation'
             /\ Mine(g, a)' = Mine(g, a)
             /\ SubscriptionAt(g, a)' = SubscriptionAt(g, a)
  <2>0. generation' = generation + 1 /\ \A i \in 1..generation : log'[i] = log[i]
    BY <1>2, Mutated
  <2>1. \A i \in 1..g : log'[i] = log[i]
    BY <1>0, <2>0
  <2>2. {i \in 1..g : log'[i].who = a} = {i \in 1..g : log[i].who = a}
    BY <2>1
  <2>3. Mine(g, a)' = Mine(g, a)
    BY <2>2 DEF Mine
  <2>4. SubscriptionAt(g, a) = IF Mine(g, a) = {} THEN None ELSE log[Max(Mine(g, a))].entry
    BY DEF SubscriptionAt, Mine
  <2>5. SubscriptionAt(g, a)' = IF Mine(g, a)' = {} THEN None ELSE log'[Max(Mine(g, a)')].entry
    BY DEF SubscriptionAt, Mine, Max
  <2>6. Mine(g, a) # {} => Max(Mine(g, a)) \in 1..g
    <3> SUFFICES ASSUME Mine(g, a) # {}  PROVE Max(Mine(g, a)) \in 1..g
      OBVIOUS
    <3>1. PICK i \in 1..g : IsLast(g, a, i)
      BY DEF SyncInv, LogInv
    <3>2. Mine(g, a) \in SUBSET Nat
      BY DEF Mine
    <3> QED  BY <3>1, <3>2, MaxIs DEF IsLast
  <2> QED  BY <1>0, <2>0, <2>1, <2>3, <2>4, <2>5, <2>6
<1>3. log' = log \/ \E b \in Accounts, entry \in Subscription \cup {None} : Mutate(b, entry)
  BY StoreChanges
<1> QED  BY <1>0, <1>1, <1>2, <1>3

LEMMA StoreStep ==
  ASSUME SyncInv, [Next]_vars
  PROVE  StoreInv'
<1>1. redeemed' \in [Vouchers -> SUBSET Accounts]
  <2>0. redeemed \in [Vouchers -> SUBSET Accounts]
    BY DEF SyncInv, StoreInv
  <2>1. UNCHANGED redeemed \/ \E a \in Accounts, v \in Vouchers : RegisterAccount(a, v)
    BY DEF Next, vars, storeVars, LapseBan, Revoke, PollSubscribers, PollCrl, PollDamagedCrl,
           TakeCrl, RestartExit, StoreNext, Retire, SetRate, DeclareWithdrawal,
           RefundWithdrawal, RejectWithdrawal, TruncateLog, Tick
  <2> QED  BY <2>0, <2>1 DEF RegisterAccount
<1>2. CASE UNCHANGED <<subscription, log>>
  BY <1>1, <1>2, StoreChanges DEF SyncInv, StoreInv
<1>3. ASSUME NEW a \in Accounts, NEW entry \in Subscription \cup {None}, Mutate(a, entry)
      PROVE  StoreInv'
  BY <1>1, <1>3, Mutated, StoreChanges DEF StoreInv
<1> QED  BY <1>2, <1>3, StoreChanges

LEMMA LogStep ==
  ASSUME SyncInv, [Next]_vars
  PROVE  LogInv'
<1>0. LogInv /\ StoreInv /\ generation \in Nat
  BY DEF SyncInv, StoreInv, generation
<1>1. CASE UNCHANGED <<subscription, log>>
  <2>1. log' = log /\ subscription' = subscription /\ generation' = generation
    BY <1>1 DEF generation
  <2> QED  BY <1>0, <2>1 DEF LogInv, Mine, IsLast, SubscriptionAt
<1>2. ASSUME NEW b \in Accounts, NEW entry \in Subscription \cup {None}, Mutate(b, entry),
             NEW a \in Accounts
      PROVE  /\ \A g \in 0..generation' : Mine(g, a)' # {} => \E i \in 1..g : IsLast(g, a, i)'
             /\ SubscriptionAt(generation, a)' = subscription'[a]
  <2>0. PICK n \in Nat : n = generation
    BY <1>0
  <2>1. /\ generation' = n + 1
        /\ \A i \in 1..n : log'[i] = log[i]
        /\ log'[n + 1] = [who |-> b, entry |-> entry]
        /\ subscription'[b] = entry
        /\ \A c \in Accounts \ {b} : subscription'[c] = subscription[c]
    BY <1>2, <2>0, Mutated
  <2>2. ASSUME NEW g \in 0..n
        PROVE  Mine(g, a)' = Mine(g, a)
    BY <2>0, PastStays
  <2>3. ASSUME NEW g \in 0..n, Mine(g, a)' # {}
        PROVE  \E i \in 1..g : IsLast(g, a, i)'
    <3>1. PICK i \in 1..g : IsLast(g, a, i)
      BY <1>0, <2>0, <2>2, <2>3 DEF LogInv
    <3> QED  BY <2>2, <3>1 DEF IsLast
  <2>7. SubscriptionAt(n + 1, a)'
          = IF Mine(n + 1, a)' = {} THEN None ELSE log'[Max(Mine(n + 1, a)')].entry
    BY DEF SubscriptionAt, Mine, Max
  <2>4. /\ Mine(n + 1, a)' # {} => \E i \in 1..(n + 1) : IsLast(n + 1, a, i)'
        /\ SubscriptionAt(n + 1, a)' = subscription'[a]
    <3>1. CASE a = b
      <4>1. n + 1 \in Mine(n + 1, a)' /\ \A j \in Mine(n + 1, a)' : n + 1 >= j
        BY <2>1, <3>1 DEF Mine
      <4>2. IsLast(n + 1, a, n + 1)'
        BY <4>1 DEF IsLast
      <4>3. Max(Mine(n + 1, a)') = n + 1
        <5>1. Mine(n + 1, a)' \in SUBSET Nat
          BY DEF Mine
        <5> QED  BY <4>1, <5>1, MaxIs
      <4>4. SubscriptionAt(n + 1, a)' = log'[n + 1].entry
        BY <2>7, <4>1, <4>3
      <4> QED  BY <2>1, <3>1, <4>2, <4>4
    <3>2. CASE a # b
      <4>1. Mine(n + 1, a)' = Mine(n, a) /\ Mine(n, a)' = Mine(n, a)
        BY <2>1, <2>2, <3>2 DEF Mine
      <4>2. SubscriptionAt(n, a) = subscription[a] /\ subscription'[a] = subscription[a]
        BY <1>0, <2>0, <2>1, <3>2 DEF LogInv
      <4>3. CASE Mine(n, a) = {}
        <5>1. SubscriptionAt(n, a) = None
          BY <4>3, NoEntry
        <5>2. SubscriptionAt(n + 1, a)' = None
          BY <4>1, <4>3 DEF SubscriptionAt, Mine
        <5> QED  BY <4>1, <4>2, <4>3, <5>1, <5>2
      <4>4. CASE Mine(n, a) # {}
        <5>1. PICK i \in 1..n : IsLast(n, a, i)
          BY <1>0, <2>0, <4>4 DEF LogInv
        <5>2. IsLast(n + 1, a, i)'
          BY <4>1, <5>1 DEF IsLast
        <5>3. SubscriptionAt(n + 1, a)' = log'[i].entry
          <6>1. i \in Mine(n, a) /\ (\A j \in Mine(n, a) : i >= j) /\ Mine(n, a) \in SUBSET Nat
            BY <5>1 DEF IsLast, Mine
          <6>2. Max(Mine(n + 1, a)') = i
            BY <4>1, <6>1, MaxIs
          <6> QED  BY <2>7, <4>1, <6>1, <6>2
        <5>4. SubscriptionAt(n, a) = log[i].entry
          BY <1>0, <5>1, LastEntry
        <5> QED  BY <2>1, <4>2, <5>1, <5>2, <5>3, <5>4
      <4> QED  BY <4>3, <4>4
    <3> QED  BY <3>1, <3>2
  <2>5. ASSUME NEW g \in 0..generation', Mine(g, a)' # {}
        PROVE  \E i \in 1..g : IsLast(g, a, i)'
    <3>1. g \in 0..n \/ g = n + 1
      BY <2>1
    <3> QED  BY <2>3, <2>4, <2>5, <3>1
  <2>6. SubscriptionAt(generation, a)' = subscription'[a]
    BY <2>1, <2>4 DEF SubscriptionAt
  <2> QED  BY <2>5, <2>6
<1> QED  BY <1>1, <1>2, StoreChanges DEF LogInv

-----------------------------------------------------------------------------
(* The allowlist *)

\* Who has no entry in a range had at its start what the store has now.
LEMMA UnchangedSince ==
  ASSUME SyncInv, NEW since \in 0..generation, NEW a \in Accounts, a \notin Changed(since)
  PROVE  SubscriptionAt(since, a) = subscription[a]
<1>1. generation \in Nat /\ SubscriptionAt(generation, a) = subscription[a]
  BY DEF SyncInv, LogInv, StoreInv, generation
<1>2. Mine(generation, a) = Mine(since, a)
  BY <1>1 DEF Mine, Changed
<1> QED  BY <1>1, <1>2 DEF SubscriptionAt, Mine

\* The allowlist after a poll is the store's.
LEMMA PollStep ==
  ASSUME SyncInv, PollSubscribers
  PROVE  /\ known' = generation
         /\ allowed' \in [Accounts -> Allowance \cup {None}]
         /\ \A a \in Accounts :
              IF allowed'[a] # None
              THEN /\ subscription[a] # None
                   /\ allowed'[a].rate_bps = subscription[a].rate_bps
                   /\ allowed'[a].expires_at \in {None, subscription[a].expires_at}
              ELSE subscription[a] # None => subscription[a].expires_at <= now
<1>0. /\ subscription \in [Accounts -> Subscription \cup {None}]
      /\ allowed \in [Accounts -> Allowance \cup {None}]
      /\ generation \in Nat /\ now \in Nat
      /\ None \notin Subscription /\ None \notin Allowance
  BY SubscriptionsAssumption, SyncAssumption DEF SyncInv, StoreInv, generation
<1>1. Subscription \subseteq Allowance
  BY DEF Subscription, Allowance
<1>2. CASE Serves(known)
  <2>1. /\ known' = generation
        /\ allowed' = [a \in Accounts |->
             IF a \in Changed(known) /\ subscription[a] = None THEN None
             ELSE IF a \in Changed(known) /\ subscription[a] # None THEN subscription[a]
             ELSE allowed[a]]
    <3>1. /\ Delta(known).to_generation = generation
          /\ Delta(known).removed = {a \in Changed(known) : subscription[a] = None}
          /\ DOMAIN Delta(known).added = {a \in Changed(known) : subscription[a] # None}
          /\ \A a \in Changed(known) : subscription[a] # None =>
               Delta(known).added[a] = subscription[a]
      BY DEF Delta
    <3>2. ApplyDelta(Delta(known))
      BY <1>2 DEF PollSubscribers
    <3> QED  BY <3>1, <3>2 DEF ApplyDelta
  <2>2. known \in 0..generation
    BY <1>2 DEF Serves, SyncInv
  <2>3. ASSUME NEW a \in Accounts, a \notin Changed(known)
        PROVE  IF allowed[a] # None
               THEN /\ subscription[a] # None
                    /\ allowed[a].rate_bps = subscription[a].rate_bps
                    /\ allowed[a].expires_at \in {None, subscription[a].expires_at}
               ELSE subscription[a] # None => subscription[a].expires_at <= now
    <3>1. SubscriptionAt(known, a) = subscription[a]
      BY <2>2, <2>3, UnchangedSince
    <3>2. known # None
      BY <1>2 DEF Serves
    <3> QED  BY <3>1, <3>2 DEF SyncInv, AllowlistIsGeneration
  <2>4. allowed' \in [Accounts -> Allowance \cup {None}]
    BY <1>0, <1>1, <2>1
  <2> QED  BY <1>0, <2>1, <2>3, <2>4
<1>3. CASE ~Serves(known)
  <2>1. /\ known' = generation
        /\ allowed' = [a \in Accounts |->
             IF IsActive(a)
             THEN [expires_at |-> None, rate_bps |-> subscription[a].rate_bps] ELSE None]
    <3>1. /\ Snapshot.generation = generation
          /\ Snapshot.active_pubkeys = {a \in Accounts : IsActive(a)}
          /\ \A a \in Accounts : IsActive(a) =>
               Snapshot.rate_overrides[a] = subscription[a].rate_bps
      BY DEF Snapshot, IsActive
    <3>2. ApplySnapshot(Snapshot)
      BY <1>3 DEF PollSubscribers
    <3> QED  BY <3>1, <3>2 DEF ApplySnapshot
  <2>2. ASSUME NEW a \in Accounts, IsActive(a)
        PROVE  [expires_at |-> None, rate_bps |-> subscription[a].rate_bps] \in Allowance
    BY <1>0, <2>2 DEF IsActive, Subscription, Allowance
  <2>3. ASSUME NEW a \in Accounts, ~IsActive(a), subscription[a] # None
        PROVE  subscription[a].expires_at <= now
    BY <1>0, <2>3 DEF IsActive, Subscription
  <2>4. \A a \in Accounts : IsActive(a) => subscription[a] # None
    BY DEF IsActive
  <2> QED  BY <1>0, <2>1, <2>2, <2>3, <2>4
<1> QED  BY <1>2, <1>3

LEMMA InSeq ==
  ASSUME NEW R, NEW s \in Seq(R), NEW i \in 1..Len(s)
  PROVE  s[i] \in R
OBVIOUS

LEMMA AllowlistStep ==
  ASSUME SyncInv, [Next]_vars
  PROVE  /\ known' \in (0..generation') \cup {None}
         /\ allowed' \in [Accounts -> Allowance \cup {None}]
         /\ AllowlistIsGeneration'
<1>0. /\ StoreInv /\ generation \in Nat /\ now \in Nat /\ now' \in Nat /\ now <= now'
      /\ known \in (0..generation) \cup {None}
      /\ allowed \in [Accounts -> Allowance \cup {None}]
  BY StoreChanges DEF SyncInv, StoreInv, generation
<1>1. CASE UNCHANGED <<known, allowed>>
  <2>1. CASE known = None
    BY <1>0, <1>1, <2>1 DEF AllowlistIsGeneration
  <2>2. CASE known \in 0..generation
    <3>1. PICK g \in 0..generation : g = known
      BY <2>2
    <3>2. known' \in 0..generation'
      BY <1>0, <1>1, <3>1, LogGrows
    <3>3. ASSUME NEW a \in Accounts
          PROVE  IF allowed'[a] # None
                 THEN /\ SubscriptionAt(g, a)' # None
                      /\ allowed'[a].rate_bps = SubscriptionAt(g, a)'.rate_bps
                      /\ allowed'[a].expires_at \in {None, SubscriptionAt(g, a)'.expires_at}
                 ELSE SubscriptionAt(g, a)' # None => SubscriptionAt(g, a)'.expires_at <= now'
      <4>1. SubscriptionAt(g, a)' = SubscriptionAt(g, a)
        BY PastStays
      <4>2. known # None
        BY <1>0, <2>2, SubscriptionsAssumption
      <4>3. SubscriptionAt(g, a) \in Subscription \cup {None}
        <5>1. CASE Mine(g, a) = {}
          BY <5>1, NoEntry
        <5>2. CASE Mine(g, a) # {}
          <6>1. PICK i \in 1..g : IsLast(g, a, i)
            BY <5>2 DEF SyncInv, LogInv
          <6>2. SubscriptionAt(g, a) = log[i].entry
            BY <6>1, LastEntry
          <6>3. i \in 1..Len(log)
            BY <1>0 DEF generation
          <6>4. log \in Seq([who : Accounts, entry : Subscription \cup {None}])
            BY <1>0 DEF StoreInv
          <6>5. log[i] \in [who : Accounts, entry : Subscription \cup {None}]
            BY <6>3, <6>4, InSeq
          <6> QED  BY <6>2, <6>5
        <5> QED  BY <5>1, <5>2
      <4>4. IF allowed[a] # None
            THEN /\ SubscriptionAt(g, a) # None
                 /\ allowed[a].rate_bps = SubscriptionAt(g, a).rate_bps
                 /\ allowed[a].expires_at \in {None, SubscriptionAt(g, a).expires_at}
            ELSE SubscriptionAt(g, a) # None => SubscriptionAt(g, a).expires_at <= now
        BY <3>1, <4>2 DEF SyncInv, AllowlistIsGeneration
      <4>5. SubscriptionAt(g, a) # None => SubscriptionAt(g, a).expires_at \in Nat
        BY <4>3 DEF Subscription
      <4> QED  BY <1>0, <1>1, <4>1, <4>4, <4>5
    <3>4. known' = g
      BY <1>1, <3>1
    <3>5. \A a \in Accounts : SubscriptionAt(known, a)' = SubscriptionAt(g, a)'
      BY <3>4 DEF SubscriptionAt
    <3>6. AllowlistIsGeneration'
      BY <3>3, <3>5 DEF AllowlistIsGeneration
    <3> QED  BY <1>0, <1>1, <3>2, <3>6
  <2> QED  BY <1>0, <2>1, <2>2
<1>2. CASE PollSubscribers
  <2>1. /\ now' = now /\ log' = log /\ subscription' = subscription
        /\ generation' = generation
    BY <1>2 DEF PollSubscribers, storeVars, generation
  <2>2. \A a \in Accounts : SubscriptionAt(generation, a) = subscription[a]
    BY DEF SyncInv, LogInv
  <2>3. known' = generation
    BY <1>2, PollStep
  <2>4. \A a \in Accounts : SubscriptionAt(known, a)' = subscription[a]
    BY <2>1, <2>2, <2>3 DEF SubscriptionAt
  <2>5. AllowlistIsGeneration'
    BY <1>2, <2>1, <2>4, PollStep DEF AllowlistIsGeneration
  <2> QED  BY <1>0, <1>2, <2>1, <2>3, <2>5, PollStep
<1>3. CASE RestartExit
  BY <1>3 DEF RestartExit, AllowlistIsGeneration
<1>4. UNCHANGED <<known, allowed>> \/ PollSubscribers \/ RestartExit
  BY DEF Next, vars, exitVars, LapseBan, Revoke, PollCrl, PollDamagedCrl, TakeCrl
<1> QED  BY <1>1, <1>2, <1>3, <1>4

-----------------------------------------------------------------------------
(* The theorem *)

LEMMA SyncInvariant == Spec => []SyncInv
<1>1. Init => SyncInv
  <2> SUFFICES ASSUME Init PROVE SyncInv
    OBVIOUS
  <2>1. StoreInv
    BY DEF Init, StoreInit, StoreInv
  <2>2. generation = 0 /\ \A g \in 0..0, a \in Accounts : Mine(g, a) = {}
    BY DEF Init, StoreInit, generation, Mine
  <2>3. LogInv
    BY <2>2, NoEntry DEF Init, StoreInit, LogInv
  <2> QED  BY <2>1, <2>2, <2>3 DEF Init, SyncInv, AllowlistIsGeneration
<1>2. SyncInv /\ [Next]_vars => SyncInv'
  BY StoreStep, LogStep, AllowlistStep DEF SyncInv
<1> QED  BY <1>1, <1>2, PTL DEF Spec

(***************************************************************************)
(* For every set of accounts and vouchers: however an exit got to the      *)
(* generation it names, by deltas, by a snapshot or anew, its allowlist is *)
(* what the store had at that generation.                                  *)
(***************************************************************************)
THEOREM AllowlistFollowsStore == Spec => []AllowlistIsGeneration
<1>1. SyncInv => AllowlistIsGeneration
  BY DEF SyncInv
<1> QED  BY <1>1, SyncInvariant, PTL

-----------------------------------------------------------------------------
(* Sums over finite sets of vouchers *)

\* Every non-empty family of subsets of a finite set has a smallest one.
LEMMA MinSubset ==
  ASSUME NEW S, IsFiniteSet(S), NEW B \in SUBSET SUBSET S, B # {}
  PROVE  \E T \in B : \A R \in SUBSET T : R # T => R \notin B
<1>1. IsWellFoundedOn(StrictSubsetOrdering(S), SUBSET S)
  BY FS_FiniteSubsetsOfFinite, FS_StrictSubsetOrderingWellFounded
<1>2. PICK T \in B : \A R \in B : ~(<<R, T>> \in StrictSubsetOrdering(S))
  BY <1>1, WFMin, Zenon
<1>3. ASSUME NEW R \in SUBSET T, R # T, R \in B
      PROVE  FALSE
  <2>1. <<R, T>> \in StrictSubsetOrdering(S)
    BY <1>3 DEF StrictSubsetOrdering
  <2> QED  BY <1>2, <1>3, <2>1
<1> QED  BY <1>2, <1>3

\* The element the sum takes first, the recursion of the sum over the subsets of
\* a set, and the sum of the durations.
Pick(s) == CHOOSE x \in s : TRUE

IsSum(f, T) ==
  f = [s \in SUBSET T |-> IF s = {} THEN 0 ELSE Duration[Pick(s)] + f[s \ {Pick(s)}]]

TotalDuration(T) == MapThenSumSet(LAMBDA v : Duration[v], T)

LEMMA SumIs ==
  ASSUME NEW T
  PROVE  TotalDuration(T) = (CHOOSE f : IsSum(f, T))[T]
  BY DEF TotalDuration, MapThenSumSet, MapThenFoldSet, IsSum, Pick

LEMMA Picked ==
  ASSUME NEW s, s # {}
  PROVE  Pick(s) \in s
  BY DEF Pick

\* Two sums agree on the sets both are about.
LEMMA SumsAgree ==
  ASSUME NEW T, NEW U, IsFiniteSet(T), T \subseteq U,
         NEW f, IsSum(f, T), NEW g, IsSum(g, U)
  PROVE  \A s \in SUBSET T : f[s] = g[s]
<1> DEFINE B == {s \in SUBSET T : f[s] # g[s]}
<1> SUFFICES ASSUME B # {} PROVE FALSE
  OBVIOUS
<1>1. PICK s \in B : \A r \in SUBSET s : r # s => r \notin B
  <2>1. B \in SUBSET SUBSET T
    OBVIOUS
  <2> HIDE DEF B
  <2> QED  BY <2>1, MinSubset
<1>2. s \in SUBSET T /\ s \in SUBSET U
  OBVIOUS
<1>3. f[s] = IF s = {} THEN 0 ELSE Duration[Pick(s)] + f[s \ {Pick(s)}]
  BY <1>2 DEF IsSum
<1>4. g[s] = IF s = {} THEN 0 ELSE Duration[Pick(s)] + g[s \ {Pick(s)}]
  BY <1>2 DEF IsSum
<1>5. s # {} => s \ {Pick(s)} \in SUBSET s /\ s \ {Pick(s)} # s
  BY Picked
<1>6. s # {} => f[s \ {Pick(s)}] = g[s \ {Pick(s)}]
  BY <1>1, <1>2, <1>5
<1> QED  BY <1>1, <1>3, <1>4, <1>6

\* The recursion has a solution: on a set, from the solutions on smaller ones.
LEMMA SumExists ==
  ASSUME NEW U, IsFiniteSet(U)
  PROVE  \E f : IsSum(f, U)
<1> DEFINE B == {s \in SUBSET U : ~ \E f : IsSum(f, s)}
<1> SUFFICES ASSUME B # {} PROVE FALSE
  OBVIOUS
<1>1. PICK T \in B : \A r \in SUBSET T : r # T => r \notin B
  <2>1. B \in SUBSET SUBSET U
    OBVIOUS
  <2> HIDE DEF B
  <2> QED  BY <2>1, MinSubset
<1>2. \A r \in SUBSET T : r # T => \E f : IsSum(f, r)
  BY <1>1
<1>3. \A r \in SUBSET U : IsFiniteSet(r)
  BY FS_Subset
<1> DEFINE of(r) == CHOOSE f : IsSum(f, r)
           g == [s \in SUBSET T |-> IF s = {} THEN 0
                   ELSE Duration[Pick(s)] + of(s \ {Pick(s)})[s \ {Pick(s)}]]
<1>4. ASSUME NEW s \in SUBSET T, s # {}
      PROVE  g[s \ {Pick(s)}] = of(s \ {Pick(s)})[s \ {Pick(s)}]
  <2> DEFINE r == s \ {Pick(s)}
  <2>1. r \in SUBSET T /\ r # T /\ r \in SUBSET U
    BY <1>4, Picked
  <2>2. IsSum(of(r), r)
    BY <1>2, <2>1
  <2>3. g[r] = IF r = {} THEN 0 ELSE Duration[Pick(r)] + of(r \ {Pick(r)})[r \ {Pick(r)}]
    BY <2>1
  <2>4. of(r)[r] = IF r = {} THEN 0 ELSE Duration[Pick(r)] + of(r)[r \ {Pick(r)}]
    BY <2>2 DEF IsSum
  <2>5. CASE r = {}
    BY <2>3, <2>4, <2>5
  <2>6. CASE r # {}
    <3> DEFINE q == r \ {Pick(r)}
    <3>1. q \in SUBSET r /\ q \in SUBSET T /\ q # T /\ q \in SUBSET U
      BY <2>1, <2>6, Picked
    <3>2. IsSum(of(q), q)
      BY <1>2, <3>1
    <3>3. of(q)[q] = of(r)[q]
      <4>1. \A s1 \in SUBSET q : of(q)[s1] = of(r)[s1]
        <5> HIDE DEF q, r, of
        <5> QED  BY <1>3, <2>2, <3>1, <3>2, SumsAgree
      <4> QED  BY <4>1
    <3> QED  BY <2>3, <2>4, <2>6, <3>3
  <2> QED  BY <2>5, <2>6
<1>5. IsSum(g, T)
  <2> DEFINE h == [s \in SUBSET T |-> IF s = {} THEN 0 ELSE Duration[Pick(s)] + g[s \ {Pick(s)}]]
  <2>1. ASSUME NEW s \in SUBSET T
        PROVE  g[s] = h[s]
    <3>1. CASE s = {}
      BY <3>1
    <3>2. CASE s # {}
      <4>1. g[s] = Duration[Pick(s)] + of(s \ {Pick(s)})[s \ {Pick(s)}]
        BY <3>2
      <4>2. h[s] = Duration[Pick(s)] + g[s \ {Pick(s)}]
        BY <3>2
      <4>3. g[s \ {Pick(s)}] = of(s \ {Pick(s)})[s \ {Pick(s)}]
        BY <1>4, <3>2
      <4> HIDE DEF g, h, of
      <4> QED  BY <4>1, <4>2, <4>3
    <3> QED  BY <3>1, <3>2
  <2>2. g = h
    <3>1. g = [s \in SUBSET T |-> g[s]] /\ h = [s \in SUBSET T |-> h[s]]
      OBVIOUS
    <3> HIDE DEF g, h
    <3> QED  BY <2>1, <3>1
  <2> QED  BY <2>2 DEF IsSum
<1> QED  BY <1>1, <1>5

LEMMA SumRec ==
  ASSUME NEW T, IsFiniteSet(T)
  PROVE  /\ TotalDuration({}) = 0
         /\ T # {} => TotalDuration(T) = Duration[Pick(T)] + TotalDuration(T \ {Pick(T)})
<1> DEFINE the(U) == CHOOSE f : IsSum(f, U)
<1>1. \A U : IsFiniteSet(U) => IsSum(the(U), U)
  BY SumExists
<1>2. \A U : TotalDuration(U) = the(U)[U]
  BY SumIs
<1>3. TotalDuration({}) = 0
  <2>1. IsSum(the({}), {})
    BY <1>1, FS_EmptySet
  <2>2. the({})[{}] = 0
    BY <2>1 DEF IsSum
  <2> QED  BY <1>2, <2>2
<1>4. ASSUME T # {}
      PROVE  TotalDuration(T) = Duration[Pick(T)] + TotalDuration(T \ {Pick(T)})
  <2> DEFINE r == T \ {Pick(T)}
  <2>1. IsFiniteSet(r) /\ r \subseteq T
    BY FS_RemoveElement
  <2>2. IsSum(the(T), T) /\ IsSum(the(r), r)
    BY <1>1, <2>1
  <2>3. the(T)[T] = Duration[Pick(T)] + the(T)[r]
    BY <1>4, <2>2 DEF IsSum
  <2>4. the(r)[r] = the(T)[r]
    <3>1. PICK f, g : f = the(r) /\ g = the(T)
      OBVIOUS
    <3>2. \A s \in SUBSET r : f[s] = g[s]
      <4>1. IsSum(f, r) /\ IsSum(g, T)
        BY <2>2, <3>1
      <4> HIDE DEF the, r
      <4> QED  BY <2>1, <4>1, SumsAgree
    <3> QED  BY <3>1, <3>2
  <2>5. TotalDuration(T) = the(T)[T] /\ TotalDuration(r) = the(r)[r]
    BY <1>2
  <2> HIDE DEF the
  <2> QED  BY <2>3, <2>4, <2>5
<1> QED  BY <1>3, <1>4

\* The sum does not depend on the element it takes first.
LEMMA SumSplit ==
  ASSUME NEW U \in SUBSET Vouchers, IsFiniteSet(U)
  PROVE  /\ TotalDuration(U) \in Nat
         /\ \A v \in U : TotalDuration(U) = Duration[v] + TotalDuration(U \ {v})
<1> DEFINE Good(T) == /\ TotalDuration(T) \in Nat
                      /\ \A v \in T : TotalDuration(T) = Duration[v] + TotalDuration(T \ {v})
           B == {T \in SUBSET U : ~Good(T)}
<1> SUFFICES ASSUME B # {} PROVE FALSE
  OBVIOUS
<1>1. PICK T \in B : \A r \in SUBSET T : r # T => r \notin B
  <2>1. B \in SUBSET SUBSET U
    OBVIOUS
  <2> HIDE DEF B
  <2> QED  BY <2>1, MinSubset
<1>2. /\ T \in SUBSET Vouchers /\ IsFiniteSet(T)
      /\ \A r \in SUBSET T : r # T => Good(r)
  BY <1>1, FS_Subset
<1>3. \A v \in Vouchers : Duration[v] \in Nat
  BY SubscriptionsAssumption
<1>4. CASE T = {}
  <2>1. TotalDuration({}) = 0
    BY SumRec, FS_EmptySet
  <2>2. Good(T)
    BY <1>4, <2>1
  <2> QED  BY <1>1, <2>2
<1>5. CASE T # {}
  <2> DEFINE p == Pick(T)
             r == T \ {p}
  <2>1. p \in T /\ r \in SUBSET T /\ r # T /\ Duration[p] \in Nat
    BY <1>2, <1>3, <1>5, Picked
  <2>2. TotalDuration(T) = Duration[p] + TotalDuration(r)
    BY <1>2, <1>5, SumRec
  <2>3. Good(r)
    BY <1>2, <2>1
  <2>4. TotalDuration(T) \in Nat
    BY <2>1, <2>2, <2>3
  <2>5. ASSUME NEW v \in T, v # p
        PROVE  TotalDuration(T) = Duration[v] + TotalDuration(T \ {v})
    <3> DEFINE q == T \ {v}
    <3>1. /\ v \in r /\ q \in SUBSET T /\ q # T /\ p \in q /\ Duration[v] \in Nat
          /\ r \ {v} \in SUBSET T /\ r \ {v} # T /\ q \ {p} = r \ {v}
      BY <1>2, <1>3, <2>1, <2>5
    <3>2. Good(q) /\ Good(r \ {v})
      BY <1>2, <3>1
    <3>3. TotalDuration(q) = Duration[p] + TotalDuration(r \ {v})
      BY <3>1, <3>2
    <3>4. TotalDuration(r) = Duration[v] + TotalDuration(r \ {v})
      BY <2>3, <3>1
    <3>5. TotalDuration(r \ {v}) \in Nat
      BY <3>2
    <3> QED  BY <2>1, <2>2, <3>1, <3>3, <3>4, <3>5
  <2>6. Good(T)
    BY <2>2, <2>4, <2>5
  <2> QED  BY <1>1, <2>6
<1> QED  BY <1>4, <1>5
-----------------------------------------------------------------------------
(* What was paid *)

Withdrawals == {"no", "pending", "cancelled", "expired", "refunded", "rejected"}

\* An account redeems finitely many vouchers, a voucher as many times as its quota
\* allows, and only single-use vouchers are withdrawn.
VoucherInv ==
  /\ withdrawn \in [Vouchers -> Withdrawals]
  /\ \A a \in Accounts : IsFiniteSet({v \in Vouchers : a \in redeemed[v]})
  /\ \A v \in Vouchers :
       /\ IsFiniteSet(redeemed[v])
       /\ Quota[v] # None => Cardinality(redeemed[v]) <= Quota[v]
       /\ withdrawn[v] # "no" => Quota[v] = 1
       /\ withdrawn[v] = "expired" => redeemed[v] # {}

\* Only a step of the store touches the store.
LEMMA StoreMoves ==
  ASSUME [Next]_vars
  PROVE  StoreNext \/ UNCHANGED storeVars
BY DEF Next, vars, LapseBan, Revoke, PollSubscribers, PollCrl, PollDamagedCrl, TakeCrl,
       RestartExit

LEMMA VoucherStep ==
  ASSUME SyncInv, VoucherInv, [Next]_vars
  PROVE  VoucherInv'
<1>0. /\ redeemed \in [Vouchers -> SUBSET Accounts] /\ withdrawn \in [Vouchers -> Withdrawals]
      /\ Quota \in [Vouchers -> Nat \cup {None}]
  BY SubscriptionsAssumption DEF SyncInv, StoreInv, VoucherInv
<1>1. ASSUME NEW a \in Accounts, NEW v \in Vouchers, RegisterAccount(a, v)
      PROVE  VoucherInv'
  <2>1. /\ withdrawn' = withdrawn /\ redeemed' = [redeemed EXCEPT ![v] = @ \cup {a}]
        /\ a \notin redeemed[v] /\ (Quota[v] # None => Cardinality(redeemed[v]) < Quota[v])
    BY <1>1 DEF RegisterAccount, Redeemable
  <2>2. ASSUME NEW b \in Accounts
        PROVE  IsFiniteSet({w \in Vouchers : b \in redeemed'[w]})
    <3>1. IsFiniteSet({w \in Vouchers : b \in redeemed[w]} \cup {v})
      BY FS_AddElement DEF VoucherInv
    <3>2. {w \in Vouchers : b \in redeemed'[w]} \subseteq {w \in Vouchers : b \in redeemed[w]} \cup {v}
      BY <1>0, <2>1
    <3> QED  BY <3>1, <3>2, FS_Subset
  <2>3. /\ IsFiniteSet(redeemed'[v])
        /\ Quota[v] # None => Cardinality(redeemed'[v]) <= Quota[v]
        /\ redeemed'[v] # {}
    <3>1. IsFiniteSet(redeemed[v]) /\ redeemed'[v] = redeemed[v] \cup {a}
      BY <1>0, <2>1 DEF VoucherInv
    <3>2. /\ IsFiniteSet(redeemed'[v])
          /\ Cardinality(redeemed'[v]) = Cardinality(redeemed[v]) + 1
          /\ Cardinality(redeemed[v]) \in Nat
      BY <2>1, <3>1, FS_AddElement, FS_CardinalityType
    <3> QED  BY <1>0, <2>1, <3>1, <3>2
  <2>4. \A w \in Vouchers \ {v} : redeemed'[w] = redeemed[w]
    BY <1>0, <2>1
  <2> QED  BY <2>1, <2>2, <2>3, <2>4 DEF VoucherInv
<1>2. ASSUME NEW v \in Vouchers, NEW s \in Withdrawals, withdrawn' = [withdrawn EXCEPT ![v] = s],
             redeemed' = redeemed, Quota[v] = 1, s = "expired" => redeemed[v] # {}
      PROVE  VoucherInv'
  <2>1. withdrawn'[v] = s /\ \A w \in Vouchers \ {v} : withdrawn'[w] = withdrawn[w]
    BY <1>0, <1>2
  <2>2. withdrawn' \in [Vouchers -> Withdrawals]
    BY <1>0, <1>2
  <2> QED  BY <1>2, <2>1, <2>2 DEF VoucherInv
<1>3. ASSUME NEW v \in Vouchers, redeemed' = redeemed, Quota[v] = 1,
             \/ withdrawn' = [withdrawn EXCEPT ![v] = "pending"]
             \/ withdrawn' = [withdrawn EXCEPT ![v] = "cancelled"]
             \/ withdrawn' = [withdrawn EXCEPT ![v] = "expired"] /\ redeemed[v] # {}
             \/ withdrawn' = [withdrawn EXCEPT ![v] = "refunded"]
             \/ withdrawn' = [withdrawn EXCEPT ![v] = "rejected"]
      PROVE  VoucherInv'
  <2>1. "pending" \in Withdrawals /\ "cancelled" \in Withdrawals /\ "expired" \in Withdrawals
        /\ "refunded" \in Withdrawals /\ "rejected" \in Withdrawals
    BY DEF Withdrawals
  <2>2. ASSUME NEW s \in Withdrawals, withdrawn' = [withdrawn EXCEPT ![v] = s],
               s = "expired" => redeemed[v] # {}
        PROVE  VoucherInv'
    BY <1>2, <1>3, <2>2
  <2> QED  BY ONLY <1>3, <2>1, <2>2
<1>4. ASSUME NEW v \in Vouchers,
             DeclareWithdrawal(v) \/ RefundWithdrawal(v) \/ RejectWithdrawal(v)
      PROVE  VoucherInv'
  <2>1. CASE DeclareWithdrawal(v)
    BY <1>3, <2>1 DEF DeclareWithdrawal
  <2>2. withdrawn[v] = "pending" => Quota[v] = 1
    BY DEF VoucherInv
  <2>3. CASE RefundWithdrawal(v)
    BY <1>3, <2>2, <2>3 DEF RefundWithdrawal
  <2>4. CASE RejectWithdrawal(v)
    BY <1>3, <2>2, <2>4 DEF RejectWithdrawal
  <2> QED  BY <1>4, <2>1, <2>3, <2>4
<1>5. CASE UNCHANGED <<redeemed, withdrawn>>
  BY <1>5 DEF VoucherInv
<1>6. \/ UNCHANGED <<redeemed, withdrawn>>
      \/ \E a \in Accounts, v \in Vouchers : RegisterAccount(a, v)
      \/ \E v \in Vouchers : DeclareWithdrawal(v) \/ RefundWithdrawal(v) \/ RejectWithdrawal(v)
  BY StoreMoves DEF storeVars, StoreNext, Retire, SetRate, TruncateLog, Tick
<1> QED  BY <1>1, <1>4, <1>5, <1>6

\* What an account paid for, when a step leaves its vouchers alone.
LEMMA StillPaid ==
  ASSUME SyncInv, SyncInv', VoucherInv, NoMoreThanPaid, [Next]_vars, NEW a \in Accounts,
         PaidBy(a)' = PaidBy(a),
         subscription'[a] # None =>
           subscription[a] # None /\ subscription'[a].expires_at = subscription[a].expires_at,
         IsActive(a)'
  PROVE  subscription'[a].expires_at <= now' + TotalDuration(PaidBy(a)')
<1>1. now \in Nat /\ now' \in Nat /\ now <= now'
  BY StoreChanges DEF SyncInv, StoreInv
<1>2. subscription'[a] \in Subscription /\ subscription[a] \in Subscription
  BY DEF SyncInv, StoreInv, IsActive
<1>3. IsActive(a) /\ subscription'[a].expires_at = subscription[a].expires_at
  BY <1>1, <1>2 DEF IsActive, Subscription
<1>4. subscription[a].expires_at <= now + TotalDuration(PaidBy(a))
  BY <1>3 DEF NoMoreThanPaid, TotalDuration
<1>5. IsFiniteSet(PaidBy(a)) /\ PaidBy(a) \in SUBSET Vouchers
  <2>1. PaidBy(a) \subseteq {v \in Vouchers : a \in redeemed[v]}
    BY DEF PaidBy
  <2> QED  BY <2>1, FS_Subset DEF VoucherInv
<1>6. TotalDuration(PaidBy(a)) \in Nat
  BY <1>5, SumSplit
<1>7. subscription[a].expires_at \in Nat
  BY <1>2 DEF Subscription
<1> QED  BY <1>1, <1>3, <1>4, <1>6, <1>7

\* A redemption pays for what it adds.
LEMMA RegisterPaid ==
  ASSUME SyncInv, VoucherInv, NoMoreThanPaid, NEW a \in Accounts, NEW v \in Vouchers,
         RegisterAccount(a, v)
  PROVE  /\ \A b \in Accounts \ {a} : PaidBy(b)' = PaidBy(b) /\ subscription'[b] = subscription[b]
         /\ subscription'[a].expires_at <= now' + TotalDuration(PaidBy(a)')
<1>0. /\ redeemed \in [Vouchers -> SUBSET Accounts] /\ now \in Nat
      /\ subscription \in [Accounts -> Subscription \cup {None}]
      /\ Quota \in [Vouchers -> Nat \cup {None}] /\ Duration[v] \in Nat
  BY SubscriptionsAssumption DEF SyncInv, StoreInv
<1>1. /\ now' = now /\ withdrawn' = withdrawn
      /\ redeemed' = [redeemed EXCEPT ![v] = @ \cup {a}]
      /\ a \notin redeemed[v] /\ (Quota[v] # None => Cardinality(redeemed[v]) < Quota[v])
      /\ withdrawn[v] # "cancelled"
  BY DEF RegisterAccount, Redeemable
<1>2. \A b \in Accounts \ {a} : subscription'[b] = subscription[b]
  BY <1>0 DEF RegisterAccount, Mutate
<1>3. \A b \in Accounts \ {a} : PaidBy(b)' = PaidBy(b)
  BY <1>0, <1>1 DEF PaidBy
\* A voucher whose refund ended an access has no place left.
<1>4. withdrawn[v] # "expired"
  <2> SUFFICES ASSUME withdrawn[v] = "expired" PROVE FALSE
    OBVIOUS
  <2>1. Quota[v] = 1 /\ redeemed[v] # {} /\ IsFiniteSet(redeemed[v])
    BY DEF VoucherInv
  <2>2. Cardinality(redeemed[v]) = 0
    <3>1. Cardinality(redeemed[v]) < 1
      BY <1>1, <2>1, SubscriptionsAssumption
    <3> QED  BY <2>1, <3>1, FS_CardinalityType
  <2> QED  BY <2>1, <2>2, FS_EmptySet
<1>5. /\ v \in PaidBy(a)' /\ PaidBy(a)' \ {v} = PaidBy(a)
      /\ PaidBy(a)' \in SUBSET Vouchers /\ PaidBy(a) \in SUBSET Vouchers
  BY <1>0, <1>1, <1>4 DEF PaidBy
<1>6. IsFiniteSet(PaidBy(a)) /\ IsFiniteSet(PaidBy(a)')
  <2>1. PaidBy(a) \subseteq {w \in Vouchers : a \in redeemed[w]}
    BY DEF PaidBy
  <2>2. IsFiniteSet(PaidBy(a))
    BY <2>1, FS_Subset DEF VoucherInv
  <2>3. PaidBy(a)' = PaidBy(a) \cup {v}
    BY <1>5
  <2> QED  BY <2>2, <2>3, FS_AddElement
<1>7. TotalDuration(PaidBy(a)') = Duration[v] + TotalDuration(PaidBy(a))
  <2>1. PICK P : P = PaidBy(a)'
    OBVIOUS
  <2>2. TotalDuration(P) = Duration[v] + TotalDuration(P \ {v})
    BY <1>5, <1>6, <2>1, SumSplit
  <2>3. P \ {v} = PaidBy(a)
    BY <1>5, <2>1
  <2>4. TotalDuration(PaidBy(a))' = TotalDuration(P)
    BY <2>1 DEF TotalDuration, MapThenSumSet, MapThenFoldSet
  <2> QED  BY <2>2, <2>3, <2>4
<1>8. TotalDuration(PaidBy(a)) \in Nat
  BY <1>5, <1>6, SumSplit
<1> DEFINE old  == subscription[a]
           left == IF IsActive(a) THEN old.expires_at ELSE now
<1>9. left \in Nat /\ left <= now + TotalDuration(PaidBy(a))
  <2>1. CASE IsActive(a)
    <3>1. old \in Subscription
      BY <1>0, <2>1 DEF IsActive
    <3> QED  BY <2>1, <3>1 DEF NoMoreThanPaid, TotalDuration, Subscription
  <2>2. CASE ~IsActive(a)
    BY <1>0, <1>8, <2>2
  <2> QED  BY <2>1, <2>2
<1>10. subscription'[a].expires_at = left + Duration[v]
  BY <1>0 DEF RegisterAccount, Mutate
<1> HIDE DEF left
<1> QED  BY <1>0, <1>1, <1>2, <1>3, <1>7, <1>8, <1>9, <1>10

LEMMA PaidStep ==
  ASSUME SyncInv, SyncInv', VoucherInv, NoMoreThanPaid, [Next]_vars
  PROVE  NoMoreThanPaid'
<1>0. /\ redeemed \in [Vouchers -> SUBSET Accounts]
      /\ withdrawn \in [Vouchers -> Withdrawals]
      /\ subscription \in [Accounts -> Subscription \cup {None}]
  BY DEF SyncInv, StoreInv, VoucherInv
<1> DEFINE AsBefore(b) ==
      /\ PaidBy(b)' = PaidBy(b)
      /\ subscription'[b] # None =>
           subscription[b] # None /\ subscription'[b].expires_at = subscription[b].expires_at
    Bound(b) == IsActive(b)' => subscription'[b].expires_at <= now' + TotalDuration(PaidBy(b)')
<1>1. ASSUME NEW b \in Accounts, AsBefore(b)
      PROVE  Bound(b)
  BY <1>1, StillPaid
<1>2. ASSUME NEW a \in Accounts, NEW v \in Vouchers, RegisterAccount(a, v), NEW b \in Accounts
      PROVE  Bound(b)
  <2>1. CASE b = a
    BY <1>2, <2>1, RegisterPaid
  <2>2. CASE b # a
    <3>1. AsBefore(b)
      BY <1>2, <2>2, RegisterPaid
    <3> HIDE DEF AsBefore, Bound
    <3> QED  BY <1>1, <3>1
  <2> QED  BY <2>1, <2>2
<1>3. ASSUME UNCHANGED <<redeemed, withdrawn>>, NEW b \in Accounts
      PROVE  PaidBy(b)' = PaidBy(b)
  BY <1>3 DEF PaidBy
<1>4. ASSUME NEW a \in Accounts, Retire(a), NEW b \in Accounts
      PROVE  AsBefore(b)
  <2>1. subscription'[b] = None \/ subscription'[b] = subscription[b]
    BY <1>0, <1>4 DEF Retire, Mutate
  <2>2. UNCHANGED <<redeemed, withdrawn>>
    BY <1>4 DEF Retire
  <2> QED  BY <1>3, <2>1, <2>2
<1>5. ASSUME NEW a \in Accounts, NEW rate \in Rates \cup {None}, SetRate(a, rate), NEW b \in Accounts
      PROVE  AsBefore(b)
  <2>1. UNCHANGED <<redeemed, withdrawn>> /\ subscription[a] # None
    BY <1>5 DEF SetRate
  <2>2. subscription' = [subscription EXCEPT ![a] = [subscription[a] EXCEPT !.rate_bps = rate]]
    BY <1>5 DEF SetRate, Mutate
  <2>3. CASE b = a
    <3>1. subscription[a] \in Subscription
      BY <1>0, <2>1
    <3>2. [subscription[a] EXCEPT !.rate_bps = rate].expires_at = subscription[a].expires_at
      BY <3>1 DEF Subscription
    <3>3. subscription'[a] = [subscription[a] EXCEPT !.rate_bps = rate]
      BY <1>0, <2>2
    <3>4. subscription'[b].expires_at = subscription[b].expires_at
      BY <2>3, <3>2, <3>3
    <3> QED  BY <1>3, <2>1, <2>3, <3>4
  <2>4. CASE b # a
    <3>1. subscription'[b] = subscription[b]
      BY <1>0, <2>2, <2>4
    <3> QED  BY <1>3, <2>1, <3>1
  <2> QED  BY <2>3, <2>4
<1>6. ASSUME NEW v \in Vouchers, NEW b \in Accounts,
             \/ DeclareWithdrawal(v)
             \/ RejectWithdrawal(v)
      PROVE  AsBefore(b)
  <2>1. subscription' = subscription /\ redeemed' = redeemed
    BY <1>6 DEF DeclareWithdrawal, RejectWithdrawal
  <2>2. withdrawn[v] \notin {"cancelled", "expired"} /\ withdrawn'[v] \notin {"cancelled", "expired"}
    BY <1>0, <1>6 DEF DeclareWithdrawal, RejectWithdrawal
  <2>3. \A w \in Vouchers \ {v} : withdrawn'[w] = withdrawn[w]
    BY <1>0, <1>6 DEF DeclareWithdrawal, RejectWithdrawal
  <2>4. PaidBy(b)' = PaidBy(b)
    BY <2>1, <2>2, <2>3 DEF PaidBy
  <2> QED  BY <2>1, <2>4
<1>7. ASSUME NEW v \in Vouchers, RefundWithdrawal(v), NEW b \in Accounts
      PROVE  AsBefore(b) \/ subscription'[b] = None
  <2>0. redeemed' = redeemed /\ withdrawn[v] = "pending"
    BY <1>7 DEF RefundWithdrawal
  <2>1. \A w \in Vouchers \ {v} : withdrawn'[w] = withdrawn[w]
    BY <1>0, <1>7 DEF RefundWithdrawal
  <2>2. CASE subscription' = subscription /\ (redeemed[v] = {} \/ withdrawn'[v] = "refunded")
    <3>1. PaidBy(b)' = PaidBy(b)
      BY <2>0, <2>1, <2>2 DEF PaidBy
    <3> QED  BY <2>2, <3>1
  <2>3. ASSUME NEW a \in redeemed[v],
               subscription'[a] = None,
               \A c \in Accounts \ {a} : subscription'[c] = subscription[c]
        PROVE  AsBefore(b) \/ subscription'[b] = None
    <3>1. redeemed[v] = {a}
      <4>1. Quota[v] = 1 /\ IsFiniteSet(redeemed[v]) /\ Cardinality(redeemed[v]) <= Quota[v]
        BY <2>0, SubscriptionsAssumption DEF VoucherInv
      <4>2. Cardinality(redeemed[v]) = 1
        BY <4>1, <2>3, FS_EmptySet, FS_CardinalityType
      <4> QED  BY <2>3, <4>1, <4>2, FS_Singleton
    <3>2. CASE b = a
      BY <2>3, <3>2
    <3>3. CASE b # a
      <4>1. PaidBy(b)' = PaidBy(b)
        BY <2>0, <2>1, <3>1, <3>3 DEF PaidBy
      <4> QED  BY <2>3, <3>3, <4>1
    <3> QED  BY <3>2, <3>3
  <2>4. ASSUME NEW a \in redeemed[v], Mutate(a, None)
        PROVE  /\ subscription'[a] = None
               /\ \A c \in Accounts \ {a} : subscription'[c] = subscription[c]
    BY <1>0, <2>4 DEF Mutate
  <2>5. \/ subscription' = subscription /\ (redeemed[v] = {} \/ withdrawn'[v] = "refunded")
        \/ \E a \in redeemed[v] :
             \/ subscription[a] = None /\ subscription' = subscription
             \/ Mutate(a, None)
    BY <1>0, <1>7 DEF RefundWithdrawal
  <2> HIDE DEF AsBefore
  <2> QED  BY <2>2, <2>3, <2>4, <2>5
<1>8. ASSUME NEW b \in Accounts, subscription'[b] = None
      PROVE  Bound(b)
  BY <1>8 DEF IsActive
<1>9. ASSUME UNCHANGED <<subscription, redeemed, withdrawn>>, NEW b \in Accounts
      PROVE  AsBefore(b)
  BY <1>3, <1>9
<1>10. \/ UNCHANGED <<subscription, redeemed, withdrawn>>
       \/ \E a \in Accounts : \/ \E v \in Vouchers : RegisterAccount(a, v)
                              \/ Retire(a)
                              \/ \E rate \in Rates \cup {None} : SetRate(a, rate)
       \/ \E v \in Vouchers : DeclareWithdrawal(v) \/ RefundWithdrawal(v) \/ RejectWithdrawal(v)
  BY StoreMoves DEF storeVars, StoreNext, TruncateLog, Tick
<1>11. \A b \in Accounts : Bound(b)
  <2> HIDE DEF AsBefore, Bound
  <2> QED  BY <1>1, <1>2, <1>4, <1>5, <1>6, <1>7, <1>8, <1>9, <1>10
<1> QED  BY <1>11 DEF NoMoreThanPaid, TotalDuration, MapThenSumSet, MapThenFoldSet

LEMMA PaidInvariant == Spec => [](VoucherInv /\ NoMoreThanPaid)
<1>1. Init => VoucherInv /\ NoMoreThanPaid
  <2> SUFFICES ASSUME Init PROVE VoucherInv /\ NoMoreThanPaid
    OBVIOUS
  <2>1. VoucherInv
    <3>1. \A a \in Accounts : {v \in Vouchers : a \in redeemed[v]} = {}
      BY DEF Init, StoreInit
    <3>2. \A v \in Vouchers : redeemed[v] = {} /\ withdrawn[v] = "no"
                                /\ (Quota[v] # None => Quota[v] \in Nat)
      BY SubscriptionsAssumption DEF Init, StoreInit
    <3>3. withdrawn \in [Vouchers -> Withdrawals]
      BY DEF Init, StoreInit, Withdrawals
    <3>4. \A v \in Vouchers : /\ IsFiniteSet(redeemed[v])
                              /\ Quota[v] # None => Cardinality(redeemed[v]) <= Quota[v]
      BY <3>2, FS_EmptySet
    <3>5. \A a \in Accounts : IsFiniteSet({v \in Vouchers : a \in redeemed[v]})
      BY <3>1, FS_EmptySet
    <3> QED  BY <3>2, <3>3, <3>4, <3>5 DEF VoucherInv
  <2>2. NoMoreThanPaid
    BY DEF Init, StoreInit, NoMoreThanPaid, IsActive
  <2> QED  BY <2>1, <2>2
<1>2. SyncInv /\ SyncInv' /\ VoucherInv /\ NoMoreThanPaid /\ [Next]_vars
        => VoucherInv' /\ NoMoreThanPaid'
  BY VoucherStep, PaidStep
<1> QED  BY <1>1, <1>2, SyncInvariant, PTL DEF Spec

(***************************************************************************)
(* For all vouchers, quotas and durations, and any number of accounts: no  *)
(* account has more time ahead than the vouchers it redeemed grant, each   *)
(* counted once and none whose refund took the access back.                *)
(***************************************************************************)
THEOREM TimeIsPaidFor == Spec => []NoMoreThanPaid
  BY PaidInvariant, PTL

-----------------------------------------------------------------------------
(***************************************************************************)
(* DirectoryRollout, for every set of drafts and builds.                   *)
(***************************************************************************)

\* Nodes are those of a draft, but for what the server may do to them on a
\* route: redact the endpoint, overlay the pin, omit the later fields.
IsView(route, nodes, sent) ==
  /\ nodes \in Seq(Node) /\ Len(nodes) = Len(sent)
  /\ \A i \in DOMAIN sent :
       nodes[i] = [sent[i] EXCEPT !.exit_endpoint = FALSE,
                                  !.pin = nodes[i].pin,
                                  !.fields = RouteFields(route, @)]

\* A served document envelopes a view of the draft it names.
IsServed(s, drafts) ==
  /\ s.route \in {"v1", "v2"}
  /\ s.doc.generation \in DOMAIN drafts /\ s.doc.key \in Keys
  /\ s = [route |-> s.route,
          doc   |-> Enveloped(s.doc.nodes, drafts[s.doc.generation], s.doc.key)]
  /\ IsView(s.route, s.doc.nodes, drafts[s.doc.generation].nodes)
  /\ PinsWellFormed(s.doc.nodes)

\* A client holds the whole of a view of the draft it names.
IsHeld(h, drafts) ==
  /\ h \in [route : {"v1", "v2"}, got : Directory]
  /\ h.got.generation \in DOMAIN drafts
  /\ h.got.dropped = 0 /\ h.got.op = drafts[h.got.generation].op
  /\ IsView(h.route, h.got.nodes, drafts[h.got.generation].nodes)

\* What was posted is what the operator minted: whole for the server, every
\* node vouched.
PostedInv ==
  \A g \in DOMAIN posted :
    /\ posted[g].generation = g
    /\ Lossless(server, posted[g].nodes)
    /\ SelfConsistent(posted[g])

ServedInv == \A s \in served : IsServed(s, posted)

HeldInv == \A c \in Clients : dir[c] # NoDirectory => IsHeld(dir[c], posted)

RolloutInv == RolloutTypeOK /\ PostedInv /\ ServedInv /\ HeldInv

-----------------------------------------------------------------------------
(* Nodes *)

\* A vouched node stays vouched in every view of it.
LEMMA ViewIsVouched ==
  ASSUME NEW n \in Node, NEW m \in Node, NEW route \in {"v1", "v2"}, NEW op,
         FullyVouched(op, n),
         m = [n EXCEPT !.exit_endpoint = FALSE, !.pin = m.pin,
                       !.fields = RouteFields(route, @)]
  PROVE  FullyVouched(op, m)
<1>1. /\ m.relay_by = n.relay_by /\ m.exit_sig = n.exit_sig /\ m.dns_off = n.dns_off
      /\ m.attestation = n.attestation /\ m.geo = n.geo
      /\ m.fields = RouteFields(route, n.fields)
  BY DEF Node
<1>2. "mlkem" \in n.fields => "mlkem" \in m.fields
  BY <1>1, RolloutAssumption DEF RouteFields
<1> QED  BY <1>1, <1>2 DEF FullyVouched, PqVerifies, DnsAttested, Unattested

\* A vouched node is sealed and goes without DNS as its signature says.
LEMMA VouchedIsBound ==
  ASSUME NEW n \in Node, NEW op, FullyVouched(op, n)
  PROVE  /\ SurfacesMlKem(op, n) <=> n.exit_sig.context = "pq"
         /\ n.dns_off <=> n.exit_sig.context \in {"v2", "pq"} /\ n.exit_sig.dns
         /\ {n.relay_by, n.exit_sig.by, n.attestation.by} = {op}
<1>1. n.dns_off \in BOOLEAN /\ n.exit_sig.dns \in BOOLEAN
  BY DEF Node
<1>2. n.exit_sig.by = op /\ n.relay_by = op /\ n.attestation.by = op
  BY DEF FullyVouched, PqVerifies, DnsAttested, Unattested
<1> QED  BY <1>1, <1>2
            DEF FullyVouched, PqVerifies, DnsAttested, Unattested, SurfacesMlKem

\* A node with another endpoint flag, other fields and another pin.
Make(n, endpoint, fields, p) ==
  [id |-> n.id, fields |-> fields, exit_endpoint |-> endpoint, pin |-> p,
   dns_off |-> n.dns_off, geo |-> n.geo, relay_by |-> n.relay_by,
   exit_sig |-> n.exit_sig, attestation |-> n.attestation]

LEMMA Made ==
  ASSUME NEW n \in Node, NEW e \in BOOLEAN, NEW f \in SUBSET Fields,
         NEW p \in {"none", "hex", "malformed"}
  PROVE  /\ Make(n, e, f, p) \in Node
         /\ Make(n, e, f, p).fields = f /\ Make(n, e, f, p).pin = p
         /\ Make(n, e, f, p).exit_endpoint = e
         /\ \A e2, f2, p2 : Make(Make(n, e, f, p), e2, f2, p2) = Make(n, e2, f2, p2)
BY DEF Make, Node

LEMMA Unmade ==
  ASSUME NEW n \in Node
  PROVE  /\ n = Make(n, n.exit_endpoint, n.fields, n.pin)
         /\ n.exit_endpoint \in BOOLEAN /\ n.fields \in SUBSET Fields
         /\ n.pin \in {"none", "hex", "malformed"}
BY DEF Make, Node

Repinned(n, q) == [n EXCEPT !.pin = q]

LEMMA MadePin ==
  ASSUME NEW n, NEW e, NEW f, NEW p, NEW q
  PROVE  Repinned(Make(n, e, f, p), q) = Make(n, e, f, q)
BY DEF Make, Repinned

LEMMA PinEdit ==
  ASSUME NEW n \in Node, NEW p
  PROVE  [n EXCEPT !.pin = p] = Make(n, n.exit_endpoint, n.fields, p)
<1>1. n = Make(n, n.exit_endpoint, n.fields, n.pin)
  BY Unmade
<1> QED  BY <1>1 DEF Make

LEMMA EndpointEdit ==
  ASSUME NEW n \in Node, NEW e
  PROVE  [n EXCEPT !.exit_endpoint = e] = Make(n, e, n.fields, n.pin)
<1>1. n = Make(n, n.exit_endpoint, n.fields, n.pin)
  BY Unmade
<1> QED  BY <1>1 DEF Make

LEMMA ViewEdit ==
  ASSUME NEW n \in Node, NEW e, NEW p, NEW f
  PROVE  [n EXCEPT !.exit_endpoint = e, !.pin = p, !.fields = f] = Make(n, e, f, p)
<1>1. [n EXCEPT !.exit_endpoint = e] = Make(n, e, n.fields, n.pin)
  BY EndpointEdit
<1>2. [Make(n, e, n.fields, n.pin) EXCEPT !.pin = p] = Make(n, e, n.fields, p)
  BY MadePin DEF Repinned
<1>3. [Make(n, e, n.fields, p) EXCEPT !.fields = f] = Make(n, e, f, p)
  BY DEF Make
<1>4. [n EXCEPT !.exit_endpoint = e, !.pin = p, !.fields = f]
        = [[[n EXCEPT !.exit_endpoint = e] EXCEPT !.pin = p] EXCEPT !.fields = f]
  OBVIOUS
<1> QED  BY <1>1, <1>2, <1>3, <1>4, Zenon

LEMMA ParsedEdit ==
  ASSUME NEW n \in Node, NEW caps
  PROVE  Parsed(caps, n)
           = Make(n, n.exit_endpoint, n.fields \cap caps,
                  IF "edge_pin" \in caps THEN n.pin ELSE "none")
<1>1. n = Make(n, n.exit_endpoint, n.fields, n.pin)
  BY Unmade
<1>2. [n EXCEPT !.fields = n.fields \cap caps]
        = Make(n, n.exit_endpoint, n.fields \cap caps, n.pin)
  BY <1>1 DEF Make
<1>3. \A q : Repinned(Make(n, n.exit_endpoint, n.fields \cap caps, n.pin), q)
               = Make(n, n.exit_endpoint, n.fields \cap caps, q)
  BY MadePin, Zenon
<1>4. \A q : [n EXCEPT !.fields = n.fields \cap caps, !.pin = q]
               = Repinned([n EXCEPT !.fields = n.fields \cap caps], q)
  BY DEF Repinned
<1>5. \A q : [n EXCEPT !.fields = n.fields \cap caps, !.pin = q]
               = Make(n, n.exit_endpoint, n.fields \cap caps, q)
  BY <1>2, <1>3, <1>4, Zenon
<1> QED  BY <1>5, Zenon DEF Parsed

\* What a build parses is a node, and all of it if it has the fields and the
\* pin.
LEMMA ParsedNode ==
  ASSUME NEW n \in Node, NEW caps
  PROVE  /\ Parsed(caps, n) \in Node
         /\ n.fields \subseteq caps /\ (n.pin # "none" => "edge_pin" \in caps)
              => Parsed(caps, n) = n
         /\ Parsed(caps, n) = n =>
              n.fields \subseteq caps /\ (n.pin # "none" => "edge_pin" \in caps)
<1> DEFINE q == IF "edge_pin" \in caps THEN n.pin ELSE "none"
<1>1. Parsed(caps, n) = Make(n, n.exit_endpoint, n.fields \cap caps, q)
  BY ParsedEdit
<1>2. q \in {"none", "hex", "malformed"} /\ n.fields \cap caps \in SUBSET Fields
  BY Unmade
<1> HIDE DEF q
<1>3. /\ Parsed(caps, n) \in Node
      /\ Parsed(caps, n).fields = n.fields \cap caps /\ Parsed(caps, n).pin = q
  <2>1. n.exit_endpoint \in BOOLEAN
    BY Unmade
  <2>2. /\ Make(n, n.exit_endpoint, n.fields \cap caps, q) \in Node
        /\ Make(n, n.exit_endpoint, n.fields \cap caps, q).fields = n.fields \cap caps
        /\ Make(n, n.exit_endpoint, n.fields \cap caps, q).pin = q
    BY <1>2, <2>1 DEF Make, Node
  <2> QED  BY <1>1, <2>2
<1>4. ASSUME n.fields \subseteq caps, n.pin # "none" => "edge_pin" \in caps
      PROVE  Parsed(caps, n) = n
  <2>1. n.fields \cap caps = n.fields /\ q = n.pin
    BY <1>4, Unmade DEF q
  <2> QED  BY <1>1, <2>1, Unmade
<1>5. q # "none" => "edge_pin" \in caps
  BY DEF q
<1> QED  BY <1>3, <1>4, <1>5

LEMMA ParsedNodes ==
  ASSUME NEW nodes \in Seq(Node), NEW caps
  PROVE  /\ ParsedAll(caps, nodes) \in Seq(Node)
         /\ Len(ParsedAll(caps, nodes)) = Len(nodes)
         /\ \A i \in 1..Len(nodes) : ParsedAll(caps, nodes)[i] = Parsed(caps, nodes[i])
<1> DEFINE n == Len(nodes)
<1>1. n \in Nat /\ DOMAIN nodes = 1..n /\ \A i \in 1..n : nodes[i] \in Node
  OBVIOUS
<1>2. ParsedAll(caps, nodes) = [i \in 1..n |-> Parsed(caps, nodes[i])]
  BY <1>1 DEF ParsedAll
<1>3. \A i \in 1..n : Parsed(caps, nodes[i]) \in Node
  BY <1>1, ParsedNode
<1> HIDE DEF n
<1>4. [i \in 1..n |-> Parsed(caps, nodes[i])] \in Seq(Node)
  BY <1>1, <1>3
<1> QED  BY <1>1, <1>2, <1>4 DEF n

\* Where every node is vouched, none is dropped.
LEMMA NoneDropped ==
  ASSUME NEW b, NEW doc, doc.nodes \in Seq(Node),
         ParsedAll(b.fields, doc.nodes) = doc.nodes,
         \A i \in 1..Len(doc.nodes) : FullyVouched(doc.op, doc.nodes[i])
  PROVE  Kept(b, doc) = doc.nodes
<1> DEFINE nodes == doc.nodes
           n     == Len(nodes)
           Rank(i) == Cardinality({j \in 1..n : j <= i})
<1>1. n \in Nat /\ nodes \in [1..n -> Node]
  OBVIOUS
<1>2. {i \in DOMAIN nodes : FullyVouched(doc.op, nodes[i])} = 1..n
  BY <1>1
<1>3. Cardinality(1..n) = n
  BY <1>1, FS_Interval
<1>4. ASSUME NEW i \in 1..n PROVE Rank(i) = i
  <2>1. {j \in 1..n : j <= i} = 1..i
    BY <1>1
  <2>2. Cardinality(1..i) = i
    BY FS_Interval
  <2> QED  BY <2>1, <2>2
<1> HIDE DEF n
<1> DEFINE Nth(k) == CHOOSE i \in 1..n : Rank(i) = k
<1>5. Kept(b, doc) = [k \in 1..n |-> nodes[Nth(k)]]
  <2> DEFINE K(J, m) == [k \in 1..m |->
                           nodes[CHOOSE i \in J : Cardinality({j \in J : j <= i}) = k]]
             I == {i \in DOMAIN nodes : FullyVouched(doc.op, nodes[i])}
  <2>1. Kept(b, doc) = K(I, Cardinality(I))
    BY DEF Kept
  <2>2. I = 1..n /\ Cardinality(I) = n
    BY <1>2, <1>3 DEF n
  <2> HIDE DEF K, I
  <2>3. Kept(b, doc) = K(1..n, n)
    BY <2>1, <2>2
  <2> QED  BY <2>3 DEF K
<1> HIDE DEF Rank
<1>6. ASSUME NEW k \in 1..n PROVE Nth(k) = k
  BY <1>4
<1> HIDE DEF Nth, nodes
<1>7. Kept(b, doc) = [k \in 1..n |-> nodes[k]]
  BY <1>5, <1>6
<1>8. nodes = [k \in 1..n |-> nodes[k]]
  BY <1>1
<1> QED  BY <1>7, <1>8 DEF nodes

-----------------------------------------------------------------------------
(* The invariant *)

LEMMA ServedStays ==
  ASSUME NEW drafts \in Seq(Draft), NEW d \in Draft
  PROVE  /\ \A s : IsServed(s, drafts) => IsServed(s, Append(drafts, d))
         /\ \A h : IsHeld(h, drafts) => IsHeld(h, Append(drafts, d))
<1>1. \A g \in DOMAIN drafts : g \in DOMAIN Append(drafts, d) /\ Append(drafts, d)[g] = drafts[g]
  OBVIOUS
<1> QED  BY <1>1 DEF IsServed, IsHeld

\* The view a server puts in an envelope.
LEMMA ServesViews ==
  ASSUME RolloutTypeOK, PostedInv, posted # <<>>, NEW route, NEW fields,
         <<route, fields>> \in {<<"v1", FrozenFields>>, <<"v2", server>>}
  PROVE  IsView(route, ClientView(posted[Len(posted)].nodes, fields),
                posted[Len(posted)].nodes)
<1> DEFINE sent == posted[Len(posted)].nodes
           view == ClientView(sent, fields)
           seen == ParsedAll(server \cap fields, sent)
           over == Overlaid(seen)
<1>1. Len(posted) \in DOMAIN posted /\ posted[Len(posted)] \in Draft
  BY DEF RolloutTypeOK
<1>2. sent \in Seq(Node) /\ ParsedAll(server, sent) = sent
  BY <1>1 DEF Draft, PostedInv, Lossless
<1> HIDE DEF sent
<1>3. \A i \in 1..Len(sent) : sent[i] \in Node /\ sent[i].fields \subseteq server
  BY <1>2, ParsedNode, ParsedNodes
<1>4. /\ seen \in Seq(Node) /\ Len(seen) = Len(sent)
      /\ \A i \in 1..Len(sent) : seen[i] = Parsed(server \cap fields, sent[i])
  BY <1>2, ParsedNodes
<1> HIDE DEF seen
<1>5. pin \in {"none", "hex", "malformed"}
  BY RolloutAssumption DEF RolloutTypeOK
<1>6. /\ over \in Seq(Node) /\ Len(over) = Len(sent)
      /\ \A i \in 1..Len(sent) : over[i] = [seen[i] EXCEPT !.pin = over[i].pin]
  <2>1. \A i \in 1..Len(sent) : seen[i] \in Node
    BY <1>4
  <2>2. \A i \in 1..Len(sent) : /\ [seen[i] EXCEPT !.pin = pin] \in Node
                                /\ [seen[i] EXCEPT !.pin = pin].pin = pin
                                /\ seen[i] = [seen[i] EXCEPT !.pin = seen[i].pin]
    BY <1>5, <2>1 DEF Node
  <2>3. CASE "edge_pin" \in server
    <3>1. over = [i \in 1..Len(sent) |-> [seen[i] EXCEPT !.pin = pin]]
      BY <1>4, <2>3 DEF Overlaid
    <3> HIDE DEF over
    <3>2. over \in Seq(Node) /\ Len(over) = Len(sent)
      <4> DEFINE g(i) == [seen[i] EXCEPT !.pin = pin]
      <4>1. over = [i \in 1..Len(sent) |-> g(i)] /\ \A i \in 1..Len(sent) : g(i) \in Node
        BY <2>2, <3>1
      <4> HIDE DEF g
      <4> QED  BY <1>2, <4>1
    <3> QED  BY <2>2, <3>1, <3>2
  <2>4. CASE "edge_pin" \notin server
    <3>1. over = seen
      BY <2>4 DEF Overlaid
    <3> HIDE DEF over
    <3> QED  BY <1>4, <2>2, <3>1
  <2> QED  BY <2>3, <2>4
<1> HIDE DEF over
<1>7. view = [i \in 1..Len(sent) |-> [over[i] EXCEPT !.exit_endpoint = FALSE]]
  BY <1>6 DEF ClientView, Redacted, over, seen
<1> HIDE DEF view
<1>8. ASSUME NEW i \in 1..Len(sent)
      PROVE  /\ over[i] \in Node
             /\ [over[i] EXCEPT !.exit_endpoint = FALSE] \in Node
  <2>1. over[i] \in Node
    BY <1>6
  <2> QED  BY <2>1 DEF Node
<1>9. view \in Seq(Node) /\ Len(view) = Len(sent)
  BY <1>2, <1>7, <1>8
<1>10. ASSUME NEW i \in 1..Len(sent)
       PROVE  view[i] = [sent[i] EXCEPT !.exit_endpoint = FALSE,
                                        !.pin = view[i].pin,
                                        !.fields = RouteFields(route, @)]
  <2> DEFINE s == sent[i]
             f == RouteFields(route, s.fields)
  <2>1. s \in Node /\ seen[i] \in Node /\ over[i] \in Node
    BY <1>3, <1>4, <1>6
  <2>2. s.fields \cap (server \cap fields) = f
    BY <1>3 DEF RouteFields
  <2>3. PICK q : seen[i] = Make(s, s.exit_endpoint, f, q)
    <3>1. \E q : Parsed(server \cap fields, s)
                   = Make(s, s.exit_endpoint, s.fields \cap (server \cap fields), q)
      BY <2>1, ParsedEdit
    <3>2. seen[i] = Parsed(server \cap fields, s)
      BY <1>4
    <3> HIDE DEF s
    <3> QED  BY <2>2, <3>1, <3>2
  <2>4. PICK r : over[i] = Make(seen[i], seen[i].exit_endpoint, seen[i].fields, r)
    <3>1. over[i] = [seen[i] EXCEPT !.pin = over[i].pin]
      BY <1>6
    <3>2. seen[i] \in Node
      BY <2>1
    <3>3. \A p : [seen[i] EXCEPT !.pin = p]
                   = Make(seen[i], seen[i].exit_endpoint, seen[i].fields, p)
      BY ONLY <3>2, PinEdit, Zenon
    <3> QED  BY ONLY <3>1, <3>3, Zenon
  <2>5. view[i] = Make(over[i], FALSE, over[i].fields, over[i].pin)
    <3>1. view[i] = [over[i] EXCEPT !.exit_endpoint = FALSE]
      BY <1>7
    <3> QED  BY <2>1, <3>1, EndpointEdit, Zenon
  <2> HIDE DEF s, f
  <2>6. seen[i].fields = f /\ over[i] = Make(s, seen[i].exit_endpoint, f, r)
    BY <2>3, <2>4 DEF Make
  <2>7. over[i].fields = f /\ over[i].pin = r
    BY <2>6 DEF Make
  <2>8. view[i] = Make(s, FALSE, f, r)
    BY <2>5, <2>6, <2>7 DEF Make
  <2>9. view[i].pin = r
    BY <2>8 DEF Make
  <2>10. [s EXCEPT !.exit_endpoint = FALSE, !.pin = r, !.fields = f] = Make(s, FALSE, f, r)
    <3>1. s \in Node
      BY <2>1
    <3>2. \A e : [s EXCEPT !.exit_endpoint = e, !.pin = r, !.fields = f] = Make(s, e, f, r)
      BY ONLY <3>1, ViewEdit, Zenon
    <3> QED  BY <3>2, Zenon
  <2>11. view[i] = [s EXCEPT !.exit_endpoint = FALSE, !.pin = view[i].pin, !.fields = f]
    BY <2>8, <2>9, <2>10, Zenon
  <2> QED  BY <2>11, Zenon DEF s, f
<1>11. DOMAIN sent = 1..Len(sent)
  BY <1>2
<1>12. IsView(route, view, sent)
  BY <1>9, <1>10, <1>11, Zenon DEF IsView
<1> QED  BY <1>12 DEF view, sent

-----------------------------------------------------------------------------
(* What clients make of served documents *)

LEMMA ServedIsVouched ==
  ASSUME RolloutTypeOK, PostedInv, NEW s, IsServed(s, posted)
  PROVE  LET draft == posted[s.doc.generation]
         IN  /\ draft \in Draft /\ s.doc.nodes \in Seq(Node)
             /\ s.doc.op = draft.op /\ s.doc.root = draft.root
             /\ s.doc.signature = Preimage(s.doc.nodes, s.doc.op, s.doc.root,
                                           s.doc.generation, s.doc.key)
             /\ \A i \in 1..Len(s.doc.nodes) : FullyVouched(s.doc.op, s.doc.nodes[i])
<1> DEFINE g     == s.doc.generation
           draft == posted[g]
<1>1. g \in DOMAIN posted /\ draft \in Draft /\ draft.generation = g
  BY DEF IsServed, RolloutTypeOK, PostedInv
<1>2. /\ s.doc = Enveloped(s.doc.nodes, draft, s.doc.key)
      /\ s.route \in {"v1", "v2"} /\ IsView(s.route, s.doc.nodes, draft.nodes)
  BY DEF IsServed
<1>3. /\ s.doc.op = draft.op /\ s.doc.root = draft.root
      /\ s.doc.signature = Preimage(s.doc.nodes, draft.op, draft.root, g, s.doc.key)
  BY <1>1, <1>2 DEF Enveloped
<1>4. draft.nodes \in Seq(Node) /\ SelfConsistent(draft)
  BY <1>1 DEF Draft, PostedInv
<1> HIDE DEF g, draft
<1>5. ASSUME NEW i \in 1..Len(s.doc.nodes)
      PROVE  FullyVouched(s.doc.op, s.doc.nodes[i])
  <2> DEFINE n == draft.nodes[i]
             m == s.doc.nodes[i]
  <2>0. /\ s.doc.nodes \in Seq(Node) /\ Len(s.doc.nodes) = Len(draft.nodes)
        /\ i \in DOMAIN draft.nodes /\ DOMAIN draft.nodes = 1..Len(draft.nodes)
    <3>1. s.doc.nodes \in Seq(Node) /\ Len(s.doc.nodes) = Len(draft.nodes)
      BY <1>2, Zenon DEF IsView
    <3>2. DOMAIN draft.nodes = 1..Len(draft.nodes)
      BY <1>4
    <3> QED  BY <3>1, <3>2
  <2>1. n \in Node /\ m \in Node /\ FullyVouched(draft.op, n)
    BY <1>4, <2>0 DEF SelfConsistent
  <2>2. m = [n EXCEPT !.exit_endpoint = FALSE, !.pin = m.pin,
                      !.fields = RouteFields(s.route, @)]
    BY <1>2, <2>0, Zenon DEF IsView
  <2> HIDE DEF n, m
  <2>3. FullyVouched(draft.op, m)
    BY <1>2, <2>1, <2>2, ViewIsVouched, Zenon
  <2> QED  BY <1>3, <2>3 DEF m
<1>6. s.doc.nodes \in Seq(Node)
  BY <1>2 DEF IsView
<1> QED  BY <1>1, <1>3, <1>5, <1>6 DEF g, draft

LEMMA VerifiedWhole ==
  ASSUME NEW b, NEW doc, doc.nodes \in Seq(Node),
         doc.signature = Preimage(doc.nodes, doc.op, doc.root, doc.generation, doc.key),
         \A i \in 1..Len(doc.nodes) : FullyVouched(doc.op, doc.nodes[i]),
         EnvelopeHolds(b, doc)
  PROVE  Verified(b, doc) = [nodes |-> doc.nodes, op |-> doc.op,
                             generation |-> doc.generation, dropped |-> 0]
<1>1. ParsedAll(b.fields, doc.nodes) = doc.nodes
  BY DEF EnvelopeHolds, Preimage
<1>2. Kept(b, doc) = doc.nodes
  BY <1>1, NoneDropped
<1>3. Len(doc.nodes) - Len(doc.nodes) = 0
  OBVIOUS
<1> QED  BY <1>2, <1>3 DEF Verified

-----------------------------------------------------------------------------
(* The steps *)

LEMMA RolloutInitially == RolloutInit => RolloutInv
BY RolloutAssumption DEF RolloutInit, RolloutInv, RolloutTypeOK, PostedInv, ServedInv,
                         HeldInv

LEMMA NewDraft ==
  ASSUME RolloutTypeOK, NEW d \in Drafts, PostDraft(d)
  PROVE  \E draft \in Draft :
           /\ posted' = Append(posted, draft)
           /\ draft.generation = Len(posted) + 1
           /\ Lossless(server, draft.nodes) /\ SelfConsistent(draft)
           /\ Len(posted) < MaxDrafts
<1> DEFINE draft == [nodes |-> d.nodes, op |-> d.op, root |-> d.root,
                     generation |-> Len(posted) + 1]
<1>1. draft \in Draft
  BY RolloutAssumption DEF RolloutTypeOK, Draft
<1>2. /\ posted' = Append(posted, draft) /\ SelfConsistent(draft)
      /\ Lossless(server, d.nodes) /\ Len(posted) < MaxDrafts
  BY DEF PostDraft
<1> QED  BY <1>1, <1>2

LEMMA PostedStep ==
  ASSUME RolloutTypeOK, PostedInv, [RolloutNext]_rolloutVars
  PROVE  PostedInv' /\ posted' \in Seq(Draft) /\ Len(posted') <= MaxDrafts
<1>0. posted \in Seq(Draft) /\ Len(posted) <= MaxDrafts
  BY DEF RolloutTypeOK
<1>1. ASSUME NEW d \in Drafts, PostDraft(d)
      PROVE  PostedInv' /\ posted' \in Seq(Draft) /\ Len(posted') <= MaxDrafts
  <2>1. PICK draft \in Draft :
          /\ posted' = Append(posted, draft)
          /\ draft.generation = Len(posted) + 1
          /\ Lossless(server, draft.nodes) /\ SelfConsistent(draft)
          /\ Len(posted) < MaxDrafts
    BY <1>1, NewDraft
  <2>2. server' = server
    BY <1>1 DEF PostDraft
  <2>3. PostedInv'
    BY <1>0, <2>1, <2>2 DEF PostedInv
  <2> QED  BY <1>0, <2>1, <2>3, RolloutAssumption
<1>2. ASSUME NEW fields \in ServerBuilds, UpgradeServer(fields)
      PROVE  PostedInv' /\ posted' = posted
  <2>1. posted' = posted /\ server' = fields /\ server \subseteq fields
    BY <1>2 DEF UpgradeServer
  <2>2. ASSUME NEW g \in DOMAIN posted PROVE Lossless(fields, posted[g].nodes)
    <3> DEFINE nodes == posted[g].nodes
    <3>1. nodes \in Seq(Node) /\ ParsedAll(server, nodes) = nodes
      <4>1. posted[g] \in Draft
        BY <1>0
      <4>2. Lossless(server, nodes)
        BY DEF PostedInv
      <4> QED  BY <4>1, <4>2 DEF Draft, Lossless
    <3> HIDE DEF nodes
    <3>2. ASSUME NEW i \in 1..Len(nodes) PROVE Parsed(fields, nodes[i]) = nodes[i]
      <4>1. nodes[i] \in Node /\ Parsed(server, nodes[i]) = nodes[i]
        BY <3>1, ParsedNodes
      <4>2. /\ nodes[i].fields \subseteq fields
            /\ nodes[i].pin # "none" => "edge_pin" \in fields
        BY <2>1, <4>1, ParsedNode
      <4> QED  BY <4>1, <4>2, ParsedNode
    <3>3. ParsedAll(fields, nodes) = nodes
      BY <3>1, <3>2, ParsedNodes
    <3> QED  BY <3>3 DEF Lossless, nodes
  <2> QED  BY <2>1, <2>2 DEF PostedInv
<1>3. CASE UNCHANGED <<server, posted>>
  BY <1>0, <1>3 DEF PostedInv
<1>4. \/ UNCHANGED <<server, posted>>
      \/ \E d \in Drafts : PostDraft(d)
      \/ \E f \in ServerBuilds : UpgradeServer(f)
  BY DEF RolloutNext, rolloutVars, Heartbeat, ServeV1, ServeV2, Serve, RotateKey, Evict,
         Fetch, UpgradeClient
<1> QED  BY <1>0, <1>1, <1>2, <1>3, <1>4

LEMMA ServedStep ==
  ASSUME RolloutInv, [RolloutNext]_rolloutVars
  PROVE  ServedInv'
<1>0. RolloutTypeOK /\ PostedInv /\ ServedInv
  BY DEF RolloutInv
<1>1. ASSUME NEW d \in Drafts, PostDraft(d)
      PROVE  ServedInv'
  <2>1. PICK draft \in Draft : posted' = Append(posted, draft)
    BY <1>0, <1>1, NewDraft
  <2>2. served' = served
    BY <1>1 DEF PostDraft
  <2> QED  BY <1>0, <2>1, <2>2, ServedStays DEF RolloutTypeOK, ServedInv
<1>2. ASSUME NEW route, NEW fields, Serve(route, fields),
             <<route, fields>> \in {<<"v1", FrozenFields>>, <<"v2", server>>}
      PROVE  ServedInv'
  <2> DEFINE draft == posted[Len(posted)]
             nodes == ClientView(draft.nodes, fields)
             added == [route |-> route, doc |-> Enveloped(nodes, draft, key)]
  <2>1. /\ posted # <<>> /\ PinsWellFormed(nodes)
        /\ served' = served \cup {added} /\ posted' = posted
    BY <1>2 DEF Serve
  <2>2. IsView(route, nodes, draft.nodes)
    BY <1>0, <1>2, <2>1, ServesViews
  <2>3. Len(posted) \in DOMAIN posted /\ draft.generation = Len(posted)
    BY <1>0, <2>1 DEF RolloutTypeOK, PostedInv
  <2>4. route \in {"v1", "v2"} /\ key \in Keys
    BY <1>0, <1>2 DEF RolloutTypeOK
  <2> HIDE DEF nodes
  <2>5. /\ added.route = route /\ added.doc.generation = Len(posted)
        /\ added.doc.key = key /\ added.doc.nodes = nodes
    BY <2>3 DEF Enveloped
  <2>6. IsServed(added, posted)
    BY <2>1, <2>2, <2>3, <2>4, <2>5 DEF IsServed
  <2> HIDE DEF added
  <2> QED  BY <1>0, <2>1, <2>6 DEF ServedInv
<1>3. ASSUME NEW s \in served, Evict(s)
      PROVE  ServedInv'
  BY <1>0, <1>3 DEF Evict, ServedInv
<1>4. CASE UNCHANGED <<served, posted>>
  BY <1>0, <1>4 DEF ServedInv
<1>5. \/ UNCHANGED <<served, posted>>
      \/ \E d \in Drafts : PostDraft(d)
      \/ Serve("v1", FrozenFields)
      \/ Serve("v2", server)
      \/ \E s \in served : Evict(s)
  BY DEF RolloutNext, rolloutVars, Heartbeat, ServeV1, ServeV2, RotateKey, Fetch,
         UpgradeServer, UpgradeClient
<1> QED  BY <1>1, <1>2, <1>3, <1>4, <1>5

\* What a client gets out of a document it accepts.
LEMMA FetchesWhole ==
  ASSUME RolloutInv, NEW c \in Clients, NEW s \in served, NEW form, Fetch(c, s, form)
  PROVE  /\ posted' = posted
         /\ \E h : dir' = [dir EXCEPT ![c] = h] /\ IsHeld(h, posted)
<1> DEFINE doc == [s.doc EXCEPT !.form = form]
           g   == s.doc.generation
<1>0. RolloutTypeOK /\ PostedInv /\ IsServed(s, posted)
  BY DEF RolloutInv, ServedInv
<1>1. /\ s.doc.nodes \in Seq(Node) /\ posted[g] \in Draft
      /\ s.doc.op = posted[g].op
      /\ s.doc.signature = Preimage(s.doc.nodes, s.doc.op, s.doc.root, g, s.doc.key)
      /\ \A i \in 1..Len(s.doc.nodes) : FullyVouched(s.doc.op, s.doc.nodes[i])
  BY <1>0, ServedIsVouched
<1>2. /\ g \in DOMAIN posted /\ s.route \in {"v1", "v2"}
      /\ s.doc = Enveloped(s.doc.nodes, posted[g], s.doc.key)
      /\ IsView(s.route, s.doc.nodes, posted[g].nodes)
  BY <1>0 DEF IsServed
<1>3. /\ doc.nodes = s.doc.nodes /\ doc.op = s.doc.op /\ doc.root = s.doc.root
      /\ doc.generation = g /\ doc.key = s.doc.key /\ doc.signature = s.doc.signature
  BY <1>2 DEF Enveloped
<1>4. /\ Verdict(build[c], doc) = "ok" /\ posted' = posted
      /\ dir' = [dir EXCEPT ![c] =
                   [route |-> s.route, got |-> Verified(build[c], doc)]]
  BY DEF Fetch
<1> HIDE DEF doc
<1>5. EnvelopeHolds(build[c], doc)
  BY <1>4 DEF Verdict
<1>6. Verified(build[c], doc) = [nodes |-> s.doc.nodes, op |-> s.doc.op,
                                 generation |-> g, dropped |-> 0]
  BY <1>1, <1>3, <1>5, VerifiedWhole
<1> DEFINE h == [route |-> s.route, got |-> Verified(build[c], doc)]
<1>7. /\ h.route = s.route /\ h.got.nodes = s.doc.nodes /\ h.got.op = s.doc.op
      /\ h.got.generation = g /\ h.got.dropped = 0
      /\ h \in [route : {"v1", "v2"}, got : Directory]
  <2>1. s.doc.op \in OpKeys /\ g \in Nat
    BY <1>0, <1>1, <1>2 DEF Draft, RolloutTypeOK
  <2> QED  BY <1>1, <1>2, <1>6, <2>1 DEF Directory
<1>8. dir' = [dir EXCEPT ![c] = h]
  BY <1>4
<1> HIDE DEF h, g
<1>9. IsHeld(h, posted)
  BY <1>1, <1>2, <1>7 DEF IsHeld
<1> QED  BY <1>4, <1>8, <1>9

LEMMA HeldStep ==
  ASSUME RolloutInv, [RolloutNext]_rolloutVars
  PROVE  /\ HeldInv'
         /\ dir' \in [Clients -> [route : {"v1", "v2"}, got : Directory] \cup {NoDirectory}]
<1>0. /\ RolloutTypeOK /\ HeldInv
      /\ dir \in [Clients -> [route : {"v1", "v2"}, got : Directory] \cup {NoDirectory}]
  BY DEF RolloutInv, RolloutTypeOK
<1>1. ASSUME NEW d \in Drafts, PostDraft(d)
      PROVE  HeldInv' /\ dir' = dir
  <2>1. PICK draft \in Draft : posted' = Append(posted, draft)
    BY <1>0, <1>1, NewDraft
  <2>2. dir' = dir
    BY <1>1 DEF PostDraft
  <2> QED  BY <1>0, <2>1, <2>2, ServedStays DEF RolloutTypeOK, HeldInv
<1>2. ASSUME NEW c \in Clients, NEW s \in served, NEW form, Fetch(c, s, form)
      PROVE  /\ HeldInv'
             /\ dir' \in [Clients -> [route : {"v1", "v2"}, got : Directory]
                                       \cup {NoDirectory}]
  <2>1. posted' = posted
    BY <1>2, FetchesWhole
  <2>2. PICK h : dir' = [dir EXCEPT ![c] = h] /\ IsHeld(h, posted)
    BY <1>2, FetchesWhole
  <2>3. h \in [route : {"v1", "v2"}, got : Directory]
    BY <2>2 DEF IsHeld
  <2> QED  BY <1>0, <2>1, <2>2, <2>3 DEF HeldInv
<1>3. ASSUME NEW c \in Clients, NEW b, UpgradeClient(c, b)
      PROVE  /\ HeldInv'
             /\ dir' \in [Clients -> [route : {"v1", "v2"}, got : Directory]
                                       \cup {NoDirectory}]
  BY <1>0, <1>3 DEF UpgradeClient, HeldInv
<1>4. CASE UNCHANGED <<dir, posted>>
  BY <1>0, <1>4 DEF HeldInv
<1>5. \/ UNCHANGED <<dir, posted>>
      \/ \E d \in Drafts : PostDraft(d)
      \/ \E c \in Clients, s \in served, f \in Forms : Fetch(c, s, f)
      \/ \E c \in Clients, b \in ClientBuilds : UpgradeClient(c, b)
  BY DEF RolloutNext, rolloutVars, Heartbeat, ServeV1, ServeV2, Serve, RotateKey, Evict,
         UpgradeServer
<1> QED  BY <1>0, <1>1, <1>2, <1>3, <1>4, <1>5

\* The rest of the types.
LEMMA RestStep ==
  ASSUME RolloutInv, [RolloutNext]_rolloutVars
  PROVE  /\ server' \in ServerBuilds /\ key' \in Keys /\ pin' \in Pins \cup {"none"}
         /\ build' \in [Clients -> ClientBuilds]
<1>0. RolloutTypeOK
  BY DEF RolloutInv
<1>1. CASE UNCHANGED <<server, key, pin, build>>
  BY <1>0, <1>1 DEF RolloutTypeOK
<1>2. ASSUME NEW c \in Clients, NEW b \in ClientBuilds, UpgradeClient(c, b)
      PROVE  /\ UNCHANGED <<server, key, pin>>
             /\ build' \in [Clients -> ClientBuilds]
  BY <1>0, <1>2 DEF UpgradeClient, RolloutTypeOK
<1>3. \/ UNCHANGED <<server, key, pin, build>>
      \/ \E c \in Clients, b \in ClientBuilds : UpgradeClient(c, b)
      \/ /\ UNCHANGED build
         /\ server' \in {server} \cup ServerBuilds /\ key' \in {key} \cup Keys
         /\ pin' \in {pin} \cup Pins
  BY DEF RolloutNext, rolloutVars, PostDraft, Heartbeat, ServeV1, ServeV2, Serve,
         RotateKey, Evict, UpgradeServer, Fetch
<1> QED  BY <1>0, <1>1, <1>2, <1>3 DEF RolloutTypeOK

\* The inductive invariant: what is posted is whole, and whatever is served,
\* cached or held is a view of the post it names.
THEOREM RolloutInvariance == RolloutSpec => []RolloutInv
<1>1. RolloutInv /\ [RolloutNext]_rolloutVars => RolloutInv'
  <2> SUFFICES ASSUME RolloutInv, [RolloutNext]_rolloutVars
               PROVE  RolloutInv'
    OBVIOUS
  <2>1. ServedInv' /\ HeldInv'
    BY ServedStep, HeldStep
  <2>2. PostedInv' /\ posted' \in Seq(Draft) /\ Len(posted') <= MaxDrafts
    BY PostedStep DEF RolloutInv
  <2>3. \A s \in served' : s.route \in {"v1", "v2"} /\ s.doc.form = "intact"
                           /\ s.doc.key \in Keys
    BY <2>1 DEF ServedInv, IsServed, Enveloped
  <2> QED  BY <2>1, <2>2, <2>3, RestStep, HeldStep DEF RolloutInv, RolloutTypeOK
<1> QED  BY RolloutInitially, <1>1, PTL DEF RolloutSpec

-----------------------------------------------------------------------------
(* The theorems *)

\* Every directory a client of any build accepts, from either route or a
\* cache, is the whole draft of its generation: the lossless gate of the
\* server and the envelope over a re-serialization leave no other way.
THEOREM DirectoriesAreWhole == RolloutSpec => []NothingLost
<1>1. RolloutInv => NothingLost
  <2> SUFFICES ASSUME RolloutInv, NEW c \in Clients, dir[c] # NoDirectory
               PROVE  LET got  == dir[c].got
                          sent == posted[got.generation]
                      IN  /\ got.dropped = 0
                          /\ got.op = sent.op
                          /\ Len(got.nodes) = Len(sent.nodes)
                          /\ \A i \in DOMAIN sent.nodes :
                               got.nodes[i] =
                                 [sent.nodes[i] EXCEPT
                                    !.exit_endpoint = FALSE,
                                    !.pin = got.nodes[i].pin,
                                    !.fields = RouteFields(dir[c].route, @)]
    BY Zenon DEF NothingLost
  <2>1. IsHeld(dir[c], posted)
    BY DEF RolloutInv, HeldInv
  <2> QED  BY <2>1, Zenon DEF IsHeld, IsView
<1> QED  BY <1>1, RolloutInvariance, PTL

\* No gate lets a directory through that a client which models its fields
\* and trusts its keys would refuse or thin out.
THEOREM ServedVerifies == RolloutSpec => []ServedIsReadable
<1>1. RolloutInv => ServedIsReadable
  <2> SUFFICES ASSUME RolloutInv, NEW s \in served, NEW b \in ClientBuilds,
                      Models(b, s.doc.nodes), PinAllows(b.pins, s.doc.key),
                      PinAllows(b.roots, s.doc.root)
               PROVE  Verdict(b, s.doc) = "ok" /\ Verified(b, s.doc).dropped = 0
    BY DEF ServedIsReadable
  <2> DEFINE nodes == s.doc.nodes
  <2>0. RolloutTypeOK /\ PostedInv /\ IsServed(s, posted)
    BY DEF RolloutInv, ServedInv
  <2>1. /\ nodes \in Seq(Node)
        /\ s.doc.signature = Preimage(nodes, s.doc.op, s.doc.root, s.doc.generation,
                                      s.doc.key)
        /\ \A i \in 1..Len(nodes) : FullyVouched(s.doc.op, nodes[i])
    BY <2>0, ServedIsVouched
  <2>2. s.doc.form = "intact" /\ PinsWellFormed(nodes)
    BY <2>0 DEF IsServed, Enveloped
  <2>3. ParsedAll(b.fields, nodes) = nodes
    <3>1. ASSUME NEW i \in 1..Len(nodes) PROVE Parsed(b.fields, nodes[i]) = nodes[i]
      <4>1. /\ nodes[i] \in Node /\ nodes[i].fields \subseteq b.fields
            /\ nodes[i].pin # "none" => "edge_pin" \in b.fields
        BY <2>1 DEF Models
      <4> QED  BY <4>1, ParsedNode
    <3> HIDE DEF nodes
    <3> QED  BY <2>1, <3>1, ParsedNodes
  <2>4. EnvelopeHolds(b, s.doc)
    BY <2>1, <2>3 DEF EnvelopeHolds
  <2>5. Verdict(b, s.doc) = "ok"
    BY <2>2, <2>3, <2>4 DEF Verdict
  <2>6. Verified(b, s.doc).dropped = 0
    BY <2>1, <2>4, VerifiedWhole
  <2> QED  BY <2>5, <2>6
<1> QED  BY <1>1, RolloutInvariance, PTL

\* A client seals for post-quantum, and goes without in-tunnel DNS, exactly
\* where the operational key has signed so, whatever was re-minted.
THEOREM DialsAsMinted == RolloutSpec => []DialMaterialIsBound
<1>1. RolloutInv => DialMaterialIsBound
  <2> SUFFICES ASSUME RolloutInv, NEW c \in Clients, dir[c] # NoDirectory,
                      NEW i \in DOMAIN dir[c].got.nodes
               PROVE  LET got == dir[c].got
                          n      == got.nodes[i]
                          minted == posted[got.generation].nodes[i].exit_sig
                      IN  /\ SurfacesMlKem(got.op, n) <=> minted.context = "pq"
                          /\ n.dns_off <=> minted.context \in {"v2", "pq"} /\ minted.dns
                          /\ {n.relay_by, n.exit_sig.by, n.attestation.by} = {got.op}
    BY Zenon DEF DialMaterialIsBound
  <2> DEFINE h    == dir[c]
             sent == posted[h.got.generation]
             n    == h.got.nodes[i]
             m    == sent.nodes[i]
  <2>1. IsHeld(h, posted)
    BY DEF RolloutInv, HeldInv
  <2>2. /\ h.route \in {"v1", "v2"} /\ h.got.op = sent.op
        /\ h.got.generation \in DOMAIN posted
        /\ IsView(h.route, h.got.nodes, sent.nodes)
    BY <2>1 DEF IsHeld
  <2>3. sent \in Draft /\ SelfConsistent(sent)
    BY <2>2 DEF RolloutInv, RolloutTypeOK, PostedInv
  <2>4. sent.nodes \in Seq(Node)
    BY <2>3 DEF Draft
  <2>5. h.got.nodes \in Seq(Node) /\ Len(h.got.nodes) = Len(sent.nodes)
    BY <2>2, Zenon DEF IsView
  <2> HIDE DEF h, sent
  <2>6. i \in DOMAIN sent.nodes /\ n \in Node /\ m \in Node
    BY <2>4, <2>5 DEF h
  <2>7. n = [m EXCEPT !.exit_endpoint = FALSE, !.pin = n.pin,
                      !.fields = RouteFields(h.route, @)]
    BY <2>2, <2>6, Zenon DEF IsView
  <2>8. FullyVouched(h.got.op, m)
    BY <2>2, <2>3, <2>6 DEF SelfConsistent
  <2> HIDE DEF n, m
  <2>9. FullyVouched(h.got.op, n)
    BY <2>2, <2>6, <2>7, <2>8, ViewIsVouched, Zenon
  <2>10. n.exit_sig = m.exit_sig
    BY <2>6, <2>7 DEF Node
  <2>11. /\ SurfacesMlKem(h.got.op, n) <=> m.exit_sig.context = "pq"
         /\ n.dns_off <=> m.exit_sig.context \in {"v2", "pq"} /\ m.exit_sig.dns
         /\ {n.relay_by, n.exit_sig.by, n.attestation.by} = {h.got.op}
    BY <2>6, <2>9, <2>10, VouchedIsBound
  <2> QED  BY <2>11, Zenon DEF n, m, h, sent
<1> QED  BY <1>1, RolloutInvariance, PTL
=============================================================================
