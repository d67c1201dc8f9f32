------------------------------- MODULE ExitFleet -------------------------------
(***************************************************************************)
(* The exit fleet under its control plane.  The operator signs releases    *)
(* offline; the API catalogues the manifests and hands them to exits in    *)
(* the answers to their heartbeats, the canary first; an exit verifies     *)
(* what it is handed, downloads, swaps its binary, reports where it stands *)
(* and crashes at any point of it                                          *)
(* (src/release.rs and the exit documents of src/dto.rs).                  *)
(*                                                                         *)
(* The API and the exit agent are other repositories: what they do with    *)
(* these documents is what the documents say they are for.  Two choices    *)
(* are this model's: an exit writes the generation it applied together     *)
(* with its boot slot, and the updater checks the expiry again before it   *)
(* swaps.                                                                  *)
(***************************************************************************)
EXTENDS ReleaseManifest, Sequences

CONSTANTS
  Exits, Canary,
  RamExits,      \* exits whose boot slot is not written with the swap
  Plans,         \* what the operator may sign, in order: [release, binary, expires_at]
  VersionOf,     \* what each binary answers to --version
  Pin, Foreign,  \* the offline key exits pin, and another
  None,
  MaxTime        \* bound on the clock

ASSUME FleetAssumption ==
  /\ Canary \in Exits /\ RamExits \subseteq Exits
  /\ Pin \in Signers /\ Foreign \in Signers \ {Pin}
  /\ VersionOf \in [Binaries -> Releases]
  /\ None \notin Releases
PlanStep == [release : Releases, binary : Binaries, expires_at : Nat]

ASSUME PlansAssumption ==
  /\ Plans \subseteq Seq(PlanStep)
  /\ \A p \in Plans :
       /\ Len(p) > 0
       /\ \A g, h \in DOMAIN p : p[g].release = p[h].release => p[g].binary = p[h].binary
ASSUME MaxTimeAssumption == MaxTime \in Nat

VARIABLES
  now,
  plan,     \* what the operator signs, one of Plans
  signed,   \* how many manifests of the plan are signed and catalogued
  offer,    \* the generation the rollout has for each exit, or 0
  running,  \* the binary each exit runs
  slot,     \* the binary each exit boots
  mark,     \* the generation each exit last applied
  agent,    \* [state, target]: each exit's update agent and the manifest it took
  row       \* what the API keeps of each exit

vars == <<now, plan, signed, offer, running, slot, mark, agent, row>>

\* `ExitUpdateState`; a reader that does not know a state reads "unknown".
ExitUpdateStates ==
  {"idle", "staging", "staged", "swapping", "applied", "failed", "persist_pending"}

IdleAgent == [state |-> "idle", target |-> None]

\* A generation's manifest, made with the offline key.
Manifest(g) ==
  SignRelease(RELEASE_MANIFEST_VERSION, plan[g].release, plan[g].binary, g,
              plan[g].expires_at, Pin)

EmptyRow == [version |-> None, state |-> "unknown"]

Init ==
  /\ now = 0
  /\ plan \in Plans
  /\ signed = 1
  /\ offer = [e \in Exits |-> 0]
  /\ running = [e \in Exits |-> plan[1].binary]
  /\ slot = running
  /\ mark = [e \in Exits |-> 1]
  /\ agent = [e \in Exits |-> IdleAgent]
  /\ row = [e \in Exits |-> EmptyRow]

-----------------------------------------------------------------------------
(* The operator and the rollout *)

(***************************************************************************)
(* The next manifest: signed offline, posted, verified against the pin and *)
(* catalogued with its binary.                                             *)
(***************************************************************************)
CreateRelease ==
  /\ signed < Len(plan)
  /\ VerifyRelease(Manifest(signed + 1), Pin) = "ok"
  /\ signed' = signed + 1
  /\ UNCHANGED <<now, plan, offer, running, slot, mark, agent, row>>

CreateRollout(g) ==
  /\ g \in 1..signed
  /\ offer' = [e \in Exits |-> IF e = Canary THEN g ELSE 0]
  /\ UNCHANGED <<now, plan, signed, running, slot, mark, agent, row>>

\* The canary's version taken for its success.
SlipWidensOnVersion ==
  /\ offer[Canary] # 0
  /\ row[Canary].version \in Releases
  /\ row[Canary].state # "failed"
  /\ offer' = [e \in Exits |-> offer[Canary]]
  /\ UNCHANGED <<now, plan, signed, running, slot, mark, agent, row>>

\* The rest follow once the canary reports the release, applied.  After a
\* reboot an agent that had applied it is idle.
WidenRollout ==
  /\ offer[Canary] # 0
  /\ row[Canary].state \in {"idle", "applied"}
  /\ row[Canary].version = plan[offer[Canary]].release
  /\ offer' = [e \in Exits |-> offer[Canary]]
  /\ UNCHANGED <<now, plan, signed, running, slot, mark, agent, row>>

-----------------------------------------------------------------------------
(* Heartbeats *)

\* `RegisterExitRequest`: what runs, and how far its update agent is;
\* the API keeps the live fields as they come.
Request(e) == [version |-> VersionOf[running[e]], state |-> agent[e].state]

(***************************************************************************)
(* What may reach the exit for the manifest it is offered: the manifest,   *)
(* a damaged or edited copy of it, or one made with another key.           *)
(***************************************************************************)
Delivered(m) ==
  {m, [m EXCEPT !.form = "not_json"], [m EXCEPT !.version = 2],
   [m EXCEPT !.generation = Len(plan) + 1], [m EXCEPT !.expires_at = MaxTime + 1],
   SignRelease(m.version, m.release, m.binary, Len(plan) + 1, m.expires_at, Foreign)}

\* A failed update is never tried again.
SlipFailedIsFinal(e) == agent[e].state \in {"idle", "applied"}

Resting(e) == agent[e].state \in {"idle", "applied", "failed"}

\* What the exit must check beyond the signature.
Accepts(e, m) ==
  /\ Resting(e)
  /\ VerifyRelease(m, Pin) = "ok"
  /\ m.generation > mark[e]
  /\ ~IsExpired(m, now)

\* The request arrives; the answer is lost, or carries no update the exit takes.
Register(e) ==
  /\ row' = [row EXCEPT ![e] = Request(e)]
  /\ UNCHANGED <<now, plan, signed, offer, running, slot, mark, agent>>

\* The request arrives and the answer brings an update.
RegisterAndUpdate(e) ==
  /\ offer[e] # 0
  /\ row' = [row EXCEPT ![e] = Request(e)]
  /\ \E m \in Delivered(Manifest(offer[e])) :
       /\ Accepts(e, m)
       /\ agent' = [agent EXCEPT ![e] = [state |-> "staging", target |-> m]]
  /\ UNCHANGED <<now, plan, signed, offer, running, slot, mark>>

-----------------------------------------------------------------------------
(* The update agent *)

\* The download is staged if its hash and size are the manifest's.
Stage(e, binary) ==
  /\ agent[e].state = "staging"
  /\ agent' = [agent EXCEPT ![e].state =
                 IF binary = agent[e].target.binary THEN "staged" ELSE "failed"]
  /\ UNCHANGED <<now, plan, signed, offer, running, slot, mark, row>>

\* The privileged updater installs the binary and restarts the service.
Swap(e) ==
  /\ agent[e].state = "staged"
  /\ ~IsExpired(agent[e].target, now)
  /\ running' = [running EXCEPT ![e] = agent[e].target.binary]
  /\ IF e \in RamExits
     THEN UNCHANGED <<slot, mark>>
     ELSE /\ slot' = [slot EXCEPT ![e] = agent[e].target.binary]
          /\ mark' = [mark EXCEPT ![e] = agent[e].target.generation]
  /\ agent' = [agent EXCEPT ![e].state = "swapping"]
  /\ UNCHANGED <<now, plan, signed, offer, row>>

GiveUp(e) ==
  /\ agent[e].state = "staged"
  /\ IsExpired(agent[e].target, now)
  /\ agent' = [agent EXCEPT ![e].state = "failed"]
  /\ UNCHANGED <<now, plan, signed, offer, running, slot, mark, row>>

\* The running binary is matched with the release.
Confirm(e) ==
  /\ agent[e].state = "swapping"
  /\ agent' = [agent EXCEPT ![e].state =
                 IF VersionOf[running[e]] # agent[e].target.release THEN "failed"
                 ELSE IF e \in RamExits THEN "persist_pending"
                 ELSE "applied"]
  /\ UNCHANGED <<now, plan, signed, offer, running, slot, mark, row>>

Persist(e) ==
  /\ agent[e].state = "persist_pending"
  /\ slot' = [slot EXCEPT ![e] = running[e]]
  /\ mark' = [mark EXCEPT ![e] = agent[e].target.generation]
  /\ agent' = [agent EXCEPT ![e].state = "applied"]
  /\ UNCHANGED <<now, plan, signed, offer, running, row>>

\* The slot boots; what the agent was doing is forgotten.
Reboot(e) ==
  /\ running' = [running EXCEPT ![e] = slot[e]]
  /\ agent' = [agent EXCEPT ![e] = IdleAgent]
  /\ UNCHANGED <<now, plan, signed, offer, slot, mark, row>>

Tick ==
  /\ now < MaxTime
  /\ now' = now + 1
  /\ UNCHANGED <<plan, signed, offer, running, slot, mark, agent, row>>

Next ==
  \/ CreateRelease
  \/ \E g \in 1..signed : CreateRollout(g)
  \/ WidenRollout
  \/ \E e \in Exits :
       \/ Register(e)
       \/ RegisterAndUpdate(e)
       \/ Swap(e)
       \/ GiveUp(e)
       \/ Confirm(e)
       \/ Persist(e)
       \/ Reboot(e)
       \/ \E binary \in Binaries : Stage(e, binary)
  \/ Tick

Spec == Init /\ [][Next]_vars

(***************************************************************************)
(* The exits keep heartbeating and the agents keep working; a download is  *)
(* retried until the right bytes come.                                     *)
(***************************************************************************)
StageRight(e) == agent[e].state = "staging" /\ Stage(e, agent[e].target.binary)

FairSpec ==
  /\ Spec
  /\ WF_vars(WidenRollout)
  /\ \A e \in Exits :
       /\ WF_vars(Register(e))
       /\ WF_vars(RegisterAndUpdate(e))
       /\ WF_vars(Swap(e) \/ Confirm(e) \/ Persist(e))
       /\ SF_vars(StageRight(e))

-----------------------------------------------------------------------------
(* Properties *)

TypeOK ==
  /\ now \in 0..MaxTime
  /\ plan \in Plans /\ signed \in DOMAIN plan
  /\ offer \in [Exits -> 0..signed]
  /\ running \in [Exits -> Binaries] /\ slot \in [Exits -> Binaries]
  /\ mark \in [Exits -> Nat]
  /\ \A e \in Exits :
       /\ agent[e].state \in ExitUpdateStates
       /\ row[e].state \in ExitUpdateStates \cup {"unknown"}

(***************************************************************************)
(* An exit boots the very binary the offline key signed under the          *)
(* generation its high-water mark names, whatever storage or transport     *)
(* made of the manifests and wherever it crashed; and what it runs without *)
(* having persisted it is signed as well.                                  *)
(***************************************************************************)
BootsWhatWasSigned ==
  \A e \in Exits :
    /\ mark[e] \in 1..signed
    /\ slot[e] = plan[mark[e]].binary
    /\ running[e] # slot[e] => \E g \in mark[e]..signed : running[e] = plan[g].binary

(***************************************************************************)
(* Rollback and freeze: a swap only ever goes to a generation above the    *)
(* one the exit booted from, and to a manifest that is still good at that  *)
(* moment, however long the download took; the mark never falls.           *)
(***************************************************************************)
NeverOlder ==
  [][\A e \in Exits :
       /\ mark'[e] >= mark[e]
       /\ agent[e].state = "staged" /\ agent'[e].state = "swapping" =>
            \E g \in (mark[e] + 1)..signed :
              /\ running'[e] = plan[g].binary
              /\ now < plan[g].expires_at]_vars

(***************************************************************************)
(* A release whose binary is not what its manifest says stays on the       *)
(* canary: every other exit runs a binary that answers to a release it was *)
(* signed as.                                                              *)
(***************************************************************************)
Sound(g) == VersionOf[plan[g].binary] = plan[g].release

Mislabelled(binary) == ~\E g \in 1..signed : plan[g].binary = binary /\ Sound(g)

BadReleaseStopsAtCanary ==
  \A e \in Exits \ {Canary} : ~Mislabelled(running[e])

(***************************************************************************)
(* When the operator rests, the exits stay up and the manifest does not    *)
(* expire, a rollout of a sound release above every mark reaches the whole *)
(* fleet, through lost answers, damaged manifests and bad downloads.       *)
(***************************************************************************)
Quiet ==
  /\ UNCHANGED <<now, signed>>
  /\ \A e \in Exits :
       /\ offer[e] # 0 => offer'[e] = offer[e]
       /\ agent[e].state # "idle" => agent'[e].state # "idle"

RolloutIsSound ==
  \E g \in 1..signed :
    /\ g = offer[Canary] /\ g = signed
    /\ Sound(g)
    /\ now < plan[g].expires_at

FleetRunsIt ==
  \E g \in 1..signed :
    offer[Canary] = g /\ \A e \in Exits : running[e] = plan[g].binary

Converges ==
  <>[]RolloutIsSound /\ <>[][Quiet]_vars => <>[]FleetRunsIt
=============================================================================
