---------------------------- MODULE ExitFleetProofs ----------------------------
(***************************************************************************)
(* Proofs about ExitFleet, for every plan, fleet, clock and set of keys:   *)
(* an exit boots what was signed under its mark, and never goes back.  And *)
(* about HwQual, by which an exit is judged fit to join it.                *)
(***************************************************************************)
EXTENDS ExitFleet, HwQual, TLAPS

Genuine(t) ==
  /\ t.generation \in 1..signed
  /\ t.binary = plan[t.generation].binary
  /\ t.expires_at = plan[t.generation].expires_at

(***************************************************************************)
(* What is true of one exit.  A manifest in hand is genuine and, until its *)
(* generation is the mark, above it; between the swap and the report, and  *)
(* until it is persisted, what runs is its binary.                         *)
(***************************************************************************)
AgentOK(e) ==
  /\ agent[e] = [state |-> agent[e].state, target |-> agent[e].target]
  /\ agent[e].state \in ExitUpdateStates
  /\ agent[e].state \in {"staging", "staged", "swapping", "persist_pending"}
       => Genuine(agent[e].target)
  /\ agent[e].state \in {"staging", "staged", "persist_pending"}
       => agent[e].target.generation > mark[e]
  /\ agent[e].state = "swapping" /\ e \in RamExits => agent[e].target.generation > mark[e]
  /\ agent[e].state \in {"swapping", "persist_pending"}
       => running[e] = agent[e].target.binary

DiskOK(e) ==
  /\ mark[e] \in 1..signed
  /\ slot[e] = plan[mark[e]].binary
  /\ running[e] # slot[e] => \E g \in mark[e]..signed : running[e] = plan[g].binary

RowOK(e) ==
  row[e].state \in ExitUpdateStates \cup {"unknown"}

Shapes ==
  /\ now \in 0..MaxTime
  /\ plan \in Plans /\ signed \in DOMAIN plan
  /\ offer \in [Exits -> 0..signed]
  /\ running \in [Exits -> Binaries] /\ slot \in [Exits -> Binaries]
  /\ mark \in [Exits -> Nat]
  /\ agent = [e \in Exits |-> agent[e]]
  /\ row = [e \in Exits |-> row[e]]

Inv == Shapes /\ (\A e \in Exits : AgentOK(e) /\ DiskOK(e)) /\ (\A e \in Exits : RowOK(e))

-----------------------------------------------------------------------------
(* Manifests *)

\* A plan is a sequence of records, signed up to a place in it.
LEMMA PlanFacts ==
  ASSUME Shapes
  PROVE  /\ Len(plan) \in Nat /\ signed \in 1..Len(plan)
         /\ \A g \in 1..Len(plan) : plan[g] \in PlanStep
<1>1. plan \in Seq(PlanStep) /\ signed \in DOMAIN plan
  BY PlansAssumption DEF Shapes
<1>2. DOMAIN plan = 1..Len(plan) /\ Len(plan) \in Nat
  BY <1>1
<1>3. ASSUME NEW g \in 1..Len(plan) PROVE plan[g] \in PlanStep
  BY <1>1, <1>3
<1> QED  BY <1>1, <1>2, <1>3

\* A manifest that verifies says what the holder of the pinned key signed.
LEMMA VerifiedIsSigned ==
  ASSUME NEW m, VerifyRelease(m, Pin) = "ok"
  PROVE  m.signer = Pin /\ m.signature = SignPreimage(Preimage(m), Pin)
  BY DEF VerifyRelease, VerifyPreimage

\* The signed preimage of a generation, and what can be read from it.
LEMMA ManifestFields ==
  ASSUME NEW g
  PROVE  /\ Manifest(g).signature.over.generation = g
         /\ Manifest(g).signature.over.binary = plan[g].binary
         /\ Manifest(g).signature.over.expires_at = plan[g].expires_at
         /\ Manifest(g).signature.over.signer = Pin
         /\ DOMAIN Manifest(g)
              = {"form", "version", "release", "binary", "generation", "expires_at",
                 "signer", "signature"}
  BY DEF Manifest, SignRelease, SignPreimage, Preimage

\* Whatever reaches an exit, what it verifies is the offered manifest's.
LEMMA DeliveredIsGenuine ==
  ASSUME Shapes, NEW g \in 1..signed, NEW m \in Delivered(Manifest(g)),
         VerifyRelease(m, Pin) = "ok"
  PROVE  Genuine(m) /\ m.generation = g
<1>1. m.signer = Pin /\ m.signature = SignPreimage(Preimage(m), Pin)
  BY VerifiedIsSigned
<1>2. m.signature = Manifest(g).signature
  <2>1. m # SignRelease(Manifest(g).version, Manifest(g).release, Manifest(g).binary,
                        Len(plan) + 1, Manifest(g).expires_at, Foreign)
    BY <1>1, FleetAssumption DEF SignRelease
  <2> QED  BY <2>1, ManifestFields DEF Delivered
<1>3. Preimage(m) = m.signature.over
  BY <1>1 DEF SignPreimage
<1>4. /\ m.generation = m.signature.over.generation
      /\ m.binary = m.signature.over.binary
      /\ m.expires_at = m.signature.over.expires_at
  BY <1>3 DEF Preimage
<1> QED  BY <1>2, <1>4, ManifestFields DEF Genuine

-----------------------------------------------------------------------------
(* Types and shapes *)

LEMMA ShapesInit == Init => Shapes
<1> SUFFICES ASSUME Init PROVE Shapes
  OBVIOUS
<1>1. plan \in Plans /\ signed = 1
  BY DEF Init
<1>2. plan \in Seq(PlanStep) /\ Len(plan) > 0
  BY <1>1, PlansAssumption
<1>3. DOMAIN plan = 1..Len(plan) /\ Len(plan) \in Nat
  BY <1>2
<1>4. 1 \in DOMAIN plan /\ plan[1] \in PlanStep
  BY <1>2, <1>3
<1> QED  BY <1>1, <1>4, MaxTimeAssumption DEF Init, Shapes, IdleAgent, PlanStep

LEMMA ShapesStep == Shapes /\ (\A e \in Exits : AgentOK(e)) /\ [Next]_vars => Shapes'
<1> SUFFICES ASSUME Shapes, \A e \in Exits : AgentOK(e), [Next]_vars PROVE Shapes'
  OBVIOUS
<1>0. /\ Len(plan) \in Nat /\ signed \in 1..Len(plan)
      /\ \A g \in 1..Len(plan) :
           plan[g] \in PlanStep
  BY PlanFacts
<1>1. CASE CreateRelease
  BY <1>0, <1>1 DEF CreateRelease, Shapes
<1>2. CASE \E g \in 1..signed : CreateRollout(g)
  BY <1>0, <1>2 DEF CreateRollout, Shapes
<1>3. CASE WidenRollout
  BY <1>3, FleetAssumption DEF WidenRollout, Shapes
<1>4. ASSUME NEW e \in Exits, Register(e) PROVE Shapes'
  BY <1>4 DEF Register, Shapes
<1>5. ASSUME NEW e \in Exits, RegisterAndUpdate(e) PROVE Shapes'
  BY <1>5 DEF RegisterAndUpdate, Shapes
<1>6. ASSUME NEW e \in Exits, Swap(e) PROVE Shapes'
  <2>1. Genuine(agent[e].target)
    BY <1>6 DEF Swap, AgentOK
  <2>2. agent[e].target.binary \in Binaries /\ agent[e].target.generation \in Nat
    BY <2>1, <1>0 DEF Genuine, PlanStep
  <2> QED  BY <1>6, <2>2 DEF Swap, Shapes
<1>7. ASSUME NEW e \in Exits, GiveUp(e) \/ Confirm(e) PROVE Shapes'
  BY <1>7 DEF GiveUp, Confirm, Shapes
<1>8. ASSUME NEW e \in Exits, Persist(e) PROVE Shapes'
  <2>1. Genuine(agent[e].target)
    BY <1>8 DEF Persist, AgentOK
  <2>2. agent[e].target.generation \in Nat
    BY <2>1, <1>0 DEF Genuine, PlanStep
  <2> QED  BY <1>8, <2>2 DEF Persist, Shapes
<1>9. ASSUME NEW e \in Exits, Reboot(e) PROVE Shapes'
  BY <1>9 DEF Reboot, Shapes
<1>10. ASSUME NEW e \in Exits, NEW binary \in Binaries, Stage(e, binary) PROVE Shapes'
  BY <1>10 DEF Stage, Shapes
<1>11. CASE Tick
  BY <1>11, MaxTimeAssumption DEF Tick, Shapes
<1>12. CASE UNCHANGED vars
  BY <1>12 DEF vars, Shapes
<1> QED  BY <1>1, <1>2, <1>3, <1>4, <1>5, <1>6, <1>7, <1>8, <1>9, <1>10, <1>11, <1>12 DEF Next

-----------------------------------------------------------------------------
(* The agents and their disks *)

\* An exit no step touches keeps what is true of it while the plan grows.
LEMMA Untouched ==
  ASSUME Shapes, Shapes', NEW e \in Exits, AgentOK(e), DiskOK(e),
         plan' = plan, signed' \in {signed, signed + 1},
         agent'[e] = agent[e], running'[e] = running[e],
         slot'[e] = slot[e], mark'[e] = mark[e]
  PROVE  AgentOK(e)' /\ DiskOK(e)'
<1>1. signed \in Nat /\ 1..signed \subseteq 1..signed' /\ mark[e]..signed \subseteq mark[e]..signed'
  BY PlanFacts DEF Shapes
<1>2. ASSUME NEW t, Genuine(t) PROVE Genuine(t)'
  BY <1>1, <1>2 DEF Genuine
<1>3. AgentOK(e)'
  BY <1>2 DEF AgentOK
<1>4. DiskOK(e)'
  BY <1>1 DEF DiskOK
<1> QED  BY <1>3, <1>4

LEMMA AgentsInit == Init => \A e \in Exits : AgentOK(e) /\ DiskOK(e)
  BY DEF Init, AgentOK, DiskOK, IdleAgent, ExitUpdateStates

LEMMA AgentsStep ==
  ASSUME Inv, [Next]_vars, Shapes'
  PROVE  \A e \in Exits : AgentOK(e)' /\ DiskOK(e)'
<1> USE DEF Inv
<1>0. signed \in Nat /\ signed >= 1 /\ \A e \in Exits : mark[e] \in Nat
  BY PlanFacts DEF Shapes
<1>1. CASE CreateRelease
  BY <1>1, Untouched DEF CreateRelease
<1>2. CASE \E g \in 1..signed : CreateRollout(g)
  BY <1>2, Untouched DEF CreateRollout
<1>3. CASE WidenRollout
  BY <1>3, Untouched DEF WidenRollout
<1>4. CASE Tick
  BY <1>4, Untouched DEF Tick
<1>5. CASE UNCHANGED vars
  BY <1>5, Untouched DEF vars
<1>6. ASSUME NEW e \in Exits, Register(e)
      PROVE  \A f \in Exits : AgentOK(f)' /\ DiskOK(f)'
  BY <1>6, Untouched DEF Register
<1>7. ASSUME NEW e \in Exits, RegisterAndUpdate(e)
      PROVE  \A f \in Exits : AgentOK(f)' /\ DiskOK(f)'
  <2>1. offer[e] \in 1..signed
    BY <1>7, <1>0 DEF RegisterAndUpdate, Shapes
  <2>2. PICK m \in Delivered(Manifest(offer[e])) :
          /\ Accepts(e, m)
          /\ agent' = [agent EXCEPT ![e] = [state |-> "staging", target |-> m]]
    BY <1>7 DEF RegisterAndUpdate
  <2>3. Genuine(m) /\ m.generation > mark[e]
    BY <2>1, <2>2, DeliveredIsGenuine DEF Accepts
  <2>4. agent'[e] = [state |-> "staging", target |-> m]
    BY <2>2 DEF Shapes
  <2>5. UNCHANGED <<plan, signed, running, slot, mark>>
    BY <1>7 DEF RegisterAndUpdate
  <2>6. AgentOK(e)'
    BY <2>3, <2>4, <2>5 DEF AgentOK, Genuine, ExitUpdateStates
  <2>61. DiskOK(e)'
    BY <2>5 DEF DiskOK
  <2>7. ASSUME NEW f \in Exits, f # e PROVE AgentOK(f)' /\ DiskOK(f)'
    BY <2>2, <2>5, <2>7, Untouched DEF Shapes
  <2> QED  BY <2>6, <2>61, <2>7
<1>8. ASSUME NEW e \in Exits, NEW binary \in Binaries, Stage(e, binary)
      PROVE  \A f \in Exits : AgentOK(f)' /\ DiskOK(f)'
  <2>a. agent'[e].state \in {"staged", "failed"} /\ agent'[e].target = agent[e].target
    BY <1>8 DEF Stage, Shapes, AgentOK
  <2>b. agent'[e] = [state |-> agent'[e].state, target |-> agent'[e].target]
    BY <1>8 DEF Stage, Shapes, AgentOK
  <2>c. UNCHANGED <<plan, signed, running, slot, mark>>
    BY <1>8 DEF Stage
  <2>d. agent[e].state \in {"staging", "staged"} /\ AgentOK(e) /\ DiskOK(e)
    BY <1>8 DEF Stage
  <2>e. AgentOK(e)'
    BY <2>a, <2>b, <2>c, <2>d DEF AgentOK, Genuine, ExitUpdateStates
  <2>f. DiskOK(e)'
    BY <2>c, <2>d DEF DiskOK
  <2>1. AgentOK(e)' /\ DiskOK(e)'
    BY <2>e, <2>f
  <2>2. ASSUME NEW f \in Exits, f # e PROVE AgentOK(f)' /\ DiskOK(f)'
    BY <1>8, <2>2, Untouched DEF Stage, Shapes
  <2> QED  BY <2>1, <2>2
<1>9. ASSUME NEW e \in Exits, Swap(e)
      PROVE  \A f \in Exits : AgentOK(f)' /\ DiskOK(f)'
  <2>1. /\ Genuine(agent[e].target) /\ agent[e].target.generation > mark[e]
        /\ agent'[e].state = "swapping" /\ agent'[e].target = agent[e].target
        /\ running'[e] = agent[e].target.binary
        /\ UNCHANGED <<plan, signed>>
    BY <1>9 DEF Swap, Shapes, AgentOK
  <2>2. AgentOK(e)'
    BY <1>9, <2>1 DEF Swap, Shapes, AgentOK, Genuine, ExitUpdateStates
  <2>3. ASSUME e \in RamExits PROVE DiskOK(e)'
    <3>1. UNCHANGED <<slot, mark>>
      BY <1>9, <2>3 DEF Swap
    <3>2. agent[e].target.generation \in mark[e]..signed
      BY <2>1, <1>0 DEF Genuine
    <3> QED  BY <2>1, <3>1, <3>2 DEF DiskOK, Genuine
  <2>4. ASSUME e \notin RamExits PROVE DiskOK(e)'
    <3>1. slot'[e] = agent[e].target.binary /\ mark'[e] = agent[e].target.generation
      BY <1>9, <2>4 DEF Swap, Shapes
    <3> QED  BY <2>1, <3>1 DEF DiskOK, Genuine
  <2>5. ASSUME NEW f \in Exits, f # e PROVE AgentOK(f)' /\ DiskOK(f)'
    <3>1. slot'[f] = slot[f] /\ mark'[f] = mark[f]
      BY <1>9, <2>5 DEF Swap, Shapes
    <3> QED  BY <1>9, <2>5, <3>1, Untouched DEF Swap, Shapes
  <2> QED  BY <2>2, <2>3, <2>4, <2>5
<1>10. ASSUME NEW e \in Exits, GiveUp(e)
       PROVE  \A f \in Exits : AgentOK(f)' /\ DiskOK(f)'
  <2>a. agent'[e].state = "failed" /\ agent'[e].target = agent[e].target
    BY <1>10 DEF GiveUp, Shapes, AgentOK
  <2>b. agent'[e] = [state |-> agent'[e].state, target |-> agent'[e].target]
    BY <1>10 DEF GiveUp, Shapes, AgentOK
  <2>c. UNCHANGED <<plan, signed, running, slot, mark>>
    BY <1>10 DEF GiveUp
  <2>d. agent[e].state \in {"staging", "staged"} /\ AgentOK(e) /\ DiskOK(e)
    BY <1>10 DEF GiveUp
  <2>e. AgentOK(e)'
    BY <2>a, <2>b, <2>c, <2>d DEF AgentOK, Genuine, ExitUpdateStates
  <2>f. DiskOK(e)'
    BY <2>c, <2>d DEF DiskOK
  <2>1. AgentOK(e)' /\ DiskOK(e)'
    BY <2>e, <2>f
  <2>2. ASSUME NEW f \in Exits, f # e PROVE AgentOK(f)' /\ DiskOK(f)'
    BY <1>10, <2>2, Untouched DEF GiveUp, Shapes
  <2> QED  BY <2>1, <2>2
<1>11. ASSUME NEW e \in Exits, Confirm(e)
       PROVE  \A f \in Exits : AgentOK(f)' /\ DiskOK(f)'
  <2>a. /\ agent'[e].state \in {"failed", "persist_pending", "applied"}
        /\ agent'[e].state = "persist_pending" => e \in RamExits
        /\ agent'[e].target = agent[e].target
    BY <1>11 DEF Confirm, Shapes, AgentOK
  <2>b. agent'[e] = [state |-> agent'[e].state, target |-> agent'[e].target]
    BY <1>11 DEF Confirm, Shapes, AgentOK
  <2>c. UNCHANGED <<plan, signed, running, slot, mark>>
    BY <1>11 DEF Confirm
  <2>d. agent[e].state = "swapping" /\ AgentOK(e) /\ DiskOK(e)
    BY <1>11 DEF Confirm
  <2>e. AgentOK(e)'
    BY <2>a, <2>b, <2>c, <2>d DEF AgentOK, Genuine, ExitUpdateStates
  <2>f. DiskOK(e)'
    BY <2>c, <2>d DEF DiskOK
  <2>1. AgentOK(e)' /\ DiskOK(e)'
    BY <2>e, <2>f
  <2>2. ASSUME NEW f \in Exits, f # e PROVE AgentOK(f)' /\ DiskOK(f)'
    BY <1>11, <2>2, Untouched DEF Confirm, Shapes
  <2> QED  BY <2>1, <2>2
<1>12. ASSUME NEW e \in Exits, Persist(e)
       PROVE  \A f \in Exits : AgentOK(f)' /\ DiskOK(f)'
  <2>a. agent'[e].state = "applied" /\ agent'[e].target = agent[e].target
    BY <1>12 DEF Persist, Shapes, AgentOK
  <2>b. agent'[e] = [state |-> agent'[e].state, target |-> agent'[e].target]
    BY <1>12 DEF Persist, Shapes, AgentOK
  <2>c. /\ UNCHANGED <<plan, signed, running>>
        /\ slot'[e] = running[e] /\ mark'[e] = agent[e].target.generation
    BY <1>12 DEF Persist, Shapes
  <2>d. agent[e].state = "persist_pending" /\ AgentOK(e)
    BY <1>12 DEF Persist
  <2>e. AgentOK(e)'
    BY <2>a, <2>b DEF AgentOK, ExitUpdateStates
  <2>f. DiskOK(e)'
    BY <2>c, <2>d DEF AgentOK, DiskOK, Genuine
  <2>1. AgentOK(e)' /\ DiskOK(e)'
    BY <2>e, <2>f
  <2>2. ASSUME NEW f \in Exits, f # e PROVE AgentOK(f)' /\ DiskOK(f)'
    BY <1>12, <2>2, Untouched DEF Persist, Shapes
  <2> QED  BY <2>1, <2>2
<1>13. ASSUME NEW e \in Exits, Reboot(e)
       PROVE  \A f \in Exits : AgentOK(f)' /\ DiskOK(f)'
  <2>1. AgentOK(e)' /\ DiskOK(e)'
    BY <1>13 DEF Reboot, Shapes, AgentOK, DiskOK, IdleAgent, ExitUpdateStates
  <2>2. ASSUME NEW f \in Exits, f # e PROVE AgentOK(f)' /\ DiskOK(f)'
    BY <1>13, <2>2, Untouched DEF Reboot, Shapes
  <2> QED  BY <2>1, <2>2
<1> QED  BY <1>1, <1>2, <1>3, <1>4, <1>5, <1>6, <1>7, <1>8, <1>9, <1>10, <1>11, <1>12, <1>13
         DEF Next

LEMMA RowsStep ==
  ASSUME Inv, [Next]_vars
  PROVE  \A e \in Exits : RowOK(e)'
<1> USE DEF Inv
<1>1. CASE UNCHANGED row
  BY <1>1 DEF RowOK
<1>2. ASSUME NEW e \in Exits, row' = [row EXCEPT ![e] = Request(e)]
      PROVE  \A f \in Exits : RowOK(f)'
  <2>1. row'[e] = Request(e) /\ \A f \in Exits \ {e} : row'[f] = row[f]
    BY <1>2 DEF Shapes
  <2>2. agent[e].state \in ExitUpdateStates
    BY DEF AgentOK
  <2> QED  BY <2>1, <2>2 DEF RowOK, Request
<1>3. CASE UNCHANGED vars
  BY <1>1, <1>3 DEF vars
<1>4. CASE \E e \in Exits : Register(e) \/ RegisterAndUpdate(e)
  BY <1>2, <1>4 DEF Register, RegisterAndUpdate
<1> QED
  BY <1>1, <1>3, <1>4
     DEF Next, CreateRelease, CreateRollout, WidenRollout, Tick, Swap, GiveUp, Confirm,
         Persist, Reboot, Stage

-----------------------------------------------------------------------------
(* Theorems *)

LEMMA Invariant == Spec => []Inv
<1>1. Init => Inv
  BY ShapesInit, AgentsInit DEF Inv, Init, RowOK, EmptyRow
<1>2. Inv /\ [Next]_vars => Inv'
  <2> SUFFICES ASSUME Inv, [Next]_vars PROVE Inv'
    OBVIOUS
  <2>1. Shapes'
    BY ShapesStep DEF Inv
  <2> QED  BY <2>1, AgentsStep, RowsStep DEF Inv
<1> QED  BY <1>1, <1>2, PTL DEF Spec

\* The fleet keeps its types, whatever is signed and delivered.
THEOREM TypeCorrect == Spec => []TypeOK
<1>1. Inv => TypeOK
  BY DEF Inv, Shapes, AgentOK, RowOK, TypeOK
<1> QED  BY <1>1, Invariant, PTL

(***************************************************************************)
(* Through crashes, edited manifests and foreign signatures, an exit boots *)
(* what the offline key signed under the generation it remembers.          *)
(***************************************************************************)
THEOREM BootsSigned == Spec => []BootsWhatWasSigned
<1>1. Inv => BootsWhatWasSigned
  BY DEF Inv, DiskOK, BootsWhatWasSigned
<1> QED  BY <1>1, Invariant, PTL

(***************************************************************************)
(* No step lowers an exit's mark, and a swap is to a generation above it   *)
(* whose manifest has not expired, whatever the plan and the clock do.     *)
(***************************************************************************)
THEOREM NeverGoesBack == Spec => NeverOlder
<1>1. Inv /\ [Next]_vars =>
        [\A e \in Exits :
           /\ mark'[e] >= mark[e]
           /\ agent[e].state = "staged" /\ agent'[e].state = "swapping" =>
                \E g \in (mark[e] + 1)..signed :
                  /\ running'[e] = plan[g].binary
                  /\ now < plan[g].expires_at]_vars
  <2> SUFFICES ASSUME Inv, [Next]_vars, ~UNCHANGED vars, NEW f \in Exits
               PROVE  /\ mark'[f] >= mark[f]
                      /\ agent[f].state = "staged" /\ agent'[f].state = "swapping" =>
                           \E g \in (mark[f] + 1)..signed :
                             /\ running'[f] = plan[g].binary
                             /\ now < plan[g].expires_at
    OBVIOUS
  <2> USE DEF Inv
  <2>0. /\ signed \in Nat /\ mark[f] \in Nat /\ now \in Int
        /\ \A g \in 1..signed : plan[g].expires_at \in Int
    BY PlanFacts, MaxTimeAssumption DEF Shapes, PlanStep
  <2>1. CASE CreateRelease \/ (\E g \in 1..signed : CreateRollout(g)) \/ WidenRollout \/ Tick
    BY <2>0, <2>1 DEF CreateRelease, CreateRollout, WidenRollout, Tick
  <2>2. ASSUME NEW e \in Exits, Register(e) \/ RegisterAndUpdate(e)
        PROVE  mark' = mark /\ (agent[f].state = "staged" => agent'[f].state # "swapping")
    BY <2>2 DEF Register, RegisterAndUpdate, Accepts, Resting, Shapes
  <2>3. ASSUME NEW e \in Exits, Swap(e)
        PROVE  /\ mark'[f] >= mark[f]
               /\ agent[f].state = "staged" /\ agent'[f].state = "swapping" =>
                    \E g \in (mark[f] + 1)..signed :
                      running'[f] = plan[g].binary /\ now < plan[g].expires_at
    <3>1. CASE f = e
      <4>1. Genuine(agent[e].target) /\ agent[e].target.generation > mark[e]
        BY <2>3 DEF Swap, AgentOK
      <4>2. agent[e].target.generation \in (mark[e] + 1)..signed
        BY <4>1, <3>1, <2>0 DEF Genuine
      <4>3. mark'[e] \in {mark[e], agent[e].target.generation}
        BY <2>3 DEF Swap, Shapes
      <4>4. running'[e] = agent[e].target.binary /\ ~IsExpired(agent[e].target, now)
        BY <2>3 DEF Swap, Shapes
      <4>5. now < plan[agent[e].target.generation].expires_at
        BY <4>1, <4>4, <2>0 DEF IsExpired, Genuine
      <4> QED  BY <3>1, <4>1, <4>2, <4>3, <4>4, <4>5, <2>0 DEF Genuine
    <3>2. CASE f # e
      BY <2>3, <3>2, <2>0 DEF Swap, Shapes
    <3> QED  BY <3>1, <3>2
  <2>4. ASSUME NEW e \in Exits,
               GiveUp(e) \/ Confirm(e) \/ Reboot(e) \/ \E binary \in Binaries : Stage(e, binary)
        PROVE  mark' = mark /\ (agent[f].state = "staged" => agent'[f].state # "swapping")
    <3>1. mark' = mark
      BY <2>4 DEF GiveUp, Confirm, Reboot, Stage
    <3>2. CASE f # e
      BY <2>4, <3>2 DEF GiveUp, Confirm, Reboot, Stage, Shapes
    <3>3. CASE f = e /\ GiveUp(e)
      BY <3>3 DEF GiveUp, Shapes, AgentOK
    <3>4. CASE f = e /\ Confirm(e)
      BY <3>4 DEF Confirm
    <3>5. CASE f = e /\ Reboot(e)
      BY <3>5 DEF Reboot, IdleAgent, Shapes
    <3>6. CASE f = e /\ \E binary \in Binaries : Stage(e, binary)
      BY <3>6 DEF Stage
    <3> QED  BY <2>4, <3>1, <3>2, <3>3, <3>4, <3>5, <3>6
  <2>5. ASSUME NEW e \in Exits, Persist(e)
        PROVE  mark'[f] >= mark[f] /\ (agent[f].state = "staged" => agent'[f].state # "swapping")
    <3>1. Genuine(agent[e].target) /\ agent[e].target.generation > mark[e]
      BY <2>5 DEF Persist, AgentOK
    <3>2. mark'[f] = mark[f] \/ (mark'[f] = agent[e].target.generation /\ f = e)
      <4>1. mark' = [mark EXCEPT ![e] = agent[e].target.generation] /\ mark \in [Exits -> Nat]
        BY <2>5 DEF Persist, Shapes
      <4> QED  BY <4>1
    <3>3. agent[f].state # "staged" \/ agent'[f] = agent[f]
      <4>1. CASE f = e
        BY <2>5, <4>1 DEF Persist
      <4>2. CASE f # e
        BY <2>5, <4>2 DEF Persist, Shapes
      <4> QED  BY <4>1, <4>2
    <3> QED  BY <3>1, <3>2, <3>3, <2>0 DEF Genuine
  <2> QED  BY <2>0, <2>1, <2>2, <2>3, <2>4, <2>5 DEF Next, vars
<1> QED  BY <1>1, Invariant, PTL DEF Spec, NeverOlder

-----------------------------------------------------------------------------
(* What a bad release can reach *)

(***************************************************************************)
(* The first release is the one the exits were installed with, and a       *)
(* binary that answers to a signed release is that release's binary.       *)
(* Without the second, two releases signed under each other's names pass   *)
(* the canary: rebooted into the first of them, it reports the version of  *)
(* the second before it has run it.                                        *)
(***************************************************************************)
Unambiguous(p) ==
  /\ VersionOf[p[1].binary] = p[1].release
  /\ \A g, h \in DOMAIN p :
       VersionOf[p[g].binary] = p[h].release => p[g].binary = p[h].binary

\* An exit beyond the canary has only met sound releases.
MetSound(e) ==
  /\ offer[e] # 0 => Sound(offer[e])
  /\ agent[e].state \in {"staging", "staged", "swapping", "persist_pending"}
       => Sound(agent[e].target.generation)
  /\ Sound(mark[e])
  /\ ~Mislabelled(running[e])

\* A version reported is that of a binary signed so far.
VersionKnown(e) ==
  row[e].version # None => \E g \in 1..signed : row[e].version = VersionOf[plan[g].binary]

CanaryInv ==
  /\ Inv
  /\ Unambiguous(plan)
  /\ \A e \in Exits : VersionKnown(e)
  /\ \A e \in Exits \ {Canary} : MetSound(e)

\* What is known of versions and soundness stays known while the plan grows.
LEMMA SignedGrows ==
  ASSUME Inv, [Next]_vars
  PROVE  /\ plan' = plan /\ signed \in Nat /\ signed' \in {signed, signed + 1}
         /\ 1..signed \subseteq 1..signed' /\ 1..signed \subseteq DOMAIN plan
         /\ \A g \in 1..signed : Sound(g) => Sound(g)'
<1>1. signed \in Nat /\ 1..signed \subseteq DOMAIN plan
  BY PlanFacts, PlansAssumption DEF Inv, Shapes
<1>2. plan' = plan /\ signed' \in {signed, signed + 1}
  BY DEF Next, vars, CreateRelease, CreateRollout, WidenRollout, Tick, Register,
         RegisterAndUpdate, Swap, GiveUp, Confirm, Persist, Reboot, Stage
<1> QED  BY <1>1, <1>2 DEF Sound

\* An exit runs what some generation signed.
LEMMA RunsSigned ==
  ASSUME Inv, NEW e \in Exits
  PROVE  \E g \in 1..signed : running[e] = plan[g].binary
<1>1. mark[e] \in 1..signed /\ signed \in Nat
  BY PlanFacts DEF Inv, Shapes, DiskOK
<1> QED  BY <1>1 DEF Inv, DiskOK

LEMMA VersionsStep ==
  ASSUME CanaryInv, [Next]_vars
  PROVE  \A e \in Exits : VersionKnown(e)'
<1>0. plan' = plan /\ 1..signed \subseteq 1..signed' /\ Inv
  BY SignedGrows DEF CanaryInv
<1>1. ASSUME NEW e \in Exits, row'[e] = row[e] PROVE VersionKnown(e)'
  BY <1>0, <1>1 DEF CanaryInv, VersionKnown
<1>2. ASSUME NEW e \in Exits, row'[e] = Request(e) PROVE VersionKnown(e)'
  <2>1. PICK g \in 1..signed : running[e] = plan[g].binary
    BY <1>0, RunsSigned
  <2>2. row'[e].version = VersionOf[plan'[g].binary] /\ g \in 1..signed'
    BY <1>0, <1>2, <2>1 DEF Request
  <2> QED  BY <2>2 DEF VersionKnown
<1>3. ASSUME NEW e \in Exits PROVE row'[e] \in {row[e], Request(e)}
  <2>1. CASE row' = row
    BY <2>1
  <2>2. CASE \E f \in Exits : row' = [row EXCEPT ![f] = Request(f)]
    BY <1>0, <2>2 DEF Inv, Shapes
  <2> QED
    BY <2>1, <2>2 DEF Next, vars, CreateRelease, CreateRollout, WidenRollout, Tick, Register,
         RegisterAndUpdate, Swap, GiveUp, Confirm, Persist, Reboot, Stage
<1> QED  BY <1>1, <1>2, <1>3

\* The canary's report proves the release it is matched with.
LEMMA WidensSound ==
  ASSUME CanaryInv, WidenRollout
  PROVE  Sound(offer[Canary])
<1> DEFINE c == offer[Canary]
<1>1. signed \in Nat /\ c \in 1..signed /\ 1..signed \subseteq 1..Len(plan)
  BY PlanFacts, FleetAssumption DEF CanaryInv, Inv, Shapes, WidenRollout
<1>2. plan[c].release \in Releases
  BY <1>1, PlanFacts DEF CanaryInv, Inv, PlanStep
<1>3. row[Canary].version = plan[c].release /\ row[Canary].version # None
  BY <1>2, FleetAssumption DEF WidenRollout
<1>4. PICK g \in 1..signed : row[Canary].version = VersionOf[plan[g].binary]
  BY <1>3, FleetAssumption DEF CanaryInv, VersionKnown
<1>5. DOMAIN plan = 1..Len(plan)
  BY PlansAssumption DEF CanaryInv, Inv, Shapes
<1>6. plan[g].binary = plan[c].binary
  <2>1. \A i, j \in DOMAIN plan :
          VersionOf[plan[i].binary] = plan[j].release => plan[i].binary = plan[j].binary
    BY DEF CanaryInv, Unambiguous
  <2>2. g \in DOMAIN plan /\ c \in DOMAIN plan
    BY <1>1, <1>5
  <2>3. VersionOf[plan[g].binary] = plan[c].release
    BY <1>3, <1>4
  <2> QED  BY <2>1, <2>2, <2>3
<1> QED  BY <1>3, <1>4, <1>6 DEF Sound

\* An exit a step leaves alone has still only met sound releases.
LEMMA SoundUntouched ==
  ASSUME CanaryInv, [Next]_vars, NEW e \in Exits \ {Canary},
         offer'[e] = offer[e], running'[e] = running[e], mark'[e] = mark[e],
         agent'[e] = agent[e]
  PROVE  MetSound(e)'
<1>1. /\ plan' = plan /\ 1..signed \subseteq 1..signed'
      /\ \A g \in 1..signed : Sound(g) => Sound(g)'
  BY SignedGrows DEF CanaryInv
<1> QED  BY <1>1 DEF CanaryInv, MetSound, Mislabelled, Sound

LEMMA MetSoundStep ==
  ASSUME CanaryInv, [Next]_vars
  PROVE  \A e \in Exits \ {Canary} : MetSound(e)'
<1> SUFFICES ASSUME NEW f \in Exits \ {Canary} PROVE MetSound(f)'
  OBVIOUS
<1>0. /\ plan' = plan /\ 1..signed \subseteq 1..signed' /\ signed \in Nat
      /\ \A g \in 1..signed : Sound(g) => Sound(g)'
      /\ Inv /\ MetSound(f) /\ AgentOK(f) /\ DiskOK(f)
  BY SignedGrows DEF CanaryInv, Inv
<1>1. CASE CreateRelease \/ Tick \/ UNCHANGED vars
  BY <1>1, SoundUntouched DEF CreateRelease, Tick, vars
<1>2. CASE \E g \in 1..signed : CreateRollout(g)
  <2>1. offer'[f] = 0 /\ UNCHANGED <<plan, signed, running, mark, agent>>
    BY <1>2 DEF CreateRollout
  <2> QED  BY <1>0, <2>1 DEF MetSound, Mislabelled, Sound
<1>3. CASE WidenRollout
  <2>1. Sound(offer[Canary])
    BY <1>3, WidensSound
  <2>2. offer'[f] = offer[Canary] /\ UNCHANGED <<plan, signed, running, mark, agent>>
    BY <1>3 DEF WidenRollout
  <2> QED  BY <1>0, <2>1, <2>2 DEF MetSound, Mislabelled, Sound
<1>4. ASSUME NEW e \in Exits, Register(e) PROVE MetSound(f)'
  BY <1>4, SoundUntouched DEF Register
<1>5. ASSUME NEW e \in Exits, RegisterAndUpdate(e) PROVE MetSound(f)'
  <2>1. CASE e # f
    BY <1>0, <1>5, <2>1, SoundUntouched DEF RegisterAndUpdate, Inv, Shapes
  <2>2. CASE e = f
    <3>1. offer[f] \in 1..signed
      BY <1>0, <1>5, <2>2 DEF RegisterAndUpdate, Inv, Shapes
    <3>2. PICK m \in Delivered(Manifest(offer[f])) :
            Accepts(f, m) /\ agent' = [agent EXCEPT ![f] = [state |-> "staging", target |-> m]]
      BY <1>5, <2>2 DEF RegisterAndUpdate
    <3>3. m.generation = offer[f]
      BY <1>0, <3>1, <3>2, DeliveredIsGenuine DEF Accepts, Inv
    <3>4. agent'[f].target = m
      BY <1>0, <3>2 DEF Inv, Shapes
    <3>5. UNCHANGED <<plan, signed, offer, running, mark>> /\ Sound(offer[f])
      BY <1>0, <1>5, <2>2 DEF RegisterAndUpdate, MetSound
    <3> QED  BY <1>0, <3>3, <3>4, <3>5 DEF MetSound, Mislabelled, Sound
  <2> QED  BY <2>1, <2>2
<1>6. ASSUME NEW e \in Exits, NEW binary \in Binaries, Stage(e, binary) PROVE MetSound(f)'
  <2>1. UNCHANGED <<plan, signed, offer, running, mark>> /\ agent[e].state = "staging"
    BY <1>6 DEF Stage
  <2>2. agent'[f].target = agent[f].target /\ (f # e => agent'[f] = agent[f])
    BY <1>0, <1>6 DEF Stage, Inv, Shapes, AgentOK
  <2>3. CASE e # f
    BY <2>1, <2>2, <2>3, SoundUntouched
  <2>4. CASE e = f
    BY <1>0, <2>1, <2>2, <2>4 DEF MetSound, Mislabelled, Sound
  <2> QED  BY <2>3, <2>4
<1>7. ASSUME NEW e \in Exits, Swap(e) PROVE MetSound(f)'
  <2>1. UNCHANGED <<plan, signed, offer>> /\ agent[e].state = "staged"
    BY <1>7 DEF Swap
  <2>2. CASE e # f
    <3>1. mark'[f] = mark[f] /\ running'[f] = running[f] /\ agent'[f] = agent[f]
      BY <1>0, <1>7, <2>2 DEF Swap, Inv, Shapes
    <3> QED  BY <2>1, <2>2, <3>1, SoundUntouched
  <2>3. CASE e = f
    <3>1. /\ agent'[f].target = agent[f].target
          /\ running'[f] = agent[f].target.binary
          /\ mark'[f] \in {mark[f], agent[f].target.generation}
      BY <1>0, <1>7, <2>3 DEF Swap, Inv, Shapes, AgentOK
    <3>2. Genuine(agent[f].target) /\ Sound(agent[f].target.generation)
      BY <1>0, <2>1, <2>3 DEF MetSound, AgentOK
    <3> QED  BY <1>0, <2>1, <3>1, <3>2 DEF MetSound, Mislabelled, Sound, Genuine
  <2> QED  BY <2>2, <2>3
<1>8. ASSUME NEW e \in Exits, GiveUp(e) PROVE MetSound(f)'
  <2>1. UNCHANGED <<plan, signed, offer, running, mark>>
    BY <1>8 DEF GiveUp
  <2>2. CASE e # f
    BY <1>0, <1>8, <2>1, <2>2, SoundUntouched DEF GiveUp, Inv, Shapes
  <2>3. CASE e = f
    <3>1. agent'[f].state = "failed"
      BY <1>0, <1>8, <2>3 DEF GiveUp, Inv, Shapes, AgentOK
    <3> QED  BY <1>0, <2>1, <3>1 DEF MetSound, Mislabelled, Sound
  <2> QED  BY <2>2, <2>3
<1>9. ASSUME NEW e \in Exits, Confirm(e) PROVE MetSound(f)'
  <2>1. UNCHANGED <<plan, signed, offer, running, mark>> /\ agent[e].state = "swapping"
    BY <1>9 DEF Confirm
  <2>2. agent'[f].target = agent[f].target /\ (f # e => agent'[f] = agent[f])
    BY <1>0, <1>9 DEF Confirm, Inv, Shapes, AgentOK
  <2>3. CASE e # f
    BY <2>1, <2>2, <2>3, SoundUntouched
  <2>4. CASE e = f
    BY <1>0, <2>1, <2>2, <2>4 DEF MetSound, Mislabelled, Sound
  <2> QED  BY <2>3, <2>4
<1>10. ASSUME NEW e \in Exits, Persist(e) PROVE MetSound(f)'
  <2>1. UNCHANGED <<plan, signed, offer, running>> /\ agent[e].state = "persist_pending"
    BY <1>10 DEF Persist
  <2>2. CASE e # f
    BY <1>0, <1>10, <2>1, <2>2, SoundUntouched DEF Persist, Inv, Shapes
  <2>3. CASE e = f
    <3>1. agent'[f].state = "applied" /\ mark'[f] = agent[f].target.generation
      BY <1>0, <1>10, <2>3 DEF Persist, Inv, Shapes, AgentOK
    <3> QED  BY <1>0, <2>1, <2>3, <3>1 DEF MetSound, Mislabelled, Sound
  <2> QED  BY <2>2, <2>3
<1>11. ASSUME NEW e \in Exits, Reboot(e) PROVE MetSound(f)'
  <2>1. UNCHANGED <<plan, signed, offer, mark>>
    BY <1>11 DEF Reboot
  <2>2. CASE e # f
    BY <1>0, <1>11, <2>1, <2>2, SoundUntouched DEF Reboot, Inv, Shapes
  <2>3. CASE e = f
    <3>1. agent'[f].state = "idle" /\ running'[f] = plan[mark[f]].binary /\ mark[f] \in 1..signed
      BY <1>0, <1>11, <2>3 DEF Reboot, Inv, Shapes, DiskOK, IdleAgent
    <3> QED  BY <1>0, <2>1, <3>1 DEF MetSound, Mislabelled, Sound
  <2> QED  BY <2>2, <2>3
<1> QED
  BY <1>1, <1>2, <1>3, <1>4, <1>5, <1>6, <1>7, <1>8, <1>9, <1>10, <1>11 DEF Next

(***************************************************************************)
(* For every fleet and every plan without such swapped names, a release    *)
(* whose binary is not what its manifest says never leaves the canary:     *)
(* whoever follows runs a binary that answers to what it was signed as,    *)
(* through crashes, lost answers and re-signed releases.                   *)
(***************************************************************************)
THEOREM BadReleaseIsContained ==
  ASSUME \A p \in Plans : Unambiguous(p)
  PROVE  Spec => []BadReleaseStopsAtCanary
<1>1. Init => CanaryInv
  <2> SUFFICES ASSUME Init PROVE CanaryInv
    OBVIOUS
  <2>1. Inv
    BY ShapesInit, AgentsInit DEF Inv, Init, RowOK, EmptyRow
  <2>2. plan \in Plans /\ signed = 1 /\ Unambiguous(plan)
    BY DEF Init
  <2>3. Sound(1) /\ 1 \in 1..signed
    BY <2>2 DEF Sound, Unambiguous
  <2> QED  BY <2>1, <2>2, <2>3
           DEF CanaryInv, Init, VersionKnown, EmptyRow, MetSound, Mislabelled, IdleAgent
<1>2. CanaryInv /\ [Next]_vars => CanaryInv'
  <2> SUFFICES ASSUME CanaryInv, [Next]_vars PROVE CanaryInv'
    OBVIOUS
  <2>1. Inv'
    BY ShapesStep, AgentsStep, RowsStep DEF CanaryInv, Inv
  <2>2. Unambiguous(plan)'
    BY SignedGrows DEF CanaryInv, Unambiguous
  <2> QED  BY <2>1, <2>2, VersionsStep, MetSoundStep DEF CanaryInv
<1>3. CanaryInv => BadReleaseStopsAtCanary
  BY DEF CanaryInv, MetSound, BadReleaseStopsAtCanary
<1> QED  BY <1>1, <1>2, <1>3, PTL DEF Spec

-----------------------------------------------------------------------------
(***************************************************************************)
(* The hardware verdict is monotone: better hardware is never refused for  *)
(* a reason that worse hardware was not, nor put in a lower class, nor     *)
(* estimated to be slower, so the thresholds of `evaluate` leave no gap    *)
(* between them.                                                           *)
(***************************************************************************)
THEOREM BetterHardwareIsNeverJudgedWorse ==
  ASSUME NEW b, NEW c, IsBench(b), IsBench(c), AtLeast(b, c)
  PROVE  LET better == Evaluate(b)
             worse  == Evaluate(c)
         IN  /\ better.reasons \subseteq worse.reasons
             /\ Rank(better.class) >= Rank(worse.class)
             /\ better.est >= worse.est
<1>1. /\ {b.nic_speed, b.cpu_cores, b.udp_pps, b.udp_gbps} \subseteq Nat
      /\ {c.nic_speed, c.cpu_cores, c.udp_pps, c.udp_gbps} \subseteq Nat
      /\ b.aes_ni \in BOOLEAN /\ c.aes_ni \in BOOLEAN
  BY DEF IsBench
<1>2. Reasons(b) \subseteq Reasons(c)
  BY <1>1 DEF AtLeast, Reasons, MIN_UDP_PPS, MIN_NIC_MBPS, MIN_CORES
<1>3. IsGo(c) => IsGo(b)
  BY <1>2 DEF IsGo
<1>4. Rank(CapacityClass(b)) >= Rank(CapacityClass(c))
  BY <1>1, <1>3 DEF AtLeast, CapacityClass, Rank
<1>5. CleanTunnel(b) >= CleanTunnel(c)
  BY <1>1, <1>3 DEF AtLeast, CleanTunnel
<1> QED  BY <1>2, <1>4, <1>5 DEF Evaluate
=============================================================================
