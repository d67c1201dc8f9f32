---------------------------- MODULE ClientContract ----------------------------
(***************************************************************************)
(* What every client surface decides in the same way: the phase it shows   *)
(* (src/phase.rs) and what its kill switch does when whoever controls it   *)
(* goes away (src/killswitch.rs).                                          *)
(***************************************************************************)

ConnectionPhase == {"exposed", "connecting", "protected", "interrupted", "blocked"}

TunnelStatus ==
  [state : {"connected", "connecting", "disconnecting", "draining", "reconnecting"}]
    \cup [state : {"disconnected"}, locked_down : BOOLEAN]
    \cup [state : {"error"}, blocking_error : BOOLEAN]

EgressEvidence == [host_offline : BOOLEAN, exit_egress_dead : BOOLEAN]

IsVerified(egress) == ~egress.host_offline /\ ~egress.exit_egress_dead

\* An error is a block, whatever became of the block.
SlipErrorIsBlocked(status, egress) ==
  CASE status.state = "connected" ->
         IF IsVerified(egress) THEN "protected" ELSE "interrupted"
    [] status.state \in {"connecting", "disconnecting", "draining"} -> "connecting"
    [] status.state = "reconnecting" -> "interrupted"
    [] status.state = "disconnected" -> IF status.locked_down THEN "blocked" ELSE "exposed"
    [] status.state = "error" -> "blocked"

ReducePhase(status, egress) ==
  CASE status.state = "connected" ->
         IF IsVerified(egress) THEN "protected" ELSE "interrupted"
    [] status.state \in {"connecting", "disconnecting", "draining"} -> "connecting"
    [] status.state = "reconnecting" -> "interrupted"
    [] status.state = "disconnected" -> IF status.locked_down THEN "blocked" ELSE "exposed"
    [] status.state = "error" -> IF status.blocking_error THEN "exposed" ELSE "blocked"

KillswitchTrigger ==
  {"user_disconnect", "owner_connection_lost", "daemon_shutdown", "daemon_killed",
   "host_reboot"}

\* The daemon restores the network when its owner vanishes.
SlipOwnerRestores(trigger, lockdown) ==
  IF trigger = "daemon_killed" \/ lockdown THEN "blocking" ELSE "open"

\* `expected_posture`: ends the user meant open the network unless lockdown
\* is on; any other end holds the block.
ExpectedPosture(trigger, lockdown) ==
  IF trigger \in {"user_disconnect", "daemon_shutdown", "host_reboot"} /\ ~lockdown
  THEN "open" ELSE "blocking"
=============================================================================
