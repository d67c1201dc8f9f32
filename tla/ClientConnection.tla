--------------------------- MODULE ClientConnection ---------------------------
(***************************************************************************)
(* A client with everything around its connection: the relay it dials and  *)
(* fails over from (RelayFailover), the daemon that holds the tunnel and   *)
(* the firewall's block, the user who connects, disconnects and crashes    *)
(* the app, and the phase that is shown for it (ClientContract).           *)
(*                                                                         *)
(* The daemon is another repository.  It conforms to the matrix of         *)
(* src/killswitch.rs on every row and recovers as that file records; it    *)
(* reports the states of src/phase.rs.                                     *)
(***************************************************************************)
EXTENDS RelayFailover, ClientContract

VARIABLES
  lockdown,  \* the user wants the block also without a session
  wanted,    \* the user asked to be connected, and not yet to end it
  daemon,    \* "up", "stopped" or "dead"
  session,   \* "none", "held", "draining", "closing" or "failed"
  block,     \* the kernel's ruleset holds traffic outside the tunnel
  flow,      \* what happens to traffic in the tunnel: EgressEvidence
  egress     \* the evidence gathered last

clientVars == <<lockdown, wanted, daemon, session, block, flow, egress>>
allVars == <<relayVars, clientVars>>

Flowing == [host_offline |-> FALSE, exit_egress_dead |-> FALSE]

ClientTypeOK ==
  /\ RelayTypeOK
  /\ lockdown \in BOOLEAN /\ wanted \in BOOLEAN /\ block \in BOOLEAN
  /\ daemon \in {"up", "stopped", "dead"}
  /\ session \in {"none", "held", "draining", "closing", "failed"}
  /\ flow \in EgressEvidence /\ egress \in EgressEvidence

ClientInit ==
  /\ RelayInit
  /\ lockdown \in BOOLEAN
  /\ wanted = FALSE /\ daemon = "up" /\ session = "none"
  /\ block = lockdown
  /\ flow = Flowing /\ egress = Flowing

\* What the daemon reports.
Status ==
  CASE session = "closing" -> [state |-> "disconnecting"]
    [] session = "draining" -> [state |-> "draining"]
    [] session = "failed" -> [state |-> "error", blocking_error |-> ~block]
    [] session = "held" /\ phase = "connected" -> [state |-> "connected"]
    [] session = "held" /\ phase = "dialing" -> [state |-> "reconnecting"]
    [] session = "none" /\ phase = "dialing" -> [state |-> "connecting"]
    [] OTHER -> [state |-> "disconnected", locked_down |-> block]

Shown == ReducePhase(Status, egress)

Alive == daemon = "up"

-----------------------------------------------------------------------------
(* Connecting, and staying connected *)

AskToConnect ==
  /\ Alive /\ ~wanted
  /\ session \notin {"closing"}
  /\ wanted' = TRUE
  /\ session' = "none"
  /\ UNCHANGED <<relayVars, lockdown, daemon, block, flow, egress>>

\* The block goes up before the first dial; without it there is no dial.
StartConnecting ==
  /\ Alive /\ wanted /\ session = "none"
  /\ Connect
  /\ block' = TRUE
  /\ session' = IF phase' = "dialing" THEN "none" ELSE "failed"
  /\ UNCHANGED <<lockdown, wanted, daemon, flow, egress>>

BlockFails ==
  /\ Alive /\ wanted /\ session = "none" /\ phase = "idle"
  /\ ~block
  /\ session' = "failed"
  /\ UNCHANGED <<relayVars, lockdown, wanted, daemon, block, flow, egress>>

\* The daemon leaves an error to try again.
Retry ==
  /\ Alive /\ wanted /\ session = "failed"
  /\ session' = "none"
  /\ UNCHANGED <<relayVars, lockdown, wanted, daemon, block, flow, egress>>

\* A session starts with fresh evidence of the path it just used.
Establish ==
  /\ Alive /\ session \in {"none", "held"}
  /\ DialSucceeds
  /\ session' = "held"
  /\ flow' = Flowing /\ egress' = Flowing
  /\ UNCHANGED <<lockdown, wanted, daemon, block>>

\* The supervisor redials; with no relay left the session fails, blocking.
Redial ==
  /\ Alive /\ session \in {"none", "held"}
  /\ FailOver
  /\ session' = IF phase' = "dialing" THEN session ELSE "failed"
  /\ UNCHANGED <<lockdown, wanted, daemon, block, flow, egress>>

\* The exit announces a drain and the client moves off it.
Drain ==
  /\ Alive /\ session = "held" /\ phase = "connected"
  /\ session' = "draining"
  /\ UNCHANGED <<relayVars, lockdown, wanted, daemon, block, flow, egress>>

MoveOff ==
  /\ Alive /\ session = "draining"
  /\ SelectFrom(FailoverCandidates(Relays, query, current))
  /\ session' = IF phase' = "dialing" THEN "held" ELSE "failed"
  /\ UNCHANGED <<lockdown, wanted, daemon, block, flow, egress>>

\* The egress probe and the watcher of the host's reachability report.
Probe ==
  /\ Alive
  /\ egress' = flow
  /\ UNCHANGED <<relayVars, lockdown, wanted, daemon, session, block, flow>>

-----------------------------------------------------------------------------
(* The ends of a session *)

Drop == current' = NoRelay /\ phase' = "idle" /\ UNCHANGED <<list, query, down>>

Hold(trigger) == block' = (ExpectedPosture(trigger, lockdown) = "blocking")

AskToDisconnect ==
  /\ Alive /\ wanted
  /\ wanted' = FALSE
  /\ session' = "closing"
  /\ Drop
  /\ UNCHANGED <<lockdown, daemon, block, flow, egress>>

FinishDisconnect ==
  /\ Alive /\ session = "closing"
  /\ session' = "none"
  /\ Hold("user_disconnect")
  /\ UNCHANGED <<relayVars, lockdown, wanted, daemon, flow, egress>>

\* The rows below assume a session that was being protected.
Protecting == session \in {"held", "draining"}

\* The app vanishes and the daemon ends the session; what the user wants
\* stands, and the app that comes back resumes it.
LoseOwner ==
  /\ Alive /\ Protecting
  /\ session' = "none"
  /\ Drop
  /\ Hold("owner_connection_lost")
  /\ UNCHANGED <<lockdown, wanted, daemon, flow, egress>>

\* A graceful stop is the operator's decision to end the session.
ShutDownDaemon ==
  /\ Alive
  /\ daemon' = "stopped" /\ session' = "none" /\ wanted' = FALSE
  /\ Drop
  /\ Hold("daemon_shutdown")
  /\ UNCHANGED <<lockdown, flow, egress>>

KillDaemon ==
  /\ Alive
  /\ daemon' = "dead" /\ session' = "none"
  /\ Drop
  /\ block' = IF Protecting
              THEN ExpectedPosture("daemon_killed", lockdown) = "blocking" ELSE block
  /\ UNCHANGED <<lockdown, wanted, flow, egress>>

RebootHost ==
  /\ daemon' = "up" /\ session' = "none" /\ wanted' = FALSE
  /\ Drop
  /\ Hold("host_reboot")
  /\ UNCHANGED <<lockdown, flow, egress>>

\* A daemon that starts never looks at a ruleset it finds.
SlipNoReconcile ==
  /\ daemon # "up"
  /\ daemon' = "up"
  /\ UNCHANGED <<relayVars, lockdown, wanted, session, block, flow, egress>>

\* The next start reconciles a stale ruleset with what the user wants.
StartDaemon ==
  /\ daemon # "up"
  /\ daemon' = "up"
  /\ block' = (block /\ (wanted \/ lockdown))
  /\ UNCHANGED <<relayVars, lockdown, wanted, session, flow, egress>>

\* The manual escape, with no daemon running.
Revert ==
  /\ daemon # "up" /\ block
  /\ block' = FALSE /\ wanted' = FALSE
  /\ UNCHANGED <<relayVars, lockdown, daemon, session, flow, egress>>

-----------------------------------------------------------------------------
(* The world *)

World ==
  /\ \/ \E l \in Lists : RefreshList(l)
     \/ \E q \in Queries : ChangeQuery(q)
     \/ \E i \in Ids : GoDown(i) \/ ComeUp(i)
  /\ UNCHANGED clientVars

Flows ==
  /\ flow' \in {Flowing, [Flowing EXCEPT !.host_offline = TRUE],
                [Flowing EXCEPT !.exit_egress_dead = TRUE]}
  /\ UNCHANGED <<relayVars, lockdown, wanted, daemon, session, block, egress>>

Work == StartConnecting \/ Retry \/ Establish \/ Redial \/ MoveOff \/ FinishDisconnect

ClientNext ==
  \/ AskToConnect \/ StartConnecting \/ BlockFails \/ Retry \/ Establish \/ Redial
  \/ Drain \/ MoveOff \/ Probe
  \/ AskToDisconnect \/ FinishDisconnect
  \/ LoseOwner \/ ShutDownDaemon \/ KillDaemon \/ RebootHost
  \/ StartDaemon \/ Revert
  \/ World \/ Flows

ClientSpec == ClientInit /\ [][ClientNext]_allVars

\* A daemon that is up works and probes, and a service manager starts it.
FairClientSpec ==
  /\ ClientSpec
  /\ WF_allVars(Work) /\ WF_allVars(Probe) /\ WF_allVars(StartDaemon)

-----------------------------------------------------------------------------
(* Properties *)

(***************************************************************************)
(* The colour never lies about leaks: "exposed" is shown only when nothing *)
(* holds the traffic outside the tunnel, and no phase that claims to hold  *)
(* it is shown without the block, through failed blocks, crashes,          *)
(* restarts, drains and disconnects.                                       *)
(***************************************************************************)
ShownIsTrue ==
  Alive =>
    /\ Shown = "exposed" => ~block
    /\ Shown \in {"protected", "interrupted", "blocked"} => block

(***************************************************************************)
(* Once the block is up only an intended end takes it down: while the user *)
(* wants the session it holds through crashes of the app and the daemon    *)
(* and through restarts, and under lockdown nothing but the manual escape  *)
(* lifts it.                                                               *)
(***************************************************************************)
HoldsUntilIntended ==
  [][block /\ ~block' => ~wanted' /\ (lockdown => Revert)]_allVars

(***************************************************************************)
(* An open network is closed only for a user who wants a session, or under *)
(* lockdown: no stop, crash, restart or boot blocks anyone else.           *)
(***************************************************************************)
BlocksOnPurpose == [][~block /\ block' => wanted \/ lockdown]_allVars

(***************************************************************************)
(* Fail-closed is not bricked: once the user is done, and without          *)
(* lockdown, the network opens again, also after crashes.                  *)
(***************************************************************************)
NeverBricked == <>[](~wanted /\ ~lockdown) => []<>(~block)

(***************************************************************************)
(* When the world settles with at most one eligible relay down, whoever    *)
(* wants to be connected becomes protected for good.                       *)
(***************************************************************************)
Settled ==
  /\ <>[](wanted /\ Alive /\ AtMostOneDown /\ flow = Flowing)
  /\ <>[][EnvironmentQuiet /\ ~BlockFails /\ ~LoseOwner /\ ~Drain]_allVars

ProtectedAgain == Settled => <>[](Shown = "protected")
=============================================================================
