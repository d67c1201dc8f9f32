----------------------------- MODULE MCExitFleet -----------------------------
(***************************************************************************)
(* ExitFleet with two exits, one of which keeps its updates in RAM until   *)
(* they are persisted, and two histories of releases: an upgrade that is   *)
(* rolled back under a new generation, and a release whose binary is not   *)
(* what it says.                                                           *)
(***************************************************************************)
EXTENDS ExitFleet

MCVersionOf == [old |-> "v1", new |-> "v2", bad |-> "v1-dirty"]

MCSigned(release, binary, expires_at) ==
  [release |-> release, binary |-> binary, expires_at |-> expires_at]

MCPlans ==
  {<<MCSigned("v1", "old", 1), MCSigned("v2", "new", 2), MCSigned("v1", "old", 3)>>,
   <<MCSigned("v1", "old", 1), MCSigned("v3", "bad", 3)>>}
=============================================================================
