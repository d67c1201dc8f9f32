---------------------------- MODULE MCPortForward ----------------------------
(***************************************************************************)
(* PortForward with two accounts, entitlements for both, and one case.     *)
(***************************************************************************)
EXTENDS PortForward, TLC

Symmetry == Permutations(Accounts) \cup Permutations(Exits) \cup Permutations(Serials)
=============================================================================
