-------------------------- MODULE MCClientConnection --------------------------
(***************************************************************************)
(* ClientConnection on the relays of MCRelayFailover.                      *)
(***************************************************************************)
EXTENDS ClientConnection, MCRelayFailover
=============================================================================
