---------------------------- MODULE MCVPNChannel ----------------------------
(***************************************************************************)
(* Two clients that compete for the channel, and enough connections for a  *)
(* client to have a new one while handlers of two old ones still run.      *)
(***************************************************************************)
EXTENDS VPNChannel
=============================================================================
