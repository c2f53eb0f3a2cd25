------------------------------- MODULE MCTray -------------------------------
(***************************************************************************)
(* The tray for TLC.                                                       *)
(***************************************************************************)
EXTENDS Tray
=============================================================================
