----------------------------- MODULE MCGameSplit -----------------------------
(***************************************************************************)
(* Small instances of GameSplit: one socket that talks to three game       *)
(* servers.                                                                *)
(***************************************************************************)
EXTENDS GameSplit, TLC

AllKeys == [port : Ports, dst : Dsts]
Symmetry == Permutations(Dsts)
=============================================================================
