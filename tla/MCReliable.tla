----------------------------- MODULE MCReliable -----------------------------
(***************************************************************************)
(* The reliable channel on a small instance for TLC: one client with two   *)
(* apps, and another one that competes with it for every limit.            *)
(***************************************************************************)
EXTENDS Reliable, TLC

CONSTANTS c1, c2, a1, a2

MCAppsOf == c1 :> {a1, a2} @@ c2 :> {a2}
=============================================================================
