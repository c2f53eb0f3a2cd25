---------------------------- MODULE MCGlueChannel ----------------------------
(***************************************************************************)
(* Two paths, and sessions that are replaced while frames are under way.   *)
(***************************************************************************)
EXTENDS GlueChannel, TLC

Symmetry == Permutations(Paths)
=============================================================================
