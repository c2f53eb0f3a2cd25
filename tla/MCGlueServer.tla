---------------------------- MODULE MCGlueServer ----------------------------
(***************************************************************************)
(* Small instances of GlueServer.                                          *)
(***************************************************************************)
EXTENDS GlueServer, TLC

Symmetry ==
  Permutations(Keys) \union Permutations(SIDs) \union Permutations(Conns)
    \union Permutations(FlowIDs) \union Permutations(Dsts)
    \union Permutations(Sessions) \union Permutations(Sockets)
=============================================================================
