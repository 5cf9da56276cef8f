--------------------------- MODULE MC_SharedArena ---------------------------
(* Instance of SharedArena for TLC.  Graphs and blocks are interchangeable.  *)
EXTENDS SharedArena, TLC

ArenaSymmetry == Permutations(Graphs) \cup Permutations(Blocks)
=============================================================================
