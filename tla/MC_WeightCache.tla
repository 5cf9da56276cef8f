--------------------------- MODULE MC_WeightCache ---------------------------
(* Instances of WeightCache for TLC. *)
EXTENDS WeightCache
=============================================================================
