--------------------------- MODULE MC_ThreadPool ---------------------------
(* Instances of ThreadPool for TLC. *)
EXTENDS ThreadPool, TLC

\* The runtimes are interchangeable (safety runs only).
RuntimeSymmetry == Permutations(Runtimes)
=============================================================================
