--------------------- MODULE MC_EagerBufferAllocator ---------------------
(* Instance of EagerBufferAllocator for TLC. *)
EXTENDS EagerBufferAllocator, TLC

\* Dynamic memory, and weights in mapped files; one alignment exceeds mAlign.
DynamicAndMapped ==
    {[minAllocSize |-> 0, sizes |-> {1, 3, 8}, aligns |-> {2}, maxChunks |-> 3],
     [minAllocSize |-> 8, sizes |-> {1, 3, 9}, aligns |-> {2, 4}, maxChunks |-> 5]}

Symmetry == Permutations(Blocks)
==========================================================================
