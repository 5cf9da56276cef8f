--------------------- MODULE MC_DeferBufferAllocator ---------------------
(* Instance of DeferBufferAllocator for TLC. *)
EXTENDS DeferBufferAllocator
=============================================================================
