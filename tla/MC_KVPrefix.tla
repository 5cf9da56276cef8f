---------------------------- MODULE MC_KVPrefix ----------------------------
(* Instance of KVPrefix for TLC.  Prompts and answers have tokens of their   *)
(* own, so that an entry that is left over differs from the one expected.    *)
EXTENDS KVPrefix, TLC
============================================================================
