---------------------------- MODULE MC_KVLayout ----------------------------
(* Instance of KVLayout for TLC. *)
EXTENDS KVLayout

\* In memory with one thread or more, and in files; chunked or not.
AllLayouts == {[flash |-> f, disk |-> FALSE, single |-> s] : f, s \in BOOLEAN}
              \cup {[flash |-> f, disk |-> TRUE, single |-> FALSE] : f \in BOOLEAN}
============================================================================
