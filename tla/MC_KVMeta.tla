----------------------------- MODULE MC_KVMeta -----------------------------
(* Instances of KVMeta for TLC. *)
EXTENDS KVMeta

\* The careful configurations, each with all the liberties that keep it careful.
Kept == LET careful == {c \in Config : Careful(c)}
        IN  {c \in careful : \A d \in careful :
               [d EXCEPT !.may = c.may] = c => ~(c.may \subseteq d.may /\ c.may # d.may)}

\* An Eagle generation that is stopped, then a new prompt.
Cancelled == {[reuse_kv |-> FALSE, prompt_cache |-> FALSE, linear |-> FALSE, quant |-> FALSE,
               strategy |-> "eagle", may |-> {"cancel", "override"}]}
============================================================================
