---------------------------- MODULE ParallelFor ----------------------------
(***************************************************************************)
(* What ThreadPool::enqueue promises its callers, whatever threads run the  *)
(* work: a call executes each of the items 0 .. n - 1 of its task exactly   *)
(* once, in any grouping and order, and returns after the last of them.     *)
(* Calls of different runtimes do not disturb each other.                   *)
(***************************************************************************)
EXTENDS Naturals

CONSTANTS
    Callers,    \* the runtimes
    TaskSizes,  \* the numbers of items a task may have
    WorkItems   \* the items of the largest task, counted from 0

VARIABLES
    busy,   \* the callers inside a call
    size,   \* the number of items of each caller's task, 0 outside a call
    ran     \* how often each item of that task has run

vars == <<busy, size, ran>>

Init ==
    /\ busy = {}
    /\ size = [c \in Callers |-> 0]
    /\ ran = [c \in Callers |-> [v \in WorkItems |-> 0]]

Call(c) ==
    /\ c \notin busy
    /\ busy' = busy \cup {c}
    /\ \E n \in TaskSizes : size' = [size EXCEPT ![c] = n]
    /\ UNCHANGED ran

Fresh(c) == {v \in WorkItems : v < size[c] /\ ran[c][v] = 0}

Run(c) ==
    /\ c \in busy
    /\ \E S \in SUBSET Fresh(c) :
         ran' = [ran EXCEPT ![c] = [v \in WorkItems |-> IF v \in S THEN 1 ELSE @[v]]]
    /\ UNCHANGED <<busy, size>>

Return(c) ==
    /\ c \in busy
    /\ Fresh(c) = {}
    /\ busy' = busy \ {c}
    /\ size' = [size EXCEPT ![c] = 0]
    /\ ran' = [ran EXCEPT ![c] = [v \in WorkItems |-> 0]]

Next == \E c \in Callers : Call(c) \/ Run(c) \/ Return(c)

Safety == Init /\ [][Next]_vars

\* A call once made makes progress and returns.
Spec == Safety /\ \A c \in Callers : WF_vars(Run(c) \/ Return(c))

=============================================================================
