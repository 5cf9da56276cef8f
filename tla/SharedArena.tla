----------------------------- MODULE SharedArena -----------------------------
(***************************************************************************)
(* The dynamic memory of the graphs (sessions or modules) that share one    *)
(* CPURuntime.  The runtime owns two growing buffers                        *)
(* (SingleBufferWithAllocator, arenas 0 and 1).  Each graph has a memory    *)
(* plan (DeferBufferAllocator) for arena 0 and, once its resize cache is    *)
(* fixed, one for arena 1.  A plan is computed on resize and applied again  *)
(* whenever its tensors are about to be used, because another graph may     *)
(* have moved the arena in between.                                         *)
(*                                                                         *)
(* The calls are made one at a time; what interleaves is the calls of       *)
(* different graphs.  A call that applies plans does so one plan per step.  *)
(*                                                                         *)
(* The root of the arenas is plain memory or, once a directory for feature  *)
(* maps is set, one MmapAllocator for both, which names its files by a      *)
(* counter that every release starts again.                                 *)
(***************************************************************************)
EXTENDS Integers, Sequences, FiniteSets

CONSTANTS
    Graphs,         \* the pipelines on the runtime
    Blocks,         \* the addresses the root allocator can return
    Sizes,          \* the sizes a plan may come to
    AllocMayFail,   \* whether onAlloc may return a null chunk
    Roots,          \* the roots the arenas may have, of "raw" and "mapped"
    Null

ASSUME ArenaAssumption ==
    /\ IsFiniteSet(Graphs) /\ IsFiniteSet(Blocks)
    /\ Null \notin Blocks /\ Null \notin Graphs
    /\ Sizes \subseteq Nat \ {0}
    /\ AllocMayFail \in BOOLEAN
    /\ Roots \subseteq {"raw", "mapped"}

Arenas == {0, 1}

VARIABLES
    current,        \* SingleBufferWithAllocator::current.first of each arena
    currentSize,
    memory,         \* the size of each block the root allocator has out, 0 if none
    root,
    mAllocTimes,    \* of the MmapAllocator
    name,           \* the number in the name of the file an arena was mapped from
    linked,         \* the arenas whose file still has its name
    mTotalSize,     \* of each plan <<g, a>>, 0 while its free list is empty
    mPtr,           \* the address a plan was last applied to
    need,           \* bytes the commands of graph g in group a work on
    backup,         \* graphs that have mDynamicAllocatorBackup
    mNeedResize,    \* graphs that must be resized before they run
    running,        \* the graph between onExecuteBegin and onExecuteEnd, or Null
    pCurrentStatus,
    op,             \* the call in progress: its kind, graph and plans
    todo,           \* the onExecuteBegin / compute / apply calls left in it,
                    \* each a sequence of plans
    code            \* the last result of apply in this call

fileVars  == <<mAllocTimes, name, linked>>
arenaVars == <<current, currentSize, memory, root, fileVars>>
planVars  == <<mTotalSize, mPtr, need, backup>>
vars      == <<arenaVars, planVars, mNeedResize, running, pCurrentStatus, op, todo, code>>

Plans == Graphs \X Arenas
Idle  == [kind |-> "idle", graph |-> Null, plans |-> {}]

Init ==
    /\ current = [a \in Arenas |-> Null]
    /\ currentSize = [a \in Arenas |-> 0]
    /\ memory = [b \in Blocks |-> 0]
    /\ root \in Roots
    /\ mAllocTimes = 0 /\ name = [a \in Arenas |-> 0] /\ linked = {}
    /\ mTotalSize = [p \in Plans |-> 0]
    /\ mPtr = [p \in Plans |-> Null]
    /\ need = [p \in Plans |-> 0]
    /\ backup = {}
    /\ mNeedResize = Graphs
    /\ running = Null
    /\ pCurrentStatus = "NO_ERROR"
    /\ op = Idle
    /\ todo = <<>>
    /\ code = "NO_ERROR"

-----------------------------------------------------------------------------
(* MmapAllocator, as the root of both arenas.                               *)

\* The arenas whose files keep their names when the mapping of a is removed:
\* the file is removed by its name, whoever it belongs to by now.
StillLinked(a) == {b \in linked \ {a} : current[a] = Null \/ name[b] # name[a]}

\* onRelease of arena a, if it has memory.
Unmap(a) ==
    IF root = "mapped" /\ current[a] # Null
    THEN /\ mAllocTimes' = 0
         /\ linked' = StillLinked(a)
         /\ name' = [name EXCEPT ![a] = 0]
         /\ UNCHANGED root
    ELSE UNCHANGED <<root, fileVars>>

\* onRelease of arena a, if it has memory, and onAlloc: a file that has the name
\* already is opened, another one is created.
Map(a) ==
    IF root = "mapped"
    THEN LET times == IF current[a] # Null THEN 0 ELSE mAllocTimes
         IN  /\ name' = [name EXCEPT ![a] = times]
             /\ mAllocTimes' = times + 1
             /\ linked' = StillLinked(a) \cup {a}
             /\ UNCHANGED root
    ELSE UNCHANGED <<root, fileVars>>

-----------------------------------------------------------------------------
(* SingleBufferWithAllocator and DeferBufferAllocator::apply.               *)

Released(m, a) == IF current[a] = Null THEN m ELSE [m EXCEPT ![current[a]] = 0]

\* release() of the arenas in A.
ReleaseArenas(A) ==
    /\ memory' = [b \in Blocks |-> IF \E a \in A : current[a] = b THEN 0 ELSE memory[b]]
    /\ currentSize' = [a \in Arenas |-> IF a \in A /\ current[a] # Null THEN 0 ELSE currentSize[a]]
    /\ current' = [a \in Arenas |-> IF a \in A THEN Null ELSE current[a]]

\* Mutant: the old block is kept by the root allocator but forgotten here.
AllocFailedLeaks(a, n) ==
    /\ memory' = memory
    /\ current' = [current EXCEPT ![a] = Null]
    /\ Unmap(a)
    /\ UNCHANGED currentSize
    /\ code' = "OUT_OF_MEMORY"

\* onAlloc has failed: the old block is gone, currentSize is as it was.
AllocFailed(a, n) ==
    /\ memory' = Released(memory, a)
    /\ current' = [current EXCEPT ![a] = Null]
    /\ Unmap(a)
    /\ UNCHANGED currentSize
    /\ code' = "OUT_OF_MEMORY"

\* realloc(size) when currentSize < size: release, then allocate.
Realloc(a, n) ==
    \/ \E b \in Blocks :
         /\ Released(memory, a)[b] = 0
         /\ memory' = [Released(memory, a) EXCEPT ![b] = n]
         /\ current' = [current EXCEPT ![a] = b]
         /\ currentSize' = [currentSize EXCEPT ![a] = n]
         /\ Map(a)
         /\ code' = "NO_ERROR"
    \/ AllocMayFail /\ AllocFailed(a, n)

\* Mutant: a plan that fits is taken to be in place.
MovedNever(p) == FALSE

\* mPtr differs from the arena's current address.
Moved(p) == mPtr[p] # current[p[2]]

\* apply() of plan p, with the tensors bound to the arena's (new) address.
Apply(p) ==
    LET a == p[2] IN
    IF mTotalSize[p] = 0
      THEN code' = "NO_ERROR" /\ UNCHANGED <<arenaVars, mPtr>>
    ELSE IF currentSize[a] < mTotalSize[p]
      THEN /\ Realloc(a, mTotalSize[p])
           /\ mPtr' = [mPtr EXCEPT ![p] = IF code' = "NO_ERROR" THEN current'[a] ELSE @]
    ELSE /\ mPtr' = [mPtr EXCEPT ![p] = IF Moved(p) THEN current[a] ELSE @]
         /\ code' = "NO_ERROR"
         /\ UNCHANGED arenaVars

\* The next plan of the call in progress.  A failure ends the innermost call;
\* onExecuteBegin and _prepareTensorMemory record it in pCurrentStatus.
ApplyNext ==
    /\ todo # <<>>
    /\ LET plans == Head(todo)
           later == Tail(todo)
       IN  IF plans = <<>>
             THEN /\ todo' = later
                  /\ UNCHANGED <<arenaVars, mPtr, pCurrentStatus, code>>
             ELSE /\ Apply(Head(plans))
                  /\ pCurrentStatus' = IF op.kind \in {"run", "copy"} THEN code' ELSE pCurrentStatus
                  /\ todo' = IF code' = "NO_ERROR" THEN <<Tail(plans)>> \o later ELSE later
    /\ UNCHANGED <<mTotalSize, need, backup, mNeedResize, running, op>>

Start(kind, g, plans, calls) ==
    /\ op' = [kind |-> kind, graph |-> g, plans |-> plans]
    /\ todo' = calls
    /\ code' = "NO_ERROR"

Quiet == op = Idle /\ running = Null
Finishes(kind) == op.kind = kind /\ todo = <<>> /\ op' = Idle /\ code' = "NO_ERROR"

-----------------------------------------------------------------------------
(* Session::resize and Pipeline::_allocForTensor.                           *)

\* Interpreter::resizeTensor: another input shape.
ResizeTensor(g) ==
    /\ Quiet
    /\ g \notin mNeedResize
    /\ mNeedResize' = mNeedResize \cup {g}
    /\ UNCHANGED <<arenaVars, planVars, running, pCurrentStatus, op, todo, code>>

\* Mutant: the total is one short, also for an empty plan.
NewPlanShort(p, n) ==
    /\ mTotalSize' = [mTotalSize EXCEPT ![p] = n - 1]
    /\ mPtr' = [mPtr EXCEPT ![p] = Null]

\* onResizeBegin's reset() and the plan's new total, as compute() finds it.
NewPlan(p, n) ==
    /\ mTotalSize' = [mTotalSize EXCEPT ![p] = n]
    /\ mPtr' = [mPtr EXCEPT ![p] = Null]

\* allocMemory and onResizeEnd: plan the commands of group 0 anew.
ResizeSession(g) ==
    /\ Quiet
    /\ g \in mNeedResize
    /\ \E n \in Sizes \cup {0} :
         /\ NewPlan(<<g, 0>>, n)
         /\ need' = [need EXCEPT ![<<g, 0>>] = n]
    /\ Start("resize", g, {<<g, 0>>}, <<<<<<g, 0>>>>>>)
    /\ UNCHANGED <<arenaVars, backup, mNeedResize, running, pCurrentStatus>>

\* mNeedResize stays true when onResizeEnd returned an error.
ResizeDone ==
    /\ Finishes("resize")
    /\ mNeedResize' = IF code = "NO_ERROR" THEN mNeedResize \ {op.graph} ELSE mNeedResize
    /\ UNCHANGED <<arenaVars, planVars, running, pCurrentStatus, todo>>

\* Pipeline::fixResizeCache: plan 0 is emptied; the commands that can be fixed,
\* if any, go to group 1 and are planned in arena 1.  The others stay in group 0.
FixResizeCache(g) ==
    /\ Quiet
    /\ g \notin mNeedResize
    /\ \E fixed \in Sizes \cup {0}, left \in {m \in Sizes \cup {0} : m <= need[<<g, 0>>]} :
         /\ need[<<g, 0>>] + need[<<g, 1>>] = 0 => fixed = 0
         /\ mTotalSize' = [mTotalSize EXCEPT ![<<g, 0>>] = 0, ![<<g, 1>>] = fixed]
         /\ mPtr' = [mPtr EXCEPT ![<<g, 0>>] = Null, ![<<g, 1>>] = Null]
         /\ need' = [need EXCEPT ![<<g, 0>>] = left, ![<<g, 1>>] = fixed]
    /\ backup' = backup \cup {g}
    /\ Start("fix", g, {<<g, 1>>}, <<<<<<g, 1>>>>>>)
    /\ UNCHANGED <<arenaVars, mNeedResize, running, pCurrentStatus>>

\* Its end, whatever _allocForTensor returned: onSelectDynamicAllocator(0)
\* releases arena 0.
FixDone ==
    /\ Finishes("fix")
    /\ ReleaseArenas({0}) /\ Unmap(0)
    /\ UNCHANGED <<planVars, mNeedResize, running, pCurrentStatus, todo>>

-----------------------------------------------------------------------------
(* Pipeline::execute.                                                       *)

\* The plans onExecuteBegin applies.
ExecutePlans(g) == IF g \in backup THEN <<<<g, 0>>, <<g, 1>>>> ELSE <<<<g, 0>>>>

\* _enterExecute calls it for the backend and for the backup backend, which
\* share their plans.
Run(g) ==
    /\ Quiet
    /\ g \notin mNeedResize
    /\ Start("run", g, {}, <<ExecutePlans(g), ExecutePlans(g)>>)
    /\ UNCHANGED <<arenaVars, planVars, mNeedResize, running, pCurrentStatus>>

RunBegun ==
    /\ Finishes("run")
    /\ running' = IF pCurrentStatus = "NO_ERROR" THEN op.graph ELSE Null
    /\ UNCHANGED <<arenaVars, planVars, mNeedResize, pCurrentStatus, todo>>

RunEnd ==
    /\ op = Idle
    /\ running # Null
    /\ running' = Null
    /\ UNCHANGED <<arenaVars, planVars, mNeedResize, pCurrentStatus, op, todo, code>>

\* Mutant: the copy prepares every plan of the tensors' graphs.
PreparePlansAll(S) ==
    LET gs == {p[1] : p \in S}
    IN  {p \in Plans : p[1] \in gs /\ (p[2] = 1 => p[1] \in backup)}

\* _prepareTensorMemory: the plans behind the two tensors of a copy.
PreparePlans(S) == S

\* The sets of plans the two tensors of one copy may lie in (static and host
\* tensors are in none).  Two graphs' tensors of one arena overlap, so nobody
\* copies between them; while a graph runs, the tensors are its own or in an
\* arena it does not use.
CopyTensors ==
    {S \in SUBSET Plans :
        /\ Cardinality(S) <= 2
        /\ \A p \in S : mTotalSize[p] > 0
        /\ \A p, q \in S : p[2] = q[2] => p = q
        /\ running # Null => \A p \in S : p[1] = running \/ mTotalSize[<<running, p[2]>>] = 0}

\* onCopyBuffer or onMapTensor.
CopyBuffer ==
    /\ op = Idle
    /\ \E S \in CopyTensors :
         \E calls \in {<<q>> : q \in {s \in [1 .. Cardinality(PreparePlans(S)) -> PreparePlans(S)] :
                                        \A i, j \in DOMAIN s : s[i] = s[j] => i = j}} :
            Start("copy", Null, S, calls)
    /\ UNCHANGED <<arenaVars, planVars, mNeedResize, running, pCurrentStatus>>

\* The copy itself happens here unless pCurrentStatus reports an error.
CopyDone ==
    /\ Finishes("copy")
    /\ UNCHANGED <<arenaVars, planVars, mNeedResize, running, pCurrentStatus, todo>>

\* onGabageCollect(100), as after the prefill of an LLM; mapped arenas stay.
GabageCollect ==
    /\ Quiet /\ root = "raw"
    /\ ReleaseArenas(Arenas)
    /\ UNCHANGED <<root, fileVars, planVars, mNeedResize, running, pCurrentStatus, op, todo, code>>

Next ==
    \/ \E g \in Graphs : ResizeTensor(g) \/ ResizeSession(g) \/ FixResizeCache(g) \/ Run(g)
    \/ ApplyNext \/ ResizeDone \/ FixDone \/ RunBegun \/ RunEnd
    \/ CopyBuffer \/ CopyDone \/ GabageCollect

Spec == Init /\ [][Next]_vars

-----------------------------------------------------------------------------
(* Properties.                                                              *)

\* Arenas, plans and the call in progress have the values the code gives them.
TypeOK ==
    /\ current \in [Arenas -> Blocks \cup {Null}]
    /\ currentSize \in [Arenas -> Nat]
    /\ memory \in [Blocks -> Nat]
    /\ root \in Roots
    /\ mAllocTimes \in Nat /\ name \in [Arenas -> Nat] /\ linked \subseteq Arenas
    /\ mTotalSize \in [Plans -> Nat]
    /\ mPtr \in [Plans -> Blocks \cup {Null}]
    /\ need \in [Plans -> Nat]
    /\ backup \subseteq Graphs
    /\ mNeedResize \subseteq Graphs
    /\ running \in Graphs \cup {Null}
    /\ pCurrentStatus \in {"NO_ERROR", "OUT_OF_MEMORY"}
    /\ op.kind \in {"idle", "resize", "fix", "run", "copy"}
    /\ op.graph \in Graphs \cup {Null}
    /\ op.plans \subseteq Plans
    /\ code \in {"NO_ERROR", "OUT_OF_MEMORY"}

\* The tensors of plan p point into the arena's block, which holds all of it.
Bound(p) ==
    mTotalSize[p] > 0 =>
      /\ mPtr[p] # Null
      /\ mPtr[p] = current[p[2]]
      /\ memory[mPtr[p]] >= mTotalSize[p]

\* A copy that has prepared its plans and goes ahead.
Copying == op.kind = "copy" /\ todo = <<>> /\ pCurrentStatus = "NO_ERROR"

\* A failed realloc has left the size of a block that is gone.
Stale(a) == current[a] = Null /\ currentSize[a] > 0

\* Whoever touches tensor memory (a graph that onExecuteBegin let run, a copy
\* that got past _prepareTensorMemory) finds every plan it uses bound to memory
\* that is allocated and large enough, whatever other graphs resized, ran,
\* fixed or collected before; only in an arena that a failed realloc has left
\* with a stale size can it miss it.
PlansBoundOrStale ==
    /\ running # Null => \A a \in Arenas : Bound(<<running, a>>) \/ Stale(a)
    /\ Copying => \A p \in op.plans : Bound(p) \/ Stale(p[2])

\* The arena's block is allocated with the size the arena believes it has, two
\* arenas never share one, and no block is leaked, also when realloc fails.
BlocksExact ==
    /\ \A a \in Arenas : current[a] # Null => currentSize[a] > 0 /\ memory[current[a]] = currentSize[a]
    /\ \A a, b \in Arenas : current[a] = current[b] /\ current[a] # Null => a = b
    /\ \A b \in Blocks : memory[b] > 0 => \E a \in Arenas : current[a] = b

\* Both arenas are mapped from the same file, so that a byte written to one of
\* them is written to the other.
OneFile == linked = Arenas /\ name[0] = name[1]

\* A graph that runs with tensors in both arenas has them in different files: it
\* computes in mapped memory what it computes in plain memory.  MmapAllocator
\* names the files by a counter that onRelease starts again, also while the other
\* arena is mapped, so this does not hold of the code.
RunsInTwoFiles ==
    running # Null /\ (\A a \in Arenas : mTotalSize[<<running, a>>] > 0) => ~OneFile

\* While a graph runs, nothing moves an arena that holds its tensors: their
\* contents would be lost although they are bound again.
ArenaStays ==
    [][running # Null /\ running' = running =>
         \A a \in Arenas : mTotalSize[<<running, a>>] > 0 => current'[a] = current[a]]_vars
=============================================================================
