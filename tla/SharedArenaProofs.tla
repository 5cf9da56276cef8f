-------------------------- MODULE SharedArenaProofs --------------------------
(***************************************************************************)
(* Proofs about SharedArena, for any number of graphs, blocks and sizes,    *)
(* with either root and with allocations that may fail.                     *)
(***************************************************************************)
EXTENDS SharedArena, FiniteSetTheorems, SequenceTheorems, TLAPS

\* Plan p was applied and nothing has moved its arena since.  A failed realloc
\* may have left the arena without a block: then both addresses are Null.
InPlace(p) ==
    mTotalSize[p] > 0 =>
      /\ currentSize[p[2]] >= mTotalSize[p]
      /\ mPtr[p] = current[p[2]]

Listed(p, call) == \E i \in DOMAIN call : call[i] = p

\* What the call in progress is, and that only copies are made while a graph runs.
OpInv ==
    /\ op \in [kind : {"idle", "resize", "fix", "run", "copy"},
               graph : Graphs \cup {Null}, plans : SUBSET Plans]
    /\ todo \in Seq(Seq(Plans))
    /\ op.kind = "idle" => op = Idle /\ todo = <<>>
    /\ running # Null => op.kind \in {"idle", "copy"}

\* A run in its last call of onExecuteBegin: every plan is in place or still to
\* be applied, and the last result tells whether the call was cut short.
BeginInv ==
    op.kind = "run" =>
      /\ op.graph \in Graphs
      /\ Len(todo) \in 0 .. 2
      /\ \A k \in DOMAIN todo : \A i \in DOMAIN todo[k] : todo[k][i][1] = op.graph
      /\ Len(todo) = 2 => todo[2] = ExecutePlans(op.graph)
      /\ Len(todo) = 1 => \A a \in Arenas : InPlace(<<op.graph, a>>) \/ Listed(<<op.graph, a>>, todo[1])
      /\ todo = <<>> /\ pCurrentStatus = "NO_ERROR" => \A a \in Arenas : InPlace(<<op.graph, a>>)

\* The same of a copy, whose plans are in different arenas and not in those
\* that another graph is running on.
CopyInv ==
    op.kind = "copy" =>
      /\ Len(todo) \in 0 .. 1
      /\ \A p, q \in op.plans : p[2] = q[2] => p = q
      /\ running # Null => \A p \in op.plans : p[1] = running \/ mTotalSize[<<running, p[2]>>] = 0
      /\ Len(todo) = 1 => /\ \A i \in DOMAIN todo[1] : todo[1][i] \in op.plans
                          /\ \A p \in op.plans : InPlace(p) \/ Listed(p, todo[1])
      /\ todo = <<>> /\ pCurrentStatus = "NO_ERROR" => \A p \in op.plans : InPlace(p)

RunInv == running # Null => \A a \in Arenas : InPlace(<<running, a>>)

\* A graph plans in arena 1 only once its resize cache is fixed.
BackupInv == \A g \in Graphs \ backup : mTotalSize[<<g, 1>>] = 0

IInv ==
    /\ TypeOK /\ BlocksExact /\ BackupInv
    /\ OpInv /\ BeginInv /\ CopyInv /\ RunInv

-----------------------------------------------------------------------------
(* The arenas alone.                                                        *)

ArenaTypes ==
    /\ current \in [Arenas -> Blocks \cup {Null}]
    /\ currentSize \in [Arenas -> Nat]
    /\ memory \in [Blocks -> Nat]
    /\ root \in Roots

FileTypes ==
    /\ mAllocTimes \in Nat /\ name \in [Arenas -> Nat] /\ linked \subseteq Arenas

\* The two arenas are each other's only neighbour.
LEMMA TwoArenas ==
    /\ \A a \in Arenas : a = 0 \/ a = 1
    /\ \A a, b, c \in Arenas : b # a /\ c # a => b = c
  BY DEF Arenas

\* A plan is the pair of its graph and its arena.
LEMMA PlanFacts == \A p \in Plans : p[1] \in Graphs /\ p[2] \in Arenas /\ p = <<p[1], p[2]>>
  BY DEF Plans

\* Mapping arena a from a file, or removing the mapping, leaves the types alone.
LEMMA FilesKeep ==
    ASSUME FileTypes, NEW a \in Arenas, Unmap(a) \/ Map(a)
    PROVE  FileTypes' /\ root' = root
<1>1. StillLinked(a) \subseteq Arenas
  BY DEF StillLinked, FileTypes
<1>2. CASE Unmap(a)
  BY <1>1, <1>2 DEF Unmap, FileTypes, fileVars
<1>3. CASE Map(a)
  <2>1. CASE root = "mapped"
    <3> DEFINE times == IF current[a] # Null THEN 0 ELSE mAllocTimes
    <3>1. /\ times \in Nat /\ name' = [name EXCEPT ![a] = times] /\ mAllocTimes' = times + 1
          /\ linked' = StillLinked(a) \cup {a} /\ root' = root
      BY <1>3, <2>1 DEF Map, FileTypes
    <3>2. QED
      BY <1>1, <3>1 DEF FileTypes
  <2>2. CASE root # "mapped"
    BY <1>3, <2>2 DEF Map, FileTypes, fileVars
  <2>3. QED
    BY <2>1, <2>2
<1>4. QED
  BY <1>2, <1>3

\* A block taken for arena a, or its loss, leaves the other arena's alone.
LEMMA ReallocKeeps ==
    ASSUME ArenaTypes, FileTypes, BlocksExact,
           NEW a \in Arenas, NEW n \in Nat \ {0}, Realloc(a, n)
    PROVE  /\ ArenaTypes' /\ FileTypes' /\ BlocksExact'
           /\ \A b \in Arenas \ {a} : current'[b] = current[b] /\ currentSize'[b] = currentSize[b]
           /\ code' \in {"NO_ERROR", "OUT_OF_MEMORY"}
           /\ code' = "NO_ERROR" => currentSize'[a] = n
<1> USE DEF ArenaTypes
<1>1. Released(memory, a) \in [Blocks -> Nat]
  BY DEF Released
<1>2. \A b \in Blocks : Released(memory, a)[b] = IF b = current[a] THEN 0 ELSE memory[b]
  BY ArenaAssumption DEF Released
<1>3. ASSUME NEW c \in Blocks, Released(memory, a)[c] = 0,
             memory' = [Released(memory, a) EXCEPT ![c] = n],
             current' = [current EXCEPT ![a] = c],
             currentSize' = [currentSize EXCEPT ![a] = n], Map(a), code' = "NO_ERROR"
      PROVE  /\ ArenaTypes' /\ FileTypes' /\ BlocksExact'
             /\ \A b \in Arenas \ {a} : current'[b] = current[b] /\ currentSize'[b] = currentSize[b]
             /\ currentSize'[a] = n
  <2>1. FileTypes' /\ root' = root
    BY <1>3, FilesKeep
  <2>2. ArenaTypes'
    BY <1>1, <1>3, <2>1
  <2>3. \A b \in Arenas \ {a} : current'[b] = current[b] /\ currentSize'[b] = currentSize[b]
    BY <1>3
  <2>4. current'[a] = c /\ currentSize'[a] = n /\ memory'[c] = n
    BY <1>1, <1>3
  <2>5. \A b \in Arenas \ {a} : current[b] # Null =>
           current[b] # c /\ current[b] # current[a] /\ memory'[current[b]] = memory[current[b]]
    BY <1>1, <1>2, <1>3 DEF BlocksExact
  <2>6. BlocksExact'
    <3>1. \A b \in Arenas : current'[b] # Null => currentSize'[b] > 0 /\ memory'[current'[b]] = currentSize'[b]
      BY <2>3, <2>4, <2>5 DEF BlocksExact
    <3>2. \A b, d \in Arenas : current'[b] = current'[d] /\ current'[b] # Null => b = d
      BY <2>3, <2>4, <2>5, TwoArenas DEF BlocksExact
    <3>3. \A e \in Blocks : memory'[e] > 0 => \E b \in Arenas : current'[b] = e
      BY <1>1, <1>2, <1>3, <2>3, <2>4 DEF BlocksExact
    <3>4. QED
      BY <3>1, <3>2, <3>3 DEF BlocksExact
  <2>7. QED
    BY <2>1, <2>2, <2>3, <2>4, <2>6
<1>4. ASSUME AllocFailed(a, n)
      PROVE  /\ ArenaTypes' /\ FileTypes' /\ BlocksExact'
             /\ \A b \in Arenas \ {a} : current'[b] = current[b] /\ currentSize'[b] = currentSize[b]
             /\ code' = "OUT_OF_MEMORY"
  <2>1. /\ memory' = Released(memory, a) /\ current' = [current EXCEPT ![a] = Null]
        /\ currentSize' = currentSize /\ code' = "OUT_OF_MEMORY" /\ Unmap(a)
    BY <1>4 DEF AllocFailed
  <2>2. FileTypes' /\ root' = root
    BY <2>1, FilesKeep
  <2>3. ArenaTypes'
    BY <1>1, <2>1, <2>2
  <2>4. BlocksExact'
    <3>1. \A b \in Arenas : current'[b] # Null => currentSize'[b] > 0 /\ memory'[current'[b]] = currentSize'[b]
      BY <1>2, <2>1 DEF BlocksExact
    <3>2. \A b, d \in Arenas : current'[b] = current'[d] /\ current'[b] # Null => b = d
      BY <2>1 DEF BlocksExact
    <3>3. \A e \in Blocks : memory'[e] > 0 => \E b \in Arenas : current'[b] = e
      BY <1>2, <2>1 DEF BlocksExact
    <3>4. QED
      BY <3>1, <3>2, <3>3 DEF BlocksExact
  <2>5. QED
    BY <2>1, <2>2, <2>3, <2>4
<1>5. QED
  BY <1>3, <1>4 DEF Realloc

\* release() of some arenas.
LEMMA ReleaseKeeps ==
    ASSUME ArenaTypes, BlocksExact, NEW A \in SUBSET Arenas, ReleaseArenas(A), root' = root
    PROVE  ArenaTypes' /\ BlocksExact'
<1> USE DEF ArenaTypes, ReleaseArenas
<1>1. ArenaTypes'
  OBVIOUS
<1>2. \A b \in Arenas : current'[b] # Null => currentSize'[b] > 0 /\ memory'[current'[b]] = currentSize'[b]
  BY DEF BlocksExact
<1>3. \A b, d \in Arenas : current'[b] = current'[d] /\ current'[b] # Null => b = d
  BY DEF BlocksExact
<1>4. \A e \in Blocks : memory'[e] > 0 => \E b \in Arenas : current'[b] = e
  BY DEF BlocksExact
<1>5. QED
  BY <1>1, <1>2, <1>3, <1>4 DEF BlocksExact

\* Applying a plan puts it in place or reports that it could not, and disturbs
\* no plan of the other arena; one that is in place already changes nothing.
LEMMA ApplyKeeps ==
    ASSUME ArenaTypes, FileTypes, BlocksExact,
           mTotalSize \in [Plans -> Nat], mPtr \in [Plans -> Blocks \cup {Null}],
           NEW p \in Plans, Apply(p), UNCHANGED mTotalSize
    PROVE  /\ ArenaTypes' /\ FileTypes' /\ BlocksExact'
           /\ mPtr' \in [Plans -> Blocks \cup {Null}]
           /\ code' \in {"NO_ERROR", "OUT_OF_MEMORY"}
           /\ code' = "NO_ERROR" => InPlace(p)'
           /\ \A q \in Plans : InPlace(q) /\ (q[2] # p[2] \/ InPlace(p)) => InPlace(q)'
           /\ \A a \in Arenas : a # p[2] \/ InPlace(p) => current'[a] = current[a]
<1> USE PlanFacts
<1>1. CASE mTotalSize[p] = 0 \/ currentSize[p[2]] >= mTotalSize[p]
  <2>1. UNCHANGED arenaVars /\ code' = "NO_ERROR"
    BY <1>1 DEF Apply, ArenaTypes
  <2>2. /\ ArenaTypes' /\ FileTypes' /\ BlocksExact'
        /\ UNCHANGED <<current, currentSize>>
    BY <2>1 DEF arenaVars, fileVars, ArenaTypes, FileTypes, BlocksExact
  <2>3. /\ mPtr' \in [Plans -> Blocks \cup {Null}]
        /\ \A q \in Plans : q # p => mPtr'[q] = mPtr[q]
        /\ mTotalSize[p] > 0 => mPtr'[p] = current[p[2]]
    BY <1>1 DEF Apply, ArenaTypes, Moved
  <2>4. \A q \in Plans : InPlace(q) => InPlace(q)'
    BY <2>2, <2>3 DEF InPlace
  <2>5. InPlace(p)'
    BY <1>1, <2>2, <2>3 DEF InPlace, ArenaTypes
  <2>6. QED
    BY <2>1, <2>2, <2>3, <2>4, <2>5
<1>2. CASE mTotalSize[p] # 0 /\ currentSize[p[2]] < mTotalSize[p]
  <2>1. /\ Realloc(p[2], mTotalSize[p]) /\ mTotalSize[p] \in Nat \ {0}
        /\ mPtr' = [mPtr EXCEPT ![p] = IF code' = "NO_ERROR" THEN current'[p[2]] ELSE @]
    BY <1>2 DEF Apply
  <2>2. /\ ArenaTypes' /\ FileTypes' /\ BlocksExact'
        /\ \A b \in Arenas \ {p[2]} : current'[b] = current[b] /\ currentSize'[b] = currentSize[b]
        /\ code' \in {"NO_ERROR", "OUT_OF_MEMORY"}
        /\ code' = "NO_ERROR" => currentSize'[p[2]] = mTotalSize[p]
    BY <2>1, ReallocKeeps
  <2>3. mPtr' \in [Plans -> Blocks \cup {Null}] /\ \A q \in Plans : q # p => mPtr'[q] = mPtr[q]
    BY <2>1, <2>2 DEF ArenaTypes
  <2>4. code' = "NO_ERROR" => InPlace(p)'
    BY <2>1, <2>2 DEF InPlace, ArenaTypes
  <2>5. ~InPlace(p)
    BY <1>2 DEF InPlace, ArenaTypes
  <2>6. \A q \in Plans : InPlace(q) /\ q[2] # p[2] => InPlace(q)'
    BY <2>2, <2>3 DEF InPlace
  <2>7. QED
    BY <2>2, <2>3, <2>4, <2>5, <2>6
<1>3. QED
  BY <1>1, <1>2 DEF ArenaTypes

-----------------------------------------------------------------------------
(* Lists of calls and of plans.                                             *)

\* The first element of a list, and the list without it.
LEMMA TailFacts ==
    ASSUME NEW S, NEW s \in Seq(S), s # <<>>
    PROVE  /\ Head(s) = s[1] /\ s[1] \in S /\ Len(s) \in Nat \ {0} /\ DOMAIN s = 1 .. Len(s)
           /\ Tail(s) \in Seq(S) /\ Len(Tail(s)) = Len(s) - 1
           /\ DOMAIN Tail(s) = 1 .. Len(s) - 1
           /\ \A i \in 1 .. Len(s) - 1 : Tail(s)[i] = s[i + 1]
           /\ Len(s) = 1 => Tail(s) = <<>>
<1>1. /\ Head(s) = s[1] /\ Len(s) \in Nat /\ DOMAIN s = 1 .. Len(s)
      /\ Len(s) = 0 => s = <<>>
  OBVIOUS
<1>2. /\ Head(s) \in S /\ Tail(s) \in Seq(S) /\ Len(Tail(s)) = Len(s) - 1
      /\ \A i \in 1 .. Len(Tail(s)) : Tail(s)[i] = s[i + 1]
  BY HeadTailProperties
<1>3. DOMAIN Tail(s) = 1 .. Len(Tail(s)) /\ (Len(Tail(s)) = 0 => Tail(s) = <<>>)
  BY <1>2, EmptySeq
<1>4. QED
  BY <1>1, <1>2, <1>3

\* A list with an element put before it.
LEMMA ConsFacts ==
    ASSUME NEW S, NEW x \in S, NEW s \in Seq(S)
    PROVE  /\ <<x>> \o s \in Seq(S) /\ Len(<<x>> \o s) = Len(s) + 1
           /\ DOMAIN (<<x>> \o s) = 1 .. Len(s) + 1
           /\ (<<x>> \o s)[1] = x
           /\ \A i \in 1 .. Len(s) : (<<x>> \o s)[i + 1] = s[i]
           /\ <<x>> \o s # <<>>
  OBVIOUS

\* The same for the lists of calls that a run or a copy still has.
LEMMA ConsShort ==
    ASSUME NEW S, NEW x \in S, NEW y \in S
    PROVE  <<x>> \o <<>> = <<x>> /\ <<x>> \o <<y>> = <<x, y>>
<1>1. <<x>> \o <<>> = <<x>>
  OBVIOUS
<1>2. /\ <<x>> \o <<y>> \in Seq(S) /\ <<x, y>> \in Seq(S)
      /\ Len(<<x>> \o <<y>>) = 2 /\ Len(<<x, y>>) = 2
      /\ (<<x>> \o <<y>>)[1] = x /\ (<<x>> \o <<y>>)[2] = y
  OBVIOUS
<1>3. \A i \in 1 .. 2 : (<<x>> \o <<y>>)[i] = <<x, y>>[i]
  BY <1>2
<1>4. <<x>> \o <<y>> = <<x, y>>
  BY <1>2, <1>3, SeqEqual
<1>5. QED
  BY <1>1, <1>4

\* A plan that is listed is the first or in the rest.
LEMMA ListedRest ==
    ASSUME NEW call \in Seq(Plans), call # <<>>, NEW p, Listed(p, call), p # call[1]
    PROVE  Listed(p, Tail(call))
<1>1. PICK i \in DOMAIN call : call[i] = p
  BY DEF Listed
<1>2. i \in 2 .. Len(call) /\ i - 1 \in DOMAIN Tail(call) /\ Tail(call)[i - 1] = p
  BY <1>1, TailFacts
<1>3. QED
  BY <1>2 DEF Listed

\* An empty call lists no plan.
LEMMA ListedNone == \A p : ~Listed(p, <<>>)
  BY DEF Listed

\* onExecuteBegin applies every plan that has a size.
LEMMA ExecuteFacts ==
    ASSUME BackupInv, NEW g \in Graphs
    PROVE  /\ ExecutePlans(g) \in Seq(Plans)
           /\ \A i \in DOMAIN ExecutePlans(g) : ExecutePlans(g)[i][1] = g
           /\ \A a \in Arenas : Listed(<<g, a>>, ExecutePlans(g)) \/ mTotalSize[<<g, a>>] = 0
           /\ \A a \in Arenas : InPlace(<<g, a>>) \/ Listed(<<g, a>>, ExecutePlans(g))
<1>0. <<g, 0>> \in Plans /\ <<g, 1>> \in Plans
  BY DEF Plans, Arenas
<1>1. CASE g \in backup
  <2>1. ExecutePlans(g) = <<<<g, 0>>, <<g, 1>>>>
    BY <1>1 DEF ExecutePlans
  <2>2. Listed(<<g, 0>>, ExecutePlans(g)) /\ Listed(<<g, 1>>, ExecutePlans(g))
    BY <2>1 DEF Listed
  <2>3. QED
    BY <1>0, <2>1, <2>2, TwoArenas
<1>2. CASE g \notin backup
  <2>1. ExecutePlans(g) = <<<<g, 0>>>>
    BY <1>2 DEF ExecutePlans
  <2>2. Listed(<<g, 0>>, ExecutePlans(g)) /\ InPlace(<<g, 1>>) /\ mTotalSize[<<g, 1>>] = 0
    BY <1>2, <2>1 DEF Listed, BackupInv, InPlace
  <2>3. QED
    BY <1>0, <2>1, <2>2, TwoArenas
<1>3. QED
  BY <1>1, <1>2

-----------------------------------------------------------------------------
(* The invariant.                                                           *)

PlanTypes ==
    /\ mTotalSize \in [Plans -> Nat]
    /\ mPtr \in [Plans -> Blocks \cup {Null}]
    /\ need \in [Plans -> Nat]
    /\ backup \subseteq Graphs

CallTypes ==
    /\ mNeedResize \subseteq Graphs
    /\ running \in Graphs \cup {Null}
    /\ pCurrentStatus \in {"NO_ERROR", "OUT_OF_MEMORY"}
    /\ code \in {"NO_ERROR", "OUT_OF_MEMORY"}

\* The type invariant in parts; op has its type from OpInv.
LEMMA Types ==
    ASSUME OpInv
    PROVE  TypeOK <=> ArenaTypes /\ FileTypes /\ PlanTypes /\ CallTypes
  BY DEF TypeOK, OpInv, ArenaTypes, FileTypes, PlanTypes, CallTypes

\* The same after a step.
LEMMA TypesNext ==
    ASSUME OpInv'
    PROVE  TypeOK' <=> ArenaTypes' /\ FileTypes' /\ PlanTypes' /\ CallTypes'
  BY DEF TypeOK, OpInv, ArenaTypes, FileTypes, PlanTypes, CallTypes

\* Nothing is planned and nothing allocated.
LEMMA InitIInv == Init => IInv
<1> SUFFICES ASSUME Init PROVE IInv
  OBVIOUS
<1> USE DEF Init
<1>1. OpInv
  BY DEF OpInv, Idle
<1>2. ArenaTypes /\ PlanTypes /\ CallTypes
  BY DEF ArenaTypes, PlanTypes, CallTypes
<1>3. FileTypes
  BY DEF FileTypes
<1>4. BlocksExact
  BY DEF BlocksExact, Arenas
<1>5. BackupInv
  BY DEF BackupInv, Plans, Arenas
<1>6. BeginInv /\ CopyInv /\ RunInv
  BY DEF BeginInv, CopyInv, RunInv, Idle
<1>7. QED
  BY <1>1, <1>2, <1>3, <1>4, <1>5, <1>6, Types DEF IInv

\* The shapes of todo in a run and in a copy.
LEMMA Shapes ==
    ASSUME NEW s \in Seq(Seq(Plans))
    PROVE  /\ Len(s) = 0 => s = <<>>
           /\ Len(s) = 1 => s = <<s[1]>>
           /\ Len(s) = 2 => s = <<s[1], s[2]>>
  OBVIOUS

\* The call in progress and those after it, for the lengths todo can have.
LEMMA TodoFacts ==
    ASSUME todo \in Seq(Seq(Plans)), todo # <<>>
    PROVE  \E plans \in Seq(Plans), later \in Seq(Seq(Plans)) :
             /\ plans = Head(todo) /\ later = Tail(todo) /\ plans = todo[1]
             /\ Len(todo) \in Nat \ {0}
             /\ Len(todo) = 1 => todo = <<plans>> /\ later = <<>>
             /\ Len(todo) = 2 => todo = <<plans, todo[2]>> /\ later = <<todo[2]>>
<1>1. /\ Head(todo) = todo[1] /\ todo[1] \in Seq(Plans) /\ Len(todo) \in Nat \ {0}
      /\ Tail(todo) \in Seq(Seq(Plans)) /\ Len(Tail(todo)) = Len(todo) - 1
      /\ \A i \in 1 .. Len(todo) - 1 : Tail(todo)[i] = todo[i + 1]
      /\ Len(todo) = 1 => Tail(todo) = <<>>
  BY TailFacts
<1>2. ASSUME Len(todo) = 2 PROVE Tail(todo) = <<todo[2]>>
  <2>1. Len(Tail(todo)) = 1 /\ Tail(todo)[1] = todo[2]
    BY <1>1, <1>2
  <2>2. Tail(todo) = <<Tail(todo)[1]>>
    BY <1>1, <2>1, Shapes
  <2>3. QED
    BY <2>1, <2>2
<1>3. QED
  BY <1>1, <1>2, Shapes

\* How BeginInv is established, for the two shapes with something to do.
LEMMA BeginOne ==
    ASSUME NEW g \in Graphs, op'.graph = g, NEW c \in Seq(Plans), todo' = <<c>>,
           \A i \in DOMAIN c : c[i][1] = g,
           \A a \in Arenas : InPlace(<<g, a>>)' \/ Listed(<<g, a>>, c)
    PROVE  BeginInv'
<1>1. Len(todo') = 1 /\ todo'[1] = c /\ DOMAIN todo' = {1} /\ todo' # <<>>
  OBVIOUS
<1>2. \A a \in Arenas : InPlace(<<op.graph, a>>)' \/ Listed(<<op.graph, a>>, todo[1])'
  BY <1>1 DEF InPlace, Listed
<1>3. QED
  BY <1>1, <1>2 DEF BeginInv

\* The same with a call that precedes the one of the executing backend.
LEMMA BeginTwo ==
    ASSUME NEW g \in Graphs, op'.graph = g, backup' = backup, BackupInv,
           NEW c \in Seq(Plans), todo' = <<c, ExecutePlans(g)>>,
           \A i \in DOMAIN c : c[i][1] = g
    PROVE  BeginInv'
<1>1. /\ Len(todo') = 2 /\ todo'[1] = c /\ todo'[2] = ExecutePlans(g)
      /\ DOMAIN todo' = {1, 2} /\ todo' # <<>>
  OBVIOUS
<1>2. \A k \in DOMAIN todo' : \A i \in DOMAIN todo'[k] : todo'[k][i][1] = g
  BY <1>1, ExecuteFacts
<1>3. ExecutePlans(op.graph)' = ExecutePlans(g)
  BY DEF ExecutePlans
<1>4. QED
  BY <1>1, <1>2, <1>3 DEF BeginInv

\* A step of a run: what it needs to know of the plan it applies.
LEMMA RunKeeps ==
    ASSUME NEW g \in Graphs, NEW plans \in Seq(Plans),
           BeginInv, BackupInv, op.kind = "run", op.graph = g, UNCHANGED <<mTotalSize, backup, op>>,
           plans = todo[1],
           Len(todo) \in Nat \ {0},
           Len(todo) = 1 => todo = <<plans>>,
           Len(todo) = 2 => todo = <<plans, todo[2]>>
    PROVE  /\ Len(todo) \in {1, 2}
           /\ \A i \in DOMAIN plans : plans[i][1] = g
           /\ Len(todo) = 2 => todo = <<plans, ExecutePlans(g)>>
           /\ Len(todo) = 1 => \A a \in Arenas : InPlace(<<g, a>>) \/ Listed(<<g, a>>, plans)
  BY DEF BeginInv

\* A call is done: the next one is as complete as a call can be.
LEMMA CallDoneKeeps ==
    ASSUME IInv, ApplyNext, Head(todo) = <<>>
    PROVE  IInv'
<1>1. /\ ArenaTypes /\ FileTypes /\ PlanTypes /\ CallTypes
      /\ BlocksExact /\ BackupInv /\ OpInv /\ BeginInv /\ CopyInv /\ RunInv
  BY Types DEF IInv
<1>2. PICK plans \in Seq(Plans), later \in Seq(Seq(Plans)) :
             /\ plans = Head(todo) /\ later = Tail(todo) /\ plans = todo[1]
             /\ Len(todo) \in Nat \ {0}
             /\ Len(todo) = 1 => todo = <<plans>> /\ later = <<>>
             /\ Len(todo) = 2 => todo = <<plans, todo[2]>> /\ later = <<todo[2]>>
  BY <1>1, TodoFacts DEF OpInv, ApplyNext
<1>3. /\ UNCHANGED <<mTotalSize, need, backup, mNeedResize, running, op>>
      /\ todo' = later /\ UNCHANGED <<arenaVars, mPtr, pCurrentStatus, code>>
  BY <1>2 DEF ApplyNext
<1>4. /\ ArenaTypes' /\ FileTypes' /\ PlanTypes' /\ CallTypes' /\ BlocksExact' /\ BackupInv'
  BY <1>1, <1>3 DEF ArenaTypes, FileTypes, PlanTypes, CallTypes, BlocksExact, BackupInv, arenaVars, fileVars
<1>5. OpInv'
  BY <1>1, <1>2, <1>3 DEF OpInv, ApplyNext
<1>6. \A p : InPlace(p)' <=> InPlace(p)
  BY <1>3 DEF InPlace, arenaVars
<1>7. BeginInv'
  <2> SUFFICES ASSUME op.kind = "run" PROVE BeginInv'
    BY <1>3 DEF BeginInv
  <2>1. PICK g \in Graphs : g = op.graph
    BY <1>1 DEF BeginInv
  <2>2. /\ Len(todo) \in {1, 2}
        /\ Len(todo) = 2 => todo = <<plans, ExecutePlans(g)>>
        /\ Len(todo) = 1 => \A a \in Arenas : InPlace(<<g, a>>) \/ Listed(<<g, a>>, plans)
    BY <1>1, <1>2, <1>3, <2>1, RunKeeps
  <2>3. CASE Len(todo) = 2
    <3>1. todo' = <<ExecutePlans(g)>>
      BY <1>2, <1>3, <2>2, <2>3
    <3>2. \A a \in Arenas : InPlace(<<g, a>>)' \/ Listed(<<g, a>>, ExecutePlans(g))
      BY <1>1, <1>6, ExecuteFacts
    <3>3. QED
      BY <1>1, <1>3, <2>1, <3>1, <3>2, ExecuteFacts, BeginOne
  <2>4. CASE Len(todo) = 1
    <3>1. todo' = <<>> /\ Len(todo') = 0 /\ DOMAIN todo' = {}
      BY <1>2, <1>3, <2>4
    <3>2. \A a \in Arenas : InPlace(<<g, a>>)
      BY <1>2, <2>2, <2>4, ListedNone
    <3>3. \A a \in Arenas : InPlace(<<op.graph, a>>)'
      BY <1>3, <2>1, <3>2 DEF InPlace, arenaVars
    <3>4. QED
      BY <1>1, <1>3, <2>1, <3>1, <3>3 DEF BeginInv
  <2>5. QED
    BY <2>2, <2>3, <2>4
<1>8. CopyInv'
  <2> SUFFICES ASSUME op.kind = "copy" PROVE CopyInv'
    BY <1>3 DEF CopyInv
  <2>1. Len(todo) = 1 /\ todo' = <<>> /\ Len(todo') = 0
    BY <1>1, <1>2, <1>3 DEF CopyInv
  <2>2. \A p \in op.plans : InPlace(p)
    BY <1>1, <1>2, <2>1, ListedNone DEF CopyInv
  <2>3. QED
    BY <1>1, <1>3, <1>6, <2>1, <2>2 DEF CopyInv
<1>9. RunInv'
  BY <1>1, <1>3 DEF RunInv, InPlace, arenaVars
<1>10. QED
  BY <1>4, <1>5, <1>7, <1>8, <1>9, TypesNext DEF IInv

\* One plan of a call is applied; a failure ends the call.
LEMMA PlanAppliedKeeps ==
    ASSUME IInv, ApplyNext, Head(todo) # <<>>
    PROVE  IInv'
<1>1. /\ ArenaTypes /\ FileTypes /\ PlanTypes /\ CallTypes
      /\ BlocksExact /\ BackupInv /\ OpInv /\ BeginInv /\ CopyInv /\ RunInv
  BY Types DEF IInv
<1>2. PICK plans \in Seq(Plans), later \in Seq(Seq(Plans)) :
             /\ plans = Head(todo) /\ later = Tail(todo) /\ plans = todo[1]
             /\ Len(todo) \in Nat \ {0}
             /\ Len(todo) = 1 => todo = <<plans>> /\ later = <<>>
             /\ Len(todo) = 2 => todo = <<plans, todo[2]>> /\ later = <<todo[2]>>
  BY <1>1, TodoFacts DEF OpInv, ApplyNext
<1>3. PICK p \in Plans, left \in Seq(Plans) :
             /\ p = Head(plans) /\ left = Tail(plans) /\ p = plans[1]
             /\ DOMAIN plans = 1 .. Len(plans) /\ Len(plans) \in Nat \ {0}
             /\ DOMAIN left = 1 .. Len(plans) - 1
             /\ \A i \in 1 .. Len(plans) - 1 : left[i] = plans[i + 1]
  <2>1. /\ Head(plans) = plans[1] /\ plans[1] \in Plans /\ Len(plans) \in Nat \ {0}
        /\ DOMAIN plans = 1 .. Len(plans)
        /\ Tail(plans) \in Seq(Plans) /\ DOMAIN Tail(plans) = 1 .. Len(plans) - 1
        /\ \A i \in 1 .. Len(plans) - 1 : Tail(plans)[i] = plans[i + 1]
    BY <1>2, TailFacts
  <2>2. QED
    BY <2>1
<1>4. /\ UNCHANGED <<mTotalSize, need, backup, mNeedResize, running, op>>
      /\ Apply(p)
      /\ pCurrentStatus' = IF op.kind \in {"run", "copy"} THEN code' ELSE pCurrentStatus
      /\ todo' = IF code' = "NO_ERROR" THEN <<left>> \o later ELSE later
  BY <1>2, <1>3 DEF ApplyNext
<1>5. /\ ArenaTypes' /\ FileTypes' /\ BlocksExact'
      /\ mPtr' \in [Plans -> Blocks \cup {Null}]
      /\ code' \in {"NO_ERROR", "OUT_OF_MEMORY"}
      /\ code' = "NO_ERROR" => InPlace(p)'
      /\ \A q \in Plans : InPlace(q) /\ (q[2] # p[2] \/ InPlace(p)) => InPlace(q)'
  BY <1>1, <1>4, ApplyKeeps DEF PlanTypes
<1>6. PlanTypes' /\ CallTypes' /\ BackupInv'
  BY <1>1, <1>4, <1>5 DEF PlanTypes, CallTypes, BackupInv
<1>7. OpInv'
  <2>1. <<left>> \o later \in Seq(Seq(Plans))
    BY ConsFacts
  <2>2. todo' \in Seq(Seq(Plans)) /\ op.kind # "idle"
    BY <1>1, <1>4, <2>1 DEF OpInv, ApplyNext
  <2>3. QED
    BY <1>1, <1>4, <2>2 DEF OpInv
<1>8. \A q \in Plans : (InPlace(q) \/ Listed(q, plans)) /\ (q[2] # p[2] \/ q = p) /\ code' = "NO_ERROR"
          => InPlace(q)' \/ Listed(q, left)
  <2> SUFFICES ASSUME NEW q \in Plans, InPlace(q) \/ Listed(q, plans), q[2] # p[2] \/ q = p,
                      code' = "NO_ERROR"
               PROVE  InPlace(q)' \/ Listed(q, left)
    OBVIOUS
  <2>1. CASE q = p
    BY <1>5, <2>1
  <2>2. CASE q # p /\ InPlace(q)
    BY <1>5, <2>2
  <2>3. CASE q # p /\ Listed(q, plans)
    BY <1>2, <1>3, <2>3, ListedRest
  <2>4. QED
    BY <2>1, <2>2, <2>3
<1>9. BeginInv'
  <2> SUFFICES ASSUME op.kind = "run" PROVE BeginInv'
    BY <1>4 DEF BeginInv
  <2>1. PICK g \in Graphs : g = op.graph
    BY <1>1 DEF BeginInv
  <2>2. /\ Len(todo) \in {1, 2}
        /\ \A i \in DOMAIN plans : plans[i][1] = g
        /\ Len(todo) = 2 => todo = <<plans, ExecutePlans(g)>>
        /\ Len(todo) = 1 => \A a \in Arenas : InPlace(<<g, a>>) \/ Listed(<<g, a>>, plans)
    BY <1>1, <1>2, <1>4, <2>1, RunKeeps
  <2>3. p[1] = g /\ \A i \in DOMAIN left : left[i][1] = g
    <3>1. \A i \in 1 .. Len(plans) - 1 : i + 1 \in DOMAIN plans
      BY <1>3
    <3>2. \A i \in 1 .. Len(plans) - 1 : left[i][1] = g
      BY <1>3, <2>2, <3>1
    <3>3. p[1] = g
      BY <1>3, <2>2
    <3>4. QED
      BY <1>3, <3>2, <3>3
  <2>4. ExecutePlans(g) \in Seq(Plans)
    BY <1>1, ExecuteFacts
  <2>5. CASE Len(todo) = 1 /\ code' = "NO_ERROR"
    <3>1. todo' = <<left>>
      BY <1>2, <1>4, <2>5, ConsShort
    <3>2. \A a \in Arenas : <<g, a>> \in Plans /\ (<<g, a>>[2] # p[2] \/ <<g, a>> = p)
      BY <2>3, PlanFacts DEF Plans
    <3>3. ASSUME NEW a \in Arenas PROVE InPlace(<<g, a>>)' \/ Listed(<<g, a>>, left)
      <4>1. PICK q \in Plans : q = <<g, a>>
        BY <3>2
      <4>2. (InPlace(q) \/ Listed(q, plans)) /\ (q[2] # p[2] \/ q = p)
        BY <2>2, <2>5, <3>2, <4>1
      <4>3. InPlace(q)' \/ Listed(q, left)
        BY <1>8, <2>5, <4>2
      <4>4. QED
        BY <4>1, <4>3 DEF InPlace
    <3>4. QED
      BY <1>4, <2>1, <2>3, <3>1, <3>3, BeginOne
  <2>6. CASE Len(todo) = 2 /\ code' = "NO_ERROR"
    <3>1. later = <<ExecutePlans(g)>>
      BY <1>2, <2>2, <2>6
    <3>2. todo' = <<left, ExecutePlans(g)>>
      BY <1>4, <2>4, <2>6, <3>1, ConsShort
    <3>3. QED
      BY <1>1, <1>4, <2>1, <2>3, <3>2, BeginTwo
  <2>7. CASE Len(todo) = 1 /\ code' # "NO_ERROR"
    <3>1. todo' = <<>> /\ Len(todo') = 0 /\ DOMAIN todo' = {} /\ pCurrentStatus' # "NO_ERROR"
      BY <1>2, <1>4, <2>7
    <3>2. QED
      BY <1>4, <2>1, <3>1 DEF BeginInv
  <2>8. CASE Len(todo) = 2 /\ code' # "NO_ERROR"
    <3>1. todo' = <<ExecutePlans(g)>>
      BY <1>2, <1>4, <2>2, <2>8
    <3>2. \A a \in Arenas : Listed(<<g, a>>, ExecutePlans(g)) \/ mTotalSize[<<g, a>>] = 0
      BY <1>1, ExecuteFacts
    <3>3. \A a \in Arenas : InPlace(<<g, a>>)' \/ Listed(<<g, a>>, ExecutePlans(g))
      BY <1>4, <3>2 DEF InPlace
    <3>4. QED
      BY <1>1, <1>4, <2>1, <2>4, <3>1, <3>3, ExecuteFacts, BeginOne
  <2>9. QED
    BY <2>2, <2>5, <2>6, <2>7, <2>8
<1>10. CopyInv' /\ RunInv'
  <2>1. CASE op.kind # "copy"
    <3>1. running = Null
      BY <1>1, <2>1 DEF OpInv, ApplyNext
    <3>2. QED
      BY <1>4, <2>1, <3>1 DEF CopyInv, RunInv
  <2>2. CASE op.kind = "copy"
    <3>1. /\ Len(todo) = 1
          /\ \A q, r \in op.plans : q[2] = r[2] => q = r
          /\ running # Null => \A q \in op.plans : q[1] = running \/ mTotalSize[<<running, q[2]>>] = 0
          /\ \A i \in DOMAIN plans : plans[i] \in op.plans
          /\ \A q \in op.plans : InPlace(q) \/ Listed(q, plans)
          /\ op.plans \subseteq Plans
      BY <1>1, <1>2, <2>2 DEF CopyInv, OpInv
    <3>2. p \in op.plans /\ \A i \in DOMAIN left : left[i] \in op.plans
      <4>1. 1 \in DOMAIN plans /\ \A i \in 1 .. Len(plans) - 1 : i + 1 \in DOMAIN plans
        BY <1>3
      <4>2. QED
        BY <1>3, <3>1, <4>1
    <3>3. \A q \in op.plans : code' = "NO_ERROR" => InPlace(q)' \/ Listed(q, left)
      BY <1>8, <3>1, <3>2
    <3>4. CopyInv'
      <4>1. CASE code' = "NO_ERROR"
        <5>1. todo' = <<left>>
          BY <1>2, <1>4, <3>1, <4>1, ConsShort
        <5>2. Len(todo') = 1 /\ todo'[1] = left /\ todo' # <<>>
          BY <5>1
        <5>3. \A q \in op.plans : InPlace(q)' \/ Listed(q, left)
          BY <3>3, <4>1
        <5>4. QED
          BY <1>4, <3>1, <3>2, <5>2, <5>3 DEF CopyInv
      <4>2. CASE code' # "NO_ERROR"
        <5>1. todo' = <<>> /\ Len(todo') = 0 /\ pCurrentStatus' # "NO_ERROR"
          BY <1>2, <1>4, <2>2, <3>1, <4>2
        <5>2. QED
          BY <1>4, <3>1, <5>1 DEF CopyInv
      <4>3. QED
        BY <4>1, <4>2
    <3>5. RunInv'
      <4> SUFFICES ASSUME running # Null PROVE RunInv'
        BY <1>4 DEF RunInv
      <4>1. PICK g \in Graphs : g = running
        BY <1>1 DEF CallTypes
      <4>2. \A a \in Arenas : <<g, a>> \in Plans /\ InPlace(<<g, a>>)
        BY <1>1, <4>1 DEF RunInv, Plans
      <4>3. ASSUME NEW a \in Arenas PROVE InPlace(<<g, a>>)'
        <5>1. CASE a # p[2]
          <6>1. <<g, a>>[2] # p[2]
            BY <5>1
          <6>2. QED
            BY <1>5, <4>2, <6>1
        <5>2. CASE a = p[2] /\ p[1] = g
          <6>1. <<g, a>> = p
            BY <5>2, PlanFacts
          <6>2. QED
            BY <1>5, <4>2, <6>1
        <5>3. CASE mTotalSize[<<g, a>>] = 0
          BY <1>4, <5>3 DEF InPlace
        <5>4. QED
          BY <3>1, <3>2, <4>1, <5>1, <5>2, <5>3
      <4>4. QED
        BY <1>4, <4>1, <4>3 DEF RunInv, InPlace
    <3>6. QED
      BY <3>4, <3>5
  <2>3. QED
    BY <2>1, <2>2
<1>11. QED
  BY <1>5, <1>6, <1>7, <1>9, <1>10, TypesNext DEF IInv

\* The next step of the call in progress.
LEMMA ApplyNextKeeps == ASSUME IInv, ApplyNext PROVE IInv'
  BY CallDoneKeeps, PlanAppliedKeeps

\* A step that leaves the arenas and the totals alone keeps what is about them.
LEMMA ArenasAlone ==
    ASSUME ArenaTypes, FileTypes, BlocksExact, UNCHANGED arenaVars
    PROVE  ArenaTypes' /\ FileTypes' /\ BlocksExact'
  BY DEF ArenaTypes, FileTypes, BlocksExact, arenaVars, fileVars

\* A step that leaves the plans alone as well keeps them in place.
LEMMA PlansAlone ==
    ASSUME PlanTypes, BackupInv, UNCHANGED <<arenaVars, planVars>>
    PROVE  PlanTypes' /\ BackupInv' /\ \A p : InPlace(p)' <=> InPlace(p)
  BY DEF PlanTypes, BackupInv, InPlace, arenaVars, planVars

\* With no graph running and neither a run nor a copy going on, nothing need be in place.
LEMMA NobodyUses ==
    ASSUME running' = Null, op'.kind \notin {"run", "copy"}
    PROVE  BeginInv' /\ CopyInv' /\ RunInv'
  BY DEF BeginInv, CopyInv, RunInv

\* Interpreter::resizeTensor.
LEMMA ResizeTensorKeeps == ASSUME IInv, NEW g \in Graphs, ResizeTensor(g) PROVE IInv'
<1>1. /\ ArenaTypes /\ FileTypes /\ PlanTypes /\ CallTypes
      /\ BlocksExact /\ BackupInv /\ OpInv
  BY Types DEF IInv
<1>2. /\ UNCHANGED <<arenaVars, planVars, running, pCurrentStatus, op, todo, code>>
      /\ mNeedResize' = mNeedResize \cup {g} /\ running = Null /\ op = Idle
  BY DEF ResizeTensor, Quiet
<1>3. ArenaTypes' /\ FileTypes' /\ BlocksExact' /\ PlanTypes' /\ BackupInv'
  BY <1>1, <1>2, ArenasAlone, PlansAlone
<1>4. CallTypes' /\ OpInv'
  BY <1>1, <1>2 DEF CallTypes, OpInv
<1>5. BeginInv' /\ CopyInv' /\ RunInv'
  BY <1>2, NobodyUses DEF Idle
<1>6. QED
  BY <1>3, <1>4, <1>5, TypesNext DEF IInv

\* Session::resize, up to the first apply.
LEMMA ResizeSessionKeeps == ASSUME IInv, NEW g \in Graphs, ResizeSession(g) PROVE IInv'
<1>1. /\ ArenaTypes /\ FileTypes /\ PlanTypes /\ CallTypes
      /\ BlocksExact /\ BackupInv /\ OpInv
  BY Types DEF IInv
<1>2. PICK n \in Sizes \cup {0} : NewPlan(<<g, 0>>, n) /\ need' = [need EXCEPT ![<<g, 0>>] = n]
  BY DEF ResizeSession
<1>3. /\ UNCHANGED <<arenaVars, backup, mNeedResize, running, pCurrentStatus>>
      /\ op' = [kind |-> "resize", graph |-> g, plans |-> {<<g, 0>>}]
      /\ todo' = <<<<<<g, 0>>>>>> /\ code' = "NO_ERROR" /\ running = Null
  BY DEF ResizeSession, Start, Quiet
<1>4. <<g, 0>> \in Plans /\ n \in Nat
  BY ArenaAssumption DEF Plans, Arenas
<1>5. ArenaTypes' /\ FileTypes' /\ BlocksExact'
  BY <1>1, <1>3, ArenasAlone
<1>6. PlanTypes' /\ CallTypes'
  BY <1>1, <1>2, <1>3, <1>4 DEF PlanTypes, CallTypes, NewPlan
<1>7. BackupInv'
  <2>1. \A h \in Graphs : mTotalSize'[<<h, 1>>] = mTotalSize[<<h, 1>>]
    BY <1>1, <1>2 DEF PlanTypes, NewPlan, Plans, Arenas
  <2>2. QED
    BY <1>1, <1>3, <2>1 DEF BackupInv
<1>8. OpInv'
  <2>1. <<<<<<g, 0>>>>>> \in Seq(Seq(Plans))
    BY <1>4
  <2>2. QED
    BY <1>3, <1>4, <2>1 DEF OpInv
<1>9. BeginInv' /\ CopyInv' /\ RunInv'
  BY <1>3, NobodyUses
<1>10. QED
  BY <1>5, <1>6, <1>7, <1>8, <1>9, TypesNext DEF IInv

\* Pipeline::fixResizeCache, up to the first apply: the graph gets its backup
\* together with its plan in arena 1.
LEMMA FixResizeCacheKeeps == ASSUME IInv, NEW g \in Graphs, FixResizeCache(g) PROVE IInv'
<1>1. /\ ArenaTypes /\ FileTypes /\ PlanTypes /\ CallTypes
      /\ BlocksExact /\ BackupInv /\ OpInv
  BY Types DEF IInv
<1>2. PICK fixed \in Sizes \cup {0}, left \in {m \in Sizes \cup {0} : m <= need[<<g, 0>>]} :
         /\ mTotalSize' = [mTotalSize EXCEPT ![<<g, 0>>] = 0, ![<<g, 1>>] = fixed]
         /\ mPtr' = [mPtr EXCEPT ![<<g, 0>>] = Null, ![<<g, 1>>] = Null]
         /\ need' = [need EXCEPT ![<<g, 0>>] = left, ![<<g, 1>>] = fixed]
  BY DEF FixResizeCache
<1>3. /\ UNCHANGED <<arenaVars, mNeedResize, running, pCurrentStatus>>
      /\ op' = [kind |-> "fix", graph |-> g, plans |-> {<<g, 1>>}]
      /\ todo' = <<<<<<g, 1>>>>>> /\ code' = "NO_ERROR" /\ running = Null
      /\ backup' = backup \cup {g}
  BY DEF FixResizeCache, Start, Quiet
<1>4. <<g, 0>> \in Plans /\ <<g, 1>> \in Plans /\ fixed \in Nat /\ left \in Nat
  BY ArenaAssumption DEF Plans, Arenas
<1>5. ArenaTypes' /\ FileTypes' /\ BlocksExact'
  BY <1>1, <1>3, ArenasAlone
<1>6. PlanTypes' /\ CallTypes'
  BY <1>1, <1>2, <1>3, <1>4 DEF PlanTypes, CallTypes
<1>7. BackupInv'
  <2>1. \A h \in Graphs \ {g} : mTotalSize'[<<h, 1>>] = mTotalSize[<<h, 1>>]
    BY <1>1, <1>2 DEF PlanTypes, Plans, Arenas
  <2>2. QED
    BY <1>1, <1>3, <2>1 DEF BackupInv
<1>8. OpInv'
  <2>1. <<<<<<g, 1>>>>>> \in Seq(Seq(Plans))
    BY <1>4
  <2>2. QED
    BY <1>3, <1>4, <2>1 DEF OpInv
<1>9. BeginInv' /\ CopyInv' /\ RunInv'
  BY <1>3, NobodyUses
<1>10. QED
  BY <1>5, <1>6, <1>7, <1>8, <1>9, TypesNext DEF IInv

\* The end of a resize.
LEMMA ResizeDoneKeeps == ASSUME IInv, ResizeDone PROVE IInv'
<1>1. /\ ArenaTypes /\ FileTypes /\ PlanTypes /\ CallTypes
      /\ BlocksExact /\ BackupInv /\ OpInv
  BY Types DEF IInv
<1>2. /\ UNCHANGED <<arenaVars, planVars, running, pCurrentStatus, todo>>
      /\ op.kind = "resize" /\ todo = <<>> /\ op' = Idle /\ code' = "NO_ERROR"
      /\ mNeedResize' \subseteq mNeedResize
  BY DEF ResizeDone, Finishes
<1>3. running = Null
  BY <1>1, <1>2 DEF OpInv
<1>4. ArenaTypes' /\ FileTypes' /\ BlocksExact' /\ PlanTypes' /\ BackupInv'
  BY <1>1, <1>2, ArenasAlone, PlansAlone
<1>5. CallTypes' /\ OpInv'
  BY <1>1, <1>2, <1>3 DEF CallTypes, OpInv, Idle
<1>6. BeginInv' /\ CopyInv' /\ RunInv'
  BY <1>2, <1>3, NobodyUses DEF Idle
<1>7. QED
  BY <1>4, <1>5, <1>6, TypesNext DEF IInv

\* The end of fixResizeCache, which releases arena 0.
LEMMA FixDoneKeeps == ASSUME IInv, FixDone PROVE IInv'
<1>1. /\ ArenaTypes /\ FileTypes /\ PlanTypes /\ CallTypes
      /\ BlocksExact /\ BackupInv /\ OpInv
  BY Types DEF IInv
<1>2. /\ UNCHANGED <<planVars, mNeedResize, running, pCurrentStatus, todo>>
      /\ op.kind = "fix" /\ todo = <<>> /\ op' = Idle /\ code' = "NO_ERROR"
      /\ ReleaseArenas({0}) /\ Unmap(0)
  BY DEF FixDone, Finishes
<1>3. running = Null
  BY <1>1, <1>2 DEF OpInv
<1>4. 0 \in Arenas /\ current' = [current EXCEPT ![0] = Null]
  BY <1>1, <1>2 DEF ReleaseArenas, ArenaTypes, Arenas
<1>5. FileTypes' /\ root' = root
  BY <1>1, <1>2, <1>4, FilesKeep
<1>6. ArenaTypes' /\ BlocksExact'
  BY <1>1, <1>2, <1>4, <1>5, ReleaseKeeps
<1>7. PlanTypes' /\ BackupInv'
  BY <1>1, <1>2 DEF PlanTypes, BackupInv, planVars
<1>8. CallTypes' /\ OpInv'
  BY <1>1, <1>2, <1>3 DEF CallTypes, OpInv, Idle
<1>9. BeginInv' /\ CopyInv' /\ RunInv'
  BY <1>2, <1>3, NobodyUses DEF Idle
<1>10. QED
  BY <1>5, <1>6, <1>7, <1>8, <1>9, TypesNext DEF IInv

\* Pipeline::execute: both backends have their plans to apply.
LEMMA RunStartKeeps == ASSUME IInv, NEW g \in Graphs, Run(g) PROVE IInv'
<1>1. /\ ArenaTypes /\ FileTypes /\ PlanTypes /\ CallTypes
      /\ BlocksExact /\ BackupInv /\ OpInv
  BY Types DEF IInv
<1>2. /\ UNCHANGED <<arenaVars, planVars, mNeedResize, running, pCurrentStatus>>
      /\ op' = [kind |-> "run", graph |-> g, plans |-> {}] /\ code' = "NO_ERROR"
      /\ todo' = <<ExecutePlans(g), ExecutePlans(g)>> /\ running = Null
  BY DEF Run, Start, Quiet
<1>3. /\ ExecutePlans(g) \in Seq(Plans)
      /\ \A i \in DOMAIN ExecutePlans(g) : ExecutePlans(g)[i][1] = g
  BY <1>1, ExecuteFacts
<1>4. ArenaTypes' /\ FileTypes' /\ BlocksExact' /\ PlanTypes' /\ BackupInv'
  BY <1>1, <1>2, ArenasAlone, PlansAlone
<1>5. CallTypes'
  BY <1>1, <1>2 DEF CallTypes
<1>6. OpInv'
  <2>1. <<ExecutePlans(g), ExecutePlans(g)>> \in Seq(Seq(Plans))
    BY <1>3
  <2>2. QED
    BY <1>2, <2>1 DEF OpInv
<1>7. BeginInv'
  <2>1. op'.graph = g /\ backup' = backup
    BY <1>2 DEF planVars
  <2>2. QED
    BY <1>1, <1>2, <1>3, <2>1, BeginTwo
<1>8. CopyInv' /\ RunInv'
  BY <1>2 DEF CopyInv, RunInv
<1>9. QED
  BY <1>4, <1>5, <1>6, <1>7, <1>8, TypesNext DEF IInv

\* _enterExecute is through: the graph runs only if its plans are in place.
LEMMA RunBegunKeeps == ASSUME IInv, RunBegun PROVE IInv'
<1>1. /\ ArenaTypes /\ FileTypes /\ PlanTypes /\ CallTypes
      /\ BlocksExact /\ BackupInv /\ OpInv
  BY Types DEF IInv
<1>2. /\ UNCHANGED <<arenaVars, planVars, mNeedResize, pCurrentStatus, todo>>
      /\ op.kind = "run" /\ todo = <<>> /\ op' = Idle /\ code' = "NO_ERROR"
      /\ running' = IF pCurrentStatus = "NO_ERROR" THEN op.graph ELSE Null
  BY DEF RunBegun, Finishes
<1>3. PICK g \in Graphs : g = op.graph /\ (pCurrentStatus = "NO_ERROR" => \A a \in Arenas : InPlace(<<g, a>>))
  BY <1>2 DEF IInv, BeginInv
<1>4. /\ ArenaTypes' /\ FileTypes' /\ BlocksExact' /\ PlanTypes' /\ BackupInv'
      /\ \A p : InPlace(p)' <=> InPlace(p)
  BY <1>1, <1>2, ArenasAlone, PlansAlone
<1>5. CallTypes' /\ OpInv'
  BY <1>1, <1>2, <1>3 DEF CallTypes, OpInv, Idle
<1>6. BeginInv' /\ CopyInv'
  BY <1>2 DEF BeginInv, CopyInv, Idle
<1>7. RunInv'
  <2>1. CASE pCurrentStatus = "NO_ERROR"
    <3>1. running' = g /\ \A a \in Arenas : InPlace(<<g, a>>)'
      BY <1>2, <1>3, <1>4, <2>1
    <3>2. QED
      BY <3>1 DEF RunInv, InPlace
  <2>2. CASE pCurrentStatus # "NO_ERROR"
    BY <1>2, <2>2 DEF RunInv
  <2>3. QED
    BY <2>1, <2>2
<1>8. QED
  BY <1>4, <1>5, <1>6, <1>7, TypesNext DEF IInv

\* onExecuteEnd.
LEMMA RunEndKeeps == ASSUME IInv, RunEnd PROVE IInv'
<1>1. /\ ArenaTypes /\ FileTypes /\ PlanTypes /\ CallTypes
      /\ BlocksExact /\ BackupInv /\ OpInv
  BY Types DEF IInv
<1>2. /\ UNCHANGED <<arenaVars, planVars, mNeedResize, pCurrentStatus, op, todo, code>>
      /\ op = Idle /\ running' = Null
  BY DEF RunEnd
<1>3. ArenaTypes' /\ FileTypes' /\ BlocksExact' /\ PlanTypes' /\ BackupInv'
  BY <1>1, <1>2, ArenasAlone, PlansAlone
<1>4. CallTypes' /\ OpInv'
  BY <1>1, <1>2 DEF CallTypes, OpInv
<1>5. BeginInv' /\ CopyInv' /\ RunInv'
  BY <1>2, NobodyUses DEF Idle
<1>6. QED
  BY <1>3, <1>4, <1>5, TypesNext DEF IInv

\* A list of as many different plans as S has lists every plan of S.
LEMMA AllListed ==
    ASSUME NEW S \in SUBSET Plans, NEW q \in [1 .. Cardinality(S) -> S],
           \A i, j \in DOMAIN q : q[i] = q[j] => i = j
    PROVE  /\ q \in Seq(Plans) /\ \A i \in DOMAIN q : q[i] \in S
           /\ \A p \in S : Listed(p, q)
<1>1. IsFiniteSet(Plans)
  <2>1. Arenas = {0} \cup {1}
    BY DEF Arenas
  <2>2. IsFiniteSet({0} \cup {1})
    BY FS_Singleton, FS_AddElement
  <2>3. QED
    BY <2>1, <2>2, ArenaAssumption, FS_Product DEF Plans
<1>2. IsFiniteSet(S) /\ Cardinality(S) \in Nat
  BY <1>1, FS_Subset, FS_CardinalityType
<1>3. Cardinality(1 .. Cardinality(S)) = Cardinality(S)
  BY <1>2, FS_Interval
<1>4. q \in Injection(1 .. Cardinality(S), S)
  BY DEF Injection, IsInjective
<1>5. q \in Surjection(1 .. Cardinality(S), S)
  BY <1>2, <1>3, <1>4, FS_Injection
<1>6. q \in Seq(Plans)
  <2>1. q \in [1 .. Cardinality(S) -> Plans]
    OBVIOUS
  <2>2. QED
    BY <1>2, <2>1, IsASeq
<1>7. QED
  BY <1>5, <1>6 DEF Surjection, Listed

\* _prepareTensorMemory has the plans of both tensors to apply.
LEMMA CopyBufferKeeps == ASSUME IInv, CopyBuffer PROVE IInv'
<1>1. /\ ArenaTypes /\ FileTypes /\ PlanTypes /\ CallTypes
      /\ BlocksExact /\ BackupInv /\ OpInv
  BY Types DEF IInv
<1>2. PICK S \in CopyTensors :
        \E calls \in {<<q>> : q \in {s \in [1 .. Cardinality(PreparePlans(S)) -> PreparePlans(S)] :
                                        \A i, j \in DOMAIN s : s[i] = s[j] => i = j}} :
            Start("copy", Null, S, calls)
  BY DEF CopyBuffer
<1>3. PICK q \in [1 .. Cardinality(S) -> S] :
        (\A i, j \in DOMAIN q : q[i] = q[j] => i = j) /\ Start("copy", Null, S, <<q>>)
  BY <1>2 DEF PreparePlans
<1>4. /\ UNCHANGED <<arenaVars, planVars, mNeedResize, running, pCurrentStatus>>
      /\ op' = [kind |-> "copy", graph |-> Null, plans |-> S] /\ code' = "NO_ERROR"
      /\ todo' = <<q>>
  BY <1>3 DEF CopyBuffer, Start
<1>5. /\ S \in SUBSET Plans
      /\ \A p, r \in S : p[2] = r[2] => p = r
      /\ running # Null => \A p \in S : p[1] = running \/ mTotalSize[<<running, p[2]>>] = 0
  BY <1>2 DEF CopyTensors
<1>6. q \in Seq(Plans) /\ (\A i \in DOMAIN q : q[i] \in S) /\ \A p \in S : Listed(p, q)
  BY <1>3, <1>5, AllListed
<1>7. /\ ArenaTypes' /\ FileTypes' /\ BlocksExact' /\ PlanTypes' /\ BackupInv'
      /\ \A p : InPlace(p)' <=> InPlace(p)
  BY <1>1, <1>4, ArenasAlone, PlansAlone
<1>8. CallTypes'
  BY <1>1, <1>4 DEF CallTypes
<1>9. OpInv'
  <2>1. <<q>> \in Seq(Seq(Plans))
    BY <1>6
  <2>2. QED
    BY <1>4, <1>5, <2>1 DEF OpInv
<1>10. BeginInv'
  BY <1>4 DEF BeginInv
<1>11. CopyInv'
  <2>1. Len(todo') = 1 /\ todo'[1] = q /\ todo' # <<>> /\ op'.plans = S
    BY <1>4
  <2>2. mTotalSize' = mTotalSize
    BY <1>4 DEF planVars
  <2>3. QED
    BY <1>4, <1>5, <1>6, <2>1, <2>2 DEF CopyInv
<1>12. RunInv'
  BY <1>4 DEF IInv, RunInv, InPlace, arenaVars, planVars
<1>13. QED
  BY <1>7, <1>8, <1>9, <1>10, <1>11, <1>12, TypesNext DEF IInv

\* The copy is over; a running graph goes on.
LEMMA CopyDoneKeeps == ASSUME IInv, CopyDone PROVE IInv'
<1>1. /\ ArenaTypes /\ FileTypes /\ PlanTypes /\ CallTypes
      /\ BlocksExact /\ BackupInv /\ OpInv
  BY Types DEF IInv
<1>2. /\ UNCHANGED <<arenaVars, planVars, mNeedResize, running, pCurrentStatus, todo>>
      /\ op.kind = "copy" /\ todo = <<>> /\ op' = Idle /\ code' = "NO_ERROR"
  BY DEF CopyDone, Finishes
<1>3. ArenaTypes' /\ FileTypes' /\ BlocksExact' /\ PlanTypes' /\ BackupInv'
  BY <1>1, <1>2, ArenasAlone, PlansAlone
<1>4. CallTypes' /\ OpInv'
  BY <1>1, <1>2 DEF CallTypes, OpInv, Idle
<1>5. BeginInv' /\ CopyInv'
  BY <1>2 DEF BeginInv, CopyInv, Idle
<1>6. RunInv'
  BY <1>2 DEF IInv, RunInv, InPlace, arenaVars, planVars
<1>7. QED
  BY <1>3, <1>4, <1>5, <1>6, TypesNext DEF IInv

\* onGabageCollect releases both arenas while no graph runs.
LEMMA GabageCollectKeeps == ASSUME IInv, GabageCollect PROVE IInv'
<1>1. /\ ArenaTypes /\ FileTypes /\ PlanTypes /\ CallTypes
      /\ BlocksExact /\ BackupInv /\ OpInv
  BY Types DEF IInv
<1>2. /\ UNCHANGED <<planVars, mNeedResize, running, pCurrentStatus, op, todo, code>>
      /\ UNCHANGED <<root, mAllocTimes, name, linked>>
      /\ op = Idle /\ running = Null /\ root = "raw" /\ ReleaseArenas(Arenas)
  BY DEF GabageCollect, Quiet, fileVars
<1>3. ArenaTypes' /\ BlocksExact'
  BY <1>1, <1>2, ReleaseKeeps
<1>4. FileTypes'
  BY <1>1, <1>2 DEF FileTypes, Arenas
<1>5. PlanTypes' /\ BackupInv'
  BY <1>1, <1>2 DEF PlanTypes, BackupInv, planVars
<1>6. CallTypes' /\ OpInv'
  BY <1>1, <1>2 DEF CallTypes, OpInv
<1>7. BeginInv' /\ CopyInv' /\ RunInv'
  BY <1>2, NobodyUses DEF Idle
<1>8. QED
  BY <1>3, <1>4, <1>5, <1>6, <1>7, TypesNext DEF IInv

-----------------------------------------------------------------------------
(* The theorems.                                                            *)

\* Every step of the runtime keeps the invariant.
LEMMA NextIInv == IInv /\ [Next]_vars => IInv'
<1> SUFFICES ASSUME IInv, [Next]_vars PROVE IInv'
  OBVIOUS
<1>1. ASSUME NEW g \in Graphs, ResizeTensor(g) PROVE IInv'
  BY <1>1, ResizeTensorKeeps
<1>2. ASSUME NEW g \in Graphs, ResizeSession(g) PROVE IInv'
  BY <1>2, ResizeSessionKeeps
<1>3. ASSUME NEW g \in Graphs, FixResizeCache(g) PROVE IInv'
  BY <1>3, FixResizeCacheKeeps
<1>4. ASSUME NEW g \in Graphs, Run(g) PROVE IInv'
  BY <1>4, RunStartKeeps
<1>5. CASE ApplyNext
  BY <1>5, ApplyNextKeeps
<1>6. CASE ResizeDone
  BY <1>6, ResizeDoneKeeps
<1>7. CASE FixDone
  BY <1>7, FixDoneKeeps
<1>8. CASE RunBegun
  BY <1>8, RunBegunKeeps
<1>9. CASE RunEnd
  BY <1>9, RunEndKeeps
<1>10. CASE CopyBuffer
  BY <1>10, CopyBufferKeeps
<1>11. CASE CopyDone
  BY <1>11, CopyDoneKeeps
<1>12. CASE GabageCollect
  BY <1>12, GabageCollectKeeps
<1>13. CASE UNCHANGED vars
  <2>1. /\ ArenaTypes /\ FileTypes /\ PlanTypes /\ CallTypes
        /\ BlocksExact /\ BackupInv /\ OpInv
    BY Types DEF IInv
  <2>2. UNCHANGED <<arenaVars, planVars, mNeedResize, running, pCurrentStatus, op, todo, code>>
    BY <1>13 DEF vars
  <2>3. ArenaTypes' /\ FileTypes' /\ BlocksExact' /\ PlanTypes' /\ BackupInv'
    BY <2>1, <2>2, ArenasAlone, PlansAlone
  <2>4. CallTypes' /\ OpInv'
    BY <2>1, <2>2 DEF CallTypes, OpInv
  <2>5. BeginInv'
    BY <2>2 DEF IInv, BeginInv, InPlace, Listed, ExecutePlans, arenaVars, planVars
  <2>6. CopyInv'
    BY <2>2 DEF IInv, CopyInv, InPlace, Listed, arenaVars, planVars
  <2>7. RunInv'
    BY <2>2 DEF IInv, RunInv, InPlace, arenaVars, planVars
  <2>8. QED
    BY <2>3, <2>4, <2>5, <2>6, <2>7, TypesNext DEF IInv
<1>14. QED
  BY <1>1, <1>2, <1>3, <1>4, <1>5, <1>6, <1>7, <1>8, <1>9, <1>10, <1>11, <1>12, <1>13 DEF Next

\* The inductive invariant holds in every state the runtime reaches.
THEOREM Invariance == Spec => []IInv
  BY InitIInv, NextIInv, PTL DEF Spec

\* Arenas, plans and the call in progress always have the values the code
\* gives them (TypeOK).
THEOREM TypeCorrect == Spec => []TypeOK
<1>1. IInv => TypeOK
  BY DEF IInv
<1>2. QED
  BY <1>1, Invariance, PTL

\* SingleBufferWithAllocator never shares, loses or misjudges a block, whichever
\* allocations fail (BlocksExact).
THEOREM BlocksRight == Spec => []BlocksExact
<1>1. IInv => BlocksExact
  BY DEF IInv
<1>2. QED
  BY <1>1, Invariance, PTL

\* A graph that runs, or a copy that goes ahead, finds its tensors in memory
\* that is allocated and large enough, except in an arena that a failed realloc
\* left with a stale size (PlansBoundOrStale).
THEOREM BoundOrStale == Spec => []PlansBoundOrStale
<1>1. ASSUME IInv, NEW p \in Plans, InPlace(p) PROVE Bound(p) \/ Stale(p[2])
  BY <1>1, PlanFacts, ArenaAssumption DEF IInv, TypeOK, BlocksExact, InPlace, Bound, Stale
<1>2. ASSUME IInv, running # Null, NEW a \in Arenas PROVE Bound(<<running, a>>) \/ Stale(a)
  <2>1. <<running, a>> \in Plans /\ InPlace(<<running, a>>) /\ <<running, a>>[2] = a
    BY <1>2 DEF IInv, TypeOK, RunInv, Plans
  <2>2. QED
    BY <1>1, <1>2, <2>1
<1>3. ASSUME IInv, Copying, NEW p \in op.plans PROVE Bound(p) \/ Stale(p[2])
  <2>1. p \in Plans /\ InPlace(p)
    BY <1>3 DEF IInv, OpInv, CopyInv, Copying
  <2>2. QED
    BY <1>1, <1>3, <2>1
<1>4. IInv => PlansBoundOrStale
  BY <1>2, <1>3 DEF PlansBoundOrStale
<1>5. QED
  BY <1>4, Invariance, PTL

\* While a graph runs, an arena that holds its tensors is never moved: a copy
\* applies only plans that are in place there or lie in the other arena
\* (ArenaStays).
THEOREM ArenaRight == Spec => ArenaStays
<1> DEFINE Stays == running # Null /\ running' = running =>
                      \A a \in Arenas : mTotalSize[<<running, a>>] > 0 => current'[a] = current[a]
<1>1. ASSUME IInv, [Next]_vars, running # Null, running' = running,
             NEW a \in Arenas, mTotalSize[<<running, a>>] > 0
      PROVE  current'[a] = current[a]
  <2>1. op.kind \in {"idle", "copy"} /\ OpInv
    BY <1>1 DEF IInv, OpInv
  <2>2. CASE ApplyNext /\ Head(todo) = <<>>
    BY <2>2 DEF ApplyNext, arenaVars
  <2>3. CASE ApplyNext /\ Head(todo) # <<>>
    <3>1. PICK plans \in Seq(Plans), later \in Seq(Seq(Plans)) :
               /\ plans = Head(todo) /\ plans = todo[1] /\ Len(todo) \in Nat \ {0}
      BY <2>1, <2>3, TodoFacts DEF OpInv, ApplyNext
    <3>2. PICK p \in Plans : p = Head(plans) /\ p = plans[1] /\ 1 \in DOMAIN plans
      BY <2>3, <3>1, TailFacts
    <3>3. Apply(p) /\ UNCHANGED mTotalSize
      BY <2>3, <3>1, <3>2 DEF ApplyNext
    <3>4. op.kind = "copy"
      BY <2>1, <2>3 DEF OpInv, ApplyNext
    <3>5. p[1] = running \/ mTotalSize[<<running, p[2]>>] = 0
      <4>1. CopyInv
        BY <1>1 DEF IInv
      <4>2. Len(todo) = 1
        BY <3>1, <3>4, <4>1 DEF CopyInv
      <4>3. p \in op.plans
        <5>1. \A i \in DOMAIN todo[1] : todo[1][i] \in op.plans
          BY <3>4, <4>1, <4>2, Zenon DEF CopyInv
        <5>2. QED
          BY <3>1, <3>2, <5>1, Zenon
      <4>4. QED
        BY <1>1, <3>4, <4>1, <4>3, Zenon DEF CopyInv
    <3>6. a # p[2] \/ InPlace(p)
      <4>1. CASE a = p[2] /\ p[1] = running
        <5>1. p = <<running, a>>
          BY <4>1, PlanFacts
        <5>2. InPlace(<<running, a>>)
          BY <1>1 DEF IInv, RunInv
        <5>3. QED
          BY <5>1, <5>2
      <4>2. CASE a = p[2] /\ mTotalSize[<<running, p[2]>>] = 0
        BY <1>1, <4>2
      <4>3. QED
        BY <3>5, <4>1, <4>2
    <3>7. QED
      BY <1>1, <2>1, <3>3, <3>6, Types, ApplyKeeps DEF IInv, PlanTypes
  <2>4. CASE ~ApplyNext
    <3>1. UNCHANGED arenaVars
      <4>1. ~Quiet
        BY <1>1 DEF Quiet
      <4>2. \A g \in Graphs : ~(ResizeTensor(g) \/ ResizeSession(g) \/ FixResizeCache(g) \/ Run(g))
        BY <4>1 DEF ResizeTensor, ResizeSession, FixResizeCache, Run
      <4>3. ~GabageCollect
        BY <4>1 DEF GabageCollect
      <4>4. ~ResizeDone /\ ~FixDone /\ ~RunBegun
        BY <2>1 DEF ResizeDone, FixDone, RunBegun, Finishes
      <4>5. RunEnd \/ CopyBuffer \/ CopyDone \/ UNCHANGED vars
        BY <1>1, <2>4, <4>2, <4>3, <4>4 DEF Next
      <4>6. QED
        BY <4>5 DEF RunEnd, CopyBuffer, CopyDone, vars
    <3>2. QED
      BY <3>1 DEF arenaVars
  <2>5. QED
    BY <2>2, <2>3, <2>4
<1>2. IInv /\ [Next]_vars => [Stays]_vars
  BY <1>1
<1>3. QED
  BY <1>2, Invariance, PTL DEF Spec, ArenaStays
=============================================================================
