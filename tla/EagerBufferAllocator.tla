------------------------ MODULE EagerBufferAllocator ------------------------
(***************************************************************************)
(* EagerBufferAllocator (source/core/BufferAllocator.cpp): hands out memory *)
(* at once, from blocks it gets from its parent allocator.  A free node is  *)
(* split when a smaller chunk is taken from it; when both halves are free   *)
(* again they are merged, which use counts up the tree of nodes decide.     *)
(* Between barrierBegin and barrierEnd, memory freed in one group (one      *)
(* thread of the operator being planned) is kept for that group.            *)
(*                                                                         *)
(* A node is identified with the range of its block it stands for: a split  *)
(* always makes strictly smaller nodes, so no two nodes in use coincide.    *)
(* The loops of returnMemory and barrierEnd take a step for each turn; no   *)
(* other call begins in between (the allocator has one user at a time).     *)
(***************************************************************************)
EXTENDS Integers, Sequences, FiniteSets, FiniteSetsExt, SequencesExt

CONSTANTS
    Align,          \* mAlign
    Clients,        \* what the allocator is used for: its mMinAllocSize (0 for none),
                    \* the sizes and the align arguments the client passes, and a
                    \* bound on the chunks in use at once
    Blocks,         \* bound: blocks of the parent allocator in use at once
    MaxGroups,      \* bound: groups of one barrier
    NoBlock         \* the block of no node

RoundUp(n, align) == ((n + align - 1) \div align) * align

\* A block is only split where something is left of it (MNN_ASSERT in alloc).
ASSUME EagerAssumption ==
    /\ Align \in Nat \ {0}
    /\ \A c \in Clients : /\ c.minAllocSize \in Nat /\ c.minAllocSize % Align = 0
                          /\ c.sizes \subseteq Nat \ {0}
                          /\ \A s \in c.sizes : s < c.minAllocSize => RoundUp(s, Align) < c.minAllocSize
                          /\ c.aligns \subseteq Nat \ {0}
                          /\ c.maxChunks \in Nat
    /\ IsFiniteSet(Blocks)
    /\ MaxGroups \in Nat
    /\ NoBlock \notin Blocks

VARIABLES
    client,     \* who it is created for, with its mMinAllocSize
    parent,     \* Node::parent of each node there is, or None
    useCount,   \* Node::useCount
    mFreeList,  \* a set of nodes
    used,       \* mUsedList: [node, off, size]: the offset returned, the size asked for
    mGroups,    \* the free lists of the groups of this barrier
    group,      \* mCurrentFreeList: index in mGroups, or 0
    barrier,    \* whether a barrier has begun
    mTotalSize,
    up,         \* returnMemory: the node whose use count is lowered next, or None
    ending,     \* barrierEnd returns the lists of the groups
    touched     \* history: [group, block, off, size] of the chunks of this barrier

heapVars == <<parent, useCount, mFreeList>>
vars == <<client, heapVars, used, mGroups, group, barrier, mTotalSize, up, ending, touched>>

Node(b, off, size) == [block |-> b, off |-> off, size |-> size]
None == Node(NoBlock, 0, 0)
Nodes == DOMAIN parent
BlocksInUse == {n.block : n \in Nodes}
SizeSum(S) == MapThenSumSet(LAMBDA n : n.size, S)

Init ==
    /\ client \in Clients
    /\ parent = <<>> /\ useCount = <<>>
    /\ mFreeList = {} /\ used = {}
    /\ mGroups = <<>> /\ group = 0 /\ barrier = FALSE
    /\ mTotalSize = 0
    /\ up = None /\ ending = FALSE
    /\ touched = {}

-----------------------------------------------------------------------------
(* getFromFreeList.                                                         *)

\* mAlign % align != 0: the node's offset may have to be rounded up.
NeedExtraSize(align) == Align % align # 0

RealSize(size, align) == IF NeedExtraSize(align) THEN size + align - 1 ELSE size

\* lower_bound: a smallest node that is large enough (any of those of one size).
BestFit(list, size, align) ==
    LET fits == {n \in list : n.size >= RealSize(size, align)}
    IN  {n \in fits : \A m \in fits : n.size <= m.size}

OffsetIn(n, align) == IF NeedExtraSize(align) THEN RoundUp(n.off, align) ELSE n.off

\* Mutant: the rounding of the offset is not part of the size.
SizeAlignBare(n, size, align) == RoundUp(size, Align)

\* The part of node n that a chunk takes up.
SizeAlign(n, size, align) == RoundUp(size + OffsetIn(n, align) - n.off, Align)

Head1(n, size) == Node(n.block, n.off, size)
Rest(n, size)  == Node(n.block, n.off + size, n.size - size)

\* Mutant: the parent of a node taken from the free list is not counted.
CountUsedNot(n) == useCount

\* The parent of a node taken from the free list has one more user.
CountUsed(n) ==
    IF parent[n] = None THEN useCount ELSE [useCount EXCEPT ![parent[n]] = @ + 1]

\* A chunk of node n, at offset off, is in use from now on.
Hand(n, off, size) ==
    /\ used' = used \cup {[node |-> n, off |-> off, size |-> size]}
    /\ touched' = IF group = 0 THEN touched
                  ELSE touched \cup {[group |-> group, block |-> n.block, off |-> off, size |-> size]}

WithChildren(f, n, s, v) == [m \in (DOMAIN f) \cup {Head1(n, s), Rest(n, s)} |->
                               IF m \in DOMAIN f THEN f[m] ELSE v]

\* alloc from the free list of the group: the whole node, uncounted.
AllocFromGroup(size, align) ==
    /\ group > 0
    /\ \E n \in BestFit(mGroups[group], size, align) :
         /\ mGroups' = [mGroups EXCEPT ![group] = @ \ {n}]
         /\ Hand(n, OffsetIn(n, align), size)
    /\ UNCHANGED <<heapVars, group, barrier, mTotalSize, up, ending>>

\* alloc from mFreeList: the whole node, or its front half after a split.
AllocFromFree(size, align) ==
    /\ group > 0 => BestFit(mGroups[group], size, align) = {}
    /\ \E n \in BestFit(mFreeList, size, align) :
         LET s   == SizeAlign(n, size, align)
             off == OffsetIn(n, align)
         IN  IF s >= n.size
               THEN /\ Hand(n, off, size)
                    /\ mFreeList' = mFreeList \ {n}
                    /\ useCount' = CountUsed(n)
                    /\ UNCHANGED parent
               ELSE /\ Hand(Head1(n, s), off, size)
                    /\ mFreeList' = (mFreeList \ {n}) \cup {Rest(n, s)}
                    /\ useCount' = WithChildren([CountUsed(n) EXCEPT ![n] = @ + 1], n, s, 0)
                    /\ parent' = WithChildren(parent, n, s, n)
    /\ UNCHANGED <<mGroups, group, barrier, mTotalSize, up, ending>>

AllocSize(size) == Max({client.minAllocSize, size})

\* alloc from the parent allocator; a block larger than asked for is split.
AllocNew(size, align, separate) ==
  \E b \in Blocks \ BlocksInUse :
    LET n == Node(b, 0, AllocSize(size))
        s == RoundUp(size, Align)
    IN  /\ separate \/ (/\ BestFit(mFreeList, size, align) = {}
                        /\ group > 0 => BestFit(mGroups[group], size, align) = {})
        /\ mTotalSize' = mTotalSize + n.size
        /\ IF n.size > size
             THEN /\ Hand(Head1(n, s), 0, size)
                  /\ parent' = [m \in Nodes \cup {n, Head1(n, s), Rest(n, s)} |->
                                  IF m \in Nodes THEN parent[m] ELSE IF m = n THEN None ELSE n]
                  /\ useCount' = [m \in DOMAIN parent' |->
                                    IF m \in Nodes THEN useCount[m] ELSE IF m = n THEN 1 ELSE 0]
                  /\ IF group > 0
                       THEN mGroups' = [mGroups EXCEPT ![group] = @ \cup {Rest(n, s)}] /\ UNCHANGED mFreeList
                       ELSE mFreeList' = mFreeList \cup {Rest(n, s)} /\ UNCHANGED mGroups
             ELSE /\ Hand(n, 0, size)
                  /\ parent' = [m \in Nodes \cup {n} |-> IF m \in Nodes THEN parent[m] ELSE None]
                  /\ useCount' = [m \in DOMAIN parent' |-> IF m \in Nodes THEN useCount[m] ELSE 0]
                  /\ UNCHANGED <<mFreeList, mGroups>>
        /\ UNCHANGED <<group, barrier, up, ending>>

\* alloc(size, separate, align); inside a barrier only by the groups.
Alloc(size, align, separate) ==
    /\ Cardinality(used) < client.maxChunks
    /\ barrier => group > 0
    /\ \/ ~separate /\ (AllocFromGroup(size, align) \/ AllocFromFree(size, align))
       \/ AllocNew(size, align, separate)

-----------------------------------------------------------------------------
(* returnMemory and free.                                                   *)

\* Mutant: halves are never put together.
MergesNever(count) == FALSE

\* The decremented use count has reached zero.
Merges(count) == count = 1

\* n goes into the list; its parent, if any, has one user less.
ReturnMemory(n) ==
    /\ mFreeList' = mFreeList \cup {n}
    /\ up' = parent[n]
    /\ UNCHANGED <<parent, useCount>>

\* The loop of returnMemory: a parent that has lost its last user takes the
\* place of its children in the list, and its own parent is next.
MergeUp ==
    LET children == {m \in mFreeList : parent[m] = up}
    IN  /\ up # None
        /\ IF Merges(useCount[up])
             THEN /\ mFreeList' = (mFreeList \ children) \cup {up}
                  /\ parent' = [m \in Nodes \ children |-> parent[m]]
                  /\ useCount' = [m \in Nodes \ children |-> IF m = up THEN useCount[m] - 1 ELSE useCount[m]]
                  /\ up' = parent[up]
             ELSE /\ useCount' = [useCount EXCEPT ![up] = @ - 1]
                  /\ up' = None
                  /\ UNCHANGED <<parent, mFreeList>>
        /\ UNCHANGED <<used, mGroups, group, barrier, mTotalSize, ending, touched>>

\* Mutant: in a group, memory goes back to the common list.
FreeInGroupShared(n) ==
    /\ ReturnMemory(n)
    /\ UNCHANGED mGroups

\* In a group: to its own list, with no merge.
FreeInGroup(n) ==
    /\ mGroups' = [mGroups EXCEPT ![group] = @ \cup {n}]
    /\ UNCHANGED <<heapVars, up>>

\* free(chunk).  Inside a barrier, a group frees the chunks it allocated.
Free(c) ==
    /\ c \in used
    /\ barrier => /\ group > 0
                  /\ [group |-> group, block |-> c.node.block, off |-> c.off, size |-> c.size] \in touched
    /\ used' = used \ {c}
    /\ IF group > 0 THEN FreeInGroup(c.node)
       ELSE ReturnMemory(c.node) /\ UNCHANGED mGroups
    /\ UNCHANGED <<group, barrier, mTotalSize, ending, touched>>

\* Barriers are for dynamic memory, whose allocators have no minimum size.
BarrierBegin ==
    /\ client.minAllocSize = 0
    /\ ~barrier
    /\ barrier' = TRUE
    /\ UNCHANGED <<heapVars, used, mGroups, group, mTotalSize, up, ending, touched>>

BeginGroup ==
    /\ barrier /\ group = 0
    /\ Len(mGroups) < MaxGroups
    /\ mGroups' = Append(mGroups, {})
    /\ group' = Len(mGroups) + 1
    /\ UNCHANGED <<heapVars, used, barrier, mTotalSize, up, ending, touched>>

EndGroup ==
    /\ group > 0
    /\ group' = 0
    /\ UNCHANGED <<heapVars, used, mGroups, barrier, mTotalSize, up, ending, touched>>

\* barrierEnd: what the groups have freed goes back to the common list.
BarrierEnd ==
    /\ barrier /\ group = 0
    /\ ending' = TRUE
    /\ touched' = {}
    /\ UNCHANGED <<heapVars, used, mGroups, group, barrier, mTotalSize, up>>

\* The next node of the first group that has one left.
ReturnGroup ==
    /\ \E i \in DOMAIN mGroups : \E n \in mGroups[i] :
         /\ \A j \in 1 .. i - 1 : mGroups[j] = {}
         /\ ReturnMemory(n)
         /\ mGroups' = [mGroups EXCEPT ![i] = @ \ {n}]
    /\ UNCHANGED <<used, group, barrier, mTotalSize, ending, touched>>

\* mGroups.clear().
GroupsDone ==
    /\ \A i \in DOMAIN mGroups : mGroups[i] = {}
    /\ mGroups' = <<>>
    /\ barrier' = FALSE
    /\ ending' = FALSE
    /\ UNCHANGED <<heapVars, used, group, mTotalSize, up, touched>>

\* Mutant: every free node is given back, halves of split ones too.
ReleasableAll == mFreeList

\* The nodes release(false) gives back: whole blocks.
Releasable == {n \in mFreeList : parent[n] = None}

\* release(false): garbage collection of the static memory.
Release ==
    /\ ~barrier
    /\ Releasable # {}
    /\ mTotalSize' = mTotalSize - SizeSum(Releasable)
    /\ parent' = [m \in Nodes \ Releasable |-> parent[m]]
    /\ useCount' = [m \in Nodes \ Releasable |-> useCount[m]]
    /\ mFreeList' = mFreeList \ Releasable
    /\ UNCHANGED <<used, mGroups, group, barrier, up, ending, touched>>

\* release(true), and the destructor: everything.
ReleaseAll ==
    /\ ~barrier
    /\ parent' = <<>> /\ useCount' = <<>>
    /\ mFreeList' = {} /\ used' = {}
    /\ mTotalSize' = 0
    /\ UNCHANGED <<mGroups, group, barrier, up, ending, touched>>

Operation ==
    \/ \E size \in client.sizes, align \in client.aligns, separate \in BOOLEAN : Alloc(size, align, separate)
    \/ \E c \in used : Free(c)
    \/ BarrierBegin \/ BeginGroup \/ EndGroup \/ BarrierEnd
    \/ Release \/ ReleaseAll

\* No call begins inside another.
Next ==
    /\ \/ MergeUp
       \/ up = None /\ ending /\ (ReturnGroup \/ GroupsDone)
       \/ up = None /\ ~ending /\ Operation
    /\ UNCHANGED client

Spec == Init /\ [][Next]_vars

-----------------------------------------------------------------------------
(* Properties.                                                              *)

\* Every list and parent names a node there is, and no use count is negative.
TypeOK ==
    /\ \A n \in Nodes : n \in [block : Blocks, off : Nat, size : Nat]
    /\ \A n \in Nodes : parent[n] \in Nodes \cup {None}
    /\ DOMAIN useCount = Nodes
    /\ \A n \in Nodes : useCount[n] \in Nat
    /\ mFreeList \subseteq Nodes
    /\ \A c \in used : c.node \in Nodes /\ c.off \in Nat /\ c.size \in client.sizes
    /\ mGroups \in Seq(SUBSET Nodes)
    /\ group \in 0 .. Len(mGroups)
    /\ {barrier, ending} \subseteq BOOLEAN /\ up \in Nodes \cup {None}
    /\ mTotalSize \in Nat

\* The nodes that are in use or in some free list.
Leaves == {c.node : c \in used} \cup mFreeList \cup UNION {mGroups[i] : i \in DOMAIN mGroups}

Apart(a, m, b, n) == a + m <= b \/ b + n <= a

\* The allocator's chunks lie inside the nodes that pay for them, and two
\* chunks in use never share a byte, whatever was split, merged and reused.
NoOverlap ==
    /\ \A c \in used : c.node.off <= c.off /\ c.off + c.size <= c.node.off + c.node.size
    /\ \A c, d \in used : c # d /\ c.node.block = d.node.block => Apart(c.off, c.size, d.off, d.size)

\* Each byte of each block is in exactly one place: one used chunk's node or
\* one free list (of the allocator or of a group).  None is lost or twice free.
Partition ==
    /\ \A m, n \in Leaves : m # n /\ m.block = n.block => Apart(m.off, m.size, n.off, n.size)
    /\ \A n \in Nodes : parent[n] = None =>
         SizeSum({m \in Leaves : m.block = n.block}) = n.size

\* mTotalSize is the memory held from the parent allocator, through splits,
\* merges and release.
TotalExact == mTotalSize = SizeSum({n \in Nodes : parent[n] = None})

\* Different groups of a barrier never touch the same memory, even one after
\* the other: their operators run at the same time later.
GroupsPrivate ==
    \A s, t \in touched : s.group # t.group /\ s.block = t.block =>
       Apart(s.off, s.size, t.off, t.size)

\* When everything has been freed, every block is one free node again, so that
\* release(false) can give all of it back.
AllMerged == used = {} /\ ~barrier /\ up = None => \A n \in Nodes : parent[n] = None /\ n \in mFreeList

=============================================================================
