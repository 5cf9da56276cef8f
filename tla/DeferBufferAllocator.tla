------------------------ MODULE DeferBufferAllocator ------------------------
(***************************************************************************)
(* DeferBufferAllocator (source/core/BufferAllocator.cpp): plans the        *)
(* memory of a whole graph before any of it exists.  alloc and free build a *)
(* list of nodes; nodes are split, expanded and fused, and the node of a    *)
(* dead chunk is reused by later ones; compute then turns the single node   *)
(* that is left into offsets for every node that ever was.                  *)
(*                                                                         *)
(* The client (Pipeline::_allocForTensor) allocates and frees chunks in any *)
(* order, brackets parts of it with barrierBegin and barrierEnd, frees      *)
(* everything and calls compute.                                            *)
(***************************************************************************)
EXTENDS Integers, Sequences, SequencesExt

CONSTANTS
    Align,      \* mAlign
    Sizes,      \* the sizes the client asks for
    MaxAllocs   \* bound: allocations of one plan

ASSUME DeferAssumption ==
    /\ Align \in Nat \ {0}
    /\ Sizes \subseteq Nat
    /\ MaxAllocs \in Nat

VARIABLES
    heap,       \* [nodes: mChunks, list: the nodes from mHead to mTail,
                \*  free: mFreeList, in multiset order]
    mBarrrier,
    pending,    \* mBarrrierFreeChunks
    mTotalSize,
    code,       \* what compute returned, or "none"
    chunks,     \* history: the node and size of each chunk handed out
    live,       \* history: the chunks that may be in use
    together    \* history: the pairs of chunks that were live at the same time

vars == <<heap, mBarrrier, pending, mTotalSize, code, chunks, live, together>>

-----------------------------------------------------------------------------
(* MemNode: its size, its offset (relative to the node it was fused into    *)
(* until compute), and that node (0 while it is in the list).               *)

NewNode(size) == [size |-> size, offset |-> 0, into |-> 0]

\* UP_DIV(size, align) * align
RoundUp(size) == ((size + Align - 1) \div Align) * Align

SizeOf(h, n) == h.nodes[n].size

\* The place of n in a list it is in.
At(list, n) == CHOOSE i \in 1 .. Len(list) : list[i] = n

\* Mutant: the free list is not kept in order.
InsertFreeFront(h, n) == [h EXCEPT !.free = <<n>> \o @]

\* mFreeList is a multiset ordered by size: insert after all of equal size.
InsertFree(h, n) ==
    LET last == Len(h.free) + 1
        i == CHOOSE k \in 1 .. last : /\ k = last \/ SizeOf(h, h.free[k]) > SizeOf(h, n)
                                     /\ \A j \in 1 .. k - 1 : SizeOf(h, h.free[j]) <= SizeOf(h, n)
    IN  [h EXCEPT !.free = InsertAt(@, i, n)]

EraseFree(h, n) == [h EXCEPT !.free = RemoveAt(@, At(@, n))]

\* lower_bound(size), or the last place when every free node is too small.
BestFit(h, size) ==
    LET fits == {i \in 1 .. Len(h.free) : SizeOf(h, h.free[i]) >= size}
    IN  IF fits = {} THEN Len(h.free) ELSE CHOOSE i \in fits : \A j \in fits : i <= j

\* Mutant: the size of left is updated before the offset of right is taken.
FuseToLeftLate(h, left, right) ==
    [h EXCEPT !.nodes[right].offset = SizeOf(h, left) + SizeOf(h, right),
              !.nodes[right].into   = left,
              !.nodes[left].size    = @ + SizeOf(h, right),
              !.list = RemoveAt(@, At(@, right))]

\* fuse_to_left: right becomes a child of left, behind what left held so far.
FuseToLeft(h, left, right) ==
    LET child == [size |-> SizeOf(h, right), offset |-> SizeOf(h, left), into |-> left]
        whole == [h.nodes[left] EXCEPT !.size = @ + SizeOf(h, right)]
    IN  [h EXCEPT !.nodes = [@ EXCEPT ![right] = child, ![left] = whole],
                  !.list  = RemoveAt(@, At(@, right))]

\* alloc with an empty free list, or separate: a node of its own at the tail.
AllocTail(h, size) ==
    [h EXCEPT !.nodes = Append(@, NewNode(size)), !.list = Append(@, Len(h.nodes) + 1)]

\* Mutant: a node that is too small is taken without being expanded.
TakeNodeAsIs(h, i, size) ==
    [h EXCEPT !.free = RemoveAt(@, i), !.nodes[h.free[i]].size = IF @ > size THEN size ELSE @]

\* The selected node gets exactly the size asked for.
TakeNode(h, i, size) == [h EXCEPT !.free = RemoveAt(@, i), !.nodes[h.free[i]].size = size]

\* Mutant: the remainder is split off whatever its sign.
SplitsUnequal(rest) == rest # 0

\* selectChunk->size > size
Splits(rest) == rest > 0

\* The rest of node n is a free node behind it.
AddRest(h, n, rest) ==
    LET m == Len(h.nodes) + 1
    IN  InsertFree([h EXCEPT !.nodes = Append(@, NewNode(rest)),
                             !.list  = InsertAt(@, At(@, n) + 1, m)], m)

\* alloc from the free list: a larger node is split, a smaller one expanded.
AllocFit(h, size) ==
    LET i    == BestFit(h, size)
        rest == SizeOf(h, h.free[i]) - size
        taken == TakeNode(h, i, size)
    IN  IF Splits(rest) THEN AddRest(taken, h.free[i], rest) ELSE taken

InFree(h, n) == \E i \in 1 .. Len(h.free) : h.free[i] = n

\* Mutant: only neighbours with an older node are fused.
FusesOlder(h, n, m) == m # 0 /\ InFree(h, m) /\ n > m

\* A neighbour m of n (0 at the end of the list) is fused when it is free.
Fuses(h, n, m) == m # 0 /\ InFree(h, m)

FreeFuse(h, left, right, m) == FuseToLeft(EraseFree(h, m), left, right)

\* free: fuse with the free neighbours, then give the node back.
FreeNode(h, n) ==
    LET i     == At(h.list, n)
        left  == IF i > 1 THEN h.list[i - 1] ELSE 0
        right == IF i < Len(h.list) THEN h.list[i + 1] ELSE 0
        fuses == Fuses(h, n, left)
        h1    == IF fuses THEN FreeFuse(h, left, n, left) ELSE h
        n1    == IF fuses THEN left ELSE n
        h2    == IF Fuses(h, n, right) THEN FreeFuse(h1, n1, right, right) ELSE h1
    IN  InsertFree(h2, n1)

-----------------------------------------------------------------------------
Init ==
    /\ heap = [nodes |-> <<>>, list |-> <<>>, free |-> <<>>]
    /\ mBarrrier = FALSE
    /\ pending = <<>>
    /\ mTotalSize = 0
    /\ code = "none"
    /\ chunks = <<>>
    /\ live = {}
    /\ together = {}

\* alloc(size, separate)
Alloc(request, separate) ==
    LET size == RoundUp(request)
        tail == heap.free = <<>> \/ separate
        c    == Len(chunks) + 1
    IN  /\ code = "none"
        /\ Len(chunks) < MaxAllocs
        /\ heap' = IF tail THEN AllocTail(heap, size) ELSE AllocFit(heap, size)
        /\ chunks' = Append(chunks, [node |-> IF tail THEN Len(heap.nodes) + 1
                                                      ELSE heap.free[BestFit(heap, size)],
                                     size |-> request])
        /\ live' = live \cup {c}
        /\ together' = together \cup {{c, d} : d \in live}
        /\ UNCHANGED <<mBarrrier, pending, mTotalSize, code>>

\* free outside a barrier.
Free(c) ==
    /\ code = "none"
    /\ ~mBarrrier
    /\ c \in live
    /\ heap' = FreeNode(heap, chunks[c].node)
    /\ live' = live \ {c}
    /\ UNCHANGED <<mBarrrier, pending, mTotalSize, code, chunks, together>>

\* free inside a barrier is put off: the chunk may be in use until its end.
FreeLater(c) ==
    /\ mBarrrier
    /\ c \in live
    /\ \A i \in 1 .. Len(pending) : pending[i] # c
    /\ pending' = Append(pending, c)
    /\ UNCHANGED <<heap, mBarrrier, mTotalSize, code, chunks, live, together>>

BarrierBegin ==
    /\ code = "none"
    /\ ~mBarrrier
    /\ Len(chunks) < MaxAllocs
    /\ mBarrrier' = TRUE
    /\ UNCHANGED <<heap, pending, mTotalSize, code, chunks, live, together>>

BarrierEnd ==
    /\ mBarrrier
    /\ mBarrrier' = FALSE
    /\ UNCHANGED <<heap, pending, mTotalSize, code, chunks, live, together>>

\* The loop of barrierEnd frees what was put off, in the order of the calls.
FreeNext ==
    /\ ~mBarrrier
    /\ pending # <<>>
    /\ heap' = FreeNode(heap, chunks[Head(pending)].node)
    /\ live' = live \ {Head(pending)}
    /\ pending' = Tail(pending)
    /\ UNCHANGED <<mBarrrier, mTotalSize, code, chunks, together>>

\* compute: lay out the list when it has become one free node.
Compute ==
    /\ code = "none"
    /\ live = {} /\ ~mBarrrier
    /\ IF heap.free = <<>>
         THEN code' = "NO_ERROR" /\ UNCHANGED mTotalSize
         ELSE IF Len(heap.free) # 1 \/ Len(heap.list) # 1
         THEN code' = "INVALID_VALUE" /\ UNCHANGED mTotalSize
         ELSE code' = "NO_ERROR" /\ mTotalSize' = SizeOf(heap, heap.list[1])
    /\ UNCHANGED <<heap, mBarrrier, pending, chunks, live, together>>

\* reset (onResizeBegin) drops the plan.
Reset ==
    /\ code # "none"
    /\ heap' = [nodes |-> <<>>, list |-> <<>>, free |-> <<>>]
    /\ mTotalSize' = 0
    /\ mBarrrier' = FALSE
    /\ pending' = <<>>
    /\ code' = "none"
    /\ chunks' = <<>>
    /\ live' = {}
    /\ together' = {}

\* No call begins in the loop of barrierEnd.
Next ==
    \/ FreeNext
    \/ /\ mBarrrier \/ pending = <<>>
       /\ \/ \E size \in Sizes, separate \in BOOLEAN : Alloc(size, separate)
          \/ \E c \in live : Free(c) \/ FreeLater(c)
          \/ BarrierBegin \/ BarrierEnd
          \/ Compute \/ Reset

Spec == Init /\ [][Next]_vars

-----------------------------------------------------------------------------
(* The result of a plan.                                                    *)

\* visiChildren: the offset of a node is the sum of the relative offsets from
\* it up to the node of the list it is part of.
Offset[n \in 0 .. Len(heap.nodes)] ==
    IF n = 0 THEN 0 ELSE heap.nodes[n].offset + Offset[heap.nodes[n].into]

\* The lists name nodes of the plan, and no size or offset is negative.
TypeOK ==
    /\ \A i \in 1 .. Len(heap.nodes) : heap.nodes[i] \in [size : Nat, offset : Nat, into : Nat]
    /\ \A i \in 1 .. Len(heap.list) : heap.list[i] \in 1 .. Len(heap.nodes)
    /\ \A i \in 1 .. Len(heap.free) : heap.free[i] \in 1 .. Len(heap.nodes)
    /\ mBarrrier \in BOOLEAN
    /\ mTotalSize \in Nat
    /\ code \in {"none", "NO_ERROR", "INVALID_VALUE"}
    /\ live \subseteq 1 .. Len(chunks)

\* Once everything is free, alloc, free and fuse have left one node, so that
\* compute never fails with INVALID_VALUE.
PlanComputes == code # "INVALID_VALUE"

\* Two chunks that were live at the same time, or were both used inside one
\* barrier, never share a byte, although nodes are split, expanded after
\* their neighbours were placed, and reused for later chunks.
NoOverlap ==
    code = "NO_ERROR" =>
      \A c, d \in 1 .. Len(chunks) : {c, d} \in together /\ c # d =>
         LET b == Offset[chunks[c].node]
             e == Offset[chunks[d].node]
         IN  b + chunks[c].size <= e \/ e + chunks[d].size <= b

\* Every chunk starts at a multiple of the alignment and lies inside the buffer
\* of mTotalSize bytes that apply asks for.
InsideArena ==
    code = "NO_ERROR" =>
      \A c \in 1 .. Len(chunks) :
         /\ Offset[chunks[c].node] % Align = 0
         /\ Offset[chunks[c].node] + chunks[c].size <= mTotalSize

\* The list tells used from free: neighbours are never both free (they would
\* have been fused), and each live chunk has a node of the list to itself.
Coalesced ==
    /\ \A i \in 1 .. Len(heap.list) - 1 : ~(InFree(heap, heap.list[i]) /\ InFree(heap, heap.list[i + 1]))
    /\ \A i \in 1 .. Len(heap.free) - 1 : SizeOf(heap, heap.free[i]) <= SizeOf(heap, heap.free[i + 1])
    /\ {chunks[c].node : c \in live} = {n \in 1 .. Len(heap.nodes) : heap.nodes[n].into = 0 /\ ~InFree(heap, n)}
    /\ \A c, d \in live : chunks[c].node = chunks[d].node => c = d

=============================================================================
