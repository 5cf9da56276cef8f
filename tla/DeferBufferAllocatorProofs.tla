---------------------- MODULE DeferBufferAllocatorProofs ----------------------
(***************************************************************************)
(* Proofs about DeferBufferAllocator, for any alignment, any sizes and any  *)
(* number of chunks.                                                       *)
(***************************************************************************)
EXTENDS DeferBufferAllocator, SequenceTheorems, WellFoundedInduction, TLAPS

Ids(h) == 1 .. Len(h.nodes)
Spots(h) == 1 .. Len(h.list)
OffsetOf(h, n) == h.nodes[n].offset
IntoOf(h, n) == h.nodes[n].into

Units == {x \in Nat : x % Align = 0}

MemNode == [size : Nat, offset : Nat, into : Nat]
Chunk == [node : Nat, size : Nat]
HeapSet == [nodes : Seq(MemNode), list : Seq(Nat), free : Seq(Nat)]

\* The list from left to right: o is the place in it of each node, or of the node
\* it was fused into, p where the node would lie were compute called now, and d how
\* deep it is below the node of the list.
Layout(h, o, p, d) ==
    /\ o \in [Ids(h) -> Spots(h)] /\ p \in [Ids(h) -> Units] /\ d \in [Ids(h) -> Nat]
    /\ \A n \in Ids(h) : SizeOf(h, n) \in Units
    /\ \A i \in Spots(h) : h.list[i] \in Ids(h) /\ IntoOf(h, h.list[i]) = 0 /\ o[h.list[i]] = i
    /\ \A n \in Ids(h) : IntoOf(h, n) = 0 => h.list[o[n]] = n /\ OffsetOf(h, n) = 0 /\ d[n] = 0
    /\ \A n \in Ids(h) : IntoOf(h, n) # 0 =>
         /\ IntoOf(h, n) \in Ids(h) /\ o[n] = o[IntoOf(h, n)] /\ d[IntoOf(h, n)] < d[n]
         /\ p[n] = p[IntoOf(h, n)] + OffsetOf(h, n)
    /\ \A i \in Spots(h) : i = 1 => p[h.list[i]] = 0
    /\ \A i, j \in Spots(h) : i < j => p[h.list[i]] + SizeOf(h, h.list[i]) <= p[h.list[j]]
    /\ \A i, j \in Spots(h) : j = i + 1 => p[h.list[j]] = p[h.list[i]] + SizeOf(h, h.list[i])

\* Where the last node of the list ends.
End(h, p) == p[h.list[Len(h.list)]] + SizeOf(h, h.list[Len(h.list)])

\* Chunk x lies before chunk y, and in a node that is not behind that of y.
Before(x, y, o, p) == o[x.node] <= o[y.node] /\ p[x.node] + x.size <= p[y.node]

\* The chunks lie before the end, and those that were live together are apart.
Placed(cs, pairs, h, o, p) ==
    /\ \A c \in 1 .. Len(cs) : cs[c].node \in Ids(h) /\ p[cs[c].node] + cs[c].size <= End(h, p)
    /\ \A c, e \in 1 .. Len(cs) : {c, e} \in pairs /\ c # e =>
         Before(cs[c], cs[e], o, p) \/ Before(cs[e], cs[c], o, p)

\* The free list names nodes of the list, in order of size and each once.
FreeInv(h) ==
    /\ \A i \in 1 .. Len(h.free) : h.free[i] \in Ids(h) /\ IntoOf(h, h.free[i]) = 0
    /\ \A i, j \in 1 .. Len(h.free) : i < j => /\ h.free[i] # h.free[j]
                                              /\ SizeOf(h, h.free[i]) <= SizeOf(h, h.free[j])

\* Neighbours are never both free.
Fused(h) == \A i, j \in Spots(h) : j = i + 1 => ~(InFree(h, h.list[i]) /\ InFree(h, h.list[j]))

Laid(h) == \E o, p, d : Layout(h, o, p, d)

Good(h) == h \in HeapSet /\ Laid(h) /\ FreeInv(h) /\ Fused(h)

\* The nodes of the list that are not free.
InUse(h) == {n \in Ids(h) : IntoOf(h, n) = 0 /\ ~InFree(h, n)}

\* The heap can be laid out with all the chunks in their places.
Planned(h, cs, pairs) == \E o, p, d : Layout(h, o, p, d) /\ Placed(cs, pairs, h, o, p)

\* Each chunk of lv has a node of the list to itself that is large enough.
Held(h, cs, lv) ==
    /\ lv \subseteq 1 .. Len(cs)
    /\ {cs[c].node : c \in lv} = InUse(h)
    /\ \A c, e \in lv : cs[c].node = cs[e].node => c = e
    /\ \A c \in lv : cs[c].size <= SizeOf(h, cs[c].node)

\* The one node of a computed plan is as large as the buffer.
Whole(h, total) == \A i \in Spots(h) : Len(h.list) = 1 /\ total = SizeOf(h, h.list[i])

\* What is put off is live, and a plan that is computed has nothing live.
CallInv ==
    /\ mBarrrier \in BOOLEAN /\ code \in {"none", "NO_ERROR"} /\ mTotalSize \in Nat
    /\ pending \in Seq(Nat)
    /\ \A i \in 1 .. Len(pending) : pending[i] \in live
    /\ \A i, j \in 1 .. Len(pending) : i < j => pending[i] # pending[j]
    /\ code # "none" => live = {} /\ ~mBarrrier /\ Whole(heap, mTotalSize)

PairsOf(cs) == SUBSET SUBSET (1 .. Len(cs))

PlanInv ==
    /\ chunks \in Seq(Chunk) /\ together \in PairsOf(chunks)
    /\ Planned(heap, chunks, together) /\ Held(heap, chunks, live)

IInv == Good(heap) /\ PlanInv /\ CallInv

-----------------------------------------------------------------------------
(* Sequences.                                                               *)

\* The least-number principle.
LEMMA LeastNat ==
  ASSUME NEW S \in SUBSET Nat, S # {}
  PROVE  \E n \in S : \A m \in S : n <= m
<1>1. PICK n \in S : \A m \in S : ~ (<<m, n>> \in OpToRel(<, Nat))
  BY NatLessThanWellFounded, WFMin
<1>2. \A m \in S : ~ (m < n)
  BY <1>1 DEF OpToRel
<1>3. QED
  BY <1>2

\* t is s with e put in at place i, or without its place i.
Inserted(t, s, i, e) ==
    /\ Len(t) = Len(s) + 1
    /\ \A j \in 1 .. Len(s) + 1 : t[j] = IF j < i THEN s[j] ELSE IF j = i THEN e ELSE s[j - 1]
Removed(t, s, i) ==
    /\ Len(t) = Len(s) - 1
    /\ \A j \in 1 .. Len(s) - 1 : t[j] = IF j < i THEN s[j] ELSE s[j + 1]

\* The operators of the community modules, place by place.
LEMMA InsertAtFacts ==
  ASSUME NEW S, NEW s \in Seq(S), NEW i \in 1 .. Len(s) + 1, NEW e \in S
  PROVE  InsertAt(s, i, e) \in Seq(S) /\ Inserted(InsertAt(s, i, e), s, i, e)
<1> DEFINE a == SubSeq(s, 1, i - 1)
<1> DEFINE b == SubSeq(s, i, Len(s))
<1> DEFINE u == a \o <<e>>
<1> DEFINE t == u \o b
<1>1. Len(s) \in Nat /\ i \in Int /\ \A j \in 1 .. Len(s) : s[j] \in S
  OBVIOUS
<1>2. a \in Seq(S) /\ Len(a) = i - 1 /\ \A j \in 1 .. i - 1 : a[j] = s[j]
  BY <1>1, SubSeqProperties
<1>3. b \in Seq(S) /\ Len(b) = Len(s) - i + 1 /\ \A j \in 1 .. Len(s) - i + 1 : b[j] = s[i + j - 1]
  BY <1>1, SubSeqProperties
<1>4. t = InsertAt(s, i, e)
  BY DEF InsertAt
<1> HIDE DEF a, b, t
<1>5. u \in Seq(S) /\ Len(u) = i /\ \A j \in 1 .. i : u[j] = IF j < i THEN a[j] ELSE e
  BY <1>1, <1>2, ConcatProperties
<1> HIDE DEF u
<1>6. /\ t \in Seq(S) /\ Len(t) = Len(s) + 1
      /\ \A j \in 1 .. Len(s) + 1 : t[j] = IF j <= i THEN u[j] ELSE b[j - i]
  BY <1>1, <1>3, <1>5, ConcatProperties DEF t
<1>7. ASSUME NEW j \in 1 .. Len(s) + 1
      PROVE  t[j] = IF j < i THEN s[j] ELSE IF j = i THEN e ELSE s[j - 1]
  <2>1. CASE j <= i
    BY <1>1, <1>2, <1>5, <1>6, <2>1
  <2>2. CASE j > i
    <3>1. j - i \in 1 .. Len(s) - i + 1 /\ i + (j - i) - 1 = j - 1 /\ ~(j <= i) /\ ~(j < i) /\ j # i
      BY <1>1, <2>2
    <3>2. b[j - i] = s[j - 1]
      BY <1>3, <3>1
    <3>3. t[j] = b[j - i]
      BY <1>6, <3>1
    <3>4. QED
      BY <3>1, <3>2, <3>3
  <2>3. QED
    BY <1>1, <2>1, <2>2
<1>8. QED
  BY <1>4, <1>6, <1>7 DEF Inserted

LEMMA RemoveAtFacts ==
  ASSUME NEW S, NEW s \in Seq(S), NEW i \in 1 .. Len(s)
  PROVE  RemoveAt(s, i) \in Seq(S) /\ Removed(RemoveAt(s, i), s, i)
<1> DEFINE a == SubSeq(s, 1, i - 1)
<1> DEFINE b == SubSeq(s, i + 1, Len(s))
<1> DEFINE t == a \o b
<1>1. Len(s) \in Nat /\ i \in Int /\ \A j \in 1 .. Len(s) : s[j] \in S
  OBVIOUS
<1>2. a \in Seq(S) /\ Len(a) = i - 1 /\ \A j \in 1 .. i - 1 : a[j] = s[j]
  BY <1>1, SubSeqProperties
<1>3. b \in Seq(S) /\ Len(b) = Len(s) - i /\ \A j \in 1 .. Len(s) - i : b[j] = s[i + j]
  BY <1>1, SubSeqProperties
<1>4. t = RemoveAt(s, i)
  BY DEF RemoveAt
<1> HIDE DEF a, b
<1>5. /\ t \in Seq(S) /\ Len(t) = Len(a) + Len(b)
      /\ \A j \in 1 .. Len(a) + Len(b) : t[j] = IF j <= Len(a) THEN a[j] ELSE b[j - Len(a)]
  BY <1>2, <1>3, ConcatProperties
<1> HIDE DEF t
<1>8. Len(t) = Len(s) - 1
  BY <1>1, <1>2, <1>3, <1>5
<1>6. ASSUME NEW j \in 1 .. Len(s) - 1
      PROVE  t[j] = IF j < i THEN s[j] ELSE s[j + 1]
  <2>1. t[j] = IF j <= i - 1 THEN a[j] ELSE b[j - (i - 1)]
    BY <1>1, <1>2, <1>3, <1>5
  <2>2. CASE j < i
    BY <1>1, <1>2, <2>1, <2>2
  <2>3. CASE ~ (j < i)
    <3>1. j - (i - 1) \in 1 .. Len(s) - i /\ i + (j - (i - 1)) = j + 1
      BY <1>1, <2>3
    <3>2. t[j] = b[j - (i - 1)]
      BY <1>1, <2>1, <2>3
    <3>3. b[j - (i - 1)] = s[i + (j - (i - 1))]
      BY <1>3, <3>1
    <3>4. QED
      BY <2>3, <3>1, <3>2, <3>3
  <2>4. QED
    BY <2>2, <2>3
<1>7. QED
  BY <1>4, <1>5, <1>6, <1>8 DEF Removed

\* At finds the place of an element that is there once.
LEMMA AtFacts ==
  ASSUME NEW s, NEW i \in 1 .. Len(s), \A j \in 1 .. Len(s) : s[j] = s[i] => j = i
  PROVE  At(s, s[i]) = i
  BY DEF At
-----------------------------------------------------------------------------
(* Multiples of the alignment.                                              *)

\* The multiples of the alignment, by a factor.
LEMMA UnitIs ==
  \A x \in Nat : x \in Units <=> \E k \in Nat : x = k * Align
<1>1. ASSUME NEW x \in Nat
      PROVE  x = (x \div Align) * Align + (x % Align) /\ x \div Align \in Nat /\ x % Align \in 0 .. Align - 1
  BY DeferAssumption
<1>2. ASSUME NEW k \in Nat PROVE (k * Align) % Align = 0
  <2> DEFINE x == k * Align
  <2> DEFINE q == x \div Align
  <2> DEFINE r == x % Align
  <2>1. x \in Nat /\ Align \in Nat
    BY DeferAssumption
  <2>2. x = q * Align + r /\ q \in Nat /\ r \in 0 .. Align - 1
    BY <1>1, <2>1
  <2> HIDE DEF q, r
  <2>3. r = (k - q) * Align
    BY <2>1, <2>2
  <2>4. CASE k > q
    <3>1. k - q - 1 \in Nat /\ (k - q) * Align = (k - q - 1) * Align + Align
      BY <2>1, <2>2, <2>4
    <3>2. (k - q - 1) * Align \in Nat
      BY <2>1, <3>1
    <3>3. QED
      BY <2>1, <2>2, <2>3, <3>1, <3>2
  <2>5. CASE k < q
    <3>1. q - k - 1 \in Nat /\ (k - q) * Align = 0 - Align - (q - k - 1) * Align
      BY <2>1, <2>2, <2>5
    <3>2. (q - k - 1) * Align \in Nat
      BY <2>1, <3>1
    <3>3. QED
      BY <2>1, <2>2, <2>3, <3>1, <3>2, DeferAssumption
  <2>6. CASE k = q
    BY <2>1, <2>2, <2>3, <2>6 DEF r
  <2>7. QED
    BY <2>2, <2>4, <2>5, <2>6
<1>3. ASSUME NEW x \in Nat, x % Align = 0 PROVE \E k \in Nat : x = k * Align
  <2>1. x = (x \div Align) * Align /\ x \div Align \in Nat
    BY <1>1, <1>3, DeferAssumption
  <2>2. QED
    BY <2>1
<1>4. QED
  BY <1>2, <1>3 DEF Units

\* They are closed under sums and differences.
LEMMA UnitFacts ==
  ASSUME NEW x \in Units, NEW y \in Units
  PROVE  /\ 0 \in Units /\ x \in Nat /\ y \in Nat /\ x + y \in Units
         /\ x >= y => x - y \in Units
<1>1. x \in Nat /\ y \in Nat /\ Align \in Nat
  BY DeferAssumption DEF Units
<1>2. PICK k \in Nat : x = k * Align
  BY <1>1, UnitIs
<1>3. PICK l \in Nat : y = l * Align
  BY <1>1, UnitIs
<1>4. x + y = (k + l) * Align /\ x - y = (k - l) * Align
  BY <1>1, <1>2, <1>3
<1>5. x + y \in Units
  <2>1. x + y \in Nat /\ k + l \in Nat
    BY <1>1
  <2>2. QED
    BY <1>4, <2>1, UnitIs
<1>6. 0 \in Units
  BY DeferAssumption DEF Units
<1>7. ASSUME x >= y PROVE x - y \in Units
  <2>1. CASE k >= l
    <3>1. k - l \in Nat /\ x - y \in Nat
      BY <1>1, <1>7, <2>1
    <3>2. QED
      BY <1>4, <3>1, UnitIs
  <2>2. CASE k < l
    <3>1. k * Align <= l * Align
      <4>1. l - k \in Nat /\ l * Align = k * Align + (l - k) * Align
        BY <1>1, <2>2
      <4>2. (l - k) * Align \in Nat /\ k * Align \in Nat
        BY <1>1, <4>1
      <4>3. QED
        BY <4>1, <4>2
    <3>2. x = y
      BY <1>1, <1>2, <1>3, <1>7, <3>1
    <3>3. QED
      BY <1>1, <1>6, <3>2
  <2>3. QED
    BY <2>1, <2>2
<1>8. QED
  BY <1>1, <1>5, <1>6, <1>7

\* alloc rounds up to a multiple.
LEMMA RoundUpFacts ==
  ASSUME NEW n \in Nat
  PROVE  RoundUp(n) \in Units /\ n <= RoundUp(n)
<1>1. (n + Align - 1) \div Align \in Nat /\ RoundUp(n) \in Nat
  BY DeferAssumption DEF RoundUp
<1>2. n <= RoundUp(n)
  BY DeferAssumption DEF RoundUp
<1>3. QED
  BY <1>1, <1>2, UnitIs DEF RoundUp
-----------------------------------------------------------------------------
(* Moves.                                                                   *)

\* The nodes keep their order, and their distances to each other and to the end do not shrink.
Spreads(h, o, p, h2, o2, p2) ==
    /\ Ids(h) \subseteq Ids(h2)
    /\ \A m, n \in Ids(h) : o[m] <= o[n] => o2[m] <= o2[n] /\ p2[m] + p[n] <= p2[n] + p[m]
    /\ \A n \in Ids(h) : p2[n] + End(h, p) <= End(h2, p2) + p[n]

\* What Layout says of the types.
LEMMA LayoutFacts ==
  ASSUME NEW h \in HeapSet, NEW o, NEW p, NEW d, Layout(h, o, p, d)
  PROVE  /\ Len(h.nodes) \in Nat /\ Len(h.list) \in Nat
         /\ \A n \in Ids(h) : /\ o[n] \in Spots(h) /\ p[n] \in Units /\ p[n] \in Nat
                              /\ SizeOf(h, n) \in Units /\ SizeOf(h, n) \in Nat
                              /\ OffsetOf(h, n) \in Nat /\ IntoOf(h, n) \in Nat
                              /\ d[n] \in Nat
         /\ \A n \in Ids(h) : Len(h.list) \in Spots(h) /\ End(h, p) \in Nat
         /\ \A i, j \in Spots(h) : h.list[i] = h.list[j] => i = j
<1>1. Len(h.nodes) \in Nat /\ Len(h.list) \in Nat
  BY DEF HeapSet
<1>2. \A n \in Ids(h) : h.nodes[n] \in MemNode
  <2>1. h.nodes \in Seq(MemNode)
    BY DEF HeapSet
  <2>2. QED
    BY <2>1 DEF Ids
<1>3. \A n \in Ids(h) : /\ o[n] \in Spots(h) /\ p[n] \in Units /\ p[n] \in Nat
                        /\ SizeOf(h, n) \in Units /\ SizeOf(h, n) \in Nat
                        /\ OffsetOf(h, n) \in Nat /\ IntoOf(h, n) \in Nat
                        /\ d[n] \in Nat
  BY <1>2 DEF Layout, Units, SizeOf, OffsetOf, IntoOf, MemNode
<1>4. \A i, j \in Spots(h) : h.list[i] = h.list[j] => i = j
  BY DEF Layout
<1>5. ASSUME NEW n \in Ids(h) PROVE Len(h.list) \in Spots(h) /\ End(h, p) \in Nat
  <2>1. Len(h.list) \in Spots(h)
    BY <1>1, <1>3 DEF Spots
  <2>2. h.list[Len(h.list)] \in Ids(h)
    BY <2>1 DEF Layout
  <2>3. QED
    BY <1>3, <2>1, <2>2 DEF End
<1>6. QED
  BY <1>1, <1>3, <1>4, <1>5

\* Chunks stay apart, and before the end, when distances only grow.
LEMMA PlacedKept ==
  ASSUME NEW h \in HeapSet, NEW o, NEW p, NEW d, Layout(h, o, p, d),
         NEW h2 \in HeapSet, NEW o2, NEW p2, NEW d2, Layout(h2, o2, p2, d2),
         Spreads(h, o, p, h2, o2, p2),
         NEW cs \in Seq(Chunk), NEW pairs, Placed(cs, pairs, h, o, p)
  PROVE  Placed(cs, pairs, h2, o2, p2)
<1>1. \A c \in 1 .. Len(cs) : /\ cs[c].node \in Ids(h) /\ cs[c].size \in Nat
                              /\ p[cs[c].node] + cs[c].size <= End(h, p)
  <2>1. \A c \in 1 .. Len(cs) : cs[c] \in Chunk
    OBVIOUS
  <2>2. QED
    BY <2>1 DEF Placed, Chunk
<1>2. ASSUME NEW c \in 1 .. Len(cs)
      PROVE  cs[c].node \in Ids(h2) /\ p2[cs[c].node] + cs[c].size <= End(h2, p2)
  <2> DEFINE n == cs[c].node
  <2>1. n \in Ids(h) /\ n \in Ids(h2) /\ cs[c].size \in Nat /\ p[n] + cs[c].size <= End(h, p)
    BY <1>1 DEF Spreads
  <2>2. p2[n] + End(h, p) <= End(h2, p2) + p[n]
    BY <2>1 DEF Spreads
  <2>3. p[n] \in Nat /\ p2[n] \in Nat /\ End(h, p) \in Nat /\ End(h2, p2) \in Nat
    BY <2>1, LayoutFacts
  <2> HIDE DEF n
  <2>4. p2[n] + cs[c].size <= End(h2, p2)
    BY <2>1, <2>2, <2>3
  <2>5. QED
    BY <2>1, <2>4 DEF n
<1>3. ASSUME NEW c \in 1 .. Len(cs), NEW e \in 1 .. Len(cs), Before(cs[c], cs[e], o, p)
      PROVE  Before(cs[c], cs[e], o2, p2)
  <2> DEFINE m == cs[c].node
  <2> DEFINE n == cs[e].node
  <2>1. m \in Ids(h) /\ n \in Ids(h) /\ cs[c].size \in Nat /\ m \in Ids(h2) /\ n \in Ids(h2)
    BY <1>1, <1>2
  <2>2. o[m] <= o[n] /\ p[m] + cs[c].size <= p[n]
    BY <1>3 DEF Before
  <2>3. o2[m] <= o2[n] /\ p2[m] + p[n] <= p2[n] + p[m]
    BY <2>1, <2>2 DEF Spreads
  <2>4. p[m] \in Nat /\ p[n] \in Nat /\ p2[m] \in Nat /\ p2[n] \in Nat
    BY <2>1, LayoutFacts
  <2> HIDE DEF m, n
  <2>5. p2[m] + cs[c].size <= p2[n]
    BY <2>1, <2>2, <2>3, <2>4
  <2>6. QED
    BY <2>3, <2>5 DEF Before, m, n
<1>4. \A c, e \in 1 .. Len(cs) : {c, e} \in pairs /\ c # e =>
         Before(cs[c], cs[e], o, p) \/ Before(cs[e], cs[c], o, p)
  BY DEF Placed
<1>5. QED
  BY <1>2, <1>3, <1>4 DEF Placed

\* Two steps that only stretch the layout are one.
LEMMA SpreadsTwice ==
  ASSUME NEW h \in HeapSet, NEW o, NEW p, NEW d, Layout(h, o, p, d),
         NEW h1 \in HeapSet, NEW o1, NEW p1, NEW d1, Layout(h1, o1, p1, d1),
         NEW h2 \in HeapSet, NEW o2, NEW p2, NEW d2, Layout(h2, o2, p2, d2),
         Spreads(h, o, p, h1, o1, p1), Spreads(h1, o1, p1, h2, o2, p2)
  PROVE  Spreads(h, o, p, h2, o2, p2)
<1>1. Ids(h) \subseteq Ids(h1) /\ Ids(h1) \subseteq Ids(h2)
  BY DEF Spreads
<1>2. ASSUME NEW m \in Ids(h), NEW n \in Ids(h), o[m] <= o[n]
      PROVE  o2[m] <= o2[n] /\ p2[m] + p[n] <= p2[n] + p[m]
  <2>1. o1[m] <= o1[n] /\ p1[m] + p[n] <= p1[n] + p[m]
    BY <1>2 DEF Spreads
  <2>2. o2[m] <= o2[n] /\ p2[m] + p1[n] <= p2[n] + p1[m]
    BY <1>1, <2>1 DEF Spreads
  <2>3. /\ p[m] \in Nat /\ p[n] \in Nat /\ p1[m] \in Nat /\ p1[n] \in Nat /\ p2[m] \in Nat /\ p2[n] \in Nat
    BY <1>1, LayoutFacts
  <2>4. QED
    BY <2>1, <2>2, <2>3
<1>3. ASSUME NEW n \in Ids(h)
      PROVE  p2[n] + End(h, p) <= End(h2, p2) + p[n]
  <2>1. p1[n] + End(h, p) <= End(h1, p1) + p[n] /\ p2[n] + End(h1, p1) <= End(h2, p2) + p1[n]
    BY <1>1 DEF Spreads
  <2>2. /\ p[n] \in Nat /\ p1[n] \in Nat /\ p2[n] \in Nat
        /\ End(h, p) \in Nat /\ End(h1, p1) \in Nat /\ End(h2, p2) \in Nat
    BY <1>1, LayoutFacts
  <2>3. QED
    BY <2>1, <2>2
<1>4. QED
  BY <1>1, <1>2, <1>3 DEF Spreads

-----------------------------------------------------------------------------
(* The layout through the steps of alloc and free.                          *)

\* Node n has another size.
Resized(h2, h, n, size) ==
    /\ Ids(h2) = Ids(h) /\ h2.list = h.list
    /\ \A m \in Ids(h) : /\ SizeOf(h2, m) = IF m = n THEN size ELSE SizeOf(h, m)
                         /\ OffsetOf(h2, m) = OffsetOf(h, m) /\ IntoOf(h2, m) = IntoOf(h, m)

\* The nodes and the list are the same.
Same(h2, h) == h2.nodes = h.nodes /\ h2.list = h.list

\* The free list does not matter for the layout.
LEMMA LayoutSame ==
  ASSUME NEW h, NEW o, NEW p, NEW d, Layout(h, o, p, d), NEW h2, Same(h2, h)
  PROVE  Layout(h2, o, p, d) /\ End(h2, p) = End(h, p)
  BY DEF Layout, Same, Ids, Spots, SizeOf, OffsetOf, IntoOf, End

\* A node grows: what is behind it moves.
LEMMA LayoutExpand ==
  ASSUME NEW h \in HeapSet, NEW o, NEW p, NEW d, Layout(h, o, p, d), NEW i \in Spots(h),
         NEW more \in Units, NEW h2, Resized(h2, h, h.list[i], SizeOf(h, h.list[i]) + more)
  PROVE  \E p2 : Layout(h2, o, p2, d) /\ Spreads(h, o, p, h2, o, p2)
<1> DEFINE n == h.list[i]
<1> DEFINE p2 == [m \in Ids(h) |-> IF o[m] > i THEN p[m] + more ELSE p[m]]
<1>1. /\ Ids(h2) = Ids(h) /\ Spots(h2) = Spots(h) /\ h2.list = h.list /\ n \in Ids(h)
      /\ \A m \in Ids(h) : /\ SizeOf(h2, m) = IF m = n THEN SizeOf(h, n) + more ELSE SizeOf(h, m)
                           /\ OffsetOf(h2, m) = OffsetOf(h, m) /\ IntoOf(h2, m) = IntoOf(h, m)
  BY DEF Resized, Layout, Spots
<1>2. \A m \in Ids(h) : p2[m] = IF o[m] > i THEN p[m] + more ELSE p[m]
  OBVIOUS
<1>3. /\ i \in Int /\ more \in Nat /\ Spots(h) \subseteq Int
      /\ \A m \in Ids(h) : /\ o[m] \in Spots(h) /\ p[m] \in Units /\ p[m] \in Nat
                           /\ SizeOf(h, m) \in Units /\ SizeOf(h, m) \in Nat /\ OffsetOf(h, m) \in Nat
  <2>1. more \in Nat
    BY DEF Units
  <2>2. Spots(h) \subseteq Int
    BY DEF Spots
  <2>3. QED
    BY <2>1, <2>2, LayoutFacts
<1>4. \A j \in Spots(h) : /\ h.list[j] \in Ids(h) /\ o[h.list[j]] = j
                          /\ h.list[j] = n <=> j = i
  BY LayoutFacts DEF Layout
<1>5. p2 \in [Ids(h) -> Units] /\ \A m \in Ids(h) : SizeOf(h2, m) \in Units
  BY <1>1, <1>3, UnitFacts
<1>6. \A m \in Ids(h) : p2[m] \in Nat
  BY <1>2, <1>3
<1> HIDE DEF n, p2
<1>7. \A j \in Spots(h) : /\ p2[h.list[j]] = IF j > i THEN p[h.list[j]] + more ELSE p[h.list[j]]
                          /\ SizeOf(h2, h.list[j]) = IF j = i THEN SizeOf(h, h.list[j]) + more ELSE SizeOf(h, h.list[j])
                          /\ p[h.list[j]] \in Nat /\ SizeOf(h, h.list[j]) \in Nat
  BY <1>1, <1>2, <1>3, <1>4
<1>8. ASSUME NEW j \in Spots(h), NEW k \in Spots(h), j < k
      PROVE  p2[h.list[j]] + SizeOf(h2, h.list[j]) <= p2[h.list[k]]
  <2>1. p[h.list[j]] + SizeOf(h, h.list[j]) <= p[h.list[k]]
    BY <1>8 DEF Layout
  <2>2. j \in Int /\ k \in Int
    BY <1>3
  <2>3. QED
    BY <1>3, <1>7, <1>8, <2>1, <2>2
<1>9. ASSUME NEW j \in Spots(h), NEW k \in Spots(h), k = j + 1
      PROVE  p2[h.list[k]] = p2[h.list[j]] + SizeOf(h2, h.list[j])
  <2>1. p[h.list[k]] = p[h.list[j]] + SizeOf(h, h.list[j])
    BY <1>9 DEF Layout
  <2>2. j \in Int /\ k \in Int
    BY <1>3
  <2>3. QED
    BY <1>3, <1>7, <1>9, <2>1, <2>2
<1>10. ASSUME NEW j \in Spots(h), j = 1 PROVE p2[h.list[j]] = 0
  <2>1. p[h.list[j]] = 0 /\ ~(j > i)
    BY <1>10 DEF Layout, Spots
  <2>2. QED
    BY <1>7, <2>1
<1>11. ASSUME NEW m \in Ids(h), IntoOf(h, m) # 0
       PROVE  p2[m] = p2[IntoOf(h, m)] + OffsetOf(h, m)
  <2>1. IntoOf(h, m) \in Ids(h) /\ o[m] = o[IntoOf(h, m)] /\ p[m] = p[IntoOf(h, m)] + OffsetOf(h, m)
    BY <1>11 DEF Layout
  <2>2. QED
    BY <1>2, <1>3, <2>1
<1>12. Layout(h2, o, p2, d)
  <2>1. o \in [Ids(h2) -> Spots(h2)] /\ p2 \in [Ids(h2) -> Units] /\ d \in [Ids(h2) -> Nat]
    BY <1>1, <1>5 DEF Layout
  <2>2. /\ \A n2 \in Ids(h2) : SizeOf(h2, n2) \in Units
        /\ \A j \in Spots(h2) : h2.list[j] \in Ids(h2) /\ IntoOf(h2, h2.list[j]) = 0 /\ o[h2.list[j]] = j
        /\ \A m \in Ids(h2) : IntoOf(h2, m) = 0 => h2.list[o[m]] = m /\ OffsetOf(h2, m) = 0 /\ d[m] = 0
    BY <1>1, <1>5 DEF Layout
  <2>3. \A m \in Ids(h2) : IntoOf(h2, m) # 0 =>
           /\ IntoOf(h2, m) \in Ids(h2) /\ o[m] = o[IntoOf(h2, m)] /\ d[IntoOf(h2, m)] < d[m]
           /\ p2[m] = p2[IntoOf(h2, m)] + OffsetOf(h2, m)
    BY <1>1, <1>11 DEF Layout
  <2>4. /\ \A j \in Spots(h2) : j = 1 => p2[h2.list[j]] = 0
        /\ \A j, k \in Spots(h2) : j < k => p2[h2.list[j]] + SizeOf(h2, h2.list[j]) <= p2[h2.list[k]]
        /\ \A j, k \in Spots(h2) : k = j + 1 => p2[h2.list[k]] = p2[h2.list[j]] + SizeOf(h2, h2.list[j])
    BY <1>1, <1>8, <1>9, <1>10
  <2>5. QED
    BY <2>1, <2>2, <2>3, <2>4 DEF Layout
<1>13. ASSUME NEW m \in Ids(h), NEW k \in Ids(h), o[m] <= o[k]
       PROVE  p2[m] + p[k] <= p2[k] + p[m]
  <2>1. o[m] \in Int /\ o[k] \in Int
    BY <1>3
  <2>2. QED
    BY <1>2, <1>3, <1>13, <2>1
<1>14. ASSUME NEW m \in Ids(h)
       PROVE  p2[m] + End(h, p) <= End(h2, p2) + p[m]
  <2> DEFINE L == Len(h.list)
  <2>1. L \in Spots(h) /\ \A j \in Spots(h) : j <= L
    BY LayoutFacts DEF Spots
  <2>2. End(h, p) = p[h.list[L]] + SizeOf(h, h.list[L]) /\ End(h2, p2) = p2[h.list[L]] + SizeOf(h2, h.list[L])
    BY <1>1 DEF End
  <2> HIDE DEF L
  <2>3. L = i \/ L > i
    BY <1>3, <2>1
  <2>4. End(h2, p2) = End(h, p) + more
    BY <1>3, <1>7, <2>1, <2>2, <2>3
  <2>5. End(h, p) \in Nat
    BY LayoutFacts
  <2>6. QED
    BY <1>2, <1>3, <2>4, <2>5
<1>15. Spreads(h, o, p, h2, o, p2)
  BY <1>1, <1>13, <1>14 DEF Spreads
<1>16. QED
  BY <1>12, <1>15

\* A node is split: the new node m takes the rest behind it.
Split(h2, h, i, m, size, rest) ==
    /\ Ids(h2) = Ids(h) \cup {m} /\ m \notin Ids(h)
    /\ \A x \in Ids(h) : /\ SizeOf(h2, x) = IF x = h.list[i] THEN size ELSE SizeOf(h, x)
                         /\ OffsetOf(h2, x) = OffsetOf(h, x) /\ IntoOf(h2, x) = IntoOf(h, x)
    /\ SizeOf(h2, m) = rest /\ OffsetOf(h2, m) = 0 /\ IntoOf(h2, m) = 0
    /\ Inserted(h2.list, h.list, i + 1, m)

\* A node is split: nothing moves, and what is behind it has a place more.
LEMMA LayoutSplit ==
  ASSUME NEW h \in HeapSet, NEW o, NEW p, NEW d, Layout(h, o, p, d), NEW i \in Spots(h),
         NEW size \in Units, NEW rest \in Units, SizeOf(h, h.list[i]) = size + rest,
         NEW m \in Nat \ {0}, NEW h2, Split(h2, h, i, m, size, rest)
  PROVE  \E o2, p2, d2 : Layout(h2, o2, p2, d2) /\ Spreads(h, o, p, h2, o2, p2)
<1> DEFINE n == h.list[i]
<1> DEFINE L == Len(h.list)
<1> DEFINE N == Ids(h) \cup {m}
<1> DEFINE o2 == [x \in N |-> IF x = m THEN i + 1 ELSE IF o[x] > i THEN o[x] + 1 ELSE o[x]]
<1> DEFINE p2 == [x \in N |-> IF x = m THEN p[n] + size ELSE p[x]]
<1> DEFINE d2 == [x \in N |-> IF x = m THEN 0 ELSE d[x]]
<1>1. /\ Ids(h2) = N /\ m \notin Ids(h) /\ n \in Ids(h)
      /\ \A x \in Ids(h) : /\ SizeOf(h2, x) = IF x = n THEN size ELSE SizeOf(h, x)
                           /\ OffsetOf(h2, x) = OffsetOf(h, x) /\ IntoOf(h2, x) = IntoOf(h, x)
      /\ SizeOf(h2, m) = rest /\ OffsetOf(h2, m) = 0 /\ IntoOf(h2, m) = 0
  BY DEF Split, Layout
<1>2. L \in Nat /\ i \in 1 .. L /\ Spots(h) = 1 .. L
  BY LayoutFacts DEF Spots
<1>3. /\ Spots(h2) = 1 .. L + 1
      /\ \A j \in 1 .. L + 1 : h2.list[j] = IF j < i + 1 THEN h.list[j] ELSE IF j = i + 1 THEN m ELSE h.list[j - 1]
  BY DEF Split, Inserted, Spots
<1>4. /\ size \in Nat /\ rest \in Nat
      /\ \A x \in Ids(h) : /\ o[x] \in 1 .. L /\ p[x] \in Units /\ p[x] \in Nat
                           /\ SizeOf(h, x) \in Units /\ SizeOf(h, x) \in Nat /\ d[x] \in Nat
  <2>1. size \in Nat /\ rest \in Nat
    BY DEF Units
  <2>2. QED
    BY <1>2, <2>1, LayoutFacts
<1>5. \A j \in 1 .. L : /\ h.list[j] \in Ids(h) /\ o[h.list[j]] = j /\ IntoOf(h, h.list[j]) = 0
                        /\ h.list[j] = n <=> j = i
  BY <1>2, LayoutFacts DEF Layout
<1>6. SizeOf(h, n) = size + rest
  OBVIOUS
<1>7. /\ \A x \in Ids(h) : /\ o2[x] = IF o[x] > i THEN o[x] + 1 ELSE o[x]
                           /\ p2[x] = p[x] /\ d2[x] = d[x]
      /\ o2[m] = i + 1 /\ p2[m] = p[n] + size /\ d2[m] = 0
  BY <1>1
<1>8. o2 \in [N -> 1 .. L + 1] /\ p2 \in [N -> Units] /\ d2 \in [N -> Nat]
  <2>1. p[n] + size \in Units
    BY <1>1, <1>4, UnitFacts
  <2>2. ASSUME NEW x \in N
        PROVE  /\ (IF x = m THEN i + 1 ELSE IF o[x] > i THEN o[x] + 1 ELSE o[x]) \in 1 .. L + 1
               /\ (IF x = m THEN p[n] + size ELSE p[x]) \in Units
               /\ (IF x = m THEN 0 ELSE d[x]) \in Nat
    BY <1>2, <1>4, <2>1
  <2> HIDE DEF N
  <2>3. QED
    BY <2>2
<1> HIDE DEF n, L, N, o2, p2, d2
\* The places of the new list.
<1>9. \A j \in 1 .. i : /\ j \in 1 .. L /\ h2.list[j] = h.list[j] /\ p2[h2.list[j]] = p[h.list[j]]
                        /\ o2[h2.list[j]] = j
                        /\ SizeOf(h2, h2.list[j]) = IF j = i THEN size ELSE SizeOf(h, h.list[j])
  BY <1>1, <1>2, <1>3, <1>5, <1>7
<1>10. h2.list[i + 1] = m /\ p2[h2.list[i + 1]] = p[h.list[i]] + size /\ SizeOf(h2, h2.list[i + 1]) = rest
  BY <1>1, <1>2, <1>3, <1>7 DEF n
<1>11. \A j \in i + 2 .. L + 1 : /\ j - 1 \in 1 .. L /\ j - 1 > i /\ h2.list[j] = h.list[j - 1]
                                /\ p2[h2.list[j]] = p[h.list[j - 1]]
                                /\ o2[h2.list[j]] = j
                                /\ SizeOf(h2, h2.list[j]) = SizeOf(h, h.list[j - 1])
  <2>1. TAKE j \in i + 2 .. L + 1
  <2>2. j \in 1 .. L + 1 /\ j - 1 \in 1 .. L /\ j - 1 > i /\ ~(j < i + 1) /\ j # i + 1 /\ j - 1 + 1 = j
    BY <1>2
  <2>3. h2.list[j] = h.list[j - 1] /\ h.list[j - 1] \in Ids(h) /\ o[h.list[j - 1]] = j - 1 /\ h.list[j - 1] # n
    BY <1>2, <1>3, <1>5, <2>2
  <2>4. QED
    BY <1>1, <1>7, <2>2, <2>3
<1>12. \A j, k \in 1 .. L : j < k => p[h.list[j]] + SizeOf(h, h.list[j]) <= p[h.list[k]]
  BY <1>2 DEF Layout
<1>13. \A j, k \in 1 .. L : k = j + 1 => p[h.list[k]] = p[h.list[j]] + SizeOf(h, h.list[j])
  BY <1>2 DEF Layout
<1>14. \A j \in 1 .. L : p[h.list[j]] \in Nat /\ SizeOf(h, h.list[j]) \in Nat
  BY <1>4, <1>5
<1>15. SizeOf(h, h.list[i]) = size + rest
  BY <1>6 DEF n

<1>16. ASSUME NEW j \in 1 .. L + 1, NEW k \in 1 .. L + 1, j < k
       PROVE  p2[h2.list[j]] + SizeOf(h2, h2.list[j]) <= p2[h2.list[k]]
  <2>1. CASE k <= i
    <3>1. j \in 1 .. i /\ k \in 1 .. i /\ j # i
      BY <1>2, <1>16, <2>1
    <3>2. QED
      BY <1>9, <1>12, <1>16, <3>1
  <2>2. CASE k = i + 1
    <3>1. j \in 1 .. i /\ i \in 1 .. L /\ j \in 1 .. L
      BY <1>2, <1>16, <2>2
    <3>2. CASE j = i
      BY <1>4, <1>9, <1>10, <1>14, <2>2, <3>1, <3>2
    <3>3. CASE j < i
      <4>1. p[h.list[j]] + SizeOf(h, h.list[j]) <= p[h.list[i]]
        BY <1>12, <3>1, <3>3
      <4>2. QED
        BY <1>4, <1>9, <1>10, <1>14, <2>2, <3>1, <3>3, <4>1
    <3>4. QED
      BY <1>2, <3>1, <3>2, <3>3
  <2>3. CASE k > i + 1
    <3>1. k \in i + 2 .. L + 1 /\ k - 1 \in 1 .. L /\ i < k - 1 /\ i \in 1 .. L
      BY <1>2, <2>3
    <3>2. p[h.list[i]] + size + rest <= p[h.list[k - 1]] /\ p2[h2.list[k]] = p[h.list[k - 1]]
      BY <1>11, <1>12, <1>14, <1>15, <1>4, <3>1
    <3>3. CASE j < i
      <4>1. j \in 1 .. i /\ j \in 1 .. L /\ j < k - 1 /\ j # i
        BY <1>2, <3>1, <3>3
      <4>2. QED
        BY <1>9, <1>12, <3>1, <3>2, <4>1
    <3>4. CASE j = i
      <4>1. i \in 1 .. i
        BY <1>2
      <4>2. p2[h2.list[j]] = p[h.list[i]] /\ SizeOf(h2, h2.list[j]) = size
        BY <1>9, <3>4, <4>1
      <4>3. QED
        BY <1>4, <1>14, <3>1, <3>2, <4>2
    <3>5. CASE j = i + 1
      BY <1>4, <1>10, <1>14, <3>1, <3>2, <3>5
    <3>6. CASE j > i + 1
      <4>1. j \in i + 2 .. L + 1 /\ j - 1 \in 1 .. L /\ j - 1 < k - 1
        BY <1>2, <1>16, <3>6
      <4>2. QED
        BY <1>11, <1>12, <3>1, <3>2, <4>1
    <3>7. QED
      BY <1>2, <3>3, <3>4, <3>5, <3>6
  <2>4. QED
    BY <1>2, <2>1, <2>2, <2>3
<1>17. ASSUME NEW j \in 1 .. L + 1, NEW k \in 1 .. L + 1, k = j + 1
       PROVE  p2[h2.list[k]] = p2[h2.list[j]] + SizeOf(h2, h2.list[j])
  <2>1. CASE k <= i
    <3>1. j \in 1 .. i /\ k \in 1 .. i /\ j # i
      BY <1>2, <1>17, <2>1
    <3>2. QED
      BY <1>9, <1>13, <1>17, <3>1
  <2>2. CASE k = i + 1
    <3>1. j \in 1 .. i /\ j = i
      BY <1>2, <1>17, <2>2
    <3>2. QED
      BY <1>9, <1>10, <2>2, <3>1
  <2>3. CASE k = i + 2
    <3>1. k \in i + 2 .. L + 1 /\ k - 1 = i + 1 /\ k - 1 \in 1 .. L /\ i \in 1 .. L /\ j = i + 1
      BY <1>2, <1>17, <2>3
    <3>2. p[h.list[k - 1]] = p[h.list[i]] + SizeOf(h, h.list[i])
      BY <1>13, <3>1
    <3>3. QED
      BY <1>4, <1>10, <1>11, <1>14, <1>15, <3>1, <3>2
  <2>4. CASE k > i + 2
    <3>1. j \in i + 2 .. L + 1 /\ k \in i + 2 .. L + 1 /\ j - 1 \in 1 .. L /\ k - 1 \in 1 .. L /\ k - 1 = j - 1 + 1
      BY <1>2, <1>17, <2>4
    <3>2. QED
      BY <1>11, <1>13, <3>1
  <2>5. QED
    BY <1>2, <2>1, <2>2, <2>3, <2>4
<1>18. ASSUME NEW j \in 1 .. L + 1
       PROVE  h2.list[j] \in Ids(h2) /\ IntoOf(h2, h2.list[j]) = 0 /\ o2[h2.list[j]] = j
  <2>1. CASE j <= i
    <3>1. j \in 1 .. i
      BY <1>2, <2>1
    <3>2. QED
      BY <1>1, <1>5, <1>9, <3>1 DEF N
  <2>2. CASE j = i + 1
    BY <1>1, <1>7, <1>10, <2>2 DEF N
  <2>3. CASE j > i + 1
    <3>1. j \in i + 2 .. L + 1
      BY <1>2, <2>3
    <3>2. QED
      BY <1>1, <1>5, <1>11, <3>1 DEF N
  <2>4. QED
    BY <1>2, <2>1, <2>2, <2>3
<1>19. ASSUME NEW x \in N, IntoOf(h2, x) = 0
       PROVE  h2.list[o2[x]] = x /\ OffsetOf(h2, x) = 0 /\ d2[x] = 0
  <2>1. CASE x = m
    BY <1>1, <1>7, <1>10, <2>1
  <2>2. CASE x # m
    <3>1. x \in Ids(h)
      BY <2>2 DEF N
    <3>2. IntoOf(h, x) = 0 /\ h.list[o[x]] = x /\ OffsetOf(h, x) = 0 /\ d[x] = 0 /\ o[x] \in 1 .. L
      BY <1>1, <1>4, <1>19, <3>1 DEF Layout
    <3>3. h2.list[o2[x]] = x
      <4>1. CASE o[x] <= i
        <5>1. o[x] \in 1 .. i /\ o2[x] = o[x]
          BY <1>2, <1>7, <3>1, <3>2, <4>1
        <5>2. QED
          BY <1>9, <3>2, <5>1
      <4>2. CASE o[x] > i
        <5>1. o2[x] \in i + 2 .. L + 1 /\ o2[x] - 1 = o[x]
          BY <1>2, <1>7, <3>1, <3>2, <4>2
        <5>2. QED
          BY <1>11, <3>2, <5>1
      <4>3. QED
        BY <1>2, <3>2, <4>1, <4>2
    <3>4. QED
      BY <1>1, <1>7, <3>1, <3>2, <3>3
  <2>3. QED
    BY <2>1, <2>2
<1>20. ASSUME NEW x \in N, IntoOf(h2, x) # 0
       PROVE  /\ IntoOf(h2, x) \in N /\ o2[x] = o2[IntoOf(h2, x)] /\ d2[IntoOf(h2, x)] < d2[x]
              /\ p2[x] = p2[IntoOf(h2, x)] + OffsetOf(h2, x)
  <2>1. x \in Ids(h) /\ IntoOf(h2, x) = IntoOf(h, x) /\ OffsetOf(h2, x) = OffsetOf(h, x)
    BY <1>1, <1>20 DEF N
  <2>2. /\ IntoOf(h, x) \in Ids(h) /\ o[x] = o[IntoOf(h, x)] /\ d[IntoOf(h, x)] < d[x]
        /\ p[x] = p[IntoOf(h, x)] + OffsetOf(h, x)
    BY <1>20, <2>1 DEF Layout
  <2>3. IntoOf(h, x) \in N
    BY <2>2 DEF N
  <2>4. QED
    BY <1>7, <2>1, <2>2, <2>3
<1>21. Layout(h2, o2, p2, d2)
  <2>1. o2 \in [Ids(h2) -> Spots(h2)] /\ p2 \in [Ids(h2) -> Units] /\ d2 \in [Ids(h2) -> Nat]
    BY <1>1, <1>3, <1>8
  <2>2. \A x \in Ids(h2) : SizeOf(h2, x) \in Units
    BY <1>1, <1>4 DEF N
  <2>3. \A j \in Spots(h2) : j = 1 => p2[h2.list[j]] = 0
    <3>1. 1 \in 1 .. i /\ 1 \in 1 .. L
      BY <1>2
    <3>2. p[h.list[1]] = 0
      BY <1>2, <3>1 DEF Layout
    <3>3. QED
      BY <1>9, <3>1, <3>2
  <2>4. QED
    BY <1>1, <1>3, <1>16, <1>17, <1>18, <1>19, <1>20, <2>1, <2>2, <2>3 DEF Layout
<1>22. ASSUME NEW x \in Ids(h)
       PROVE  p2[x] + End(h, p) <= End(h2, p2) + p[x]
  <2>1. L \in 1 .. L /\ L + 1 \in 1 .. L + 1 /\ L \in Nat
    BY <1>2
  <2>2. /\ End(h, p) = p[h.list[L]] + SizeOf(h, h.list[L])
        /\ End(h2, p2) = p2[h2.list[L + 1]] + SizeOf(h2, h2.list[L + 1])
    <3>1. Len(h2.list) = L + 1
      BY DEF Split, Inserted, L
    <3>2. QED
      BY <3>1 DEF End, L
  <2>3. CASE i = L
    BY <1>4, <1>7, <1>10, <1>14, <1>15, <2>1, <2>2, <2>3
  <2>4. CASE i < L
    <3>1. End(h2, p2) = End(h, p)
      <4> DEFINE k == L + 1
      <4>1. k \in i + 2 .. L + 1 /\ k - 1 = L
        BY <1>2, <2>1, <2>4
      <4>2. End(h2, p2) = p2[h2.list[k]] + SizeOf(h2, h2.list[k])
        BY <2>2 DEF k
      <4> HIDE DEF k
      <4>3. p2[h2.list[k]] = p[h.list[L]] /\ SizeOf(h2, h2.list[k]) = SizeOf(h, h.list[L])
        BY <1>11, <4>1
      <4>4. QED
        BY <2>2, <4>2, <4>3
    <3>2. QED
      BY <1>4, <1>7, <1>14, <2>1, <2>2, <3>1
  <2>5. QED
    BY <1>2, <2>3, <2>4
<1>23. ASSUME NEW x \in Ids(h), NEW y \in Ids(h), o[x] <= o[y]
       PROVE  o2[x] <= o2[y] /\ p2[x] + p[y] <= p2[y] + p[x]
  <2>1. o[x] \in Int /\ o[y] \in Int /\ i \in Int /\ p[x] \in Nat /\ p[y] \in Nat
    BY <1>2, <1>4
  <2>2. QED
    BY <1>7, <1>23, <2>1
<1>24. Spreads(h, o, p, h2, o2, p2)
  BY <1>1, <1>22, <1>23 DEF Spreads, N
<1>25. QED
  BY <1>21, <1>24

\* A new node m at the end of the list.
Grown(h2, h, m, size) ==
    /\ Ids(h2) = Ids(h) \cup {m} /\ m \notin Ids(h)
    /\ \A x \in Ids(h) : /\ SizeOf(h2, x) = SizeOf(h, x)
                         /\ OffsetOf(h2, x) = OffsetOf(h, x) /\ IntoOf(h2, x) = IntoOf(h, x)
    /\ SizeOf(h2, m) = size /\ OffsetOf(h2, m) = 0 /\ IntoOf(h2, m) = 0
    /\ Inserted(h2.list, h.list, Len(h.list) + 1, m)

\* A node is added at the tail: nothing moves.
LEMMA LayoutTail ==
  ASSUME NEW h \in HeapSet, NEW o, NEW p, NEW d, Layout(h, o, p, d),
         NEW size \in Units, NEW m \in Nat \ {0}, NEW h2, Grown(h2, h, m, size)
  PROVE  \E o2, p2, d2 : Layout(h2, o2, p2, d2) /\ Spreads(h, o, p, h2, o2, p2)
<1> DEFINE L == Len(h.list)
<1> DEFINE N == Ids(h) \cup {m}
<1> DEFINE e == IF L = 0 THEN 0 ELSE p[h.list[L]] + SizeOf(h, h.list[L])
<1> DEFINE o2 == [x \in N |-> IF x = m THEN L + 1 ELSE o[x]]
<1> DEFINE p2 == [x \in N |-> IF x = m THEN e ELSE p[x]]
<1> DEFINE d2 == [x \in N |-> IF x = m THEN 0 ELSE d[x]]
<1>1. /\ Ids(h2) = N /\ m \notin Ids(h)
      /\ \A x \in Ids(h) : /\ SizeOf(h2, x) = SizeOf(h, x)
                           /\ OffsetOf(h2, x) = OffsetOf(h, x) /\ IntoOf(h2, x) = IntoOf(h, x)
      /\ SizeOf(h2, m) = size /\ OffsetOf(h2, m) = 0 /\ IntoOf(h2, m) = 0
  BY DEF Grown
<1>2. L \in Nat /\ Spots(h) = 1 .. L
  BY LayoutFacts DEF Spots
<1>3. Spots(h2) = 1 .. L + 1 /\ h2.list[L + 1] = m /\ \A j \in 1 .. L : h2.list[j] = h.list[j]
  <2>1. /\ Len(h2.list) = L + 1
        /\ \A j \in 1 .. L + 1 : h2.list[j] = IF j < L + 1 THEN h.list[j] ELSE
                                             IF j = L + 1 THEN m ELSE h.list[j - 1]
    BY DEF Grown, Inserted
  <2>2. QED
    BY <1>2, <2>1 DEF Spots
<1>4. /\ size \in Nat
      /\ \A x \in Ids(h) : /\ o[x] \in 1 .. L /\ p[x] \in Units /\ p[x] \in Nat
                           /\ SizeOf(h, x) \in Units /\ SizeOf(h, x) \in Nat /\ d[x] \in Nat
  <2>1. size \in Nat
    BY DEF Units
  <2>2. QED
    BY <1>2, <2>1, LayoutFacts
<1>5. \A j \in 1 .. L : /\ h.list[j] \in Ids(h) /\ o[h.list[j]] = j /\ IntoOf(h, h.list[j]) = 0
                        /\ p[h.list[j]] \in Nat /\ SizeOf(h, h.list[j]) \in Nat
  BY <1>2, <1>4 DEF Layout
<1>6. e \in Units /\ e \in Nat
  <2>1. CASE L = 0
    BY <2>1, UnitFacts
  <2>2. CASE L # 0
    <3>1. L \in 1 .. L
      BY <1>2, <2>2
    <3>2. QED
      BY <1>4, <1>5, <2>2, <3>1, UnitFacts
  <2>3. QED
    BY <2>1, <2>2
<1>7. \A j \in 1 .. L : p[h.list[j]] + SizeOf(h, h.list[j]) <= e
  <2>1. TAKE j \in 1 .. L
  <2>2. L # 0 /\ L \in 1 .. L /\ e = p[h.list[L]] + SizeOf(h, h.list[L])
    BY <1>2
  <2>3. CASE j = L
    BY <1>5, <2>2, <2>3
  <2>4. CASE j < L
    <3>1. p[h.list[j]] + SizeOf(h, h.list[j]) <= p[h.list[L]]
      BY <1>2, <2>2, <2>4 DEF Layout
    <3>2. QED
      BY <1>5, <2>2, <3>1, SMTT(30)
  <2>5. QED
    BY <1>2, <2>3, <2>4
<1>8. /\ \A x \in Ids(h) : o2[x] = o[x] /\ p2[x] = p[x] /\ d2[x] = d[x]
      /\ o2[m] = L + 1 /\ p2[m] = e /\ d2[m] = 0
  BY <1>1
<1>9. o2 \in [N -> 1 .. L + 1] /\ p2 \in [N -> Units] /\ d2 \in [N -> Nat]
  <2>1. ASSUME NEW x \in N
        PROVE  /\ (IF x = m THEN L + 1 ELSE o[x]) \in 1 .. L + 1
               /\ (IF x = m THEN e ELSE p[x]) \in Units
               /\ (IF x = m THEN 0 ELSE d[x]) \in Nat
    BY <1>2, <1>4, <1>6
  <2> HIDE DEF N, e
  <2>2. QED
    BY <2>1
<1>10. (L = 0 => e = 0) /\ (L # 0 => e = p[h.list[L]] + SizeOf(h, h.list[L]))
  OBVIOUS
<1> HIDE DEF L, N, e, o2, p2, d2
<1>11. \A j \in 1 .. L : /\ p2[h2.list[j]] = p[h.list[j]] /\ o2[h2.list[j]] = j
                         /\ SizeOf(h2, h2.list[j]) = SizeOf(h, h.list[j])
  BY <1>1, <1>3, <1>5, <1>8
<1>12. p2[h2.list[L + 1]] = e /\ SizeOf(h2, h2.list[L + 1]) = size
  BY <1>1, <1>3, <1>8
<1>13. ASSUME NEW j \in 1 .. L + 1, NEW k \in 1 .. L + 1, j < k
       PROVE  p2[h2.list[j]] + SizeOf(h2, h2.list[j]) <= p2[h2.list[k]]
  <2>1. j \in 1 .. L
    BY <1>2, <1>13
  <2>2. CASE k = L + 1
    BY <1>7, <1>11, <1>12, <2>1, <2>2
  <2>3. CASE k # L + 1
    <3>1. k \in 1 .. L
      BY <1>2, <2>3
    <3>2. p[h.list[j]] + SizeOf(h, h.list[j]) <= p[h.list[k]]
      BY <1>2, <1>13, <2>1, <3>1 DEF Layout
    <3>3. QED
      BY <1>11, <2>1, <3>1, <3>2
  <2>4. QED
    BY <2>2, <2>3
<1>14. ASSUME NEW j \in 1 .. L + 1, NEW k \in 1 .. L + 1, k = j + 1
       PROVE  p2[h2.list[k]] = p2[h2.list[j]] + SizeOf(h2, h2.list[j])
  <2>1. j \in 1 .. L
    BY <1>2, <1>14
  <2>2. CASE k = L + 1
    <3>1. j = L /\ L # 0
      BY <1>2, <1>14, <2>1, <2>2
    <3>2. QED
      BY <1>10, <1>11, <1>12, <2>1, <2>2, <3>1
  <2>3. CASE k # L + 1
    <3>1. k \in 1 .. L
      BY <1>2, <2>3
    <3>2. p[h.list[k]] = p[h.list[j]] + SizeOf(h, h.list[j])
      BY <1>2, <1>14, <2>1, <3>1 DEF Layout
    <3>3. QED
      BY <1>11, <2>1, <3>1, <3>2
  <2>4. QED
    BY <2>2, <2>3
<1>15. ASSUME NEW j \in 1 .. L + 1
       PROVE  h2.list[j] \in Ids(h2) /\ IntoOf(h2, h2.list[j]) = 0 /\ o2[h2.list[j]] = j
  <2>1. CASE j \in 1 .. L
    BY <1>1, <1>3, <1>5, <1>11, <2>1 DEF N
  <2>2. CASE j = L + 1
    BY <1>1, <1>3, <1>8, <2>2 DEF N
  <2>3. QED
    BY <1>2, <2>1, <2>2
<1>16. ASSUME NEW x \in N, IntoOf(h2, x) = 0
       PROVE  h2.list[o2[x]] = x /\ OffsetOf(h2, x) = 0 /\ d2[x] = 0
  <2>1. CASE x = m
    BY <1>1, <1>3, <1>8, <2>1
  <2>2. CASE x # m
    <3>1. x \in Ids(h)
      BY <2>2 DEF N
    <3>2. IntoOf(h, x) = 0 /\ h.list[o[x]] = x /\ OffsetOf(h, x) = 0 /\ d[x] = 0 /\ o[x] \in 1 .. L
      BY <1>1, <1>4, <1>16, <3>1 DEF Layout
    <3>3. QED
      BY <1>1, <1>3, <1>8, <3>1, <3>2
  <2>3. QED
    BY <2>1, <2>2
<1>17. ASSUME NEW x \in N, IntoOf(h2, x) # 0
       PROVE  /\ IntoOf(h2, x) \in N /\ o2[x] = o2[IntoOf(h2, x)] /\ d2[IntoOf(h2, x)] < d2[x]
              /\ p2[x] = p2[IntoOf(h2, x)] + OffsetOf(h2, x)
  <2>1. x \in Ids(h) /\ IntoOf(h2, x) = IntoOf(h, x) /\ OffsetOf(h2, x) = OffsetOf(h, x)
    BY <1>1, <1>17 DEF N
  <2>2. /\ IntoOf(h, x) \in Ids(h) /\ o[x] = o[IntoOf(h, x)] /\ d[IntoOf(h, x)] < d[x]
        /\ p[x] = p[IntoOf(h, x)] + OffsetOf(h, x)
    BY <1>17, <2>1 DEF Layout
  <2>3. IntoOf(h, x) \in N
    BY <2>2 DEF N
  <2>4. QED
    BY <1>8, <2>1, <2>2, <2>3
<1>18. Layout(h2, o2, p2, d2)
  <2>1. o2 \in [Ids(h2) -> Spots(h2)] /\ p2 \in [Ids(h2) -> Units] /\ d2 \in [Ids(h2) -> Nat]
    BY <1>1, <1>3, <1>9
  <2>2. \A x \in Ids(h2) : SizeOf(h2, x) \in Units
    BY <1>1, <1>4 DEF N
  <2>3. \A j \in Spots(h2) : j = 1 => p2[h2.list[j]] = 0
    <3>1. CASE L = 0
      BY <1>2, <1>10, <1>12, <3>1
    <3>2. CASE L # 0
      <4>1. 1 \in 1 .. L
        BY <1>2, <3>2
      <4>2. p[h.list[1]] = 0
        BY <1>2, <4>1 DEF Layout
      <4>3. QED
        BY <1>11, <4>1, <4>2
    <3>3. QED
      BY <3>1, <3>2
  <2>4. QED
    BY <1>1, <1>3, <1>13, <1>14, <1>15, <1>16, <1>17, <2>1, <2>2, <2>3 DEF Layout
<1>19. ASSUME NEW x \in Ids(h)
       PROVE  p2[x] + End(h, p) <= End(h2, p2) + p[x]
  <2>1. L # 0
    BY <1>2, <1>4
  <2>2. End(h, p) = e
    BY <1>10, <2>1 DEF End, L
  <2>3. End(h2, p2) = e + size
    <3>1. Len(h2.list) = L + 1
      BY DEF Grown, Inserted, L
    <3>2. QED
      BY <1>12, <3>1 DEF End
  <2>4. QED
    BY <1>4, <1>6, <1>8, <2>2, <2>3
<1>20. Spreads(h, o, p, h2, o2, p2)
  <2>1. \A x, y \in Ids(h) : o[x] <= o[y] => o2[x] <= o2[y] /\ p2[x] + p[y] <= p2[y] + p[x]
    BY <1>4, <1>8
  <2>2. QED
    BY <1>1, <1>19, <2>1 DEF Spreads, N
<1>21. QED
  BY <1>18, <1>20

\* The node at place i + 1 becomes the last part of the node before it.
Joined(h2, h, i) ==
    /\ Ids(h2) = Ids(h)
    /\ \A x \in Ids(h) :
         /\ SizeOf(h2, x) = IF x = h.list[i] THEN SizeOf(h, x) + SizeOf(h, h.list[i + 1]) ELSE SizeOf(h, x)
         /\ OffsetOf(h2, x) = IF x = h.list[i + 1] THEN SizeOf(h, h.list[i]) ELSE OffsetOf(h, x)
         /\ IntoOf(h2, x) = IF x = h.list[i + 1] THEN h.list[i] ELSE IntoOf(h, x)
    /\ Removed(h2.list, h.list, i + 1)

\* Two neighbours are fused: nothing moves, and the places close up.
LEMMA LayoutFuse ==
  ASSUME NEW h \in HeapSet, NEW o, NEW p, NEW d, Layout(h, o, p, d),
         NEW i \in Spots(h), i + 1 \in Spots(h), NEW h2, Joined(h2, h, i)
  PROVE  \E o2, p2, d2 : Layout(h2, o2, p2, d2) /\ Spreads(h, o, p, h2, o2, p2)
<1> DEFINE k1 == i + 1
<1> DEFINE l == h.list[i]
<1> DEFINE r == h.list[k1]
<1> DEFINE L == Len(h.list)
<1> DEFINE N == Ids(h)
<1> DEFINE o2 == [x \in N |-> IF o[x] > i THEN o[x] - 1 ELSE o[x]]
<1> DEFINE d2 == [x \in N |-> IF o[x] = k1 THEN d[x] + 1 ELSE d[x]]
<1>1. /\ Ids(h2) = N
      /\ \A x \in N :
           /\ SizeOf(h2, x) = IF x = l THEN SizeOf(h, x) + SizeOf(h, r) ELSE SizeOf(h, x)
           /\ OffsetOf(h2, x) = IF x = r THEN SizeOf(h, l) ELSE OffsetOf(h, x)
           /\ IntoOf(h2, x) = IF x = r THEN l ELSE IntoOf(h, x)
  BY DEF Joined
<1>2. L \in Nat /\ i \in 1 .. L /\ i \in 1 .. L - 1 /\ k1 \in 1 .. L /\ Spots(h) = 1 .. L
  <2>1. L \in Nat /\ Spots(h) = 1 .. L /\ i + 1 \in 1 .. L
    BY LayoutFacts DEF Spots
  <2>2. QED
    BY <2>1
<1>3. /\ Spots(h2) = 1 .. L - 1 /\ Len(h2.list) = L - 1
      /\ \A j \in 1 .. L - 1 : h2.list[j] = IF j < k1 THEN h.list[j] ELSE h.list[j + 1]
  BY DEF Joined, Removed, Spots
<1>4. \A x \in N : /\ o[x] \in 1 .. L /\ p[x] \in Units /\ p[x] \in Nat
                   /\ SizeOf(h, x) \in Units /\ SizeOf(h, x) \in Nat /\ d[x] \in Nat
  BY <1>2, LayoutFacts
<1>5. \A j \in 1 .. L : /\ h.list[j] \in N /\ o[h.list[j]] = j /\ IntoOf(h, h.list[j]) = 0
                        /\ (h.list[j] = l <=> j = i) /\ (h.list[j] = r <=> j = k1)
                        /\ p[h.list[j]] \in Nat /\ SizeOf(h, h.list[j]) \in Nat
  BY <1>2, <1>4, LayoutFacts, SMTT(30) DEF Layout
<1>6. l \in N /\ r \in N /\ l # r /\ l # 0 /\ o[l] = i /\ o[r] = k1 /\ k1 = i + 1
  <2>1. l \in N /\ r \in N /\ o[l] = i /\ o[r] = k1 /\ k1 = i + 1
    BY <1>2, <1>5
  <2>2. i # k1
    BY <1>2
  <2>3. l # 0
    BY <2>1 DEF Ids
  <2>4. QED
    BY <2>1, <2>2, <2>3
<1>7. \A x \in N : /\ o2[x] = IF o[x] > i THEN o[x] - 1 ELSE o[x]
                   /\ d2[x] = IF o[x] = k1 THEN d[x] + 1 ELSE d[x]
  OBVIOUS
<1>8. o2 \in [N -> 1 .. L - 1] /\ d2 \in [N -> Nat]
  <2>1. ASSUME NEW x \in N
        PROVE  /\ (IF o[x] > i THEN o[x] - 1 ELSE o[x]) \in 1 .. L - 1
               /\ (IF o[x] = k1 THEN d[x] + 1 ELSE d[x]) \in Nat
    BY <1>2, <1>4
  <2> HIDE DEF N
  <2>2. QED
    BY <2>1
<1>9. p[r] = p[l] + SizeOf(h, l)
  BY <1>2 DEF Layout
<1>10. SizeOf(h2, l) = SizeOf(h, l) + SizeOf(h, r) /\ SizeOf(h2, l) \in Units
  <2>1. SizeOf(h2, l) = SizeOf(h, l) + SizeOf(h, r)
    BY <1>1, <1>6
  <2>2. SizeOf(h, l) \in Units /\ SizeOf(h, r) \in Units
    BY <1>4, <1>6
  <2>3. SizeOf(h, l) + SizeOf(h, r) \in Units
    BY <2>2, UnitFacts
  <2>4. QED
    BY <2>1, <2>3
<1>11. \A j, k \in 1 .. L : j < k => p[h.list[j]] + SizeOf(h, h.list[j]) <= p[h.list[k]]
  BY <1>2 DEF Layout
<1>12. \A j, k \in 1 .. L : k = j + 1 => p[h.list[k]] = p[h.list[j]] + SizeOf(h, h.list[j])
  BY <1>2 DEF Layout
<1> HIDE DEF k1, l, r, L, N, o2, d2
\* The places of the new list.
<1>13. \A j \in 1 .. i : /\ j \in 1 .. L - 1 /\ j \in 1 .. L /\ h2.list[j] = h.list[j] /\ o2[h2.list[j]] = j
                         /\ SizeOf(h2, h2.list[j]) = IF j = i THEN SizeOf(h, l) + SizeOf(h, r) ELSE SizeOf(h, h.list[j])
  <2>1. TAKE j \in 1 .. i
  <2>2. j \in 1 .. L - 1 /\ j \in 1 .. L /\ j < k1 /\ ~(j > i)
    BY <1>2, <1>6
  <2>3. h2.list[j] = h.list[j] /\ h.list[j] \in N /\ o[h.list[j]] = j /\ (h.list[j] = l <=> j = i)
    BY <1>3, <1>5, <2>2
  <2>4. QED
    BY <1>1, <1>7, <1>10, <2>2, <2>3
<1>14. \A j \in i + 1 .. L - 1 : /\ j + 1 \in 1 .. L /\ j + 1 > k1 /\ h2.list[j] = h.list[j + 1] /\ o2[h2.list[j]] = j
                                 /\ SizeOf(h2, h2.list[j]) = SizeOf(h, h.list[j + 1])
  <2>1. TAKE j \in i + 1 .. L - 1
  <2>2. j \in 1 .. L - 1 /\ j + 1 \in 1 .. L /\ j + 1 > k1 /\ ~(j < k1) /\ j + 1 > i /\ j + 1 - 1 = j /\ j + 1 # i
    BY <1>2, <1>6
  <2>3. h2.list[j] = h.list[j + 1] /\ h.list[j + 1] \in N /\ o[h.list[j + 1]] = j + 1 /\ h.list[j + 1] # l
    BY <1>3, <1>5, <2>2
  <2>4. QED
    BY <1>1, <1>7, <2>2, <2>3
<1>15. ASSUME NEW j \in 1 .. L - 1, NEW k \in 1 .. L - 1, j < k
       PROVE  p[h2.list[j]] + SizeOf(h2, h2.list[j]) <= p[h2.list[k]]
  <2>1. CASE k <= i
    <3>1. j \in 1 .. i /\ k \in 1 .. i /\ j # i
      BY <1>2, <1>15, <2>1
    <3>2. QED
      BY <1>11, <1>13, <1>15, <3>1
  <2>2. CASE k > i
    <3>1. k \in i + 1 .. L - 1
      BY <1>2, <2>2
    <3>2. h2.list[k] = h.list[k + 1] /\ k + 1 \in 1 .. L /\ k + 1 > k1
      BY <1>14, <3>1
    <3>3. CASE j < i
      <4>1. j \in 1 .. i /\ j # i /\ j < k + 1 /\ j \in 1 .. L
        BY <1>2, <2>2, <3>3
      <4>2. p[h.list[j]] + SizeOf(h, h.list[j]) <= p[h.list[k + 1]]
        BY <1>11, <3>2, <4>1
      <4>3. QED
        BY <1>13, <3>2, <4>1, <4>2
    <3>4. CASE j = i
      <4>1. i \in 1 .. i
        BY <1>2
      <4>2. h2.list[j] = l /\ SizeOf(h2, h2.list[j]) = SizeOf(h, l) + SizeOf(h, r)
        BY <1>2, <1>5, <1>13, <3>4, <4>1
      <4>3. p[r] + SizeOf(h, r) <= p[h.list[k + 1]]
        BY <1>2, <1>11, <3>2 DEF r
      <4>4. QED
        BY <1>4, <1>6, <1>9, <3>2, <4>2, <4>3
    <3>5. CASE j > i
      <4>1. j \in i + 1 .. L - 1 /\ j + 1 < k + 1
        BY <1>2, <1>15, <3>5
      <4>2. j + 1 \in 1 .. L /\ h2.list[j] = h.list[j + 1] /\ SizeOf(h2, h2.list[j]) = SizeOf(h, h.list[j + 1])
        BY <1>14, <4>1
      <4>3. p[h.list[j + 1]] + SizeOf(h, h.list[j + 1]) <= p[h.list[k + 1]]
        BY <1>11, <3>2, <4>1, <4>2
      <4>4. QED
        BY <3>2, <4>2, <4>3
    <3>6. QED
      BY <1>2, <3>3, <3>4, <3>5
  <2>3. QED
    BY <1>2, <2>1, <2>2
<1>16. ASSUME NEW j \in 1 .. L - 1, NEW k \in 1 .. L - 1, k = j + 1
       PROVE  p[h2.list[k]] = p[h2.list[j]] + SizeOf(h2, h2.list[j])
  <2>1. CASE k <= i
    <3>1. j \in 1 .. i /\ k \in 1 .. i /\ j # i
      BY <1>2, <1>16, <2>1
    <3>2. QED
      BY <1>12, <1>13, <1>16, <3>1
  <2>2. CASE k > i
    <3>1. k \in i + 1 .. L - 1
      BY <1>2, <2>2
    <3>2. h2.list[k] = h.list[k + 1] /\ k + 1 \in 1 .. L /\ k + 1 > k1
      BY <1>14, <3>1
    <3>3. CASE j = i
      <4>1. i \in 1 .. i /\ k + 1 = k1 + 1
        BY <1>2, <1>6, <1>16, <3>3
      <4>2. h2.list[j] = l /\ SizeOf(h2, h2.list[j]) = SizeOf(h, l) + SizeOf(h, r)
        BY <1>2, <1>5, <1>13, <3>3, <4>1
      <4>3. p[h.list[k + 1]] = p[r] + SizeOf(h, r)
        BY <1>2, <1>12, <3>2, <4>1 DEF r
      <4>4. QED
        BY <1>4, <1>6, <1>9, <3>2, <4>2, <4>3
    <3>4. CASE j > i
      <4>1. j \in i + 1 .. L - 1 /\ k + 1 = j + 1 + 1
        BY <1>2, <1>16, <3>4
      <4>2. j + 1 \in 1 .. L /\ h2.list[j] = h.list[j + 1] /\ SizeOf(h2, h2.list[j]) = SizeOf(h, h.list[j + 1])
        BY <1>14, <4>1
      <4>3. p[h.list[k + 1]] = p[h.list[j + 1]] + SizeOf(h, h.list[j + 1])
        BY <1>12, <3>2, <4>1, <4>2
      <4>4. QED
        BY <3>2, <4>2, <4>3
    <3>5. QED
      BY <1>2, <1>16, <2>2, <3>3, <3>4
  <2>3. QED
    BY <1>2, <2>1, <2>2
<1>17. ASSUME NEW j \in 1 .. L - 1
       PROVE  h2.list[j] \in N /\ IntoOf(h2, h2.list[j]) = 0 /\ o2[h2.list[j]] = j
  <2>1. CASE j <= i
    <3>1. j \in 1 .. i /\ j \in 1 .. L /\ j # k1
      BY <1>2, <1>6, <2>1
    <3>2. h2.list[j] = h.list[j] /\ o2[h2.list[j]] = j
      BY <1>13, <3>1
    <3>3. QED
      BY <1>1, <1>5, <3>1, <3>2
  <2>2. CASE j > i
    <3>1. j \in i + 1 .. L - 1
      BY <1>2, <2>2
    <3>2. h2.list[j] = h.list[j + 1] /\ o2[h2.list[j]] = j /\ j + 1 \in 1 .. L /\ j + 1 > k1
      BY <1>14, <3>1
    <3>3. j + 1 # k1
      BY <1>2, <3>2
    <3>4. QED
      BY <1>1, <1>5, <3>2, <3>3
  <2>3. QED
    BY <1>2, <2>1, <2>2
<1>18. ASSUME NEW x \in N, IntoOf(h2, x) = 0
       PROVE  h2.list[o2[x]] = x /\ OffsetOf(h2, x) = 0 /\ d2[x] = 0
  <2>1. x # r /\ IntoOf(h, x) = 0
    BY <1>1, <1>6, <1>18
  <2>2. h.list[o[x]] = x /\ OffsetOf(h, x) = 0 /\ d[x] = 0 /\ o[x] \in 1 .. L
    BY <1>4, <1>18, <2>1 DEF Layout, N
  <2>3. o[x] # k1
    BY <1>5, <2>1, <2>2
  <2>4. h2.list[o2[x]] = x
    <3>1. CASE o[x] <= i
      <4>1. o[x] \in 1 .. i /\ o2[x] = o[x]
        BY <1>2, <1>7, <2>2, <3>1
      <4>2. QED
        BY <1>13, <2>2, <4>1
    <3>2. CASE o[x] > i
      <4>1. o2[x] \in i + 1 .. L - 1 /\ o2[x] + 1 = o[x]
        BY <1>2, <1>6, <1>7, <2>2, <2>3, <3>2
      <4>2. QED
        BY <1>14, <2>2, <4>1
    <3>3. QED
      BY <1>2, <2>2, <3>1, <3>2
  <2>5. QED
    BY <1>1, <1>7, <2>1, <2>2, <2>3, <2>4
<1>19. ASSUME NEW x \in N, IntoOf(h2, x) # 0
       PROVE  /\ IntoOf(h2, x) \in N /\ o2[x] = o2[IntoOf(h2, x)] /\ d2[IntoOf(h2, x)] < d2[x]
              /\ p[x] = p[IntoOf(h2, x)] + OffsetOf(h2, x)
  <2>1. CASE x = r
    <3>1. IntoOf(h2, x) = l /\ OffsetOf(h2, x) = SizeOf(h, l)
      BY <1>1, <2>1
    <3>2. IntoOf(h, l) = 0 /\ IntoOf(h, r) = 0
      BY <1>2, <1>5 DEF l, r
    <3>3. d[l] = 0 /\ d[r] = 0
      BY <1>6, <3>2 DEF Layout, N
    <3>4. o2[r] = i /\ o2[l] = i /\ d2[l] = 0 /\ d2[r] = 1
      BY <1>2, <1>6, <1>7, <3>3
    <3>5. QED
      BY <1>6, <1>9, <2>1, <3>1, <3>4
  <2>2. CASE x # r
    <3>1. IntoOf(h2, x) = IntoOf(h, x) /\ OffsetOf(h2, x) = OffsetOf(h, x)
      BY <1>1, <2>2
    <3>2. /\ IntoOf(h, x) \in N /\ o[x] = o[IntoOf(h, x)] /\ d[IntoOf(h, x)] < d[x]
          /\ p[x] = p[IntoOf(h, x)] + OffsetOf(h, x)
      BY <1>19, <3>1 DEF Layout, N
    <3>3. d[x] \in Nat /\ d[IntoOf(h, x)] \in Nat
      BY <1>4, <3>2
    <3>4. QED
      BY <1>7, <3>1, <3>2, <3>3
  <2>3. QED
    BY <2>1, <2>2
<1>20. Layout(h2, o2, p, d2)
  <2>1. o2 \in [Ids(h2) -> Spots(h2)] /\ p \in [Ids(h2) -> Units] /\ d2 \in [Ids(h2) -> Nat]
    BY <1>1, <1>3, <1>8 DEF Layout, N
  <2>2. \A x \in Ids(h2) : SizeOf(h2, x) \in Units
    BY <1>1, <1>4, <1>10
  <2>3. \A j \in Spots(h2) : j = 1 => p[h2.list[j]] = 0
    <3>1. 1 \in 1 .. i /\ 1 \in 1 .. L
      BY <1>2
    <3>2. p[h.list[1]] = 0 /\ h2.list[1] = h.list[1]
      BY <1>2, <1>13, <3>1 DEF Layout
    <3>3. QED
      BY <3>2
  <2>4. QED
    BY <1>1, <1>3, <1>15, <1>16, <1>17, <1>18, <1>19, <2>1, <2>2, <2>3 DEF Layout
<1>21. End(h2, p) = End(h, p)
  <2> DEFINE k == L - 1
  <2>1. End(h2, p) = p[h2.list[k]] + SizeOf(h2, h2.list[k]) /\ End(h, p) = p[h.list[L]] + SizeOf(h, h.list[L])
    BY <1>3 DEF End, L
  <2>2. k + 1 = L /\ k \in Nat
    BY <1>2
  <2> HIDE DEF k
  <2>3. CASE i = k
    <3>1. i \in 1 .. i /\ k1 = L
      BY <1>2, <1>6, <2>2, <2>3
    <3>2. h2.list[k] = l /\ SizeOf(h2, h2.list[k]) = SizeOf(h, l) + SizeOf(h, r) /\ h.list[L] = r
      BY <1>2, <1>13, <2>3, <3>1 DEF l, r
    <3>3. QED
      BY <1>4, <1>6, <1>9, <2>1, <3>2
  <2>4. CASE i # k
    <3>1. k \in i + 1 .. L - 1
      BY <1>2, <2>2, <2>4
    <3>2. h2.list[k] = h.list[L] /\ SizeOf(h2, h2.list[k]) = SizeOf(h, h.list[L])
      BY <1>14, <2>2, <3>1
    <3>3. QED
      BY <2>1, <3>2
  <2>5. QED
    BY <2>3, <2>4
<1>22. ASSUME NEW x \in N, NEW y \in N, o[x] <= o[y]
       PROVE  o2[x] <= o2[y] /\ p[x] + p[y] <= p[y] + p[x]
  <2>1. o[x] \in Int /\ o[y] \in Int /\ i \in Int /\ p[x] \in Nat /\ p[y] \in Nat
    BY <1>2, <1>4
  <2>2. QED
    BY <1>7, <1>22, <2>1
<1>23. Spreads(h, o, p, h2, o2, p)
  <2>1. \A x \in N : p[x] + End(h, p) <= End(h2, p) + p[x]
    <3>1. TAKE x \in N
    <3>2. p[x] \in Nat /\ End(h, p) \in Nat
      BY <1>4, LayoutFacts DEF N
    <3>3. QED
      BY <1>21, <3>2
  <2>2. QED
    BY <1>1, <1>22, <2>1 DEF Spreads, N
<1>24. QED
  BY <1>20, <1>23

-----------------------------------------------------------------------------
(* The free list.                                                           *)

\* The types of a heap.
LEMMA HeapFacts ==
  ASSUME NEW h \in HeapSet
  PROVE  /\ h.nodes \in Seq(MemNode) /\ h.list \in Seq(Nat) /\ h.free \in Seq(Nat)
         /\ Len(h.nodes) \in Nat /\ Len(h.list) \in Nat /\ Len(h.free) \in Nat
         /\ \A x \in Ids(h) : /\ h.nodes[x] \in MemNode
                              /\ SizeOf(h, x) \in Nat /\ OffsetOf(h, x) \in Nat /\ IntoOf(h, x) \in Nat
<1>1. h.nodes \in Seq(MemNode) /\ h.list \in Seq(Nat) /\ h.free \in Seq(Nat)
  BY DEF HeapSet
<1>2. \A x \in Ids(h) : h.nodes[x] \in MemNode
  BY <1>1 DEF Ids
<1>3. \A x \in Ids(h) : SizeOf(h, x) \in Nat /\ OffsetOf(h, x) \in Nat /\ IntoOf(h, x) \in Nat
  BY <1>2 DEF MemNode, SizeOf, OffsetOf, IntoOf
<1>4. QED
  BY <1>1, <1>2, <1>3

\* A heap with other nodes and another list is a heap.
LEMMA HeapChanged ==
  ASSUME NEW h \in HeapSet, NEW u \in Seq(MemNode), NEW v \in Seq(Nat)
  PROVE  [h EXCEPT !.nodes = u, !.list = v] \in HeapSet
  BY DEF HeapSet

\* A node leaves the free list.
LEMMA TakenOut ==
  ASSUME NEW h \in HeapSet, FreeInv(h), NEW i \in 1 .. Len(h.free),
         NEW h2, h2 = [h EXCEPT !.free = RemoveAt(@, i)]
  PROVE  /\ h2 \in HeapSet /\ Same(h2, h) /\ FreeInv(h2)
         /\ \A x : InFree(h2, x) <=> InFree(h, x) /\ x # h.free[i]
<1> DEFINE f == h.free
<1> DEFINE g == RemoveAt(f, i)
<1> DEFINE F == Len(f)
<1>1. f \in Seq(Nat) /\ F \in Nat /\ i \in 1 .. F
  BY HeapFacts
<1>2. g \in Seq(Nat) /\ Removed(g, f, i)
  BY <1>1, RemoveAtFacts
<1>3. h2 \in HeapSet /\ Same(h2, h) /\ h2.free = g
  BY <1>2 DEF HeapSet, Same
<1>4. /\ \A j \in 1 .. F : f[j] \in Ids(h) /\ IntoOf(h, f[j]) = 0
      /\ \A j, k \in 1 .. F : j < k => f[j] # f[k] /\ SizeOf(h, f[j]) <= SizeOf(h, f[k])
  BY DEF FreeInv
<1>5. \A x : (InFree(h2, x) <=> \E j \in 1 .. Len(g) : g[j] = x) /\ (InFree(h, x) <=> \E j \in 1 .. F : f[j] = x)
  BY <1>3 DEF InFree
<1> HIDE DEF g, f, F
<1>6. Len(g) = F - 1 /\ \A j \in 1 .. F - 1 : g[j] = IF j < i THEN f[j] ELSE f[j + 1]
  BY <1>2 DEF Removed, F
<1>7. ASSUME NEW j \in 1 .. F - 1
      PROVE  \E k \in 1 .. F : k # i /\ g[j] = f[k] /\ (IF j < i THEN k = j ELSE k = j + 1)
  <2>1. CASE j < i
    <3>1. j \in 1 .. F /\ j # i
      BY <1>1, <2>1
    <3>2. QED
      BY <1>6, <2>1, <3>1
  <2>2. CASE j >= i
    <3>1. j + 1 \in 1 .. F /\ j + 1 # i /\ ~(j < i)
      BY <1>1, <2>2
    <3>2. QED
      BY <1>6, <3>1
  <2>3. QED
    BY <1>1, <2>1, <2>2
<1>8. ASSUME NEW j \in 1 .. F - 1, NEW k \in 1 .. F - 1, j < k
      PROVE  g[j] # g[k] /\ SizeOf(h, g[j]) <= SizeOf(h, g[k])
  <2>1. PICK a \in 1 .. F : g[j] = f[a] /\ (IF j < i THEN a = j ELSE a = j + 1)
    BY <1>7
  <2>2. PICK b \in 1 .. F : g[k] = f[b] /\ (IF k < i THEN b = k ELSE b = k + 1)
    BY <1>7
  <2>3. a < b
    BY <1>1, <1>8, <2>1, <2>2
  <2>4. QED
    BY <1>4, <2>1, <2>2, <2>3
<1>9. FreeInv(h2)
  <2>1. Ids(h2) = Ids(h) /\ \A x : SizeOf(h2, x) = SizeOf(h, x) /\ IntoOf(h2, x) = IntoOf(h, x)
    BY <1>3 DEF Same, Ids, SizeOf, IntoOf
  <2>2. \A j \in 1 .. F - 1 : g[j] \in Ids(h) /\ IntoOf(h, g[j]) = 0
    BY <1>4, <1>7
  <2>3. QED
    BY <1>3, <1>6, <1>8, <2>1, <2>2, SMTT(30) DEF FreeInv
<1>10. ASSUME NEW x, InFree(h2, x) PROVE InFree(h, x) /\ x # f[i]
  <2>1. PICK j \in 1 .. F - 1 : g[j] = x
    BY <1>5, <1>6, <1>10
  <2>2. PICK a \in 1 .. F : a # i /\ x = f[a]
    BY <1>7, <2>1
  <2>3. a < i \/ i < a
    BY <1>1, <2>2
  <2>4. f[a] # f[i]
    BY <1>1, <1>4, <2>3
  <2>5. QED
    BY <1>5, <2>2, <2>4
<1>11. ASSUME NEW x, InFree(h, x), x # f[i] PROVE InFree(h2, x)
  <2>1. PICK j \in 1 .. F : f[j] = x /\ j # i
    BY <1>5, <1>11
  <2>2. CASE j < i
    <3>1. j \in 1 .. F - 1 /\ g[j] = f[j]
      BY <1>1, <1>6, <2>2
    <3>2. QED
      BY <1>5, <1>6, <2>1, <3>1
  <2>3. CASE j > i
    <3> DEFINE k == j - 1
    <3>1. k \in 1 .. F - 1 /\ ~(k < i) /\ k + 1 = j
      BY <1>1, <2>3
    <3> HIDE DEF k
    <3>2. g[k] = f[j]
      BY <1>6, <3>1
    <3>3. QED
      BY <1>5, <1>6, <2>1, <3>1, <3>2
  <2>4. QED
    BY <1>1, <2>1, <2>2, <2>3
<1>12. QED
  BY <1>3, <1>9, <1>10, <1>11 DEF f

\* eraseFree takes exactly node n out.
LEMMA EraseFreeFacts ==
  ASSUME NEW h \in HeapSet, FreeInv(h), NEW n, InFree(h, n)
  PROVE  /\ EraseFree(h, n) \in HeapSet /\ Same(EraseFree(h, n), h) /\ FreeInv(EraseFree(h, n))
         /\ \A x : InFree(EraseFree(h, n), x) <=> InFree(h, x) /\ x # n
<1>1. PICK i \in 1 .. Len(h.free) : h.free[i] = n
  BY DEF InFree
<1>2. ASSUME NEW j \in 1 .. Len(h.free), h.free[j] = h.free[i] PROVE j = i
  <2>1. j < i \/ i < j \/ i = j
    BY HeapFacts
  <2>2. QED
    BY <1>2, <2>1 DEF FreeInv
<1>3. At(h.free, n) = i
  BY <1>1, <1>2, AtFacts
<1>4. EraseFree(h, n) = [h EXCEPT !.free = RemoveAt(@, i)]
  BY <1>3 DEF EraseFree
<1>5. QED
  BY <1>1, <1>4, TakenOut

\* The place where a node goes into the free list.
LEMMA PlaceFacts ==
  ASSUME NEW h \in HeapSet, FreeInv(h), NEW n \in Ids(h)
  PROVE  \E k \in 1 .. Len(h.free) + 1 : /\ k = Len(h.free) + 1 \/ SizeOf(h, h.free[k]) > SizeOf(h, n)
                                        /\ \A j \in 1 .. k - 1 : SizeOf(h, h.free[j]) <= SizeOf(h, n)
<1> DEFINE F == Len(h.free)
<1> DEFINE S == {k \in 1 .. F + 1 : k = F + 1 \/ SizeOf(h, h.free[k]) > SizeOf(h, n)}
<1>1. F \in Nat
  BY HeapFacts
<1>2. SizeOf(h, n) \in Nat /\ \A j \in 1 .. F : SizeOf(h, h.free[j]) \in Nat
  BY HeapFacts DEF FreeInv
<1>3. S \in SUBSET Nat /\ F + 1 \in S
  BY <1>1
<1>4. PICK k \in S : \A m \in S : k <= m
  <2> HIDE DEF S
  <2>1. QED
    BY <1>3, LeastNat
<1>5. k \in 1 .. F + 1 /\ (k = F + 1 \/ SizeOf(h, h.free[k]) > SizeOf(h, n))
  OBVIOUS
<1>6. ASSUME NEW j \in 1 .. k - 1 PROVE SizeOf(h, h.free[j]) <= SizeOf(h, n)
  <2>1. j \in 1 .. F /\ j \in 1 .. F + 1 /\ ~(k <= j)
    BY <1>1, <1>5
  <2>2. j \notin S
    BY <1>4, <2>1
  <2>3. ~(SizeOf(h, h.free[j]) > SizeOf(h, n))
    BY <2>1, <2>2
  <2>4. QED
    BY <1>2, <2>1, <2>3
<1>7. QED
  BY <1>5, <1>6

\* insertFree puts exactly node n in, and the order is kept.
LEMMA InsertFreeFacts ==
  ASSUME NEW h \in HeapSet, FreeInv(h), NEW n \in Ids(h), IntoOf(h, n) = 0, ~InFree(h, n)
  PROVE  /\ InsertFree(h, n) \in HeapSet /\ Same(InsertFree(h, n), h) /\ FreeInv(InsertFree(h, n))
         /\ \A x : InFree(InsertFree(h, n), x) <=> InFree(h, x) \/ x = n
<1> DEFINE f == h.free
<1> DEFINE F == Len(f)
<1> DEFINE i == CHOOSE k \in 1 .. F + 1 : /\ k = F + 1 \/ SizeOf(h, f[k]) > SizeOf(h, n)
                                         /\ \A j \in 1 .. k - 1 : SizeOf(h, f[j]) <= SizeOf(h, n)
<1> DEFINE g == InsertAt(f, i, n)
<1> DEFINE h2 == InsertFree(h, n)
<1>1. f \in Seq(Nat) /\ F \in Nat /\ n \in Nat
  BY HeapFacts DEF Ids
<1>2. /\ i \in 1 .. F + 1 /\ (i = F + 1 \/ SizeOf(h, f[i]) > SizeOf(h, n))
      /\ \A j \in 1 .. i - 1 : SizeOf(h, f[j]) <= SizeOf(h, n)
  BY PlaceFacts
<1>3. h2 = [h EXCEPT !.free = g]
  BY DEF InsertFree
<1> HIDE DEF i
<1>4. g \in Seq(Nat) /\ Inserted(g, f, i, n)
  BY <1>1, <1>2, InsertAtFacts
<1>5. h2 \in HeapSet /\ Same(h2, h) /\ h2.free = g
  <2> HIDE DEF g, h2
  <2>1. QED
    BY <1>3, <1>4 DEF HeapSet, Same
<1>6. /\ \A j \in 1 .. F : f[j] \in Ids(h) /\ IntoOf(h, f[j]) = 0 /\ f[j] # n
      /\ \A j, k \in 1 .. F : j < k => f[j] # f[k] /\ SizeOf(h, f[j]) <= SizeOf(h, f[k])
  BY DEF FreeInv, InFree
<1>7. SizeOf(h, n) \in Nat /\ \A j \in 1 .. F : SizeOf(h, f[j]) \in Nat
  BY <1>6, HeapFacts
<1>8. \A x : (InFree(h2, x) <=> \E j \in 1 .. Len(g) : g[j] = x) /\ (InFree(h, x) <=> \E j \in 1 .. F : f[j] = x)
  BY <1>5 DEF InFree
<1> HIDE DEF g, f, F, h2
<1>9. Len(g) = F + 1 /\ \A j \in 1 .. F + 1 : g[j] = IF j < i THEN f[j] ELSE IF j = i THEN n ELSE f[j - 1]
  BY <1>4 DEF Inserted, F
<1>10. \A j \in 1 .. F : j >= i => SizeOf(h, n) <= SizeOf(h, f[j])
  <2>1. TAKE j \in 1 .. F
  <2>2. HAVE j >= i
  <2>3. i \in 1 .. F /\ SizeOf(h, f[i]) > SizeOf(h, n)
    BY <1>1, <1>2, <2>2
  <2>4. CASE j = i
    BY <1>7, <2>3, <2>4
  <2>5. CASE j > i
    BY <1>6, <1>7, <2>3, <2>5
  <2>6. QED
    BY <1>1, <1>2, <2>2, <2>4, <2>5
<1>11. ASSUME NEW j \in 1 .. F + 1
       PROVE  \/ j = i /\ g[j] = n
              \/ j # i /\ \E k \in 1 .. F : g[j] = f[k] /\ (IF j < i THEN k = j ELSE k = j - 1)
  <2>1. CASE j < i
    <3>1. j \in 1 .. F /\ j # i
      BY <1>1, <1>2, <2>1
    <3>2. QED
      BY <1>9, <2>1, <3>1
  <2>2. CASE j > i
    <3>1. j - 1 \in 1 .. F /\ j # i /\ ~(j < i)
      BY <1>1, <1>2, <2>2
    <3>2. QED
      BY <1>9, <3>1
  <2>3. CASE j = i
    <3>1. ~(j < i)
      BY <1>1, <1>2, <2>3
    <3>2. QED
      BY <1>9, <2>3, <3>1
  <2>4. QED
    BY <1>1, <1>2, <2>1, <2>2, <2>3
<1>12. ASSUME NEW j \in 1 .. F + 1, NEW k \in 1 .. F + 1, j < k
       PROVE  g[j] # g[k] /\ SizeOf(h, g[j]) <= SizeOf(h, g[k])
  <2>1. CASE j = i
    <3>1. g[j] = n /\ k # i
      BY <1>1, <1>2, <1>11, <1>12, <2>1
    <3>2. PICK b \in 1 .. F : g[k] = f[b] /\ (IF k < i THEN b = k ELSE b = k - 1)
      BY <1>11, <3>1
    <3>3. b >= i
      BY <1>1, <1>2, <1>12, <2>1, <3>2
    <3>4. QED
      BY <1>6, <1>10, <3>1, <3>2, <3>3
  <2>2. CASE k = i
    <3>1. g[k] = n /\ j # i
      BY <1>1, <1>2, <1>11, <1>12, <2>2
    <3>2. PICK a \in 1 .. F : g[j] = f[a] /\ (IF j < i THEN a = j ELSE a = j - 1)
      BY <1>11, <3>1
    <3>3. a \in 1 .. i - 1
      BY <1>1, <1>2, <1>12, <2>2, <3>2
    <3>4. QED
      BY <1>2, <1>6, <3>1, <3>2, <3>3
  <2>3. CASE j # i /\ k # i
    <3>1. PICK a \in 1 .. F : g[j] = f[a] /\ (IF j < i THEN a = j ELSE a = j - 1)
      BY <1>11, <2>3
    <3>2. PICK b \in 1 .. F : g[k] = f[b] /\ (IF k < i THEN b = k ELSE b = k - 1)
      BY <1>11, <2>3
    <3>3. a < b
      BY <1>1, <1>2, <1>12, <2>3, <3>1, <3>2
    <3>4. QED
      BY <1>6, <3>1, <3>2, <3>3
  <2>4. QED
    BY <2>1, <2>2, <2>3
<1>13. FreeInv(h2)
  <2>1. Ids(h2) = Ids(h) /\ \A x : SizeOf(h2, x) = SizeOf(h, x) /\ IntoOf(h2, x) = IntoOf(h, x)
    BY <1>5 DEF Same, Ids, SizeOf, IntoOf
  <2>2. \A j \in 1 .. F + 1 : g[j] \in Ids(h) /\ IntoOf(h, g[j]) = 0
    BY <1>6, <1>11
  <2>3. QED
    BY <1>5, <1>9, <1>12, <2>1, <2>2 DEF FreeInv
<1>14. ASSUME NEW x, InFree(h2, x) PROVE InFree(h, x) \/ x = n
  <2>1. PICK j \in 1 .. F + 1 : g[j] = x
    BY <1>8, <1>9, <1>14
  <2>2. QED
    BY <1>8, <1>11, <2>1
<1>15. ASSUME NEW x, InFree(h, x) PROVE InFree(h2, x)
  <2>1. PICK j \in 1 .. F : f[j] = x
    BY <1>8, <1>15
  <2>2. CASE j < i
    <3>1. j \in 1 .. F + 1 /\ g[j] = f[j]
      BY <1>1, <1>9, <2>2
    <3>2. QED
      BY <1>8, <1>9, <2>1, <3>1
  <2>3. CASE j >= i
    <3> DEFINE k == j + 1
    <3>1. k \in 1 .. F + 1 /\ ~(k < i) /\ k # i /\ k - 1 = j
      BY <1>1, <1>2, <2>3
    <3> HIDE DEF k
    <3>2. g[k] = f[j]
      BY <1>9, <3>1
    <3>3. QED
      BY <1>8, <1>9, <2>1, <3>1, <3>2
  <2>4. QED
    BY <1>1, <1>2, <2>2, <2>3
<1>16. InFree(h2, n)
  <2>1. g[i] = n
    BY <1>2, <1>11
  <2>2. QED
    BY <1>2, <1>8, <1>9, <2>1
<1>17. QED
  BY <1>5, <1>13, <1>14, <1>15, <1>16 DEF h2

-----------------------------------------------------------------------------
(* Heaps between the calls.                                                 *)

\* Wherever the nodes of h lie, those of h2 lie no closer.
Moves(h, h2) ==
    \A o, p, d : Layout(h, o, p, d) =>
      \E o2, p2, d2 : Layout(h2, o2, p2, d2) /\ Spreads(h, o, p, h2, o2, p2)

\* A step that changes only the free list moves nothing.
LEMMA MovesSame ==
  ASSUME NEW h \in HeapSet, NEW h2, Same(h2, h)
  PROVE  Moves(h, h2)
<1>1. ASSUME NEW o, NEW p, NEW d, Layout(h, o, p, d)
      PROVE  Spreads(h, o, p, h2, o, p)
  <2>1. End(h2, p) = End(h, p) /\ Ids(h2) = Ids(h)
    BY <1>1, LayoutSame DEF Same, Ids
  <2>2. ASSUME NEW n \in Ids(h), NEW m \in Ids(h)
        PROVE  p[n] + End(h, p) <= End(h, p) + p[n] /\ p[m] + p[n] <= p[n] + p[m]
    <3>1. p[n] \in Nat /\ p[m] \in Nat /\ End(h, p) \in Nat
      BY <1>1, LayoutFacts
    <3>2. QED
      BY <3>1
  <2>3. QED
    BY <2>1, <2>2 DEF Spreads
<1>2. \A o, p, d : Layout(h, o, p, d) => Layout(h2, o, p, d)
  BY LayoutSame
<1>3. QED
  BY <1>1, <1>2 DEF Moves

\* Two steps are one.
LEMMA MovesTwice ==
  ASSUME NEW h \in HeapSet, NEW h1 \in HeapSet, NEW h2 \in HeapSet, Moves(h, h1), Moves(h1, h2)
  PROVE  Moves(h, h2)
<1>1. ASSUME NEW o, NEW p, NEW d, Layout(h, o, p, d)
      PROVE  \E o2, p2, d2 : Layout(h2, o2, p2, d2) /\ Spreads(h, o, p, h2, o2, p2)
  <2>1. PICK o1, p1, d1 : Layout(h1, o1, p1, d1) /\ Spreads(h, o, p, h1, o1, p1)
    BY <1>1 DEF Moves
  <2>2. PICK o2, p2, d2 : Layout(h2, o2, p2, d2) /\ Spreads(h1, o1, p1, h2, o2, p2)
    BY <2>1 DEF Moves
  <2>3. Spreads(h, o, p, h2, o2, p2)
    BY <1>1, <2>1, <2>2, SpreadsTwice
  <2>4. QED
    BY <2>2, <2>3
<1>2. QED
  BY <1>1 DEF Moves

\* A heap that has moved can be laid out still.
LEMMA MovesLaid ==
  ASSUME NEW h, NEW h2, Laid(h), Moves(h, h2)
  PROVE  Laid(h2)
  BY DEF Laid, Moves

\* The list holds exactly the nodes that are part of no other.
LEMMA ListFacts ==
  ASSUME NEW h \in HeapSet, Laid(h)
  PROVE  /\ \A i \in Spots(h) : /\ h.list[i] \in Ids(h) /\ IntoOf(h, h.list[i]) = 0
                                /\ At(h.list, h.list[i]) = i
         /\ \A i, j \in Spots(h) : h.list[i] = h.list[j] => i = j
         /\ \A n \in Ids(h) : IntoOf(h, n) = 0 => \E i \in Spots(h) : h.list[i] = n
<1>1. PICK o, p, d : Layout(h, o, p, d)
  BY DEF Laid
<1>2. \A i \in Spots(h) : h.list[i] \in Ids(h) /\ IntoOf(h, h.list[i]) = 0
  BY <1>1 DEF Layout
<1>3. \A i, j \in Spots(h) : h.list[i] = h.list[j] => i = j
  BY <1>1, LayoutFacts
<1>4. \A n \in Ids(h) : IntoOf(h, n) = 0 => \E i \in Spots(h) : h.list[i] = n
  BY <1>1 DEF Layout
<1>5. \A i \in Spots(h) : At(h.list, h.list[i]) = i
  <2>1. TAKE i \in Spots(h)
  <2>2. i \in 1 .. Len(h.list) /\ \A j \in 1 .. Len(h.list) : h.list[j] = h.list[i] => j = i
    BY <1>3 DEF Spots
  <2>3. QED
    BY <2>2, AtFacts
<1>6. QED
  BY <1>2, <1>3, <1>4, <1>5

\* The free list is as good for another heap that has the same free nodes.
LEMMA FreeKept ==
  ASSUME NEW h, FreeInv(h), NEW h2, h2.free = h.free,
         \A x \in Ids(h) : InFree(h, x) => /\ x \in Ids(h2) /\ IntoOf(h2, x) = IntoOf(h, x)
                                           /\ SizeOf(h2, x) = SizeOf(h, x)
  PROVE  FreeInv(h2) /\ \A x : InFree(h2, x) <=> InFree(h, x)
<1>1. \A x : InFree(h2, x) <=> InFree(h, x)
  BY DEF InFree
<1>2. \A i \in 1 .. Len(h.free) : /\ h.free[i] \in Ids(h) /\ IntoOf(h, h.free[i]) = 0
                                  /\ InFree(h, h.free[i])
  BY DEF FreeInv, InFree
<1>3. \A i \in 1 .. Len(h.free) : /\ h.free[i] \in Ids(h2) /\ IntoOf(h2, h.free[i]) = 0
                                  /\ SizeOf(h2, h.free[i]) = SizeOf(h, h.free[i])
  BY <1>2
<1>4. \A i, j \in 1 .. Len(h.free) : i < j => h.free[i] # h.free[j] /\ SizeOf(h, h.free[i]) <= SizeOf(h, h.free[j])
  BY DEF FreeInv
<1>5. FreeInv(h2)
  BY <1>3, <1>4 DEF FreeInv
<1>6. QED
  BY <1>1, <1>5

-----------------------------------------------------------------------------
(* alloc.                                                                   *)

\* alloc has given out node m.
Gave(h2, h, m, size) ==
    /\ Good(h2) /\ Moves(h, h2)
    /\ m \notin InUse(h) /\ InUse(h2) = InUse(h) \cup {m}
    /\ SizeOf(h2, m) = size /\ \A x \in InUse(h) : SizeOf(h2, x) = SizeOf(h, x)

\* The fields of a new node.
LEMMA NewNodeFacts ==
  ASSUME NEW size \in Nat
  PROVE  NewNode(size) \in MemNode /\ NewNode(size).size = size /\ NewNode(size).offset = 0 /\ NewNode(size).into = 0
  BY DEF NewNode, MemNode

\* A node is added to the nodes.
LEMMA NodesAppended ==
  ASSUME NEW h \in HeapSet, NEW size \in Nat, NEW h2, h2.nodes = Append(h.nodes, NewNode(size))
  PROVE  LET m == Len(h.nodes) + 1 IN
         /\ h2.nodes \in Seq(MemNode)
         /\ Ids(h2) = Ids(h) \cup {m} /\ m \notin Ids(h) /\ m \in Nat \ {0}
         /\ \A x \in Ids(h) : /\ SizeOf(h2, x) = SizeOf(h, x)
                              /\ OffsetOf(h2, x) = OffsetOf(h, x) /\ IntoOf(h2, x) = IntoOf(h, x)
         /\ SizeOf(h2, m) = size /\ OffsetOf(h2, m) = 0 /\ IntoOf(h2, m) = 0
<1> DEFINE e == NewNode(size)
<1> DEFINE s == h.nodes
<1> DEFINE L == Len(s)
<1> DEFINE m == L + 1
<1>1. e \in MemNode /\ e.size = size /\ e.offset = 0 /\ e.into = 0
  BY NewNodeFacts
<1>2. s \in Seq(MemNode) /\ L \in Nat
  BY HeapFacts
<1>3. h2.nodes = Append(s, e) /\ Ids(h) = 1 .. L
  BY DEF Ids
<1> HIDE DEF e
<1>4. /\ Append(s, e) \in Seq(MemNode) /\ Len(Append(s, e)) = m
      /\ \A x \in 1 .. L : Append(s, e)[x] = s[x]
      /\ Append(s, e)[m] = e
  BY <1>1, <1>2, AppendProperties
<1>5. Ids(h2) = 1 .. m
  BY <1>3, <1>4 DEF Ids
<1>6. Ids(h2) = Ids(h) \cup {m} /\ m \notin Ids(h) /\ m \in Nat \ {0}
  BY <1>2, <1>3, <1>5
<1>7. h2.nodes[m] = e /\ \A x \in Ids(h) : h2.nodes[x] = h.nodes[x]
  BY <1>3, <1>4
<1> HIDE DEF s, L, m
<1>8. QED
  BY <1>1, <1>3, <1>4, <1>6, <1>7 DEF SizeOf, OffsetOf, IntoOf, s, L, m

\* alloc with an empty free list, or separate.
LEMMA AllocTailGave ==
  ASSUME NEW h, Good(h), NEW size \in Units
  PROVE  Gave(AllocTail(h, size), h, Len(h.nodes) + 1, size)
<1> DEFINE m == Len(h.nodes) + 1
<1> DEFINE h2 == AllocTail(h, size)
<1> DEFINE L == Len(h.list)
<1> DEFINE t == Append(h.list, m)
<1>1. h \in HeapSet /\ Laid(h) /\ FreeInv(h) /\ Fused(h) /\ size \in Nat /\ L \in Nat /\ h.list \in Seq(Nat)
  BY HeapFacts DEF Good, Units
<1>2. h2.nodes = Append(h.nodes, NewNode(size)) /\ h2.list = t /\ h2.free = h.free
  BY <1>1 DEF AllocTail, HeapSet
<1>3. h2 = [h EXCEPT !.nodes = Append(h.nodes, NewNode(size)), !.list = t]
  BY <1>1 DEF AllocTail, HeapSet
<1> HIDE DEF h2
<1>4. /\ h2.nodes \in Seq(MemNode)
      /\ Ids(h2) = Ids(h) \cup {m} /\ m \notin Ids(h) /\ m \in Nat \ {0}
      /\ \A x \in Ids(h) : /\ SizeOf(h2, x) = SizeOf(h, x)
                           /\ OffsetOf(h2, x) = OffsetOf(h, x) /\ IntoOf(h2, x) = IntoOf(h, x)
      /\ SizeOf(h2, m) = size /\ OffsetOf(h2, m) = 0 /\ IntoOf(h2, m) = 0
  BY <1>1, <1>2, NodesAppended
<1> HIDE DEF m
<1>5. t \in Seq(Nat) /\ Len(t) = L + 1 /\ t[L + 1] = m /\ \A j \in 1 .. L : t[j] = h.list[j]
  BY <1>1, <1>4, AppendProperties
<1>6. h2 \in HeapSet
  <2>1. h2.list \in Seq(Nat) /\ h2.free \in Seq(Nat)
    BY <1>1, <1>2, <1>5, HeapFacts
  <2>2. QED
    BY <1>1, <1>2, <1>3, <1>4, <2>1, HeapChanged
<1>7. Inserted(h2.list, h.list, L + 1, m)
  BY <1>1, <1>2, <1>5 DEF Inserted
<1>8. Grown(h2, h, m, size)
  BY <1>4, <1>7 DEF Grown
<1>9. Moves(h, h2)
  BY <1>1, <1>4, <1>8, LayoutTail DEF Moves
<1>10. FreeInv(h2) /\ \A x : InFree(h2, x) <=> InFree(h, x)
  BY <1>1, <1>2, <1>4, FreeKept
<1>11. \A x : InFree(h, x) => x \in Ids(h)
  BY <1>1 DEF FreeInv, InFree
<1>12. Fused(h2)
  <2>1. ASSUME NEW i \in Spots(h2), NEW j \in Spots(h2), j = i + 1,
               InFree(h2, h2.list[i]), InFree(h2, h2.list[j])
        PROVE  FALSE
    <3>1. i \in 1 .. L + 1 /\ j \in 1 .. L + 1
      BY <1>2, <1>5 DEF Spots
    <3>2. j # L + 1
      BY <1>2, <1>4, <1>5, <1>10, <1>11, <2>1
    <3>3. i \in 1 .. L /\ j \in 1 .. L
      BY <1>1, <2>1, <3>1, <3>2
    <3>4. InFree(h, h.list[i]) /\ InFree(h, h.list[j])
      BY <1>2, <1>5, <1>10, <2>1, <3>3
    <3>5. QED
      BY <1>1, <2>1, <3>3, <3>4 DEF Fused, Spots
  <2>2. QED
    BY <2>1 DEF Fused
<1>13. InUse(h2) = InUse(h) \cup {m} /\ m \notin InUse(h)
  BY <1>4, <1>10, <1>11 DEF InUse
<1>14. \A x \in InUse(h) : SizeOf(h2, x) = SizeOf(h, x)
  BY <1>4 DEF InUse
<1>15. Laid(h2)
  BY <1>1, <1>9, MovesLaid
<1>16. Gave(h2, h, m, size)
  BY <1>4, <1>6, <1>9, <1>10, <1>12, <1>13, <1>14, <1>15 DEF Gave, Good
<1>17. QED
  BY <1>16 DEF h2, m

\* There is a best fit in every list that is not empty.
LEMMA BestFitFacts ==
  ASSUME NEW h \in HeapSet, h.free # <<>>, NEW size \in Nat
  PROVE  BestFit(h, size) \in 1 .. Len(h.free)
<1> DEFINE fits == {i \in 1 .. Len(h.free) : SizeOf(h, h.free[i]) >= size}
<1>1. Len(h.free) \in Nat /\ Len(h.free) # 0
  BY HeapFacts, EmptySeq
<1>2. CASE fits = {}
  BY <1>1, <1>2 DEF BestFit
<1>3. CASE fits # {}
  <2>1. fits \in SUBSET Nat
    BY <1>1
  <2>2. \E i \in fits : \A j \in fits : i <= j
    <3> HIDE DEF fits
    <3>1. QED
      BY <1>3, <2>1, LeastNat
  <2>3. (CHOOSE i \in fits : \A j \in fits : i <= j) \in fits
    BY <2>2
  <2>4. BestFit(h, size) = CHOOSE i \in fits : \A j \in fits : i <= j
    BY <1>3 DEF BestFit
  <2>5. QED
    BY <2>3, <2>4
<1>4. QED
  BY <1>2, <1>3

\* One node of a sequence of nodes changes.
LEMMA NodeChanged ==
  ASSUME NEW s \in Seq(MemNode), NEW n \in 1 .. Len(s), NEW e \in MemNode
  PROVE  /\ [s EXCEPT ![n] = e] \in Seq(MemNode) /\ Len([s EXCEPT ![n] = e]) = Len(s)
         /\ \A x \in 1 .. Len(s) : [s EXCEPT ![n] = e][x] = IF x = n THEN e ELSE s[x]
  BY ExceptSeq

\* The selected node leaves the free list and has the size asked for.
LEMMA TakeNodeFacts ==
  ASSUME NEW h \in HeapSet, FreeInv(h), NEW i \in 1 .. Len(h.free), NEW size \in Nat
  PROVE  LET h1 == TakeNode(h, i, size) IN
         /\ h1 \in HeapSet /\ Len(h1.nodes) = Len(h.nodes) /\ Resized(h1, h, h.free[i], size)
         /\ FreeInv(h1) /\ \A x : InFree(h1, x) <=> InFree(h, x) /\ x # h.free[i]
<1> DEFINE n == h.free[i]
<1> DEFINE g == RemoveAt(h.free, i)
<1> DEFINE he == [h EXCEPT !.free = RemoveAt(@, i)]
<1> DEFINE h1 == TakeNode(h, i, size)
<1> DEFINE e == [h.nodes[n] EXCEPT !.size = size]
<1> DEFINE s == [h.nodes EXCEPT ![n] = e]
<1>1. /\ h.nodes \in Seq(MemNode) /\ h.free \in Seq(Nat) /\ n \in 1 .. Len(h.nodes)
      /\ h.nodes[n] \in MemNode
  BY HeapFacts DEF FreeInv, Ids
<1>2. /\ he \in HeapSet /\ Same(he, h) /\ FreeInv(he)
      /\ \A x : InFree(he, x) <=> InFree(h, x) /\ x # n
  BY TakenOut
<1>3. g \in Seq(Nat) /\ he.free = g
  BY <1>1, RemoveAtFacts DEF HeapSet
<1>4. h1 = [h EXCEPT !.free = g, !.nodes = s]
  BY DEF TakeNode, HeapSet
<1>5. e \in MemNode /\ e.size = size /\ e.offset = h.nodes[n].offset /\ e.into = h.nodes[n].into
  BY <1>1 DEF MemNode
<1> HIDE DEF e, g, he, h1
<1>6. /\ s \in Seq(MemNode) /\ Len(s) = Len(h.nodes)
      /\ \A x \in 1 .. Len(h.nodes) : s[x] = IF x = n THEN e ELSE h.nodes[x]
  BY <1>1, <1>5, NodeChanged
<1> HIDE DEF s, n
<1>7. h1 \in HeapSet /\ h1.nodes = s /\ h1.list = h.list /\ h1.free = g
  BY <1>3, <1>4, <1>6 DEF HeapSet
<1>8. Resized(h1, h, n, size)
  BY <1>5, <1>6, <1>7 DEF Resized, Ids, SizeOf, OffsetOf, IntoOf
<1>9. FreeInv(h1) /\ \A x : InFree(h1, x) <=> InFree(he, x)
  <2>1. \A x \in Ids(he) : InFree(he, x) => /\ x \in Ids(h1) /\ IntoOf(h1, x) = IntoOf(he, x)
                                            /\ SizeOf(h1, x) = SizeOf(he, x)
    BY <1>2, <1>8 DEF Resized, Same, Ids, SizeOf, IntoOf
  <2>2. h1.free = he.free
    BY <1>3, <1>7
  <2>3. QED
    BY <1>2, <2>1, <2>2, FreeKept
<1>10. QED
  BY <1>2, <1>6, <1>7, <1>8, <1>9 DEF h1, n

\* The selected node is not larger than what is asked for: it is expanded.
LEMMA ExpandGave ==
  ASSUME NEW h, Good(h), NEW i \in 1 .. Len(h.free), NEW size \in Units, SizeOf(h, h.free[i]) <= size
  PROVE  Gave(TakeNode(h, i, size), h, h.free[i], size)
<1> DEFINE n == h.free[i]
<1> DEFINE h2 == TakeNode(h, i, size)
<1>1. h \in HeapSet /\ Laid(h) /\ FreeInv(h) /\ Fused(h) /\ size \in Nat
  BY DEF Good, Units
<1>2. /\ h2 \in HeapSet /\ Resized(h2, h, n, size)
      /\ FreeInv(h2) /\ \A x : InFree(h2, x) <=> InFree(h, x) /\ x # n
  BY <1>1, TakeNodeFacts
<1>3. n \in Ids(h) /\ IntoOf(h, n) = 0 /\ InFree(h, n) /\ SizeOf(h, n) <= size
  BY <1>1 DEF FreeInv, InFree
<1> HIDE DEF n, h2
<1>4. PICK k \in Spots(h) : h.list[k] = n
  BY <1>1, <1>3, ListFacts
<1>5. ASSUME NEW o, NEW p, NEW d, Layout(h, o, p, d)
      PROVE  \E o2, p2, d2 : Layout(h2, o2, p2, d2) /\ Spreads(h, o, p, h2, o2, p2)
  <2> DEFINE more == size - SizeOf(h, n)
  <2>1. SizeOf(h, n) \in Units /\ SizeOf(h, n) \in Nat
    BY <1>1, <1>3, <1>5, LayoutFacts
  <2>2. more \in Units /\ size = SizeOf(h, n) + more
    <3>1. size \in Units /\ size >= SizeOf(h, n) /\ size \in Nat
      BY <1>1, <1>3, <2>1
    <3>2. size - SizeOf(h, n) \in Units
      BY <2>1, <3>1, UnitFacts
    <3>3. QED
      BY <2>1, <3>1, <3>2
  <2> HIDE DEF more
  <2>3. Resized(h2, h, h.list[k], SizeOf(h, h.list[k]) + more)
    BY <1>2, <1>4, <2>2
  <2>4. QED
    BY <1>1, <1>5, <2>2, <2>3, LayoutExpand
<1>6. Moves(h, h2) /\ Laid(h2)
  BY <1>1, <1>5, MovesLaid DEF Moves
<1>7. h2.list = h.list /\ Spots(h2) = Spots(h) /\ Ids(h2) = Ids(h)
  BY <1>2 DEF Resized, Spots
<1>8. Fused(h2)
  BY <1>1, <1>2, <1>7 DEF Fused
<1>9. \A x \in Ids(h) : SizeOf(h2, x) = (IF x = n THEN size ELSE SizeOf(h, x)) /\ IntoOf(h2, x) = IntoOf(h, x)
  BY <1>2 DEF Resized
<1>10. n \notin InUse(h) /\ InUse(h2) = InUse(h) \cup {n}
  BY <1>2, <1>3, <1>7, <1>9 DEF InUse
<1>11. SizeOf(h2, n) = size /\ \A x \in InUse(h) : SizeOf(h2, x) = SizeOf(h, x)
  BY <1>3, <1>9 DEF InUse
<1>12. Gave(h2, h, n, size)
  BY <1>2, <1>6, <1>8, <1>10, <1>11 DEF Gave, Good
<1>13. QED
  BY <1>12 DEF h2, n

\* The selected node is larger: the rest of it is a free node behind it.
LEMMA SplitGave ==
  ASSUME NEW h, Good(h), NEW i \in 1 .. Len(h.free), NEW size \in Units, SizeOf(h, h.free[i]) > size
  PROVE  Gave(AddRest(TakeNode(h, i, size), h.free[i], SizeOf(h, h.free[i]) - size), h, h.free[i], size)
<1> DEFINE n == h.free[i]
<1> DEFINE rest == SizeOf(h, n) - size
<1> DEFINE h1 == TakeNode(h, i, size)
<1> DEFINE m == Len(h1.nodes) + 1
<1> DEFINE t == InsertAt(h1.list, At(h1.list, n) + 1, m)
<1> DEFINE u == Append(h1.nodes, NewNode(rest))
<1> DEFINE h3 == [h1 EXCEPT !.nodes = u, !.list = t]
<1> DEFINE h2 == InsertFree(h3, m)
<1>1. h \in HeapSet /\ Laid(h) /\ FreeInv(h) /\ Fused(h) /\ size \in Nat
  BY DEF Good, Units
<1>2. /\ h1 \in HeapSet /\ Resized(h1, h, n, size)
      /\ FreeInv(h1) /\ \A x : InFree(h1, x) <=> InFree(h, x) /\ x # n
  BY <1>1, TakeNodeFacts
<1>3. /\ n \in Ids(h) /\ IntoOf(h, n) = 0 /\ InFree(h, n) /\ SizeOf(h, n) > size
      /\ \A x : InFree(h, x) => x \in Ids(h)
  BY <1>1 DEF FreeInv, InFree
<1>4. SizeOf(h, n) \in Units /\ SizeOf(h, n) \in Nat
  BY <1>1, <1>3, LayoutFacts DEF Laid
<1>5. rest \in Units /\ rest \in Nat /\ SizeOf(h, n) = size + rest /\ rest > 0
  <2>1. SizeOf(h, n) >= size
    BY <1>1, <1>3, <1>4
  <2>2. SizeOf(h, n) - size \in Units
    BY <1>4, <2>1, UnitFacts
  <2>3. QED
    BY <1>1, <1>3, <1>4, <2>2
<1>6. AddRest(h1, n, rest) = h2
  BY <1>2 DEF AddRest, HeapSet
<1> HIDE DEF n, rest, h1
<1>7. PICK k \in Spots(h) : h.list[k] = n /\ At(h.list, n) = k
  BY <1>1, <1>3, ListFacts
<1>8. h1.list = h.list /\ Ids(h1) = Ids(h)
  BY <1>2 DEF Resized
<1>9. t = InsertAt(h.list, k + 1, m)
  BY <1>7, <1>8
<1>10. /\ h3.nodes = u /\ h3.list = t /\ h3.free = h1.free
  BY <1>2 DEF HeapSet
<1>11. /\ u \in Seq(MemNode)
       /\ Ids(h3) = Ids(h1) \cup {m} /\ m \notin Ids(h1) /\ m \in Nat \ {0}
       /\ \A x \in Ids(h1) : /\ SizeOf(h3, x) = SizeOf(h1, x)
                             /\ OffsetOf(h3, x) = OffsetOf(h1, x) /\ IntoOf(h3, x) = IntoOf(h1, x)
       /\ SizeOf(h3, m) = rest /\ OffsetOf(h3, m) = 0 /\ IntoOf(h3, m) = 0
  <2> HIDE DEF h3
  <2>1. h3.nodes = Append(h1.nodes, NewNode(rest))
    BY <1>10
  <2>4. h1 \in HeapSet /\ rest \in Nat
    BY <1>2, <1>5
  <2> HIDE DEF u
  <2>2. /\ h3.nodes \in Seq(MemNode)
        /\ Ids(h3) = Ids(h1) \cup {m} /\ m \notin Ids(h1) /\ m \in Nat \ {0}
        /\ \A x \in Ids(h1) : /\ SizeOf(h3, x) = SizeOf(h1, x)
                              /\ OffsetOf(h3, x) = OffsetOf(h1, x) /\ IntoOf(h3, x) = IntoOf(h1, x)
        /\ SizeOf(h3, m) = rest /\ OffsetOf(h3, m) = 0 /\ IntoOf(h3, m) = 0
    BY <2>1, <2>4, NodesAppended, ZenonT(60)
  <2>3. QED
    BY <1>10, <2>2
<1> HIDE DEF m, u
<1>12. t \in Seq(Nat) /\ Inserted(t, h.list, k + 1, m)
  <2>1. h.list \in Seq(Nat) /\ Len(h.list) \in Nat /\ k \in 1 .. Len(h.list)
    BY <1>1, HeapFacts DEF Spots
  <2>2. k + 1 \in 1 .. Len(h.list) + 1
    BY <2>1
  <2> HIDE DEF t
  <2>3. QED
    BY <1>9, <1>11, <2>1, <2>2, InsertAtFacts
<1> HIDE DEF t
<1>13. h3 \in HeapSet
  BY <1>2, <1>11, <1>12, HeapChanged
<1> HIDE DEF h3
<1>14. \A x \in Ids(h) : /\ SizeOf(h3, x) = IF x = n THEN size ELSE SizeOf(h, x)
                         /\ OffsetOf(h3, x) = OffsetOf(h, x) /\ IntoOf(h3, x) = IntoOf(h, x)
  BY <1>2, <1>8, <1>11 DEF Resized
<1>15. Split(h3, h, k, m, size, rest)
  BY <1>7, <1>8, <1>10, <1>11, <1>12, <1>14 DEF Split
<1>16. Moves(h, h3)
  BY <1>1, <1>5, <1>7, <1>11, <1>15, LayoutSplit DEF Moves
<1>17. FreeInv(h3) /\ \A x : InFree(h3, x) <=> InFree(h1, x)
  <2>1. \A x \in Ids(h1) : InFree(h1, x) => /\ x \in Ids(h3) /\ IntoOf(h3, x) = IntoOf(h1, x)
                                            /\ SizeOf(h3, x) = SizeOf(h1, x)
    BY <1>11
  <2>2. QED
    BY <1>2, <1>10, <2>1, FreeKept
<1>18. /\ h2 \in HeapSet /\ Same(h2, h3) /\ FreeInv(h2)
       /\ \A x : InFree(h2, x) <=> InFree(h3, x) \/ x = m
  <2>1. m \in Ids(h3) /\ IntoOf(h3, m) = 0 /\ ~InFree(h3, m)
    BY <1>2, <1>3, <1>8, <1>11, <1>17
  <2>2. QED
    BY <1>13, <1>17, <2>1, InsertFreeFacts
<1> HIDE DEF h2
<1>19. Moves(h, h2) /\ Laid(h2)
  BY <1>1, <1>13, <1>16, <1>18, MovesSame, MovesTwice, MovesLaid
<1>20. \A x : InFree(h2, x) <=> (InFree(h, x) /\ x # n) \/ x = m
  BY <1>2, <1>17, <1>18
<1>21. /\ Ids(h2) = Ids(h) \cup {m} /\ m \notin Ids(h) /\ h2.list = t
       /\ \A x : SizeOf(h2, x) = SizeOf(h3, x) /\ IntoOf(h2, x) = IntoOf(h3, x)
  BY <1>8, <1>10, <1>11, <1>18 DEF Same, Ids, SizeOf, IntoOf
<1>22. Fused(h2)
  <2> DEFINE L == Len(h.list)
  <2>1. L \in Nat /\ k \in 1 .. L /\ Spots(h2) = 1 .. L + 1 /\ Spots(h) = 1 .. L
    BY <1>1, <1>12, <1>21, HeapFacts DEF Spots, Inserted
  <2>2. \A j \in 1 .. L + 1 : h2.list[j] = IF j < k + 1 THEN h.list[j] ELSE IF j = k + 1 THEN m ELSE h.list[j - 1]
    BY <1>12, <1>21 DEF Inserted
  <2>3. \A j \in 1 .. L : h.list[j] \in Ids(h)
    BY <1>1, <2>1, ListFacts
  <2> HIDE DEF L
  <2>4. \A j \in 1 .. L : InFree(h2, h.list[j]) => InFree(h, h.list[j]) /\ h.list[j] # n
    BY <1>20, <1>21, <2>3
  <2>5. ASSUME NEW a \in 1 .. L + 1, NEW b \in 1 .. L + 1, b = a + 1,
               InFree(h2, h2.list[a]), InFree(h2, h2.list[b])
        PROVE  FALSE
    <3>1. CASE a < k
      <4>1. a \in 1 .. L /\ b \in 1 .. L /\ a < k + 1 /\ b < k + 1
        BY <2>1, <2>5, <3>1
      <4>2. InFree(h, h.list[a]) /\ InFree(h, h.list[b])
        BY <2>2, <2>4, <2>5, <4>1
      <4>3. QED
        BY <1>1, <2>1, <2>5, <4>1, <4>2 DEF Fused
    <3>2. CASE a = k
      <4>1. a \in 1 .. L /\ a < k + 1
        BY <2>1, <3>2
      <4>2. h2.list[a] = n
        BY <1>7, <2>2, <3>2, <4>1
      <4>3. QED
        BY <1>7, <2>4, <2>5, <3>2, <4>1, <4>2
    <3>3. CASE a = k + 1
      <4> DEFINE c == b - 1
      <4>1. c \in 1 .. L /\ c = k + 1 /\ ~(b < k + 1) /\ b # k + 1
        BY <2>1, <2>5, <3>3
      <4>2. h2.list[b] = h.list[c]
        BY <2>2, <4>1
      <4> HIDE DEF c
      <4>3. InFree(h, h.list[c])
        BY <2>4, <2>5, <4>1, <4>2
      <4>4. QED
        BY <1>1, <1>3, <1>7, <2>1, <4>1, <4>3 DEF Fused
    <3>4. CASE a > k + 1
      <4> DEFINE c == b - 1
      <4> DEFINE e == a - 1
      <4>1. /\ c \in 1 .. L /\ e \in 1 .. L /\ c = e + 1
            /\ ~(b < k + 1) /\ b # k + 1 /\ ~(a < k + 1) /\ a # k + 1
        BY <2>1, <2>5, <3>4
      <4>2. h2.list[b] = h.list[c] /\ h2.list[a] = h.list[e]
        BY <2>2, <4>1
      <4> HIDE DEF c, e
      <4>3. InFree(h, h.list[c]) /\ InFree(h, h.list[e])
        BY <2>4, <2>5, <4>1, <4>2
      <4>4. QED
        BY <1>1, <2>1, <4>1, <4>3 DEF Fused
    <3>5. QED
      BY <2>1, <3>1, <3>2, <3>3, <3>4
  <2>6. QED
    BY <2>1, <2>5 DEF Fused
<1>23. n \notin InUse(h) /\ InUse(h2) = InUse(h) \cup {n}
  BY <1>3, <1>11, <1>14, <1>20, <1>21 DEF InUse
<1>24. SizeOf(h2, n) = size /\ \A x \in InUse(h) : SizeOf(h2, x) = SizeOf(h, x)
  BY <1>3, <1>14, <1>21 DEF InUse
<1>25. Gave(h2, h, n, size)
  BY <1>18, <1>19, <1>22, <1>23, <1>24 DEF Gave, Good
<1>26. QED
  BY <1>6, <1>25 DEF h1, n, rest

\* alloc from the free list.
LEMMA AllocFitGave ==
  ASSUME NEW h, Good(h), h.free # <<>>, NEW size \in Units
  PROVE  Gave(AllocFit(h, size), h, h.free[BestFit(h, size)], size)
<1> DEFINE i == BestFit(h, size)
<1>1. h \in HeapSet /\ size \in Nat /\ FreeInv(h)
  BY DEF Good, Units
<1>2. i \in 1 .. Len(h.free)
  BY <1>1, BestFitFacts
<1>3. SizeOf(h, h.free[i]) \in Nat
  BY <1>1, <1>2, HeapFacts DEF FreeInv
<1> HIDE DEF i
<1>4. CASE SizeOf(h, h.free[i]) > size
  <2>1. AllocFit(h, size) = AddRest(TakeNode(h, i, size), h.free[i], SizeOf(h, h.free[i]) - size)
    <3>1. SizeOf(h, h.free[i]) - size > 0
      BY <1>1, <1>3, <1>4
    <3>2. QED
      BY <3>1 DEF AllocFit, Splits, i
  <2>2. QED
    BY <1>2, <1>4, <2>1, SplitGave DEF i
<1>5. CASE ~(SizeOf(h, h.free[i]) > size)
  <2>1. AllocFit(h, size) = TakeNode(h, i, size) /\ SizeOf(h, h.free[i]) <= size
    <3>1. ~(SizeOf(h, h.free[i]) - size > 0) /\ SizeOf(h, h.free[i]) <= size
      BY <1>1, <1>3, <1>5
    <3>2. QED
      BY <3>1 DEF AllocFit, Splits, i
  <2>2. QED
    BY <1>2, <2>1, ExpandGave DEF i
<1>6. QED
  BY <1>4, <1>5

-----------------------------------------------------------------------------
(* free.                                                                    *)

\* fuse_to_left of two neighbours.
LEMMA FuseToLeftFacts ==
  ASSUME NEW h \in HeapSet, Laid(h), NEW i \in Spots(h), i + 1 \in Spots(h)
  PROVE  LET h2 == FuseToLeft(h, h.list[i], h.list[i + 1]) IN
         h2 \in HeapSet /\ h2.free = h.free /\ Joined(h2, h, i)
<1> DEFINE k == i + 1
<1> DEFINE l == h.list[i]
<1> DEFINE r == h.list[k]
<1> DEFINE sl == SizeOf(h, l)
<1> DEFINE sr == SizeOf(h, r)
<1> DEFINE h2 == FuseToLeft(h, l, r)
<1> DEFINE child == [size |-> sr, offset |-> sl, into |-> l]
<1> DEFINE whole == [h.nodes[l] EXCEPT !.size = @ + sr]
<1> DEFINE s1 == [h.nodes EXCEPT ![r] = child]
<1> DEFINE s2 == [s1 EXCEPT ![l] = whole]
<1> DEFINE t == RemoveAt(h.list, k)
<1>1. /\ l \in Ids(h) /\ r \in Ids(h) /\ l # r /\ At(h.list, r) = k
      /\ k \in 1 .. Len(h.list) /\ h.list \in Seq(Nat) /\ Ids(h) = 1 .. Len(h.nodes)
  <2>1. i \in Int /\ i # i + 1
    BY DEF Spots
  <2>2. QED
    BY <2>1, ListFacts, HeapFacts DEF Spots, Ids
<1>2. /\ sl \in Nat /\ sr \in Nat /\ l \in Nat
      /\ h.nodes \in Seq(MemNode) /\ h.nodes[r] \in MemNode /\ h.nodes[l] \in MemNode
  <2>1. l \in Ids(h) /\ r \in Ids(h) /\ l \in Nat
    BY <1>1
  <2> HIDE DEF l, r
  <2>2. QED
    BY <2>1, HeapFacts
<1>3. t \in Seq(Nat) /\ Removed(t, h.list, k)
  BY <1>1, RemoveAtFacts
<1>4. h2 = [h EXCEPT !.nodes = s2, !.list = t]
  BY <1>1 DEF FuseToLeft, HeapSet
<1> HIDE DEF t, h2, l, r, k
<1>5. sl = h.nodes[l].size /\ sr = h.nodes[r].size
  BY DEF SizeOf
<1> HIDE DEF sl, sr
<1>6. child \in MemNode /\ child.size = sr /\ child.offset = sl /\ child.into = l
  BY <1>2 DEF MemNode
<1>7. /\ whole \in MemNode /\ whole.size = h.nodes[l].size + sr
      /\ whole.offset = h.nodes[l].offset /\ whole.into = h.nodes[l].into
  <2>1. h.nodes[l] \in MemNode /\ h.nodes[l].size \in Nat /\ sr \in Nat
    BY <1>2, <1>5
  <2>2. QED
    BY <2>1 DEF MemNode
<1> HIDE DEF child, whole
<1>8. /\ s1 \in Seq(MemNode) /\ Len(s1) = Len(h.nodes)
      /\ \A x \in Ids(h) : s1[x] = IF x = r THEN child ELSE h.nodes[x]
  BY <1>1, <1>2, <1>6, NodeChanged
<1> HIDE DEF s1
<1>9. /\ s2 \in Seq(MemNode) /\ Len(s2) = Len(h.nodes)
      /\ \A x \in Ids(h) : s2[x] = IF x = l THEN whole ELSE s1[x]
  BY <1>1, <1>7, <1>8, NodeChanged
<1> HIDE DEF s2
<1>12. h2 \in HeapSet /\ h2.nodes = s2 /\ h2.list = t /\ h2.free = h.free
  <2>1. h2 \in HeapSet
    BY <1>3, <1>4, <1>9, HeapChanged
  <2>2. QED
    BY <1>4, <2>1 DEF HeapSet
<1>13. Ids(h2) = Ids(h)
  BY <1>9, <1>12 DEF Ids
<1>14. ASSUME NEW x \in Ids(h)
       PROVE  /\ SizeOf(h2, x) = IF x = l THEN SizeOf(h, x) + sr ELSE SizeOf(h, x)
              /\ OffsetOf(h2, x) = IF x = r THEN sl ELSE OffsetOf(h, x)
              /\ IntoOf(h2, x) = IF x = r THEN l ELSE IntoOf(h, x)
  <2>1. CASE x = l
    BY <1>1, <1>7, <1>9, <1>12, <2>1 DEF SizeOf, OffsetOf, IntoOf
  <2>2. CASE x = r
    BY <1>1, <1>5, <1>6, <1>8, <1>9, <1>12, <2>2 DEF SizeOf, OffsetOf, IntoOf
  <2>3. CASE x # l /\ x # r
    BY <1>8, <1>9, <1>12, <2>3 DEF SizeOf, OffsetOf, IntoOf
  <2>4. QED
    BY <2>1, <2>2, <2>3
<1>15. Joined(h2, h, i)
  BY <1>3, <1>12, <1>13, <1>14 DEF Joined, l, r, k, sl, sr
<1>16. QED
  BY <1>12, <1>15 DEF h2, l, r, k

\* The list after two neighbours became one.
LEMMA JoinedFused ==
  ASSUME NEW h \in HeapSet, Laid(h), Fused(h), NEW i \in Spots(h), i + 1 \in Spots(h),
         NEW h2, Joined(h2, h, i), ~InFree(h2, h.list[i]), \A x : InFree(h2, x) => InFree(h, x)
  PROVE  Fused(h2)
<1> DEFINE L == Len(h.list)
<1> DEFINE k == i + 1
<1>1. L \in Nat /\ i \in 1 .. L /\ k \in 1 .. L /\ Spots(h) = 1 .. L /\ k = i + 1
  BY HeapFacts DEF Spots
<1>2. Spots(h2) = 1 .. L - 1 /\ \A j \in 1 .. L - 1 : h2.list[j] = IF j < k THEN h.list[j] ELSE h.list[j + 1]
  BY DEF Joined, Removed, Spots
<1> HIDE DEF L, k
<1>3. ASSUME NEW a \in 1 .. L - 1, NEW b \in 1 .. L - 1, b = a + 1,
             InFree(h2, h2.list[a]), InFree(h2, h2.list[b])
      PROVE  FALSE
  <2>1. i < k /\ i \in 1 .. L - 1
    BY <1>1, <1>3
  <2>2. h2.list[i] = h.list[i]
    BY <1>2, <2>1
  <2>3. a # i /\ b # i
    BY <1>3, <2>2
  <2>4. CASE b < i
    <3>1. a \in 1 .. L /\ b \in 1 .. L /\ a < k /\ b < k
      BY <1>1, <1>3, <2>4
    <3>2. InFree(h, h.list[a]) /\ InFree(h, h.list[b])
      BY <1>2, <1>3, <3>1
    <3>3. QED
      BY <1>1, <1>3, <3>1, <3>2 DEF Fused
  <2>5. CASE a > i
    <3> DEFINE c == a + 1
    <3> DEFINE e == b + 1
    <3>1. c \in 1 .. L /\ e \in 1 .. L /\ ~(a < k) /\ ~(b < k) /\ e = c + 1
      BY <1>1, <1>3, <2>5
    <3>2. h2.list[a] = h.list[c] /\ h2.list[b] = h.list[e]
      BY <1>2, <3>1
    <3> HIDE DEF c, e
    <3>3. InFree(h, h.list[c]) /\ InFree(h, h.list[e])
      BY <1>3, <3>2
    <3>4. QED
      BY <1>1, <3>1, <3>3 DEF Fused
  <2>6. QED
    BY <1>1, <1>3, <2>3, <2>4, <2>5
<1>4. QED
  BY <1>2, <1>3 DEF Fused

\* free has fused the free node m and its neighbour.
Fusion(h2, h, i, m) ==
    /\ Good(h2) /\ Moves(h, h2) /\ Joined(h2, h, i)
    /\ \A x : InFree(h2, x) <=> InFree(h, x) /\ x # m
    /\ ~InFree(h2, h.list[i])

\* free takes a free neighbour out of the free list and fuses with it.
LEMMA FreeFuseFacts ==
  ASSUME NEW h, Good(h), NEW i \in Spots(h), i + 1 \in Spots(h),
         NEW m \in {h.list[i], h.list[i + 1]}, InFree(h, m)
  PROVE  Fusion(FreeFuse(h, h.list[i], h.list[i + 1], m), h, i, m)
<1> DEFINE l == h.list[i]
<1> DEFINE r == h.list[i + 1]
<1> DEFINE he == EraseFree(h, m)
<1> DEFINE h2 == FuseToLeft(he, l, r)
<1>1. h \in HeapSet /\ Laid(h) /\ FreeInv(h) /\ Fused(h)
  BY DEF Good
<1>2. /\ he \in HeapSet /\ Same(he, h) /\ FreeInv(he)
      /\ \A x : InFree(he, x) <=> InFree(h, x) /\ x # m
  BY <1>1, EraseFreeFacts
<1>3. he.list = h.list /\ Spots(he) = Spots(h) /\ Moves(h, he) /\ Laid(he)
  BY <1>1, <1>2, MovesSame, MovesLaid DEF Same, Spots
<1> HIDE DEF he
<1>4. h2 \in HeapSet /\ h2.free = he.free /\ Joined(h2, he, i)
  BY <1>2, <1>3, FuseToLeftFacts
<1>5. Joined(h2, h, i)
  BY <1>2, <1>4 DEF Joined, Same, Ids, SizeOf, OffsetOf, IntoOf
<1> HIDE DEF h2
<1>6. Moves(h, h2) /\ Laid(h2)
  BY <1>1, <1>4, <1>5, LayoutFuse, MovesLaid DEF Moves
<1>7. ~InFree(he, l) /\ ~InFree(he, r)
  <2>1. ~(InFree(h, l) /\ InFree(h, r))
    BY <1>1 DEF Fused
  <2>2. QED
    BY <1>2, <2>1
<1>8. FreeInv(h2) /\ \A x : InFree(h2, x) <=> InFree(he, x)
  <2>1. ASSUME NEW x \in Ids(he), InFree(he, x)
        PROVE  x \in Ids(h2) /\ IntoOf(h2, x) = IntoOf(he, x) /\ SizeOf(h2, x) = SizeOf(he, x)
    <3>1. x # l /\ x # r
      BY <1>7, <2>1
    <3>2. QED
      BY <1>3, <1>4, <3>1 DEF Joined
  <2>2. QED
    BY <1>2, <1>4, <2>1, FreeKept
<1>9. ~InFree(h2, l) /\ \A x : InFree(h2, x) <=> InFree(h, x) /\ x # m
  BY <1>2, <1>7, <1>8
<1>10. Fused(h2)
  BY <1>1, <1>5, <1>9, JoinedFused
<1>11. Fusion(h2, h, i, m)
  BY <1>4, <1>5, <1>6, <1>8, <1>9, <1>10 DEF Fusion, Good
<1>12. QED
  BY <1>11 DEF FreeFuse, h2, he

\* free has taken node n back.
Freed(h2, h, n) ==
    /\ Good(h2) /\ Moves(h, h2)
    /\ InUse(h2) = InUse(h) \ {n}
    /\ \A x \in InUse(h2) : SizeOf(h2, x) = SizeOf(h, x)

\* A node whose neighbours are in use is given back.
LEMMA InsertFreed ==
  ASSUME NEW h, Good(h), NEW k \in Spots(h), ~InFree(h, h.list[k]),
         \A j \in Spots(h) : j = k - 1 \/ j = k + 1 => ~InFree(h, h.list[j])
  PROVE  Freed(InsertFree(h, h.list[k]), h, h.list[k])
<1> DEFINE n == h.list[k]
<1> DEFINE h2 == InsertFree(h, n)
<1>1. h \in HeapSet /\ Laid(h) /\ FreeInv(h) /\ Fused(h)
  BY DEF Good
<1>2. n \in Ids(h) /\ IntoOf(h, n) = 0 /\ ~InFree(h, n) /\ \A j \in Spots(h) : h.list[j] = n => j = k
  BY <1>1, ListFacts
<1>3. /\ h2 \in HeapSet /\ Same(h2, h) /\ FreeInv(h2)
      /\ \A x : InFree(h2, x) <=> InFree(h, x) \/ x = n
  BY <1>1, <1>2, InsertFreeFacts
<1> HIDE DEF n, h2
<1>4. /\ h2.list = h.list /\ Spots(h2) = Spots(h) /\ Ids(h2) = Ids(h)
      /\ \A x : SizeOf(h2, x) = SizeOf(h, x) /\ IntoOf(h2, x) = IntoOf(h, x)
  BY <1>3 DEF Same, Spots, Ids, SizeOf, IntoOf
<1>5. Moves(h, h2) /\ Laid(h2)
  BY <1>1, <1>3, MovesSame, MovesLaid
<1>6. ASSUME NEW a \in Spots(h), NEW b \in Spots(h), b = a + 1,
             InFree(h2, h.list[a]), InFree(h2, h.list[b])
      PROVE  FALSE
  <2>1. a \in Int /\ b \in Int /\ k \in Int
    BY DEF Spots
  <2>2. CASE a = k
    <3>1. b # k
      BY <1>6, <2>1, <2>2
    <3>2. QED
      BY <1>2, <1>3, <1>6, <2>2, <3>1
  <2>3. CASE b = k
    <3>1. a # k /\ a = k - 1
      BY <1>6, <2>1, <2>3
    <3>2. QED
      BY <1>2, <1>3, <1>6, <3>1
  <2>4. CASE a # k /\ b # k
    BY <1>1, <1>2, <1>3, <1>6, <2>4 DEF Fused
  <2>5. QED
    BY <2>2, <2>3, <2>4
<1>7. Fused(h2)
  BY <1>4, <1>6 DEF Fused
<1>8. InUse(h2) = InUse(h) \ {n}
  BY <1>3, <1>4 DEF InUse
<1>9. Freed(h2, h, n)
  BY <1>3, <1>4, <1>5, <1>7, <1>8 DEF Freed, Good
<1>10. QED
  BY <1>9 DEF h2, n

\* The second half of free: fuse with the right neighbour when it is free.
LEMMA RightFreed ==
  ASSUME NEW h, Good(h), NEW k \in Spots(h), ~InFree(h, h.list[k]),
         \A j \in Spots(h) : j = k - 1 => ~InFree(h, h.list[j]),
         NEW right, right = IF k < Len(h.list) THEN h.list[k + 1] ELSE 0,
         NEW h2, h2 = IF Fuses(h, h.list[k], right) THEN FreeFuse(h, h.list[k], right, right) ELSE h
  PROVE  Freed(InsertFree(h2, h.list[k]), h, h.list[k])
<1> DEFINE n == h.list[k]
<1>1. h \in HeapSet /\ Laid(h) /\ FreeInv(h) /\ Fused(h) /\ Len(h.list) \in Nat /\ k \in 1 .. Len(h.list)
  BY HeapFacts DEF Good, Spots
<1>2. n \in Ids(h) /\ n # 0 /\ IntoOf(h, n) = 0
  BY <1>1, ListFacts DEF Ids
<1>3. CASE Fuses(h, n, right)
  <2>1. right # 0 /\ InFree(h, right)
    BY <1>3 DEF Fuses
  <2>2. k + 1 \in Spots(h) /\ right = h.list[k + 1]
    BY <1>1, <2>1 DEF Spots
  <2>3. Fusion(h2, h, k, right)
    BY <1>3, <2>1, <2>2, FreeFuseFacts
  <2>4. /\ Good(h2) /\ Moves(h, h2) /\ Joined(h2, h, k)
        /\ \A x : InFree(h2, x) <=> InFree(h, x) /\ x # right
    BY <2>3 DEF Fusion
  <2>5. /\ Len(h2.list) = Len(h.list) - 1
        /\ \A j \in 1 .. Len(h.list) - 1 : h2.list[j] = IF j < k + 1 THEN h.list[j] ELSE h.list[j + 1]
    BY <2>4 DEF Joined, Removed
  <2>6. k \in 1 .. Len(h.list) - 1 /\ k < k + 1
    BY <1>1, <2>2 DEF Spots
  <2>7. k \in Spots(h2) /\ h2.list[k] = n
    BY <2>5, <2>6 DEF Spots
  <2>8. ASSUME NEW j \in Spots(h2), j = k - 1 \/ j = k + 1
        PROVE  ~InFree(h2, h2.list[j])
    <3>1. j \in 1 .. Len(h.list) - 1
      BY <2>5 DEF Spots
    <3>2. CASE j = k - 1
      <4>1. j < k + 1 /\ j \in Spots(h)
        BY <1>1, <3>1, <3>2 DEF Spots
      <4>2. h2.list[j] = h.list[j]
        BY <2>5, <3>1, <4>1
      <4>3. QED
        BY <2>4, <3>2, <4>1, <4>2
    <3>3. CASE j = k + 1
      <4> DEFINE c == j + 1
      <4>1. ~(j < k + 1) /\ c \in Spots(h) /\ c = j + 1
        BY <1>1, <3>1, <3>3 DEF Spots
      <4>2. h2.list[j] = h.list[c]
        BY <2>5, <3>1, <4>1
      <4> HIDE DEF c
      <4>3. ~InFree(h, h.list[c])
        BY <1>1, <2>1, <2>2, <3>3, <4>1 DEF Fused
      <4>4. QED
        BY <2>4, <4>2, <4>3
    <3>4. QED
      BY <2>8, <3>2, <3>3
  <2>9. ~InFree(h2, n)
    BY <2>4
  <2>10. /\ Ids(h2) = Ids(h)
         /\ \A x \in Ids(h) : /\ IntoOf(h2, x) = IF x = right THEN n ELSE IntoOf(h, x)
                              /\ x # n => SizeOf(h2, x) = SizeOf(h, x)
    BY <2>2, <2>4 DEF Joined
  <2> HIDE DEF n
  <2>11. InUse(h2) = InUse(h)
    BY <1>2, <2>1, <2>4, <2>10 DEF InUse
  <2> DEFINE h3 == InsertFree(h2, n)
  <2>12. Freed(h3, h2, n)
    BY <2>4, <2>7, <2>8, <2>9, InsertFreed
  <2> HIDE DEF h3
  <2>13. Good(h3) /\ Moves(h2, h3) /\ InUse(h3) = InUse(h2) \ {n} /\ \A x \in InUse(h3) : SizeOf(h3, x) = SizeOf(h2, x)
    BY <2>12 DEF Freed
  <2>14. Moves(h, h3)
    BY <1>1, <2>4, <2>13, MovesTwice DEF Good
  <2>15. \A x \in InUse(h3) : SizeOf(h3, x) = SizeOf(h, x)
    BY <2>10, <2>11, <2>13 DEF InUse
  <2>16. Freed(h3, h, n)
    BY <2>11, <2>13, <2>14, <2>15 DEF Freed
  <2>17. QED
    BY <2>16 DEF h3, n
<1>4. CASE ~Fuses(h, n, right)
  <2>1. h2 = h
    BY <1>4
  <2>2. ASSUME NEW j \in Spots(h), j = k + 1 PROVE ~InFree(h, h.list[j])
    <3>1. k < Len(h.list)
      BY <1>1, <2>2 DEF Spots
    <3>2. right = h.list[j]
      BY <2>2, <3>1
    <3>3. right # 0
      BY <1>1, <2>2, <3>2, ListFacts DEF Ids
    <3>4. QED
      BY <1>4, <3>2, <3>3 DEF Fuses
  <2>3. QED
    BY <2>1, <2>2, InsertFreed
<1>5. QED
  BY <1>3, <1>4

\* free as a whole: with the left neighbour first, then with the right one.
LEMMA FreeNodeFreed ==
  ASSUME NEW h, Good(h), NEW n \in InUse(h)
  PROVE  Freed(FreeNode(h, n), h, n)
<1> DEFINE i == At(h.list, n)
<1> DEFINE left == IF i > 1 THEN h.list[i - 1] ELSE 0
<1> DEFINE right == IF i < Len(h.list) THEN h.list[i + 1] ELSE 0
<1> DEFINE fuses == Fuses(h, n, left)
<1> DEFINE h1 == IF fuses THEN FreeFuse(h, left, n, left) ELSE h
<1> DEFINE n1 == IF fuses THEN left ELSE n
<1> DEFINE h2 == IF Fuses(h, n, right) THEN FreeFuse(h1, n1, right, right) ELSE h1
<1>1. h \in HeapSet /\ Laid(h) /\ FreeInv(h) /\ Fused(h) /\ Len(h.list) \in Nat
  BY HeapFacts DEF Good
<1>2. n \in Ids(h) /\ IntoOf(h, n) = 0 /\ ~InFree(h, n) /\ n # 0
  BY DEF InUse, Ids
<1>3. FreeNode(h, n) = InsertFree(h2, n1)
  BY DEF FreeNode
<1>4. i \in Spots(h) /\ h.list[i] = n /\ i \in 1 .. Len(h.list)
  <2>1. PICK k \in Spots(h) : h.list[k] = n
    BY <1>1, <1>2, ListFacts
  <2>2. At(h.list, n) = k
    BY <1>1, <2>1, ListFacts
  <2>3. QED
    BY <2>1, <2>2 DEF Spots
<1> HIDE DEF i
<1>5. CASE fuses
  <2> DEFINE k == i - 1
  <2>1. left # 0 /\ InFree(h, left)
    BY <1>5 DEF Fuses
  <2>2. k \in Spots(h) /\ left = h.list[k] /\ k + 1 = i /\ k + 1 \in Spots(h) /\ n = h.list[k + 1]
    BY <1>1, <1>4, <2>1 DEF Spots
  <2>3. h1 = FreeFuse(h, left, n, left) /\ n1 = left
    BY <1>5
  <2>4. h2 = IF right # 0 /\ InFree(h, right) THEN FreeFuse(h1, n1, right, right) ELSE h1
    BY DEF Fuses
  <2>5. right = IF i < Len(h.list) THEN h.list[i + 1] ELSE 0
    OBVIOUS
  <2> HIDE DEF k, left, right, h1, n1, h2
  <2>6. Fusion(h1, h, k, left)
    BY <2>1, <2>2, <2>3, FreeFuseFacts
  <2>7. /\ Good(h1) /\ Moves(h, h1) /\ Joined(h1, h, k)
        /\ \A x : InFree(h1, x) <=> InFree(h, x) /\ x # left
    BY <2>6 DEF Fusion
  <2>8. /\ Len(h1.list) = Len(h.list) - 1
        /\ \A j \in 1 .. Len(h.list) - 1 : h1.list[j] = IF j < k + 1 THEN h.list[j] ELSE h.list[j + 1]
    BY <2>7 DEF Joined, Removed
  <2>9. k \in 1 .. Len(h.list) - 1 /\ k < k + 1
    BY <1>1, <1>4, <2>2 DEF Spots
  <2>10. k \in Spots(h1) /\ h1.list[k] = left
    BY <2>2, <2>8, <2>9 DEF Spots
  <2>11. ASSUME NEW j \in Spots(h1), j = k - 1 PROVE ~InFree(h1, h1.list[j])
    <3>1. j \in 1 .. Len(h.list) - 1 /\ j < k + 1 /\ j \in Spots(h) /\ k = j + 1
      BY <1>1, <2>8, <2>9, <2>11 DEF Spots
    <3>2. h1.list[j] = h.list[j]
      BY <2>8, <3>1
    <3>3. ~InFree(h, h.list[j])
      BY <1>1, <2>1, <2>2, <3>1 DEF Fused
    <3>4. QED
      BY <2>7, <3>2, <3>3
  <2>12. right = IF k < Len(h1.list) THEN h1.list[k + 1] ELSE 0
    <3>1. (k < Len(h1.list)) <=> (i < Len(h.list))
      BY <1>1, <2>2, <2>8, <2>9
    <3>2. CASE i < Len(h.list)
      <4>1. i \in 1 .. Len(h.list) - 1 /\ ~(i < k + 1)
        BY <1>1, <1>4, <2>2, <3>2
      <4>2. h1.list[i] = h.list[i + 1]
        BY <2>8, <4>1
      <4>3. QED
        BY <2>2, <2>5, <3>1, <3>2, <4>2
    <3>3. CASE ~(i < Len(h.list))
      BY <2>5, <3>1, <3>3
    <3>4. QED
      BY <3>2, <3>3
  <2>13. right # 0 => (InFree(h1, right) <=> InFree(h, right))
    <3>1. SUFFICES ASSUME right # 0 PROVE InFree(h1, right) <=> InFree(h, right)
      OBVIOUS
    <3>2. i < Len(h.list) /\ right = h.list[i + 1]
      BY <2>5, <3>1
    <3>3. i + 1 \in Spots(h) /\ i + 1 # k
      BY <1>1, <1>4, <2>2, <2>9, <3>2 DEF Spots
    <3>4. right # left
      BY <1>1, <2>2, <3>2, <3>3, ListFacts
    <3>5. QED
      BY <2>7, <3>4
  <2>14. h2 = IF Fuses(h1, h1.list[k], right) THEN FreeFuse(h1, h1.list[k], right, right) ELSE h1
    BY <2>3, <2>4, <2>10, <2>13 DEF Fuses
  <2>15. Freed(InsertFree(h2, h1.list[k]), h1, h1.list[k])
    <3>1. ~InFree(h1, h1.list[k])
      BY <2>7, <2>10
    <3>2. QED
      BY <2>7, <2>10, <2>11, <2>12, <2>14, <3>1, RightFreed
  <2> DEFINE h3 == InsertFree(h2, left)
  <2>16. Freed(h3, h1, left)
    BY <2>10, <2>15
  <2>17. FreeNode(h, n) = h3
    BY <1>3, <2>3
  <2> HIDE DEF h3
  <2>18. Good(h3) /\ Moves(h1, h3) /\ InUse(h3) = InUse(h1) \ {left} /\ \A x \in InUse(h3) : SizeOf(h3, x) = SizeOf(h1, x)
    BY <2>16 DEF Freed
  <2>19. /\ Ids(h1) = Ids(h)
         /\ \A x \in Ids(h) : /\ IntoOf(h1, x) = IF x = n THEN left ELSE IntoOf(h, x)
                              /\ x # left => SizeOf(h1, x) = SizeOf(h, x)
    BY <2>2, <2>7 DEF Joined
  <2>20. InUse(h1) \ {left} = InUse(h) \ {n}
    BY <2>1, <2>7, <2>19 DEF InUse
  <2>21. Moves(h, h3)
    BY <1>1, <2>7, <2>18, MovesTwice DEF Good
  <2>22. \A x \in InUse(h3) : SizeOf(h3, x) = SizeOf(h, x)
    BY <2>18, <2>19 DEF InUse
  <2>23. QED
    BY <2>17, <2>18, <2>20, <2>21, <2>22 DEF Freed
<1>6. CASE ~fuses
  <2>1. h1 = h /\ n1 = n
    BY <1>6
  <2>2. h2 = IF Fuses(h, n, right) THEN FreeFuse(h, n, right, right) ELSE h
    BY <2>1
  <2>3. ASSUME NEW j \in Spots(h), j = i - 1 PROVE ~InFree(h, h.list[j])
    <3>1. i > 1
      BY <1>1, <1>4, <2>3 DEF Spots
    <3>2. left = h.list[j]
      BY <2>3, <3>1
    <3>3. left # 0
      BY <1>1, <2>3, <3>2, ListFacts DEF Ids
    <3>4. QED
      BY <1>6, <3>2, <3>3 DEF Fuses
  <2>4. Freed(InsertFree(h2, h.list[i]), h, h.list[i])
    <3>1. right = IF i < Len(h.list) THEN h.list[i + 1] ELSE 0
      OBVIOUS
    <3> HIDE DEF right, h1, h2, n1, left, fuses
    <3>2. h2 = IF Fuses(h, h.list[i], right) THEN FreeFuse(h, h.list[i], right, right) ELSE h
      BY <1>4, <2>2
    <3>3. ~InFree(h, h.list[i])
      BY <1>2, <1>4
    <3>4. QED
      BY <1>4, <2>3, <3>1, <3>2, <3>3, RightFreed
  <2>5. FreeNode(h, n) = InsertFree(h2, n)
    BY <1>3, <2>1
  <2>6. QED
    BY <1>4, <2>4, <2>5
<1>7. QED
  BY <1>5, <1>6

-----------------------------------------------------------------------------
(* The chunks through the steps.                                            *)

\* The pairs of the next chunk and those that are live.
Meets(cs, lv) == {{Len(cs) + 1, e} : e \in lv}

\* A new chunk of node m, and the chunks it lives together with.
LEMMA AllocPlanned ==
  ASSUME NEW h, Good(h), NEW h2, NEW m, NEW size \in Nat, Gave(h2, h, m, size),
         NEW cs \in Seq(Chunk), NEW request \in Nat, request <= size, NEW lv,
         NEW pairs \in PairsOf(cs),
         Planned(h, cs, pairs), Held(h, cs, lv)
  PROVE  LET cs2 == Append(cs, [node |-> m, size |-> request]) IN
         /\ cs2 \in Seq(Chunk) /\ Len(cs2) = Len(cs) + 1
         /\ pairs \cup Meets(cs, lv) \in PairsOf(cs2)
         /\ Planned(h2, cs2, pairs \cup Meets(cs, lv))
         /\ Held(h2, cs2, lv \cup {Len(cs) + 1})
<1> DEFINE L == Len(cs)
<1> DEFINE c2 == L + 1
<1> DEFINE e2 == [node |-> m, size |-> request]
<1> DEFINE cs2 == Append(cs, e2)
<1> DEFINE pairs2 == pairs \cup {{c2, e} : e \in lv}
<1>1. /\ h \in HeapSet /\ h2 \in HeapSet /\ Laid(h2) /\ Moves(h, h2)
      /\ m \notin InUse(h) /\ InUse(h2) = InUse(h) \cup {m} /\ m \in InUse(h2)
      /\ SizeOf(h2, m) = size /\ \A x \in InUse(h) : SizeOf(h2, x) = SizeOf(h, x)
  BY DEF Gave, Good
<1>2. m \in Ids(h2) /\ m \in Nat /\ L \in Nat /\ c2 \notin 1 .. L
  BY <1>1 DEF InUse, Ids
<1>3. e2 \in Chunk /\ e2.node = m /\ e2.size = request
  BY <1>2 DEF Chunk
<1> HIDE DEF e2
<1>4. cs2 \in Seq(Chunk) /\ Len(cs2) = c2 /\ cs2[c2] = e2 /\ \A c \in 1 .. L : cs2[c] = cs[c]
  BY <1>3, AppendProperties
<1> HIDE DEF cs2
<1>5. lv \subseteq 1 .. L /\ {cs[c].node : c \in lv} = InUse(h)
  BY DEF Held
<1>6. 1 .. c2 = 1 .. L \cup {c2}
  BY <1>2
<1>20. pairs2 = pairs \cup Meets(cs, lv)
  BY DEF Meets
<1> HIDE DEF L, c2
<1>7. pairs2 \in PairsOf(cs2)
  <2>1. ASSUME NEW s \in pairs2, NEW x \in s PROVE x \in 1 .. c2
    <3>1. CASE s \in pairs
      <4>1. x \in 1 .. L
        BY <2>1, <3>1 DEF L, PairsOf
      <4>2. QED
        BY <1>6, <4>1
    <3>2. CASE s \in {{c2, e} : e \in lv}
      BY <1>5, <1>6, <2>1, <3>2
    <3>3. QED
      BY <2>1, <3>1, <3>2
  <2> HIDE DEF pairs2
  <2>2. QED
    BY <1>4, <2>1 DEF PairsOf
<1>8. PICK o, p, d : Layout(h, o, p, d) /\ Placed(cs, pairs, h, o, p)
  BY DEF Planned
<1>9. PICK o2, p2, d2 : Layout(h2, o2, p2, d2) /\ Spreads(h, o, p, h2, o2, p2)
  BY <1>1, <1>8 DEF Moves
<1>10. Placed(cs, pairs, h2, o2, p2)
  BY <1>1, <1>8, <1>9, PlacedKept
<1>11. ASSUME NEW x \in InUse(h2)
       PROVE  /\ x \in Ids(h2) /\ o2[x] \in Spots(h2) /\ h2.list[o2[x]] = x
              /\ p2[x] \in Nat /\ SizeOf(h2, x) \in Nat
  <2>1. x \in Ids(h2) /\ IntoOf(h2, x) = 0
    BY DEF InUse
  <2>2. h2.list[o2[x]] = x
    BY <1>9, <2>1 DEF Layout
  <2>3. QED
    BY <1>1, <1>9, <2>1, <2>2, LayoutFacts
<1>12. ASSUME NEW x \in InUse(h2), NEW y \in InUse(h2), o2[x] < o2[y]
       PROVE  p2[x] + SizeOf(h2, x) <= p2[y]
  BY <1>9, <1>11, <1>12, SMTT(30) DEF Layout
<1>13. p2[m] + SizeOf(h2, m) <= End(h2, p2)
  <2> DEFINE k == Len(h2.list)
  <2>1. k \in Spots(h2) /\ o2[m] \in Spots(h2) /\ h2.list[o2[m]] = m /\ k \in Nat
    BY <1>1, <1>2, <1>9, <1>11, LayoutFacts
  <2>2. o2[m] = k \/ o2[m] < k
    BY <2>1 DEF Spots
  <2>3. End(h2, p2) = p2[h2.list[k]] + SizeOf(h2, h2.list[k])
    BY DEF End
  <2>4. h2.list[k] \in Ids(h2)
    BY <1>9, <2>1 DEF Layout
  <2> HIDE DEF k
  <2>5. p2[h2.list[k]] \in Nat /\ SizeOf(h2, h2.list[k]) \in Nat /\ p2[m] \in Nat /\ SizeOf(h2, m) \in Nat
    BY <1>1, <1>9, <1>11, <2>4, LayoutFacts
  <2>6. CASE o2[m] = k
    BY <2>1, <2>3, <2>5, <2>6
  <2>7. CASE o2[m] < k
    <3>1. p2[h2.list[o2[m]]] + SizeOf(h2, h2.list[o2[m]]) <= p2[h2.list[k]]
      BY <1>9, <2>1, <2>7 DEF Layout
    <3>2. QED
      BY <2>1, <2>3, <2>5, <3>1
  <2>8. QED
    BY <2>2, <2>6, <2>7
<1>14. ASSUME NEW c \in 1 .. c2
       PROVE  cs2[c].node \in Ids(h2) /\ p2[cs2[c].node] + cs2[c].size <= End(h2, p2)
  <2>1. CASE c \in 1 .. L
    BY <1>4, <1>10, <2>1 DEF Placed, L
  <2>2. CASE c = c2
    <3>1. p2[m] \in Nat /\ End(h2, p2) \in Nat
      BY <1>1, <1>2, <1>9, LayoutFacts
    <3>2. p2[m] + request <= End(h2, p2)
      BY <1>1, <1>13, <3>1
    <3>3. QED
      BY <1>2, <1>3, <1>4, <2>2, <3>2
  <2>3. QED
    BY <1>6, <2>1, <2>2
<1>15. ASSUME NEW e \in lv
       PROVE  Before(cs2[c2], cs2[e], o2, p2) \/ Before(cs2[e], cs2[c2], o2, p2)
  <2> DEFINE x == cs[e].node
  <2>1. e \in 1 .. L /\ x \in InUse(h) /\ cs2[e] = cs[e] /\ cs[e].size <= SizeOf(h, x) /\ cs[e].size \in Nat
    <3>1. cs[e] \in Chunk
      BY <1>5, <1>15 DEF L
    <3>2. QED
      BY <1>4, <1>5, <1>15, <3>1 DEF Held, Chunk
  <2>2. x \in InUse(h2) /\ x # m /\ SizeOf(h2, x) = SizeOf(h, x)
    BY <1>1, <2>1
  <2> HIDE DEF x
  <2>3. /\ o2[x] \in Spots(h2) /\ h2.list[o2[x]] = x /\ o2[m] \in Spots(h2) /\ h2.list[o2[m]] = m
        /\ p2[x] \in Nat /\ p2[m] \in Nat /\ SizeOf(h2, x) \in Nat /\ SizeOf(h2, m) \in Nat
    BY <1>1, <1>11, <2>2
  <2>4. o2[x] < o2[m] \/ o2[m] < o2[x]
    BY <2>2, <2>3 DEF Spots
  <2>8. cs2[e].node = x /\ cs2[e].size = cs[e].size /\ cs2[c2].node = m /\ cs2[c2].size = request
    BY <1>3, <1>4, <2>1 DEF x
  <2>5. CASE o2[x] < o2[m]
    <3>1. p2[x] + SizeOf(h2, x) <= p2[m]
      BY <1>1, <1>12, <2>2, <2>5
    <3>4. o2[x] \in Int /\ o2[m] \in Int /\ cs[e].size \in Nat /\ cs[e].size <= SizeOf(h2, x)
      BY <2>1, <2>2, <2>3 DEF Spots, x
    <3>5. p2[x] \in Nat /\ p2[m] \in Nat /\ SizeOf(h2, x) \in Nat
      BY <2>3
    <3>2. p2[x] + cs[e].size <= p2[m]
      BY <3>1, <3>4, <3>5
    <3>6. o2[x] <= o2[m]
      BY <2>5, <3>4
    <3>3. QED
      BY <2>8, <3>2, <3>6 DEF Before
  <2>6. CASE o2[m] < o2[x]
    <3>1. p2[m] + SizeOf(h2, m) <= p2[x]
      BY <1>1, <1>12, <2>2, <2>6
    <3>2. p2[m] + request <= p2[x] /\ o2[m] <= o2[x]
      <4>1. request \in Nat /\ request <= SizeOf(h2, m)
        BY <1>1
      <4>2. o2[x] \in Int /\ o2[m] \in Int
        BY <2>3 DEF Spots
      <4>3. p2[x] \in Nat /\ p2[m] \in Nat /\ SizeOf(h2, m) \in Nat
        BY <2>3
      <4>4. QED
        BY <2>6, <3>1, <4>1, <4>2, <4>3
    <3>3. QED
      BY <2>8, <3>2 DEF Before
  <2>7. QED
    BY <2>4, <2>5, <2>6
<1>16. ASSUME NEW c \in 1 .. c2, NEW e \in 1 .. c2, {c, e} \in pairs2, c # e
       PROVE  Before(cs2[c], cs2[e], o2, p2) \/ Before(cs2[e], cs2[c], o2, p2)
  <2>1. CASE {c, e} \in pairs
    <3>1. c \in 1 .. L /\ e \in 1 .. L
      BY <2>1 DEF L, PairsOf
    <3>2. QED
      BY <1>4, <1>10, <1>16, <2>1, <3>1 DEF Placed, L
  <2>2. CASE \E y \in lv : {c, e} = {c2, y}
    <3>1. PICK y \in lv : {c, e} = {c2, y}
      BY <2>2
    <3>2. (c = c2 /\ e = y) \/ (e = c2 /\ c = y)
      BY <1>16, <3>1
    <3>3. QED
      BY <1>15, <3>2
  <2>3. QED
    BY <1>16, <2>1, <2>2
<1>17. Planned(h2, cs2, pairs2)
  <2>1. Placed(cs2, pairs2, h2, o2, p2)
    <3> HIDE DEF pairs2
    <3>1. QED
      BY <1>4, <1>14, <1>16 DEF Placed
  <2>2. QED
    BY <1>9, <2>1 DEF Planned
<1>18. Held(h2, cs2, lv \cup {c2})
  <2>1. lv \cup {c2} \subseteq 1 .. Len(cs2)
    BY <1>4, <1>5, <1>6
  <2>2. \A c \in lv : cs2[c] = cs[c] /\ cs[c].node \in InUse(h) /\ cs[c].node # m
    BY <1>1, <1>4, <1>5
  <2>3. {cs2[c].node : c \in lv \cup {c2}} = InUse(h2)
    <3>1. \A c \in lv \cup {c2} : cs2[c].node \in InUse(h2)
      BY <1>1, <1>3, <1>4, <2>2
    <3>2. ASSUME NEW x \in InUse(h2) PROVE \E c \in lv \cup {c2} : x = cs2[c].node
      <4>1. CASE x = m
        BY <1>3, <1>4, <4>1
      <4>2. CASE x # m
        <5>1. PICK c \in lv : x = cs[c].node
          BY <1>1, <1>5, <4>2
        <5>2. QED
          BY <2>2, <5>1
      <4>3. QED
        BY <4>1, <4>2
    <3>3. QED
      BY <3>1, <3>2
  <2>4. \A c, e \in lv \cup {c2} : cs2[c].node = cs2[e].node => c = e
    BY <1>3, <1>4, <2>2 DEF Held
  <2>5. \A c \in lv \cup {c2} : cs2[c].size <= SizeOf(h2, cs2[c].node)
    BY <1>1, <1>3, <1>4, <2>2 DEF Held
  <2>6. QED
    BY <2>1, <2>3, <2>4, <2>5 DEF Held
<1>19. QED
  <2> HIDE DEF pairs2
  <2>1. QED
    BY <1>4, <1>7, <1>17, <1>18, <1>20 DEF L, c2, cs2, e2

\* A chunk is given back.
LEMMA FreePlanned ==
  ASSUME NEW h, Good(h), NEW cs \in Seq(Chunk), NEW pairs, NEW lv,
         Planned(h, cs, pairs), Held(h, cs, lv), NEW c \in lv
  PROVE  LET h2 == FreeNode(h, cs[c].node) IN
         Good(h2) /\ Planned(h2, cs, pairs) /\ Held(h2, cs, lv \ {c})
<1> DEFINE n == cs[c].node
<1> DEFINE h2 == FreeNode(h, n)
<1>1. n \in InUse(h)
  BY DEF Held
<1> HIDE DEF n
<1>2. Freed(h2, h, n)
  BY <1>1, FreeNodeFreed
<1> HIDE DEF h2
<1>3. /\ Good(h2) /\ Moves(h, h2) /\ InUse(h2) = InUse(h) \ {n}
      /\ \A x \in InUse(h2) : SizeOf(h2, x) = SizeOf(h, x)
  BY <1>2 DEF Freed
<1>4. Planned(h2, cs, pairs)
  <2>1. PICK o, p, d : Layout(h, o, p, d) /\ Placed(cs, pairs, h, o, p)
    BY DEF Planned
  <2>2. PICK o2, p2, d2 : Layout(h2, o2, p2, d2) /\ Spreads(h, o, p, h2, o2, p2)
    BY <1>3, <2>1 DEF Moves
  <2>3. h \in HeapSet /\ h2 \in HeapSet
    BY <1>3 DEF Good
  <2>4. Placed(cs, pairs, h2, o2, p2)
    BY <2>1, <2>2, <2>3, PlacedKept
  <2>5. QED
    BY <2>2, <2>4 DEF Planned
<1>5. Held(h2, cs, lv \ {c})
  <2>1. \A e \in lv \ {c} : cs[e].node # n /\ cs[e].node \in InUse(h)
    BY DEF Held, n
  <2>2. {cs[e].node : e \in lv \ {c}} = InUse(h2)
    BY <1>3, <2>1 DEF Held, n
  <2>3. QED
    BY <1>3, <2>1, <2>2 DEF Held
<1>6. QED
  BY <1>3, <1>4, <1>5 DEF h2, n

-----------------------------------------------------------------------------
(* The steps keep the invariant.                                            *)

\* The heap of a new plan.
LEMMA EmptyHeap ==
  ASSUME NEW h, h = [nodes |-> <<>>, list |-> <<>>, free |-> <<>>]
  PROVE  Good(h) /\ Planned(h, <<>>, {}) /\ Held(h, <<>>, {})
<1>1. h \in HeapSet /\ Len(h.nodes) = 0 /\ Len(h.list) = 0 /\ Len(h.free) = 0
  BY DEF HeapSet
<1>2. Ids(h) = {} /\ Spots(h) = {}
  BY <1>1 DEF Ids, Spots
<1> DEFINE none == [x \in {} |-> 0]
<1>3. Layout(h, none, none, none)
  <2>1. none \in [Ids(h) -> Spots(h)] /\ none \in [Ids(h) -> Units] /\ none \in [Ids(h) -> Nat]
    BY <1>2
  <2> HIDE DEF none
  <2>2. QED
    BY <1>2, <2>1 DEF Layout
<1> HIDE DEF none
<1>4. Placed(<<>>, {}, h, none, none)
  BY DEF Placed
<1>5. FreeInv(h) /\ Fused(h)
  BY <1>1, <1>2 DEF FreeInv, Fused
<1>6. Held(h, <<>>, {})
  BY <1>2 DEF Held, InUse
<1>7. QED
  BY <1>1, <1>3, <1>4, <1>5, <1>6 DEF Good, Laid, Planned

\* The invariant holds before any call, and each action keeps it.
LEMMA InitIInv == Init => IInv
<1>1. SUFFICES ASSUME Init PROVE IInv
  OBVIOUS
<1>2. Good(heap) /\ Planned(heap, <<>>, {}) /\ Held(heap, <<>>, {})
  BY <1>1, EmptyHeap DEF Init
<1>3. chunks = <<>> /\ together = {} /\ live = {} /\ pending = <<>> /\ code = "none" /\ mBarrrier = FALSE /\ mTotalSize = 0
  BY <1>1 DEF Init
<1>4. PlanInv
  BY <1>2, <1>3 DEF PlanInv, PairsOf
<1>5. CallInv
  <2>1. pending \in Seq(Nat) /\ Len(pending) = 0
    BY <1>3
  <2>2. \A i \in 1 .. Len(pending) : FALSE
    BY <2>1
  <2>3. mBarrrier \in BOOLEAN /\ code \in {"none", "NO_ERROR"} /\ mTotalSize \in Nat /\ code = "none"
    BY <1>3
  <2>4. QED
    BY <2>1, <2>2, <2>3 DEF CallInv
<1>6. QED
  BY <1>2, <1>4, <1>5 DEF IInv

LEMMA AllocStep ==
  ASSUME IInv, NEW request \in Sizes, NEW separate \in BOOLEAN, Alloc(request, separate)
  PROVE  IInv'
<1> DEFINE size == RoundUp(request)
<1> DEFINE tail == heap.free = <<>> \/ separate
<1> DEFINE m == IF tail THEN Len(heap.nodes) + 1 ELSE heap.free[BestFit(heap, size)]
<1> DEFINE c == Len(chunks) + 1
<1>1. /\ code = "none"
      /\ heap' = IF tail THEN AllocTail(heap, size) ELSE AllocFit(heap, size)
      /\ chunks' = Append(chunks, [node |-> m, size |-> request])
      /\ live' = live \cup {c}
      /\ together' = together \cup {{c, e} : e \in live}
      /\ UNCHANGED <<mBarrrier, pending, mTotalSize, code>>
  BY DEF Alloc
<1>2. /\ Good(heap) /\ chunks \in Seq(Chunk) /\ together \in PairsOf(chunks)
      /\ Planned(heap, chunks, together) /\ Held(heap, chunks, live)
  BY DEF IInv, PlanInv
<1>3. request \in Nat
  BY DeferAssumption
<1>10. CallInv
  BY DEF IInv
<1>4. size \in Units /\ request <= size /\ size \in Nat
  BY <1>3, RoundUpFacts DEF Units
<1> HIDE DEF size
<1>5. Gave(heap', heap, m, size)
  <2>1. CASE tail
    BY <1>1, <1>2, <1>4, <2>1, AllocTailGave
  <2>2. CASE ~tail
    BY <1>1, <1>2, <1>4, <2>2, AllocFitGave
  <2>3. QED
    BY <2>1, <2>2
<1> HIDE DEF m, tail
<1>6. /\ chunks' \in Seq(Chunk) /\ Len(chunks') = Len(chunks) + 1
      /\ together' \in PairsOf(chunks')
      /\ Planned(heap', chunks', together') /\ Held(heap', chunks', live')
  <2> DEFINE pairs2 == together \cup Meets(chunks, live)
  <2> DEFINE lv2 == live \cup {Len(chunks) + 1}
  <2>1. chunks' = Append(chunks, [node |-> m, size |-> request])
    BY <1>1
  <2> DEFINE cs2 == Append(chunks, [node |-> m, size |-> request])
  <2>2. /\ cs2 \in Seq(Chunk) /\ Len(cs2) = Len(chunks) + 1
        /\ pairs2 \in PairsOf(cs2)
        /\ Planned(heap', cs2, pairs2) /\ Held(heap', cs2, lv2)
    BY <1>2, <1>3, <1>4, <1>5, AllocPlanned
  <2> HIDE DEF cs2
  <2>5. chunks' = cs2
    BY <2>1 DEF cs2
  <2>3. together' = pairs2 /\ live' = lv2
    BY <1>1 DEF Meets
  <2>4. QED
    BY <2>2, <2>3, <2>5
<1>7. Good(heap')
  BY <1>5 DEF Gave
<1>8. CallInv'
  BY <1>1, <1>10 DEF CallInv
<1>9. QED
  BY <1>6, <1>7, <1>8 DEF IInv, PlanInv

LEMMA FreeStep ==
  ASSUME IInv, pending = <<>>, NEW c \in live, Free(c)
  PROVE  IInv'
<1>1. /\ code = "none" /\ heap' = FreeNode(heap, chunks[c].node) /\ live' = live \ {c}
      /\ UNCHANGED <<mBarrrier, pending, mTotalSize, code, chunks, together>>
  BY DEF Free
<1>2. /\ Good(heap) /\ chunks \in Seq(Chunk) /\ together \in PairsOf(chunks)
      /\ Planned(heap, chunks, together) /\ Held(heap, chunks, live)
  BY DEF IInv, PlanInv
<1>3. Good(heap') /\ Planned(heap', chunks, together) /\ Held(heap', chunks, live')
  BY <1>1, <1>2, FreePlanned
<1>4. PlanInv'
  BY <1>1, <1>2, <1>3 DEF PlanInv
<1>5. CallInv'
  BY <1>1 DEF IInv, CallInv
<1>6. QED
  BY <1>3, <1>4, <1>5 DEF IInv

LEMMA FreeNextStep ==
  ASSUME IInv, FreeNext
  PROVE  IInv'
<1> DEFINE c == Head(pending)
<1> DEFINE t == Tail(pending)
<1>1. /\ pending # <<>> /\ heap' = FreeNode(heap, chunks[c].node) /\ live' = live \ {c} /\ pending' = t
      /\ UNCHANGED <<mBarrrier, mTotalSize, code, chunks, together>>
  BY DEF FreeNext
<1>2. /\ Good(heap) /\ chunks \in Seq(Chunk) /\ together \in PairsOf(chunks)
      /\ Planned(heap, chunks, together) /\ Held(heap, chunks, live)
  BY DEF IInv, PlanInv
<1>3. /\ mBarrrier \in BOOLEAN /\ code \in {"none", "NO_ERROR"} /\ mTotalSize \in Nat
      /\ pending \in Seq(Nat)
      /\ \A i \in 1 .. Len(pending) : pending[i] \in live
      /\ \A i, j \in 1 .. Len(pending) : i < j => pending[i] # pending[j]
      /\ code # "none" => live = {}
  BY DEF IInv, CallInv
<1>4. Len(pending) \in Nat \ {0} /\ 1 \in 1 .. Len(pending) /\ c = pending[1]
  BY <1>1, <1>3, EmptySeq, HeadTailProperties
<1>5. /\ t \in Seq(Nat) /\ Len(t) = Len(pending) - 1
      /\ \A i \in 1 .. Len(t) : i + 1 \in 1 .. Len(pending) /\ t[i] = pending[i + 1]
  <2>1. t \in Seq(Nat) /\ Len(t) = Len(pending) - 1 /\ \A i \in 1 .. Len(t) : t[i] = pending[i + 1]
    BY <1>1, <1>3, HeadTailProperties
  <2>2. QED
    BY <1>4, <2>1
<1> HIDE DEF c, t
<1>6. c \in live /\ code = "none"
  BY <1>3, <1>4
<1>7. Good(heap') /\ Planned(heap', chunks, together) /\ Held(heap', chunks, live')
  BY <1>1, <1>2, <1>6, FreePlanned
<1>8. PlanInv'
  BY <1>1, <1>2, <1>7 DEF PlanInv
<1>9. ASSUME NEW i \in 1 .. Len(t) PROVE t[i] \in live'
  <2>1. pending[i + 1] \in live /\ 1 < i + 1
    BY <1>3, <1>5
  <2>2. pending[i + 1] # c
    BY <1>3, <1>4, <1>5, <2>1
  <2>3. QED
    BY <1>1, <1>5, <2>1, <2>2
<1>10. ASSUME NEW i \in 1 .. Len(t), NEW j \in 1 .. Len(t), i < j PROVE t[i] # t[j]
  <2>1. i + 1 < j + 1
    BY <1>10
  <2>2. QED
    BY <1>3, <1>5, <2>1
<1>11. CallInv'
  BY <1>1, <1>3, <1>5, <1>6, <1>9, <1>10 DEF CallInv
<1>12. QED
  BY <1>7, <1>8, <1>11 DEF IInv

LEMMA FreeLaterStep ==
  ASSUME IInv, NEW c \in live, FreeLater(c)
  PROVE  IInv'
<1>1. /\ mBarrrier /\ pending' = Append(pending, c) /\ \A i \in 1 .. Len(pending) : pending[i] # c
      /\ UNCHANGED <<heap, mBarrrier, mTotalSize, code, chunks, live, together>>
  BY DEF FreeLater
<1>2. /\ mBarrrier \in BOOLEAN /\ code \in {"none", "NO_ERROR"} /\ mTotalSize \in Nat
      /\ pending \in Seq(Nat) /\ Len(pending) \in Nat
      /\ \A i \in 1 .. Len(pending) : pending[i] \in live
      /\ \A i, j \in 1 .. Len(pending) : i < j => pending[i] # pending[j]
      /\ code # "none" => ~mBarrrier
  BY DEF IInv, CallInv
<1>3. c \in Nat
  BY DEF IInv, PlanInv, Held
<1>4. /\ pending' \in Seq(Nat) /\ Len(pending') = Len(pending) + 1 /\ pending'[Len(pending) + 1] = c
      /\ \A i \in 1 .. Len(pending) : pending'[i] = pending[i]
  BY <1>1, <1>2, <1>3, AppendProperties
<1>5. \A i \in 1 .. Len(pending') : i \in 1 .. Len(pending) \/ i = Len(pending) + 1
  BY <1>2, <1>4
<1>6. \A i \in 1 .. Len(pending') : pending'[i] \in live
  BY <1>2, <1>4, <1>5
<1>7. ASSUME NEW i \in 1 .. Len(pending'), NEW j \in 1 .. Len(pending'), i < j
      PROVE  pending'[i] # pending'[j]
  <2>1. i \in 1 .. Len(pending)
    BY <1>2, <1>4, <1>7
  <2>2. QED
    BY <1>1, <1>2, <1>4, <1>5, <1>7, <2>1
<1>8. CallInv'
  BY <1>1, <1>2, <1>4, <1>6, <1>7 DEF CallInv
<1>9. QED
  BY <1>1, <1>8 DEF IInv, PlanInv

\* When everything is free, one node is left, or none.
LEMMA OneNode ==
  ASSUME NEW h, Good(h), InUse(h) = {}
  PROVE  /\ h.free = <<>> => Len(h.list) = 0
         /\ h.free # <<>> => Len(h.free) = 1 /\ Len(h.list) = 1
<1> DEFINE L == Len(h.list)
<1> DEFINE F == Len(h.free)
<1>1. /\ h \in HeapSet /\ Laid(h) /\ FreeInv(h) /\ Fused(h) /\ L \in Nat /\ F \in Nat
      /\ Spots(h) = 1 .. L /\ h.free \in Seq(Nat)
  BY HeapFacts DEF Good, Spots
<1>2. \A i \in 1 .. L : InFree(h, h.list[i])
  BY <1>1, ListFacts DEF InUse
<1>3. \A j \in 1 .. F : \E i \in 1 .. L : h.free[j] = h.list[i]
  BY <1>1, ListFacts DEF FreeInv
<1>4. h.free = <<>> <=> F = 0
  BY <1>1, EmptySeq
<1> HIDE DEF L, F
<1>5. L < 2
  <2>1. SUFFICES ASSUME L >= 2 PROVE FALSE
    BY <1>1
  <2>2. 1 \in 1 .. L /\ 2 \in 1 .. L /\ 2 = 1 + 1
    BY <1>1, <2>1
  <2>3. QED
    BY <1>1, <1>2, <2>2 DEF Fused
<1>6. F < 2
  <2>1. SUFFICES ASSUME F >= 2 PROVE FALSE
    BY <1>1
  <2>2. 1 \in 1 .. F /\ 2 \in 1 .. F /\ 1 < 2
    BY <1>1, <2>1
  <2>3. h.free[1] # h.free[2]
    BY <1>1, <2>2 DEF FreeInv, F
  <2>4. PICK a \in 1 .. L : h.free[1] = h.list[a]
    BY <1>3, <2>2
  <2>5. PICK b \in 1 .. L : h.free[2] = h.list[b]
    BY <1>3, <2>2
  <2>6. a = b
    BY <1>1, <1>5
  <2>7. QED
    BY <2>3, <2>4, <2>5, <2>6
<1>7. ASSUME F = 0 PROVE L = 0
  <2>1. SUFFICES ASSUME L # 0 PROVE FALSE
    OBVIOUS
  <2>2. 1 \in 1 .. L
    BY <1>1, <2>1
  <2>3. PICK j \in 1 .. Len(h.free) : h.free[j] = h.list[1]
    BY <1>2, <2>2 DEF InFree
  <2>4. QED
    BY <1>7, <2>3 DEF F
<1>8. ASSUME F # 0 PROVE F = 1 /\ L = 1
  <2>1. F = 1 /\ 1 \in 1 .. F
    BY <1>1, <1>6, <1>8
  <2>2. PICK i \in 1 .. L : h.free[1] = h.list[i]
    BY <1>3, <2>1
  <2>3. QED
    BY <1>1, <1>5, <2>1, <2>2
<1>9. QED
  BY <1>4, <1>7, <1>8 DEF L, F

LEMMA ComputeStep ==
  ASSUME IInv, Compute
  PROVE  IInv'
<1>1. /\ live = {} /\ ~mBarrrier /\ code = "none"
      /\ UNCHANGED <<heap, mBarrrier, pending, chunks, live, together>>
      /\ IF heap.free = <<>>
           THEN code' = "NO_ERROR" /\ UNCHANGED mTotalSize
           ELSE IF Len(heap.free) # 1 \/ Len(heap.list) # 1
           THEN code' = "INVALID_VALUE" /\ UNCHANGED mTotalSize
           ELSE code' = "NO_ERROR" /\ mTotalSize' = SizeOf(heap, heap.list[1])
  BY DEF Compute
<1>2. Good(heap) /\ InUse(heap) = {} /\ PlanInv /\ CallInv
  BY <1>1 DEF IInv, PlanInv, Held
<1>3. /\ heap.free = <<>> => Len(heap.list) = 0
      /\ heap.free # <<>> => Len(heap.free) = 1 /\ Len(heap.list) = 1
  BY <1>2, OneNode
<1>4. code' = "NO_ERROR" /\ mTotalSize' \in Nat /\ Whole(heap, mTotalSize')
  <2>1. CASE heap.free = <<>>
    <3>1. Spots(heap) = {}
      BY <1>3, <2>1 DEF Spots
    <3>2. mTotalSize \in Nat
      BY <1>2 DEF CallInv
    <3>3. QED
      BY <1>1, <2>1, <3>1, <3>2 DEF Whole
  <2>2. CASE heap.free # <<>>
    <3>1. Len(heap.list) = 1 /\ code' = "NO_ERROR" /\ mTotalSize' = SizeOf(heap, heap.list[1])
      BY <1>1, <1>3, <2>2
    <3>2. \A i \in Spots(heap) : i = 1
      BY <3>1 DEF Spots
    <3>3. 1 \in Spots(heap)
      BY <3>1 DEF Spots
    <3>4. heap \in HeapSet /\ heap.list[1] \in Ids(heap)
      BY <1>2, <3>3, ListFacts DEF Good
    <3>5. SizeOf(heap, heap.list[1]) \in Nat
      BY <3>4, HeapFacts
    <3>6. QED
      BY <3>1, <3>2, <3>5 DEF Whole
  <2>3. QED
    BY <2>1, <2>2
<1>5. CallInv'
  <2>1. /\ mBarrrier' \in BOOLEAN /\ code' \in {"none", "NO_ERROR"} /\ mTotalSize' \in Nat
        /\ heap' = heap /\ pending' = pending /\ live' = live /\ mBarrrier' = mBarrrier
    BY <1>1, <1>2, <1>4 DEF CallInv
  <2>2. /\ pending \in Seq(Nat)
        /\ \A i \in 1 .. Len(pending) : pending[i] \in live
        /\ \A i, j \in 1 .. Len(pending) : i < j => pending[i] # pending[j]
    BY <1>2 DEF CallInv
  <2>3. QED
    BY <1>1, <1>4, <2>1, <2>2 DEF CallInv
<1>6. QED
  BY <1>1, <1>2, <1>5 DEF IInv, PlanInv

LEMMA ResetStep ==
  ASSUME IInv, Reset
  PROVE  IInv'
<1>1. Good(heap') /\ Planned(heap', <<>>, {}) /\ Held(heap', <<>>, {})
  BY EmptyHeap DEF Reset
<1>2. /\ chunks' = <<>> /\ together' = {} /\ live' = {} /\ pending' = <<>>
      /\ code' = "none" /\ mBarrrier' = FALSE /\ mTotalSize' = 0
  BY DEF Reset
<1>3. PlanInv'
  BY <1>1, <1>2 DEF PlanInv, PairsOf
<1>4. CallInv'
  <2>1. pending' \in Seq(Nat) /\ Len(pending') = 0
    BY <1>2
  <2>2. \A i \in 1 .. Len(pending') : FALSE
    BY <2>1
  <2>3. mBarrrier' \in BOOLEAN /\ code' \in {"none", "NO_ERROR"} /\ mTotalSize' \in Nat /\ code' = "none"
    BY <1>2
  <2>4. QED
    BY <2>1, <2>2, <2>3 DEF CallInv
<1>5. QED
  BY <1>1, <1>3, <1>4 DEF IInv

\* barrierBegin and barrierEnd change nothing but the flag.
LEMMA BarrierStep ==
  ASSUME IInv, BarrierBegin \/ BarrierEnd
  PROVE  IInv'
<1>1. /\ UNCHANGED <<heap, pending, mTotalSize, code, chunks, live, together>>
      /\ mBarrrier' \in BOOLEAN /\ (mBarrrier' => mBarrrier \/ code = "none")
  BY DEF BarrierBegin, BarrierEnd
<1>2. CallInv /\ Good(heap) /\ PlanInv
  BY DEF IInv
<1>3. CallInv'
  BY <1>1, <1>2 DEF CallInv
<1>4. QED
  BY <1>1, <1>2, <1>3 DEF IInv, PlanInv

\* The heap can be laid out with every chunk in a place of its own, whatever is
\* allocated, freed and put off: alloc, free, fuse_to_left and insert_after keep
\* the nodes in an order in which distances only grow.
THEOREM Invariance == Spec => []IInv
<1>1. Init => IInv
  BY InitIInv
<1>2. IInv /\ [Next]_vars => IInv'
  <2>1. SUFFICES ASSUME IInv, [Next]_vars PROVE IInv'
    OBVIOUS
  <2>2. CASE FreeNext
    BY <2>1, <2>2, FreeNextStep
  <2>3. CASE mBarrrier \/ pending = <<>>
    <3>1. ASSUME NEW size \in Sizes, NEW separate \in BOOLEAN, Alloc(size, separate) PROVE IInv'
      BY <2>1, <3>1, AllocStep
    <3>2. ASSUME NEW c \in live, Free(c) PROVE IInv'
      <4>1. pending = <<>>
        BY <2>3, <3>2 DEF Free
      <4>2. QED
        BY <2>1, <3>2, <4>1, FreeStep
    <3>3. ASSUME NEW c \in live, FreeLater(c) PROVE IInv'
      BY <2>1, <3>3, FreeLaterStep
    <3>4. CASE BarrierBegin \/ BarrierEnd
      BY <2>1, <3>4, BarrierStep
    <3>5. CASE Compute
      BY <2>1, <3>5, ComputeStep
    <3>6. CASE Reset
      BY <2>1, <3>6, ResetStep
    <3>7. CASE UNCHANGED vars
      BY <2>1, <3>7 DEF vars, IInv, PlanInv, CallInv
    <3>8. CASE FreeNext
      BY <2>2, <3>8
    <3>9. QED
      BY <2>1, <3>1, <3>2, <3>3, <3>4, <3>5, <3>6, <3>7, <3>8 DEF Next
  <2>4. CASE UNCHANGED vars
    BY <2>1, <2>4 DEF vars, IInv, PlanInv, CallInv
  <2>5. QED
    BY <2>1, <2>2, <2>3, <2>4 DEF Next
<1>3. QED
  BY <1>1, <1>2, PTL DEF Spec

-----------------------------------------------------------------------------
(* What the invariant says of the plan.                                     *)

\* The list holds exactly the nodes that are part of no other, and no size or
\* offset of the nodes that alloc, free and compute work on is negative.
THEOREM Typed == Spec => []TypeOK
<1>1. ASSUME IInv PROVE TypeOK
  <2>1. heap \in HeapSet /\ Laid(heap) /\ FreeInv(heap)
    BY <1>1 DEF IInv, Good
  <2>2. \A i \in 1 .. Len(heap.nodes) : heap.nodes[i] \in [size : Nat, offset : Nat, into : Nat]
    BY <2>1, HeapFacts DEF Ids, MemNode
  <2>3. \A i \in 1 .. Len(heap.list) : heap.list[i] \in 1 .. Len(heap.nodes)
    BY <2>1, ListFacts DEF Ids, Spots
  <2>4. \A i \in 1 .. Len(heap.free) : heap.free[i] \in 1 .. Len(heap.nodes)
    BY <2>1 DEF FreeInv, Ids
  <2>5. live \subseteq 1 .. Len(chunks)
    BY <1>1 DEF IInv, PlanInv, Held
  <2>6. mBarrrier \in BOOLEAN /\ mTotalSize \in Nat /\ code \in {"none", "NO_ERROR", "INVALID_VALUE"}
    BY <1>1 DEF IInv, CallInv
  <2>7. QED
    BY <2>2, <2>3, <2>4, <2>5, <2>6 DEF TypeOK
<1>2. QED
  BY Invariance, <1>1, PTL

\* Once the client has freed everything, alloc, free and fuse_to_left have left one
\* node, so that compute never returns INVALID_VALUE.
THEOREM Computes == Spec => []PlanComputes
<1>1. IInv => PlanComputes
  BY DEF IInv, CallInv, PlanComputes
<1>2. QED
  BY Invariance, <1>1, PTL

\* free leaves no two free neighbours, mFreeList is in order of size, and the live
\* chunks have the other nodes of the list, each to itself.
THEOREM ListCoalesced == Spec => []Coalesced
<1>1. ASSUME IInv PROVE Coalesced
  <2>1. heap \in HeapSet /\ FreeInv(heap) /\ Fused(heap) /\ Held(heap, chunks, live)
    BY <1>1 DEF IInv, Good, PlanInv
  <2>2. Len(heap.list) \in Nat /\ Len(heap.free) \in Nat
    BY <2>1, HeapFacts
  <2>3. ASSUME NEW i \in 1 .. Len(heap.list) - 1
        PROVE  ~(InFree(heap, heap.list[i]) /\ InFree(heap, heap.list[i + 1]))
    <3>1. i \in Spots(heap) /\ i + 1 \in Spots(heap)
      BY <2>2 DEF Spots
    <3>2. QED
      BY <2>1, <3>1 DEF Fused
  <2>4. ASSUME NEW i \in 1 .. Len(heap.free) - 1
        PROVE  SizeOf(heap, heap.free[i]) <= SizeOf(heap, heap.free[i + 1])
    <3>1. i \in 1 .. Len(heap.free) /\ i + 1 \in 1 .. Len(heap.free) /\ i < i + 1
      BY <2>2
    <3>2. QED
      BY <2>1, <3>1 DEF FreeInv
  <2>5. {chunks[c].node : c \in live} = {n \in 1 .. Len(heap.nodes) : heap.nodes[n].into = 0 /\ ~InFree(heap, n)}
    BY <2>1 DEF Held, InUse, Ids, IntoOf
  <2>6. \A c, e \in live : chunks[c].node = chunks[e].node => c = e
    BY <2>1 DEF Held
  <2>7. QED
    BY <2>3, <2>4, <2>5, <2>6 DEF Coalesced
<1>2. QED
  BY Invariance, <1>1, PTL

-----------------------------------------------------------------------------
(* The offsets that compute gives.                                          *)

\* Walking up from a node to the one node of the list adds up to its place.
LEMMA OffsetsAre ==
  ASSUME NEW h \in HeapSet, NEW o, NEW p, NEW d, Layout(h, o, p, d),
         \A i \in Spots(h) : Len(h.list) = 1,
         NEW g, \A n \in Ids(h) : g[n] = OffsetOf(h, n) + g[IntoOf(h, n)], g[0] = 0
  PROVE  \A n \in Ids(h) : g[n] = p[n]
<1> DEFINE wrong == {k \in Nat : \E n \in Ids(h) : d[n] = k /\ g[n] # p[n]}
<1>1. SUFFICES ASSUME wrong # {} PROVE FALSE
  <2>1. \A n \in Ids(h) : d[n] \in Nat
    BY LayoutFacts
  <2>2. QED
    BY <2>1
<1>2. PICK k \in wrong : \A j \in wrong : k <= j
  <2>1. wrong \in SUBSET Nat
    OBVIOUS
  <2> HIDE DEF wrong
  <2>2. QED
    BY <1>1, <2>1, LeastNat
<1>3. PICK n \in Ids(h) : d[n] = k /\ g[n] # p[n]
  OBVIOUS
<1>4. \A m \in Ids(h) : d[m] < d[n] => g[m] = p[m]
  <2>1. TAKE m \in Ids(h)
  <2>2. HAVE d[m] < d[n]
  <2>3. d[m] \in Nat /\ d[n] \in Nat /\ ~(k <= d[m])
    BY <1>3, <2>2, LayoutFacts
  <2>4. d[m] \notin wrong
    BY <1>2, <2>3
  <2>5. QED
    BY <2>3, <2>4
<1> HIDE DEF wrong
<1>5. g[n] = OffsetOf(h, n) + g[IntoOf(h, n)]
  OBVIOUS
<1>6. CASE IntoOf(h, n) = 0
  <2>1. h.list[o[n]] = n /\ OffsetOf(h, n) = 0 /\ o[n] \in Spots(h)
    BY <1>6, LayoutFacts DEF Layout
  <2>2. o[n] = 1
    BY <2>1 DEF Spots
  <2>3. p[n] = 0
    BY <2>1, <2>2 DEF Layout
  <2>4. QED
    BY <1>3, <1>5, <1>6, <2>1, <2>3
<1>7. CASE IntoOf(h, n) # 0
  <2>1. IntoOf(h, n) \in Ids(h) /\ d[IntoOf(h, n)] < d[n] /\ p[n] = p[IntoOf(h, n)] + OffsetOf(h, n)
    BY <1>7 DEF Layout
  <2>2. g[IntoOf(h, n)] = p[IntoOf(h, n)]
    BY <1>4, <2>1
  <2>3. p[IntoOf(h, n)] \in Nat /\ OffsetOf(h, n) \in Nat
    BY <2>1, LayoutFacts
  <2>4. QED
    BY <1>3, <1>5, <2>1, <2>2, <2>3
<1>8. QED
  BY <1>6, <1>7

\* The function that visiChildren computes exists, and is p.
LEMMA OffsetIs ==
  ASSUME NEW o, NEW p, NEW d, Layout(heap, o, p, d), heap \in HeapSet,
         \A i \in Spots(heap) : Len(heap.list) = 1
  PROVE  \A n \in Ids(heap) : Offset[n] = p[n]
<1> DEFINE S == 0 .. Len(heap.nodes)
<1> DEFINE Eq(g) == g = [n \in S |-> IF n = 0 THEN 0 ELSE heap.nodes[n].offset + g[heap.nodes[n].into]]
<1> DEFINE f == [n \in S |-> IF n = 0 THEN 0 ELSE p[n]]
<1>1. Len(heap.nodes) \in Nat /\ Ids(heap) = 1 .. Len(heap.nodes) /\ \A n \in S : n = 0 \/ n \in Ids(heap)
  BY HeapFacts DEF Ids
<1>2. \A n \in Ids(heap) : n \in S /\ n # 0 /\ f[n] = p[n] /\ p[n] \in Nat
  BY <1>1, LayoutFacts
<1>3. f[0] = 0
  BY <1>1
<1>4. ASSUME NEW n \in Ids(heap)
      PROVE  p[n] = OffsetOf(heap, n) + f[IntoOf(heap, n)]
  <2>1. CASE IntoOf(heap, n) = 0
    <3>1. heap.list[o[n]] = n /\ OffsetOf(heap, n) = 0 /\ o[n] \in Spots(heap)
      BY <2>1, LayoutFacts DEF Layout
    <3>2. o[n] = 1
      BY <3>1 DEF Spots
    <3>3. p[n] = 0
      BY <3>1, <3>2 DEF Layout
    <3>4. QED
      BY <1>3, <2>1, <3>1, <3>3
  <2>2. CASE IntoOf(heap, n) # 0
    <3>1. IntoOf(heap, n) \in Ids(heap) /\ p[n] = p[IntoOf(heap, n)] + OffsetOf(heap, n)
      BY <2>2 DEF Layout
    <3>2. p[IntoOf(heap, n)] \in Nat /\ OffsetOf(heap, n) \in Nat /\ f[IntoOf(heap, n)] = p[IntoOf(heap, n)]
      BY <1>2, <3>1, LayoutFacts
    <3>3. QED
      BY <3>1, <3>2
  <2>3. QED
    BY <2>1, <2>2
<1>5. Eq(f)
  <2>1. ASSUME NEW n \in S
        PROVE  (IF n = 0 THEN 0 ELSE p[n]) = IF n = 0 THEN 0 ELSE heap.nodes[n].offset + f[heap.nodes[n].into]
    BY <1>1, <1>4 DEF OffsetOf, IntoOf
  <2>2. QED
    BY <2>1
<1>6. Offset = CHOOSE g : Eq(g)
  BY DEF Offset
<1>7. Eq(Offset)
  <2> HIDE DEF Eq, f
  <2>1. QED
    BY <1>5, <1>6
<1>8. \A n \in S : Offset[n] = IF n = 0 THEN 0 ELSE heap.nodes[n].offset + Offset[heap.nodes[n].into]
  <2> DEFINE g == Offset
  <2>1. g = [n \in S |-> IF n = 0 THEN 0 ELSE heap.nodes[n].offset + g[heap.nodes[n].into]]
    BY <1>7
  <2> HIDE DEF g
  <2>2. \A n \in S : g[n] = IF n = 0 THEN 0 ELSE heap.nodes[n].offset + g[heap.nodes[n].into]
    BY <2>1
  <2>3. QED
    BY <2>2 DEF g
<1>9. Offset[0] = 0 /\ \A n \in Ids(heap) : Offset[n] = OffsetOf(heap, n) + Offset[IntoOf(heap, n)]
  BY <1>1, <1>2, <1>8 DEF OffsetOf, IntoOf
<1>10. QED
  BY <1>9, OffsetsAre

\* What holds of the offsets when compute has returned.
LEMMA Computed ==
  ASSUME IInv, code = "NO_ERROR"
  PROVE  \E o, p : /\ \A n \in Ids(heap) : Offset[n] = p[n] /\ p[n] \in Units
                   /\ Placed(chunks, together, heap, o, p)
                   /\ \A n \in Ids(heap) : End(heap, p) = mTotalSize
                   /\ \A c \in 1 .. Len(chunks) : chunks[c].size \in Nat /\ chunks[c].node \in Ids(heap)
<1>1. /\ heap \in HeapSet /\ Laid(heap) /\ chunks \in Seq(Chunk) /\ Planned(heap, chunks, together)
      /\ Whole(heap, mTotalSize) /\ mTotalSize \in Nat
  BY DEF IInv, Good, PlanInv, CallInv
<1>2. PICK o, p, d : Layout(heap, o, p, d) /\ Placed(chunks, together, heap, o, p)
  BY <1>1 DEF Planned
<1>3. \A n \in Ids(heap) : Offset[n] = p[n] /\ p[n] \in Units
  BY <1>1, <1>2, OffsetIs, LayoutFacts DEF Whole
<1>4. ASSUME NEW n \in Ids(heap) PROVE End(heap, p) = mTotalSize
  <2>1. Len(heap.list) \in Spots(heap)
    BY <1>1, <1>2, LayoutFacts
  <2>2. Len(heap.list) = 1 /\ mTotalSize = SizeOf(heap, heap.list[1]) /\ 1 \in Spots(heap)
    BY <1>1, <2>1 DEF Whole
  <2>3. p[heap.list[1]] = 0
    BY <1>2, <2>2 DEF Layout
  <2>4. QED
    BY <1>1, <2>2, <2>3 DEF End
<1>5. \A c \in 1 .. Len(chunks) : chunks[c].size \in Nat /\ chunks[c].node \in Ids(heap)
  <2>1. \A c \in 1 .. Len(chunks) : chunks[c] \in Chunk
    BY <1>1
  <2>2. QED
    BY <1>2, <2>1 DEF Placed, Chunk
<1>6. QED
  BY <1>2, <1>3, <1>4, <1>5

\* Two chunks that were live together, or were both used inside one barrier, never
\* share a byte, although alloc splits, expands and reuses nodes whose neighbours
\* were placed long before and visiChildren computes the offsets at the end.
THEOREM PlanDisjoint == Spec => []NoOverlap
<1>1. ASSUME IInv PROVE NoOverlap
  <2>1. SUFFICES ASSUME code = "NO_ERROR", NEW c \in 1 .. Len(chunks), NEW e \in 1 .. Len(chunks),
                        {c, e} \in together, c # e
                 PROVE  \/ Offset[chunks[c].node] + chunks[c].size <= Offset[chunks[e].node]
                        \/ Offset[chunks[e].node] + chunks[e].size <= Offset[chunks[c].node]
    BY DEF NoOverlap
  <2>2. PICK o, p : /\ \A n \in Ids(heap) : Offset[n] = p[n] /\ p[n] \in Units
                    /\ Placed(chunks, together, heap, o, p)
                    /\ \A n \in Ids(heap) : End(heap, p) = mTotalSize
                    /\ \A k \in 1 .. Len(chunks) : chunks[k].size \in Nat /\ chunks[k].node \in Ids(heap)
    BY <1>1, <2>1, Computed
  <2>3. Before(chunks[c], chunks[e], o, p) \/ Before(chunks[e], chunks[c], o, p)
    BY <2>1, <2>2 DEF Placed
  <2>4. Offset[chunks[c].node] = p[chunks[c].node] /\ Offset[chunks[e].node] = p[chunks[e].node]
    BY <2>2
  <2>5. QED
    BY <2>3, <2>4 DEF Before
<1>2. QED
  BY Invariance, <1>1, PTL

\* Every chunk starts at a multiple of the alignment and ends inside the buffer of
\* mTotalSize bytes that apply asks for.
THEOREM PlanInside == Spec => []InsideArena
<1>1. ASSUME IInv PROVE InsideArena
  <2>1. SUFFICES ASSUME code = "NO_ERROR", NEW c \in 1 .. Len(chunks)
                 PROVE  /\ Offset[chunks[c].node] % Align = 0
                        /\ Offset[chunks[c].node] + chunks[c].size <= mTotalSize
    BY DEF InsideArena
  <2>2. PICK o, p : /\ \A n \in Ids(heap) : Offset[n] = p[n] /\ p[n] \in Units
                    /\ Placed(chunks, together, heap, o, p)
                    /\ \A n \in Ids(heap) : End(heap, p) = mTotalSize
                    /\ \A k \in 1 .. Len(chunks) : chunks[k].size \in Nat /\ chunks[k].node \in Ids(heap)
    BY <1>1, <2>1, Computed
  <2>3. p[chunks[c].node] + chunks[c].size <= mTotalSize
    BY <2>2 DEF Placed
  <2>4. Offset[chunks[c].node] = p[chunks[c].node] /\ p[chunks[c].node] % Align = 0
    BY <2>2 DEF Units
  <2>5. QED
    BY <2>3, <2>4
<1>2. QED
  BY Invariance, <1>1, PTL

===============================================================================
