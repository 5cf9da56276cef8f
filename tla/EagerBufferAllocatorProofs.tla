---------------------- MODULE EagerBufferAllocatorProofs ----------------------
(***************************************************************************)
(* Proofs about EagerBufferAllocator, for any alignment, any sizes and      *)
(* aligns of the requests, and any number of chunks, blocks and groups.     *)
(***************************************************************************)
EXTENDS EagerBufferAllocator, FiniteSetTheorems, WellFoundedInduction, TLAPS

NodeSet == [block : Blocks, off : Nat, size : Nat \ {0}]

Kids(par, n) == {k \in DOMAIN par : par[k] = n}
Roots(par) == {n \in DOMAIN par : par[n] = None}

\* The range of m lies in that of n, and in the same block.
Within(m, n) == m.block = n.block /\ n.off <= m.off /\ m.off + m.size <= n.off + n.size

Clear(m, n) == m.block # n.block \/ Apart(m.off, m.size, n.off, n.size)

\* Two nodes of N are apart or one lies in the other; none lies in one of L.
Nested(N, L) ==
    /\ \A m, n \in N : m # n => Clear(m, n) \/ Within(m, n) \/ Within(n, m)
    /\ \A m \in N, n \in L : m # n => Clear(m, n) \/ Within(n, m)

\* The nodes and their parents are a forest with one tree for each block, and L
\* its leaves: a node that was split is the sum of two halves, a root that of its leaves.
Forest(par, L) ==
    /\ DOMAIN par \subseteq NodeSet /\ IsFiniteSet(DOMAIN par)
    /\ \A n \in DOMAIN par : par[n] \in (DOMAIN par) \cup {None}
    /\ \A n \in DOMAIN par : Kids(par, n) # {} =>
         \E s \in 1 .. n.size - 1 : Kids(par, n) = {Head1(n, s), Rest(n, s)}
    /\ L = {n \in DOMAIN par : Kids(par, n) = {}}
    /\ \A m, n \in Roots(par) : m.block = n.block => m = n
    /\ Nested(DOMAIN par, L)
    /\ \A n \in Roots(par) : SizeSum({m \in L : m.block = n.block}) = n.size

\* par2 has the children h and r of p as well, or the nodes of K no more.
Adds(par2, par, h, r, p) ==
    /\ DOMAIN par2 = (DOMAIN par) \cup {h, r}
    /\ \A m \in DOMAIN par : par2[m] = par[m]
    /\ par2[h] = p /\ par2[r] = p
Restricts(par2, par, K) == DOMAIN par2 = (DOMAIN par) \ K /\ \A m \in DOMAIN par2 : par2[m] = par[m]

\* All but n have the same children as before.
SameKids(par2, par, n) ==
    \A m \in DOMAIN par2 \cap DOMAIN par : m # n => Kids(par2, m) = Kids(par, m)

\* Leaf n has the children h and r now; n has come in as a root.
SplitInto(par2, par, n, h, r) ==
    /\ h \notin DOMAIN par /\ r \notin DOMAIN par
    /\ Kids(par2, n) = {h, r} /\ Kids(par2, h) = {} /\ Kids(par2, r) = {}
    /\ SameKids(par2, par, n) /\ Roots(par2) = Roots(par)
NewRoot(par2, par, n) ==
    /\ n \notin DOMAIN par /\ Kids(par2, n) = {}
    /\ SameKids(par2, par, n) /\ Roots(par2) = Roots(par) \cup {n}

\* What is in use or in a list are the leaves.
HeapInv == Forest(parent, Leaves)

\* A leaf is in one place only.
PlaceInv ==
    /\ \A c, d \in used : c.node = d.node => c = d
    /\ \A c \in used : c.node \notin mFreeList /\ \A i \in DOMAIN mGroups : c.node \notin mGroups[i]
    /\ \A i \in DOMAIN mGroups : mGroups[i] \cap mFreeList = {}
    /\ \A i, j \in DOMAIN mGroups : i # j => mGroups[i] \cap mGroups[j] = {}

Out(n) == IF n \in mFreeList THEN 0 ELSE 1

\* The use count of a split node is the number of its halves that are not in the
\* list, but for the one a call in progress has still to take off; a node that
\* has lost all its users is merged at once.
CountInv ==
    /\ \A n \in Nodes : Kids(parent, n) = {} => useCount[n] = 0
    /\ \A n, h, r \in Nodes : Kids(parent, n) = {h, r} /\ h # r =>
         useCount[n] = Out(h) + Out(r) + (IF up = n THEN 1 ELSE 0)
    /\ \A n \in Nodes : Kids(parent, n) # {} => useCount[n] > 0
    /\ up # None => Kids(parent, up) # {}

ChunkInv == \A c \in used : c.node.off <= c.off /\ c.off + c.size <= c.node.off + c.node.size

\* Groups exist, and chunks belong to groups, only inside a barrier.
BarrierInv ==
    /\ ~barrier => mGroups = <<>> /\ group = 0 /\ ~ending
    /\ ~barrier \/ ending => touched = {}
    /\ ending => group = 0
    /\ barrier => client.minAllocSize = 0

Entry(g, c) == [group |-> g, block |-> c.node.block, off |-> c.off, size |-> c.size]

\* Leaf n has been group g's since one of its chunks was taken from it.
Has(g, n) ==
    \/ n \in mGroups[g]
    \/ \E c \in used : c.node = n /\ Entry(g, c) \in touched

\* What a group has touched is still its own.
OwnInv ==
    /\ \A t \in touched : /\ t.group \in DOMAIN mGroups /\ t.off \in Nat /\ t.size \in Nat \ {0}
                          /\ \E n \in Leaves : /\ t.block = n.block /\ n.off <= t.off
                                               /\ t.off + t.size <= n.off + n.size
                                               /\ Has(t.group, n)
    /\ \A c \in used, g, h \in DOMAIN mGroups : Entry(g, c) \in touched /\ Entry(h, c) \in touched => g = h

IInv ==
    /\ client \in Clients /\ TypeOK /\ HeapInv /\ PlaceInv /\ CountInv
    /\ ChunkInv /\ BarrierInv /\ OwnInv /\ TotalExact

-----------------------------------------------------------------------------
(* Sums of sizes.                                                           *)

\* The least-number principle.
LEMMA LeastNat ==
  ASSUME NEW S \in SUBSET Nat, S # {}
  PROVE  \E n \in S : \A m \in S : n <= m
<1>1. PICK n \in S : \A m \in S : ~ (<<m, n>> \in OpToRel(<, Nat))
  BY NatLessThanWellFounded, WFMin
<1>2. \A m \in S : ~ (m < n)
  BY <1>1 DEF OpToRel
<1>3. QED
  BY <1>2

\* Among subsets of a finite set there is one with no smaller one.
LEMMA LeastSubset ==
  ASSUME NEW S, IsFiniteSet(S), NEW B \in SUBSET (SUBSET S), B # {}
  PROVE  \E T \in B : \A U \in SUBSET T : U \in B => U = T
<1>1. IsWellFoundedOn(StrictSubsetOrdering(S), SUBSET S)
  BY FS_StrictSubsetOrderingWellFounded, FS_FiniteSubsetsOfFinite
<1>2. PICK T \in B : \A U \in B : ~ (<<U, T>> \in StrictSubsetOrdering(S))
  BY <1>1, WFMin
<1>3. QED
  BY <1>2 DEF StrictSubsetOrdering

First(s) == CHOOSE x \in s : TRUE

\* f is the sum of the subsets of S, as SizeSum defines it.
Sums(f, S) ==
    f = [s \in SUBSET S |-> IF s = {} THEN 0 ELSE First(s).size + f[s \ {First(s)}]]

\* SizeSum is the value of the function that MapThenSumSet chooses.
LEMMA SumIs ==
  ASSUME NEW S
  PROVE SizeSum(S) = (CHOOSE f : Sums(f, S))[S]
  BY DEF SizeSum, MapThenSumSet, MapThenFoldSet, Sums, First

\* The element that the sum takes first.
LEMMA FirstIn ==
  ASSUME NEW s, s # {}
  PROVE First(s) \in s
  BY DEF First

\* Two such functions agree.
LEMMA SumsAgree ==
  ASSUME NEW S, IsFiniteSet(S), NEW T, NEW f, NEW g, Sums(f, S), Sums(g, T), NEW U, U \subseteq S, U \subseteq T
  PROVE  f[U] = g[U]
<1> DEFINE B == {s \in SUBSET U : f[s] # g[s]}
<1> SUFFICES ASSUME B # {} PROVE FALSE
  BY DEF B
<1>1. IsFiniteSet(U)
  BY FS_Subset
<1>2. PICK s \in B : \A u \in SUBSET s : u \in B => u = s
  <2>1. B \in SUBSET (SUBSET U) /\ B # {}
    OBVIOUS
  <2> HIDE DEF B
  <2>2. QED
    BY <2>1, <1>1, LeastSubset
<1>3. s \in SUBSET S /\ s \in SUBSET T /\ f[s] # g[s] /\ s \subseteq U
  BY <1>2
<1>4. f[s] = IF s = {} THEN 0 ELSE First(s).size + f[s \ {First(s)}]
  BY <1>3 DEF Sums
<1>5. g[s] = IF s = {} THEN 0 ELSE First(s).size + g[s \ {First(s)}]
  BY <1>3 DEF Sums
<1>6. s # {}
  BY <1>3, <1>4, <1>5
<1>7. f[s \ {First(s)}] = g[s \ {First(s)}]
  BY <1>2, <1>3, <1>6, FirstIn
<1>8. QED
  BY <1>3, <1>4, <1>5, <1>7

\* There is such a function for a finite set.
LEMMA SumsExist ==
  ASSUME NEW S, IsFiniteSet(S)
  PROVE  \E f : Sums(f, S)
<1> DEFINE B == {s \in SUBSET S : ~ \E f : Sums(f, s)}
<1> SUFFICES ASSUME B # {} PROVE FALSE
  BY DEF B
<1>1. PICK T \in B : \A u \in SUBSET T : u \in B => u = T
  <2>1. B \in SUBSET (SUBSET S) /\ B # {}
    OBVIOUS
  <2> HIDE DEF B
  <2>2. QED
    BY <2>1, LeastSubset
<1>2. IsFiniteSet(T) /\ T \subseteq S
  BY <1>1, FS_Subset
<1>3. ASSUME NEW u \in SUBSET T, u # T
      PROVE  Sums(CHOOSE f : Sums(f, u), u)
  BY <1>1, <1>2, <1>3
<1> DEFINE F == [s \in SUBSET T |-> IF s = {} THEN 0 ELSE First(s).size + SizeSum(s \ {First(s)})]
<1>4. ASSUME NEW s \in SUBSET T, s # {}
      PROVE  F[s \ {First(s)}] = SizeSum(s \ {First(s)})
  <2> DEFINE u == s \ {First(s)}
  <2> DEFINE g == CHOOSE f : Sums(f, u)
  <2>1. u \in SUBSET T /\ u # T
    BY <1>4, FirstIn
  <2>2. Sums(g, u) /\ SizeSum(u) = g[u]
    BY <1>3, <2>1, SumIs
  <2>3. g[u] = IF u = {} THEN 0 ELSE First(u).size + g[u \ {First(u)}]
    <3> HIDE DEF g, u
    <3>1. QED
      BY <2>2 DEF Sums
  <2>4. u # {} => g[u \ {First(u)}] = SizeSum(u \ {First(u)})
    <3> DEFINE w == u \ {First(u)}
    <3> DEFINE h == CHOOSE f : Sums(f, w)
    <3>1. ASSUME u # {} PROVE w \in SUBSET T /\ w # T /\ w \subseteq u
      BY <2>1, <3>1, FirstIn
    <3>2. ASSUME u # {} PROVE Sums(h, w) /\ SizeSum(w) = h[w]
      BY <1>3, <3>1, <3>2, SumIs
    <3>3. IsFiniteSet(u)
      BY <1>2, <2>1, FS_Subset
    <3>4. ASSUME u # {} PROVE g[w] = h[w]
      <4> HIDE DEF g, h, u, w
      <4>1. QED
        BY <2>2, <3>1, <3>2, <3>3, <3>4, SumsAgree
    <3>5. QED
      BY <3>2, <3>4
  <2>5. F[u] = IF u = {} THEN 0 ELSE First(u).size + SizeSum(u \ {First(u)})
    <3> HIDE DEF u
    <3>1. QED
      BY <2>1
  <2>6. QED
    BY <2>2, <2>3, <2>4, <2>5
<1>5. Sums(F, T)
  <2>1. ASSUME NEW s \in SUBSET T
        PROVE  F[s] = IF s = {} THEN 0 ELSE First(s).size + F[s \ {First(s)}]
    BY <1>4
  <2>2. F = [s \in SUBSET T |-> F[s]]
    OBVIOUS
  <2> HIDE DEF F
  <2>3. QED
    BY <2>1, <2>2 DEF Sums
<1>6. QED
  BY <1>1, <1>5

\* The sum unfolds as defined.
LEMMA SumUnfolds ==
  ASSUME NEW S, IsFiniteSet(S)
  PROVE  SizeSum(S) = IF S = {} THEN 0 ELSE First(S).size + SizeSum(S \ {First(S)})
<1> DEFINE f == CHOOSE x : Sums(x, S)
<1>1. Sums(f, S) /\ SizeSum(S) = f[S]
  BY SumsExist, SumIs
<1> DEFINE u == S \ {First(S)}
<1> DEFINE g == CHOOSE x : Sums(x, u)
<1>2. IsFiniteSet(u) /\ u \subseteq S
  BY FS_Subset
<1>3. Sums(g, u) /\ SizeSum(u) = g[u]
  BY <1>2, SumsExist, SumIs
<1>4. f[u] = g[u]
  <2> HIDE DEF f, g, u
  <2>1. QED
    BY <1>1, <1>2, <1>3, SumsAgree
<1>5. f[S] = IF S = {} THEN 0 ELSE First(S).size + f[S \ {First(S)}]
  <2> HIDE DEF f
  <2>1. QED
    BY <1>1 DEF Sums
<1>6. QED
  BY <1>1, <1>3, <1>4, <1>5

\* Sizes that are numbers have a sum that is one.
LEMMA SumNat ==
  ASSUME NEW S, IsFiniteSet(S), \A n \in S : n.size \in Nat
  PROVE  SizeSum(S) \in Nat
<1> DEFINE B == {s \in SUBSET S : SizeSum(s) \notin Nat}
<1> SUFFICES ASSUME B # {} PROVE FALSE
  BY DEF B
<1>1. PICK s \in B : \A u \in SUBSET s : u \in B => u = s
  <2>1. B \in SUBSET (SUBSET S) /\ B # {}
    OBVIOUS
  <2> HIDE DEF B
  <2>2. QED
    BY <2>1, LeastSubset
<1>2. IsFiniteSet(s)
  BY <1>1, FS_Subset
<1>3. SizeSum(s) = IF s = {} THEN 0 ELSE First(s).size + SizeSum(s \ {First(s)})
  BY <1>2, SumUnfolds
<1>4. s # {}
  BY <1>1, <1>3
<1>5. First(s) \in s /\ First(s).size \in Nat
  BY <1>1, <1>4, FirstIn
<1>6. SizeSum(s \ {First(s)}) \in Nat
  BY <1>1, <1>5
<1>7. QED
  BY <1>1, <1>3, <1>4, <1>5, <1>6

\* Any element can be taken out.
LEMMA SumTake ==
  ASSUME NEW S, IsFiniteSet(S), \A n \in S : n.size \in Nat, NEW x \in S
  PROVE  SizeSum(S) = x.size + SizeSum(S \ {x})
<1> DEFINE B == {s \in SUBSET S : \E y \in s : SizeSum(s) # y.size + SizeSum(s \ {y})}
<1> SUFFICES ASSUME B # {} PROVE FALSE
  BY DEF B
<1>1. PICK s \in B : \A u \in SUBSET s : u \in B => u = s
  <2>1. B \in SUBSET (SUBSET S) /\ B # {}
    OBVIOUS
  <2> HIDE DEF B
  <2>2. QED
    BY <2>1, LeastSubset
<1>2. PICK y \in s : SizeSum(s) # y.size + SizeSum(s \ {y})
  BY <1>1
<1> DEFINE c == First(s)
<1>3. IsFiniteSet(s) /\ IsFiniteSet(s \ {y}) /\ IsFiniteSet(s \ {c}) /\ IsFiniteSet((s \ {c}) \ {y})
  BY <1>1, FS_Subset
<1>4. c \in s /\ SizeSum(s) = c.size + SizeSum(s \ {c})
  BY <1>2, <1>3, SumUnfolds, FirstIn
<1>5. c # y
  BY <1>2, <1>4
<1>6. SizeSum(s \ {c}) = y.size + SizeSum((s \ {c}) \ {y})
  <2>1. s \ {c} \notin B /\ s \ {c} \in SUBSET S
    BY <1>1, <1>4
  <2>2. y \in s \ {c}
    BY <1>5
  <2>3. QED
    BY <2>1, <2>2
<1>7. SizeSum(s \ {y}) = c.size + SizeSum((s \ {y}) \ {c})
  <2>1. s \ {y} \notin B /\ s \ {y} \in SUBSET S
    BY <1>1, <1>2
  <2>2. c \in s \ {y}
    BY <1>4, <1>5
  <2>3. QED
    BY <2>1, <2>2
<1>8. (s \ {c}) \ {y} = (s \ {y}) \ {c}
  OBVIOUS
<1>9. c.size \in Nat /\ y.size \in Nat /\ SizeSum((s \ {c}) \ {y}) \in Nat
  <2>1. \A n \in (s \ {c}) \ {y} : n.size \in Nat
    BY <1>1
  <2>2. QED
    BY <1>1, <1>3, <1>4, <2>1, SumNat
<1> HIDE DEF c
<1>10. QED
  <2> DEFINE a == SizeSum(s \ {c})
  <2> DEFINE b == SizeSum(s \ {y})
  <2> DEFINE d == SizeSum((s \ {c}) \ {y})
  <2>1. /\ SizeSum(s) = c.size + a /\ a = y.size + d /\ b = c.size + d
        /\ SizeSum(s) # y.size + b /\ d \in Nat
    BY <1>2, <1>4, <1>6, <1>7, <1>8, <1>9
  <2> HIDE DEF a, b, d
  <2>2. QED
    BY <1>9, <2>1
-----------------------------------------------------------------------------
(* Ranges.                                                                  *)

\* The rounded number is the next multiple.
LEMMA RoundUpFacts ==
  ASSUME NEW n \in Nat, NEW a \in Nat \ {0}
  PROVE  RoundUp(n, a) \in Nat /\ n <= RoundUp(n, a) /\ RoundUp(n, a) <= n + a - 1
  BY DEF RoundUp

\* The halves of a node.
LEMMA HalvesFacts ==
  ASSUME NEW n \in NodeSet, NEW s \in 1 .. n.size - 1
  PROVE  LET h == Head1(n, s)
             r == Rest(n, s)
         IN  /\ h \in NodeSet /\ r \in NodeSet /\ h # r /\ h # n /\ r # n
             /\ h.block = n.block /\ h.off = n.off /\ h.size = s
             /\ r.block = n.block /\ r.off = n.off + s /\ r.size = n.size - s
  BY DEF NodeSet, Head1, Rest, Node

\* Whoever is clear of a node is clear of what lies in it; what lies in a node of
\* its own size is that node.
LEMMA WithinFacts ==
  ASSUME NEW m \in NodeSet, NEW n \in NodeSet, NEW k \in NodeSet
  PROVE  /\ Clear(m, n) <=> Clear(n, m)
         /\ Clear(m, n) => ~Within(m, n) /\ m # n
         /\ Within(m, n) /\ Within(n, m) => m = n
         /\ Within(k, n) /\ Clear(m, n) => Clear(m, k)
         /\ Within(k, n) /\ Within(n, m) => Within(k, m)
  BY DEF NodeSet, Clear, Within, Apart

\* The halves of n lie in n, apart from each other, and together they are n.
LEMMA HalvesCover ==
  ASSUME NEW n \in NodeSet, NEW s \in 1 .. n.size - 1, NEW m \in NodeSet
  PROVE  LET h == Head1(n, s)
             r == Rest(n, s)
         IN  /\ Within(h, n) /\ Within(r, n) /\ Clear(h, r)
             /\ Clear(m, h) /\ Clear(m, r) => Clear(m, n)
             /\ Within(h, m) /\ Within(r, m) => Within(n, m)
             /\ Within(h, m) /\ Clear(m, r) /\ (Within(m, n) \/ Within(n, m) \/ Clear(m, n)) => m = h
             /\ Within(r, m) /\ Clear(m, h) /\ (Within(m, n) \/ Within(n, m) \/ Clear(m, n)) => m = r
<1> DEFINE h == Head1(n, s)
<1> DEFINE r == Rest(n, s)
<1>1. /\ h \in NodeSet /\ r \in NodeSet
      /\ h.block = n.block /\ h.off = n.off /\ h.size = s
      /\ r.block = n.block /\ r.off = n.off + s /\ r.size = n.size - s
  BY HalvesFacts
<1> HIDE DEF h, r
<1>2. n.off \in Nat /\ n.size \in Nat /\ m.off \in Nat /\ m.size \in Nat \ {0} /\ s \in 1 .. n.size - 1
  BY DEF NodeSet
<1>3. Within(h, n) /\ Within(r, n) /\ Clear(h, r)
  BY <1>1, <1>2 DEF Clear, Within, Apart
<1>4. /\ Clear(m, h) /\ Clear(m, r) => Clear(m, n)
      /\ Within(h, m) /\ Within(r, m) => Within(n, m)
  BY <1>1, <1>2 DEF Clear, Within, Apart
<1>5. ASSUME Within(h, m), Clear(m, r), Within(m, n) \/ Within(n, m) \/ Clear(m, n) PROVE m = h
  <2>1. m.block = h.block /\ m.off = h.off /\ m.size = h.size
    BY <1>1, <1>2, <1>5 DEF Clear, Within, Apart
  <2>2. QED
    BY <1>1, <2>1 DEF NodeSet
<1>6. ASSUME Within(r, m), Clear(m, h), Within(m, n) \/ Within(n, m) \/ Clear(m, n) PROVE m = r
  <2>1. m.block = r.block /\ m.off = r.off /\ m.size = r.size
    BY <1>1, <1>2, <1>6 DEF Clear, Within, Apart
  <2>2. QED
    BY <1>1, <2>1 DEF NodeSet
<1>7. QED
  BY <1>3, <1>4, <1>5, <1>6 DEF h, r

\* A leaf is split.
LEMMA SplitNested ==
  ASSUME NEW N \in SUBSET NodeSet, NEW L \in SUBSET N, Nested(N, L), NEW n \in L, NEW s \in 1 .. n.size - 1
  PROVE  LET h == Head1(n, s)
             r == Rest(n, s)
         IN  /\ h \notin N /\ r \notin N
             /\ Nested(N \cup {h, r}, (L \ {n}) \cup {h, r})
<1> DEFINE h == Head1(n, s)
<1> DEFINE r == Rest(n, s)
<1>1. n \in NodeSet /\ h \in NodeSet /\ r \in NodeSet /\ h # n /\ r # n /\ h # r
  BY HalvesFacts
<1>2. Within(h, n) /\ Within(r, n) /\ Clear(h, r) /\ ~Within(n, h) /\ ~Within(n, r) /\ ~Clear(h, n) /\ ~Clear(r, n)
  BY <1>1, HalvesCover, WithinFacts
<1> HIDE DEF h, r
<1>3. ASSUME NEW k \in {h, r} PROVE k \notin N
  BY <1>1, <1>2, <1>3 DEF Nested
<1>4. ASSUME NEW m \in N, m # n, NEW k \in {h, r}
      PROVE  Clear(m, k) \/ Within(k, m)
  <2>1. Clear(m, n) \/ Within(n, m)
    BY <1>4 DEF Nested
  <2>2. QED
    BY <1>1, <1>2, <1>4, <2>1, WithinFacts
<1>5. ASSUME NEW m \in N \cup {h, r}, NEW k \in (L \ {n}) \cup {h, r}, m # k
      PROVE  Clear(m, k) \/ Within(k, m)
  <2>1. CASE m \in N /\ k \in L \ {n}
    BY <1>5, <2>1 DEF Nested
  <2>2. CASE m \in N /\ k \in {h, r}
    BY <1>2, <1>4, <2>2
  <2>3. CASE m \in {h, r} /\ k \in L \ {n}
    <3>1. Clear(n, k) \/ Within(k, n)
      BY <2>3 DEF Nested
    <3>2. Clear(k, n) \/ Within(n, k)
      BY <2>3 DEF Nested
    <3>3. k \in NodeSet /\ k # n
      BY <2>3
    <3>4. Clear(k, n)
      BY <1>1, <3>1, <3>2, <3>3, WithinFacts
    <3>5. QED
      BY <1>1, <1>2, <2>3, <3>3, <3>4, WithinFacts
  <2>4. CASE m \in {h, r} /\ k \in {h, r}
    BY <1>1, <1>2, <1>5, <2>4, WithinFacts
  <2>5. QED
    BY <1>5, <2>1, <2>2, <2>3, <2>4
<1>6. ASSUME NEW m \in N \cup {h, r}, NEW k \in N \cup {h, r}, m # k
      PROVE  Clear(m, k) \/ Within(m, k) \/ Within(k, m)
  <2>1. CASE m \in {h, r} \/ k \in {h, r}
    <3>1. Clear(m, k) \/ Within(k, m) \/ Clear(k, m) \/ Within(m, k)
      BY <1>5, <1>6, <2>1
    <3>2. m \in NodeSet /\ k \in NodeSet
      BY <1>1
    <3>3. QED
      BY <3>1, <3>2, WithinFacts
  <2>2. CASE m \in N /\ k \in N
    BY <1>6, <2>2 DEF Nested
  <2>3. QED
    BY <1>6, <2>1, <2>2
<1>7. Nested(N \cup {h, r}, (L \ {n}) \cup {h, r})
  BY <1>5, <1>6 DEF Nested
<1>8. h \notin N /\ r \notin N
  BY <1>3
<1>9. QED
  BY <1>7, <1>8 DEF h, r

\* Two leaves that are the halves of n make way for n.
LEMMA MergeNested ==
  ASSUME NEW N \in SUBSET NodeSet, NEW L \in SUBSET N, Nested(N, L), NEW n \in N, NEW s \in 1 .. n.size - 1,
         Head1(n, s) \in L, Rest(n, s) \in L
  PROVE  LET h == Head1(n, s)
             r == Rest(n, s)
         IN  Nested(N \ {h, r}, (L \ {h, r}) \cup {n})
<1> DEFINE h == Head1(n, s)
<1> DEFINE r == Rest(n, s)
<1>1. n \in NodeSet /\ h \in L /\ r \in L /\ h \in NodeSet /\ r \in NodeSet /\ h # n /\ r # n
  BY HalvesFacts
<1>2. ASSUME NEW m \in NodeSet
      PROVE  /\ Clear(m, h) /\ Clear(m, r) => Clear(m, n)
             /\ Within(h, m) /\ Within(r, m) => Within(n, m)
             /\ Within(h, m) /\ Clear(m, r) /\ (Within(m, n) \/ Within(n, m) \/ Clear(m, n)) => m = h
             /\ Within(r, m) /\ Clear(m, h) /\ (Within(m, n) \/ Within(n, m) \/ Clear(m, n)) => m = r
  BY HalvesCover
<1> HIDE DEF h, r
<1>3. ASSUME NEW m \in N \ {h, r}, m # n
      PROVE  Clear(m, n) \/ Within(n, m)
  <2>1. Clear(m, h) \/ Within(h, m)
    BY <1>1, <1>3 DEF Nested
  <2>2. Clear(m, r) \/ Within(r, m)
    BY <1>1, <1>3 DEF Nested
  <2>3. Clear(m, n) \/ Within(m, n) \/ Within(n, m)
    BY <1>3 DEF Nested
  <2>4. m \in NodeSet /\ m # h /\ m # r
    BY <1>3
  <2>5. QED
    BY <1>2, <2>1, <2>2, <2>3, <2>4
<1>4. Nested(N \ {h, r}, (L \ {h, r}) \cup {n})
  <2>1. \A m, k \in N \ {h, r} : m # k => Clear(m, k) \/ Within(m, k) \/ Within(k, m)
    BY DEF Nested
  <2>2. \A m \in N \ {h, r}, k \in L \ {h, r} : m # k => Clear(m, k) \/ Within(k, m)
    BY DEF Nested
  <2>3. QED
    BY <1>3, <2>1, <2>2 DEF Nested
<1>5. QED
  BY <1>4 DEF h, r

\* Fewer nodes.
LEMMA LessNested ==
  ASSUME NEW N, NEW L, Nested(N, L), NEW M \in SUBSET N, NEW K \in SUBSET L
  PROVE  Nested(M, K)
  BY DEF Nested

\* A node in a block of its own.
LEMMA BlockNested ==
  ASSUME NEW N \in SUBSET NodeSet, NEW L \in SUBSET N, Nested(N, L), NEW n \in NodeSet,
         \A m \in N : m.block # n.block
  PROVE  Nested(N \cup {n}, L \cup {n})
  BY DEF Nested, Clear

-----------------------------------------------------------------------------
(* Forests.                                                                 *)

\* None is no node.
LEMMA NoneOut == None \notin NodeSet
  BY EagerAssumption DEF None, NodeSet, Node

\* Part of a finite sum.
LEMMA SumMinus ==
  ASSUME NEW S, IsFiniteSet(S), \A n \in S : n.size \in Nat, NEW T \in SUBSET S
  PROVE  SizeSum(S) = SizeSum(T) + SizeSum(S \ T)
<1> DEFINE B == {t \in SUBSET S : SizeSum(S) # SizeSum(t) + SizeSum(S \ t)}
<1> SUFFICES ASSUME B # {} PROVE FALSE
  BY DEF B
<1>1. PICK t \in B : \A u \in SUBSET t : u \in B => u = t
  <2>1. B \in SUBSET (SUBSET S) /\ B # {}
    OBVIOUS
  <2> HIDE DEF B
  <2>2. QED
    BY <2>1, LeastSubset
<1>2. t \in SUBSET S /\ IsFiniteSet(t) /\ IsFiniteSet(S \ t) /\ SizeSum(S) \in Nat
  BY <1>1, SumNat, FS_Subset
<1>3. t # {}
  <2>1. ASSUME t = {} PROVE SizeSum(S) = SizeSum(t) + SizeSum(S \ t)
    <3>1. SizeSum(t) = 0 /\ S \ t = S
      BY <1>2, <2>1, SumUnfolds
    <3>2. QED
      BY <3>1, <1>2
  <2>2. QED
    BY <1>1, <2>1
<1> DEFINE x == First(t)
<1> DEFINE u == t \ {x}
<1>4. x \in t /\ u \in SUBSET t /\ u # t
  BY <1>3, FirstIn
<1>5. SizeSum(S) = SizeSum(u) + SizeSum(S \ u)
  BY <1>1, <1>4
<1>6. SizeSum(t) = x.size + SizeSum(u)
  BY <1>2, <1>4, SumTake
<1>7. SizeSum(S \ u) = x.size + SizeSum(S \ t)
  <2>1. IsFiniteSet(S \ u) /\ x \in S \ u /\ (S \ u) \ {x} = S \ t
    BY <1>2, <1>4, FS_Subset
  <2>2. QED
    BY <2>1, SumTake
<1>8. x.size \in Nat /\ SizeSum(u) \in Nat /\ SizeSum(S \ t) \in Nat
  <2>1. IsFiniteSet(u)
    BY <1>2, <1>4, FS_Subset
  <2>2. QED
    BY <1>2, <1>4, <2>1, SumNat
<1>9. SizeSum(S) = SizeSum(t) + SizeSum(S \ t)
  <2> DEFINE a == SizeSum(u)
  <2> DEFINE b == SizeSum(S \ t)
  <2>1. /\ SizeSum(S) = a + SizeSum(S \ u) /\ SizeSum(t) = x.size + a
        /\ SizeSum(S \ u) = x.size + b /\ a \in Nat /\ b \in Nat /\ x.size \in Nat
    BY <1>5, <1>6, <1>7, <1>8
  <2> HIDE DEF a, x, u
  <2>2. QED
    BY <2>1
<1>10. QED
  BY <1>1, <1>9

\* What is used of a forest again and again: the leaves are apart.
LEMMA ForestFacts ==
  ASSUME NEW par, NEW L, Forest(par, L)
  PROVE  /\ L \subseteq DOMAIN par /\ IsFiniteSet(L) /\ L \subseteq NodeSet
         /\ None \notin DOMAIN par
         /\ \A m, n \in L : m # n => Clear(m, n)
<1>1. L \subseteq DOMAIN par /\ DOMAIN par \subseteq NodeSet
  BY DEF Forest
<1>2. IsFiniteSet(L) /\ None \notin DOMAIN par
  BY <1>1, NoneOut, FS_Subset DEF Forest
<1>3. ASSUME NEW m \in L, NEW n \in L, m # n PROVE Clear(m, n)
  <2>1. (Clear(m, n) \/ Within(n, m)) /\ (Clear(n, m) \/ Within(m, n))
    BY <1>1, <1>3 DEF Forest, Nested
  <2>2. m \in NodeSet /\ n \in NodeSet
    BY <1>1
  <2>3. QED
    BY <1>3, <2>1, <2>2, WithinFacts
<1>4. QED
  BY <1>1, <1>2, <1>3

\* A node and its halves weigh the same.
LEMMA SumSplit ==
  ASSUME NEW A \in SUBSET NodeSet, IsFiniteSet(A), NEW n \in A, NEW s \in 1 .. n.size - 1,
         Head1(n, s) \notin A, Rest(n, s) \notin A
  PROVE  SizeSum((A \ {n}) \cup {Head1(n, s), Rest(n, s)}) = SizeSum(A)
<1> DEFINE h == Head1(n, s)
<1> DEFINE r == Rest(n, s)
<1> DEFINE B == A \ {n}
<1>1. /\ h \in NodeSet /\ r \in NodeSet /\ h # r
      /\ h.size = s /\ r.size = n.size - s /\ n.size \in Nat /\ s \in Nat
  BY HalvesFacts DEF NodeSet
<1> HIDE DEF h, r
<1>2. h \notin B /\ r \notin B
  BY DEF h, r
<1>3. IsFiniteSet(B) /\ IsFiniteSet(B \cup {r}) /\ IsFiniteSet(B \cup {h, r})
  <2>1. IsFiniteSet(B)
    BY FS_Subset
  <2>2. IsFiniteSet(B \cup {r})
    BY <2>1, FS_AddElement
  <2>3. IsFiniteSet((B \cup {r}) \cup {h})
    BY <2>2, FS_AddElement
  <2>4. (B \cup {r}) \cup {h} = B \cup {h, r}
    OBVIOUS
  <2>5. QED
    BY <2>1, <2>2, <2>3, <2>4
<1>4. \A m \in NodeSet : m.size \in Nat
  BY DEF NodeSet
<1>5. SizeSum(A) = n.size + SizeSum(B)
  BY <1>4, SumTake
<1>6. SizeSum(B \cup {h, r}) = h.size + SizeSum(B \cup {r})
  <2>1. (B \cup {h, r}) \ {h} = B \cup {r}
    BY <1>1, <1>2
  <2>2. \A m \in B \cup {h, r} : m.size \in Nat
    BY <1>1, <1>4
  <2>3. QED
    BY <1>3, <2>1, <2>2, SumTake
<1>7. SizeSum(B \cup {r}) = r.size + SizeSum(B)
  <2>1. (B \cup {r}) \ {r} = B
    BY <1>2
  <2>2. \A m \in B \cup {r} : m.size \in Nat
    BY <1>1, <1>4
  <2>3. QED
    BY <1>3, <2>1, <2>2, SumTake
<1>8. SizeSum(B) \in Nat
  BY <1>3, <1>4, SumNat
<1>9. SizeSum(B \cup {h, r}) = SizeSum(A)
  <2> HIDE DEF B
  <2>1. QED
    BY <1>1, <1>5, <1>6, <1>7, <1>8
<1>10. QED
  BY <1>9 DEF h, r

\* A leaf is split.
LEMMA ForestSplit ==
  ASSUME NEW par, NEW L, Forest(par, L), NEW n \in L, NEW s \in 1 .. n.size - 1,
         NEW h, NEW r, h = Head1(n, s), r = Rest(n, s), NEW par2, Adds(par2, par, h, r, n)
  PROVE  SplitInto(par2, par, n, h, r) /\ Forest(par2, (L \ {n}) \cup {h, r})
<1> DEFINE N == DOMAIN par
<1> DEFINE M == (L \ {n}) \cup {h, r}
<1>1. /\ N \subseteq NodeSet /\ IsFiniteSet(N) /\ L \subseteq N /\ IsFiniteSet(L)
      /\ None \notin N /\ n \in N /\ Nested(N, L)
  BY ForestFacts DEF Forest
<1>2. /\ h \in NodeSet /\ r \in NodeSet /\ h # r /\ h # n /\ r # n
      /\ h.block = n.block /\ r.block = n.block
  BY <1>1, HalvesFacts
<1>3. h \notin N /\ r \notin N /\ Nested(N \cup {h, r}, M)
  BY <1>1, SplitNested
<1>4. /\ DOMAIN par2 = N \cup {h, r} /\ par2[h] = n /\ par2[r] = n
      /\ \A m \in N : par2[m] = par[m] /\ par[m] \in N \cup {None}
      /\ \A m \in N : Kids(par, m) # {} =>
           \E q \in 1 .. m.size - 1 : Kids(par, m) = {Head1(m, q), Rest(m, q)}
      /\ L = {m \in N : Kids(par, m) = {}}
      /\ \A m, k \in Roots(par) : m.block = k.block => m = k
      /\ \A m \in Roots(par) : SizeSum({k \in L : k.block = m.block}) = m.size
  BY DEF Forest, Adds
<1>5. \A A \in SUBSET L : n \in A => SizeSum((A \ {n}) \cup {h, r}) = SizeSum(A)
  <2>1. TAKE A \in SUBSET L
  <2>2. HAVE n \in A
  <2>3. A \in SUBSET NodeSet /\ IsFiniteSet(A) /\ h \notin A /\ r \notin A
    BY <1>1, <1>3, FS_Subset
  <2>4. QED
    BY <2>2, <2>3, SumSplit
<1>6. \A m \in N : m \in L <=> Kids(par, m) = {}
  BY <1>4
<1>7. s \in 1 .. n.size - 1 /\ {h, r} = {Head1(n, s), Rest(n, s)}
  OBVIOUS
<1>8. None # h /\ None # r
  BY <1>2, NoneOut
<1> HIDE DEF N
<1>9. Kids(par2, n) = {h, r}
  <2>1. \A m \in N : par2[m] # n
    BY <1>1, <1>4, <1>6 DEF Kids, N
  <2>2. QED
    BY <1>4, <2>1 DEF Kids
<1>10. Kids(par2, h) = {} /\ Kids(par2, r) = {}
  BY <1>1, <1>2, <1>3, <1>4, <1>8 DEF Kids
<1>11. \A m \in N : m # n => Kids(par2, m) = Kids(par, m)
  BY <1>3, <1>4 DEF Kids, N
<1>12. Roots(par2) = Roots(par) /\ Roots(par) \subseteq N
  BY <1>1, <1>3, <1>4 DEF Roots, N
<1>13. DOMAIN par2 \subseteq NodeSet /\ IsFiniteSet(DOMAIN par2)
  <2>1. IsFiniteSet(N \cup {h})
    BY <1>1, FS_AddElement
  <2>2. IsFiniteSet((N \cup {h}) \cup {r}) /\ (N \cup {h}) \cup {r} = N \cup {h, r}
    BY <2>1, FS_AddElement
  <2>3. QED
    BY <1>1, <1>2, <1>4, <2>2
<1>14. \A m \in DOMAIN par2 : par2[m] \in (DOMAIN par2) \cup {None}
  BY <1>1, <1>4
<1>15. \A m \in DOMAIN par2 : Kids(par2, m) # {} =>
          \E q \in 1 .. m.size - 1 : Kids(par2, m) = {Head1(m, q), Rest(m, q)}
  BY <1>4, <1>7, <1>9, <1>10, <1>11
<1>16. M = {m \in DOMAIN par2 : Kids(par2, m) = {}}
  BY <1>1, <1>3, <1>4, <1>6, <1>9, <1>10, <1>11
<1>17. \A m \in Roots(par2) : SizeSum({k \in M : k.block = m.block}) = m.size
  <2>1. TAKE m \in Roots(par2)
  <2> DEFINE A == {k \in L : k.block = m.block}
  <2>2. SizeSum(A) = m.size
    BY <1>4, <1>12
  <2>3. CASE m.block = n.block
    <3>1. {k \in M : k.block = m.block} = (A \ {n}) \cup {h, r} /\ n \in A /\ A \in SUBSET L
      BY <1>2, <2>3
    <3>2. QED
      BY <1>5, <2>2, <3>1
  <2>4. CASE m.block # n.block
    <3>1. {k \in M : k.block = m.block} = A
      BY <1>2, <2>4
    <3>2. QED
      BY <2>2, <3>1
  <2>5. QED
    BY <2>3, <2>4
<1>18. Nested(DOMAIN par2, M)
  BY <1>3, <1>4
<1>19. Forest(par2, M)
  <2> HIDE DEF M
  <2>1. QED
    BY <1>4, <1>12, <1>13, <1>14, <1>15, <1>16, <1>17, <1>18 DEF Forest
<1>20. QED
  <2>1. SameKids(par2, par, n)
    BY <1>11 DEF SameKids, N
  <2>2. QED
    BY <2>1, <1>3, <1>9, <1>10, <1>12, <1>19 DEF N, SplitInto

\* The halves of a node, both leaves, are put together again.
LEMMA ForestMerge ==
  ASSUME NEW par, NEW L, Forest(par, L), NEW n \in DOMAIN par,
         Kids(par, n) # {}, Kids(par, n) \subseteq L,
         NEW par2, Restricts(par2, par, Kids(par, n))
  PROVE  /\ n \notin Kids(par, n) /\ n \in DOMAIN par2 /\ Kids(par2, n) = {}
         /\ SameKids(par2, par, n)
         /\ Roots(par2) = Roots(par)
         /\ Forest(par2, (L \ Kids(par, n)) \cup {n})
<1> DEFINE N == DOMAIN par
<1> DEFINE K == Kids(par, n)
<1> DEFINE M == (L \ K) \cup {n}
<1>1. /\ N \subseteq NodeSet /\ IsFiniteSet(N) /\ L \subseteq N /\ IsFiniteSet(L)
      /\ None \notin N /\ n \in N /\ Nested(N, L)
  BY ForestFacts DEF Forest
<1>2. /\ DOMAIN par2 = N \ K
      /\ \A m \in N \ K : par2[m] = par[m]
      /\ \A m \in N : par[m] \in N \cup {None}
      /\ \A m \in N : Kids(par, m) # {} =>
           \E q \in 1 .. m.size - 1 : Kids(par, m) = {Head1(m, q), Rest(m, q)}
      /\ L = {m \in N : Kids(par, m) = {}}
      /\ \A m, k \in Roots(par) : m.block = k.block => m = k
      /\ \A m \in Roots(par) : SizeSum({k \in L : k.block = m.block}) = m.size
  BY DEF Forest, Restricts
<1>3. PICK s \in 1 .. n.size - 1 : K = {Head1(n, s), Rest(n, s)}
  BY <1>2
<1> DEFINE h == Head1(n, s)
<1> DEFINE r == Rest(n, s)
<1>4. /\ h \in NodeSet /\ r \in NodeSet /\ h # r /\ h # n /\ r # n
      /\ h.block = n.block /\ r.block = n.block
  BY <1>1, HalvesFacts
<1>5. K = {h, r} /\ h \in L /\ r \in L
  BY <1>3
<1>6. Nested(N \ {h, r}, M)
  BY <1>1, <1>3, <1>5, MergeNested
<1>7. \A A \in SUBSET L : h \in A /\ r \in A => SizeSum((A \ K) \cup {n}) = SizeSum(A)
  <2>1. TAKE A \in SUBSET L
  <2>2. HAVE h \in A /\ r \in A
  <2> DEFINE B == (A \ K) \cup {n}
  <2>3. n \notin L
    BY <1>2
  <2>4. B \in SUBSET NodeSet /\ IsFiniteSet(B) /\ n \in B /\ h \notin B /\ r \notin B
    <3>1. IsFiniteSet(A \ K)
      BY <1>1, FS_Subset
    <3>2. IsFiniteSet(B)
      BY <3>1, FS_AddElement
    <3>3. QED
      BY <1>1, <1>4, <1>5, <3>2
  <2>5. SizeSum((B \ {n}) \cup {h, r}) = SizeSum(B)
    BY <2>4, SumSplit
  <2>6. (B \ {n}) \cup {h, r} = A
    BY <1>5, <2>2, <2>3
  <2>7. QED
    BY <2>5, <2>6
<1>8. \A m \in N : m \in L <=> Kids(par, m) = {}
  BY <1>2
<1>9. \A m \in K : par[m] = n /\ Kids(par, m) = {}
  BY <1>8, <1>5, <1>1 DEF Kids
<1>10. n \notin K /\ n \in N \ K
  BY <1>4, <1>5
<1> HIDE DEF h, r
<1>11. Kids(par2, n) = {}
  BY <1>1, <1>2 DEF Kids
<1>12. \A m \in N \ K : m # n => Kids(par2, m) = Kids(par, m)
  BY <1>2 DEF Kids
<1> HIDE DEF N, K
<1>13. Roots(par2) = Roots(par) /\ Roots(par) \subseteq N \ K
  BY <1>1, <1>2, <1>9 DEF Roots, N
<1>14. DOMAIN par2 \subseteq NodeSet /\ IsFiniteSet(DOMAIN par2)
  BY <1>1, <1>2, FS_Subset
<1>15. \A m \in DOMAIN par2 : par2[m] \in (DOMAIN par2) \cup {None}
  <2>1. TAKE m \in DOMAIN par2
  <2>2. m \in N /\ m \notin K /\ par2[m] = par[m] /\ par[m] \in N \cup {None}
    BY <1>2
  <2>3. par[m] \notin K
    <3>1. ASSUME par[m] \in K PROVE FALSE
      <4>1. m \in Kids(par, par[m])
        BY <2>2 DEF Kids, N
      <4>2. QED
        BY <1>9, <3>1, <4>1
    <3>2. QED
      BY <3>1
  <2>4. QED
    BY <1>2, <2>2, <2>3
<1>16. \A m \in DOMAIN par2 : Kids(par2, m) # {} =>
          \E q \in 1 .. m.size - 1 : Kids(par2, m) = {Head1(m, q), Rest(m, q)}
  BY <1>2, <1>11, <1>12
<1>17. M = {m \in DOMAIN par2 : Kids(par2, m) = {}}
  BY <1>1, <1>2, <1>8, <1>10, <1>11, <1>12
<1>18. \A m \in Roots(par2) : SizeSum({k \in M : k.block = m.block}) = m.size
  <2>1. TAKE m \in Roots(par2)
  <2> DEFINE A == {k \in L : k.block = m.block}
  <2>2. SizeSum(A) = m.size
    BY <1>2, <1>13
  <2>3. CASE m.block = n.block
    <3>1. {k \in M : k.block = m.block} = (A \ K) \cup {n} /\ h \in A /\ r \in A /\ A \in SUBSET L
      BY <1>4, <1>5, <2>3
    <3>2. QED
      BY <1>7, <2>2, <3>1
  <2>4. CASE m.block # n.block
    <3>1. {k \in M : k.block = m.block} = A
      BY <1>4, <1>5, <2>4
    <3>2. QED
      BY <2>2, <3>1
  <2>5. QED
    BY <2>3, <2>4
<1>19. Nested(DOMAIN par2, M)
  BY <1>2, <1>5, <1>6
<1>20. Forest(par2, M)
  <2> HIDE DEF M
  <2>1. QED
    BY <1>2, <1>13, <1>14, <1>15, <1>16, <1>17, <1>18, <1>19 DEF Forest
<1>21. QED
  <2>1. SameKids(par2, par, n)
    BY <1>2, <1>12 DEF SameKids
  <2>2. QED
    BY <2>1, <1>2, <1>10, <1>11, <1>13, <1>20 DEF N, K


\* A block comes in, as one leaf.
LEMMA ForestBlock ==
  ASSUME NEW par, NEW L, Forest(par, L), NEW n \in NodeSet,
         \A m \in DOMAIN par : m.block # n.block,
         NEW par2, Adds(par2, par, n, n, None)
  PROVE  NewRoot(par2, par, n) /\ Forest(par2, L \cup {n})
<1> DEFINE N == DOMAIN par
<1> DEFINE M == L \cup {n}
<1>1. /\ N \subseteq NodeSet /\ IsFiniteSet(N) /\ L \subseteq N /\ IsFiniteSet(L)
      /\ None \notin N /\ n \notin N /\ None # n /\ Nested(N, L)
  BY ForestFacts, NoneOut DEF Forest
<1>2. /\ DOMAIN par2 = N \cup {n}
      /\ \A m \in N : par2[m] = par[m]
      /\ \A m \in N : par[m] \in N \cup {None}
      /\ \A m \in N : Kids(par, m) # {} =>
           \E q \in 1 .. m.size - 1 : Kids(par, m) = {Head1(m, q), Rest(m, q)}
      /\ L = {m \in N : Kids(par, m) = {}}
      /\ \A m, k \in Roots(par) : m.block = k.block => m = k
      /\ \A m \in Roots(par) : SizeSum({k \in L : k.block = m.block}) = m.size
      /\ \A m \in N : m.block # n.block
      /\ par2[n] = None
  BY DEF Forest, Adds
<1> HIDE DEF N
<1>3. Kids(par2, n) = {}
  BY <1>1, <1>2 DEF Kids
<1>4. \A m \in N : Kids(par2, m) = Kids(par, m)
  BY <1>1, <1>2 DEF Kids, N
<1>5. Roots(par2) = Roots(par) \cup {n} /\ Roots(par) \subseteq N
  BY <1>1, <1>2 DEF Roots, N
<1>6. DOMAIN par2 \subseteq NodeSet /\ IsFiniteSet(DOMAIN par2)
  <2>1. IsFiniteSet(N \cup {n})
    BY <1>1, FS_AddElement
  <2>2. QED
    BY <1>1, <1>2, <2>1
<1>7. \A m \in DOMAIN par2 : par2[m] \in (DOMAIN par2) \cup {None}
  BY <1>2
<1>8. \A m \in DOMAIN par2 : Kids(par2, m) # {} =>
          \E q \in 1 .. m.size - 1 : Kids(par2, m) = {Head1(m, q), Rest(m, q)}
  BY <1>2, <1>3, <1>4
<1>9. M = {m \in DOMAIN par2 : Kids(par2, m) = {}}
  BY <1>2, <1>3, <1>4
<1>10. \A m, k \in Roots(par2) : m.block = k.block => m = k
  BY <1>2, <1>5
<1>11. Nested(DOMAIN par2, M)
  BY <1>1, <1>2, BlockNested
<1>12. \A m \in Roots(par2) : SizeSum({k \in M : k.block = m.block}) = m.size
  <2>1. TAKE m \in Roots(par2)
  <2>2. CASE m = n
    <3>1. {k \in M : k.block = m.block} = {n}
      BY <1>1, <1>2, <2>2
    <3>2. SizeSum({n}) = n.size + SizeSum({})
      <4>1. n.size \in Nat /\ {n} \ {n} = {} /\ IsFiniteSet({n})
        BY FS_Singleton DEF NodeSet
      <4>2. QED
        BY <4>1, SumTake
    <3>3. SizeSum({}) = 0
      BY SumUnfolds, FS_EmptySet
    <3>4. n.size \in Nat
      BY DEF NodeSet
    <3>5. SizeSum({n}) = n.size
      BY <3>2, <3>3, <3>4
    <3>6. QED
      BY <2>2, <3>1, <3>5
  <2>3. CASE m \in Roots(par)
    <3>1. {k \in M : k.block = m.block} = {k \in L : k.block = m.block}
      BY <1>2, <1>5, <2>3
    <3>2. QED
      BY <1>2, <2>3, <3>1
  <2>4. QED
    BY <1>5, <2>2, <2>3
<1>13. Forest(par2, M)
  <2> HIDE DEF M
  <2>1. QED
    BY <1>6, <1>7, <1>8, <1>9, <1>10, <1>11, <1>12 DEF Forest
<1>14. QED
  <2>1. SameKids(par2, par, n)
    BY <1>4 DEF SameKids, N
  <2>2. QED
    BY <2>1, <1>1, <1>3, <1>5, <1>13 DEF N, NewRoot

\* Blocks that are one leaf go.
LEMMA ForestRelease ==
  ASSUME NEW par, NEW L, Forest(par, L), NEW R \in SUBSET (L \cap Roots(par)),
         NEW par2, Restricts(par2, par, R)
  PROVE  /\ SameKids(par2, par, None)
         /\ Roots(par2) = Roots(par) \ R
         /\ Forest(par2, L \ R)
<1> DEFINE N == DOMAIN par
<1> DEFINE M == L \ R
<1>1. /\ N \subseteq NodeSet /\ IsFiniteSet(N) /\ L \subseteq N /\ IsFiniteSet(L)
      /\ None \notin N /\ Nested(N, L)
  BY ForestFacts DEF Forest
<1>2. /\ DOMAIN par2 = N \ R
      /\ \A m \in N \ R : par2[m] = par[m]
      /\ \A m \in N : par[m] \in N \cup {None}
      /\ \A m \in N : Kids(par, m) # {} =>
           \E q \in 1 .. m.size - 1 : Kids(par, m) = {Head1(m, q), Rest(m, q)}
      /\ L = {m \in N : Kids(par, m) = {}}
      /\ \A m, k \in Roots(par) : m.block = k.block => m = k
      /\ \A m \in Roots(par) : SizeSum({k \in L : k.block = m.block}) = m.size
  BY DEF Forest, Restricts
<1>3. \A m \in R : m \in L /\ m \in Roots(par) /\ par[m] = None /\ Kids(par, m) = {}
  BY <1>2 DEF Roots
<1>4. \A m \in N : par[m] \notin R
  BY <1>3 DEF Kids
<1> HIDE DEF N
<1>5. \A m \in N \ R : Kids(par2, m) = Kids(par, m)
  BY <1>1, <1>2, <1>3 DEF Kids, N
<1>6. Roots(par2) = Roots(par) \ R /\ Roots(par) \subseteq N
  BY <1>1, <1>2 DEF Roots, N
<1>7. DOMAIN par2 \subseteq NodeSet /\ IsFiniteSet(DOMAIN par2)
  BY <1>1, <1>2, FS_Subset
<1>8. \A m \in DOMAIN par2 : par2[m] \in (DOMAIN par2) \cup {None}
  BY <1>2, <1>4
<1>9. \A m \in DOMAIN par2 : Kids(par2, m) # {} =>
          \E q \in 1 .. m.size - 1 : Kids(par2, m) = {Head1(m, q), Rest(m, q)}
  BY <1>2, <1>5
<1>10. M = {m \in DOMAIN par2 : Kids(par2, m) = {}}
  BY <1>2, <1>5
<1>11. \A m, k \in Roots(par2) : m.block = k.block => m = k
  BY <1>2, <1>6
<1>12. Nested(DOMAIN par2, M)
  BY <1>1, <1>2, LessNested
<1>13. \A m \in Roots(par2) : SizeSum({k \in M : k.block = m.block}) = m.size
  <2>1. TAKE m \in Roots(par2)
  <2>2. {k \in M : k.block = m.block} = {k \in L : k.block = m.block}
    BY <1>2, <1>3, <1>6
  <2>3. QED
    BY <1>2, <1>6, <2>2
<1>14. Forest(par2, M)
  <2> HIDE DEF M
  <2>1. QED
    BY <1>7, <1>8, <1>9, <1>10, <1>11, <1>12, <1>13 DEF Forest
<1>15. QED
  <2>1. SameKids(par2, par, None)
    BY <1>2, <1>5 DEF SameKids
  <2>2. QED
    BY <2>1, <1>2, <1>6, <1>14 DEF N
-----------------------------------------------------------------------------
(* Use counts.                                                              *)

\* What TypeOK and HeapInv say of parents, halves and lists.
LEMMA HeapFacts ==
  ASSUME TypeOK, HeapInv
  PROVE  /\ Nodes \subseteq NodeSet /\ None \notin Nodes /\ DOMAIN useCount = Nodes
         /\ Leaves \subseteq Nodes /\ mFreeList \subseteq Leaves
         /\ \A n \in Nodes : n \in Leaves <=> Kids(parent, n) = {}
         /\ \A n \in Nodes : parent[n] \in Nodes \cup {None} /\ parent[n] # n /\ useCount[n] \in Nat
         /\ \A n \in Nodes : parent[n] # None => n \in Kids(parent, parent[n])
         /\ \A n \in Nodes : \A k \in Kids(parent, n) : k \in Nodes /\ parent[k] = n
         /\ \A n \in Nodes : Kids(parent, n) # {} =>
              \E h, r \in Nodes : /\ Kids(parent, n) = {h, r} /\ h # r
                                  /\ h.size < n.size /\ r.size < n.size
<1>1. /\ Nodes \subseteq NodeSet /\ Leaves \subseteq Nodes /\ mFreeList \subseteq Leaves
      /\ \A n \in Nodes : parent[n] \in Nodes \cup {None}
      /\ \A n \in Nodes : n \in Leaves <=> Kids(parent, n) = {}
  <2>1. mFreeList \subseteq Leaves
    BY DEF Leaves
  <2>2. QED
    BY <2>1 DEF HeapInv, Forest, Nodes
<1>2. None \notin Nodes
  BY <1>1, NoneOut
<1>3. \A n \in Nodes : Kids(parent, n) # {} =>
         \E s \in 1 .. n.size - 1 : Kids(parent, n) = {Head1(n, s), Rest(n, s)}
  BY DEF HeapInv, Forest, Nodes
<1>4. \A n \in Nodes : \A k \in Kids(parent, n) : k \in Nodes /\ parent[k] = n
  BY DEF Kids, Nodes
<1>5. \A n \in Nodes : parent[n] # None => n \in Kids(parent, parent[n])
  BY DEF Kids, Nodes
<1>6. ASSUME NEW n \in Nodes, Kids(parent, n) # {}
      PROVE  \E h, r \in Nodes : /\ Kids(parent, n) = {h, r} /\ h # r /\ h # n /\ r # n
                                 /\ h.size < n.size /\ r.size < n.size
  <2>1. PICK s \in 1 .. n.size - 1 : Kids(parent, n) = {Head1(n, s), Rest(n, s)}
    BY <1>3, <1>6
  <2> DEFINE h == Head1(n, s)
  <2> DEFINE r == Rest(n, s)
  <2>2. n \in NodeSet
    BY <1>1
  <2>3. /\ h # r /\ h # n /\ r # n /\ h.size = s /\ r.size = n.size - s
    BY <2>2, HalvesFacts
  <2>4. n.size \in Nat /\ s \in 1 .. n.size - 1
    BY <2>2 DEF NodeSet
  <2> HIDE DEF h, r
  <2>5. h \in Nodes /\ r \in Nodes
    BY <1>4, <2>1 DEF h, r
  <2>6. h.size < n.size /\ r.size < n.size
    BY <2>3, <2>4
  <2>7. Kids(parent, n) = {h, r}
    BY <2>1 DEF h, r
  <2>8. QED
    BY <2>3, <2>5, <2>6, <2>7
<1>7. \A n \in Nodes : n \notin Kids(parent, n)
  BY <1>6
<1>8. \A n \in Nodes : parent[n] # n
  BY <1>2, <1>5, <1>7
<1>9. DOMAIN useCount = Nodes /\ \A n \in Nodes : useCount[n] \in Nat
  BY DEF TypeOK
<1>10. QED
  BY <1>1, <1>2, <1>4, <1>5, <1>6, <1>8, <1>9

\* A free leaf is taken as a whole.
LEMMA CountTake ==
  ASSUME TypeOK, HeapInv, CountInv, up = None, NEW n \in mFreeList,
         mFreeList' = mFreeList \ {n}, useCount' = CountUsed(n), UNCHANGED <<parent, up>>
  PROVE  CountInv'
<1> DEFINE p == parent[n]
<1>1. /\ n \in Nodes /\ Kids(parent, n) = {} /\ None \notin Nodes
      /\ DOMAIN useCount = Nodes /\ \A m \in Nodes : useCount[m] \in Nat
      /\ p \in Nodes \cup {None} /\ (p \in Nodes => n \in Kids(parent, p))
      /\ \A m \in Nodes : \A k \in Kids(parent, m) : k \in Nodes /\ parent[k] = m
  BY HeapFacts
<1>2. Nodes' = Nodes /\ \A m : Kids(parent, m)' = Kids(parent, m)
  BY DEF Nodes, Kids
<1>3. \A m \in Nodes : useCount'[m] = IF m = p THEN useCount[m] + 1 ELSE useCount[m]
  BY <1>1 DEF CountUsed
<1>4. \A m \in Nodes : Kids(parent, m) = {} => useCount'[m] = 0
  BY <1>1, <1>3 DEF CountInv
<1>5. ASSUME NEW m \in Nodes, NEW h \in Nodes, NEW r \in Nodes, Kids(parent, m) = {h, r}, h # r
      PROVE  useCount'[m] = Out(h)' + Out(r)'
  <2>1. useCount[m] = Out(h) + Out(r)
    BY <1>1, <1>5 DEF CountInv, Out
  <2>2. CASE m = p
    BY <1>1, <1>3, <1>5, <2>1, <2>2 DEF Out
  <2>3. CASE m # p
    BY <1>1, <1>3, <1>5, <2>1, <2>3 DEF Out
  <2>4. QED
    BY <2>2, <2>3
<1>6. \A m \in Nodes : Kids(parent, m) # {} => useCount'[m] > 0
  BY <1>1, <1>3 DEF CountInv
<1>7. \A h : Out(h)' \in Nat
  BY DEF Out
<1>8. QED
  BY <1>1, <1>2, <1>4, <1>5, <1>6, <1>7 DEF CountInv

\* A leaf goes to the list: its parent's count is out by one until it is lowered.
LEMMA CountReturn ==
  ASSUME TypeOK, HeapInv, CountInv, up = None, NEW n \in Leaves, n \notin mFreeList,
         ReturnMemory(n)
  PROVE  CountInv'
<1> DEFINE p == parent[n]
<1>1. /\ n \in Nodes /\ Kids(parent, n) = {} /\ None \notin Nodes
      /\ p \in Nodes \cup {None} /\ (p \in Nodes => n \in Kids(parent, p))
      /\ \A m \in Nodes : \A k \in Kids(parent, m) : k \in Nodes /\ parent[k] = m
  BY HeapFacts
<1>2. mFreeList' = mFreeList \cup {n} /\ up' = p /\ parent' = parent /\ useCount' = useCount
  BY DEF ReturnMemory
<1>3. Nodes' = Nodes /\ \A m : Kids(parent, m)' = Kids(parent, m)
  BY <1>2 DEF Nodes, Kids
<1>4. ASSUME NEW m \in Nodes, NEW h \in Nodes, NEW r \in Nodes, Kids(parent, m) = {h, r}, h # r
      PROVE  useCount'[m] = Out(h)' + Out(r)' + (IF up' = m THEN 1 ELSE 0)
  <2>1. useCount[m] = Out(h) + Out(r)
    BY <1>1, <1>4 DEF CountInv, Out
  <2>2. CASE m = p
    BY <1>1, <1>2, <1>4, <2>1, <2>2 DEF Out
  <2>3. CASE m # p
    BY <1>1, <1>2, <1>4, <2>1, <2>3 DEF Out
  <2>4. QED
    BY <2>2, <2>3
<1>5. up' # None => Kids(parent, up') # {}
  BY <1>1, <1>2
<1>6. QED
  BY <1>2, <1>3, <1>4, <1>5 DEF CountInv

\* A node that has lost its last user has both its halves in the list.
LEMMA MergeFacts ==
  ASSUME TypeOK, HeapInv, CountInv, up # None, Merges(useCount[up])
  PROVE  /\ {m \in mFreeList : parent[m] = up} = Kids(parent, up)
         /\ up \in Nodes /\ up \notin Leaves /\ useCount[up] = 1 /\ Kids(parent, up) # {}
<1>1. up \in Nodes /\ Kids(parent, up) # {} /\ useCount[up] = 1 /\ up \notin Leaves
  BY HeapFacts DEF TypeOK, CountInv, Merges
<1>2. PICK h \in Nodes, r \in Nodes : Kids(parent, up) = {h, r} /\ h # r
  BY <1>1, HeapFacts
<1>3. useCount[up] = Out(h) + Out(r) + 1
  BY <1>1, <1>2 DEF CountInv
<1>4. h \in mFreeList /\ r \in mFreeList
  BY <1>1, <1>3 DEF Out
<1>5. {m \in mFreeList : parent[m] = up} \subseteq Kids(parent, up)
  <2>1. mFreeList \subseteq Nodes
    BY HeapFacts
  <2>2. QED
    BY <2>1 DEF Kids, Nodes
<1>6. Kids(parent, up) \subseteq {m \in mFreeList : parent[m] = up}
  BY <1>1, <1>2, <1>4, HeapFacts
<1>7. QED
  BY <1>1, <1>5, <1>6

\* A turn of the loop that puts two halves together.
LEMMA CountMerge ==
  ASSUME TypeOK, HeapInv, CountInv, up # None, Merges(useCount[up]), MergeUp
  PROVE  CountInv'
<1> DEFINE K == Kids(parent, up)
<1> DEFINE p == parent[up]
<1>1. /\ {m \in mFreeList : parent[m] = up} = K /\ up \in Nodes /\ up \notin Leaves
      /\ useCount[up] = 1 /\ K # {} /\ up \notin mFreeList
  BY MergeFacts, HeapFacts
<1>2. /\ mFreeList' = (mFreeList \ K) \cup {up}
      /\ parent' = [m \in Nodes \ K |-> parent[m]]
      /\ useCount' = [m \in Nodes \ K |-> IF m = up THEN useCount[m] - 1 ELSE useCount[m]]
      /\ up' = p
  BY <1>1 DEF MergeUp
<1>3. /\ None \notin Nodes /\ K \subseteq Leaves /\ Leaves \subseteq Nodes
      /\ p \in Nodes \cup {None} /\ p # up /\ (p \in Nodes => up \in Kids(parent, p))
      /\ \A m \in Nodes : \A k \in Kids(parent, m) : k \in Nodes /\ parent[k] = m
  BY <1>1, HeapFacts
<1>4. /\ up \notin K /\ up \in DOMAIN parent' /\ Kids(parent', up) = {}
      /\ \A m \in DOMAIN parent' : m # up => Kids(parent', m) = Kids(parent, m)
  <2>1. Forest(parent, Leaves) /\ up \in DOMAIN parent /\ K # {} /\ K \subseteq Leaves
    BY <1>1, <1>3 DEF HeapInv, Nodes
  <2>2. Restricts(parent', parent, K)
    BY <1>2 DEF Nodes, Restricts
  <2>3. up \notin K /\ up \in DOMAIN parent' /\ Kids(parent', up) = {} /\ SameKids(parent', parent, up)
    BY <2>1, <2>2, ForestMerge
  <2>4. QED
    BY <2>2, <2>3 DEF SameKids, Restricts
<1>5. Nodes' = Nodes \ K
  BY <1>2 DEF Nodes
<1>6. \A m \in Nodes' : useCount'[m] = IF m = up THEN 0 ELSE useCount[m]
  BY <1>1, <1>2, <1>5
<1> HIDE DEF K
<1>7. \A m \in Nodes' : Kids(parent', m) = {} => useCount'[m] = 0
  BY <1>4, <1>5, <1>6 DEF CountInv, Nodes
<1>8. ASSUME NEW m \in Nodes', NEW h \in Nodes', NEW r \in Nodes', Kids(parent', m) = {h, r}, h # r
      PROVE  useCount'[m] = Out(h)' + Out(r)' + (IF up' = m THEN 1 ELSE 0)
  <2>1. m # up /\ m \in Nodes /\ Kids(parent, m) = {h, r} /\ h \in Nodes /\ r \in Nodes /\ h \notin K /\ r \notin K
    BY <1>4, <1>5, <1>8 DEF Nodes
  <2>2. useCount'[m] = Out(h) + Out(r)
    BY <1>6, <1>8, <2>1 DEF CountInv, Out
  <2>3. CASE m = p
    BY <1>1, <1>2, <1>3, <1>8, <2>1, <2>2, <2>3 DEF Out
  <2>4. CASE m # p
    BY <1>1, <1>2, <1>3, <1>8, <2>1, <2>2, <2>4 DEF Out
  <2>5. QED
    BY <2>3, <2>4
<1>9. \A m \in Nodes' : Kids(parent', m) # {} => useCount'[m] > 0
  BY <1>4, <1>5, <1>6 DEF CountInv, Nodes
<1>10. up' # None => Kids(parent', up') # {}
  <2>1. ASSUME p # None PROVE Kids(parent', p) # {}
    <3>1. p \in Nodes /\ up \in Kids(parent, p) /\ p \notin K
      <4>1. p \in Nodes /\ up \in Kids(parent, p)
        BY <1>3, <2>1
      <4>2. Kids(parent, p) # {}
        BY <4>1
      <4>3. p \notin Leaves
        BY <4>1, <4>2, HeapFacts
      <4>4. QED
        BY <1>3, <4>1, <4>3
    <3>2. Kids(parent', p) = Kids(parent, p)
      BY <1>3, <1>4, <1>5, <3>1 DEF Nodes
    <3>3. QED
      BY <3>1, <3>2
  <2>2. QED
    BY <1>2, <2>1
<1>11. QED
  BY <1>7, <1>8, <1>9, <1>10 DEF CountInv

\* A turn of the loop that stops.
LEMMA CountLower ==
  ASSUME TypeOK, HeapInv, CountInv, up # None, ~Merges(useCount[up]), MergeUp
  PROVE  CountInv'
<1>1. /\ useCount' = [useCount EXCEPT ![up] = @ - 1] /\ up' = None
      /\ parent' = parent /\ mFreeList' = mFreeList
  BY DEF MergeUp
<1>2. /\ up \in Nodes /\ Kids(parent, up) # {} /\ useCount[up] \in Nat /\ useCount[up] > 0 /\ useCount[up] # 1
      /\ DOMAIN useCount = Nodes /\ None \notin Nodes /\ \A m \in Nodes : useCount[m] \in Nat
  BY HeapFacts DEF TypeOK, CountInv, Merges
<1>3. \A m \in Nodes : useCount'[m] = IF m = up THEN useCount[m] - 1 ELSE useCount[m]
  BY <1>1, <1>2
<1>4. Nodes' = Nodes /\ (\A m : Kids(parent, m)' = Kids(parent, m)) /\ \A h : Out(h)' = Out(h) /\ Out(h) \in 0 .. 1
  BY <1>1 DEF Nodes, Kids, Out
<1>5. \A m \in Nodes : Kids(parent, m) = {} => useCount'[m] = 0
  BY <1>2, <1>3 DEF CountInv
<1>6. ASSUME NEW m \in Nodes, NEW h \in Nodes, NEW r \in Nodes, Kids(parent, m) = {h, r}, h # r
      PROVE  useCount'[m] = Out(h) + Out(r)
  <2>1. useCount[m] = Out(h) + Out(r) + (IF up = m THEN 1 ELSE 0)
    BY <1>6 DEF CountInv
  <2>2. QED
    BY <1>2, <1>3, <1>4, <2>1
<1>7. \A m \in Nodes : Kids(parent, m) # {} => useCount'[m] > 0
  BY <1>2, <1>3 DEF CountInv
<1>8. \A m, h, r \in Nodes : Kids(parent, m) = {h, r} /\ h # r =>
         useCount'[m] = Out(h) + Out(r) + (IF up' = m THEN 1 ELSE 0)
  BY <1>1, <1>2, <1>4, <1>6
<1>9. QED
  BY <1>1, <1>4, <1>5, <1>7, <1>8 DEF CountInv

\* The heap when leaf n is split.
LEMMA SplitHeap ==
  ASSUME HeapInv, NEW n \in Leaves, NEW s \in 1 .. n.size - 1, parent' = WithChildren(parent, n, s, n)
  PROVE  LET h == Head1(n, s)
             r == Rest(n, s)
         IN  /\ h \notin Nodes /\ r \notin Nodes /\ h # r
             /\ Nodes' = Nodes \cup {h, r}
             /\ Kids(parent', n) = {h, r} /\ Kids(parent', h) = {} /\ Kids(parent', r) = {}
             /\ \A m \in Nodes : m # n => Kids(parent', m) = Kids(parent, m)
             /\ Roots(parent') = Roots(parent)
             /\ Forest(parent', (Leaves \ {n}) \cup {h, r})
<1> DEFINE h == Head1(n, s)
<1> DEFINE r == Rest(n, s)
<1>1. Nested(Nodes, Leaves) /\ Nodes \in SUBSET NodeSet /\ Leaves \in SUBSET Nodes /\ n \in NodeSet
  BY ForestFacts DEF HeapInv, Forest, Nodes
<1>2. h \notin Nodes /\ r \notin Nodes /\ h # r
  BY <1>1, SplitNested, HalvesFacts
<1>3. Adds(parent', parent, h, r, n)
  <2> HIDE DEF h, r
  <2>1. parent' = [m \in (DOMAIN parent) \cup {h, r} |-> IF m \in DOMAIN parent THEN parent[m] ELSE n]
    BY DEF WithChildren, h, r
  <2>2. QED
    BY <1>2, <2>1 DEF Nodes, Adds
<1>4. SplitInto(parent', parent, n, h, r) /\ Forest(parent', (Leaves \ {n}) \cup {h, r})
  <2>1. Forest(parent, Leaves) /\ h = Head1(n, s) /\ r = Rest(n, s)
    BY DEF HeapInv
  <2> HIDE DEF h, r
  <2>2. QED
    BY <1>3, <2>1, ForestSplit
<1>5. Nodes' = Nodes \cup {h, r}
  BY <1>3 DEF Nodes, Adds
<1>6. \A m \in Nodes : m # n => Kids(parent', m) = Kids(parent, m)
  BY <1>4, <1>5 DEF SplitInto, SameKids, Nodes
<1>7. QED
  BY <1>2, <1>4, <1>5, <1>6 DEF SplitInto

\* A free leaf is split, and its front half is taken.
LEMMA CountSplit ==
  ASSUME TypeOK, HeapInv, CountInv, up = None, NEW n \in mFreeList, NEW s \in 1 .. n.size - 1,
         mFreeList' = (mFreeList \ {n}) \cup {Rest(n, s)},
         useCount' = WithChildren([CountUsed(n) EXCEPT ![n] = @ + 1], n, s, 0),
         parent' = WithChildren(parent, n, s, n), up' = up
  PROVE  CountInv'
<1> DEFINE a == Head1(n, s)
<1> DEFINE b == Rest(n, s)
<1> DEFINE p == parent[n]
<1>1. /\ n \in Nodes /\ n \in Leaves /\ Kids(parent, n) = {} /\ None \notin Nodes /\ mFreeList \subseteq Nodes
      /\ DOMAIN useCount = Nodes /\ \A m \in Nodes : useCount[m] \in Nat
      /\ p \in Nodes \cup {None} /\ (p \in Nodes => n \in Kids(parent, p)) /\ p # n
      /\ \A m \in Nodes : \A k \in Kids(parent, m) : k \in Nodes /\ parent[k] = m
  BY HeapFacts
<1>2. /\ a \notin Nodes /\ b \notin Nodes /\ a # b
      /\ Nodes' = Nodes \cup {a, b}
      /\ Kids(parent', n) = {a, b} /\ Kids(parent', a) = {} /\ Kids(parent', b) = {}
      /\ \A m \in Nodes : m # n => Kids(parent', m) = Kids(parent, m)
  BY <1>1, SplitHeap
<1>3. /\ \A m \in Nodes : useCount'[m] = IF m = p \/ m = n THEN useCount[m] + 1 ELSE useCount[m]
      /\ useCount'[a] = 0 /\ useCount'[b] = 0
  <2> DEFINE u == [CountUsed(n) EXCEPT ![n] = @ + 1]
  <2>1. DOMAIN u = Nodes /\ \A m \in Nodes : u[m] = IF m = p \/ m = n THEN useCount[m] + 1 ELSE useCount[m]
    BY <1>1 DEF CountUsed
  <2> HIDE DEF u, a, b
  <2>2. useCount' = [m \in (DOMAIN u) \cup {a, b} |-> IF m \in DOMAIN u THEN u[m] ELSE 0]
    BY DEF WithChildren, u, a, b
  <2>3. QED
    BY <1>2, <2>1, <2>2
<1>4. mFreeList' = (mFreeList \ {n}) \cup {b}
  OBVIOUS
<1> HIDE DEF a, b
<1>5. /\ useCount[n] = 0
      /\ \A m \in Nodes : (Kids(parent, m) = {} => useCount[m] = 0) /\ (Kids(parent, m) # {} => useCount[m] > 0)
      /\ \A m \in Nodes : m = p => Kids(parent, m) # {}
  BY <1>1 DEF CountInv
<1>6. Out(a)' = 1 /\ Out(b)' = 0
  BY <1>1, <1>2, <1>4 DEF Out
<1>7. ASSUME NEW m \in Nodes'
      PROVE  (Kids(parent', m) = {} => useCount'[m] = 0) /\ (Kids(parent', m) # {} => useCount'[m] > 0)
  <2>1. CASE m \in {a, b}
    BY <1>2, <1>3, <2>1
  <2>2. CASE m = n
    <3>1. Kids(parent', n) # {} /\ useCount'[n] = useCount[n] + 1
      BY <1>1, <1>2, <1>3
    <3>2. QED
      BY <1>5, <2>2, <3>1
  <2>3. CASE m \in Nodes /\ m # n
    <3>1. /\ Kids(parent', m) = Kids(parent, m) /\ useCount[m] \in Nat
          /\ useCount'[m] = IF m = p THEN useCount[m] + 1 ELSE useCount[m]
      BY <1>1, <1>2, <1>3, <2>3
    <3>2. QED
      BY <1>5, <2>3, <3>1
  <2>4. QED
    BY <1>2, <1>7, <2>1, <2>2, <2>3
<1>8. ASSUME NEW m \in Nodes', NEW h \in Nodes', NEW r \in Nodes', Kids(parent', m) = {h, r}, h # r
      PROVE  useCount'[m] = Out(h)' + Out(r)'
  <2>1. CASE m = n
    <3>1. (h = a /\ r = b) \/ (h = b /\ r = a)
      BY <1>2, <1>8, <2>1
    <3>2. useCount'[m] = 1
      <4>1. useCount'[n] = useCount[n] + 1
        BY <1>1, <1>3
      <4>2. QED
        BY <1>5, <2>1, <4>1
    <3>3. QED
      BY <1>6, <3>1, <3>2
  <2>2. CASE m # n /\ m \in Nodes
    <3>1. Kids(parent, m) = {h, r} /\ h \in Nodes /\ r \in Nodes /\ parent[h] = m /\ parent[r] = m
      BY <1>1, <1>2, <1>8, <2>2
    <3>2. useCount[m] = Out(h) + Out(r)
      BY <1>1, <1>8, <2>2, <3>1 DEF CountInv, Out
    <3> DEFINE out(k) == IF k = n THEN 1 ELSE Out(k)
    <3>3. \A k \in Nodes : Out(k)' = out(k) /\ Out(k) \in 0 .. 1
      BY <1>2, <1>4 DEF Out
    <3>4. Out(n) = 0
      BY DEF Out
    <3>5. CASE m = p
      <4>1. useCount'[m] = useCount[m] + 1 /\ n \in {h, r}
        BY <1>1, <1>3, <2>2, <3>1, <3>5
      <4>2. QED
        BY <1>8, <3>1, <3>2, <3>3, <3>4, <4>1
    <3>6. CASE m # p
      <4>1. useCount'[m] = useCount[m] /\ n \notin {h, r}
        BY <1>3, <2>2, <3>1, <3>6
      <4>2. QED
        BY <3>1, <3>2, <3>3, <4>1
    <3>7. QED
      BY <3>5, <3>6
  <2>3. CASE m \in {a, b}
    BY <1>2, <1>8, <2>3
  <2>4. QED
    BY <1>2, <1>8, <2>1, <2>2, <2>3
<1>9. up' = None /\ None \notin Nodes'
  <2>1. a \in NodeSet /\ b \in NodeSet
    BY <1>1, HalvesFacts, HeapFacts DEF a, b
  <2>2. QED
    BY <1>1, <1>2, <2>1, NoneOut
<1>10. \A m, h, r \in Nodes' : Kids(parent', m) = {h, r} /\ h # r =>
         useCount'[m] = Out(h)' + Out(r)' + (IF up' = m THEN 1 ELSE 0)
  <2> TAKE m, h, r \in Nodes'
  <2> HAVE Kids(parent', m) = {h, r} /\ h # r
  <2>1. Out(h)' \in Nat /\ Out(r)' \in Nat
    BY DEF Out
  <2>2. useCount'[m] = Out(h)' + Out(r)'
    BY <1>8, ZenonT(40)
  <2>4. up' # m
    BY <1>9
  <2>3. QED
    BY <2>1, <2>2, <2>4
<1>11. QED
  BY <1>7, <1>9, <1>10 DEF CountInv

\* Blocks that are one leaf are given back.
LEMMA CountRelease ==
  ASSUME TypeOK, HeapInv, CountInv, up = None, Release
  PROVE  CountInv'
<1> DEFINE R == Releasable
<1>1. /\ parent' = [m \in Nodes \ R |-> parent[m]] /\ useCount' = [m \in Nodes \ R |-> useCount[m]]
      /\ mFreeList' = mFreeList \ R /\ up' = None
  BY DEF Release
<1>2. /\ R \subseteq mFreeList /\ mFreeList \subseteq Leaves /\ Leaves \subseteq Nodes /\ None \notin Nodes
      /\ \A m \in R : parent[m] = None
      /\ \A m \in Nodes : \A k \in Kids(parent, m) : k \in Nodes /\ parent[k] = m
  BY HeapFacts DEF Releasable
<1>3. Nodes' = Nodes \ R
  BY <1>1 DEF Nodes
<1>4. \A m \in Nodes' : Kids(parent', m) = Kids(parent, m)
  BY <1>1, <1>2, <1>3 DEF Kids, Nodes
<1>5. \A m, h, r \in Nodes' : Kids(parent', m) = {h, r} /\ h # r =>
         useCount'[m] = Out(h)' + Out(r)' + (IF up' = m THEN 1 ELSE 0)
  <2> TAKE m, h, r \in Nodes'
  <2> HAVE Kids(parent', m) = {h, r} /\ h # r
  <2>1. Kids(parent, m) = {h, r} /\ m \in Nodes /\ h \in Nodes /\ r \in Nodes /\ h \notin R /\ r \notin R /\ m # None
    BY <1>2, <1>3, <1>4
  <2>2. useCount[m] = Out(h) + Out(r) + 0
    BY <2>1 DEF CountInv
  <2>3. Out(h)' = Out(h) /\ Out(r)' = Out(r) /\ useCount'[m] = useCount[m]
    BY <1>1, <1>3, <2>1 DEF Out
  <2>4. QED
    BY <1>1, <2>1, <2>2, <2>3
<1>6. \A m \in Nodes' : useCount'[m] = useCount[m] /\ m \in Nodes
  BY <1>1, <1>3
<1>7. \A m \in Nodes' : (Kids(parent', m) = {} => useCount'[m] = 0) /\ (Kids(parent', m) # {} => useCount'[m] > 0)
  BY <1>4, <1>6 DEF CountInv
<1>8. QED
  BY <1>1, <1>5, <1>7 DEF CountInv
-----------------------------------------------------------------------------
(* Requests.                                                                *)

\* What a client may ask for.
LEMMA RequestFacts ==
  ASSUME client \in Clients, NEW size \in client.sizes
  PROVE  /\ size \in Nat \ {0} /\ client.minAllocSize \in Nat /\ Align \in Nat \ {0}
         /\ AllocSize(size) \in Nat \ {0} /\ size <= AllocSize(size)
         /\ AllocSize(size) > size => client.minAllocSize # 0 /\ RoundUp(size, Align) \in 1 .. AllocSize(size) - 1
         /\ size <= RoundUp(size, Align)
<1>1. /\ size \in Nat \ {0} /\ client.minAllocSize \in Nat /\ Align \in Nat \ {0}
      /\ size < client.minAllocSize => RoundUp(size, Align) < client.minAllocSize
  BY EagerAssumption
<1>2. AllocSize(size) = IF size < client.minAllocSize THEN client.minAllocSize ELSE size
  <2> DEFINE S == {client.minAllocSize, size}
  <2> DEFINE x == IF size < client.minAllocSize THEN client.minAllocSize ELSE size
  <2>1. x \in S /\ \A y \in S : x >= y
    BY <1>1
  <2>2. \A z \in S : (\A y \in S : z >= y) => z = x
    BY <1>1
  <2>3. AllocSize(size) = CHOOSE z \in S : \A y \in S : z >= y
    BY DEF AllocSize, Max
  <2> HIDE DEF S, x
  <2>4. AllocSize(size) = x
    BY <2>1, <2>2, <2>3
  <2>5. QED
    BY <2>4 DEF x
<1>3. RoundUp(size, Align) \in Nat /\ size <= RoundUp(size, Align)
  BY <1>1, RoundUpFacts
<1>4. QED
  BY <1>1, <1>2, <1>3

\* A chunk fits into the node it is taken from, and into the part it is given.
LEMMA FitFacts ==
  ASSUME client \in Clients, NEW size \in client.sizes, NEW align \in client.aligns,
         NEW list \in SUBSET NodeSet, NEW n \in BestFit(list, size, align)
  PROVE  /\ n \in list /\ size \in Nat \ {0} /\ OffsetIn(n, align) \in Nat
         /\ n.off <= OffsetIn(n, align) /\ OffsetIn(n, align) + size <= n.off + n.size
         /\ SizeAlign(n, size, align) \in Nat \ {0}
         /\ OffsetIn(n, align) + size <= n.off + SizeAlign(n, size, align)
<1>1. /\ size \in Nat \ {0} /\ align \in Nat \ {0} /\ Align \in Nat \ {0}
      /\ n \in list /\ n \in NodeSet /\ n.size >= RealSize(size, align)
  BY EagerAssumption DEF BestFit
<1>2. n.off \in Nat /\ n.size \in Nat
  BY <1>1 DEF NodeSet
<1>3. RoundUp(n.off, align) \in Nat /\ n.off <= RoundUp(n.off, align) /\ RoundUp(n.off, align) <= n.off + align - 1
  BY <1>1, <1>2, RoundUpFacts
<1> DEFINE off == OffsetIn(n, align)
<1>4. off \in Nat /\ n.off <= off /\ off + size <= n.off + n.size
  <2>1. CASE NeedExtraSize(align)
    BY <1>1, <1>2, <1>3, <2>1 DEF OffsetIn, RealSize
  <2>2. CASE ~NeedExtraSize(align)
    BY <1>1, <1>2, <2>2 DEF OffsetIn, RealSize
  <2>3. QED
    BY <2>1, <2>2
<1> DEFINE w == size + off - n.off
<1>5. w \in Nat /\ w >= 1
  <2> HIDE DEF off
  <2>1. QED
    BY <1>1, <1>2, <1>4
<1>6. RoundUp(w, Align) \in Nat /\ w <= RoundUp(w, Align)
  <2> HIDE DEF w
  <2>1. QED
    BY <1>1, <1>5, RoundUpFacts
<1>7. SizeAlign(n, size, align) = RoundUp(w, Align)
  BY DEF SizeAlign
<1> HIDE DEF off
<1>8. off + size <= n.off + RoundUp(w, Align)
  <2> DEFINE z == RoundUp(w, Align)
  <2>1. z \in Nat /\ size + off - n.off <= z
    BY <1>6
  <2> HIDE DEF z
  <2>2. off + size <= n.off + z
    BY <1>1, <1>2, <1>4, <2>1
  <2>3. QED
    BY <2>2 DEF z
<1>9. QED
  BY <1>1, <1>4, <1>5, <1>6, <1>7, <1>8 DEF off

\* Two nodes that hold the same bytes are not clear of each other.
LEMMA Shared ==
  ASSUME NEW m \in NodeSet, NEW n \in NodeSet, m.block = n.block,
         NEW off \in Nat, NEW size \in Nat \ {0},
         m.off <= off, off + size <= m.off + m.size, n.off <= off, off + size <= n.off + n.size
  PROVE  ~Clear(m, n)
  BY DEF NodeSet, Clear, Apart

\* The type invariant follows from the others, but for these.
LEMMA TypeNext ==
  ASSUME HeapInv', CountInv', TotalExact', DOMAIN useCount' = Nodes',
         \A c \in used' : c.off \in Nat /\ c.size \in client'.sizes,
         NEW len \in Nat, mGroups' = [i \in 1 .. len |-> mGroups'[i]], group' \in 0 .. len,
         barrier' \in BOOLEAN, ending' \in BOOLEAN, up' \in Nodes' \cup {None}
  PROVE  TypeOK'
<1>1. /\ Nodes' \subseteq NodeSet /\ IsFiniteSet(Nodes') /\ Leaves' \subseteq Nodes'
      /\ \A n \in Nodes' : parent'[n] \in Nodes' \cup {None}
      /\ \A n \in Nodes' : Kids(parent', n) # {} =>
            \E s \in 1 .. n.size - 1 : Kids(parent', n) = {Head1(n, s), Rest(n, s)}
  BY DEF HeapInv, Forest, Nodes
<1>2. \A n \in Nodes' : n \in [block : Blocks, off : Nat, size : Nat]
  BY <1>1 DEF NodeSet
<1>3. /\ mFreeList' \subseteq Nodes' /\ \A c \in used' : c.node \in Nodes'
      /\ \A i \in DOMAIN mGroups' : mGroups'[i] \subseteq Nodes'
  BY <1>1 DEF Leaves
<1>4. mGroups' \in Seq(SUBSET Nodes') /\ Len(mGroups') = len
  <2>1. mGroups' \in [1 .. len -> SUBSET Nodes']
    BY <1>3
  <2>2. QED
    BY <2>1
<1>5. ASSUME NEW n \in Nodes' PROVE useCount'[n] \in Nat
  <2>1. CASE Kids(parent', n) = {}
    BY <2>1 DEF CountInv
  <2>2. CASE Kids(parent', n) # {}
    <3>1. PICK s \in 1 .. n.size - 1 : Kids(parent', n) = {Head1(n, s), Rest(n, s)}
      BY <1>1, <2>2
    <3> DEFINE h == Head1(n, s)
    <3> DEFINE r == Rest(n, s)
    <3>2. h # r
      BY <1>1, HalvesFacts
    <3>3. h \in Nodes' /\ r \in Nodes'
      BY <3>1 DEF Kids, Nodes
    <3> HIDE DEF h, r
    <3>4. Kids(parent', n) = {h, r}
      BY <3>1 DEF h, r
    <3>5. useCount'[n] = Out(h)' + Out(r)' + (IF up' = n THEN 1 ELSE 0)
      BY <3>2, <3>3, <3>4 DEF CountInv
    <3>6. Out(h)' \in Nat /\ Out(r)' \in Nat
      BY DEF Out
    <3>7. QED
      BY <3>5, <3>6
  <2>3. QED
    BY <2>1, <2>2
<1>6. mTotalSize' \in Nat
  <2>1. mTotalSize' = SizeSum({n \in Nodes' : parent'[n] = None})
    BY DEF TotalExact
  <2>2. /\ IsFiniteSet({n \in Nodes' : parent'[n] = None})
        /\ \A n \in {m \in Nodes' : parent'[m] = None} : n.size \in Nat
    BY <1>1, <1>2, FS_Subset
  <2>3. QED
    BY <2>1, <2>2, SumNat
<1>7. QED
  BY <1>1, <1>2, <1>3, <1>4, <1>5, <1>6 DEF TypeOK
-----------------------------------------------------------------------------
(* What the groups own.                                                     *)

\* Where nothing has been touched, no group owns anything.
LEMMA OwnNone ==
  ASSUME touched' = {}
  PROVE  OwnInv'
  BY DEF OwnInv

\* What a group has is in its list or in use, not in the common list.
LEMMA HasFacts ==
  ASSUME PlaceInv, NEW g \in DOMAIN mGroups, NEW n, Has(g, n)
  PROVE  /\ n \in {c.node : c \in used} \cup UNION {mGroups[i] : i \in DOMAIN mGroups}
         /\ n \in Leaves /\ n \notin mFreeList
  BY DEF PlaceInv, Has, Leaves

\* A step that leaves the chunks and the groups alone.
LEMMA OwnKept ==
  ASSUME OwnInv, UNCHANGED <<used, mGroups, touched>>
  PROVE  OwnInv'
<1>1. ASSUME NEW g \in DOMAIN mGroups, NEW n, Has(g, n)
      PROVE  n \in Leaves' /\ Has(g, n)'
  BY <1>1 DEF Has, Leaves, Entry
<1>2. ASSUME NEW t \in touched
      PROVE  \E n \in Leaves' : /\ t.block = n.block /\ n.off <= t.off
                                /\ t.off + t.size <= n.off + n.size /\ Has(t.group, n)'
  BY <1>1 DEF OwnInv
<1>3. QED
  BY <1>2 DEF OwnInv, Entry

\* A chunk is handed out of memory that no group has touched.
LEMMA OwnHand ==
  ASSUME TypeOK, HeapInv, PlaceInv, ChunkInv, OwnInv, BarrierInv,
         NEW q \in NodeSet, NEW off \in Nat, NEW size \in Nat \ {0},
         q.off <= off, off + size <= q.off + q.size,
         \A m \in Leaves : m \notin mFreeList => Clear(m, q),
         barrier => group > 0, Hand(q, off, size), UNCHANGED <<mGroups, group>>
  PROVE  OwnInv'
<1> DEFINE new == [node |-> q, off |-> off, size |-> size]
<1> DEFINE e == [group |-> group, block |-> q.block, off |-> off, size |-> size]
<1>1. CASE group = 0
  <2>1. touched = {}
    BY <1>1 DEF BarrierInv
  <2>2. touched' = {}
    BY <1>1, <2>1 DEF Hand
  <2>3. QED
    BY <2>2, OwnNone
<1>2. CASE group # 0
  <2>1. used' = used \cup {new} /\ touched' = touched \cup {e} /\ group \in DOMAIN mGroups
    BY <1>2 DEF Hand, TypeOK
  <2>2. Leaves \subseteq NodeSet
    BY ForestFacts DEF HeapInv
  <2>3. \A t \in touched : ~ (t.block = q.block /\ t.off = off /\ t.size = size)
    <3>1. SUFFICES ASSUME NEW t \in touched, t.block = q.block, t.off = off, t.size = size PROVE FALSE
      OBVIOUS
    <3>2. PICK m \in Leaves : /\ t.block = m.block /\ m.off <= off /\ off + size <= m.off + m.size
                              /\ Has(t.group, m) /\ t.group \in DOMAIN mGroups
      BY <3>1 DEF OwnInv
    <3>3. Clear(m, q)
      BY <3>2, HasFacts
    <3>4. m \in NodeSet /\ m.block = q.block
      BY <2>2, <3>1, <3>2
    <3>5. QED
      BY <3>2, <3>3, <3>4, Shared
  <2>4. \A c \in used : ~ (c.node.block = q.block /\ c.off = off /\ c.size = size)
    <3>1. SUFFICES ASSUME NEW c \in used, c.node.block = q.block, c.off = off, c.size = size PROVE FALSE
      OBVIOUS
    <3>2. c.node \in Leaves /\ c.node \notin mFreeList
      BY DEF Leaves, PlaceInv
    <3>3. Clear(c.node, q) /\ c.node \in NodeSet
      BY <2>2, <3>2
    <3>4. c.node.off <= off /\ off + size <= c.node.off + c.node.size
      BY <3>1 DEF ChunkInv
    <3>5. QED
      BY <3>1, <3>3, <3>4, Shared
  <2>5. ASSUME NEW g \in DOMAIN mGroups, NEW n, Has(g, n)
        PROVE  n \in Leaves' /\ Has(g, n)'
    BY <2>1, <2>5 DEF Has, Leaves, Entry
  <2>6. /\ q \in Leaves' /\ Has(group, q)'
    <3>1. new \in used' /\ new.node = q /\ Entry(group, new) = e /\ e \in touched'
      BY <2>1 DEF Entry
    <3> HIDE DEF new, e
    <3>2. Has(group, q)'
      BY <3>1 DEF Has, Entry
    <3>3. QED
      BY <3>1, <3>2 DEF Leaves
  <2>7. ASSUME NEW t \in touched'
        PROVE  /\ t.group \in DOMAIN mGroups /\ t.off \in Nat /\ t.size \in Nat \ {0}
               /\ \E n \in Leaves' : /\ t.block = n.block /\ n.off <= t.off
                                     /\ t.off + t.size <= n.off + n.size /\ Has(t.group, n)'
    <3>1. CASE t \in touched
      BY <2>5, <3>1 DEF OwnInv
    <3>2. CASE t = e
      BY <2>1, <2>6, <3>2
    <3>3. QED
      BY <2>1, <3>1, <3>2
  <2>8. ASSUME NEW c \in used', NEW g, NEW h, Entry(g, c) \in touched', Entry(h, c) \in touched'
        PROVE  (g \in DOMAIN mGroups /\ h \in DOMAIN mGroups) => g = h
    <3>1. CASE c = new
      <4>1. \A i : Entry(i, c) \notin touched
        BY <2>3, <3>1 DEF Entry
      <4>2. Entry(g, c) = e /\ Entry(h, c) = e
        BY <2>1, <2>8, <4>1
      <4>3. QED
        BY <4>2 DEF Entry
    <3>2. CASE c \in used
      <4>1. \A i : Entry(i, c) # e
        BY <2>4, <3>2 DEF Entry
      <4>2. Entry(g, c) \in touched /\ Entry(h, c) \in touched
        BY <2>1, <2>8, <4>1
      <4>3. QED
        BY <3>2, <4>2 DEF OwnInv
    <3>3. QED
      BY <2>1, <2>8, <3>1, <3>2
  <2>9. QED
    BY <2>7, <2>8 DEF OwnInv, Entry
<1>3. QED
  BY <1>1, <1>2

\* A group takes back a node of its own.
LEMMA OwnAgain ==
  ASSUME TypeOK, HeapInv, PlaceInv, ChunkInv, OwnInv, group > 0,
         NEW q \in mGroups[group], NEW off \in Nat, NEW size \in Nat \ {0},
         q.off <= off, off + size <= q.off + q.size,
         mGroups' = [mGroups EXCEPT ![group] = @ \ {q}], Hand(q, off, size), group' = group
  PROVE  OwnInv'
<1> DEFINE new == [node |-> q, off |-> off, size |-> size]
<1> DEFINE e == [group |-> group, block |-> q.block, off |-> off, size |-> size]
<1>1. used' = used \cup {new} /\ touched' = touched \cup {e} /\ group \in DOMAIN mGroups
  BY DEF Hand, TypeOK
<1>2. Leaves \subseteq NodeSet /\ \A m, n \in Leaves : m # n => Clear(m, n)
  BY ForestFacts DEF HeapInv
<1>3. q \in Leaves /\ q \in NodeSet /\ \A c \in used : c.node # q /\ c.node \in Leaves
  BY <1>1, <1>2 DEF Leaves, PlaceInv
<1>4. /\ DOMAIN mGroups' = DOMAIN mGroups
      /\ \A g \in DOMAIN mGroups : mGroups'[g] = IF g = group THEN mGroups[g] \ {q} ELSE mGroups[g]
  OBVIOUS
<1>5. \A g \in DOMAIN mGroups : Has(g, q) => g = group
  BY <1>1, <1>3 DEF Has, PlaceInv
<1>6. ASSUME NEW t \in touched, t.block = q.block, t.off = off, t.size = size
      PROVE  t.group = group
  <2>1. PICK m \in Leaves : /\ t.block = m.block /\ m.off <= off /\ off + size <= m.off + m.size
                            /\ Has(t.group, m) /\ t.group \in DOMAIN mGroups
    BY <1>6 DEF OwnInv
  <2>2. m \in NodeSet /\ m.block = q.block
    BY <1>2, <1>6, <2>1
  <2>3. ~Clear(m, q)
    BY <1>3, <2>1, <2>2, Shared
  <2>4. m = q
    BY <1>2, <1>3, <2>3
  <2>5. QED
    BY <1>5, <2>1, <2>4
<1>7. \A c \in used : ~ (c.node.block = q.block /\ c.off = off /\ c.size = size)
  <2>1. SUFFICES ASSUME NEW c \in used, c.node.block = q.block, c.off = off, c.size = size PROVE FALSE
    OBVIOUS
  <2>2. c.node.off <= off /\ off + size <= c.node.off + c.node.size
    BY <2>1 DEF ChunkInv
  <2>3. c.node \in NodeSet /\ Clear(c.node, q)
    BY <1>2, <1>3
  <2>4. QED
    BY <1>3, <2>1, <2>2, <2>3, Shared
<1>8. Has(group, q)' /\ q \in Leaves'
  <2>1. new \in used' /\ new.node = q /\ Entry(group, new) = e /\ e \in touched'
    BY <1>1 DEF Entry
  <2> HIDE DEF new, e
  <2>2. Has(group, q)'
    BY <2>1 DEF Has, Entry
  <2>3. QED
    BY <2>1, <2>2 DEF Leaves
<1> HIDE DEF new, e
<1>9. ASSUME NEW g \in DOMAIN mGroups, NEW n, Has(g, n)
      PROVE  n \in Leaves' /\ Has(g, n)'
  <2>1. CASE n = q
    BY <1>5, <1>8, <1>9, <2>1
  <2>2. CASE n # q
    BY <1>1, <1>4, <1>9, <2>2 DEF Has, Leaves, Entry
  <2>3. QED
    BY <2>1, <2>2
<1>10. ASSUME NEW t \in touched'
       PROVE  /\ t.group \in DOMAIN mGroups /\ t.off \in Nat /\ t.size \in Nat \ {0}
              /\ \E n \in Leaves' : /\ t.block = n.block /\ n.off <= t.off
                                    /\ t.off + t.size <= n.off + n.size /\ Has(t.group, n)'
  <2>1. CASE t \in touched
    BY <1>9, <2>1 DEF OwnInv
  <2>2. CASE t = e
    BY <1>1, <1>8, <2>2 DEF e
  <2>3. QED
    BY <1>1, <2>1, <2>2
<1>11. ASSUME NEW c \in used', NEW g \in DOMAIN mGroups, NEW h \in DOMAIN mGroups,
              Entry(g, c) \in touched', Entry(h, c) \in touched'
       PROVE  g = h
  <2>1. CASE c = new
    <3>1. \A i : Entry(i, c) \in touched \cup {e} => i = group
      <4>1. TAKE i
      <4>2. CASE Entry(i, c) \in touched
        BY <1>6, <2>1, <4>2 DEF Entry, new
      <4>3. CASE Entry(i, c) = e
        BY <4>3 DEF Entry, e
      <4>4. QED
        BY <4>2, <4>3
    <3>2. QED
      BY <1>1, <1>11, <3>1
  <2>2. CASE c \in used
    <3>1. \A i : Entry(i, c) # e
      BY <1>7, <2>2 DEF Entry, e
    <3>2. Entry(g, c) \in touched /\ Entry(h, c) \in touched
      BY <1>1, <1>11, <3>1
    <3>3. QED
      BY <2>2, <3>2 DEF OwnInv
  <2>3. QED
    BY <1>1, <1>11, <2>1, <2>2
<1>12. QED
  BY <1>4, <1>10, <1>11 DEF OwnInv, Entry

\* A group frees a chunk of its own.
LEMMA OwnFree ==
  ASSUME TypeOK, PlaceInv, OwnInv, group > 0,
         NEW c \in used, Entry(group, c) \in touched,
         used' = used \ {c}, mGroups' = [mGroups EXCEPT ![group] = @ \cup {c.node}], touched' = touched
  PROVE  OwnInv'
<1>1. group \in DOMAIN mGroups
  BY DEF TypeOK
<1>2. /\ DOMAIN mGroups' = DOMAIN mGroups
      /\ \A g \in DOMAIN mGroups : mGroups'[g] = IF g = group THEN mGroups[g] \cup {c.node} ELSE mGroups[g]
  OBVIOUS
<1>3. ASSUME NEW g \in DOMAIN mGroups, NEW n, Has(g, n)
      PROVE  n \in Leaves' /\ Has(g, n)'
  <2>1. CASE n \in mGroups[g]
    BY <1>2, <2>1 DEF Has, Leaves
  <2>2. CASE \E d \in used : d.node = n /\ Entry(g, d) \in touched
    <3>1. PICK d \in used : d.node = n /\ Entry(g, d) \in touched
      BY <2>2
    <3>2. CASE d = c
      <4>1. g = group
        BY <1>1, <3>1, <3>2 DEF OwnInv
      <4>2. n \in mGroups'[g]
        BY <1>1, <1>2, <3>1, <3>2, <4>1
      <4>3. QED
        BY <1>2, <4>2 DEF Has, Leaves
    <3>3. CASE d # c
      BY <3>1, <3>3 DEF Has, Leaves, Entry
    <3>4. QED
      BY <3>2, <3>3
  <2>3. QED
    BY <1>3, <2>1, <2>2 DEF Has
<1>4. ASSUME NEW t \in touched
      PROVE  /\ t.group \in DOMAIN mGroups /\ t.off \in Nat /\ t.size \in Nat \ {0}
             /\ \E n \in Leaves' : /\ t.block = n.block /\ n.off <= t.off
                                   /\ t.off + t.size <= n.off + n.size /\ Has(t.group, n)'
  BY <1>3 DEF OwnInv
<1>5. \A d \in used, g, h \in DOMAIN mGroups : Entry(g, d) \in touched /\ Entry(h, d) \in touched => g = h
  BY DEF OwnInv
<1>6. QED
  BY <1>2, <1>4, <1>5 DEF OwnInv, Entry
-----------------------------------------------------------------------------
(* The operations.                                                          *)

\* A step that only moves leaves from one place to another.
LEMMA HeapKept ==
  ASSUME HeapInv, TotalExact, UNCHANGED <<parent, mTotalSize>>, Leaves' = Leaves
  PROVE  HeapInv' /\ TotalExact'
  BY DEF HeapInv, TotalExact, Nodes

\* A step that leaves nodes, list and loop alone keeps the counts.
LEMMA CountKept ==
  ASSUME CountInv, UNCHANGED <<heapVars, up>>
  PROVE  CountInv'
  BY DEF CountInv, Out, Nodes, heapVars

\* The types TypeNext asks for.
LEMMA TypeFacts ==
  ASSUME TypeOK
  PROVE  /\ Len(mGroups) \in Nat /\ mGroups = [i \in 1 .. Len(mGroups) |-> mGroups[i]]
         /\ group \in 0 .. Len(mGroups) /\ barrier \in BOOLEAN /\ ending \in BOOLEAN
         /\ up \in Nodes \cup {None} /\ DOMAIN useCount = Nodes
         /\ \A c \in used : c.off \in Nat /\ c.size \in client.sizes
         /\ (group > 0 => group \in DOMAIN mGroups)
  BY DEF TypeOK

LEMMA AllocFromGroupStep ==
  ASSUME IInv, NEW size \in client.sizes, NEW align \in client.aligns,
         AllocFromGroup(size, align), client' = client
  PROVE  IInv'
<1> USE DEF IInv
<1>1. /\ group > 0 /\ group \in DOMAIN mGroups
      /\ UNCHANGED <<heapVars, group, barrier, mTotalSize, up, ending>>
  BY TypeFacts DEF AllocFromGroup
<1>2. PICK n \in BestFit(mGroups[group], size, align) :
        /\ mGroups' = [mGroups EXCEPT ![group] = @ \ {n}]
        /\ Hand(n, OffsetIn(n, align), size)
  BY DEF AllocFromGroup
<1> DEFINE off == OffsetIn(n, align)
<1> DEFINE new == [node |-> n, off |-> off, size |-> size]
<1>3. Leaves \subseteq NodeSet /\ Leaves \subseteq Nodes /\ mGroups[group] \subseteq Leaves
  BY <1>1, ForestFacts, HeapFacts DEF HeapInv, Leaves
<1>4. /\ n \in mGroups[group] /\ size \in Nat \ {0} /\ off \in Nat
      /\ n.off <= off /\ off + size <= n.off + n.size
  <2>1. mGroups[group] \in SUBSET NodeSet
    BY <1>3
  <2>2. QED
    BY <1>2, <2>1, FitFacts
<1>5. used' = used \cup {new} /\ \E T : touched' = touched \cup T
  BY <1>1, <1>2 DEF Hand
<1>6. /\ DOMAIN mGroups' = DOMAIN mGroups
      /\ \A g \in DOMAIN mGroups : mGroups'[g] = IF g = group THEN mGroups[g] \ {n} ELSE mGroups[g]
  BY <1>2
<1>7. OwnInv'
  BY <1>1, <1>2, <1>4, OwnAgain
<1> HIDE DEF off
<1>8. new.node = n /\ new.off = off /\ new.size = size
  OBVIOUS
<1> HIDE DEF new
<1>9. Leaves' = Leaves
  BY <1>1, <1>4, <1>5, <1>6, <1>8 DEF Leaves, heapVars
<1>10. HeapInv' /\ TotalExact' /\ CountInv'
  BY <1>1, <1>9, HeapKept, CountKept DEF heapVars
<1>11. n \notin mFreeList /\ (\A c \in used : c.node # n) /\ \A i \in DOMAIN mGroups : i # group => n \notin mGroups[i]
  BY <1>1, <1>4 DEF PlaceInv
<1>12. PlaceInv'
  <2>1. mFreeList' = mFreeList
    BY <1>1 DEF heapVars
  <2>2. \A c, d \in used' : c.node = d.node => c = d
    BY <1>5, <1>8, <1>11 DEF PlaceInv
  <2>3. \A c \in used' : c.node \notin mFreeList' /\ \A i \in DOMAIN mGroups' : c.node \notin mGroups'[i]
    BY <1>5, <1>6, <1>8, <1>11, <2>1 DEF PlaceInv
  <2>4. /\ \A i \in DOMAIN mGroups' : mGroups'[i] \cap mFreeList' = {}
        /\ \A i, j \in DOMAIN mGroups' : i # j => mGroups'[i] \cap mGroups'[j] = {}
    BY <1>6, <2>1 DEF PlaceInv
  <2>5. QED
    BY <2>2, <2>3, <2>4 DEF PlaceInv
<1>13. ChunkInv'
  BY <1>4, <1>5, <1>8 DEF ChunkInv
<1>14. BarrierInv'
  BY <1>1 DEF BarrierInv
<1>15. TypeOK'
  <2>1. mGroups' = [i \in 1 .. Len(mGroups) |-> mGroups'[i]]
    BY <1>2, TypeFacts
  <2>2. \A c \in used' : c.off \in Nat /\ c.size \in client'.sizes
    BY <1>4, <1>5, <1>8, TypeFacts
  <2>3. DOMAIN useCount' = Nodes' /\ up' \in Nodes' \cup {None}
    BY <1>1, TypeFacts DEF heapVars, Nodes
  <2>4. QED
    BY <1>1, <1>10, <2>1, <2>2, <2>3, TypeFacts, TypeNext
<1>16. QED
  BY <1>7, <1>10, <1>12, <1>13, <1>14, <1>15

\* A free node is handed out as a whole.
LEMMA TakeStep ==
  ASSUME IInv, up = None, ~ending, barrier => group > 0,
         NEW size \in client.sizes, NEW align \in client.aligns, NEW n \in BestFit(mFreeList, size, align),
         Hand(n, OffsetIn(n, align), size), mFreeList' = mFreeList \ {n}, useCount' = CountUsed(n),
         UNCHANGED <<client, parent, mGroups, group, barrier, mTotalSize, up, ending>>
  PROVE  IInv'
<1> USE DEF IInv
<1> DEFINE off == OffsetIn(n, align)
<1> DEFINE new == [node |-> n, off |-> off, size |-> size]
<1>1. /\ Leaves \subseteq NodeSet /\ Leaves \subseteq Nodes /\ mFreeList \subseteq Leaves
      /\ \A m, k \in Leaves : m # k => Clear(m, k)
  BY ForestFacts, HeapFacts DEF HeapInv
<1>2. /\ n \in mFreeList /\ size \in Nat \ {0} /\ off \in Nat
      /\ n.off <= off /\ off + size <= n.off + n.size
  <2>1. mFreeList \in SUBSET NodeSet
    BY <1>1
  <2>2. QED
    BY <2>1, FitFacts
<1>3. n \in NodeSet /\ \A m \in Leaves : m \notin mFreeList => Clear(m, n)
  BY <1>1, <1>2
<1>4. OwnInv'
  BY <1>2, <1>3, OwnHand
<1> HIDE DEF off
<1>5. used' = used \cup {new}
  BY DEF Hand, off
<1>6. new.node = n /\ new.off = off /\ new.size = size
  OBVIOUS
<1> HIDE DEF new
<1>7. Leaves' = Leaves
  BY <1>2, <1>5, <1>6 DEF Leaves
<1>8. HeapInv' /\ TotalExact'
  BY <1>7, HeapKept
<1>9. CountInv'
  BY <1>2, CountTake
<1>10. (\A c \in used : c.node # n) /\ \A i \in DOMAIN mGroups : n \notin mGroups[i]
  BY <1>2 DEF PlaceInv
<1>11. PlaceInv'
  <2>1. \A c, d \in used' : c.node = d.node => c = d
    BY <1>5, <1>6, <1>10 DEF PlaceInv
  <2>2. \A c \in used' : c.node \notin mFreeList' /\ \A i \in DOMAIN mGroups' : c.node \notin mGroups'[i]
    BY <1>5, <1>6, <1>10 DEF PlaceInv
  <2>3. /\ \A i \in DOMAIN mGroups' : mGroups'[i] \cap mFreeList' = {}
        /\ \A i, j \in DOMAIN mGroups' : i # j => mGroups'[i] \cap mGroups'[j] = {}
    BY DEF PlaceInv
  <2>4. QED
    BY <2>1, <2>2, <2>3 DEF PlaceInv
<1>12. ChunkInv'
  BY <1>2, <1>5, <1>6 DEF ChunkInv
<1>13. BarrierInv'
  <2>1. group = 0 => touched' = touched
    BY DEF Hand
  <2>2. QED
    BY <2>1 DEF BarrierInv
<1>14. TypeOK'
  <2>1. mGroups' = [i \in 1 .. Len(mGroups) |-> mGroups'[i]]
    BY TypeFacts
  <2>2. \A c \in used' : c.off \in Nat /\ c.size \in client'.sizes
    BY <1>2, <1>5, <1>6, TypeFacts
  <2>3. DOMAIN useCount' = Nodes' /\ up' \in Nodes' \cup {None}
    BY TypeFacts DEF Nodes, CountUsed
  <2>4. QED
    BY <1>8, <1>9, <2>1, <2>2, <2>3, TypeFacts, TypeNext
<1>15. QED
  BY <1>4, <1>8, <1>9, <1>11, <1>12, <1>13, <1>14

\* A free node is split, and its front half handed out.
LEMMA SplitStep ==
  ASSUME IInv, up = None, ~ending, barrier => group > 0,
         NEW size \in client.sizes, NEW align \in client.aligns, NEW n \in BestFit(mFreeList, size, align),
         NEW s, s = SizeAlign(n, size, align), s < n.size,
         Hand(Head1(n, s), OffsetIn(n, align), size),
         mFreeList' = (mFreeList \ {n}) \cup {Rest(n, s)},
         useCount' = WithChildren([CountUsed(n) EXCEPT ![n] = @ + 1], n, s, 0),
         parent' = WithChildren(parent, n, s, n),
         UNCHANGED <<client, mGroups, group, barrier, mTotalSize, up, ending>>
  PROVE  IInv'
<1> USE DEF IInv
<1> DEFINE off == OffsetIn(n, align)
<1> DEFINE a == Head1(n, s)
<1> DEFINE b == Rest(n, s)
<1> DEFINE new == [node |-> a, off |-> off, size |-> size]
<1>1. /\ Leaves \subseteq NodeSet /\ Leaves \subseteq Nodes /\ mFreeList \subseteq Leaves
      /\ \A m, k \in Leaves : m # k => Clear(m, k)
  BY ForestFacts, HeapFacts DEF HeapInv
<1>2. /\ n \in mFreeList /\ size \in Nat \ {0} /\ off \in Nat
      /\ n.off <= off /\ off + size <= n.off + n.size
      /\ s \in Nat \ {0} /\ off + size <= n.off + s
  <2>1. mFreeList \in SUBSET NodeSet
    BY <1>1
  <2>2. QED
    BY <2>1, FitFacts
<1>3. n \in NodeSet /\ n \in Leaves /\ n \in Nodes /\ s \in 1 .. n.size - 1
  BY <1>1, <1>2 DEF NodeSet
<1>4. /\ a \in NodeSet /\ b \in NodeSet /\ a.block = n.block /\ a.off = n.off /\ a.size = s
      /\ Within(a, n)
  BY <1>3, HalvesFacts, HalvesCover
<1>5. /\ a \notin Nodes /\ b \notin Nodes /\ a # b /\ Nodes' = Nodes \cup {a, b}
      /\ Roots(parent') = Roots(parent) /\ Forest(parent', (Leaves \ {n}) \cup {a, b})
  BY <1>3, SplitHeap
<1>6. \A m \in Leaves : m \notin mFreeList => Clear(m, a)
  <2>1. TAKE m \in Leaves
  <2>2. HAVE m \notin mFreeList
  <2>3. Clear(m, n) /\ m \in NodeSet
    BY <1>1, <1>2, <1>3, <2>2
  <2>4. QED
    BY <1>3, <1>4, <2>3, WithinFacts
<1>7. OwnInv'
  <2>1. a.off <= off /\ off + size <= a.off + a.size
    BY <1>2, <1>4
  <2>2. QED
    BY <1>2, <1>4, <1>6, <2>1, OwnHand
<1>8. CountInv'
  BY <1>2, <1>3, CountSplit
<1> HIDE DEF off
<1>9. used' = used \cup {new}
  BY DEF Hand, off
<1>10. mFreeList' = (mFreeList \ {n}) \cup {b}
  OBVIOUS
<1>11. DOMAIN useCount' = Nodes'
  <2> DEFINE u == [CountUsed(n) EXCEPT ![n] = @ + 1]
  <2>1. DOMAIN u = Nodes
    BY TypeFacts DEF CountUsed
  <2> HIDE DEF u, a, b
  <2>2. DOMAIN useCount' = (DOMAIN u) \cup {a, b}
    BY DEF WithChildren, u, a, b
  <2>3. QED
    BY <1>5, <2>1, <2>2
<1> HIDE DEF a, b
<1>12. new.node = a /\ new.off = off /\ new.size = size
  OBVIOUS
<1> HIDE DEF new
<1>13. (\A c \in used : c.node # n) /\ \A i \in DOMAIN mGroups : n \notin mGroups[i]
  BY <1>2 DEF PlaceInv
<1>14. Leaves' = (Leaves \ {n}) \cup {a, b}
  BY <1>2, <1>9, <1>10, <1>12, <1>13 DEF Leaves
<1>15. HeapInv'
  BY <1>5, <1>14 DEF HeapInv
<1>16. TotalExact'
  <2>1. {m \in Nodes' : parent'[m] = None} = {m \in Nodes : parent[m] = None}
    BY <1>5 DEF Roots, Nodes
  <2>2. QED
    BY <2>1 DEF TotalExact
<1>17. /\ \A c \in used : c.node \in Leaves /\ c.node # a /\ c.node # b
       /\ \A i \in DOMAIN mGroups : a \notin mGroups[i] /\ b \notin mGroups[i]
       /\ a \notin mFreeList
  BY <1>1, <1>5 DEF Leaves
<1>18. PlaceInv'
  <2>1. \A c, d \in used' : c.node = d.node => c = d
    BY <1>9, <1>12, <1>17 DEF PlaceInv
  <2>2. \A c \in used' : c.node \notin mFreeList' /\ \A i \in DOMAIN mGroups' : c.node \notin mGroups'[i]
    BY <1>5, <1>9, <1>10, <1>12, <1>17 DEF PlaceInv
  <2>3. /\ \A i \in DOMAIN mGroups' : mGroups'[i] \cap mFreeList' = {}
        /\ \A i, j \in DOMAIN mGroups' : i # j => mGroups'[i] \cap mGroups'[j] = {}
    BY <1>10, <1>17 DEF PlaceInv
  <2>4. QED
    BY <2>1, <2>2, <2>3 DEF PlaceInv
<1>19. ChunkInv'
  BY <1>2, <1>4, <1>9, <1>12 DEF ChunkInv
<1>20. BarrierInv'
  <2>1. group = 0 => touched' = touched
    BY DEF Hand
  <2>2. QED
    BY <2>1 DEF BarrierInv
<1>21. TypeOK'
  <2>1. mGroups' = [i \in 1 .. Len(mGroups) |-> mGroups'[i]]
    BY TypeFacts
  <2>2. \A c \in used' : c.off \in Nat /\ c.size \in client'.sizes
    BY <1>2, <1>9, <1>12, TypeFacts
  <2>3. QED
    BY <1>8, <1>11, <1>15, <1>16, <2>1, <2>2, TypeFacts, TypeNext
<1>22. QED
  BY <1>7, <1>8, <1>15, <1>16, <1>18, <1>19, <1>20, <1>21

LEMMA AllocFromFreeStep ==
  ASSUME IInv, up = None, ~ending, barrier => group > 0,
         NEW size \in client.sizes, NEW align \in client.aligns,
         AllocFromFree(size, align), client' = client
  PROVE  IInv'
<1>1. UNCHANGED <<mGroups, group, barrier, mTotalSize, up, ending>>
  BY DEF AllocFromFree
<1>2. PICK n \in BestFit(mFreeList, size, align) :
        IF SizeAlign(n, size, align) >= n.size
          THEN /\ Hand(n, OffsetIn(n, align), size)
               /\ mFreeList' = mFreeList \ {n}
               /\ useCount' = CountUsed(n)
               /\ UNCHANGED parent
          ELSE /\ Hand(Head1(n, SizeAlign(n, size, align)), OffsetIn(n, align), size)
               /\ mFreeList' = (mFreeList \ {n}) \cup {Rest(n, SizeAlign(n, size, align))}
               /\ useCount' = WithChildren([CountUsed(n) EXCEPT ![n] = @ + 1], n, SizeAlign(n, size, align), 0)
               /\ parent' = WithChildren(parent, n, SizeAlign(n, size, align), n)
  BY DEF AllocFromFree
<1>3. mFreeList \in SUBSET NodeSet
  BY HeapFacts DEF IInv
<1>4. SizeAlign(n, size, align) \in Nat /\ n.size \in Nat
  BY <1>2, <1>3, FitFacts DEF IInv, NodeSet
<1>5. CASE SizeAlign(n, size, align) >= n.size
  BY <1>1, <1>2, <1>5, TakeStep
<1>6. CASE SizeAlign(n, size, align) < n.size
  <2> DEFINE s == SizeAlign(n, size, align)
  <2>1. /\ Hand(Head1(n, s), OffsetIn(n, align), size)
        /\ mFreeList' = (mFreeList \ {n}) \cup {Rest(n, s)}
        /\ useCount' = WithChildren([CountUsed(n) EXCEPT ![n] = @ + 1], n, s, 0)
        /\ parent' = WithChildren(parent, n, s, n)
    BY <1>2, <1>4, <1>6
  <2>2. QED
    BY <1>1, <1>2, <1>6, <2>1, SplitStep
<1>7. QED
  BY <1>4, <1>5, <1>6

\* The counts when a block comes in as a leaf.
LEMMA CountBlock ==
  ASSUME TypeOK, HeapInv, CountInv, up = None, NEW n \in NodeSet, n \notin Nodes,
         parent' = [m \in Nodes \cup {n} |-> IF m \in Nodes THEN parent[m] ELSE None],
         useCount' = [m \in DOMAIN parent' |-> IF m \in Nodes THEN useCount[m] ELSE 0],
         Kids(parent', n) = {}, \A m \in Nodes : Kids(parent', m) = Kids(parent, m),
         UNCHANGED <<mFreeList, up>>
  PROVE  CountInv'
<1>1. /\ Nodes' = Nodes \cup {n} /\ None \notin Nodes /\ None # n
      /\ \A m \in Nodes : useCount'[m] = useCount[m]
      /\ useCount'[n] = 0
  BY HeapFacts, NoneOut DEF Nodes
<1>2. \A m \in Nodes : \A k \in Kids(parent, m) : k \in Nodes
  BY HeapFacts
<1>3. \A h : Out(h)' = Out(h) /\ Out(h) \in 0 .. 1
  BY DEF Out
<1>4. ASSUME NEW m \in Nodes', NEW h \in Nodes', NEW r \in Nodes', Kids(parent', m) = {h, r}, h # r
      PROVE  useCount'[m] = Out(h)' + Out(r)' + (IF up' = m THEN 1 ELSE 0)
  <2>1. m # n /\ m \in Nodes /\ Kids(parent, m) = {h, r}
    BY <1>1, <1>4
  <2>2. h \in Nodes /\ r \in Nodes
    BY <1>2, <2>1
  <2>3. useCount[m] = Out(h) + Out(r) + (IF up = m THEN 1 ELSE 0)
    BY <1>4, <2>1, <2>2 DEF CountInv
  <2>4. QED
    BY <1>1, <1>3, <2>1, <2>3
<1>5. \A m \in Nodes' : (Kids(parent', m) = {} => useCount'[m] = 0) /\ (Kids(parent', m) # {} => useCount'[m] > 0)
  BY <1>1 DEF CountInv
<1>6. QED
  BY <1>4, <1>5 DEF CountInv

\* A new block is counted.
LEMMA TotalBlock ==
  ASSUME HeapInv, TotalExact, NEW n \in NodeSet, n \notin Nodes,
         Roots(parent') = Roots(parent) \cup {n}, mTotalSize' = mTotalSize + n.size
  PROVE  TotalExact'
<1> DEFINE A == Roots(parent)
<1>1. A = {m \in Nodes : parent[m] = None} /\ A \cup {n} = {m \in Nodes' : parent'[m] = None} /\ n \notin A
  BY DEF Roots, Nodes
<1>2. IsFiniteSet(A) /\ A \in SUBSET NodeSet
  BY <1>1, FS_Subset DEF HeapInv, Forest, Nodes
<1>3. IsFiniteSet(A \cup {n})
  BY <1>2, FS_AddElement
<1>4. \A m \in A \cup {n} : m.size \in Nat
  BY <1>2 DEF NodeSet
<1> HIDE DEF A
<1>5. SizeSum(A \cup {n}) = n.size + SizeSum(A)
  <2>1. (A \cup {n}) \ {n} = A
    BY <1>1
  <2>2. QED
    BY <1>3, <1>4, <2>1, SumTake
<1>6. mTotalSize = SizeSum(A) /\ SizeSum(A) \in Nat
  BY <1>1, <1>2, <1>4, SumNat DEF TotalExact
<1>7. mTotalSize' = SizeSum(A \cup {n})
  BY <1>4, <1>5, <1>6
<1>8. QED
  BY <1>1, <1>7 DEF TotalExact

\* A block comes in, and all of it is handed out.
LEMMA NewWholeStep ==
  ASSUME IInv, up = None, ~ending, barrier => group > 0,
         NEW size \in client.sizes, NEW b \in Blocks \ BlocksInUse,
         NEW n, n = Node(b, 0, AllocSize(size)), ~(n.size > size),
         mTotalSize' = mTotalSize + n.size,
         Hand(n, 0, size),
         parent' = [m \in Nodes \cup {n} |-> IF m \in Nodes THEN parent[m] ELSE None],
         useCount' = [m \in DOMAIN parent' |-> IF m \in Nodes THEN useCount[m] ELSE 0],
         UNCHANGED <<client, mFreeList, mGroups, group, barrier, up, ending>>
  PROVE  IInv'
<1> USE DEF IInv
<1> DEFINE new == [node |-> n, off |-> 0, size |-> size]
<1>1. /\ Leaves \subseteq NodeSet /\ Leaves \subseteq Nodes /\ mFreeList \subseteq Leaves
      /\ Nodes \subseteq NodeSet
  BY ForestFacts, HeapFacts DEF HeapInv
<1>2. /\ n \in NodeSet /\ n.block = b /\ n.off = 0 /\ n.size = size /\ size \in Nat \ {0}
      /\ \A m \in Nodes : m.block # b
  BY RequestFacts DEF Node, NodeSet, BlocksInUse
<1>3. /\ n \notin Nodes /\ Kids(parent', n) = {}
      /\ \A m \in Nodes : Kids(parent', m) = Kids(parent, m)
      /\ Roots(parent') = Roots(parent) \cup {n}
      /\ Forest(parent', Leaves \cup {n})
  <2>1. n \notin Nodes
    BY <1>2
  <2>2. Adds(parent', parent, n, n, None)
    BY <2>1 DEF Nodes, Adds
  <2>3. \A m \in DOMAIN parent : m.block # n.block
    BY <1>2 DEF Nodes
  <2>4. Forest(parent, Leaves)
    BY DEF HeapInv
  <2>5. NewRoot(parent', parent, n) /\ Forest(parent', Leaves \cup {n})
    BY <1>2, <2>2, <2>3, <2>4, ForestBlock
  <2>6. QED
    BY <2>1, <2>2, <2>5 DEF NewRoot, SameKids, Adds, Nodes
<1>4. OwnInv'
  <2>1. \A m \in Leaves : m \notin mFreeList => Clear(m, n)
    BY <1>1, <1>2 DEF Clear
  <2>2. QED
    BY <1>2, <2>1, OwnHand
<1>5. CountInv'
  BY <1>2, <1>3, CountBlock
<1>6. used' = used \cup {new} /\ new.node = n /\ new.off = 0 /\ new.size = size
  BY DEF Hand
<1> HIDE DEF new
<1>7. Leaves' = Leaves \cup {n}
  BY <1>6 DEF Leaves
<1>8. HeapInv'
  BY <1>3, <1>7 DEF HeapInv
<1>9. TotalExact'
  BY <1>2, <1>3, TotalBlock
<1>10. (\A c \in used : c.node # n) /\ (\A i \in DOMAIN mGroups : n \notin mGroups[i]) /\ n \notin mFreeList
  BY <1>1, <1>3 DEF Leaves
<1>11. PlaceInv'
  <2>1. \A c, d \in used' : c.node = d.node => c = d
    BY <1>6, <1>10 DEF PlaceInv
  <2>2. \A c \in used' : c.node \notin mFreeList' /\ \A i \in DOMAIN mGroups' : c.node \notin mGroups'[i]
    BY <1>6, <1>10 DEF PlaceInv
  <2>3. /\ \A i \in DOMAIN mGroups' : mGroups'[i] \cap mFreeList' = {}
        /\ \A i, j \in DOMAIN mGroups' : i # j => mGroups'[i] \cap mGroups'[j] = {}
    BY DEF PlaceInv
  <2>4. QED
    BY <2>1, <2>2, <2>3 DEF PlaceInv
<1>12. ChunkInv'
  BY <1>2, <1>6 DEF ChunkInv
<1>13. BarrierInv'
  <2>1. group = 0 => touched' = touched
    BY DEF Hand
  <2>2. QED
    BY <2>1 DEF BarrierInv
<1>14. TypeOK'
  <2>1. mGroups' = [i \in 1 .. Len(mGroups) |-> mGroups'[i]]
    BY TypeFacts
  <2>2. \A c \in used' : c.off \in Nat /\ c.size \in client'.sizes
    BY <1>6, TypeFacts
  <2>3. DOMAIN useCount' = Nodes' /\ up' \in Nodes' \cup {None}
    BY DEF Nodes
  <2>4. QED
    BY <1>5, <1>8, <1>9, <2>1, <2>2, <2>3, TypeFacts, TypeNext
<1>15. QED
  BY <1>4, <1>5, <1>8, <1>9, <1>11, <1>12, <1>13, <1>14

\* A block comes in, and its front is handed out: not in a barrier, whose
\* allocators ask for what they need.
LEMMA NewSplitStep ==
  ASSUME IInv, up = None, ~ending, barrier => group > 0,
         NEW size \in client.sizes, NEW b \in Blocks \ BlocksInUse,
         NEW n, n = Node(b, 0, AllocSize(size)), n.size > size,
         NEW s, s = RoundUp(size, Align),
         mTotalSize' = mTotalSize + n.size,
         Hand(Head1(n, s), 0, size),
         parent' = [m \in Nodes \cup {n, Head1(n, s), Rest(n, s)} |->
                      IF m \in Nodes THEN parent[m] ELSE IF m = n THEN None ELSE n],
         useCount' = [m \in DOMAIN parent' |->
                        IF m \in Nodes THEN useCount[m] ELSE IF m = n THEN 1 ELSE 0],
         IF group > 0
           THEN mGroups' = [mGroups EXCEPT ![group] = @ \cup {Rest(n, s)}] /\ UNCHANGED mFreeList
           ELSE mFreeList' = mFreeList \cup {Rest(n, s)} /\ UNCHANGED mGroups,
         UNCHANGED <<client, group, barrier, up, ending>>
  PROVE  IInv'
<1> USE DEF IInv
<1> DEFINE h == Head1(n, s)
<1> DEFINE r == Rest(n, s)
<1> DEFINE new == [node |-> h, off |-> 0, size |-> size]
<1> DEFINE par == [m \in Nodes \cup {n} |-> IF m \in Nodes THEN parent[m] ELSE None]
<1>1. /\ Leaves \subseteq NodeSet /\ Leaves \subseteq Nodes /\ mFreeList \subseteq Leaves
      /\ Nodes \subseteq NodeSet /\ None \notin Nodes
      /\ \A m \in Nodes : \A k \in Kids(parent, m) : k \in Nodes
  BY ForestFacts, HeapFacts DEF HeapInv
<1>2. /\ n.block = b /\ n.off = 0 /\ n.size = AllocSize(size) /\ n \in NodeSet
      /\ \A m \in Nodes : m.block # b
  BY RequestFacts DEF Node, NodeSet, BlocksInUse
<1>3. /\ s \in 1 .. n.size - 1 /\ size \in Nat \ {0} /\ size <= s
      /\ client.minAllocSize # 0
  BY <1>2, RequestFacts
<1>4. group = 0 /\ ~barrier /\ touched = {} /\ mGroups = <<>>
  BY <1>3, TypeFacts DEF BarrierInv
<1>5. /\ mFreeList' = mFreeList \cup {r} /\ mGroups' = mGroups /\ touched' = touched
      /\ used' = used \cup {new}
  BY <1>4 DEF Hand
<1>6. n \notin Nodes
  BY <1>2
<1>7. /\ Kids(par, n) = {} /\ \A m \in Nodes : Kids(par, m) = Kids(parent, m)
      /\ Roots(par) = Roots(parent) \cup {n}
      /\ Forest(par, Leaves \cup {n}) /\ DOMAIN par = Nodes \cup {n}
  <2>1. Adds(par, parent, n, n, None) /\ DOMAIN par = Nodes \cup {n}
    BY <1>6 DEF Nodes, Adds
  <2>2. \A m \in DOMAIN parent : m.block # n.block
    BY <1>2 DEF Nodes
  <2> HIDE DEF par
  <2>3. Forest(parent, Leaves)
    BY DEF HeapInv
  <2>4. NewRoot(par, parent, n) /\ Forest(par, Leaves \cup {n})
    BY <1>2, <2>1, <2>2, <2>3, ForestBlock
  <2>5. QED
    BY <1>6, <2>1, <2>4 DEF NewRoot, SameKids, Nodes
<1>8. h \notin Nodes \cup {n} /\ r \notin Nodes \cup {n} /\ h # r
  <2>1. h.block = b /\ r.block = b /\ h # n /\ r # n /\ h # r
    BY <1>2, <1>3, HalvesFacts
  <2>2. QED
    BY <1>2, <2>1
<1>9. Adds(parent', par, h, r, n)
  <2> HIDE DEF h, r
  <2>1. parent' = [m \in Nodes \cup {n, h, r} |-> IF m \in Nodes THEN parent[m] ELSE IF m = n THEN None ELSE n]
    BY DEF h, r
  <2>2. QED
    BY <1>6, <1>8, <2>1 DEF Adds
<1>10. /\ Kids(parent', n) = {h, r} /\ Kids(parent', h) = {} /\ Kids(parent', r) = {}
       /\ \A m \in Nodes : Kids(parent', m) = Kids(parent, m)
       /\ Roots(parent') = Roots(parent) \cup {n}
       /\ Forest(parent', (Leaves \ {n}) \cup {h, r})
  <2> HIDE DEF par
  <2>1. n \in Leaves \cup {n}
    OBVIOUS
  <2>2. SplitInto(parent', par, n, h, r) /\ Forest(parent', ((Leaves \cup {n}) \ {n}) \cup {h, r})
    <3>1. h = Head1(n, s) /\ r = Rest(n, s)
      OBVIOUS
    <3> HIDE DEF h, r
    <3>2. QED
      BY <1>3, <1>7, <1>9, <2>1, <3>1, ForestSplit
  <2>3. (Leaves \cup {n}) \ {n} = Leaves \ {n}
    OBVIOUS
  <2>4. \A m \in Nodes : Kids(parent', m) = Kids(parent, m)
    BY <1>6, <1>7, <1>9, <2>2, SMTT(30) DEF SplitInto, SameKids, Adds
  <2>5. QED
    BY <1>7, <2>2, <2>3, <2>4 DEF SplitInto
<1>11. Nodes' = Nodes \cup {n, h, r} /\ h \in NodeSet /\ r \in NodeSet
  <2>1. Nodes' = Nodes \cup {n, h, r}
    BY <1>7, <1>9 DEF Nodes, Adds
  <2>2. QED
    BY <2>1, <1>2, <1>3, HalvesFacts
<1>12. /\ DOMAIN useCount' = Nodes' /\ useCount'[n] = 1 /\ useCount'[h] = 0 /\ useCount'[r] = 0
       /\ \A m \in Nodes : useCount'[m] = useCount[m]
  <2> HIDE DEF h, r
  <2>1. QED
    BY <1>6, <1>8, <1>11 DEF Nodes
<1>13. /\ h.off = 0 /\ h.size = s
  BY <1>2, <1>3, HalvesFacts
<1> HIDE DEF h, r, par
<1>14. new.node = h /\ new.off = 0 /\ new.size = size
  OBVIOUS
<1> HIDE DEF new
<1>15. Leaves' = (Leaves \ {n}) \cup {h, r}
  <2>1. Leaves' = Leaves \cup {h, r}
    BY <1>5, <1>14 DEF Leaves
  <2>2. QED
    BY <1>1, <1>6, <2>1
<1>16. HeapInv'
  BY <1>10, <1>15 DEF HeapInv
<1>17. TotalExact'
  BY <1>2, <1>6, <1>10, TotalBlock
<1>18. Out(h)' = 1 /\ Out(r)' = 0 /\ \A m \in Nodes : Out(m)' = Out(m) /\ Out(m) \in 0 .. 1
  <2>1. h \notin mFreeList' /\ r \in mFreeList'
    BY <1>1, <1>5, <1>8
  <2>2. \A m \in Nodes : m \in mFreeList' <=> m \in mFreeList
    BY <1>5, <1>8
  <2>3. QED
    BY <2>1, <2>2 DEF Out
<1>19. CountInv'
  <2>1. \A m, a, c \in Nodes' : Kids(parent', m) = {a, c} /\ a # c =>
           useCount'[m] = Out(a)' + Out(c)' + (IF up' = m THEN 1 ELSE 0)
    <3> TAKE m, a, c \in Nodes'
    <3> HAVE Kids(parent', m) = {a, c} /\ a # c
    <3>1. up' # m
      BY <1>11, NoneOut, <1>1, <1>2
    <3>2. CASE m = n
      <4>1. (a = h /\ c = r) \/ (a = r /\ c = h)
        BY <1>10, <3>2, ZenonT(40)
      <4>2. QED
        BY <1>12, <1>18, <3>1, <3>2, <4>1
    <3>3. CASE m \in Nodes
      <4>1. Kids(parent, m) = {a, c} /\ a \in Nodes /\ c \in Nodes
        BY <1>1, <1>10, <3>3
      <4>2. useCount[m] = Out(a) + Out(c) + 0
        BY <1>1, <3>3, <4>1 DEF CountInv
      <4>3. QED
        BY <1>12, <1>18, <3>1, <3>3, <4>1, <4>2
    <3>4. CASE m \in {h, r}
      BY <1>10, <3>4
    <3>5. QED
      BY <1>11, <3>2, <3>3, <3>4
  <2>2. \A m \in Nodes' : (Kids(parent', m) = {} => useCount'[m] = 0) /\ (Kids(parent', m) # {} => useCount'[m] > 0)
    <3> TAKE m \in Nodes'
    <3>1. CASE m \in {n, h, r}
      <4>1. CASE m = n
        <5>1. Kids(parent', n) # {} /\ useCount'[n] > 0
          BY <1>10, <1>12, SMTT(30)
        <5>2. QED
          BY <4>1, <5>1
      <4>2. CASE m \in {h, r}
        BY <1>10, <1>12, <4>2
      <4>3. QED
        BY <3>1, <4>1, <4>2
    <3>2. CASE m \in Nodes
      <4>1. Kids(parent', m) = Kids(parent, m) /\ useCount'[m] = useCount[m]
        BY <1>10, <1>12, <3>2
      <4>2. QED
        BY <3>2, <4>1 DEF CountInv
    <3>3. QED
      BY <1>11, <3>1, <3>2
  <2>3. up' = None
    OBVIOUS
  <2>4. QED
    BY <2>1, <2>2, <2>3 DEF CountInv
<1>20. OwnInv'
  BY <1>4, <1>5, OwnNone
<1>21. \A c \in used : c.node \in Leaves /\ c.node # h /\ c.node # r
  BY <1>1, <1>8 DEF Leaves
<1>22. h \notin mFreeList /\ h \notin {r}
  BY <1>1, <1>8
<1>23. PlaceInv'
  <2>1. \A c, d \in used' : c.node = d.node => c = d
    BY <1>5, <1>14, <1>21 DEF PlaceInv
  <2>2. \A c \in used' : c.node \notin mFreeList'
    BY <1>5, <1>14, <1>21, <1>22 DEF PlaceInv
  <2>3. mGroups' = <<>> /\ DOMAIN mGroups' = {}
    BY <1>4, <1>5
  <2>4. QED
    BY <2>1, <2>2, <2>3 DEF PlaceInv
<1>24. ChunkInv'
  BY <1>3, <1>5, <1>13, <1>14 DEF ChunkInv
<1>25. BarrierInv'
  BY <1>4, <1>5 DEF BarrierInv
<1>26. TypeOK'
  <2>1. mGroups' = [i \in 1 .. Len(mGroups) |-> mGroups'[i]]
    BY <1>5, TypeFacts
  <2>2. \A c \in used' : c.off \in Nat /\ c.size \in client'.sizes
    BY <1>5, <1>14, TypeFacts
  <2>3. QED
    BY <1>12, <1>16, <1>17, <1>19, <2>1, <2>2, TypeFacts, TypeNext
<1>27. QED
  BY <1>16, <1>17, <1>19, <1>20, <1>23, <1>24, <1>25, <1>26

LEMMA AllocStep ==
  ASSUME IInv, up = None, ~ending, client' = client,
         NEW size \in client.sizes, NEW align \in client.aligns, NEW separate \in BOOLEAN,
         Alloc(size, align, separate)
  PROVE  IInv'
<1>1. barrier => group > 0
  BY DEF Alloc
<1>2. CASE AllocFromGroup(size, align)
  BY <1>2, AllocFromGroupStep
<1>3. CASE AllocFromFree(size, align)
  BY <1>1, <1>3, AllocFromFreeStep
<1>4. CASE AllocNew(size, align, separate)
  <2> DEFINE N(b) == Node(b, 0, AllocSize(size))
  <2> DEFINE s == RoundUp(size, Align)
  <2>1. PICK b \in Blocks \ BlocksInUse :
          /\ mTotalSize' = mTotalSize + N(b).size
          /\ IF N(b).size > size
               THEN /\ Hand(Head1(N(b), s), 0, size)
                    /\ parent' = [m \in Nodes \cup {N(b), Head1(N(b), s), Rest(N(b), s)} |->
                                    IF m \in Nodes THEN parent[m] ELSE IF m = N(b) THEN None ELSE N(b)]
                    /\ useCount' = [m \in DOMAIN parent' |->
                                      IF m \in Nodes THEN useCount[m] ELSE IF m = N(b) THEN 1 ELSE 0]
                    /\ IF group > 0
                         THEN mGroups' = [mGroups EXCEPT ![group] = @ \cup {Rest(N(b), s)}] /\ UNCHANGED mFreeList
                         ELSE mFreeList' = mFreeList \cup {Rest(N(b), s)} /\ UNCHANGED mGroups
               ELSE /\ Hand(N(b), 0, size)
                    /\ parent' = [m \in Nodes \cup {N(b)} |-> IF m \in Nodes THEN parent[m] ELSE None]
                    /\ useCount' = [m \in DOMAIN parent' |-> IF m \in Nodes THEN useCount[m] ELSE 0]
                    /\ UNCHANGED <<mFreeList, mGroups>>
          /\ UNCHANGED <<group, barrier, up, ending>>
    BY <1>4 DEF AllocNew
  <2> DEFINE n == N(b)
  <2>2. n = Node(b, 0, AllocSize(size))
    OBVIOUS
  <2> HIDE DEF N, s, n
  <2>3. CASE n.size > size
    <3>1. s = RoundUp(size, Align)
      BY DEF s
    <3>2. /\ mTotalSize' = mTotalSize + n.size
          /\ Hand(Head1(n, s), 0, size)
          /\ parent' = [m \in Nodes \cup {n, Head1(n, s), Rest(n, s)} |->
                          IF m \in Nodes THEN parent[m] ELSE IF m = n THEN None ELSE n]
          /\ useCount' = [m \in DOMAIN parent' |->
                            IF m \in Nodes THEN useCount[m] ELSE IF m = n THEN 1 ELSE 0]
          /\ IF group > 0
               THEN mGroups' = [mGroups EXCEPT ![group] = @ \cup {Rest(n, s)}] /\ UNCHANGED mFreeList
               ELSE mFreeList' = mFreeList \cup {Rest(n, s)} /\ UNCHANGED mGroups
          /\ UNCHANGED <<group, barrier, up, ending>>
      BY <2>1, <2>3 DEF n
    <3>3. QED
      BY <1>1, <2>2, <2>3, <3>1, <3>2, NewSplitStep
  <2>4. CASE ~(n.size > size)
    <3>1. /\ mTotalSize' = mTotalSize + n.size
          /\ Hand(n, 0, size)
          /\ parent' = [m \in Nodes \cup {n} |-> IF m \in Nodes THEN parent[m] ELSE None]
          /\ useCount' = [m \in DOMAIN parent' |-> IF m \in Nodes THEN useCount[m] ELSE 0]
          /\ UNCHANGED <<mFreeList, mGroups, group, barrier, up, ending>>
      BY <2>1, <2>4 DEF n
    <3>2. QED
      BY <1>1, <2>2, <2>4, <3>1, NewWholeStep
  <2>5. QED
    BY <2>3, <2>4
<1>5. QED
  BY <1>2, <1>3, <1>4 DEF Alloc

\* A turn of the loop of returnMemory.
LEMMA MergeUpStep ==
  ASSUME IInv, MergeUp, client' = client
  PROVE  IInv'
<1> USE DEF IInv
<1>1. up # None /\ UNCHANGED <<used, mGroups, group, barrier, mTotalSize, ending, touched>>
  BY DEF MergeUp
<1>2. OwnInv' /\ ChunkInv' /\ BarrierInv'
  BY <1>1, OwnKept DEF ChunkInv, BarrierInv
<1>3. /\ mGroups' = [i \in 1 .. Len(mGroups) |-> mGroups'[i]]
      /\ \A c \in used' : c.off \in Nat /\ c.size \in client'.sizes
  BY <1>1, TypeFacts
<1>4. CASE Merges(useCount[up])
  <2> DEFINE K == Kids(parent, up)
  <2>1. /\ {m \in mFreeList : parent[m] = up} = K /\ up \in Nodes /\ up \notin Leaves /\ K # {}
    BY <1>1, <1>4, MergeFacts
  <2>2. /\ mFreeList' = (mFreeList \ K) \cup {up}
        /\ parent' = [m \in Nodes \ K |-> parent[m]]
        /\ useCount' = [m \in Nodes \ K |-> IF m = up THEN useCount[m] - 1 ELSE useCount[m]]
        /\ up' = parent[up]
    BY <1>4, <2>1 DEF MergeUp
  <2>3. K \subseteq mFreeList /\ mFreeList \subseteq Leaves /\ Leaves \subseteq Nodes
        /\ parent[up] \in Nodes \cup {None} /\ (parent[up] # None => up \in Kids(parent, parent[up]))
    BY <2>1, HeapFacts
  <2>4. Roots(parent') = Roots(parent) /\ Forest(parent', (Leaves \ K) \cup {up})
    <3>1. Forest(parent, Leaves) /\ up \in DOMAIN parent /\ K # {} /\ K \subseteq Leaves
      BY <2>1, <2>3 DEF HeapInv, Nodes
    <3>2. Restricts(parent', parent, K)
      BY <2>2 DEF Nodes, Restricts
    <3>3. QED
      BY <3>1, <3>2, ForestMerge
  <2>5. Nodes' = Nodes \ K /\ DOMAIN useCount' = Nodes'
    BY <2>2 DEF Nodes
  <2>6. parent[up] \notin K
    <3>1. ASSUME parent[up] \in K PROVE FALSE
      <4>1. parent[up] \in Leaves /\ parent[up] \in Nodes
        BY <2>3, <3>1
      <4>2. parent[up] # None
        BY <4>1, HeapFacts
      <4>3. QED
        BY <2>3, <4>1, <4>2, HeapFacts
    <3>2. QED
      BY <3>1
  <2> HIDE DEF K
  <2>7. Leaves' = (Leaves \ K) \cup {up}
    <3>1. \A c \in used : c.node \notin K
      BY <2>3 DEF PlaceInv
    <3>2. \A i \in DOMAIN mGroups : \A m \in mGroups[i] : m \notin K
      BY <2>3 DEF PlaceInv
    <3>3. QED
      BY <1>1, <2>2, <3>1, <3>2 DEF Leaves
  <2>8. HeapInv'
    BY <2>4, <2>7 DEF HeapInv
  <2>9. TotalExact'
    <3>1. {m \in Nodes' : parent'[m] = None} = {m \in Nodes : parent[m] = None}
      BY <2>4 DEF Roots, Nodes
    <3>2. QED
      BY <1>1, <3>1 DEF TotalExact
  <2>10. CountInv'
    BY <1>1, <1>4, CountMerge
  <2>11. PlaceInv'
    <3>1. (\A c \in used : c.node # up) /\ \A i \in DOMAIN mGroups : up \notin mGroups[i]
      BY <2>1 DEF Leaves
    <3>2. QED
      BY <1>1, <2>2, <3>1 DEF PlaceInv
  <2>12. TypeOK'
    <3>1. up' \in Nodes' \cup {None}
      BY <2>2, <2>3, <2>5, <2>6
    <3>2. QED
      BY <1>1, <1>3, <2>5, <2>8, <2>9, <2>10, <3>1, TypeFacts, TypeNext
  <2>13. QED
    BY <1>2, <2>8, <2>9, <2>10, <2>11, <2>12
<1>5. CASE ~Merges(useCount[up])
  <2>1. /\ useCount' = [useCount EXCEPT ![up] = @ - 1] /\ up' = None
        /\ parent' = parent /\ mFreeList' = mFreeList
    BY <1>5 DEF MergeUp
  <2>2. Leaves' = Leaves
    BY <1>1, <2>1 DEF Leaves
  <2>3. HeapInv' /\ TotalExact'
    BY <1>1, <2>1, <2>2, HeapKept
  <2>4. CountInv'
    BY <1>1, <1>5, CountLower
  <2>5. PlaceInv'
    BY <1>1, <2>1 DEF PlaceInv
  <2>6. DOMAIN useCount' = Nodes'
    BY <2>1, TypeFacts DEF Nodes
  <2>7. TypeOK'
    BY <1>1, <1>3, <2>1, <2>3, <2>4, <2>6, TypeFacts, TypeNext
  <2>8. QED
    BY <1>2, <2>3, <2>4, <2>5, <2>7
<1>6. QED
  BY <1>4, <1>5

\* free, outside the groups.
LEMMA FreeStep ==
  ASSUME IInv, up = None, client' = client, NEW c \in used, Free(c), group = 0
  PROVE  IInv'
<1> USE DEF IInv
<1> DEFINE n == c.node
<1>1. /\ ~barrier /\ used' = used \ {c} /\ ReturnMemory(n)
      /\ UNCHANGED <<mGroups, group, barrier, mTotalSize, ending, touched>>
  BY DEF Free
<1>2. mFreeList' = mFreeList \cup {n} /\ up' = parent[n] /\ parent' = parent /\ useCount' = useCount
  BY <1>1 DEF ReturnMemory
<1>3. /\ n \in Leaves /\ n \notin mFreeList /\ n \in Nodes /\ parent[n] \in Nodes \cup {None}
      /\ (\A d \in used \ {c} : d.node # n) /\ \A i \in DOMAIN mGroups : n \notin mGroups[i]
  <2>1. n \in Leaves /\ n \notin mFreeList
    BY DEF Leaves, PlaceInv
  <2>2. (\A d \in used \ {c} : d.node # n) /\ \A i \in DOMAIN mGroups : n \notin mGroups[i]
    BY DEF PlaceInv
  <2>3. QED
    BY <2>1, <2>2, HeapFacts
<1>4. CountInv'
  BY <1>1, <1>3, CountReturn
<1> HIDE DEF n
<1>5. Leaves' = Leaves
  <2>1. {d.node : d \in used'} \cup {n} = {d.node : d \in used}
    BY <1>1 DEF n
  <2>2. QED
    BY <1>1, <1>2, <2>1 DEF Leaves
<1>6. HeapInv' /\ TotalExact'
  BY <1>1, <1>2, <1>5, HeapKept
<1>7. PlaceInv'
  BY <1>1, <1>2, <1>3 DEF PlaceInv
<1>8. ChunkInv'
  BY <1>1 DEF ChunkInv
<1>9. BarrierInv'
  BY <1>1 DEF BarrierInv
<1>10. OwnInv'
  <2>1. touched' = {}
    BY <1>1 DEF BarrierInv
  <2>2. QED
    BY <2>1, OwnNone
<1>11. TypeOK'
  <2>1. /\ mGroups' = [i \in 1 .. Len(mGroups) |-> mGroups'[i]]
        /\ \A d \in used' : d.off \in Nat /\ d.size \in client'.sizes
        /\ DOMAIN useCount' = Nodes' /\ up' \in Nodes' \cup {None}
    BY <1>1, <1>2, <1>3, TypeFacts DEF Nodes
  <2>2. QED
    BY <1>1, <1>4, <1>6, <2>1, TypeFacts, TypeNext
<1>12. QED
  BY <1>4, <1>6, <1>7, <1>8, <1>9, <1>10, <1>11

\* free, by a group.
LEMMA FreeInGroupStep ==
  ASSUME IInv, client' = client, NEW c \in used, Free(c), group > 0
  PROVE  IInv'
<1> USE DEF IInv
<1> DEFINE n == c.node
<1>1. /\ used' = used \ {c} /\ mGroups' = [mGroups EXCEPT ![group] = @ \cup {n}]
      /\ UNCHANGED <<heapVars, up, group, barrier, mTotalSize, ending, touched>>
  BY DEF Free, FreeInGroup
<1>2. barrier /\ group \in DOMAIN mGroups /\ Entry(group, c) \in touched
  <2>1. barrier /\ group \in DOMAIN mGroups
    BY TypeFacts DEF BarrierInv
  <2>2. [group |-> group, block |-> c.node.block, off |-> c.off, size |-> c.size] \in touched
    BY <2>1 DEF Free
  <2>3. QED
    BY <2>1, <2>2 DEF Entry
<1>3. OwnInv'
  BY <1>1, <1>2, OwnFree
<1>4. /\ DOMAIN mGroups' = DOMAIN mGroups
      /\ \A g \in DOMAIN mGroups : mGroups'[g] = IF g = group THEN mGroups[g] \cup {n} ELSE mGroups[g]
  BY <1>1
<1>5. /\ n \notin mFreeList
      /\ (\A d \in used \ {c} : d.node # n) /\ \A i \in DOMAIN mGroups : n \notin mGroups[i]
  BY DEF PlaceInv
<1> HIDE DEF n
<1>6. mFreeList' = mFreeList /\ parent' = parent /\ useCount' = useCount
  BY <1>1 DEF heapVars
<1>7. Leaves' = Leaves
  <2>1. {d.node : d \in used'} \cup {n} = {d.node : d \in used}
    BY <1>1 DEF n
  <2>2. \A x : (\E i \in DOMAIN mGroups' : x \in mGroups'[i]) <=> x = n \/ \E i \in DOMAIN mGroups : x \in mGroups[i]
    BY <1>2, <1>4
  <2>3. \A x : x \in Leaves' <=> x \in Leaves
    BY <1>6, <2>1, <2>2 DEF Leaves
  <2>4. QED
    BY <2>3
<1>8. HeapInv' /\ TotalExact' /\ CountInv'
  BY <1>1, <1>6, <1>7, HeapKept, CountKept
<1>9. PlaceInv'
  <2>1. \A d, e \in used' : d.node = e.node => d = e
    BY <1>1 DEF PlaceInv
  <2>2. \A d \in used' : d.node \notin mFreeList' /\ \A i \in DOMAIN mGroups' : d.node \notin mGroups'[i]
    BY <1>1, <1>4, <1>5, <1>6 DEF PlaceInv
  <2>3. /\ \A i \in DOMAIN mGroups' : mGroups'[i] \cap mFreeList' = {}
        /\ \A i, j \in DOMAIN mGroups' : i # j => mGroups'[i] \cap mGroups'[j] = {}
    BY <1>4, <1>5, <1>6 DEF PlaceInv
  <2>4. QED
    BY <2>1, <2>2, <2>3 DEF PlaceInv
<1>10. ChunkInv'
  BY <1>1 DEF ChunkInv
<1>11. BarrierInv'
  BY <1>1, <1>2 DEF BarrierInv
<1>12. TypeOK'
  <2>1. /\ mGroups' = [i \in 1 .. Len(mGroups) |-> mGroups'[i]]
        /\ \A d \in used' : d.off \in Nat /\ d.size \in client'.sizes
        /\ DOMAIN useCount' = Nodes' /\ up' \in Nodes' \cup {None}
    BY <1>1, <1>6, TypeFacts DEF Nodes
  <2>2. QED
    BY <1>1, <1>8, <2>1, TypeFacts, TypeNext
<1>13. QED
  BY <1>3, <1>8, <1>9, <1>10, <1>11, <1>12

\* A node of a group goes back to the list.
LEMMA ReturnGroupStep ==
  ASSUME IInv, up = None, ending, client' = client, ReturnGroup
  PROVE  IInv'
<1> USE DEF IInv
<1>0. PICK i \in DOMAIN mGroups : \E k \in mGroups[i] :
        ReturnMemory(k) /\ mGroups' = [mGroups EXCEPT ![i] = @ \ {k}]
  BY DEF ReturnGroup
<1>1. PICK n \in mGroups[i] : ReturnMemory(n) /\ mGroups' = [mGroups EXCEPT ![i] = @ \ {n}]
  BY <1>0
<1>2. UNCHANGED <<used, group, barrier, mTotalSize, ending, touched>>
  BY DEF ReturnGroup
<1>3. mFreeList' = mFreeList \cup {n} /\ up' = parent[n] /\ parent' = parent /\ useCount' = useCount
  BY <1>1 DEF ReturnMemory
<1>4. /\ DOMAIN mGroups' = DOMAIN mGroups
      /\ \A g \in DOMAIN mGroups : mGroups'[g] = IF g = i THEN mGroups[g] \ {n} ELSE mGroups[g]
  BY <1>1
<1>5. /\ n \notin mFreeList /\ (\A c \in used : c.node # n)
      /\ \A g \in DOMAIN mGroups : g # i => n \notin mGroups[g]
  BY <1>1 DEF PlaceInv
<1>6. n \in Leaves /\ n \in Nodes /\ parent[n] \in Nodes \cup {None}
  <2>1. n \in Leaves
    BY <1>1 DEF Leaves
  <2>2. QED
    BY <2>1, HeapFacts
<1>7. CountInv'
  BY <1>1, <1>5, <1>6, CountReturn
<1>8. Leaves' = Leaves
  <2>1. \A x : (\E g \in DOMAIN mGroups : x \in mGroups[g]) <=> x = n \/ \E g \in DOMAIN mGroups' : x \in mGroups'[g]
    BY <1>0, <1>1, <1>4
  <2>2. \A x : x \in Leaves' <=> x \in Leaves
    BY <1>2, <1>3, <2>1 DEF Leaves
  <2>3. QED
    BY <2>2
<1>9. HeapInv' /\ TotalExact'
  BY <1>2, <1>3, <1>8, HeapKept
<1>10. PlaceInv'
  <2>1. \A c, d \in used' : c.node = d.node => c = d
    BY <1>2 DEF PlaceInv
  <2>2. \A c \in used' : c.node \notin mFreeList' /\ \A g \in DOMAIN mGroups' : c.node \notin mGroups'[g]
    BY <1>2, <1>3, <1>4, <1>5 DEF PlaceInv
  <2>3. /\ \A g \in DOMAIN mGroups' : mGroups'[g] \cap mFreeList' = {}
        /\ \A g, j \in DOMAIN mGroups' : g # j => mGroups'[g] \cap mGroups'[j] = {}
    BY <1>3, <1>4, <1>5 DEF PlaceInv
  <2>4. QED
    BY <2>1, <2>2, <2>3 DEF PlaceInv
<1>11. ChunkInv'
  BY <1>2 DEF ChunkInv
<1>12. BarrierInv'
  <2>1. barrier
    BY DEF BarrierInv
  <2>2. QED
    BY <1>2, <2>1 DEF BarrierInv
<1>13. OwnInv'
  <2>1. touched' = {}
    BY <1>2 DEF BarrierInv
  <2>2. QED
    BY <2>1, OwnNone
<1>14. TypeOK'
  <2>1. /\ mGroups' = [g \in 1 .. Len(mGroups) |-> mGroups'[g]]
        /\ \A d \in used' : d.off \in Nat /\ d.size \in client'.sizes
        /\ DOMAIN useCount' = Nodes' /\ up' \in Nodes' \cup {None}
    BY <1>1, <1>2, <1>3, <1>6, TypeFacts DEF Nodes
  <2>2. QED
    BY <1>2, <1>7, <1>9, <2>1, TypeFacts, TypeNext
<1>15. QED
  BY <1>7, <1>9, <1>10, <1>11, <1>12, <1>13, <1>14

\* Steps that change the groups but not the memory: lists that come and go are empty.
LEMMA GroupsStep ==
  ASSUME IInv, client' = client, UNCHANGED <<heapVars, used, mTotalSize, up>>,
         NEW len \in Nat, mGroups' = [i \in 1 .. len |-> mGroups'[i]], group' \in 0 .. len,
         barrier' \in BOOLEAN, ending' \in BOOLEAN,
         \A i \in DOMAIN mGroups' : mGroups'[i] = IF i \in DOMAIN mGroups THEN mGroups[i] ELSE {},
         \A i \in DOMAIN mGroups : mGroups[i] # {} => i \in DOMAIN mGroups',
         BarrierInv', OwnInv'
  PROVE  IInv'
<1> USE DEF IInv
<1>1. mFreeList' = mFreeList /\ parent' = parent /\ useCount' = useCount
  BY DEF heapVars
<1>2. Leaves' = Leaves
  <2>1. \A x : (\E i \in DOMAIN mGroups' : x \in mGroups'[i]) <=> \E i \in DOMAIN mGroups : x \in mGroups[i]
    OBVIOUS
  <2>2. \A x : x \in Leaves' <=> x \in Leaves
    BY <1>1, <2>1 DEF Leaves
  <2>3. QED
    BY <2>2
<1>3. HeapInv' /\ TotalExact' /\ CountInv'
  BY <1>1, <1>2, HeapKept, CountKept
<1>4. PlaceInv'
  <2>1. /\ \A c, d \in used' : c.node = d.node => c = d
        /\ \A c \in used' : c.node \notin mFreeList'
    BY <1>1 DEF PlaceInv
  <2>2. \A c \in used' : \A i \in DOMAIN mGroups' : c.node \notin mGroups'[i]
    BY DEF PlaceInv
  <2>3. \A i \in DOMAIN mGroups' : mGroups'[i] \cap mFreeList' = {}
    BY <1>1 DEF PlaceInv
  <2>4. \A i, j \in DOMAIN mGroups' : i # j => mGroups'[i] \cap mGroups'[j] = {}
    BY DEF PlaceInv
  <2>5. QED
    BY <2>1, <2>2, <2>3, <2>4 DEF PlaceInv
<1>5. ChunkInv'
  BY DEF ChunkInv
<1>6. TypeOK'
  <2>1. /\ \A c \in used' : c.off \in Nat /\ c.size \in client'.sizes
        /\ DOMAIN useCount' = Nodes' /\ up' \in Nodes' \cup {None}
    BY <1>1, TypeFacts DEF Nodes
  <2>2. QED
    BY <1>3, <2>1, TypeNext
<1>7. QED
  BY <1>3, <1>4, <1>5, <1>6

LEMMA BarrierBeginStep ==
  ASSUME IInv, up = None, ~ending, client' = client, BarrierBegin
  PROVE  IInv'
<1>1. /\ ~barrier /\ barrier' = TRUE /\ client.minAllocSize = 0
      /\ UNCHANGED <<heapVars, used, mGroups, group, mTotalSize, up, ending, touched>>
  BY DEF BarrierBegin
<1>2. OwnInv'
  BY <1>1, OwnKept DEF IInv
<1>3. BarrierInv'
  BY <1>1 DEF IInv, BarrierInv
<1>4. QED
  BY <1>1, <1>2, <1>3, TypeFacts, GroupsStep DEF IInv

LEMMA EndGroupStep ==
  ASSUME IInv, client' = client, EndGroup
  PROVE  IInv'
<1>1. group' = 0 /\ UNCHANGED <<heapVars, used, mGroups, barrier, mTotalSize, up, ending, touched>>
  BY DEF EndGroup
<1>2. OwnInv'
  BY <1>1, OwnKept DEF IInv
<1>3. BarrierInv'
  BY <1>1 DEF IInv, BarrierInv
<1>4. QED
  BY <1>1, <1>2, <1>3, TypeFacts, GroupsStep DEF IInv

LEMMA BarrierEndStep ==
  ASSUME IInv, client' = client, BarrierEnd
  PROVE  IInv'
<1>1. /\ barrier /\ group = 0 /\ ending' = TRUE /\ touched' = {}
      /\ UNCHANGED <<heapVars, used, mGroups, group, barrier, mTotalSize, up>>
  BY DEF BarrierEnd
<1>2. OwnInv'
  BY <1>1, OwnNone
<1>3. BarrierInv'
  BY <1>1 DEF IInv, BarrierInv
<1>4. QED
  BY <1>1, <1>2, <1>3, TypeFacts, GroupsStep DEF IInv

LEMMA GroupsDoneStep ==
  ASSUME IInv, ending, client' = client, GroupsDone
  PROVE  IInv'
<1> DEFINE len == 0
<1>1. /\ \A i \in DOMAIN mGroups : mGroups[i] = {}
      /\ mGroups' = <<>> /\ barrier' = FALSE /\ ending' = FALSE
      /\ UNCHANGED <<heapVars, used, group, mTotalSize, up, touched>>
  BY DEF GroupsDone
<1>2. touched' = {} /\ group' = 0
  BY <1>1 DEF IInv, BarrierInv
<1>3. OwnInv'
  BY <1>2, OwnNone
<1>4. BarrierInv'
  BY <1>1, <1>2 DEF BarrierInv
<1>5. DOMAIN mGroups' = {} /\ mGroups' = [i \in 1 .. len |-> mGroups'[i]] /\ DOMAIN mGroups' = 1 .. len
  BY <1>1
<1>6. /\ \A i \in DOMAIN mGroups' : mGroups'[i] = IF i \in DOMAIN mGroups THEN mGroups[i] ELSE {}
      /\ \A i \in DOMAIN mGroups : mGroups[i] # {} => i \in DOMAIN mGroups'
  BY <1>1, <1>5
<1>7. group' \in 0 .. len /\ barrier' \in BOOLEAN /\ ending' \in BOOLEAN /\ len \in Nat
  <2>1. barrier' = FALSE /\ ending' = FALSE
    BY <1>1
  <2>2. group' \in 0 .. len /\ len \in Nat
    BY <1>2
  <2>3. QED
    BY <2>1, <2>2
<1> HIDE DEF len
<1>8. UNCHANGED <<heapVars, used, mTotalSize, up>>
  BY <1>1
<1>9. QED
  BY <1>3, <1>4, <1>5, <1>6, <1>7, <1>8, GroupsStep

LEMMA BeginGroupStep ==
  ASSUME IInv, ~ending, client' = client, BeginGroup
  PROVE  IInv'
<1> USE DEF IInv
<1> DEFINE len == Len(mGroups) + 1
<1>1. /\ barrier /\ group = 0 /\ mGroups' = Append(mGroups, {}) /\ group' = len
      /\ UNCHANGED <<heapVars, used, barrier, mTotalSize, up, ending, touched>>
  BY DEF BeginGroup
<1>2. /\ len \in Nat /\ DOMAIN mGroups = 1 .. (len - 1) /\ mGroups' = [i \in 1 .. len |-> mGroups'[i]]
      /\ DOMAIN mGroups' = 1 .. len
      /\ \A i \in 1 .. len : mGroups'[i] = IF i \in DOMAIN mGroups THEN mGroups[i] ELSE {}
  <2>1. mGroups \in Seq(SUBSET Nodes) /\ Len(mGroups) \in Nat /\ DOMAIN mGroups = 1 .. Len(mGroups)
    BY DEF TypeOK
  <2>2. len \in Nat /\ len - 1 = Len(mGroups)
    BY <2>1
  <2>3. /\ mGroups' \in Seq(SUBSET Nodes) /\ Len(mGroups') = len
        /\ \A i \in 1 .. Len(mGroups) : mGroups'[i] = mGroups[i]
        /\ mGroups'[len] = {}
    BY <1>1, <2>1
  <2>4. \A i \in 1 .. len : IF i \in DOMAIN mGroups THEN i \in 1 .. Len(mGroups) ELSE i = len
    BY <2>1, <2>2
  <2>5. DOMAIN mGroups' = 1 .. len /\ mGroups' = [i \in 1 .. len |-> mGroups'[i]]
    BY <2>2, <2>3
  <2>6. QED
    BY <2>1, <2>2, <2>3, <2>4, <2>5
<1> HIDE DEF len
<1>3. DOMAIN mGroups \subseteq DOMAIN mGroups'
  BY <1>2
<1>4. OwnInv'
  <2>1. ASSUME NEW g \in DOMAIN mGroups, NEW n, Has(g, n)
        PROVE  n \in Leaves' /\ Has(g, n)'
    <3>1. mGroups'[g] = mGroups[g] /\ g \in DOMAIN mGroups'
      BY <1>2, <1>3
    <3>2. QED
      BY <1>1, <2>1, <3>1 DEF Has, Leaves, Entry
  <2>2. ASSUME NEW t \in touched
        PROVE  /\ t.group \in DOMAIN mGroups' /\ t.off \in Nat /\ t.size \in Nat \ {0}
               /\ \E n \in Leaves' : /\ t.block = n.block /\ n.off <= t.off
                                     /\ t.off + t.size <= n.off + n.size /\ Has(t.group, n)'
    BY <1>3, <2>1 DEF OwnInv
  <2>3. ASSUME NEW c \in used, NEW g, Entry(g, c) \in touched
        PROVE  g \in DOMAIN mGroups
    BY <2>3 DEF OwnInv, Entry
  <2>4. ASSUME NEW c \in used, NEW g, NEW h, Entry(g, c) \in touched, Entry(h, c) \in touched
        PROVE  g = h
    BY <2>3, <2>4 DEF OwnInv
  <2>5. \A c \in used', g, h \in DOMAIN mGroups' : Entry(g, c) \in touched' /\ Entry(h, c) \in touched' => g = h
    BY <1>1, <2>4
  <2>6. QED
    BY <1>1, <2>2, <2>5 DEF OwnInv, Entry
<1>5. BarrierInv'
  BY <1>1 DEF BarrierInv
<1>6. group' \in 0 .. len /\ barrier' \in BOOLEAN /\ ending' \in BOOLEAN
  BY <1>1, <1>2, TypeFacts
<1>7. QED
  BY <1>1, <1>2, <1>3, <1>4, <1>5, <1>6, GroupsStep

\* Whole free blocks are given back to the parent allocator.
LEMMA ReleaseStep ==
  ASSUME IInv, up = None, client' = client, Release
  PROVE  IInv'
<1> USE DEF IInv
<1> DEFINE R == Releasable
<1>1. /\ ~barrier /\ mTotalSize' = mTotalSize - SizeSum(R)
      /\ parent' = [m \in Nodes \ R |-> parent[m]] /\ useCount' = [m \in Nodes \ R |-> useCount[m]]
      /\ mFreeList' = mFreeList \ R
      /\ UNCHANGED <<used, mGroups, group, barrier, up, ending, touched>>
  BY DEF Release
<1>2. /\ R \in SUBSET (Leaves \cap Roots(parent)) /\ R \subseteq mFreeList
      /\ mGroups = <<>> /\ touched = {} /\ Nodes \subseteq NodeSet /\ Roots(parent) \subseteq Nodes
  BY <1>1, HeapFacts DEF Releasable, Roots, Leaves, Nodes, BarrierInv
<1>3. CountInv'
  BY CountRelease
<1> HIDE DEF R
<1>4. Leaves' = Leaves \ R
  <2>1. Leaves = {c.node : c \in used} \cup mFreeList /\ Leaves' = {c.node : c \in used'} \cup mFreeList'
    BY <1>1, <1>2 DEF Leaves
  <2>2. \A c \in used : c.node \notin R
    BY <1>2 DEF PlaceInv
  <2>3. QED
    BY <1>1, <1>2, <2>1, <2>2
<1>5. Forest(parent', Leaves \ R) /\ Roots(parent') = Roots(parent) \ R
  <2>1. Restricts(parent', parent, R)
    BY <1>1 DEF Restricts, Nodes
  <2>2. Forest(parent, Leaves)
    BY DEF HeapInv
  <2>3. QED
    BY <1>2, <2>1, <2>2, ForestRelease
<1>6. HeapInv'
  BY <1>4, <1>5 DEF HeapInv
<1>7. TotalExact'
  <2>1. mTotalSize = SizeSum(Roots(parent))
    BY DEF TotalExact, Roots, Nodes
  <2>2. IsFiniteSet(Roots(parent)) /\ \A n \in Roots(parent) : n.size \in Nat
    BY <1>2, FS_Subset DEF HeapInv, Forest, NodeSet, Nodes
  <2>3. R \in SUBSET Roots(parent)
    BY <1>2
  <2>4. SizeSum(Roots(parent)) = SizeSum(R) + SizeSum(Roots(parent) \ R)
    BY <2>2, <2>3, SumMinus
  <2>5. SizeSum(R) \in Nat /\ SizeSum(Roots(parent) \ R) \in Nat
    BY <2>2, <2>3, SumNat, FS_Subset
  <2>6. mTotalSize' = SizeSum(Roots(parent) \ R)
    BY <1>1, <2>1, <2>4, <2>5
  <2>7. mTotalSize' = SizeSum(Roots(parent'))
    BY <1>5, <2>6
  <2>8. QED
    BY <2>7 DEF TotalExact, Roots, Nodes
<1>8. PlaceInv'
  <2>1. \A c, d \in used' : c.node = d.node => c = d
    BY <1>1 DEF PlaceInv
  <2>2. \A c \in used' : c.node \notin mFreeList'
    BY <1>1 DEF PlaceInv
  <2>3. DOMAIN mGroups' = {}
    BY <1>1, <1>2
  <2>4. QED
    BY <2>1, <2>2, <2>3 DEF PlaceInv
<1>9. ChunkInv'
  BY <1>1 DEF ChunkInv
<1>10. BarrierInv'
  BY <1>1 DEF BarrierInv
<1>11. OwnInv'
  BY <1>1, <1>2, OwnNone
<1>12. TypeOK'
  <2>1. /\ mGroups' = [i \in 1 .. Len(mGroups) |-> mGroups'[i]]
        /\ \A d \in used' : d.off \in Nat /\ d.size \in client'.sizes
        /\ DOMAIN useCount' = Nodes'
    BY <1>1, TypeFacts DEF Nodes
  <2>2. QED
    BY <1>1, <1>3, <1>6, <1>7, <2>1, TypeFacts, TypeNext
<1>13. QED
  BY <1>3, <1>6, <1>7, <1>8, <1>9, <1>10, <1>11, <1>12

\* The forest with no tree.
LEMMA EmptyForest ==
  Forest(<<>>, {}) /\ Roots(<<>>) = {} /\ SizeSum({}) = 0
<1>1. IsFiniteSet({}) /\ DOMAIN <<>> = {}
  BY FS_EmptySet
<1>2. SizeSum({}) = 0
  BY <1>1, SumUnfolds
<1>3. QED
  BY <1>1, <1>2 DEF Forest, Roots, Nested, Kids

LEMMA ReleaseAllStep ==
  ASSUME IInv, up = None, client' = client, ReleaseAll
  PROVE  IInv'
<1> USE DEF IInv
<1>1. /\ ~barrier /\ parent' = <<>> /\ useCount' = <<>> /\ mFreeList' = {} /\ used' = {} /\ mTotalSize' = 0
      /\ UNCHANGED <<mGroups, group, barrier, up, ending, touched>>
  BY DEF ReleaseAll
<1>2. mGroups' = <<>> /\ touched' = {} /\ Nodes' = {}
  BY <1>1 DEF BarrierInv, Nodes
<1>3. Leaves' = {}
  BY <1>1, <1>2 DEF Leaves
<1>4. HeapInv' /\ TotalExact'
  <2>1. HeapInv'
    BY <1>1, <1>3, EmptyForest DEF HeapInv
  <2>2. {n \in Nodes' : parent'[n] = None} = {}
    BY <1>2
  <2>3. QED
    BY <1>1, <2>1, <2>2, EmptyForest DEF TotalExact
<1>5. CountInv' /\ PlaceInv' /\ ChunkInv'
  BY <1>1, <1>2 DEF CountInv, PlaceInv, ChunkInv
<1>6. BarrierInv' /\ OwnInv'
  BY <1>1, <1>2, OwnNone DEF BarrierInv
<1>7. TypeOK'
  <2>1. /\ mGroups' = [i \in 1 .. Len(mGroups) |-> mGroups'[i]]
        /\ DOMAIN useCount' = Nodes' /\ up' \in Nodes' \cup {None}
    BY <1>1, <1>2, TypeFacts
  <2>2. QED
    BY <1>1, <1>4, <1>5, <2>1, TypeFacts, TypeNext
<1>8. QED
  BY <1>4, <1>5, <1>6, <1>7

LEMMA InitIInv ==
  ASSUME Init
  PROVE  IInv
<1> USE DEF Init
<1>1. Nodes = {} /\ Leaves = {}
  BY DEF Nodes, Leaves
<1>2. HeapInv /\ TotalExact
  <2>1. {n \in Nodes : parent[n] = None} = {}
    BY <1>1
  <2>2. QED
    BY <1>1, <2>1, EmptyForest DEF HeapInv, TotalExact
<1>3. CountInv /\ PlaceInv /\ ChunkInv
  BY <1>1 DEF CountInv, PlaceInv, ChunkInv
<1>4. BarrierInv
  BY DEF BarrierInv
<1>5. OwnInv
  BY DEF OwnInv
<1>6. TypeOK
  <2>1. mGroups \in Seq(SUBSET Nodes) /\ group \in 0 .. Len(mGroups)
    OBVIOUS
  <2>2. DOMAIN useCount = Nodes /\ \A n \in Nodes : FALSE
    BY <1>1
  <2>3. {barrier, ending} \subseteq BOOLEAN /\ up \in Nodes \cup {None} /\ mTotalSize \in Nat
    OBVIOUS
  <2>4. mFreeList \subseteq Nodes /\ \A c \in used : c.node \in Nodes /\ c.off \in Nat /\ c.size \in client.sizes
    OBVIOUS
  <2>5. QED
    BY <2>1, <2>2, <2>3, <2>4 DEF TypeOK
<1>7. QED
  BY <1>2, <1>3, <1>4, <1>5, <1>6 DEF IInv

-----------------------------------------------------------------------------
(* Theorems.                                                                *)

LEMMA StutterStep ==
  ASSUME IInv, UNCHANGED vars
  PROVE  IInv'
<1> USE DEF IInv
<1>1. UNCHANGED <<client, heapVars, used, mGroups, group, barrier, mTotalSize, up, ending, touched>>
  BY DEF vars
<1>2. OwnInv'
  BY <1>1, OwnKept
<1>3. BarrierInv'
  BY <1>1 DEF BarrierInv
<1>4. QED
  BY <1>1, <1>2, <1>3, TypeFacts, GroupsStep

LEMMA OperationStep ==
  ASSUME IInv, up = None, ~ending, client' = client, Operation
  PROVE  IInv'
<1>1. CASE \E size \in client.sizes, align \in client.aligns, separate \in BOOLEAN : Alloc(size, align, separate)
  BY <1>1, AllocStep
<1>2. CASE \E c \in used : Free(c)
  <2>1. PICK c \in used : Free(c)
    BY <1>2
  <2>2. group = 0 \/ group > 0
    BY TypeFacts DEF IInv
  <2>3. QED
    BY <2>1, <2>2, FreeStep, FreeInGroupStep
<1>3. CASE BarrierBegin
  BY <1>3, BarrierBeginStep
<1>4. CASE BeginGroup
  BY <1>4, BeginGroupStep
<1>5. CASE EndGroup
  BY <1>5, EndGroupStep
<1>6. CASE BarrierEnd
  BY <1>6, BarrierEndStep
<1>7. CASE Release
  BY <1>7, ReleaseStep
<1>8. CASE ReleaseAll
  BY <1>8, ReleaseAllStep
<1>9. QED
  BY <1>1, <1>2, <1>3, <1>4, <1>5, <1>6, <1>7, <1>8 DEF Operation

LEMMA NextStep ==
  ASSUME IInv, [Next]_vars
  PROVE  IInv'
<1>1. CASE UNCHANGED vars
  BY <1>1, StutterStep
<1>2. CASE client' = client /\ MergeUp
  BY <1>2, MergeUpStep
<1>3. CASE client' = client /\ up = None /\ ending /\ ReturnGroup
  BY <1>3, ReturnGroupStep
<1>4. CASE client' = client /\ up = None /\ ending /\ GroupsDone
  BY <1>4, GroupsDoneStep
<1>5. CASE client' = client /\ up = None /\ ~ending /\ Operation
  BY <1>5, OperationStep
<1>6. QED
  BY <1>1, <1>2, <1>3, <1>4, <1>5 DEF Next

\* The nodes of the allocator (BufferAllocator.cpp) are a forest with a tree for
\* each block whose leaves are in use or in one list, counted by useCount, in
\* every state: the inductive invariant of the theorems that follow.
THEOREM Invariance == Spec => []IInv
<1>1. Init => IInv
  BY InitIInv
<1>2. IInv /\ [Next]_vars => IInv'
  BY NextStep
<1>3. QED
  BY <1>1, <1>2, PTL DEF Spec

\* Every list and parent of the allocator names a node there is, no useCount
\* falls below zero and mTotalSize is never negative.
THEOREM Typed == Spec => []TypeOK
<1>1. IInv => TypeOK
  BY DEF IInv
<1>2. QED
  BY <1>1, Invariance, PTL

LEMMA NoOverlapHolds ==
  ASSUME IInv
  PROVE  NoOverlap
<1> USE DEF IInv
<1>1. ASSUME NEW c \in used, NEW d \in used, c # d, c.node.block = d.node.block
      PROVE  Apart(c.off, c.size, d.off, d.size)
  <2>1. c.node # d.node
    BY <1>1 DEF PlaceInv
  <2>2. c.node \in Leaves /\ d.node \in Leaves
    BY DEF Leaves
  <2>3. Clear(c.node, d.node) /\ c.node \in NodeSet /\ d.node \in NodeSet
    BY <2>1, <2>2, ForestFacts DEF HeapInv
  <2>4. /\ c.off \in Nat /\ d.off \in Nat
        /\ c.size \in Nat /\ d.size \in Nat
    BY TypeFacts, EagerAssumption
  <2>5. /\ c.node.off <= c.off /\ c.off + c.size <= c.node.off + c.node.size
        /\ d.node.off <= d.off /\ d.off + d.size <= d.node.off + d.node.size
    BY DEF ChunkInv
  <2>6. Apart(c.node.off, c.node.size, d.node.off, d.node.size)
    BY <1>1, <2>3 DEF Clear
  <2>7. QED
    BY <2>3, <2>4, <2>5, <2>6 DEF Apart, NodeSet
<1>2. QED
  BY <1>1 DEF NoOverlap, ChunkInv

\* alloc never hands out memory that is in use: chunks lie in the nodes that pay
\* for them, whatever was split, aligned, merged and reused, and never overlap.
THEOREM ChunksApart == Spec => []NoOverlap
  BY NoOverlapHolds, Invariance, PTL

LEMMA PartitionHolds ==
  ASSUME IInv
  PROVE  Partition
<1>1. Forest(parent, Leaves)
  BY DEF IInv, HeapInv
<1>2. \A m, n \in Leaves : m # n /\ m.block = n.block => Apart(m.off, m.size, n.off, n.size)
  BY <1>1, ForestFacts DEF Clear
<1>3. \A n \in Nodes : parent[n] = None => SizeSum({m \in Leaves : m.block = n.block}) = n.size
  BY <1>1 DEF Forest, Roots, Nodes
<1>4. QED
  BY <1>2, <1>3 DEF Partition

\* Splits, merges, groups and release neither lose nor duplicate a byte: what is
\* in use or in a free list of BufferAllocator.cpp is exactly each of its blocks.
THEOREM NothingLost == Spec => []Partition
  BY PartitionHolds, Invariance, PTL

\* mTotalSize, which totalSize() reports, is what the parent allocator has lent.
THEOREM TotalCounted == Spec => []TotalExact
<1>1. IInv => TotalExact
  BY DEF IInv
<1>2. QED
  BY <1>1, Invariance, PTL

LEMMA GroupsPrivateHolds ==
  ASSUME IInv
  PROVE  GroupsPrivate
<1> USE DEF IInv
<1>1. ASSUME NEW s \in touched, NEW t \in touched, s.group # t.group, s.block = t.block
      PROVE  Apart(s.off, s.size, t.off, t.size)
  <2>1. PICK m \in Leaves : /\ s.block = m.block /\ m.off <= s.off
                            /\ s.off + s.size <= m.off + m.size /\ Has(s.group, m)
    BY DEF OwnInv
  <2>2. PICK n \in Leaves : /\ t.block = n.block /\ n.off <= t.off
                            /\ t.off + t.size <= n.off + n.size /\ Has(t.group, n)
    BY DEF OwnInv
  <2>3. /\ s.group \in DOMAIN mGroups /\ t.group \in DOMAIN mGroups
        /\ s.off \in Nat /\ t.off \in Nat /\ s.size \in Nat /\ t.size \in Nat
    BY DEF OwnInv
  <2>4. m # n
    <3>1. ASSUME m = n PROVE FALSE
      <4>1. CASE m \in mGroups[s.group]
        BY <1>1, <2>1, <2>2, <2>3, <3>1, <4>1 DEF Has, PlaceInv
      <4>2. CASE m \in mGroups[t.group]
        BY <1>1, <2>1, <2>2, <2>3, <3>1, <4>2 DEF Has, PlaceInv
      <4>3. CASE m \notin mGroups[s.group] /\ m \notin mGroups[t.group]
        <5>1. PICK c \in used : c.node = m /\ Entry(s.group, c) \in touched
          BY <2>1, <4>3 DEF Has
        <5>2. PICK d \in used : d.node = m /\ Entry(t.group, d) \in touched
          BY <2>2, <3>1, <4>3 DEF Has
        <5>3. c = d
          BY <5>1, <5>2 DEF PlaceInv
        <5>4. QED
          BY <1>1, <2>3, <5>1, <5>2, <5>3 DEF OwnInv
      <4>4. QED
        BY <4>1, <4>2, <4>3
    <3>2. QED
      BY <3>1
  <2>5. Clear(m, n) /\ m \in NodeSet /\ n \in NodeSet
    BY <2>4, ForestFacts DEF HeapInv
  <2>6. Apart(m.off, m.size, n.off, n.size)
    BY <1>1, <2>1, <2>2, <2>5 DEF Clear
  <2>7. QED
    BY <2>1, <2>2, <2>3, <2>5, <2>6 DEF Apart, NodeSet
<1>2. QED
  BY <1>1 DEF GroupsPrivate

\* Memory that beginGroup .. endGroup has handed out stays with that group until
\* barrierEnd: the operators of two groups can run at the same time.
THEOREM GroupsApart == Spec => []GroupsPrivate
  BY GroupsPrivateHolds, Invariance, PTL

LEMMA AllMergedHolds ==
  ASSUME IInv
  PROVE  AllMerged
<1> USE DEF IInv
<1> SUFFICES ASSUME used = {}, ~barrier, up = None
             PROVE  \A n \in Nodes : parent[n] = None /\ n \in mFreeList
  BY DEF AllMerged
<1>1. Leaves = mFreeList
  BY DEF Leaves, BarrierInv
<1> DEFINE Inner == {n \in Nodes : Kids(parent, n) # {}}
<1>2. Inner = {}
  <2> SUFFICES ASSUME Inner # {} PROVE FALSE
    OBVIOUS
  <2>1. PICK n \in Inner : \A m \in Inner : n.size <= m.size
    <3> DEFINE S == {m.size : m \in Inner}
    <3>1. S \in SUBSET Nat /\ S # {}
      BY HeapFacts DEF NodeSet
    <3> HIDE DEF S
    <3>2. PICK k \in S : \A j \in S : k <= j
      BY <3>1, LeastNat
    <3>3. QED
      BY <3>2 DEF S
  <2>2. PICK h, r \in Nodes : /\ Kids(parent, n) = {h, r} /\ h # r
                              /\ h.size < n.size /\ r.size < n.size
    BY HeapFacts
  <2>3. useCount[n] = Out(h) + Out(r) + 0 /\ useCount[n] > 0
    <3>1. n # None /\ n \in Nodes /\ Kids(parent, n) # {}
      BY HeapFacts
    <3>2. QED
      BY <2>2, <3>1 DEF CountInv
  <2>4. h \notin mFreeList \/ r \notin mFreeList
    BY <2>3 DEF Out
  <2>5. h \in Inner \/ r \in Inner
    BY <1>1, <2>4, HeapFacts
  <2>6. n.size \in Nat /\ h.size \in Nat /\ r.size \in Nat
    BY HeapFacts DEF NodeSet
  <2>7. QED
    BY <2>1, <2>2, <2>5, <2>6
<1>3. ASSUME NEW n \in Nodes PROVE parent[n] = None /\ n \in mFreeList
  <2>1. parent[n] = None
    BY <1>2, HeapFacts
  <2>2. n \in Leaves
    BY <1>2, HeapFacts
  <2>3. QED
    BY <1>1, <2>1, <2>2
<1>4. QED
  BY <1>3

\* returnMemory merges all the way up: with no chunk in use, every block is one
\* free node, which release(false) gives back.
THEOREM AllComesBack == Spec => []AllMerged
  BY AllMergedHolds, Invariance, PTL

=============================================================================
