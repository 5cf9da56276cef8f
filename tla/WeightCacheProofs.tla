------------------------- MODULE WeightCacheProofs -------------------------
(***************************************************************************)
(* Proofs about WeightCache, for any number of weights: in a sound          *)
(* directory every execution works on its own weights and the marker keeps  *)
(* its contract; and, sound or not, new files reach the disk before the     *)
(* marker does.                                                             *)
(***************************************************************************)
EXTENDS WeightCache, TLAPS

\* Weights k are in the k-th file or outside the pool, and loading is in order.
PlaceInv ==
    /\ \A k \in Weights : place[k] \in Files => place[k] = k - 1
    /\ pc = "load" => \A k \in Weights :
         /\ place[k] # Raw
         /\ place[k] # Nowhere => k <= mAllocTimes
    /\ pc = "mark" => ready = Weights /\ \A k \in Weights : place[k] \in Files
    /\ pc = "sealed" => \A k \in Weights : k \in ready \/ place[k] = Raw
    /\ \A k \in ready : place[k] # Nowhere
    /\ \A f \in Mapped : cache[f] # Absent

\* A runtime trusts the files only until it is sealed, and only with a marker;
\* unless the directory was switched, an uncached run goes without a marker.
TrustInv ==
    /\ useCachedMmap > 1 => marker /\ pc \in {"load", "mark"}
    /\ mRemove /\ ~switched => ~marker
    /\ pc = "down" => mAllocTimes = 0 /\ ready = {} /\ ~mNewMmap
                      /\ place = [k \in Weights |-> Nowhere]

\* Between the flush and the marker nothing is written to the mapped files, and
\* a marker on the disk is one that every process sees.
SyncInv ==
    /\ DOMAIN disk = Files
    /\ markerDisk => marker
    /\ pc = "mark" /\ mNewMmap /\ ~mRemove => \A f \in Mapped : disk[f] = cache[f]

\* As long as no run was cut short, a file is absent or complete, and complete
\* on the disk too, except while a run that creates files has not flushed them.
DiskInv ==
    ~switched /\ ~cut /\ ~Unflushed =>
      \A f \in Files : /\ disk[f] \in {Absent, f + 1}
                       /\ cache[f] = Absent \/ (cache[f] = f + 1 /\ disk[f] = f + 1)

IInv == TypeOK /\ PlaceInv /\ TrustInv /\ SyncInv /\ DiskInv /\ WeightsSafe /\ MarkerSafe

-----------------------------------------------------------------------------
USE CacheAssumption DEF vars, fileVars, runtimeVars, historyVars,
                        Weights, Files, Absent, Zero, Raw, Nowhere

\* Buffers that nobody has acquired are well typed.
LEMMA NoBuffers ==
    /\ [k \in Weights |-> Nowhere] \in [Weights -> Files \cup {Raw, Nowhere}]
    /\ [k \in Weights |-> Zero] \in [Weights -> {Zero} \cup Weights]
  OBVIOUS

\* The directory is empty and no runtime exists.
LEMMA InitIInv == Init => IInv
<1> SUFFICES ASSUME Init PROVE IInv
  OBVIOUS
<1>1. TypeOK
  <2>1. FilesTypeOK /\ BuffersTypeOK
    BY NoBuffers DEF Init, FilesTypeOK, BuffersTypeOK
  <2>2. FlagsTypeOK
    BY DEF Init, FlagsTypeOK
  <2>3. CountsTypeOK
    BY DEF Init, CountsTypeOK
  <2> QED BY <2>1, <2>2, <2>3 DEF TypeOK
<1>2. PlaceInv /\ TrustInv /\ SyncInv
  BY DEF Init, PlaceInv, TrustInv, SyncInv, Mapped
<1>3. DiskInv /\ WeightsSafe /\ MarkerSafe
  BY DEF Init, DiskInv, WeightsSafe, MarkerSafe, WeightsLoaded, MarkerMeansComplete
<1> QED BY <1>1, <1>2, <1>3 DEF IInv

\* When a run ends, whatever way, its state is as before the first run.
LEMMA GoneTyped ==
    ASSUME FlagsTypeOK, Gone, lost' \in BOOLEAN
    PROVE  BuffersTypeOK' /\ FlagsTypeOK' /\ CountsTypeOK'
<1>1. BuffersTypeOK' /\ CountsTypeOK'
  BY NoBuffers DEF Gone, BuffersTypeOK, CountsTypeOK
<1>2. cut' \in BOOLEAN /\ switched' \in BOOLEAN
  BY DEF Gone, FlagsTypeOK
<1>3. FlagsTypeOK'
  BY <1>2 DEF Gone, FlagsTypeOK
<1> QED BY <1>1, <1>3

\* Every step keeps the types.
LEMMA NextTypeOK ==
    ASSUME TypeOK, [Next]_vars
    PROVE  TypeOK'
<1> USE DEF TypeOK
<1>1. CASE \E cached \in BOOLEAN : Start(cached)
  <2>1. PICK cached \in BOOLEAN : Start(cached)
    BY <1>1
  <2>2. FilesTypeOK' /\ BuffersTypeOK'
    BY <2>1 DEF Start, FilesTypeOK, BuffersTypeOK
  <2>3. FlagsTypeOK'
    BY <2>1 DEF Start, FlagsTypeOK, FilesTypeOK
  <2>4. CountsTypeOK'
    <3>1. CASE cached = TRUE
      BY <2>1, <3>1 DEF Start, TrustAfter, CountsTypeOK
    <3>2. CASE cached = FALSE
      BY <2>1, <3>2 DEF Start, TrustAfter, CountsTypeOK
    <3> QED BY <3>1, <3>2
  <2> QED BY <2>2, <2>3, <2>4
<1>2. CASE Acquire
  <2>1. FilesTypeOK' /\ BuffersTypeOK' /\ CountsTypeOK'
    BY <1>2 DEF Acquire, FilesTypeOK, BuffersTypeOK, CountsTypeOK
  <2>2. FlagsTypeOK'
    BY <1>2 DEF Acquire, FlagsTypeOK
  <2> QED BY <2>1, <2>2
<1>3. CASE AcquireFails
  <2>1. FilesTypeOK' /\ BuffersTypeOK' /\ CountsTypeOK'
    BY <1>3 DEF AcquireFails, FilesTypeOK, BuffersTypeOK, CountsTypeOK
  <2>2. FlagsTypeOK'
    BY <1>3 DEF AcquireFails, FlagsTypeOK
  <2> QED BY <2>1, <2>2
<1>4. CASE SyncMmap
  <2>1. FilesTypeOK' /\ BuffersTypeOK'
    BY <1>4 DEF SyncMmap, FilesTypeOK, BuffersTypeOK
  <2>2. FlagsTypeOK' /\ CountsTypeOK'
    BY <1>4 DEF SyncMmap, FlagsTypeOK, CountsTypeOK
  <2> QED BY <2>1, <2>2
<1>5. CASE SyncMark
  <2>1. FilesTypeOK' /\ BuffersTypeOK'
    BY <1>5 DEF SyncMark, FilesTypeOK, BuffersTypeOK
  <2>2. FlagsTypeOK'
    BY <1>5 DEF SyncMark, FlagsTypeOK
  <2>3. CountsTypeOK'
    BY <1>5 DEF SyncMark, SealedHint, CountsTypeOK
  <2> QED BY <2>1, <2>2, <2>3
<1>6. ASSUME NEW k \in Weights, Load(k) PROVE TypeOK'
  <2>1. FilesTypeOK'
    <3>1. cache' = cache \/ (place[k] # Raw /\ cache' = [cache EXCEPT ![place[k]] = k])
      BY <1>6 DEF Load
    <3>2. cache' \in [Files -> {Absent, Zero} \cup Weights]
      BY <1>6, <3>1 DEF FilesTypeOK, BuffersTypeOK, Load
    <3> QED BY <1>6, <3>2 DEF FilesTypeOK, Load
  <2>2. BuffersTypeOK'
    <3>1. raw' = raw \/ raw' = [raw EXCEPT ![k] = k]
      BY <1>6 DEF Load
    <3> QED BY <1>6, <3>1 DEF BuffersTypeOK, Load
  <2>3. FlagsTypeOK' /\ CountsTypeOK'
    BY <1>6 DEF Load, FlagsTypeOK, CountsTypeOK
  <2> QED BY <2>1, <2>2, <2>3
<1>7. ASSUME NEW k \in Weights, Recreate(k) PROVE TypeOK'
  <2>1. useCachedMmap' = useCachedMmap
    BY <1>7 DEF Recreate, TrustAfter
  <2>2. BuffersTypeOK'
    BY <1>7 DEF Recreate, BuffersTypeOK
  <2> QED BY <1>7, <2>1, <2>2 DEF Recreate, FilesTypeOK, FlagsTypeOK, CountsTypeOK
<1>8. CASE Exit
  <2>1. FilesTypeOK' /\ lost' \in BOOLEAN /\ Gone
    BY <1>8 DEF Exit, FilesTypeOK, FlagsTypeOK
  <2> QED BY <2>1, GoneTyped
<1>9. CASE Kill
  <2>1. FilesTypeOK' /\ lost' \in BOOLEAN /\ Gone
    BY <1>9 DEF Kill, FilesTypeOK, FlagsTypeOK
  <2> QED BY <2>1, GoneTyped
<1>10. CASE WriteBack
  <2>1. FilesTypeOK'
    <3>1. \A f \in Files : [disk EXCEPT ![f] = cache[f]] \in [Files -> {Absent, Zero} \cup Weights]
      BY DEF FilesTypeOK
    <3> QED BY <1>10, <3>1 DEF WriteBack, FilesTypeOK
  <2> QED BY <1>10, <2>1 DEF WriteBack, BuffersTypeOK, FlagsTypeOK, CountsTypeOK
<1>11. CASE LosePower
  <2>1. FilesTypeOK' /\ lost' \in BOOLEAN /\ Gone
    BY <1>11 DEF LosePower, FilesTypeOK
  <2> QED BY <2>1, GoneTyped
<1>12. CASE UNCHANGED vars
  BY <1>12 DEF FilesTypeOK, BuffersTypeOK, FlagsTypeOK, CountsTypeOK
<1> QED BY <1>1, <1>2, <1>3, <1>4, <1>5, <1>6, <1>7, <1>8, <1>9, <1>10, <1>11, <1>12 DEF Next

\* Files are handed out in order and only a sealed runtime leaves the pool.
LEMMA NextPlaceInv ==
    ASSUME TypeOK, PlaceInv, TrustInv, [Next]_vars
    PROVE  PlaceInv'
<1> USE DEF PlaceInv, Mapped
<1>1. CASE \E cached \in BOOLEAN : Start(cached)
  BY <1>1 DEF Start, TrustInv
<1>2. CASE Acquire
  BY <1>2, SMTT(20) DEF Acquire, TypeOK, FilesTypeOK, BuffersTypeOK, CountsTypeOK
<1>3. CASE AcquireFails
  BY <1>3 DEF AcquireFails, TypeOK, FilesTypeOK, CountsTypeOK
<1>4. CASE SyncMmap
  BY <1>4 DEF SyncMmap, Loaded, TypeOK, BuffersTypeOK
<1>5. CASE SyncMark
  BY <1>5 DEF SyncMark
<1>6. ASSUME NEW k \in Weights, Load(k) PROVE PlaceInv'
  <2>1. \A f \in Files : cache'[f] = cache[f] \/ cache'[f] = k
    BY <1>6 DEF Load, TypeOK, FilesTypeOK
  <2>2. pc' = pc /\ mAllocTimes' = mAllocTimes /\ place' = place /\ ready' = ready \cup {k}
        /\ pc # "mark" /\ place[k] # Nowhere
    BY <1>6 DEF Load
  <2> QED BY <2>1, <2>2
<1>7. ASSUME NEW k \in Weights, Recreate(k) PROVE PlaceInv'
  BY <1>7 DEF Recreate, TypeOK, BuffersTypeOK
<1>8. CASE Exit \/ Kill \/ LosePower
  BY <1>8 DEF Exit, Kill, LosePower, Gone
<1>9. CASE WriteBack
  BY <1>9 DEF WriteBack
<1>10. CASE UNCHANGED vars
  BY <1>10
<1> QED BY <1>1, <1>2, <1>3, <1>4, <1>5, <1>6, <1>7, <1>8, <1>9, <1>10 DEF Next

\* The trust is given once, with the marker there, and withdrawn on sealing;
\* as long as a run lasts, the marker does not go away.
LEMMA NextTrustInv ==
    ASSUME TypeOK, TrustInv, [Next]_vars
    PROVE  TrustInv'
<1> USE DEF TrustInv
<1>1. CASE \E cached \in BOOLEAN : Start(cached)
  <2>1. PICK cached \in BOOLEAN : Start(cached)
    BY <1>1
  <2>2. useCachedMmap' > 1 => marker
    BY <2>1 DEF Start, TrustAfter
  <2> QED BY <2>1, <2>2 DEF Start
<1>2. CASE Acquire \/ AcquireFails
  BY <1>2 DEF Acquire, AcquireFails
<1>3. CASE SyncMmap
  BY <1>3 DEF SyncMmap
<1>4. CASE SyncMark
  <2>1. useCachedMmap' \in 0 .. 1
    BY <1>4 DEF SyncMark, SealedHint, TypeOK, CountsTypeOK
  <2>2. mRemove /\ ~switched => ~marker'
    BY <1>4 DEF SyncMark, Marks
  <2> QED BY <1>4, <2>1, <2>2 DEF SyncMark
<1>5. ASSUME NEW k \in Weights, Load(k) PROVE TrustInv'
  <2>1. UNCHANGED <<pc, marker, useCachedMmap, mRemove, switched>> /\ pc # "down"
    BY <1>5 DEF Load
  <2> QED BY <2>1
<1>6. ASSUME NEW k \in Weights, Recreate(k) PROVE TrustInv'
  <2>1. useCachedMmap' = useCachedMmap
    BY <1>6 DEF Recreate, TrustAfter
  <2> QED BY <1>6, <2>1 DEF Recreate
<1>7. CASE Exit \/ Kill \/ LosePower
  <2>1. Gone
    BY <1>7 DEF Exit, Kill, LosePower
  <2> QED BY <2>1 DEF Gone
<1>8. CASE WriteBack
  BY <1>8 DEF WriteBack
<1>9. CASE UNCHANGED vars
  BY <1>9
<1> QED BY <1>1, <1>2, <1>3, <1>4, <1>5, <1>6, <1>7, <1>8, <1>9 DEF Next

\* The order of flush and marker survives every step.
LEMMA NextSyncInv ==
    ASSUME SyncInv, [Next]_vars
    PROVE  SyncInv'
<1> USE DEF SyncInv, Mapped
<1>1. CASE \E cached \in BOOLEAN : Start(cached)
  BY <1>1 DEF Start
<1>2. CASE Acquire \/ AcquireFails
  BY <1>2 DEF Acquire, AcquireFails
<1>3. CASE SyncMmap
  BY <1>3 DEF SyncMmap, Synced
<1>4. CASE SyncMark
  BY <1>4 DEF SyncMark
<1>5. CASE \E k \in Weights : Load(k) \/ Recreate(k)
  <2>1. pc' # "mark"
    BY <1>5 DEF Load, Recreate
  <2>2. UNCHANGED <<disk, marker, markerDisk>>
    BY <1>5 DEF Load, Recreate
  <2> QED BY <2>1, <2>2
<1>6. CASE Exit \/ Kill \/ LosePower
  BY <1>6 DEF Exit, Kill, LosePower, Gone
<1>7. CASE WriteBack
  <2>1. DOMAIN disk' = Files /\ \A f \in Files : disk'[f] \in {disk[f], cache[f]}
    BY <1>7 DEF WriteBack
  <2> QED BY <1>7, <2>1 DEF WriteBack
<1>8. CASE UNCHANGED vars
  BY <1>8
<1> QED BY <1>1, <1>2, <1>3, <1>4, <1>5, <1>6, <1>7, <1>8 DEF Next

\* What happened to a directory stays with it.
LEMMA HistoryGrows ==
    ASSUME [Next]_vars
    PROVE  (switched => switched') /\ (cut => cut') /\ (lost => lost')
<1>1. ASSUME NEW cached \in BOOLEAN, Start(cached)
      PROVE  (switched => switched') /\ UNCHANGED <<cut, lost>>
  BY <1>1 DEF Start
<1>2. AcquireFails => cut' /\ UNCHANGED <<switched, lost>>
  BY DEF AcquireFails
<1>3. Acquire \/ SyncMmap \/ SyncMark \/ WriteBack \/ UNCHANGED vars => UNCHANGED historyVars
  BY DEF Acquire, SyncMmap, SyncMark, WriteBack
<1>4. ASSUME NEW k \in Weights, Load(k) \/ Recreate(k) PROVE UNCHANGED historyVars
  BY <1>4 DEF Load, Recreate
<1>5. Gone => UNCHANGED switched /\ (cut => cut')
  BY DEF Gone
<1>6. Exit \/ Kill => Gone /\ UNCHANGED lost
  BY DEF Exit, Kill
<1>7. LosePower => Gone /\ lost'
  BY DEF LosePower
<1> QED BY <1>1, <1>2, <1>3, <1>4, <1>5, <1>6, <1>7 DEF Next

\* What made a directory unsound never goes away.
LEMMA SoundBefore ==
    ASSUME [Next]_vars, Sound'
    PROVE  Sound
  BY HistoryGrows DEF Sound

\* When all executions have been created in the pool, every file is mapped and
\* holds its weights.
LEMMA AllLoaded ==
    ASSUME TypeOK, PlaceInv, WeightsLoaded, ready = Weights, pc \in {"load", "mark"}
    PROVE  /\ \A f \in Files : cache[f] = f + 1
           /\ pc = "load" => Mapped = Files
<1>1. \A k \in Weights : place[k] = k - 1
  BY DEF PlaceInv, TypeOK, BuffersTypeOK
<1>2. \A f \in Files : f + 1 \in Weights /\ place[f + 1] = f
  BY <1>1
<1>3. \A f \in Files : cache[f] = f + 1
  BY <1>2 DEF WeightsLoaded
<1>4. ASSUME pc = "load" PROVE Mapped = Files
  <2>1. \A f \in Files : f + 1 <= mAllocTimes
    BY <1>2, <1>4 DEF PlaceInv
  <2> QED BY <2>1 DEF Mapped, TypeOK, CountsTypeOK
<1> QED BY <1>3, <1>4

\* A constructor that writes its weights to the pool writes them to its own
\* file, which is mapped.
LEMMA LoadWrites ==
    ASSUME TypeOK, PlaceInv, NEW k \in Weights, Load(k), cache' # cache
    PROVE  /\ place[k] = k - 1 /\ k - 1 \in Mapped
           /\ cache' = [cache EXCEPT ![k - 1] = k]
           /\ raw' = raw
<1>1. place[k] # Raw /\ cache' = [cache EXCEPT ![place[k]] = k] /\ raw' = raw
  BY DEF Load
<1>2. place[k] = k - 1 /\ pc = "load"
  BY <1>1 DEF Load, PlaceInv, TypeOK, BuffersTypeOK
<1>3. k - 1 \in Mapped
  BY <1>1, <1>2 DEF Load, PlaceInv, Mapped, TypeOK, CountsTypeOK
<1> QED BY <1>1, <1>2, <1>3

\* Complete files stay complete and flushed until a run is cut short.
LEMMA NextDiskInv ==
    ASSUME IInv, [Next]_vars
    PROVE  DiskInv'
<1> SUFFICES ASSUME ~switched', ~cut', ~Unflushed'
             PROVE  \A f \in Files : /\ disk'[f] \in {Absent, f + 1}
                                     /\ cache'[f] = Absent \/ (cache'[f] = f + 1 /\ disk'[f] = f + 1)
  BY DEF DiskInv
<1> DEFINE Whole == \A f \in Files :
                      /\ disk[f] \in {Absent, f + 1}
                      /\ cache[f] = Absent \/ (cache[f] = f + 1 /\ disk[f] = f + 1)
<1>0. TypeOK /\ PlaceInv /\ TrustInv /\ SyncInv
  BY DEF IInv
<1>a. ~switched /\ ~cut
  BY HistoryGrows
<1>b. ~Unflushed => Whole
  BY <1>a DEF IInv, DiskInv
<1>c. WeightsLoaded
  BY <1>a DEF IInv, WeightsSafe, Sound
<1>1. CASE \E cached \in BOOLEAN : Start(cached)
  <2>1. ~Unflushed /\ UNCHANGED <<cache, disk>>
    BY <1>0, <1>1 DEF Start, TrustInv, Unflushed
  <2> QED BY <1>b, <2>1
<1>2. CASE Acquire
  <2>1. ~mNewMmap'
    BY <1>2 DEF Acquire, Unflushed
  <2>2. ~mNewMmap /\ cache[mAllocTimes] # Absent
    BY <1>2, <2>1 DEF Acquire
  <2>3. \A f \in Files : cache'[f] = cache[f]
    BY <1>0, <1>2, <2>2 DEF Acquire, TypeOK, FilesTypeOK
  <2> QED BY <1>2, <1>b, <2>2, <2>3 DEF Acquire, Unflushed
<1>3. CASE AcquireFails
  BY <1>3 DEF AcquireFails
<1>4. CASE SyncMmap
  <2>1. CASE mNewMmap
    <3>1. ~mRemove
      BY <1>4, <2>1 DEF SyncMmap, Unflushed
    <3>2. \A f \in Files : f \in Synced /\ cache[f] = f + 1
      BY <1>0, <1>4, <1>c, <2>1, <3>1, AllLoaded DEF SyncMmap, Loaded, Synced
    <3> QED BY <1>4, <3>2 DEF SyncMmap
  <2>2. CASE ~mNewMmap
    <3>1. \A f \in Files : disk'[f] = disk[f] /\ cache'[f] = cache[f]
      BY <1>4, <2>2 DEF SyncMmap, Synced
    <3> QED BY <1>b, <2>2, <3>1 DEF Unflushed
  <2> QED BY <2>1, <2>2
<1>5. CASE SyncMark
  <2>1. ~Unflushed /\ UNCHANGED <<cache, disk>>
    BY <1>5 DEF SyncMark, Unflushed
  <2> QED BY <1>b, <2>1
<1>6. ASSUME NEW k \in Weights, Load(k) PROVE Whole'
  <2>1. ~Unflushed /\ disk' = disk
    BY <1>6 DEF Load, Unflushed
  <2>2. CASE cache' = cache
    BY <1>b, <2>1, <2>2
  <2>3. CASE cache' # cache
    <3>1. k - 1 \in Mapped /\ cache' = [cache EXCEPT ![k - 1] = k]
      BY <1>0, <1>6, <2>3, LoadWrites
    <3>2. cache[k - 1] # Absent /\ k - 1 \in Files
      BY <1>0, <3>1 DEF PlaceInv, Mapped
    <3>3. \A f \in Files : cache'[f] = cache[f]
      BY <1>0, <1>b, <2>1, <3>1, <3>2 DEF TypeOK, FilesTypeOK
    <3> QED BY <1>b, <2>1, <3>3
  <2> QED BY <2>2, <2>3
<1>7. ASSUME NEW k \in Weights, Recreate(k) PROVE Whole'
  BY <1>7, <1>b DEF Recreate, Unflushed
<1>8. CASE Exit \/ Kill
  <2>1. ~Unflushed
    BY <1>8 DEF Exit, Kill, Gone
  <2>2. disk' = disk /\ \A f \in Files : cache'[f] \in {Absent, cache[f]}
    BY <1>8 DEF Exit, Kill
  <2> QED BY <1>b, <2>1, <2>2
<1>9. CASE LosePower
  <2>1. ~Unflushed
    BY <1>9 DEF LosePower, Gone
  <2> QED BY <1>9, <1>b, <2>1 DEF LosePower
<1>10. CASE WriteBack
  <2>1. ~Unflushed /\ cache' = cache
    BY <1>10 DEF WriteBack, Unflushed
  <2>2. \A f \in Files : disk'[f] \in {disk[f], cache[f]}
    BY <1>0, <1>10 DEF WriteBack, SyncInv
  <2> QED BY <1>b, <2>1, <2>2
<1>11. CASE UNCHANGED vars
  BY <1>11, <1>b DEF Unflushed
<1> QED BY <1>1, <1>2, <1>3, <1>4, <1>5, <1>6, <1>7, <1>8, <1>9, <1>10, <1>11 DEF Next

\* In a sound directory executions keep their weights and the marker its word.
LEMMA NextWeights ==
    ASSUME IInv, [Next]_vars, Sound'
    PROVE  WeightsLoaded' /\ MarkerMeansComplete'
<1> DEFINE Goal == WeightsLoaded' /\ MarkerMeansComplete'
<1> USE DEF WeightsLoaded, MarkerMeansComplete
<1>0. TypeOK /\ PlaceInv /\ TrustInv /\ SyncInv /\ DiskInv
  BY DEF IInv
<1>a. Sound
  BY SoundBefore
<1>b. WeightsLoaded /\ MarkerMeansComplete
  BY <1>a DEF IInv, WeightsSafe, MarkerSafe
<1>1. CASE \E cached \in BOOLEAN : Start(cached)
  BY <1>b, <1>1 DEF Start
<1>2. CASE Acquire
  <2>1. \A f \in Files : cache[f] # Absent => cache'[f] = cache[f]
    BY <1>0, <1>2 DEF Acquire, TypeOK, FilesTypeOK
  <2>2. \A k \in ready : place[k] \in Files /\ place'[k] = place[k]
    BY <1>0, <1>2 DEF Acquire, PlaceInv, TypeOK, BuffersTypeOK, CountsTypeOK
  <2>3. WeightsLoaded'
    BY <1>0, <1>2, <1>b, <2>1, <2>2 DEF Acquire, TypeOK, BuffersTypeOK
  <2>4. MarkerMeansComplete'
    BY <1>2, <1>b, <2>1 DEF Acquire
  <2> QED BY <2>3, <2>4
<1>3. CASE AcquireFails
  <2>1. \A f \in Files : cache[f] # Absent => cache'[f] = cache[f]
    BY <1>0, <1>3 DEF AcquireFails, TypeOK, FilesTypeOK
  <2>2. \A k \in ready : place[k] \in Files
    BY <1>0, <1>3 DEF AcquireFails, PlaceInv, TypeOK, BuffersTypeOK
  <2> QED BY <1>0, <1>3, <1>b, <2>1, <2>2 DEF AcquireFails, TypeOK, BuffersTypeOK
<1>4. CASE SyncMmap
  BY <1>4, <1>b DEF SyncMmap
<1>5. CASE SyncMark
  <2>1. WeightsLoaded'
    BY <1>5, <1>b DEF SyncMark
  <2>2. \A f \in Files : cache[f] = f + 1
    BY <1>0, <1>5, <1>b, AllLoaded DEF SyncMark, PlaceInv
  <2> QED BY <1>5, <2>1, <2>2 DEF SyncMark
<1>6. ASSUME NEW k \in Weights, Load(k) PROVE Goal
  <2>0. marker' = marker /\ place' = place /\ ready' = ready \cup {k} /\ place[k] # Nowhere
    BY <1>6 DEF Load
  <2>1. CASE useCachedMmap > 1
    <3>1. place[k] = k - 1 /\ marker
      BY <1>0, <1>6, <2>0, <2>1 DEF TrustInv, PlaceInv, TypeOK, BuffersTypeOK, Load
    <3>2. cache[place[k]] = k
      BY <1>b, <3>1
    <3>3. cache' = cache /\ raw' = raw
      BY <1>6, <2>1 DEF Load
    <3> QED BY <1>b, <2>0, <3>1, <3>2, <3>3
  <2>2. CASE ~(useCachedMmap > 1) /\ place[k] = Raw
    <3>1. raw' = [raw EXCEPT ![k] = k] /\ cache' = cache
      BY <1>6, <2>2 DEF Load
    <3> QED BY <1>0, <1>b, <2>0, <2>2, <3>1 DEF TypeOK, BuffersTypeOK
  <2>3. CASE ~(useCachedMmap > 1) /\ place[k] # Raw
    <3>1. cache' = [cache EXCEPT ![place[k]] = k] /\ raw' = raw
      BY <1>6, <2>3 DEF Load
    <3>2. place[k] = k - 1 /\ k - 1 \in Files
      BY <1>0, <2>0, <2>3 DEF PlaceInv, TypeOK, BuffersTypeOK
    <3>3. \A f \in Files : cache'[f] = IF f = k - 1 THEN k ELSE cache[f]
      BY <1>0, <3>1, <3>2 DEF TypeOK, FilesTypeOK
    <3>4. WeightsLoaded'
      BY <1>0, <1>b, <2>0, <3>1, <3>2, <3>3 DEF PlaceInv, TypeOK, BuffersTypeOK
    <3>5. MarkerMeansComplete'
      BY <1>b, <2>0, <3>3
    <3> QED BY <3>4, <3>5
  <2> QED BY <2>1, <2>2, <2>3
<1>7. ASSUME NEW k \in Weights, Recreate(k) PROVE Goal
  BY <1>0, <1>7, <1>b DEF Recreate, TypeOK, BuffersTypeOK
<1>8. CASE Exit \/ Kill
  <2>1. ready' = {} /\ marker' = marker
    BY <1>8 DEF Exit, Kill, Gone
  <2>2. marker => \A f \in Files : cache'[f] = cache[f]
    BY <1>0, <1>8, <1>a DEF Exit, Kill, TrustInv, Sound
  <2> QED BY <1>b, <2>1, <2>2
<1>9. CASE LosePower
  <2>1. ready' = {} /\ cache' = disk /\ marker' = markerDisk /\ ~cut /\ ~Unflushed
    BY <1>9 DEF LosePower, Gone, Sound
  <2>2. \A f \in Files : cache[f] = Absent \/ disk[f] = f + 1
    BY <1>0, <1>a, <2>1 DEF DiskInv, Sound
  <2>3. markerDisk => \A f \in Files : disk[f] = f + 1
    BY <1>0, <1>b, <2>2 DEF SyncInv
  <2> QED BY <2>1, <2>3
<1>10. CASE WriteBack
  BY <1>10, <1>b DEF WriteBack
<1>11. CASE UNCHANGED vars
  BY <1>11, <1>b
<1> QED BY <1>1, <1>2, <1>3, <1>4, <1>5, <1>6, <1>7, <1>8, <1>9, <1>10, <1>11 DEF Next

-----------------------------------------------------------------------------
\* IInv is an invariant of every sequence of runs.
THEOREM Invariance == Spec => []IInv
<1>1. ASSUME IInv, [Next]_vars PROVE IInv'
  <2>1. TypeOK' /\ PlaceInv' /\ TrustInv' /\ SyncInv'
    BY <1>1, NextTypeOK, NextPlaceInv, NextTrustInv, NextSyncInv DEF IInv
  <2>2. WeightsSafe' /\ MarkerSafe'
    BY <1>1, NextWeights DEF WeightsSafe, MarkerSafe
  <2> QED BY <1>1, <2>1, <2>2, NextDiskInv DEF IInv
<1> QED BY InitIInv, <1>1, PTL DEF Spec

\* Files, buffers and counters stay well typed through every run: in particular
\* the marker raises useCachedMmap at most once per runtime.
THEOREM TypeRight == Spec => []TypeOK
<1>1. IInv => TypeOK
  BY DEF IInv
<1> QED BY <1>1, Invariance, PTL

\* However many weights there are, and wherever runs fail, are killed or lose
\* power, no execution in a sound directory works on anything but its weights.
THEOREM WeightsRight == Spec => []WeightsSafe
<1>1. IInv => WeightsSafe
  BY DEF IInv
<1> QED BY <1>1, Invariance, PTL

\* ... and the marker that a later run trusts stands for the whole set.
THEOREM MarkerRight == Spec => []MarkerSafe
<1>1. IInv => MarkerSafe
  BY DEF IInv
<1> QED BY <1>1, Invariance, PTL

\* In any directory, sync() orders the flush of new files before the marker.
THEOREM FlushFirst == Spec => NewFilesDurable
<1>1. ASSUME SyncInv, [Next]_vars
      PROVE  [~marker /\ marker' /\ mNewMmap => \A f \in Mapped : disk[f] = cache[f]]_vars
  <2>1. CASE SyncMark
    BY <1>1, <2>1 DEF SyncInv, SyncMark, Marks
  <2>2. CASE LosePower
    BY <1>1, <2>2 DEF SyncInv, LosePower
  <2>3. CASE ~SyncMark /\ ~LosePower
    <3>1. marker' = marker
      BY <1>1, <2>3 DEF Next, Start, Acquire, AcquireFails, SyncMmap, Load, Recreate,
                        Exit, Kill, WriteBack
    <3> QED BY <3>1
  <2> QED BY <2>1, <2>2, <2>3
<1>2. IInv => SyncInv
  BY DEF IInv
<1> QED BY <1>1, <1>2, Invariance, PTL DEF Spec, NewFilesDurable

=============================================================================
