----------------------------- MODULE WeightCache -----------------------------
(***************************************************************************)
(* The weight files a CPURuntime keeps when a weight directory is set       *)
(* (MmapAllocator in BufferAllocator.cpp, CPURuntime::onCreate and          *)
(* CPUBackend::onClearBuffer).  Weights are packed into mapped files; once  *)
(* all of them are there, onClearBuffer leaves a marker (sync.static) and   *)
(* the pool is sealed.  A later run that finds the marker trusts the files  *)
(* and skips loading.                                                       *)
(*                                                                         *)
(* The runs follow one another in one directory, of one model.  A run may   *)
(* be killed between any two steps; then what it wrote survives in the page *)
(* cache.  After a loss of power only what was written back survives.       *)
(* One block of the pool, one file and the weights of one execution are one *)
(* and the same here: weights k go to the k-th file mapped.                 *)
(***************************************************************************)
EXTENDS Integers

CONSTANTS
    N,              \* executions with weights
    MayUncache,     \* whether some runs have useCachedMmap off
    MayLosePower

ASSUME CacheAssumption ==
    /\ N \in Nat \ {0}
    /\ MayUncache \in BOOLEAN /\ MayLosePower \in BOOLEAN

Weights == 1 .. N
Files   == 0 .. N - 1
Absent  == -1   \* content of a file that is not there
Zero    == 0    \* content of a file that was only sized, of memory never written
Raw     == -1   \* place of a buffer outside the pool
Nowhere == -2

VARIABLES
    cache,          \* the files as any process sees them
    disk,           \* the files as they are after a loss of power
    marker,         \* sync.static, as any process sees it
    markerDisk,
    pc,             \* the runtime: "down", "load", "mark" (inside sync), "sealed"
    mRemove,
    mSyncValid,
    useCachedMmap,
    mNewMmap,
    mAllocTimes,
    place,          \* where the weights of each execution are: a file, Raw, Nowhere
    raw,            \* contents of the buffers outside the pool
    ready,          \* executions that have been created
    switched,       \* history: an uncached run has started beside a marker
    cut,            \* history: a run has left new files it had not flushed
    lost            \* history: the power has failed

fileVars    == <<cache, disk, marker, markerDisk>>
runtimeVars == <<mRemove, mSyncValid, mNewMmap, mAllocTimes>>
historyVars == <<switched, cut, lost>>
vars == <<fileVars, pc, runtimeVars, useCachedMmap, place, raw, ready, historyVars>>

Init ==
    /\ cache = [f \in Files |-> Absent] /\ disk = [f \in Files |-> Absent]
    /\ marker = FALSE /\ markerDisk = FALSE
    /\ pc = "down"
    /\ mRemove = FALSE /\ mSyncValid = FALSE /\ mNewMmap = FALSE
    /\ useCachedMmap = 0 /\ mAllocTimes = 0
    /\ place = [k \in Weights |-> Nowhere]
    /\ raw = [k \in Weights |-> Zero]
    /\ ready = {}
    /\ switched = FALSE /\ cut = FALSE /\ lost = FALSE

-----------------------------------------------------------------------------
(* CPURuntime::onCreate.                                                    *)

\* Mutant: every onCreate evaluates the marker.
TrustAfterAlways(hint, first) == IF hint > 0 /\ marker THEN hint + 1 ELSE hint

\* useCachedMmap += syncValid, only when the allocator is created.
TrustAfter(hint, first) == IF first /\ hint > 0 /\ marker THEN hint + 1 ELSE hint

\* The first onCreate of a run.
Start(cached) ==
    /\ pc = "down"
    /\ cached \/ MayUncache
    /\ pc' = "load"
    /\ mRemove' = ~cached
    /\ mSyncValid' = (cached /\ marker)
    /\ useCachedMmap' = TrustAfter(IF cached THEN 1 ELSE 0, TRUE)
    /\ mNewMmap' = FALSE
    /\ mAllocTimes' = 0
    /\ switched' = (switched \/ (~cached /\ marker))
    /\ UNCHANGED <<fileVars, place, raw, ready, cut, lost>>

-----------------------------------------------------------------------------
(* MmapAllocator and the creation of executions.                            *)

\* onAlloc: open the next file, or create and size it.
Acquire ==
    LET f == mAllocTimes IN
    /\ pc = "load"
    /\ f < N
    /\ \A k \in Weights : place[k] # Nowhere => k \in ready
    /\ cache' = [cache EXCEPT ![f] = IF @ = Absent THEN Zero ELSE @]
    /\ mNewMmap' = (mNewMmap \/ cache[f] = Absent)
    /\ mAllocTimes' = f + 1
    /\ place' = [place EXCEPT ![f + 1] = f]
    /\ UNCHANGED <<disk, marker, markerDisk, pc, mRemove, mSyncValid, useCachedMmap, raw, ready,
                   historyVars>>

\* onAlloc fails to size the new file, which stays behind; the execution is
\* not created and may be tried again.
AcquireFails ==
    LET f == mAllocTimes IN
    /\ pc = "load"
    /\ f < N
    /\ \A k \in Weights : place[k] # Nowhere => k \in ready
    /\ cache[f] = Absent
    /\ cache' = [cache EXCEPT ![f] = Zero]
    /\ cut' = TRUE
    /\ UNCHANGED <<disk, marker, markerDisk, pc, runtimeVars, useCachedMmap, place, raw, ready,
                   switched, lost>>

\* The rest of the constructor: the weights are written unless the files are
\* trusted.
Load(k) ==
    /\ pc \in {"load", "sealed"}
    /\ place[k] # Nowhere /\ k \notin ready
    /\ ready' = ready \cup {k}
    /\ IF useCachedMmap > 1 THEN UNCHANGED <<cache, raw>>
       ELSE IF place[k] = Raw THEN raw' = [raw EXCEPT ![k] = k] /\ UNCHANGED cache
       ELSE cache' = [cache EXCEPT ![place[k]] = k] /\ UNCHANGED raw
    /\ UNCHANGED <<disk, marker, markerDisk, pc, runtimeVars, useCachedMmap, place, historyVars>>

Mapped == {f \in Files : f < mAllocTimes}

\* Mutant: msync is left out.
SyncedNever == {}

\* The mappings that sync() flushes: all, if any file is new.
Synced == IF ~mRemove /\ mNewMmap THEN Mapped ELSE {}

\* Mutant: the pool is sealed after the first execution.
LoadedSome == ready # {}

\* _createExecutions has created all of them.
Loaded == ready = Weights

\* onClearBuffer: sync() flushes the mappings ...
SyncMmap ==
    /\ pc = "load"
    /\ Loaded
    /\ pc' = "mark"
    /\ disk' = [f \in Files |-> IF f \in Synced THEN cache[f] ELSE disk[f]]
    /\ UNCHANGED <<cache, marker, markerDisk, runtimeVars, useCachedMmap, place, raw, ready,
                   historyVars>>

\* Whether sync() creates the marker.
Marks == ~mRemove /\ (mNewMmap \/ ~mSyncValid)

\* Mutant: the sealed runtime goes on trusting.
SealedHintKept(hint) == hint

SealedHint(hint) == IF hint > 1 THEN 1 ELSE hint

\* ... then creates the marker; the pool is sealed.
SyncMark ==
    /\ pc = "mark"
    /\ pc' = "sealed"
    /\ marker' = (marker \/ Marks)
    /\ useCachedMmap' = SealedHint(useCachedMmap)
    /\ UNCHANGED <<cache, disk, markerDisk, runtimeVars, place, raw, ready, historyVars>>

\* A later backend of the runtime and an execution created anew on it: its
\* buffer comes from the raw allocator.
Recreate(k) ==
    /\ pc = "sealed"
    /\ k \in ready
    /\ useCachedMmap' = TrustAfter(useCachedMmap, FALSE)
    /\ place' = [place EXCEPT ![k] = Raw]
    /\ raw' = [raw EXCEPT ![k] = Zero]
    /\ ready' = ready \ {k}
    /\ UNCHANGED <<fileVars, pc, runtimeVars, historyVars>>

-----------------------------------------------------------------------------
(* The end of a run.                                                        *)

\* The run has created files and not flushed them (an uncached run never does).
Unflushed == mNewMmap /\ (pc = "load" \/ mRemove)

Gone ==
    /\ pc' = "down"
    /\ mRemove' = FALSE /\ mSyncValid' = FALSE /\ mNewMmap' = FALSE
    /\ useCachedMmap' = 0 /\ mAllocTimes' = 0
    /\ place' = [k \in Weights |-> Nowhere]
    /\ raw' = [k \in Weights |-> Zero]
    /\ ready' = {}
    /\ cut' = (cut \/ Unflushed)
    /\ UNCHANGED switched

\* ~MmapAllocator: unmap, and remove the files if mRemove.
Exit ==
    /\ pc # "down"
    /\ Gone
    /\ cache' = [f \in Files |-> IF mRemove /\ f \in Mapped THEN Absent ELSE cache[f]]
    /\ UNCHANGED <<disk, marker, markerDisk, lost>>

\* The process is killed.
Kill ==
    /\ pc # "down"
    /\ Gone
    /\ UNCHANGED <<fileVars, lost>>

\* The operating system writes a file, or the directory, back when it likes.
WriteBack ==
    /\ MayLosePower
    /\ \/ \E f \in Files : disk' = [disk EXCEPT ![f] = cache[f]] /\ UNCHANGED markerDisk
       \/ markerDisk' = marker /\ UNCHANGED disk
    /\ UNCHANGED <<cache, marker, pc, runtimeVars, useCachedMmap, place, raw, ready, historyVars>>

LosePower ==
    /\ MayLosePower
    /\ Gone
    /\ cache' = disk
    /\ marker' = markerDisk
    /\ lost' = TRUE
    /\ UNCHANGED <<disk, markerDisk>>

Next ==
    \/ \E cached \in BOOLEAN : Start(cached)
    \/ Acquire \/ AcquireFails \/ SyncMmap \/ SyncMark
    \/ \E k \in Weights : Load(k) \/ Recreate(k)
    \/ Exit \/ Kill \/ WriteBack \/ LosePower

Spec == Init /\ [][Next]_vars

-----------------------------------------------------------------------------
(* Properties.                                                              *)

FilesTypeOK ==
    /\ cache \in [Files -> {Absent, Zero} \cup Weights]
    /\ disk \in [Files -> {Absent, Zero} \cup Weights]
    /\ marker \in BOOLEAN /\ markerDisk \in BOOLEAN

BuffersTypeOK ==
    /\ place \in [Weights -> Files \cup {Raw, Nowhere}]
    /\ raw \in [Weights -> {Zero} \cup Weights]
    /\ ready \subseteq Weights

FlagsTypeOK ==
    /\ pc \in {"down", "load", "mark", "sealed"}
    /\ mRemove \in BOOLEAN /\ mSyncValid \in BOOLEAN /\ mNewMmap \in BOOLEAN
    /\ switched \in BOOLEAN /\ cut \in BOOLEAN /\ lost \in BOOLEAN

CountsTypeOK ==
    /\ useCachedMmap \in 0 .. 2
    /\ mAllocTimes \in 0 .. N

\* The hint is 0, 1 or 2 and mAllocTimes counts the mapped files.
TypeOK == FilesTypeOK /\ BuffersTypeOK /\ FlagsTypeOK /\ CountsTypeOK

\* An execution that has been created works on its own weights, whether it
\* wrote them or trusted the files, in the pool or out of it.
WeightsLoaded ==
    \A k \in ready : k = (IF place[k] = Raw THEN raw[k] ELSE cache[place[k]])

\* The contract of the marker: some run has written the whole set of weights.
MarkerMeansComplete == marker => \A f \in Files : cache[f] = f + 1

\* What the cache withstands: kills and failures alone, losses of power alone,
\* but neither uncached runs beside a marker, nor a loss of power in a
\* directory where some run was cut short.
Sound == ~switched /\ ~(cut /\ lost)

\* In a sound directory no execution works on foreign or unwritten contents,
\* wherever earlier runs were killed or lost power.
WeightsSafe == Sound => WeightsLoaded

\* In a sound directory the marker that onCreate trusts keeps its contract.
MarkerSafe == Sound => MarkerMeansComplete

\* The marker of a run that created files appears only after every mapping has
\* reached the disk, so that no loss of power keeps the marker and loses them.
NewFilesDurable ==
    [][~marker /\ marker' /\ mNewMmap => \A f \in Mapped : disk[f] = cache[f]]_vars

=============================================================================
