# TLA+ models of the MNN inference engine

MNN loads a neural network, plans the memory of its tensors, and executes its
operators on a backend; on top of that it runs language models. This project
models the parts whose correctness depends on order, sharing and failure rather
than on arithmetic: the CPU thread pool, the two buffer allocators, the dynamic
memory that several graphs share on one runtime, the cache of packed weights on
disk, and the history of a language model in the KV caches of its attention layers.
TLC checks small instances of each; TLAPS proves, for every value of the constants, all
safety properties of the thread pool and that it implements its abstract specification,
and the safety properties of both buffer allocators, of the shared arenas, of the weight
cache, of the lengths of the KV caches and of the prefix caches on disk. Only liveness and the
packed layouts of the KV caches are left to TLC alone.

Paths below are relative to `src/`. `PROJECT.json` holds the line-by-line map,
the runs, the mutants that show each property can fail, the findings and
the hazards.

## Inventory

| Component | State | Operations | Interacts with | What is hard | What makes it correct |
|---|---|---|---|---|---|
| Thread pool (`source/backend/cpu/ThreadPool.cpp`) | task slots, completion flags, active count, sleep mask, mutex and condition variable | `acquireWorkIndex`, `releaseWorkIndex`, `active`, `deactive`, `enqueue`, worker loop, destructor | every CPU runtime; tasks live on the caller's stack | flags and counts change outside the mutex that guards the sleep | no lost wake-up, no use of a dead task, each item once, every call returns |
| CPU runtime, concurrency (`CPUBackend.cpp`) | `mTaskIndex`, `mThreadOpen` | `onConcurrencyBegin/End`, `_bindCPUCore`, `_resetThreadPool` | thread pool | nesting, no slot left, binding while open | slots exclusive, active count balanced |
| `EagerBufferAllocator` (`source/core/BufferAllocator.cpp`) | tree of nodes with use counts, free lists per group | `alloc`, `free`, `release`, barriers, groups | static memory and weights of every backend | splits and merges, alignment, parallel groups | no overlap, nothing lost, full merge |
| `DeferBufferAllocator` | list of planned nodes, free list, postponed frees | `alloc`, `free`, barriers, `compute`, `apply`, `reset` | `Pipeline` plans a graph with it | nodes grow and fuse after chunks were handed out | chunks alive together are disjoint; the plan computes |
| Shared arenas (`SingleBufferWithAllocator`, `CPUBackend`, `Pipeline`, `Session`) | two growing buffers per runtime, in memory or in mapped files; two plans per graph; `pCurrentStatus` | resize, run, copy, `fixResizeCache`, garbage collection | all graphs of a runtime | one graph moves the memory of another; allocation fails half-way; file names are reused | whoever touches memory finds it bound, and nobody else's |
| Weight cache (`MmapAllocator`, `CPURuntime::onCreate`, `onClearBuffer`) | weight files, `sync.static`, `useCachedMmap`, sealed or not | `onAlloc`, `sync`, destructor, execution constructors | later processes, through the file system | kills, losses of power, stale markers | nobody computes on unwritten weights |
| Session, Pipeline, Interpreter | sessions, tensor maps, cache files, resize flags | create, resize, run, release | everything above | locks, asynchronous tuning | (planned) |
| KV cache manager (`CPUKVCacheManager.cpp`, `CPUAttention.cpp`) | per layer: packed key and value buffers, `mPastLength`, `mMaxLength`, the files they are mapped from | `onAlloc`, `onRealloc`, `onUpdateKV`, `onClear`, growth in memory and on disk | LLM engine, through `KVMeta` only; other processes, through prefix files | offsets of packed layouts while they are reshaped; rewriting a file that others may read | every entry read back whole; never written beyond the buffer |
| LLM engine (`transformers/llm/engine`) | `KVMeta` (`previous`, `remove`, `n_reserve`, `add`), `all_seq_len`, `status`, `mCachedPromptText`, prefix mode and markers | `response`, `generate`, `reset`, `eraseHistory`, `replayKeptHistory`, speculative decoding, `setPrefixCacheFile` | KV caches of all layers, each of which applies a request on its own | requests stay pending and are overwritten; a forward fails between two layers; a process dies between data and marker | engine, positions and all layers agree about the history |
| Executor/Module | lazily evaluated expressions | — | Session layer | — | (planned) |
| GPU/NPU backends, kernels, geometry, converter, tools, bindings, apps | — | — | — | device drivers, numerics | not modelled |

## Modules

| Module | Models | Checked by |
|---|---|---|
| `ThreadPool` | pool, workers, runtimes, destructor | `MC_ThreadPool`, `ThreadPoolProofs`, `ThreadPoolExactProofs` |
| `ParallelFor` | what `enqueue` promises its caller | refined by `ThreadPool`, checked and proved |
| `DeferBufferAllocator` | planning | `MC_DeferBufferAllocator`, `DeferBufferAllocatorProofs` |
| `EagerBufferAllocator` | immediate allocation | `MC_EagerBufferAllocator`, `EagerBufferAllocatorProofs` |
| `SharedArena` | arenas, plans, calls of several graphs | `MC_SharedArena`, `SharedArenaProofs` |
| `WeightCache` | runs of a model in one weight directory | `MC_WeightCache`, `WeightCacheProofs` |
| `KVMeta` | the length of the history, in the engine and in every layer | `MC_KVMeta`, `KVMetaProofs` |
| `KVPrefix` | a prefix computed into files and loaded by later processes | `MC_KVPrefix`, `KVPrefixProofs` |
| `KVLayout` | the entries of one layer in its packed buffers | `MC_KVLayout` |

The modules meet at the code's own interfaces: `SharedArena` takes of a
`DeferBufferAllocator` what `compute` leaves (its total size); the three KV modules look at
one forward each from its own side: `KVMeta` keeps lengths only, `KVPrefix` adds what the
entries are and where they live, `KVLayout` where inside a buffer each number is.

Definitions named `...Short`, `...Never`, `...Always` and the like, commented
"Mutant", are plausible bugs. No specification uses them; each replaces the
definition after it to show that a property notices.

### ThreadPool and ParallelFor

Every access to an atomic is one step, so all interleavings of the C++ program
under sequential consistency (the default of its `std::atomic` operations, which it
uses throughout) are behaviours of the model. A worker is `wpc`, `wslot`, `wworked`
and `wwait`; `WorkerLoop` to `WorkerClearBit` are the locations of the worker
lambda. The two `mCondition.wait` calls (the outer one for `mActiveCount`, the one
mid-run for a flag) are split into lock, predicate and block, since the values
the predicate reads change without the mutex. Spinning is one step that may end
at any time. A blocked worker may also wake up spuriously.

The thread of a runtime is `cpc`: `Open`/`OpenNotify` (`onConcurrencyBegin`),
the `Bind...` actions (`_bindCPUCore`, a task of its own inside an additional
active/deactive pair), `Enqueue` to `Join` (`enqueue`), `End`/`ReleaseWorkIndex`/
`Deactive` (`onConcurrencyEnd`). `ran` is a history variable that counts the
executions of each item. The destructor is `DestroyStop`, `DestroyNotify`,
`DestroyJoin` and starts only when no runtime uses the pool.

`ParallelFor` is the promise: a call starts, its items run once each, the call
returns, and no call disturbs another. `ThreadPool` refines it by mapping the set
of busy callers to the program locations inside `enqueue`.

| Run | Bounds | Shows |
|---|---|---|
| `threadpool_safety` | 2 runtimes, 1 slot, nesting 2; 2 workers, the second beyond the sleep mask; tasks of 1 and 4 items | `TypeOK`, `TaskAlive`, `ExactlyOnce`, `NoLostWakeup`, `SlotExclusive`, `ActiveCountExact` |
| `threadpool_live` | 2 runtimes with a slot each, 1 worker, tasks of 1 and 3 items, no symmetry | `EnqueueReturns`, `DestroyCompletes`, `ImplementsParallelFor` |

The sizes cover a task of one item (no worker), one larger than the pool
(strided), and, by binding, one smaller than the pool. One slot for two runtimes
makes the serial fallback and the reuse of a slot happen; two slots and one worker
make a worker serve two tasks at once. Several workers on several slots, and other
mask widths, are covered by the proofs.

Fairness: each thread that can go on does (weak fairness), as a preemptive
scheduler gives it. Acquiring the mutex is strongly fair, since weak fairness
would let a worker lose the race for the mutex for ever; the critical sections
are short and `std::mutex` implementations are free of such starvation in
practice. Nothing is assumed of spurious wake-ups, of the time a spin lasts, of
callers making further calls, or of the pool being destroyed.

### DeferBufferAllocator

`heap` holds all nodes ever made (`mChunks`), the list from `mHead` to `mTail`,
and the free list in the order of the multiset. `Alloc` is the separate allocation at the
tail (`AllocTail`), or the best fit (`AllocFit`), which is split when it is larger than the
request and grows when it is smaller; `Free` fuses a node with both neighbours;
`FreeLater` puts it off inside a barrier. The loop of `barrierEnd` takes a step for each
chunk that was put off (`FreeNext`), and no other call begins before it is through.
`Compute` checks that a single node is left, and `Offset` gives the offsets of all nodes that
were fused into it. `together` is a history variable: pairs of chunks that were alive at the
same time, those put off counting until the loop frees them.

`defer_plan` runs every plan of up to five allocations of one or three alignment
units, the smaller one unaligned. Five chunks suffice for a node to be split, both parts
to be reused, and a fused node to grow again.

### EagerBufferAllocator

A node is the range of a block. `Hand` is `getFromFreeList` after the best fit has been
found: alignment shift, the use count of the parent, split. `ReturnMemory` is the beginning of
`returnMemory` and `MergeUp` one turn of its loop: it lowers the use count of node `up` and,
when that was the last user, puts the node in the place of its children and goes on with its
parent. `BarrierEnd` begins the loop over the groups' lists (`ending`), `ReturnGroup` returns
one node, `GroupsDone` clears the groups. No other call begins while `up` or `ending` is set:
an allocator has one user at a time, and the properties hold in between as well.
`AllocNew` takes a block from the parent allocator, at least of the minimum size. Groups are
free lists of their own until the end of the barrier. `touched` remembers which group
used which range.

The run `eager` has two kinds of clients, which exclude each other in the code:
dynamic memory (no minimum size, two groups, requests of one, three and eight bytes, up
to three chunks) and mapped weights (a minimum block of eight bytes, no groups, two
alignments of which one exceeds `mAlign`, up to five chunks). Two blocks from the parent
allocator, which are symmetric (no action orders them), make a merged block compete with a fresh one. The state is finite because chunks
and blocks are bounded; with three chunks a middle one can be freed before, between or
after its neighbours, and five chunks use up a block of the minimum size.

### SharedArena

A plan `<<g, a>>` is the `DeferBufferAllocator` of graph `g` for arena `a`, reduced to
its total size and the address it was last applied to. Calls of different graphs
interleave; inside a call each application of a plan is a step, and so is a copy made
by a callback of the graph that runs. `AllocMayFail` lets any `realloc` fail.

`root` is the allocator under the arenas: plain memory, or (`midMemoryPath`) one
`MmapAllocator` for both, with its counter for file names (`mAllocTimes`), the file each
arena is mapped from (`name`) and whether that file still has its name (`linked`).
`onRelease` removes the file and sets the counter back to zero, whoever else is still
mapped. `fixResizeCache` fixes any part of what a graph needs, also nothing of it (no command
may be fixable).

`arena` lets any allocation fail on either root and shows `PlansBoundOrStale` (memory can
only be missing in an arena whose size a failed `realloc` left stale), `BlocksExact`
and `ArenaStays`. Two graphs and two sizes make one graph grow the arena
under the other, both ways; three blocks are one more than the arenas hold, so that a
released block can come back.

Of the files of mapped arenas the passing run says nothing: that a running graph with tensors in
both arenas has them in two files (`RunsInTwoFiles`) does not hold of the code.
`SharedArenaFiles.cfg` maps both arenas, lets no allocation fail, and shows the steps (see the observations).

### WeightCache

Runs of one model follow one another in one directory. `cache` is what processes
see of the files, `disk` what survives a loss of power; the operating system may write
back any file at any time (`WriteBack`). `Start` is the first `onCreate` of a
runtime (evaluates the marker once), `Acquire` is `onAlloc`, `Load` the rest of an
execution's constructor, which writes the weights unless the files are trusted.
`SyncMmap` and `SyncMark` are `onClearBuffer`, `Recreate` a later backend and an
execution created on it after sealing. `Exit`, `Kill` and `LosePower` end a run
between any two steps. The operators of each backend differ; the skip is modelled on
`Convolution1x1Strassen`, with which `CPULayerNorm` and the other executions agree.

One execution has one file. Packing several weights into a file, and therefore a
different layout of two runs, is not modelled.

Three history variables name what may happen to a directory: `switched` (an
uncached run started beside a marker), `cut` (a run left files it had created and not
flushed), `lost` (power failed). `Sound` is the exact claim the code supports: kills and
failures alone do no harm, losses of power alone do no harm, but a loss of power where a
run was cut short does, and so does an uncached run beside a marker. `weight_cache` checks,
for three weights and with all of these events, that `WeightsSafe` and `MarkerSafe` hold in
sound directories and `NewFilesDurable` in all. `weight_cache_interrupted` shows that the
exception for losses of power is real.

### KVMeta

The engine never talks to a cache. It leaves in `KVMeta` what the next forward has to do:
drop the last `remove` entries, put back the reserved ones among them (`kept`, the total of
the ranges of `reserve`), add `add` new ones. `Attention` is one layer applying it
(`onClear` and `onAlloc`, or `onRealloc`, then `onUpdateKV`), `ForwardEnds` is
`KVMeta::sync` and what the caller of the forward does with the result. `ForwardFails`
and `ForwardUnread` are the two ways a forward ends without `sync`: an error of a layer, and
outputs that cannot be read, which some callers notice only after they have moved on. The other
actions are the entry points of `Llm` and the drafts of the `Generation` strategies: lookahead,
MTP and DFlash remove what was rejected (`DraftVerify`), Eagle removes the whole tree and puts
the accepted tokens back (`EagleUpdateDraft`).

The code does not keep the lengths right for every caller and every fault. `config.may` says
what may happen beyond a plain conversation, and `Careful` draws the line: without any one of
its conjuncts TLC finds the lengths wrong, or a state in which the only way on overrides a
pending request, which makes them wrong. (Two parts are of another kind: `refused` means nothing
without linear attention, and unreadable outputs of Eagle are not modelled.)

| Excluded by `Careful` | Why |
|---|---|
| `override`: a request while one that keeps entries is pending | `remove` is overwritten, `n_reserve` stays |
| `cancel`: Eagle stopped between two drafts | the same, at the next prompt (`kv_cancel`) |
| `head`: keeping entries after an erased head, unless they are computed again | `remove = previous` makes the layers clear, while `sync` counts what was to be kept |
| `erase` without `reuse_kv`, or in a quantized cache | the next prompt overrides it; a quantized cache puts nothing back |
| Eagle with a quantized cache, `reuse_kv`, a prompt cache or `resume` | nothing is put back; the last tree of an answer stays in the caches |
| a failing replay without another replay or a fresh start after it | some layers have the new length, some the old |
| failing forwards, or unreadable outputs, unless every answer starts anew | the same |

`kv_meta` takes every careful configuration with all the liberties that keep it careful, and
checks `LengthsAgree` (the assertion at `CPUAttention.cpp:441`), `CapacityRespected`,
`PositionsMatch` and `RemoveWithin`. Two layers suffice for a forward to stop between them;
three tokens at a time and eight in all make a draft be rejected in part, a history of several
prompts be erased in the middle, and a cache grow (`ExpandChunk` = 1) more than once.
It cannot deadlock: between two answers a prompt of token ids is always taken.

Not modelled: outputs of an Eagle forward that cannot be read, forwards split by `mBlockSize`,
and the `KVMeta` of a draft model's own caches.

### KVPrefix

`SetPrefixCacheFile` looks for usable files (`Usable` is `validatePrefixCacheFiles`) and
removes them otherwise. The first prompt after it is the prefix: it is computed into files
(`AllocWrite`), or, when files are there, skipped (`Pass`) and loaded by the first forward of
the next prompt (`AllocRead`). `Mark` is `completePrefixWrite`. The writer goes on with
these files as its live cache: `Realloc`, `GrowBegin` and `GrowEnd` are `onRealloc` and the two
halves of `expandKVCacheInDisk`. Layers find their files by the order in which they allocate
(`layer_index`), counted modulo all layers, including those that share a cache. `Restart`
kills the process between any two steps and starts another.

A forward fails (`ForwardFails`) in any prompt, any later chunk and any token of an answer,
before, between or behind any two layers. The engine then returns before `sync`: the layers that
were done are ahead of `previous` and stay so (`torn`), while the conversation, `hist`, goes back
to what `previous` counts. `AfterFailure` is the status check before the markers, with the case in
which an answer of full length hides (`MAX_TOKENS_FINISHED`) that its last outputs could not be
read.

`hist` is what the conversation should hold. `HistoryIntact` says that every layer holds it,
computed or loaded, whatever failed; `LayersAtPrevious`, the assertion of `CPUAttention`, that a layer
which is extended is neither ahead nor behind; `FilesTrustworthy` that files found usable hold the
prefix. `kv_prefix` checks them without any of the six liberties. Each liberty is something the code
allows and breaks a property, so what these properties say of it is only that they depend on it:

| Liberty | What it breaks |
|---|---|
| `crashInGrowth`: a kill while a file is rewritten | `FilesTrustworthy` (`kv_prefix_killed`), then `HistoryIntact` |
| `extendTorn`: after a forward that failed half-way, the next prompt extends the caches as they are (`reuse_kv` is on) instead of starting them anew after `reset` | `LayersAtPrevious` (`KVPrefixTorn.cfg`), then `HistoryIntact` and `FilesTrustworthy` |
| `failRead`: the forward that loads the prefix fails, after which its session is over and the prefix in no cache | `HistoryIntact`, `LayersAtPrevious` |
| `erasePrefix`: `eraseHistory` into the prefix; the writer cuts and overwrites marked files | `HistoryIntact`, `FilesTrustworthy` |
| `resetUnread`: `reset` before a prefix that is not loaded yet | `HistoryIntact` |
| `setInConversation`: `setPrefixCacheFile` with a conversation in the caches; the first call extends them instead of writing files, the second counts a prefix it does not load | `HistoryIntact` |

So callers have to use the session as `rollback_demo.cpp` does: `setPrefixCacheFile` with empty caches (a new
process, or after `reset`), then the prefix and the prompt with no `reset` between them, and
a `reset` after a failure.

Two layers and one that shares make an index run over; a prefix of two tokens and two more let the
cache grow once in place and once by rewriting, and a prompt of two chunks fail in the second
one. Prompts and answers have one token each, different ones, so that an entry left by the one
is told from an entry of the other.

Not modelled: an embedding that fails (`generate` returns before any layer is touched), growth that fails,
and a request of `eraseHistory` for tokens that were given up already; requests that override a
pending one are in `KVMeta`.

### KVLayout

One layer, cell by cell. `KeyAt` and `ValueAt` are the offsets of the packed layouts; `Alloc`,
`Realloc` and `Load` are the whole forward on them, with the copies between shapes
(`CopyRuns`, `CopyValue`), the moves of reserved entries in place and the appending. Memory
from the allocator is `Garbage`, new pages of a file `Zero`. `Save` leaves a file as another
process finds it; `Load` guesses its capacity from its size, as `onAlloc` does.

`kv_layout` runs all layouts (chunked or not, in memory with one thread or more, in files)
with two heads of five dimensions in tiles of four by two, so that neither divides, chunks
of four and eight tokens, so that a cache has one chunk, a part of a second and two. It stops
when all tokens are used up, hence without the check for deadlocks. Writer and reader of a file
have one `ChunkKv`, an assumption: the code derives it from the number of threads and does not record
it in the file.

## Findings

| Run | What the code does |
|---|---|
| `weight_cache_interrupted` | files left by an interrupted load are marked without `msync`; after a loss of power they are trusted unwritten |
| `kv_cancel` | an Eagle generation stopped between two drafts leaves `n_reserve` set; the next prompt clears the caches, `sync` counts the reserved entries, and the next forward breaks the assertion on the length |
| `kv_prefix_killed` | the files of a prefix are cleared and refilled when the writer's cache grows; a kill in between leaves zeros beside valid markers |

Observations, where the models allow what the code does and the properties say under which
condition they hold:

- `EagerBufferAllocator`: a mapped request that rounds up to exactly the minimum block size splits
  off an empty rest, against `MNN_ASSERT(allocSize > size)` (`BufferAllocator.cpp:265`). A release
  build merges the rest away again. A node is identified with its range in the model, which is exact
  as long as a rest is not empty; `EagerAssumption` states the assertion as a condition on the sizes,
  and the proofs hold under it.
- `SharedArena`: a failed `realloc` keeps `currentSize` (`BufferAllocator.cpp:471`), so a smaller plan
  is later bound to a null base and reported as success (`Stale` in `PlansBoundOrStale`).
- `SharedArena`: a run right after `fixResizeCache` may find commands of group 0 whose plan is
  empty (`Pipeline.cpp:958`).
- `SharedArena`: the two mapped arenas of a runtime can share a file, because `onRelease` sets `mAllocTimes`
  to 0 while the other arena is mapped (`BufferAllocator.cpp:159`). `tlc -config SharedArenaFiles.cfg
  MC_SharedArena.tla` finds `RunsInTwoFiles` violated: graph 1 fixes its resize cache, which releases
  arena 0. Graph 2 fixes its own and, planning in arena 1, has it mapped from file 0; it resizes, and
  arena 0 is mapped from file 1. Graph 1 fixes again: arena 0 is released and the counter is 0, while
  arena 1 is still mapped. When graph 2 runs, arena 0 is mapped from file 0, which is arena 1's, and
  its tensors overwrite each other. Nothing the code promises about these files is left to check.
- `KVPrefix`: a forward that fails half-way returns before `sync` (`llm.cpp:641-653`, `1157-1161`); with
  `reuse_kv`, `generate_init` sets `RUNNING` again and leaves the caches as they are, so the next prompt
  extends layers that are ahead of `previous`, against the assertion at `CPUAttention.cpp:441`. `tlc -config
  KVPrefixTorn.cfg MC_KVPrefix.tla` (liberty `extendTorn`) finds `LayersAtPrevious` violated.
- `WeightCache`: an uncached run removes the weight files and leaves the marker; the next cached run
  trusts empty files (`switched` in `Sound`).
- `KVMeta`: every row of the table of `Careful`; `KVPrefix`: each of its liberties.

## Proofs

`ThreadPoolProofs` proves, for any number of runtimes, workers, slots, mask width and
task sizes, `TypeCorrect`, `SlotsExclusive`, `WakeupsKept` and `TasksAlive`. None of
these invariants is inductive alone. `IInv` adds:

- `MutexInv`: exactly the worker between lock and block holds the mutex;
- `WorkerInv`: a worker that runs or clears has its flag up, and one in the mid-run wait has its sleep bit set;
- `ClientInv`: what location of a runtime's thread implies for its slot, its task and its loop index;
- `FlagInv` (which, with the others, gives `TaskAlive`): a flag that is up belongs to a
  published task with a share for that worker, and the flag loop has already reached it;
- `BlockInv`: when a worker holding the mutex is about to block, its wait is not over,
  or the caller that ended it has not taken the mutex yet.

The key step of `WakeupsKept` is `LoadMaskSeesSleeper`: a caller that has set a flag
reads the sleep mask afterwards, so it either sees the bit, takes the mutex and
notifies, or the worker published its bit later and sees the flag.

`ThreadPoolExactProofs` builds on it and proves `ActiveCounted` (`ActiveCountExact`),
`EnqueueExact` (`ExactlyOnce`) and `EnqueueImplements` (`ImplementsParallelFor`).

- `OpenInv` says that a runtime with a slot has counted it, except on its way in and out, so
  that the count changes exactly when the set of open or binding runtimes does.
- `RanInv` says how often each item has run at any time: item `v` belongs to one thread
  (`Owner`), and it has run once when that thread is done with the task (`DoneBy`: the caller
  when it joins, a worker when its flag was raised and lowered again), and never before. The step that
  needs the invariant of `ThreadPoolProofs` is a worker's: the slot it took its task from still
  holds the task it is running (`TaskAlive`, `WorkerRunRan`). The join waits until all flags are
  down, so all owners are done (`JoinRan`).
- `RanInv` is also what the refinement needs: a worker's step is a step of `ParallelFor` because
  its items have not run yet, a return because all have; every other step changes nothing that
  `ParallelFor` sees.

`SharedArenaProofs` proves, for any number of graphs and blocks, any sizes and either root,
with allocations that may fail, `TypeCorrect` (`TypeOK`), `BlocksRight` (`BlocksExact`),
`BoundOrStale` (`PlansBoundOrStale`) and `ArenaRight`
(`ArenaStays`). `BlocksExact` is inductive with the types. The others need:

- `RunInv`: the plans of the running graph are in place (`InPlace`: the arena is large enough
  and has not moved since they were applied; a failed `realloc` may have left both addresses null,
  which is where `Stale` comes from);
- `BeginInv`, `CopyInv`: in the middle of a call every plan is in place or still listed in it, and
  plans that share an arena, as a copy's with the running graph's, are the same;
- `BackupInv`: a graph plans in arena 1 only after its resize cache is fixed;
- `OpInv`: which calls may be made while a graph runs.

`PlanAppliedKeeps` is the step that can move an arena: it does so only for a plan that does
not fit or was applied to another address, and no such plan is in an arena in use.

`WeightCacheProofs` proves, for any number of weights and any sequence of runs,
`TypeRight` (`TypeOK`), `WeightsRight` (`WeightsSafe`), `MarkerRight` (`MarkerSafe`) and
`FlushFirst` (`NewFilesDurable`). The inductive invariant adds:

- `PlaceInv`: weights `k` are in the `k`-th file or outside the pool, files are handed
  out in order, mapped files exist;
- `TrustInv`: a runtime trusts only with a marker and only until sealed; an uncached run
  in a directory that was not switched goes without a marker;
- `SyncInv`: between flush and marker no mapped file is written, and a marker on the disk
  is one that processes see (all that `FlushFirst` needs);
- `DiskInv`: as long as no run was cut short, a file is absent or complete, and complete on
  the disk too, except while a run that creates files has not flushed them. This is what
  carries the marker over a loss of power.

`KVMetaProofs` proves, for any number of layers, any lengths and any set of configurations
that are all careful, `TypeCorrect` (`TypeOK`: no unsigned length goes below zero), `LengthsRight`
(`LengthsAgree`), `CapacityRight` (`CapacityRespected`), `PositionsRight` (`PositionsMatch`) and
`RemovesRight` (`RemoveWithin`). The hypothesis is a condition on `Configs`, and the run shows
that it can be met in every strategy. The properties speak of a forward in progress; the
invariant has to say what every other location leaves for it:

- `CacheInv`: during an answer all layers hold `previous` entries; during a forward those already
  reached hold the new length and the others the old, unless everything is removed; between two
  answers the layers may disagree, but only if all will be removed first (`Replays`), or the next
  answer starts anew (`Restarts`);
- `KeptInv`: entries to be put back are among the removed ones, and pending only within an
  Eagle answer or after an erasure;
- `RequestInv`: what `remove` may be at each location (never all of the history in the middle of an answer);
- `PositionInv`: `all_seq_len` is the pending length, except in the window between a draft's forward and
  its verification, where it lags by the draft, and where the next answer resets it.

Each action has a lemma of its own (`...Keeps`). The step that needs all parts together is
`AttentionKeeps`: the room made from the engine's numbers is enough for what is written behind
the layer's own length only because the two agree.

`KVPrefixProofs` proves, for any number of layers and of layers that share, any length of the
prefix and of the conversation and any growth, `TypeCorrect` (`TypeOK`: the index never leaves
the layers' files), `FilesRight` (`FilesTrustworthy`), `HistoryRight` (`HistoryIntact`) and
`ExtendsRight` (`LayersAtPrevious`). The hypothesis
is `Liberties = {}`, which is how `kv_prefix` runs; each liberty breaks one of the properties,
so none can be dropped. Kills, except inside a rewriting, and failures, except of the forward that
loads the prefix, are not liberties and are covered. The invariant adds:

- `FlagInv`, `FoundInv`, `FirstInv`: only the first call of a session writes, at a time when nothing
  is marked; only the second reads, and until then its caches are empty;
- `IndexInv`, `HomeInv`: a layer that is reached has the index of its own file, and a cache that
  lives in a file of the prefix lives in its own;
- `WriteInv`: the call that computes the prefix leaves it in the files before the markers;
- `MarkInv`: a marked file holds the prefix of its layer, or is being rewritten from a copy (`grown`) that
  does; the caches that live in marked files keep at least the prefix;
- `RestInv`, `ForwardInv`: the caches hold the conversation at rest; during a forward the layers already
  done hold the new one and the others what was kept of the old, so that a failure anywhere leaves
  what was kept in all of them (`ForwardFailsKeeps`);
- `FailInv`: no forward goes on over torn caches, and an answer starts when all of the prompt is
  cached, so that a failure which the status check misses leaves the prefix in the files.

The argument for files under their markers: the writer's cache stays in the file, but it is
written only behind what is kept, which is never less than the prefix (`MarkedKeeps`); growth puts the
same entries back (`GrowBeginKeeps`, `GrowEndKeeps`); and a layer takes a file for writing only in a
session that found nothing to trust (`AllocWriteKeeps`).

`EagerBufferAllocatorProofs` proves, for any alignment, any clients (sizes, aligns and minimum size)
and any number of chunks, blocks and groups, `Typed` (`TypeOK`), `ChunksApart` (`NoOverlap`),
`NothingLost` (`Partition`), `TotalCounted` (`TotalExact`), `GroupsApart` (`GroupsPrivate`) and
`AllComesBack` (`AllMerged`). `Invariance` is the inductive invariant they all follow from:

- `HeapInv`: the nodes are a forest (`Forest`) with one tree for each block. A node that was split
  is the sum of its two halves; two nodes are apart or one lies in the other (`Nested`); the leaves
  are exactly what is in use or in a list, and those of a block add up to it;
- `PlaceInv`: a leaf is in one place only, a chunk or one of the lists;
- `CountInv`: the use count of a split node is the number of its halves that are not in `mFreeList`
  (in use, in the list of a group, or split themselves), and one more while the loop of
  `returnMemory` has still to take it off. A node whose count drops to zero is merged in the same
  step, so every split node has a user;
- `ChunkInv`, `BarrierInv`: chunks lie inside their nodes, also when they are shifted; groups, and
  what they have touched, exist inside barriers only;
- `OwnInv`: what a group has touched lies in a leaf that is still its own (in its list, or the node
  of a chunk it handed out), so no other group can be given it.

`SizeSum` is a fold over a set, and the steps need that a split or a merge keeps it: `SumTake`,
`SumMinus` and `SumSplit` follow from the definition of the fold by a least counterexample.
`AllMergedHolds` is an argument of that kind, too: of the nodes that were split, take a smallest
one; its halves are leaves and free, so its use count is zero, which no node's is.

`DeferBufferAllocatorProofs` proves, for any alignment, any sizes and any number of allocations,
`Typed` (`TypeOK`), `Computes` (`PlanComputes`), `ListCoalesced` (`Coalesced`), `PlanDisjoint`
(`NoOverlap`) and `PlanInside` (`InsideArena`). Nothing in the state says where a chunk will lie:
nodes grow, split and fuse after chunks were placed, and the offsets are only computed at the end.
The invariant (`Invariance`) says that there is a `Layout` at any time:

- `o`, `p` and `d` give, for every node that ever was, the place in the list of the node it is part
  of, the position it would have were `compute` called now, and its depth below the node of the
  list. The nodes of the list follow each other without gaps, a fused node lies at its offset in the
  node it was fused into;
- `Placed`: chunks that were live together are apart in `p`, and in the order of the list;
- `Held`: the live chunks have the nodes of the list that are not free, each to itself;
- `FreeInv`, `Fused`: the free list is in order and has each node once; no two neighbours are free.

A step changes the layout, but only so that order is kept and distances grow (`Spreads`): growing
moves what is behind the node (`LayoutExpand`), splitting and fusing move nothing (`LayoutSplit`,
`LayoutFuse`). Hence what was apart stays apart (`PlacedKept`), whatever is done later. A new chunk
is apart from the live ones because those have other nodes of the list (`AllocPlanned`). When
nothing is live, all nodes of the list are free and no two neighbours are, so there is one node
(`OneNode`). `Offset`, which sums relative offsets upwards, is then `p` (`OffsetsAre`: a node of
least depth where it is not would have a parent where it is not either).

The proofs assume `ThreadsAssumption`, `RuntimesAssumption`, `ArenaAssumption`, `CacheAssumption`,
`MetaAssumption`, `PrefixAssumption`, `EagerAssumption` and `DeferAssumption`, which TLC evaluates
in the runs. Where an argument goes by induction over data, it is made from a least counterexample
(`LeastNat`, `LeastSubset`, from the library's well-foundedness theorems), since the library's
induction theorems take an operator as a parameter, which no installed prover can instantiate.

Only model-checked:

- liveness (`EnqueueReturns`, `DestroyCompletes`), outside this prover's reach;
- `KVLayout` (`TypeOK`, `ReadBack`, `PaddingClean`): the copies are folds over buffers, and the
  offsets are products, quotients and remainders of variables, which the SMT backend does not decide.

## Not modelled

Most of the repository's lines are not engine logic: generated shader tables and protocol
buffers, vendored headers, model and application assets, and several hundred numeric kernels for
each backend. They have no state that outlives a call, and the repository tests them by
comparing numbers. The models cover the small part that allocates, shares, schedules and persists;
their share of all lines is small and will stay so.

- The registry of pools (`ThreadPool::init`, `gInstances`) and `_resetThreadPool`.
- Weaker memory orders than sequential consistency.
- Several threads on one runtime, for which `docs/inference/module.md` asks callers to lock.
- Layout of several weights in one file, several models in one weight directory (a documented
  limitation).
- The contents of quantized KV caches (their lengths are modelled), the KV managers of other
  backends, the caches of draft models, tokenizing, sampling and templates.
- Sessions and interpreters beyond what drives memory plans: creation, cache files, tuning
  threads, locks of the tensor maps.
- Kernels, geometry, shape inference, converters: deterministic numerics or rewriting.
- GPU and NPU backends, whose state is in drivers.
- `WorkerThread`, which nothing instantiates.

## Plan

1. Layout of the weight pool: replay of allocations in loading and trusting runs,
   on `EagerBufferAllocator` with a minimum size.
2. Session and Interpreter: creation, cache files, resize flags, asynchronous tuning, locks.
3. The registry of thread pools and `_resetThreadPool`.
4. The contents of quantized KV caches, and the `KVMeta` of draft models.
5. Executor and Module.
6. Proofs: the layouts of `KVLayout`, beginning with lemmas that `keyIndex` and `valueIndex` are
   one-to-one, which the copies between two shapes need.
