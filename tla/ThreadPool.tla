----------------------------- MODULE ThreadPool -----------------------------
(***************************************************************************)
(* The CPU thread pool (source/backend/cpu/ThreadPool.cpp) together with    *)
(* the CPU runtimes that use it (CPURuntime::onConcurrencyBegin and         *)
(* onConcurrencyEnd in CPUBackend.cpp).                                     *)
(*                                                                         *)
(* A runtime is driven by one thread.  It opens the pool (takes one of the  *)
(* MaxTasks task slots and raises mActiveCount), dispatches tasks with      *)
(* enqueue, and closes the pool again.  Worker w polls its completion flag  *)
(* in every slot; when it idles too long it publishes its bit in mSleepMask *)
(* and blocks on the condition variable.                                    *)
(*                                                                         *)
(* Every access to an atomic, and every critical section that nobody can    *)
(* observe half-way, is one step.  The critical sections of the two         *)
(* mCondition.wait calls are split into lock, predicate, block, because     *)
(* flags and mActiveCount change without the mutex.                         *)
(***************************************************************************)
EXTENDS Integers, FiniteSets

CONSTANTS
    Runtimes,       \* the CPURuntime objects that share this pool
    NumberThread,   \* mNumberThread
    BindThreads,    \* mThreadNumber of the runtimes: the size of _bindCPUCore's task
    MaxTasks,       \* MNN_THREAD_POOL_MAX_TASKS
    SleepWidth,     \* kSleepMaskWidth
    WorkSizes,      \* the values of task.second the callers use
    MaxDepth,       \* bound: nested onConcurrencyBegin calls of a runtime
    None            \* no task, no mutex holder

ASSUME ThreadsAssumption ==
    /\ NumberThread \in Nat \ {0}
    /\ BindThreads \in 1 .. NumberThread
    /\ MaxTasks \in Nat \ {0}
    /\ SleepWidth \in Nat \ {0}
    /\ MaxDepth \in Nat
    /\ WorkSizes \subseteq Nat

ASSUME RuntimesAssumption ==
    /\ IsFiniteSet(Runtimes)
    /\ None \notin Runtimes
    /\ None \notin Nat

Workers == 1 .. NumberThread - 1
Slots == 0 .. MaxTasks - 1

VARIABLES
    mTaskAvailable, \* the set of free slots
    mTasks,         \* mTasks[s].first: the runtime whose task the slot points to
    mFlags,         \* the set of <<s, w>> whose completion flag is true
    mActiveCount,
    mSleepMask,     \* the set of workers whose bit is set
    mStop,
    mQueueMutex,    \* the worker inside the critical section of a wait, or None
    wpc,            \* where worker w is
    wslot,          \* its scan index i (0 outside the scan)
    wworked,        \* the set of workers whose local `worked` is true
    wwait,          \* which wait it is in: "sleep" in the one mid-run, else "outer"
    cpc,            \* where the thread of runtime r is
    mTaskIndex,     \* the slot a runtime holds, or -1
    mThreadOpen,
    depth,          \* onConcurrencyBegin calls not yet matched by an End
    binding,        \* runtimes whose current enqueue is the one of _bindCPUCore
    size,           \* task.second of the current enqueue (0 outside a call)
    next,           \* loop index of the flag loop (0 outside it)
    ran,            \* history: how often each item of the current task ran
    dpc             \* where ~ThreadPool is

poolVars   == <<mTaskAvailable, mTasks, mFlags, mActiveCount, mSleepMask, mStop, mQueueMutex>>
workerVars == <<wpc, wslot, wworked, wwait>>
clientVars == <<cpc, mTaskIndex, mThreadOpen, depth, binding, size, next, ran>>
vars       == <<poolVars, workerVars, clientVars, dpc>>

-----------------------------------------------------------------------------
(* Pure parts of enqueueInternal.                                           *)

Items == UNION {0 .. n - 1 : n \in WorkSizes \cup {BindThreads}}

\* Mutant: a task of more items than threads is not capped.
ThreadsUsedUncapped(n) == n

\* Mutant: the wrapper's thread count is one short.
ThreadsUsedShort(n) == IF n > NumberThread THEN NumberThread - 1 ELSE n

\* The number of threads a task of n items occupies.
ThreadsUsed(n) == IF n > NumberThread THEN NumberThread ELSE n

\* Mutant: the stride loop stops one item early.
ShareShort(n, t) ==
    IF n > NumberThread
      THEN {v \in Items : v < n - 1 /\ v % NumberThread = t}
      ELSE {t}

\* The items thread t executes of a task of n items: the tmpTask wrapper deals
\* them out with stride mNumberThread, otherwise thread t runs item t.
Share(n, t) ==
    IF n > NumberThread
      THEN {v \in Items : v < n /\ v % NumberThread = t}
      ELSE {t}

\* Mutant: the mask misses the last flagged worker.
FlaggedMaskShort(n) == IF n >= SleepWidth THEN 1 .. SleepWidth - 2 ELSE 1 .. n - 2

\* flaggedMask, as a set of workers.
FlaggedMask(n) == IF n >= SleepWidth THEN 1 .. SleepWidth - 1 ELSE 1 .. n - 1

RunItems(r, S) ==
    ran' = [ran EXCEPT ![r] = [v \in Items |-> @[v] + (IF v \in S THEN 1 ELSE 0)]]

Flagged(w) == \E s \in Slots : <<s, w>> \in mFlags

\* notify_all: every blocked worker goes on to take the mutex again.
NotifyAll ==
    wpc' = [w \in Workers |-> IF wpc[w] = "blocked" THEN "lock" ELSE wpc[w]]

-----------------------------------------------------------------------------
Init ==
    /\ mTaskAvailable = Slots
    /\ mTasks = [s \in Slots |-> None]
    /\ mFlags = {}
    /\ mActiveCount = 0
    /\ mSleepMask = {}
    /\ mStop = FALSE
    /\ mQueueMutex = None
    /\ wpc = [w \in Workers |-> "loop"]
    /\ wslot = [w \in Workers |-> 0]
    /\ wworked = {}
    /\ wwait = [w \in Workers |-> "outer"]
    /\ cpc = [r \in Runtimes |-> "user"]
    /\ mTaskIndex = [r \in Runtimes |-> -1]
    /\ mThreadOpen = [r \in Runtimes |-> 0]
    /\ depth = [r \in Runtimes |-> 0]
    /\ binding = {}
    /\ size = [r \in Runtimes |-> 0]
    /\ next = [r \in Runtimes |-> 0]
    /\ ran = [r \in Runtimes |-> [v \in Items |-> 0]]
    /\ dpc = "alive"

-----------------------------------------------------------------------------
(* The worker thread (the lambda of the constructor).                       *)

WGoto(w, l) == wpc' = [wpc EXCEPT ![w] = l]

\* while (!mStop)
WorkerLoop(w) ==
    /\ wpc[w] = "loop"
    /\ WGoto(w, IF mStop THEN "done" ELSE "poll")
    /\ UNCHANGED <<poolVars, wslot, wworked, wwait, clientVars, dpc>>

\* while (mActiveCount > 0); when it fails, on to the outer wait.
WorkerPoll(w) ==
    /\ wpc[w] = "poll"
    /\ WGoto(w, IF mActiveCount > 0 THEN "scan" ELSE "lock")
    /\ UNCHANGED <<poolVars, wslot, wworked, wwait, clientVars, dpc>>

\* Read the flag of the next slot.
WorkerScan(w) ==
    /\ wpc[w] = "scan"
    /\ wslot[w] < MaxTasks
    /\ IF <<wslot[w], w>> \in mFlags
         THEN /\ WGoto(w, "run")
              /\ UNCHANGED wslot
         ELSE /\ wslot' = [wslot EXCEPT ![w] = @ + 1]
              /\ UNCHANGED wpc
    /\ UNCHANGED <<poolVars, wworked, wwait, clientVars, dpc>>

\* mTasks[i].first->first(threadIndex)
WorkerRun(w) ==
    LET r == mTasks[wslot[w]] IN
    /\ wpc[w] = "run"
    /\ WGoto(w, "clear")
    /\ RunItems(r, Share(size[r], w))
    /\ UNCHANGED <<poolVars, wslot, wworked, wwait, dpc, cpc, mTaskIndex,
                   mThreadOpen, depth, binding, size, next>>

\* *mTasks[i].second[threadIndex] = false
WorkerClear(w) ==
    /\ wpc[w] = "clear"
    /\ mFlags' = mFlags \ {<<wslot[w], w>>}
    /\ wslot' = [wslot EXCEPT ![w] = @ + 1]
    /\ wworked' = wworked \cup {w}
    /\ WGoto(w, "scan")
    /\ UNCHANGED <<mTaskAvailable, mTasks, mActiveCount, mSleepMask, mStop,
                   mQueueMutex, wwait, clientVars, dpc>>

\* Both slots read: poll again after work, and also while the spin budget or
\* the idle time-out still lasts.
WorkerSpin(w) ==
    /\ wpc[w] = "scan"
    /\ wslot[w] = MaxTasks
    /\ WGoto(w, "poll")
    /\ wslot' = [wslot EXCEPT ![w] = 0]
    /\ wworked' = wworked \ {w}
    /\ UNCHANGED <<poolVars, wwait, clientVars, dpc>>

\* Idle for kWorkerIdleTimeout: mSleepMask.fetch_or(mySleepBit), on to wait.
WorkerSleep(w) ==
    /\ wpc[w] = "scan"
    /\ wslot[w] = MaxTasks
    /\ w \notin wworked
    /\ w < SleepWidth
    /\ mSleepMask' = mSleepMask \cup {w}
    /\ wwait' = [wwait EXCEPT ![w] = "sleep"]
    /\ wslot' = [wslot EXCEPT ![w] = 0]
    /\ WGoto(w, "lock")
    /\ UNCHANGED <<mTaskAvailable, mTasks, mFlags, mActiveCount, mStop,
                   mQueueMutex, wworked, clientVars, dpc>>

\* Take mQueueMutex, on entry of a wait and again after each wake-up.
WorkerLock(w) ==
    /\ wpc[w] = "lock"
    /\ mQueueMutex = None
    /\ mQueueMutex' = w
    /\ WGoto(w, "check")
    /\ UNCHANGED <<mTaskAvailable, mTasks, mFlags, mActiveCount, mSleepMask,
                   mStop, wslot, wworked, wwait, clientVars, dpc>>

\* Mutant: the outer wait forgets mStop.
WaitOverNoStop(w) ==
    IF wwait[w] = "sleep"
      THEN mStop \/ mActiveCount <= 0 \/ Flagged(w)
      ELSE mActiveCount > 0

\* The predicates of the two waits.
WaitOver(w) ==
    IF wwait[w] = "sleep"
      THEN mStop \/ mActiveCount <= 0 \/ Flagged(w)
      ELSE mStop \/ mActiveCount > 0

WorkerCheck(w) ==
    /\ wpc[w] = "check"
    /\ IF WaitOver(w)
         THEN /\ mQueueMutex' = None
              /\ WGoto(w, IF wwait[w] = "sleep" THEN "clearBit" ELSE "loop")
         ELSE /\ WGoto(w, "block")
              /\ UNCHANGED mQueueMutex
    /\ UNCHANGED <<mTaskAvailable, mTasks, mFlags, mActiveCount, mSleepMask,
                   mStop, wslot, wworked, wwait, clientVars, dpc>>

\* Release the mutex and block, atomically (std::condition_variable).
WorkerBlock(w) ==
    /\ wpc[w] = "block"
    /\ mQueueMutex' = None
    /\ WGoto(w, "blocked")
    /\ UNCHANGED <<mTaskAvailable, mTasks, mFlags, mActiveCount, mSleepMask,
                   mStop, wslot, wworked, wwait, clientVars, dpc>>

\* A condition variable may wake a waiter with no notify.
SpuriousWakeup(w) ==
    /\ wpc[w] = "blocked"
    /\ WGoto(w, "lock")
    /\ UNCHANGED <<poolVars, wslot, wworked, wwait, clientVars, dpc>>

\* mSleepMask.fetch_and(~mySleepBit); continue
WorkerClearBit(w) ==
    /\ wpc[w] = "clearBit"
    /\ mSleepMask' = mSleepMask \ {w}
    /\ wwait' = [wwait EXCEPT ![w] = "outer"]
    /\ WGoto(w, "poll")
    /\ UNCHANGED <<mTaskAvailable, mTasks, mFlags, mActiveCount, mStop,
                   mQueueMutex, wslot, wworked, clientVars, dpc>>

WorkerStep(w) ==
    \/ WorkerLoop(w)  \/ WorkerPoll(w)  \/ WorkerScan(w)  \/ WorkerRun(w)
    \/ WorkerClear(w) \/ WorkerSpin(w)  \/ WorkerSleep(w) \/ WorkerLock(w)
    \/ WorkerCheck(w) \/ WorkerBlock(w) \/ WorkerClearBit(w)

-----------------------------------------------------------------------------
(* CPURuntime::onConcurrencyBegin and _bindCPUCore.                         *)

CGoto(r, l) == cpc' = [cpc EXCEPT ![r] = l]

\* Entry of onConcurrencyBegin with acquireWorkIndex, when no slot is held.
AcquireWorkIndex(r) ==
    /\ cpc[r] = "user" /\ dpc = "alive"
    /\ depth[r] < MaxDepth
    /\ mTaskIndex[r] < 0
    /\ mQueueMutex = None
    /\ IF mTaskAvailable = {}
         THEN UNCHANGED <<mTaskAvailable, mTaskIndex>>
         ELSE \E s \in mTaskAvailable :
                /\ \A t \in mTaskAvailable : s <= t
                /\ mTaskAvailable' = mTaskAvailable \ {s}
                /\ mTaskIndex' = [mTaskIndex EXCEPT ![r] = s]
    /\ depth' = [depth EXCEPT ![r] = @ + 1]
    /\ CGoto(r, "open")
    /\ UNCHANGED <<mTasks, mFlags, mActiveCount, mSleepMask, mStop, mQueueMutex,
                   workerVars, mThreadOpen, binding, size, next, ran, dpc>>

\* Entry of a nested onConcurrencyBegin, the slot already held.
BeginAgain(r) ==
    /\ cpc[r] = "user" /\ dpc = "alive"
    /\ depth[r] < MaxDepth
    /\ mTaskIndex[r] >= 0
    /\ depth' = [depth EXCEPT ![r] = @ + 1]
    /\ CGoto(r, "open")
    /\ UNCHANGED <<poolVars, workerVars, mTaskIndex, mThreadOpen, binding, size,
                   next, ran, dpc>>

\* active(): raise the count under the mutex; notify after the unlock.
Active(r, l) ==
    /\ mQueueMutex = None
    /\ mActiveCount' = mActiveCount + 1
    /\ CGoto(r, l)

\* Mutant: every nested Begin activates the pool.
FirstOpenAlways(r) == mTaskIndex[r] >= 0

\* mThreadOpen 0 -> 1
FirstOpen(r) == mTaskIndex[r] >= 0 /\ mThreadOpen[r] = 0

\* The slot's first user activates the pool; every user counts mThreadOpen.
Open(r) ==
    /\ cpc[r] = "open"
    /\ IF FirstOpen(r)
         THEN Active(r, "openNotify") /\ UNCHANGED mThreadOpen
         ELSE /\ mThreadOpen' = [mThreadOpen EXCEPT
                                   ![r] = IF mTaskIndex[r] >= 0 THEN @ + 1 ELSE @]
              /\ CGoto(r, "bind")
              /\ UNCHANGED mActiveCount
    /\ UNCHANGED <<mTaskAvailable, mTasks, mFlags, mSleepMask, mStop, mQueueMutex,
                   workerVars, mTaskIndex, depth, binding, size, next, ran, dpc>>

OpenNotify(r) ==
    /\ cpc[r] = "openNotify"
    /\ NotifyAll
    /\ mThreadOpen' = [mThreadOpen EXCEPT ![r] = @ + 1]
    /\ CGoto(r, "bind")
    /\ UNCHANGED <<poolVars, wslot, wworked, wwait, mTaskIndex, depth, binding,
                   size, next, ran, dpc>>

\* _bindCPUCore returns at once without core ids or on the thread bound before.
BindSkip(r) ==
    /\ cpc[r] = "bind"
    /\ CGoto(r, "user")
    /\ UNCHANGED <<poolVars, workerVars, mTaskIndex, mThreadOpen, depth, binding,
                   size, next, ran, dpc>>

\* Otherwise it activates the pool, enqueues a task for the mThreadNumber
\* threads of the runtime, and deactivates (EnqueueReturn below).
BindActive(r) ==
    /\ cpc[r] = "bind"
    /\ Active(r, "bindNotify")
    /\ binding' = binding \cup {r}
    /\ UNCHANGED <<mTaskAvailable, mTasks, mFlags, mSleepMask, mStop, mQueueMutex,
                   workerVars, mTaskIndex, mThreadOpen, depth, size, next, ran, dpc>>

\* enqueue: a task of n items; no helper threads for one item or no slot.
Enqueue(r, n) ==
    /\ size' = [size EXCEPT ![r] = n]
    /\ CGoto(r, IF n <= 1 \/ mTaskIndex[r] < 0 THEN "serial" ELSE "dispatch")

BindNotify(r) ==
    /\ cpc[r] = "bindNotify"
    /\ NotifyAll
    /\ Enqueue(r, BindThreads)
    /\ UNCHANGED <<poolVars, wslot, wworked, wwait, mTaskIndex, mThreadOpen, depth,
                   binding, next, ran, dpc>>

-----------------------------------------------------------------------------
(* ThreadPool::enqueue and enqueueInternal.                                 *)

\* An operator's onExecute calls enqueue between Begin and End.
UserEnqueue(r) ==
    /\ cpc[r] = "user" /\ dpc = "alive"
    /\ depth[r] > 0
    /\ \E n \in WorkSizes : Enqueue(r, n)
    /\ UNCHANGED <<poolVars, workerVars, mTaskIndex, mThreadOpen, depth, binding,
                   next, ran, dpc>>

\* The caller runs every item itself.
RunSerial(r) ==
    /\ cpc[r] = "serial"
    /\ RunItems(r, {v \in Items : v < size[r]})
    /\ CGoto(r, "returned")
    /\ UNCHANGED <<poolVars, workerVars, mTaskIndex, mThreadOpen, depth, binding,
                   size, next, dpc>>

\* if (mActiveCount == 0) serial; else publish the task in its slot.
SetTask(r) ==
    /\ cpc[r] = "dispatch"
    /\ IF mActiveCount = 0
         THEN CGoto(r, "serial") /\ UNCHANGED <<mTasks, next>>
         ELSE /\ mTasks' = [mTasks EXCEPT ![mTaskIndex[r]] = r]
              /\ next' = [next EXCEPT ![r] = 1]
              /\ CGoto(r, "setFlags")
    /\ UNCHANGED <<mTaskAvailable, mFlags, mActiveCount, mSleepMask, mStop,
                   mQueueMutex, workerVars, mTaskIndex, mThreadOpen, depth, binding,
                   size, ran, dpc>>

\* *mTasks[index].second[i] = true, for i = 1 .. workSize - 1.
SetFlag(r) ==
    /\ cpc[r] = "setFlags"
    /\ IF next[r] < ThreadsUsed(size[r])
         THEN /\ mFlags' = mFlags \cup {<<mTaskIndex[r], next[r]>>}
              /\ next' = [next EXCEPT ![r] = @ + 1]
              /\ UNCHANGED cpc
         ELSE /\ CGoto(r, "loadMask")
              /\ next' = [next EXCEPT ![r] = 0]
              /\ UNCHANGED mFlags
    /\ UNCHANGED <<mTaskAvailable, mTasks, mActiveCount, mSleepMask, mStop,
                   mQueueMutex, workerVars, mTaskIndex, mThreadOpen, depth, binding,
                   size, ran, dpc>>

\* (mSleepMask.load() & flaggedMask) != 0
LoadMask(r) ==
    /\ cpc[r] = "loadMask"
    /\ CGoto(r, IF mSleepMask \cap FlaggedMask(ThreadsUsed(size[r])) # {}
                  THEN "lockNotify" ELSE "runZero")
    /\ UNCHANGED <<poolVars, workerVars, mTaskIndex, mThreadOpen, depth, binding,
                   size, next, ran, dpc>>

\* Mutant: notify without the empty critical section.
LockNotifyNoMutex(r) ==
    /\ cpc[r] = "lockNotify"
    /\ CGoto(r, "notify")
    /\ UNCHANGED <<poolVars, workerVars, mTaskIndex, mThreadOpen, depth, binding,
                   size, next, ran, dpc>>

\* Lock and unlock mQueueMutex before the notify.
LockNotify(r) ==
    /\ cpc[r] = "lockNotify"
    /\ mQueueMutex = None
    /\ CGoto(r, "notify")
    /\ UNCHANGED <<poolVars, workerVars, mTaskIndex, mThreadOpen, depth, binding,
                   size, next, ran, dpc>>

Notify(r) ==
    /\ cpc[r] = "notify"
    /\ NotifyAll
    /\ CGoto(r, "runZero")
    /\ UNCHANGED <<poolVars, wslot, wworked, wwait, mTaskIndex, mThreadOpen, depth,
                   binding, size, next, ran, dpc>>

\* mTasks[index].first->first(0)
RunZero(r) ==
    LET q == mTasks[mTaskIndex[r]] IN
    /\ cpc[r] = "runZero"
    /\ RunItems(q, Share(size[q], 0))
    /\ CGoto(r, "join")
    /\ UNCHANGED <<poolVars, workerVars, mTaskIndex, mThreadOpen, depth, binding,
                   size, next, dpc>>

\* Mutant: the completion loop leaves out the last worker.
JoinShort(r) ==
    /\ cpc[r] = "join"
    /\ \A w \in 1 .. ThreadsUsed(size[r]) - 2 : <<mTaskIndex[r], w>> \notin mFlags
    /\ CGoto(r, "returned")
    /\ UNCHANGED <<poolVars, workerVars, mTaskIndex, mThreadOpen, depth, binding,
                   size, next, ran, dpc>>

\* The completion loop.  Only this thread sets flags of its slot, so reading
\* them one after another or all at once sees the same.
Join(r) ==
    /\ cpc[r] = "join"
    /\ \A w \in 1 .. ThreadsUsed(size[r]) - 1 : <<mTaskIndex[r], w>> \notin mFlags
    /\ CGoto(r, "returned")
    /\ UNCHANGED <<poolVars, workerVars, mTaskIndex, mThreadOpen, depth, binding,
                   size, next, ran, dpc>>

\* What _bindCPUCore's own active() added to mActiveCount.
BindHolds(r) == IF r \in binding THEN 1 ELSE 0

\* enqueue has returned and the task object dies with the caller's frame;
\* _bindCPUCore goes on to deactive().
EnqueueReturn(r) ==
    /\ cpc[r] = "returned"
    /\ mActiveCount' = mActiveCount - BindHolds(r)
    /\ binding' = binding \ {r}
    /\ size' = [size EXCEPT ![r] = 0]
    /\ ran' = [ran EXCEPT ![r] = [v \in Items |-> 0]]
    /\ CGoto(r, "user")
    /\ UNCHANGED <<mTaskAvailable, mTasks, mFlags, mSleepMask, mStop, mQueueMutex,
                   workerVars, mTaskIndex, mThreadOpen, depth, next, dpc>>

-----------------------------------------------------------------------------
(* CPURuntime::onConcurrencyEnd.                                            *)

\* mThreadOpen-- with its clamp at zero.
OpenLeft(r) == IF mThreadOpen[r] - 1 < 0 THEN 0 ELSE mThreadOpen[r] - 1

End(r) ==
    /\ cpc[r] = "user"
    /\ depth[r] > 0
    /\ depth' = [depth EXCEPT ![r] = @ - 1]
    /\ IF mTaskIndex[r] >= 0
         THEN /\ mThreadOpen' = [mThreadOpen EXCEPT ![r] = OpenLeft(r)]
              /\ CGoto(r, IF OpenLeft(r) = 0 THEN "release" ELSE "user")
         ELSE UNCHANGED <<mThreadOpen, cpc>>
    /\ UNCHANGED <<poolVars, workerVars, mTaskIndex, binding, size, next, ran, dpc>>

\* releaseWorkIndex(mTaskIndex)
ReleaseWorkIndex(r) ==
    /\ cpc[r] = "release"
    /\ mQueueMutex = None
    /\ mTaskAvailable' = mTaskAvailable \cup {mTaskIndex[r]}
    /\ CGoto(r, "deactive")
    /\ UNCHANGED <<mTasks, mFlags, mActiveCount, mSleepMask, mStop, mQueueMutex,
                   workerVars, mTaskIndex, mThreadOpen, depth, binding, size, next,
                   ran, dpc>>

\* Mutant: mTaskIndex is not reset.
DeactiveKeepIndex(r) ==
    /\ cpc[r] = "deactive"
    /\ mActiveCount' = mActiveCount - 1
    /\ CGoto(r, "user")
    /\ UNCHANGED <<mTaskAvailable, mTasks, mFlags, mSleepMask, mStop, mQueueMutex,
                   workerVars, mTaskIndex, mThreadOpen, depth, binding, size, next,
                   ran, dpc>>

\* deactive(); mTaskIndex = -1
Deactive(r) ==
    /\ cpc[r] = "deactive"
    /\ mActiveCount' = mActiveCount - 1
    /\ mTaskIndex' = [mTaskIndex EXCEPT ![r] = -1]
    /\ CGoto(r, "user")
    /\ UNCHANGED <<mTaskAvailable, mTasks, mFlags, mSleepMask, mStop, mQueueMutex,
                   workerVars, mThreadOpen, depth, binding, size, next, ran, dpc>>

\* What the thread of a runtime starts of its own accord, and what it must
\* finish once it is inside a call.
ClientCall(r) == AcquireWorkIndex(r) \/ BeginAgain(r) \/ UserEnqueue(r) \/ End(r)

ClientStep(r) ==
    \/ Open(r)      \/ OpenNotify(r) \/ BindSkip(r) \/ BindActive(r) \/ BindNotify(r)
    \/ RunSerial(r) \/ SetTask(r)    \/ SetFlag(r)  \/ LoadMask(r)   \/ LockNotify(r)
    \/ Notify(r)    \/ RunZero(r)    \/ Join(r)     \/ EnqueueReturn(r)
    \/ ReleaseWorkIndex(r) \/ Deactive(r)

-----------------------------------------------------------------------------
(* ~ThreadPool, called by ThreadPool::destroy once no runtime uses the pool. *)

DestroyStop ==
    /\ dpc = "alive"
    /\ \A r \in Runtimes : cpc[r] = "user" /\ depth[r] = 0
    /\ mQueueMutex = None
    /\ mStop' = TRUE
    /\ dpc' = "notify"
    /\ UNCHANGED <<mTaskAvailable, mTasks, mFlags, mActiveCount, mSleepMask,
                   mQueueMutex, workerVars, clientVars>>

DestroyNotify ==
    /\ dpc = "notify"
    /\ NotifyAll
    /\ dpc' = "join"
    /\ UNCHANGED <<poolVars, wslot, wworked, wwait, clientVars>>

DestroyJoin ==
    /\ dpc = "join"
    /\ \A w \in Workers : wpc[w] = "done"
    /\ dpc' = "gone"
    /\ UNCHANGED <<poolVars, workerVars, clientVars>>

\* The pool is gone: nothing more happens.
Terminated == dpc = "gone" /\ UNCHANGED vars

Next ==
    \/ \E w \in Workers : WorkerStep(w) \/ SpuriousWakeup(w)
    \/ \E r \in Runtimes : ClientCall(r) \/ ClientStep(r)
    \/ DestroyStop \/ DestroyNotify \/ DestroyJoin
    \/ Terminated

Safety == Init /\ [][Next]_vars

\* Every thread that can run keeps running (weak fairness); a thread that
\* waits for mQueueMutex gets it if it is free again and again (strong).
\* Nothing is assumed of spurious wake-ups, new calls or the destructor.
Fairness ==
    /\ \A w \in Workers : WF_vars(WorkerStep(w)) /\ SF_vars(WorkerLock(w))
    /\ \A r \in Runtimes : /\ WF_vars(ClientStep(r))
                           /\ SF_vars(Open(r) \/ BindActive(r) \/ LockNotify(r)
                                      \/ ReleaseWorkIndex(r))
    /\ WF_vars(DestroyNotify) /\ WF_vars(DestroyJoin)

Spec == Safety /\ Fairness

-----------------------------------------------------------------------------
(* Properties.                                                              *)

\* The states of a call of enqueueInternal that has published its task.
Published == {"setFlags", "loadMask", "lockNotify", "notify", "runZero", "join"}

PoolTypeOK ==
    /\ mTaskAvailable \subseteq Slots
    /\ mTasks \in [Slots -> Runtimes \cup {None}]
    /\ mFlags \subseteq Slots \X Workers
    /\ mActiveCount \in Int
    /\ mSleepMask \subseteq Workers
    /\ mStop \in BOOLEAN
    /\ mQueueMutex \in Workers \cup {None}
    /\ dpc \in {"alive", "notify", "join", "gone"}

WorkerTypeOK ==
    /\ wpc \in [Workers -> {"loop", "poll", "scan", "run", "clear", "lock", "check",
                            "block", "blocked", "clearBit", "done"}]
    /\ wslot \in [Workers -> 0 .. MaxTasks]
    /\ wworked \subseteq Workers
    /\ wwait \in [Workers -> {"outer", "sleep"}]

ClientTypeOK ==
    /\ cpc \in [Runtimes -> Published \cup
                   {"user", "open", "openNotify", "bind", "bindNotify", "serial",
                    "dispatch", "returned", "release", "deactive"}]
    /\ mTaskIndex \in [Runtimes -> Slots \cup {-1}]
    /\ mThreadOpen \in [Runtimes -> Nat]
    /\ depth \in [Runtimes -> Nat]
    /\ binding \subseteq Runtimes
    /\ size \in [Runtimes -> Nat]
    /\ next \in [Runtimes -> Nat]
    /\ ran \in [Runtimes -> [Items -> Nat]]

\* Flags exist for the workers of the pool only, whatever size a task has.
TypeOK == PoolTypeOK /\ WorkerTypeOK /\ ClientTypeOK

\* The runtimes that hold a slot: deactive() runs after releaseWorkIndex, so
\* in between mTaskIndex still names a slot that may already be someone else's.
Holders == {r \in Runtimes : mTaskIndex[r] >= 0 /\ cpc[r] # "deactive"}

\* acquireWorkIndex and releaseWorkIndex: a slot belongs to at most one runtime,
\* and a slot is free exactly when no runtime holds it (none leaks).
SlotExclusive ==
    /\ \A q, r \in Holders : mTaskIndex[q] = mTaskIndex[r] => q = r
    /\ mTaskAvailable = Slots \ {mTaskIndex[r] : r \in Holders}

\* The runtimes between the active() of the outermost onConcurrencyBegin and
\* the deactive() of its onConcurrencyEnd.
Opened == {r \in Runtimes : \/ mThreadOpen[r] > 0
                            \/ cpc[r] \in {"openNotify", "release", "deactive"}}

\* active/deactive stay balanced through nested Begin and End, a Begin that
\* found no slot and the extra pair of _bindCPUCore: the count is the number
\* of open runtimes plus the number of runtimes that are binding cores.
ActiveCountExact == mActiveCount = Cardinality(Opened) + Cardinality(binding)

\* A worker runs a task, and a completion flag is up, only while the call of
\* enqueue that published the task is still waiting: the TASK is on the
\* caller's stack (or is the tmpTask deleted on return).
TaskAlive ==
    \A s \in Slots, w \in Workers :
       (<<s, w>> \in mFlags \/ (wpc[w] \in {"run", "clear"} /\ wslot[w] = s))
         => \E r \in Runtimes : /\ mTasks[s] = r
                                /\ mTaskIndex[r] = s
                                /\ cpc[r] \in Published
                                /\ w < ThreadsUsed(size[r])

\* When enqueue returns, each item of the task has run exactly once, whatever
\* was serial, dealt out with a stride, or run by one worker each.
ExactlyOnce ==
    \A r \in Runtimes : cpc[r] = "returned" =>
       \A v \in Items : ran[r][v] = (IF v < size[r] THEN 1 ELSE 0)

\* The sleep protocol of ThreadPool.cpp loses no wake-up: whenever a worker is
\* blocked although its wait is over, the thread that ended it has yet to notify.
NoLostWakeup ==
    \A w \in Workers : wpc[w] = "blocked" =>
       /\ mStop => dpc = "notify"
       /\ (wwait[w] = "outer" /\ mActiveCount > 0) =>
            \E r \in Runtimes : cpc[r] \in {"openNotify", "bindNotify"}
       /\ wwait[w] = "sleep" => \A s \in Slots : <<s, w>> \in mFlags =>
            \E r \in Runtimes : /\ mTaskIndex[r] = s
                                /\ cpc[r] \in {"setFlags", "loadMask", "lockNotify", "notify"}

\* Every call of enqueue returns: no worker sleeps through its flag, and no
\* caller waits for a flag nobody will clear.
EnqueueReturns ==
    \A r \in Runtimes : cpc[r] \in Published \cup {"serial", "dispatch"} ~> cpc[r] = "returned"

\* ~ThreadPool joins all its workers, wherever they were when mStop was set.
DestroyCompletes == mStop ~> dpc = "gone"

\* enqueue implements the sequential promise of ParallelFor.
PF == INSTANCE ParallelFor WITH
        Callers <- Runtimes, WorkItems <- Items, TaskSizes <- WorkSizes \cup {BindThreads},
        size <- size, ran <- ran,
        busy <- {r \in Runtimes : cpc[r] \in Published \cup {"serial", "dispatch", "returned"}}

ImplementsParallelFor == PF!Safety


=============================================================================
