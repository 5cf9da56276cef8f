-------------------------- MODULE ThreadPoolProofs --------------------------
(***************************************************************************)
(* Proofs about ThreadPool, for every number of runtimes, threads, slots    *)
(* and items.  The inductive invariant IInv is the conjunction of the       *)
(* named parts below; each part is preserved by every action.               *)
(***************************************************************************)
EXTENDS ThreadPool, TLAPS

InCall == Published \cup {"serial", "dispatch", "returned"}
TaskSizes == WorkSizes \cup {BindThreads}

\* mQueueMutex is held by exactly the worker inside the critical section of a
\* wait; mStop is raised once the destructor has begun.
MutexInv ==
    /\ \A w \in Workers : wpc[w] \in {"check", "block"} <=> mQueueMutex = w
    /\ mStop => dpc # "alive"

\* A worker that runs or clears has its flag up; a worker in the mid-run wait
\* has published its sleep bit.
WorkerInv ==
    /\ \A w \in Workers : wpc[w] \in {"run", "clear"} =>
         wslot[w] \in Slots /\ <<wslot[w], w>> \in mFlags
    /\ \A w \in Workers : wwait[w] = "sleep" =>
         w \in mSleepMask /\ w < SleepWidth

\* What a runtime holds at each point of its calls.
ClientInv ==
    \A r \in Runtimes :
      /\ cpc[r] \in Published \cup {"dispatch"} => mTaskIndex[r] \in Slots /\ size[r] > 1
      /\ cpc[r] \in InCall => size[r] \in TaskSizes
      /\ cpc[r] \in Published => mTasks[mTaskIndex[r]] = r
      /\ cpc[r] \in {"openNotify", "release", "deactive"} =>
           mTaskIndex[r] \in Slots /\ mThreadOpen[r] = 0
      /\ mThreadOpen[r] > 0 => mTaskIndex[r] \in Slots
      /\ cpc[r] = "setFlags" => next[r] > 0

\* Every completion flag that is up belongs to a published task that has a
\* share for the flagged worker.
OwnsFlag(r, s, w) ==
    /\ mTaskIndex[r] = s
    /\ cpc[r] \in Published
    /\ w < ThreadsUsed(size[r])
    /\ cpc[r] = "setFlags" => w < next[r]

FlagInv ==
    \A s \in Slots, w \in Workers :
      <<s, w>> \in mFlags => \E r \in Runtimes : OwnsFlag(r, s, w)

\* Between the predicate and the block nobody can have notified yet.
BlockInv ==
    \A w \in Workers : wpc[w] = "block" =>
       /\ ~mStop
       /\ wwait[w] = "outer" => mActiveCount <= 0
       /\ wwait[w] = "sleep" => \A s \in Slots : <<s, w>> \in mFlags =>
            \E r \in Runtimes : /\ mTaskIndex[r] = s
                                /\ cpc[r] \in {"setFlags", "loadMask", "lockNotify"}

IInv ==
    /\ TypeOK /\ MutexInv /\ WorkerInv /\ ClientInv
    /\ SlotExclusive /\ FlagInv /\ BlockInv /\ NoLostWakeup

-----------------------------------------------------------------------------
USE DEF poolVars, workerVars, clientVars, vars

\* Every constant the state machine computes with has the type it needs.
LEMMA ConstantTypes ==
    /\ Workers \subseteq Nat \ {0}
    /\ Slots \subseteq Nat
    /\ -1 \notin Slots
    /\ None \notin Workers
    /\ TaskSizes \subseteq Nat
    /\ Items \subseteq Nat
  BY ThreadsAssumption, RuntimesAssumption DEF Workers, Slots, TaskSizes, Items

\* Executing items keeps the history typed, whichever task a slot points to.
LEMMA RunItemsType ==
    ASSUME ran \in [Runtimes -> [Items -> Nat]], NEW q, NEW S, RunItems(q, S)
    PROVE  ran' \in [Runtimes -> [Items -> Nat]]
<1>1. CASE q \in Runtimes
  <2>1. [v \in Items |-> ran[q][v] + (IF v \in S THEN 1 ELSE 0)] \in [Items -> Nat]
    BY <1>1
  <2> QED BY <1>1, <2>1 DEF RunItems
<1>2. CASE q \notin Runtimes
  BY <1>2 DEF RunItems
<1> QED BY <1>1, <1>2

\* The constructor's state is well typed.
LEMMA InitTypeOK == Init => TypeOK
<1> SUFFICES ASSUME Init PROVE TypeOK OBVIOUS
<1>1. PoolTypeOK
  <2>1. mTasks \in [Slots -> Runtimes \cup {None}] /\ mActiveCount \in Int
    BY DEF Init
  <2> QED BY <2>1 DEF Init, PoolTypeOK
<1>2. WorkerTypeOK
  BY ThreadsAssumption DEF Init, WorkerTypeOK
<1>3. ClientTypeOK
  <2>1. ran \in [Runtimes -> [Items -> Nat]]
    BY DEF Init
  <2>2. mTaskIndex \in [Runtimes -> Slots \cup {-1}]
    BY DEF Init
  <2> QED BY <2>1, <2>2 DEF Init, ClientTypeOK
<1> QED BY <1>1, <1>2, <1>3 DEF TypeOK

\* Every step keeps the state well typed: in particular a task of more items
\* than threads raises flags of the pool's own workers only.
LEMMA NextTypeOK ==
    ASSUME TypeOK, WorkerInv, ClientInv, [Next]_vars
    PROVE  TypeOK'
<1> USE ConstantTypes, ThreadsAssumption
<1>1. ASSUME NEW w \in Workers, WorkerStep(w) \/ SpuriousWakeup(w) PROVE TypeOK'
  <2>1. CASE WorkerLoop(w)
    BY <2>1 DEF TypeOK, PoolTypeOK, WorkerTypeOK, ClientTypeOK, WorkerLoop, WGoto
  <2>2. CASE WorkerPoll(w)
    BY <2>2 DEF TypeOK, PoolTypeOK, WorkerTypeOK, ClientTypeOK, WorkerPoll, WGoto
  <2>3. CASE WorkerScan(w)
    <3>1. PoolTypeOK'
      BY <2>3 DEF TypeOK, PoolTypeOK, WorkerScan
    <3>2. WorkerTypeOK'
      BY <2>3 DEF TypeOK, WorkerTypeOK, WorkerScan, WGoto
    <3>3. ClientTypeOK'
      BY <2>3 DEF TypeOK, ClientTypeOK, WorkerScan
    <3> QED BY <3>1, <3>2, <3>3 DEF TypeOK
  <2>4. CASE WorkerRun(w)
    <3>1. PoolTypeOK'
      BY <2>4 DEF TypeOK, PoolTypeOK, WorkerRun
    <3>2. WorkerTypeOK'
      BY <2>4 DEF TypeOK, WorkerTypeOK, WorkerRun, WGoto
    <3>3. ClientTypeOK'
      BY <2>4, RunItemsType DEF TypeOK, ClientTypeOK, WorkerRun
    <3> QED BY <3>1, <3>2, <3>3 DEF TypeOK
  <2>5. CASE WorkerClear(w)
    <3>1. PoolTypeOK'
      BY <2>5 DEF TypeOK, PoolTypeOK, WorkerClear
    <3>2. WorkerTypeOK'
      <4>1. wslot[w] \in 0 .. MaxTasks - 1
        BY <2>5 DEF WorkerInv, WorkerClear, Slots
      <4> QED BY <2>5, <4>1 DEF TypeOK, WorkerTypeOK, WorkerClear, WGoto
    <3>3. ClientTypeOK'
      BY <2>5 DEF TypeOK, ClientTypeOK, WorkerClear
    <3> QED BY <3>1, <3>2, <3>3 DEF TypeOK
  <2>6. CASE WorkerSpin(w) \/ WorkerSleep(w)
    <3>1. PoolTypeOK'
      BY <2>6 DEF TypeOK, PoolTypeOK, WorkerSpin, WorkerSleep
    <3>2. WorkerTypeOK'
      <4>1. CASE WorkerSpin(w)
        BY <4>1 DEF TypeOK, WorkerTypeOK, WorkerSpin, WGoto
      <4>2. CASE WorkerSleep(w)
        BY <4>2 DEF TypeOK, WorkerTypeOK, WorkerSleep, WGoto
      <4> QED BY <2>6, <4>1, <4>2
    <3>3. ClientTypeOK'
      BY <2>6 DEF TypeOK, ClientTypeOK, WorkerSpin, WorkerSleep
    <3> QED BY <3>1, <3>2, <3>3 DEF TypeOK
  <2>7. CASE WorkerLock(w) \/ WorkerCheck(w) \/ WorkerBlock(w) \/ SpuriousWakeup(w) \/ WorkerClearBit(w)
    BY <2>7, ZenonT(30) DEF TypeOK, PoolTypeOK, WorkerTypeOK, ClientTypeOK, WorkerLock, WorkerCheck, WorkerBlock, SpuriousWakeup, WorkerClearBit, WGoto
  <2> QED BY <1>1, <2>1, <2>2, <2>3, <2>4, <2>5, <2>6, <2>7 DEF WorkerStep
<1>2. ASSUME NEW r \in Runtimes, ClientCall(r) PROVE TypeOK'
  <2>1. CASE AcquireWorkIndex(r)
    <3>1. PoolTypeOK'
      BY <2>1 DEF TypeOK, PoolTypeOK, AcquireWorkIndex
    <3>2. WorkerTypeOK'
      BY <2>1 DEF TypeOK, WorkerTypeOK, AcquireWorkIndex
    <3>3. ClientTypeOK'
      <4>1. mTaskIndex' \in [Runtimes -> Slots \cup {-1}]
        BY <2>1 DEF TypeOK, PoolTypeOK, ClientTypeOK, AcquireWorkIndex
      <4>2. depth' \in [Runtimes -> Nat]
        BY <2>1 DEF TypeOK, ClientTypeOK, AcquireWorkIndex
      <4>3. cpc' = [cpc EXCEPT ![r] = "open"] /\ UNCHANGED <<mThreadOpen, binding, size, next, ran>>
        BY <2>1 DEF AcquireWorkIndex, CGoto
      <4> QED BY <4>1, <4>2, <4>3 DEF TypeOK, ClientTypeOK
    <3> QED BY <3>1, <3>2, <3>3 DEF TypeOK
  <2>2. CASE BeginAgain(r)
    BY <2>2 DEF TypeOK, PoolTypeOK, WorkerTypeOK, ClientTypeOK, BeginAgain, CGoto
  <2>3. CASE UserEnqueue(r)
    BY <2>3 DEF TypeOK, PoolTypeOK, WorkerTypeOK, ClientTypeOK, UserEnqueue, Enqueue, CGoto
  <2>4. CASE End(r)
    BY <2>4 DEF TypeOK, PoolTypeOK, WorkerTypeOK, ClientTypeOK, End, OpenLeft, CGoto
  <2> QED BY <1>2, <2>1, <2>2, <2>3, <2>4 DEF ClientCall
<1>3. ASSUME NEW r \in Runtimes, ClientStep(r) PROVE TypeOK'
  <2>1. CASE Open(r)
    <3>1. PoolTypeOK'
      BY <2>1 DEF TypeOK, PoolTypeOK, Open, Active
    <3>2. WorkerTypeOK'
      BY <2>1 DEF TypeOK, WorkerTypeOK, Open
    <3>3. ClientTypeOK'
      BY <2>1, SMTT(20) DEF TypeOK, ClientTypeOK, Open, FirstOpen, Active, CGoto
    <3> QED BY <3>1, <3>2, <3>3 DEF TypeOK
  <2>2. CASE OpenNotify(r)
    BY <2>2 DEF TypeOK, PoolTypeOK, WorkerTypeOK, ClientTypeOK, OpenNotify, NotifyAll, CGoto
  <2>3. CASE BindSkip(r) \/ BindActive(r)
    <3>1. PoolTypeOK'
      <4>1. CASE BindSkip(r)
        BY <4>1 DEF TypeOK, PoolTypeOK, BindSkip
      <4>2. CASE BindActive(r)
        BY <4>2 DEF TypeOK, PoolTypeOK, BindActive, Active
      <4> QED BY <2>3, <4>1, <4>2
    <3>2. WorkerTypeOK'
      BY <2>3 DEF TypeOK, WorkerTypeOK, BindSkip, BindActive
    <3>3. ClientTypeOK'
      BY <2>3 DEF TypeOK, ClientTypeOK, BindSkip, BindActive, Active, CGoto
    <3> QED BY <3>1, <3>2, <3>3 DEF TypeOK
  <2>4. CASE BindNotify(r)
    BY <2>4 DEF TypeOK, PoolTypeOK, WorkerTypeOK, ClientTypeOK, BindNotify, Enqueue, NotifyAll, CGoto
  <2>5. CASE RunSerial(r)
    BY <2>5 DEF TypeOK, PoolTypeOK, WorkerTypeOK, ClientTypeOK, RunSerial, RunItems, CGoto
  <2>6. CASE SetTask(r)
    BY <2>6 DEF TypeOK, PoolTypeOK, WorkerTypeOK, ClientTypeOK, SetTask, CGoto, Published
  <2>7. CASE SetFlag(r)
    <3>1. PoolTypeOK'
      BY <2>7 DEF TypeOK, PoolTypeOK, ClientTypeOK, ClientInv, SetFlag, Published, ThreadsUsed, Workers
    <3>2. WorkerTypeOK'
      BY <2>7 DEF TypeOK, WorkerTypeOK, SetFlag
    <3>3. ClientTypeOK'
      BY <2>7, SMTT(20) DEF TypeOK, ClientTypeOK, SetFlag, CGoto, Published
    <3> QED BY <3>1, <3>2, <3>3 DEF TypeOK
  <2>8. CASE LoadMask(r) \/ LockNotify(r)
    BY <2>8 DEF TypeOK, PoolTypeOK, WorkerTypeOK, ClientTypeOK, LoadMask, LockNotify, CGoto, Published
  <2>9. CASE Notify(r)
    BY <2>9 DEF TypeOK, PoolTypeOK, WorkerTypeOK, ClientTypeOK, Notify, NotifyAll, CGoto, Published
  <2>10. CASE RunZero(r)
    <3>1. PoolTypeOK'
      BY <2>10 DEF TypeOK, PoolTypeOK, RunZero
    <3>2. WorkerTypeOK'
      BY <2>10 DEF TypeOK, WorkerTypeOK, RunZero
    <3>3. ClientTypeOK'
      BY <2>10, RunItemsType DEF TypeOK, ClientTypeOK, RunZero, CGoto, Published
    <3> QED BY <3>1, <3>2, <3>3 DEF TypeOK
  <2>11. CASE Join(r)
    BY <2>11 DEF TypeOK, PoolTypeOK, WorkerTypeOK, ClientTypeOK, Join, CGoto
  <2>12. CASE EnqueueReturn(r)
    BY <2>12 DEF TypeOK, PoolTypeOK, WorkerTypeOK, ClientTypeOK, EnqueueReturn, BindHolds, CGoto
  <2>13. CASE ReleaseWorkIndex(r) \/ Deactive(r)
    <3>1. PoolTypeOK'
      <4>1. CASE ReleaseWorkIndex(r)
        BY <4>1 DEF TypeOK, PoolTypeOK, ClientInv, ReleaseWorkIndex
      <4>2. CASE Deactive(r)
        BY <4>2 DEF TypeOK, PoolTypeOK, Deactive
      <4> QED BY <2>13, <4>1, <4>2
    <3>2. WorkerTypeOK'
      BY <2>13 DEF TypeOK, WorkerTypeOK, ReleaseWorkIndex, Deactive
    <3>3. ClientTypeOK'
      BY <2>13 DEF TypeOK, ClientTypeOK, ReleaseWorkIndex, Deactive, CGoto
    <3> QED BY <3>1, <3>2, <3>3 DEF TypeOK
  <2> QED BY <1>3, <2>1, <2>2, <2>3, <2>4, <2>5, <2>6, <2>7, <2>8, <2>9, <2>10,
             <2>11, <2>12, <2>13 DEF ClientStep
<1>4. CASE DestroyStop \/ DestroyNotify \/ DestroyJoin \/ UNCHANGED vars
  BY <1>4 DEF TypeOK, PoolTypeOK, WorkerTypeOK, ClientTypeOK, DestroyStop, DestroyNotify, DestroyJoin, NotifyAll
<1> QED BY <1>1, <1>2, <1>3, <1>4 DEF Next, Terminated

-----------------------------------------------------------------------------
(* What the steps of one thread leave alone.                                *)

\* A worker touches no state of a runtime except the history, and only ever
\* lowers flags.
LEMMA WorkerFrame ==
    ASSUME NEW w \in Workers, WorkerStep(w) \/ SpuriousWakeup(w)
    PROVE  /\ UNCHANGED <<mTaskAvailable, mTasks, mActiveCount, mStop, dpc, cpc,
                          mTaskIndex, mThreadOpen, depth, binding, size, next>>
           /\ mFlags' \subseteq mFlags
  BY DEF WorkerStep, WorkerLoop, WorkerPoll, WorkerScan, WorkerRun, WorkerClear,
         WorkerSpin, WorkerSleep, WorkerLock, WorkerCheck, WorkerBlock,
         SpuriousWakeup, WorkerClearBit

\* A runtime's thread touches nothing of the workers but to wake them, and
\* nothing of other runtimes.
LEMMA ClientFrame ==
    ASSUME TypeOK, NEW r \in Runtimes, ClientCall(r) \/ ClientStep(r)
    PROVE  /\ UNCHANGED <<mStop, mQueueMutex, mSleepMask, dpc, wslot, wworked, wwait>>
           /\ wpc' = wpc \/ NotifyAll
           /\ \A q \in Runtimes \ {r} :
                /\ cpc'[q] = cpc[q]
                /\ mTaskIndex'[q] = mTaskIndex[q]
                /\ mThreadOpen'[q] = mThreadOpen[q]
                /\ size'[q] = size[q]
                /\ next'[q] = next[q]
<1> USE DEF TypeOK, ClientTypeOK
<1>1. CASE ClientCall(r)
  BY <1>1 DEF ClientCall, AcquireWorkIndex, BeginAgain, UserEnqueue, End, Enqueue, CGoto
<1>2. CASE Open(r) \/ OpenNotify(r) \/ BindSkip(r) \/ BindActive(r) \/ BindNotify(r)
  BY <1>2 DEF Open, OpenNotify, BindSkip, BindActive, BindNotify, Active, Enqueue, CGoto
<1>3. CASE RunSerial(r) \/ SetTask(r) \/ SetFlag(r) \/ LoadMask(r) \/ LockNotify(r)
  BY <1>3 DEF RunSerial, SetTask, SetFlag, LoadMask, LockNotify, CGoto
<1>4. CASE Notify(r) \/ RunZero(r) \/ Join(r) \/ EnqueueReturn(r)
  BY <1>4 DEF Notify, RunZero, Join, EnqueueReturn, CGoto
<1>5. CASE ReleaseWorkIndex(r) \/ Deactive(r)
  BY <1>5 DEF ReleaseWorkIndex, Deactive, CGoto
<1> QED BY <1>1, <1>2, <1>3, <1>4, <1>5 DEF ClientStep

\* The destructor touches nothing of the runtimes.
LEMMA DestroyFrame ==
    ASSUME DestroyStop \/ DestroyNotify \/ DestroyJoin \/ UNCHANGED vars
    PROVE  /\ UNCHANGED <<mTaskAvailable, mTasks, mFlags, mActiveCount, mSleepMask,
                          mQueueMutex, wslot, wworked, wwait, clientVars>>
           /\ wpc' = wpc \/ NotifyAll
  BY DEF DestroyStop, DestroyNotify, DestroyJoin

-----------------------------------------------------------------------------
\* mQueueMutex is held exactly by a worker between taking it for a wait and
\* releasing it, so the critical sections exclude one another.
LEMMA NextMutexInv ==
    ASSUME TypeOK, MutexInv, [Next]_vars
    PROVE  MutexInv'
<1> USE ConstantTypes DEF TypeOK, PoolTypeOK, WorkerTypeOK
<1>1. ASSUME NEW w \in Workers, WorkerStep(w) \/ SpuriousWakeup(w) PROVE MutexInv'
  <2>1. CASE WorkerLock(w)
    BY <2>1 DEF MutexInv, WorkerLock, WGoto
  <2>2. CASE WorkerCheck(w)
    BY <2>2 DEF MutexInv, WorkerCheck, WGoto
  <2>3. CASE WorkerBlock(w)
    BY <2>3 DEF MutexInv, WorkerBlock, WGoto
  <2>4. CASE \/ WorkerLoop(w) \/ WorkerPoll(w) \/ WorkerScan(w) \/ WorkerRun(w)
             \/ WorkerClear(w) \/ WorkerSpin(w) \/ WorkerSleep(w)
             \/ SpuriousWakeup(w) \/ WorkerClearBit(w)
    BY <2>4 DEF MutexInv, WorkerLoop, WorkerPoll, WorkerScan, WorkerRun, WorkerClear,
                WorkerSpin, WorkerSleep, SpuriousWakeup, WorkerClearBit, WGoto
  <2> QED BY <1>1, <2>1, <2>2, <2>3, <2>4 DEF WorkerStep
<1>2. ASSUME NEW r \in Runtimes, ClientCall(r) \/ ClientStep(r) PROVE MutexInv'
  BY <1>2, ClientFrame DEF MutexInv, NotifyAll
<1>3. CASE DestroyStop \/ DestroyNotify \/ DestroyJoin \/ UNCHANGED vars
  BY <1>3 DEF MutexInv, DestroyStop, DestroyNotify, DestroyJoin, NotifyAll
<1> QED BY <1>1, <1>2, <1>3 DEF Next, Terminated

\* A worker's scan index and wait agree with where its loop is.
LEMMA NextWorkerInv ==
    ASSUME TypeOK, WorkerInv, [Next]_vars
    PROVE  WorkerInv'
<1> USE ConstantTypes, ThreadsAssumption DEF TypeOK, PoolTypeOK, WorkerTypeOK
<1>1. ASSUME NEW w \in Workers, WorkerStep(w) \/ SpuriousWakeup(w) PROVE WorkerInv'
  <2>1. CASE WorkerScan(w)
    BY <2>1 DEF WorkerInv, WorkerScan, WGoto, Slots
  <2>2. CASE WorkerRun(w)
    BY <2>2 DEF WorkerInv, WorkerRun, WGoto
  <2>3. CASE WorkerClear(w)
    BY <2>3 DEF WorkerInv, WorkerClear, WGoto
  <2>4. CASE WorkerSpin(w)
    BY <2>4 DEF WorkerInv, WorkerSpin, WGoto
  <2>5. CASE WorkerSleep(w)
    BY <2>5 DEF WorkerInv, WorkerSleep, WGoto
  <2>6. CASE WorkerClearBit(w)
    BY <2>6 DEF WorkerInv, WorkerClearBit, WGoto
  <2>7. CASE \/ WorkerLoop(w) \/ WorkerPoll(w) \/ WorkerLock(w) \/ WorkerCheck(w)
             \/ WorkerBlock(w) \/ SpuriousWakeup(w)
    BY <2>7 DEF WorkerInv, WorkerLoop, WorkerPoll, WorkerLock, WorkerCheck,
                WorkerBlock, SpuriousWakeup, WGoto
  <2> QED BY <1>1, <2>1, <2>2, <2>3, <2>4, <2>5, <2>6, <2>7 DEF WorkerStep
<1>2. ASSUME NEW r \in Runtimes, ClientCall(r) \/ ClientStep(r) PROVE WorkerInv'
  <2>1. mFlags \subseteq mFlags'
    BY <1>2 DEF ClientCall, AcquireWorkIndex, BeginAgain, UserEnqueue, End, ClientStep,
         Open, OpenNotify, BindSkip, BindActive, BindNotify, RunSerial, SetTask,
         SetFlag, LoadMask, LockNotify, Notify, RunZero, Join, EnqueueReturn,
         ReleaseWorkIndex, Deactive
  <2> QED BY <1>2, <2>1, ClientFrame DEF WorkerInv, NotifyAll
<1>3. CASE DestroyStop \/ DestroyNotify \/ DestroyJoin \/ UNCHANGED vars
  BY <1>3, DestroyFrame DEF WorkerInv, NotifyAll
<1> QED BY <1>1, <1>2, <1>3 DEF Next, Terminated

\* A runtime that dispatches, or is about to release, holds its slot.
LEMMA Holding ==
    ASSUME ClientInv, NEW r \in Runtimes, cpc[r] \in Published \cup {"dispatch", "release"}
    PROVE  mTaskIndex[r] \in Slots /\ r \in Holders
<1>1. mTaskIndex[r] \in Slots
  BY DEF ClientInv
<1>2. mTaskIndex[r] >= 0
  BY <1>1, ThreadsAssumption DEF Slots
<1>3. cpc[r] # "deactive"
  BY DEF Published
<1> QED BY <1>1, <1>2, <1>3 DEF Holders

\* A runtime's slot, nesting count and task size agree with where its call is.
LEMMA NextClientInv ==
    ASSUME TypeOK, ClientInv, SlotExclusive, [Next]_vars
    PROVE  ClientInv'
<1> USE ConstantTypes, ThreadsAssumption DEF TypeOK, ClientTypeOK
<1>1. ASSUME NEW w \in Workers, WorkerStep(w) \/ SpuriousWakeup(w) PROVE ClientInv'
  BY <1>1, WorkerFrame DEF ClientInv
<1>2. ASSUME NEW r \in Runtimes, ClientCall(r) PROVE ClientInv'
  <2>1. CASE AcquireWorkIndex(r)
    BY <2>1 DEF ClientInv, AcquireWorkIndex, CGoto, PoolTypeOK, Published, InCall
  <2>2. CASE BeginAgain(r)
    BY <2>2 DEF ClientInv, BeginAgain, CGoto, Published, InCall
  <2>3. CASE UserEnqueue(r)
    BY <2>3 DEF ClientInv, UserEnqueue, Enqueue, CGoto, Published, InCall, TaskSizes
  <2>4. CASE End(r)
    BY <2>4 DEF ClientInv, End, OpenLeft, CGoto, Published, InCall
  <2> QED BY <1>2, <2>1, <2>2, <2>3, <2>4 DEF ClientCall
<1>3. ASSUME NEW r \in Runtimes, ClientStep(r) PROVE ClientInv'
  <2>1. CASE Open(r)
    BY <2>1 DEF ClientInv, Open, FirstOpen, Active, CGoto, Published, InCall
  <2>2. CASE OpenNotify(r)
    BY <2>2 DEF ClientInv, OpenNotify, CGoto, Published, InCall
  <2>3. CASE BindSkip(r) \/ BindActive(r)
    BY <2>3 DEF ClientInv, BindSkip, BindActive, Active, CGoto, Published, InCall
  <2>4. CASE BindNotify(r)
    BY <2>4 DEF ClientInv, BindNotify, Enqueue, CGoto, Published, InCall, TaskSizes
  <2>5. CASE RunSerial(r)
    BY <2>5 DEF ClientInv, RunSerial, CGoto, Published, InCall
  <2>6. CASE SetTask(r)
    <3>1. ASSUME NEW q \in Runtimes \ {r}, cpc[q] \in Published
          PROVE  mTaskIndex[q] # mTaskIndex[r]
      BY <2>6, <3>1, Holding DEF SlotExclusive, SetTask
    <3>2. mTaskIndex[r] \in Slots /\ mTasks \in [Slots -> Runtimes \cup {None}]
      BY <2>6, Holding DEF SetTask, PoolTypeOK
    <3>3. CASE mActiveCount = 0
      BY <2>6, <3>3 DEF ClientInv, SetTask, CGoto, Published, InCall
    <3>4. CASE mActiveCount # 0
      <4>1. \A q \in Runtimes : cpc'[q] \in Published => mTasks'[mTaskIndex'[q]] = q
        <5>1. /\ mTasks' = [mTasks EXCEPT ![mTaskIndex[r]] = r] /\ mTaskIndex' = mTaskIndex
              /\ cpc' = [cpc EXCEPT ![r] = "setFlags"]
          BY <2>6, <3>4 DEF SetTask, CGoto
        <5>2. mTasks'[mTaskIndex[r]] = r
          BY <5>1, <3>2
        <5>3. ASSUME NEW q \in Runtimes \ {r}, cpc'[q] \in Published
              PROVE  mTasks'[mTaskIndex'[q]] = q
          <6>1. cpc[q] \in Published
            BY <5>1, <5>3
          <6>2. mTaskIndex[q] \in Slots /\ mTaskIndex[q] # mTaskIndex[r] /\ mTasks[mTaskIndex[q]] = q
            BY <3>1, <6>1 DEF ClientInv
          <6> QED BY <5>1, <6>2, <3>2
        <5> QED BY <5>1, <5>2, <5>3
      <4>2. size[r] > 1 /\ size[r] \in TaskSizes /\ cpc[r] = "dispatch"
        <5>1. cpc[r] = "dispatch"
          BY <2>6 DEF SetTask
        <5> QED BY <5>1 DEF ClientInv, InCall
      <4>3. /\ cpc' = [cpc EXCEPT ![r] = "setFlags"]
            /\ next' = [next EXCEPT ![r] = 1]
            /\ UNCHANGED <<mTaskIndex, size, mThreadOpen>>
        BY <2>6, <3>4 DEF SetTask, CGoto
      <4> QED BY <3>2, <4>1, <4>2, <4>3 DEF ClientInv, Published, InCall
    <3> QED BY <3>3, <3>4
  <2>7. CASE SetFlag(r)
    BY <2>7 DEF ClientInv, SetFlag, CGoto, Published, InCall
  <2>8. CASE LoadMask(r) \/ LockNotify(r)
    BY <2>8 DEF ClientInv, LoadMask, LockNotify, CGoto, Published, InCall
  <2>9. CASE Notify(r)
    BY <2>9 DEF ClientInv, Notify, CGoto, Published, InCall
  <2>10. CASE RunZero(r)
    BY <2>10 DEF ClientInv, RunZero, CGoto, Published, InCall
  <2>11. CASE Join(r)
    BY <2>11 DEF ClientInv, Join, CGoto, Published, InCall
  <2>12. CASE EnqueueReturn(r)
    BY <2>12 DEF ClientInv, EnqueueReturn, CGoto, Published, InCall
  <2>13. CASE ReleaseWorkIndex(r)
    BY <2>13 DEF ClientInv, ReleaseWorkIndex, CGoto, Published, InCall
  <2>14. CASE Deactive(r)
    BY <2>14 DEF ClientInv, Deactive, CGoto, Published, InCall
  <2> QED BY <1>3, <2>1, <2>2, <2>3, <2>4, <2>5, <2>6, <2>7, <2>8, <2>9, <2>10,
             <2>11, <2>12, <2>13, <2>14 DEF ClientStep
<1>4. CASE DestroyStop \/ DestroyNotify \/ DestroyJoin \/ UNCHANGED vars
  BY <1>4, DestroyFrame DEF ClientInv
<1> QED BY <1>1, <1>2, <1>3, <1>4 DEF Next, Terminated

\* The slots change hands only in AcquireWorkIndex and ReleaseWorkIndex;
\* Deactive drops an index whose slot is no longer held.
LEMMA NextSlotExclusive ==
    ASSUME TypeOK, ClientInv, SlotExclusive, [Next]_vars
    PROVE  SlotExclusive'
<1> USE ConstantTypes, ThreadsAssumption DEF TypeOK, ClientTypeOK
<1>1. ASSUME UNCHANGED <<mTaskAvailable, mTaskIndex>>,
             \A q \in Runtimes : (cpc'[q] = "deactive") <=> (cpc[q] = "deactive")
      PROVE  SlotExclusive'
  <2>1. Holders' = Holders
    BY <1>1 DEF Holders
  <2> QED BY <1>1, <2>1 DEF SlotExclusive
<1>2. ASSUME NEW w \in Workers, WorkerStep(w) \/ SpuriousWakeup(w) PROVE SlotExclusive'
  BY <1>1, <1>2, WorkerFrame
<1>3. ASSUME NEW r \in Runtimes, ClientCall(r) \/ ClientStep(r) PROVE SlotExclusive'
  <2>1. CASE AcquireWorkIndex(r)
    <3>1. CASE mTaskAvailable = {}
      BY <1>1, <2>1, <3>1 DEF AcquireWorkIndex, CGoto
    <3>2. CASE mTaskAvailable # {}
      <4>1. PICK s \in mTaskAvailable : /\ mTaskAvailable' = mTaskAvailable \ {s}
                                        /\ mTaskIndex' = [mTaskIndex EXCEPT ![r] = s]
        BY <2>1, <3>2 DEF AcquireWorkIndex
      <4>2. s \in Slots /\ s >= 0
        BY DEF PoolTypeOK
      <4>3. Holders' = Holders \cup {r} /\ r \notin Holders
        <5>1. cpc' = [cpc EXCEPT ![r] = "open"] /\ cpc[r] = "user" /\ mTaskIndex[r] < 0
          BY <2>1 DEF AcquireWorkIndex, CGoto
        <5>2. mTaskIndex[r] = -1
          BY <5>1 DEF Slots
        <5> QED BY <4>1, <4>2, <5>1, <5>2 DEF Holders
      <4>4. \A q \in Holders : mTaskIndex'[q] = mTaskIndex[q] /\ mTaskIndex[q] # s
        BY <4>1, <4>3 DEF SlotExclusive, Holders
      <4>5. mTaskIndex'[r] = s
        BY <4>1
      <4>6. \A p, q \in Holders' : mTaskIndex'[p] = mTaskIndex'[q] => p = q
        BY <4>3, <4>4, <4>5 DEF SlotExclusive
      <4>7. {mTaskIndex'[q] : q \in Holders'} = {mTaskIndex[q] : q \in Holders} \cup {s}
        BY <4>3, <4>4, <4>5
      <4> QED BY <4>1, <4>6, <4>7, ZenonT(30) DEF SlotExclusive
    <3> QED BY <3>1, <3>2
  <2>2. CASE ReleaseWorkIndex(r)
    <3>1. mTaskIndex[r] \in Slots /\ r \in Holders
      BY <2>2, Holding DEF ReleaseWorkIndex
    <3>2. Holders' = Holders \ {r} /\ mTaskIndex' = mTaskIndex
      BY <2>2, <3>1 DEF Holders, ReleaseWorkIndex, CGoto
    <3>3. {mTaskIndex[q] : q \in Holders \ {r}} = {mTaskIndex[q] : q \in Holders} \ {mTaskIndex[r]}
      BY <3>1 DEF SlotExclusive
    <3>4. mTaskAvailable' = mTaskAvailable \cup {mTaskIndex[r]}
      BY <2>2 DEF ReleaseWorkIndex
    <3> QED BY <3>1, <3>2, <3>3, <3>4 DEF SlotExclusive
  <2>3. CASE Deactive(r)
    <3>1. Holders' = Holders /\ r \notin Holders /\ mTaskAvailable' = mTaskAvailable
      BY <2>3 DEF Holders, Deactive, CGoto
    <3>2. \A q \in Holders : mTaskIndex'[q] = mTaskIndex[q]
      BY <2>3, <3>1 DEF Holders, Deactive
    <3> QED BY <3>1, <3>2 DEF SlotExclusive
  <2>4. CASE ClientCall(r) /\ ~AcquireWorkIndex(r)
    BY <1>1, <2>4 DEF ClientCall, BeginAgain, UserEnqueue, End, Enqueue, CGoto
  <2>5. CASE Open(r) \/ OpenNotify(r) \/ BindSkip(r) \/ BindActive(r) \/ BindNotify(r)
    BY <1>1, <2>5 DEF Open, OpenNotify, BindSkip, BindActive, BindNotify, Active, Enqueue, CGoto
  <2>6. CASE RunSerial(r) \/ SetTask(r) \/ SetFlag(r) \/ LoadMask(r) \/ LockNotify(r)
    BY <1>1, <2>6 DEF RunSerial, SetTask, SetFlag, LoadMask, LockNotify, CGoto
  <2>7. CASE Notify(r) \/ RunZero(r) \/ Join(r) \/ EnqueueReturn(r)
    BY <1>1, <2>7 DEF Notify, RunZero, Join, EnqueueReturn, CGoto
  <2> QED BY <1>3, <2>1, <2>2, <2>3, <2>4, <2>5, <2>6, <2>7 DEF ClientStep, ClientCall
<1>4. CASE DestroyStop \/ DestroyNotify \/ DestroyJoin \/ UNCHANGED vars
  BY <1>1, <1>4, DestroyFrame
<1> QED BY <1>2, <1>3, <1>4 DEF Next, Terminated

\* A published task keeps owning its flags until it is joined, and it is the
\* only task of its slot, so the join sees every flag of the slot lowered.
LEMMA NextFlagInv ==
    ASSUME TypeOK, ClientInv, SlotExclusive, FlagInv, [Next]_vars
    PROVE  FlagInv'
<1> USE DEF TypeOK, ClientTypeOK
<1>1. ASSUME NEW w \in Workers, WorkerStep(w) \/ SpuriousWakeup(w) PROVE FlagInv'
  BY <1>1, WorkerFrame DEF FlagInv, OwnsFlag
<1>2. ASSUME NEW r \in Runtimes, ClientCall(r) \/ ClientStep(r) PROVE FlagInv'
  <2>1. \A q \in Runtimes \ {r}, s \in Slots, w \in Workers : OwnsFlag(q, s, w) => OwnsFlag(q, s, w)'
    BY <1>2, ClientFrame DEF OwnsFlag
  <2>2. ASSUME mFlags' = mFlags, cpc[r] \notin Published PROVE FlagInv'
    BY <2>1, <2>2 DEF FlagInv, OwnsFlag
  <2>3. ASSUME mFlags' = mFlags, mTaskIndex' = mTaskIndex, size' = size,
               cpc'[r] \in Published \ {"setFlags"}
        PROVE  FlagInv'
    BY <2>1, <2>3 DEF FlagInv, OwnsFlag
  <2>4. CASE ClientCall(r)
    BY <2>2, <2>4 DEF ClientCall, AcquireWorkIndex, BeginAgain, UserEnqueue, End, Published
  <2>5. CASE Open(r) \/ OpenNotify(r) \/ BindSkip(r) \/ BindActive(r) \/ BindNotify(r)
    BY <2>2, <2>5 DEF Open, OpenNotify, BindSkip, BindActive, BindNotify, Published
  <2>6. CASE RunSerial(r) \/ SetTask(r) \/ EnqueueReturn(r) \/ ReleaseWorkIndex(r) \/ Deactive(r)
    BY <2>2, <2>6 DEF RunSerial, SetTask, EnqueueReturn, ReleaseWorkIndex, Deactive, Published
  <2>7. CASE LoadMask(r) \/ LockNotify(r) \/ Notify(r) \/ RunZero(r)
    BY <2>3, <2>7 DEF LoadMask, LockNotify, Notify, RunZero, CGoto, Published
  <2>8. CASE SetFlag(r)
    <3>1. CASE next[r] < ThreadsUsed(size[r])
      <4>1. /\ mFlags' = mFlags \cup {<<mTaskIndex[r], next[r]>>}
            /\ next'[r] = next[r] + 1 /\ next[r] \in Nat
            /\ UNCHANGED <<cpc, mTaskIndex, size>>
            /\ cpc[r] = "setFlags"
        BY <2>8, <3>1 DEF SetFlag
      <4>2. \A s \in Slots, w \in Workers : OwnsFlag(r, s, w) => OwnsFlag(r, s, w)'
        BY <4>1, ConstantTypes DEF OwnsFlag
      <4>3. ASSUME NEW s \in Slots, NEW w \in Workers, s = mTaskIndex[r], w = next[r]
            PROVE  OwnsFlag(r, s, w)'
        BY <3>1, <4>1, <4>3 DEF OwnsFlag, Published
      <4> QED BY <2>1, <4>1, <4>2, <4>3 DEF FlagInv
    <3>2. CASE ~(next[r] < ThreadsUsed(size[r]))
      BY <2>3, <2>8, <3>2 DEF SetFlag, CGoto, Published
    <3> QED BY <3>1, <3>2
  <2>9. CASE Join(r)
    <3>1. \A s \in Slots, w \in Workers : OwnsFlag(r, s, w) => <<s, w>> \notin mFlags
      <4> SUFFICES ASSUME NEW s \in Slots, NEW w \in Workers, OwnsFlag(r, s, w)
                   PROVE  <<s, w>> \notin mFlags
        OBVIOUS
      <4>1. s = mTaskIndex[r] /\ w < ThreadsUsed(size[r])
        BY DEF OwnsFlag
      <4>2. size[r] \in Nat /\ ThreadsUsed(size[r]) \in Nat
        BY ThreadsAssumption DEF ThreadsUsed
      <4>3. w \in 1 .. ThreadsUsed(size[r]) - 1
        BY <4>1, <4>2, ConstantTypes
      <4> QED BY <2>9, <4>1, <4>3 DEF Join
    <3>2. mFlags' = mFlags
      BY <2>9 DEF Join
    <3> QED BY <2>1, <3>1, <3>2 DEF FlagInv
  <2> QED BY <1>2, <2>4, <2>5, <2>6, <2>7, <2>8, <2>9 DEF ClientStep
<1>3. CASE DestroyStop \/ DestroyNotify \/ DestroyJoin \/ UNCHANGED vars
  BY <1>3, DestroyFrame DEF FlagInv, OwnsFlag
<1> QED BY <1>1, <1>2, <1>3 DEF Next, Terminated

\* A sleeping worker with a flag up is in both masks, so the load of mSleepMask
\* by the task's dispatcher sees it and goes on to notify.
LEMMA LoadMaskSeesSleeper ==
    ASSUME TypeOK, WorkerInv, ClientInv, SlotExclusive, FlagInv,
           NEW r \in Runtimes, LoadMask(r),
           NEW w \in Workers, wwait[w] = "sleep", <<mTaskIndex[r], w>> \in mFlags
    PROVE  cpc'[r] = "lockNotify"
<1>1. cpc[r] \in Published /\ mTaskIndex[r] \in Slots /\ r \in Holders
  BY Holding DEF LoadMask, Published
<1>2. PICK q \in Runtimes : OwnsFlag(q, mTaskIndex[r], w)
  BY <1>1 DEF FlagInv
<1>3. q = r
  BY <1>1, <1>2, Holding DEF OwnsFlag, SlotExclusive
<1>4. size[r] \in Nat /\ ThreadsUsed(size[r]) \in Nat /\ w < ThreadsUsed(size[r])
  BY <1>2, <1>3, ThreadsAssumption DEF OwnsFlag, TypeOK, ClientTypeOK, ThreadsUsed
<1>5. w \in mSleepMask /\ w < SleepWidth
  BY DEF WorkerInv
<1>6. w \in FlaggedMask(ThreadsUsed(size[r]))
  BY <1>4, <1>5, ConstantTypes, ThreadsAssumption DEF FlaggedMask
<1> QED BY <1>5, <1>6 DEF LoadMask, CGoto, TypeOK, ClientTypeOK

\* No thread can pass a critical section while a worker stands between its
\* predicate and its block.
LEMMA BlockExcludes ==
    ASSUME MutexInv, NEW w \in Workers, wpc[w] = "block"
    PROVE  mQueueMutex # None
  BY ConstantTypes DEF MutexInv

\* A worker that has found its predicate false and still holds the mutex has
\* a notification coming when the predicate turns true meanwhile.
LEMMA NextBlockInv ==
    ASSUME TypeOK, MutexInv, WorkerInv, ClientInv, SlotExclusive, FlagInv, BlockInv, [Next]_vars
    PROVE  BlockInv'
<1> USE DEF TypeOK, ClientTypeOK, WorkerTypeOK
<1>1. ASSUME NEW w \in Workers, WorkerStep(w) \/ SpuriousWakeup(w) PROVE BlockInv'
  <2>1. ASSUME wpc'[w] # "block",
               \A v \in Workers \ {w} : wpc'[v] = wpc[v] /\ wwait'[v] = wwait[v]
        PROVE  BlockInv'
    BY <1>1, <2>1, WorkerFrame DEF BlockInv
  <2>2. CASE WorkerCheck(w) /\ ~WaitOver(w)
    <3>1. /\ wpc' = [wpc EXCEPT ![w] = "block"]
          /\ UNCHANGED <<wwait, mFlags>>
      BY <2>2 DEF WorkerCheck, WGoto
    <3>2. /\ ~mStop
          /\ wwait[w] = "outer" => ~(mActiveCount > 0)
          /\ wwait[w] = "sleep" => \A s \in Slots : <<s, w>> \notin mFlags
      BY <2>2 DEF WaitOver, Flagged
    <3> QED BY <1>1, <3>1, <3>2, WorkerFrame DEF BlockInv, PoolTypeOK
  <2>3. CASE WorkerCheck(w) /\ WaitOver(w)
    BY <2>1, <2>3 DEF WorkerCheck, WGoto
  <2>4. CASE \/ WorkerLoop(w) \/ WorkerPoll(w) \/ WorkerScan(w) \/ WorkerRun(w) \/ WorkerClear(w)
             \/ WorkerSpin(w)
    BY <2>1, <2>4 DEF WorkerLoop, WorkerPoll, WorkerScan, WorkerRun, WorkerClear, WorkerSpin, WGoto
  <2>5. CASE \/ WorkerSleep(w) \/ WorkerLock(w) \/ WorkerBlock(w) \/ SpuriousWakeup(w)
             \/ WorkerClearBit(w)
    BY <2>1, <2>5 DEF WorkerSleep, WorkerLock, WorkerBlock, SpuriousWakeup, WorkerClearBit, WGoto
  <2> QED BY <1>1, <2>2, <2>3, <2>4, <2>5 DEF WorkerStep
<1>2. ASSUME NEW r \in Runtimes, ClientCall(r) \/ ClientStep(r) PROVE BlockInv'
  <2> SUFFICES ASSUME NEW w \in Workers, wpc'[w] = "block"
               PROVE  /\ ~mStop'
                      /\ wwait'[w] = "outer" => mActiveCount' <= 0
                      /\ wwait'[w] = "sleep" => \A s \in Slots : <<s, w>> \in mFlags' =>
                           \E q \in Runtimes : /\ mTaskIndex'[q] = s
                                               /\ cpc'[q] \in {"setFlags", "loadMask", "lockNotify"}
    BY DEF BlockInv
  <2>1. wpc[w] = "block" /\ mQueueMutex # None
    BY <1>2, ClientFrame, BlockExcludes DEF NotifyAll
  <2>2. ~mStop' /\ wwait'[w] = wwait[w]
    BY <1>2, <2>1, ClientFrame DEF BlockInv
  <2>3. mActiveCount' <= mActiveCount /\ mActiveCount' \in Int
    BY <1>2, <2>1 DEF PoolTypeOK, ClientCall, AcquireWorkIndex, BeginAgain, UserEnqueue, End,
         ClientStep, Open, Active, OpenNotify, BindSkip, BindActive, BindNotify, RunSerial,
         SetTask, SetFlag, LoadMask, LockNotify, Notify, RunZero, Join, EnqueueReturn,
         BindHolds, ReleaseWorkIndex, Deactive
  <2>4. ASSUME NEW s \in Slots, wwait[w] = "sleep", <<s, w>> \in mFlags'
        PROVE  \E q \in Runtimes : /\ mTaskIndex'[q] = s
                                   /\ cpc'[q] \in {"setFlags", "loadMask", "lockNotify"}
    <3>1. CASE <<s, w>> \in mFlags
      <4>1. PICK q \in Runtimes : mTaskIndex[q] = s /\ cpc[q] \in {"setFlags", "loadMask", "lockNotify"}
        BY <2>1, <2>4, <3>1 DEF BlockInv
      <4>2. CASE q # r
        BY <1>2, <4>1, <4>2, ClientFrame, SMTT(20)
      <4>3. CASE q = r
        <5>1. SetFlag(r) \/ LoadMask(r)
          BY <1>2, <2>1, <4>1, <4>3 DEF ClientCall, AcquireWorkIndex, BeginAgain, UserEnqueue, End,
             ClientStep, Open, OpenNotify, BindSkip, BindActive, BindNotify, RunSerial, SetTask,
             LockNotify, Notify, RunZero, Join, EnqueueReturn, ReleaseWorkIndex, Deactive
        <5>2. CASE SetFlag(r)
          BY <4>1, <4>3, <5>2 DEF SetFlag, CGoto
        <5>3. CASE LoadMask(r)
          <6>1. cpc'[r] = "lockNotify"
            BY <2>4, <3>1, <4>1, <4>3, <5>3, LoadMaskSeesSleeper
          <6>2. mTaskIndex'[r] = s
            BY <4>1, <4>3, <5>3 DEF LoadMask
          <6> QED BY <6>1, <6>2
        <5> QED BY <5>1, <5>2, <5>3
      <4> QED BY <4>2, <4>3
    <3>2. CASE <<s, w>> \notin mFlags
      <4>1. SetFlag(r) /\ next[r] < ThreadsUsed(size[r])
        BY <1>2, <2>4, <3>2 DEF ClientCall, AcquireWorkIndex, BeginAgain, UserEnqueue, End,
           ClientStep, Open, OpenNotify, BindSkip, BindActive, BindNotify, RunSerial, SetTask,
           SetFlag, LoadMask, LockNotify, Notify, RunZero, Join, EnqueueReturn,
           ReleaseWorkIndex, Deactive
      <4>2. s = mTaskIndex[r] /\ mTaskIndex' = mTaskIndex /\ cpc'[r] = "setFlags"
        BY <2>4, <3>2, <4>1 DEF SetFlag
      <4> QED BY <4>2
    <3> QED BY <3>1, <3>2
  <2>5. wwait[w] = "outer" => mActiveCount' <= 0
    BY <2>1, <2>3 DEF BlockInv, PoolTypeOK
  <2> QED BY <2>2, <2>4, <2>5
<1>3. CASE DestroyStop \/ DestroyNotify \/ DestroyJoin \/ UNCHANGED vars
  <2>1. ASSUME NEW w \in Workers, wpc'[w] = "block" PROVE wpc[w] = "block" /\ ~mStop'
    <3>1. wpc[w] = "block"
      BY <1>3, <2>1, DestroyFrame DEF NotifyAll
    <3> QED BY <1>3, <3>1, BlockExcludes DEF BlockInv, DestroyStop, DestroyNotify, DestroyJoin
  <2> QED BY <1>3, <2>1, DestroyFrame DEF BlockInv
<1> QED BY <1>1, <1>2, <1>3 DEF Next, Terminated

\* Blocking keeps NoLostWakeup because of BlockInv, and so does everything
\* that can end a wait: flags, active, deactive, mStop.
LEMMA NextNoLostWakeup ==
    ASSUME TypeOK, MutexInv, WorkerInv, ClientInv, SlotExclusive, FlagInv, BlockInv,
           NoLostWakeup, [Next]_vars
    PROVE  NoLostWakeup'
<1> USE DEF TypeOK, ClientTypeOK, WorkerTypeOK
<1>1. ASSUME NEW w \in Workers, WorkerStep(w) \/ SpuriousWakeup(w) PROVE NoLostWakeup'
  <2>1. ASSUME wpc'[w] # "blocked",
               \A v \in Workers \ {w} : wpc'[v] = wpc[v] /\ wwait'[v] = wwait[v]
        PROVE  NoLostWakeup'
    BY <1>1, <2>1, WorkerFrame DEF NoLostWakeup
  <2>2. CASE WorkerBlock(w)
    <3>1. /\ wpc' = [wpc EXCEPT ![w] = "blocked"] /\ wpc[w] = "block"
          /\ UNCHANGED <<wwait, mFlags, mActiveCount, mStop, dpc, cpc, mTaskIndex>>
      BY <2>2 DEF WorkerBlock, WGoto
    <3>2. ~mStop /\ (wwait[w] = "outer" => ~(mActiveCount > 0))
      BY <3>1 DEF BlockInv, PoolTypeOK
    <3>3. wwait[w] = "sleep" => \A s \in Slots : <<s, w>> \in mFlags =>
            \E r \in Runtimes : mTaskIndex[r] = s /\ cpc[r] \in {"setFlags", "loadMask", "lockNotify", "notify"}
      BY <3>1 DEF BlockInv
    <3> QED BY <3>1, <3>2, <3>3 DEF NoLostWakeup
  <2>3. CASE WorkerCheck(w)
    BY <2>1, <2>3 DEF WorkerCheck, WGoto
  <2>4. CASE \/ WorkerLoop(w) \/ WorkerPoll(w) \/ WorkerScan(w) \/ WorkerRun(w) \/ WorkerClear(w)
             \/ WorkerSpin(w)
    BY <2>1, <2>4 DEF WorkerLoop, WorkerPoll, WorkerScan, WorkerRun, WorkerClear, WorkerSpin, WGoto
  <2>5. CASE WorkerSleep(w) \/ WorkerLock(w) \/ SpuriousWakeup(w) \/ WorkerClearBit(w)
    BY <2>1, <2>5 DEF WorkerSleep, WorkerLock, SpuriousWakeup, WorkerClearBit, WGoto
  <2> QED BY <1>1, <2>2, <2>3, <2>4, <2>5 DEF WorkerStep
<1>2. ASSUME NEW r \in Runtimes, ClientCall(r) \/ ClientStep(r) PROVE NoLostWakeup'
  <2> SUFFICES ASSUME NEW w \in Workers, wpc'[w] = "blocked"
               PROVE  /\ mStop' => dpc' = "notify"
                      /\ (wwait'[w] = "outer" /\ mActiveCount' > 0) =>
                           \E q \in Runtimes : cpc'[q] \in {"openNotify", "bindNotify"}
                      /\ wwait'[w] = "sleep" => \A s \in Slots : <<s, w>> \in mFlags' =>
                           \E q \in Runtimes : /\ mTaskIndex'[q] = s
                                               /\ cpc'[q] \in {"setFlags", "loadMask", "lockNotify", "notify"}
    BY DEF NoLostWakeup
  <2>1. wpc[w] = "blocked" /\ ~NotifyAll
    BY <1>2, ClientFrame DEF NotifyAll
  <2>2. (mStop' => dpc' = "notify") /\ wwait'[w] = wwait[w]
    BY <1>2, <2>1, ClientFrame DEF NoLostWakeup
  <2>3. ASSUME wwait[w] = "outer", mActiveCount' > 0
        PROVE  \E q \in Runtimes : cpc'[q] \in {"openNotify", "bindNotify"}
    <3>1. CASE mActiveCount > 0
      <4>1. PICK q \in Runtimes : cpc[q] \in {"openNotify", "bindNotify"}
        BY <2>1, <2>3, <3>1 DEF NoLostWakeup
      <4>2. q # r
        BY <1>2, <2>1, <4>1 DEF ClientCall, AcquireWorkIndex, BeginAgain, UserEnqueue, End,
           ClientStep, Open, OpenNotify, BindSkip, BindActive, BindNotify, RunSerial, SetTask,
           SetFlag, LoadMask, LockNotify, Notify, RunZero, Join, EnqueueReturn,
           ReleaseWorkIndex, Deactive
      <4> QED BY <1>2, <4>1, <4>2, ClientFrame
    <3>2. CASE ~(mActiveCount > 0)
      <4>1. Open(r) \/ BindActive(r)
        BY <1>2, <2>3, <3>2 DEF PoolTypeOK, ClientCall, AcquireWorkIndex, BeginAgain, UserEnqueue,
           End, ClientStep, OpenNotify, BindSkip, BindNotify, RunSerial, SetTask, SetFlag,
           LoadMask, LockNotify, Notify, RunZero, Join, EnqueueReturn, BindHolds,
           ReleaseWorkIndex, Deactive
      <4>2. cpc'[r] \in {"openNotify", "bindNotify"}
        BY <2>3, <3>2, <4>1 DEF Open, BindActive, Active, CGoto
      <4> QED BY <4>2
    <3> QED BY <3>1, <3>2
  <2>4. ASSUME NEW s \in Slots, wwait[w] = "sleep", <<s, w>> \in mFlags'
        PROVE  \E q \in Runtimes : /\ mTaskIndex'[q] = s
                                   /\ cpc'[q] \in {"setFlags", "loadMask", "lockNotify", "notify"}
    <3>1. CASE <<s, w>> \in mFlags
      <4>1. PICK q \in Runtimes : mTaskIndex[q] = s /\ cpc[q] \in {"setFlags", "loadMask", "lockNotify", "notify"}
        BY <2>1, <2>4, <3>1 DEF NoLostWakeup
      <4>2. CASE q # r
        BY <1>2, <4>1, <4>2, ClientFrame, SMTT(20)
      <4>3. CASE q = r
        <5>1. SetFlag(r) \/ LoadMask(r) \/ LockNotify(r)
          BY <1>2, <2>1, <4>1, <4>3 DEF ClientCall, AcquireWorkIndex, BeginAgain, UserEnqueue, End,
             ClientStep, Open, OpenNotify, BindSkip, BindActive, BindNotify, RunSerial, SetTask,
             Notify, RunZero, Join, EnqueueReturn, ReleaseWorkIndex, Deactive
        <5>2. CASE SetFlag(r) \/ LockNotify(r)
          BY <4>1, <4>3, <5>2 DEF SetFlag, LockNotify, CGoto
        <5>3. CASE LoadMask(r)
          <6>1. cpc'[r] = "lockNotify"
            BY <2>4, <3>1, <4>1, <4>3, <5>3, LoadMaskSeesSleeper
          <6>2. mTaskIndex'[r] = s
            BY <4>1, <4>3, <5>3 DEF LoadMask
          <6> QED BY <6>1, <6>2
        <5> QED BY <5>1, <5>2, <5>3
      <4> QED BY <4>2, <4>3
    <3>2. CASE <<s, w>> \notin mFlags
      <4>1. SetFlag(r) /\ next[r] < ThreadsUsed(size[r])
        BY <1>2, <2>4, <3>2 DEF ClientCall, AcquireWorkIndex, BeginAgain, UserEnqueue, End,
           ClientStep, Open, OpenNotify, BindSkip, BindActive, BindNotify, RunSerial, SetTask,
           SetFlag, LoadMask, LockNotify, Notify, RunZero, Join, EnqueueReturn,
           ReleaseWorkIndex, Deactive
      <4>2. s = mTaskIndex[r] /\ mTaskIndex' = mTaskIndex /\ cpc'[r] = "setFlags"
        BY <2>4, <3>2, <4>1 DEF SetFlag
      <4> QED BY <4>2
    <3> QED BY <3>1, <3>2
  <2> QED BY <2>1, <2>2, <2>3, <2>4
<1>3. CASE DestroyStop
  BY <1>3 DEF DestroyStop, NoLostWakeup, NotifyAll
<1>4. CASE DestroyNotify
  BY <1>4 DEF DestroyNotify, NoLostWakeup, NotifyAll
<1>5. CASE DestroyJoin \/ UNCHANGED vars
  BY <1>5 DEF DestroyJoin, NoLostWakeup
<1> QED BY <1>1, <1>2, <1>3, <1>4, <1>5 DEF Next, Terminated

-----------------------------------------------------------------------------
\* The safety invariant, for any number of runtimes, threads, slots and items.
THEOREM Invariance == Safety => []IInv
<1>1. Init => IInv
  BY InitTypeOK, ThreadsAssumption, ConstantTypes DEF Init, IInv, MutexInv, WorkerInv, ClientInv,
     SlotExclusive, Holders, FlagInv, BlockInv, NoLostWakeup, Published, InCall
<1>2. IInv /\ [Next]_vars => IInv'
  BY NextTypeOK, NextMutexInv, NextWorkerInv, NextClientInv, NextSlotExclusive, NextFlagInv,
     NextBlockInv, NextNoLostWakeup DEF IInv
<1> QED BY <1>1, <1>2, PTL DEF Safety

\* The pool's state stays well typed: flags exist for the pool's own workers
\* only, and a runtime's index is a slot or -1.
THEOREM TypeCorrect == Safety => []TypeOK
<1>1. IInv => TypeOK
  BY DEF IInv
<1> QED BY <1>1, Invariance, PTL

\* acquireWorkIndex and releaseWorkIndex never give a slot to two runtimes and
\* never lose one.
THEOREM SlotsExclusive == Safety => []SlotExclusive
<1>1. IInv => SlotExclusive
  BY DEF IInv
<1> QED BY <1>1, Invariance, PTL

\* enqueueInternal and the idle worker's wait lose no wake-up.
THEOREM WakeupsKept == Safety => []NoLostWakeup
<1>1. IInv => NoLostWakeup
  BY DEF IInv
<1> QED BY <1>1, Invariance, PTL

\* No worker touches a task after the enqueue that published it returned.
THEOREM TasksAlive == Safety => []TaskAlive
<1>1. IInv => TaskAlive
  <2> SUFFICES ASSUME IInv, NEW s \in Slots, NEW w \in Workers,
                      <<s, w>> \in mFlags \/ (wpc[w] \in {"run", "clear"} /\ wslot[w] = s)
               PROVE  \E r \in Runtimes : /\ mTasks[s] = r
                                          /\ mTaskIndex[r] = s
                                          /\ cpc[r] \in Published
                                          /\ w < ThreadsUsed(size[r])
    BY DEF TaskAlive
  <2>1. <<s, w>> \in mFlags
    BY DEF IInv, WorkerInv
  <2>2. PICK r \in Runtimes : OwnsFlag(r, s, w)
    BY <2>1 DEF IInv, FlagInv
  <2>3. mTasks[s] = r
    BY <2>2 DEF IInv, ClientInv, OwnsFlag
  <2> QED BY <2>2, <2>3 DEF OwnsFlag
<1> QED BY <1>1, Invariance, PTL

=============================================================================
