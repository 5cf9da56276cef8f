------------------------ MODULE ThreadPoolExactProofs ------------------------
(***************************************************************************)
(* Further proofs about ThreadPool, on top of the invariant IInv of         *)
(* ThreadPoolProofs: the count of open runtimes is exact, every item of a   *)
(* task runs exactly once, and enqueue implements ParallelFor.              *)
(***************************************************************************)
EXTENDS ThreadPoolProofs, FiniteSetTheorems

\* A runtime with a slot has counted it, except on its way in and out; the
\* extra active() of _bindCPUCore lasts as long as its enqueue.
OpenInv ==
    \A r \in Runtimes :
      /\ mTaskIndex[r] >= 0 /\ cpc[r] \notin {"open", "openNotify", "release", "deactive"}
           => mThreadOpen[r] > 0
      /\ r \in binding => cpc[r] \in InCall \cup {"bindNotify"}

\* The thread that executes item v of a task of n items.
Owner(n, v) == IF n > NumberThread THEN v % NumberThread ELSE v

\* Worker t's flag in r's slot is down or about to go down.
Lowered(r, t) ==
    <<mTaskIndex[r], t>> \in mFlags => wpc[t] = "clear" /\ wslot[t] = mTaskIndex[r]

\* Thread t has executed its share of the task r has published: the caller
\* once it joins, a worker once its flag was raised and lowered again.
DoneBy(r, t) ==
    IF t = 0
      THEN cpc[r] = "join"
      ELSE (cpc[r] = "setFlags" => t < next[r]) /\ Lowered(r, t)

\* How often item v of r's task must have run by now.
Runs(r, v) ==
    IF \/ cpc[r] = "returned" /\ v < size[r]
       \/ cpc[r] \in Published /\ v < size[r] /\ DoneBy(r, Owner(size[r], v))
    THEN 1 ELSE 0

\* Every item has run exactly as often as the progress of its task says.
RanInv == \A r \in Runtimes, v \in Items : ran[r][v] = Runs(r, v)

-----------------------------------------------------------------------------
USE DEF poolVars, workerVars, clientVars, vars

\* The constructor's state satisfies both parts.
LEMMA InitOpenInv == Init => OpenInv /\ ActiveCountExact
<1> SUFFICES ASSUME Init PROVE OpenInv /\ ActiveCountExact
  OBVIOUS
<1>1. OpenInv
  BY DEF Init, OpenInv
<1>2. Opened = {} /\ binding = {} /\ mActiveCount = 0
  BY DEF Init, Opened
<1> QED BY <1>1, <1>2, FS_EmptySet DEF ActiveCountExact

\* Begin counts a slot before it goes on to bind, and End gives the slot back
\* with the last count.
LEMMA NextOpenInv ==
    ASSUME TypeOK, ClientInv, OpenInv, [Next]_vars
    PROVE  OpenInv'
<1> USE ConstantTypes, ThreadsAssumption DEF TypeOK, ClientTypeOK
<1>1. ASSUME NEW w \in Workers, WorkerStep(w) \/ SpuriousWakeup(w) PROVE OpenInv'
  BY <1>1, WorkerFrame DEF OpenInv
<1>2. ASSUME NEW r \in Runtimes, ClientCall(r) PROVE OpenInv'
  <2>1. CASE AcquireWorkIndex(r) \/ BeginAgain(r)
    BY <2>1 DEF OpenInv, AcquireWorkIndex, BeginAgain, CGoto, InCall, Published
  <2>2. CASE UserEnqueue(r)
    BY <2>2 DEF OpenInv, UserEnqueue, Enqueue, CGoto, InCall, Published
  <2>3. CASE End(r)
    BY <2>3 DEF OpenInv, End, OpenLeft, CGoto, InCall, Published
  <2> QED BY <1>2, <2>1, <2>2, <2>3 DEF ClientCall
<1>3. ASSUME NEW r \in Runtimes, ClientStep(r) PROVE OpenInv'
  <2>1. CASE Open(r)
    BY <2>1 DEF OpenInv, Open, FirstOpen, Active, CGoto, InCall, Published
  <2>2. CASE OpenNotify(r)
    BY <2>2 DEF OpenInv, OpenNotify, CGoto, InCall, Published
  <2>3. CASE BindSkip(r) \/ BindActive(r)
    BY <2>3 DEF OpenInv, BindSkip, BindActive, Active, CGoto, InCall, Published
  <2>4. CASE BindNotify(r)
    BY <2>4 DEF OpenInv, BindNotify, Enqueue, CGoto, InCall, Published
  <2>5. CASE RunSerial(r) \/ SetTask(r) \/ SetFlag(r) \/ LoadMask(r) \/ LockNotify(r)
    BY <2>5 DEF OpenInv, RunSerial, SetTask, SetFlag, LoadMask, LockNotify, CGoto, InCall, Published
  <2>6. CASE Notify(r) \/ RunZero(r) \/ Join(r)
    BY <2>6 DEF OpenInv, Notify, RunZero, Join, CGoto, InCall, Published
  <2>7. CASE EnqueueReturn(r)
    BY <2>7 DEF OpenInv, EnqueueReturn, CGoto, InCall, Published
  <2>8. CASE ReleaseWorkIndex(r) \/ Deactive(r)
    BY <2>8 DEF OpenInv, ReleaseWorkIndex, Deactive, CGoto, InCall, Published
  <2> QED BY <1>3, <2>1, <2>2, <2>3, <2>4, <2>5, <2>6, <2>7, <2>8 DEF ClientStep
<1>4. CASE DestroyStop \/ DestroyNotify \/ DestroyJoin \/ UNCHANGED vars
  BY <1>4, DestroyFrame DEF OpenInv
<1> QED BY <1>1, <1>2, <1>3, <1>4 DEF Next, Terminated

\* Opened gains a runtime with active() and loses it with deactive(), and
\* binding does with the pair in _bindCPUCore; nothing else changes either.
LEMMA NextActiveCountExact ==
    ASSUME TypeOK, ClientInv, OpenInv, ActiveCountExact, [Next]_vars
    PROVE  ActiveCountExact'
<1> USE ConstantTypes, ThreadsAssumption DEF TypeOK, PoolTypeOK, ClientTypeOK
<1>0. /\ IsFiniteSet(Opened) /\ IsFiniteSet(binding)
      /\ Cardinality(Opened) \in Nat /\ Cardinality(binding) \in Nat
  <2>1. Opened \in SUBSET Runtimes /\ binding \in SUBSET Runtimes
    BY DEF Opened
  <2>2. IsFiniteSet(Opened) /\ IsFiniteSet(binding)
    BY <2>1, RuntimesAssumption, FS_Subset
  <2> QED BY <2>2, FS_CardinalityType
<1>1. ASSUME mActiveCount' = mActiveCount, binding' = binding, Opened' = Opened
      PROVE  ActiveCountExact'
  BY <1>1 DEF ActiveCountExact
<1>2. ASSUME NEW w \in Workers, WorkerStep(w) \/ SpuriousWakeup(w) PROVE ActiveCountExact'
  BY <1>1, <1>2, WorkerFrame DEF Opened
<1>3. ASSUME NEW r \in Runtimes, ClientCall(r) PROVE ActiveCountExact'
  <2>1. mActiveCount' = mActiveCount /\ binding' = binding
    BY <1>3 DEF ClientCall, AcquireWorkIndex, BeginAgain, UserEnqueue, End
  <2>2. CASE AcquireWorkIndex(r) \/ BeginAgain(r)
    BY <1>1, <2>1, <2>2 DEF Opened, AcquireWorkIndex, BeginAgain, CGoto
  <2>3. CASE UserEnqueue(r)
    BY <1>1, <2>1, <2>3 DEF Opened, UserEnqueue, Enqueue, CGoto
  <2>4. CASE End(r)
    <3>1. CASE mTaskIndex[r] >= 0
      <4>1. /\ mThreadOpen[r] > 0 /\ cpc[r] = "user"
            /\ mThreadOpen' = [mThreadOpen EXCEPT ![r] = mThreadOpen[r] - 1]
            /\ cpc' = [cpc EXCEPT ![r] = IF mThreadOpen[r] - 1 = 0 THEN "release" ELSE "user"]
        BY <2>4, <3>1 DEF End, OpenInv, OpenLeft, CGoto
      <4>2. Opened' = Opened
        BY <4>1 DEF Opened
      <4> QED BY <1>1, <2>1, <4>2
    <3>2. CASE ~(mTaskIndex[r] >= 0)
      BY <1>1, <2>1, <2>4, <3>2 DEF Opened, End
    <3> QED BY <3>1, <3>2
  <2> QED BY <1>3, <2>2, <2>3, <2>4 DEF ClientCall
<1>4. ASSUME NEW r \in Runtimes, ClientStep(r) PROVE ActiveCountExact'
  <2>1. CASE Open(r) /\ FirstOpen(r)
    <3>1. /\ mActiveCount' = mActiveCount + 1 /\ binding' = binding /\ mThreadOpen' = mThreadOpen
          /\ cpc[r] = "open" /\ cpc' = [cpc EXCEPT ![r] = "openNotify"] /\ mThreadOpen[r] = 0
      BY <2>1 DEF Open, FirstOpen, Active, CGoto
    <3>2. Opened' = Opened \cup {r} /\ r \notin Opened
      BY <3>1 DEF Opened
    <3>3. Cardinality(Opened \cup {r}) = Cardinality(Opened) + 1
      BY <1>0, <3>2, FS_AddElement
    <3> QED BY <1>0, <3>1, <3>2, <3>3 DEF ActiveCountExact
  <2>2. CASE Open(r) /\ ~FirstOpen(r)
    BY <1>1, <2>2 DEF Opened, Open, FirstOpen, CGoto
  <2>3. CASE OpenNotify(r)
    BY <1>1, <2>3 DEF Opened, OpenNotify, CGoto
  <2>4. CASE BindSkip(r)
    BY <1>1, <2>4 DEF Opened, BindSkip, CGoto
  <2>5. CASE BindActive(r)
    <3>1. /\ mActiveCount' = mActiveCount + 1 /\ binding' = binding \cup {r} /\ r \notin binding
          /\ mThreadOpen' = mThreadOpen
          /\ cpc[r] = "bind" /\ cpc' = [cpc EXCEPT ![r] = "bindNotify"]
      BY <2>5 DEF BindActive, Active, CGoto, OpenInv, InCall, Published
    <3>2. Opened' = Opened
      BY <3>1 DEF Opened
    <3>3. Cardinality(binding \cup {r}) = Cardinality(binding) + 1
      BY <1>0, <3>1, FS_AddElement
    <3> QED BY <1>0, <3>1, <3>2, <3>3 DEF ActiveCountExact
  <2>6. CASE BindNotify(r)
    BY <1>1, <2>6 DEF Opened, BindNotify, Enqueue, CGoto
  <2>7. CASE RunSerial(r) \/ SetTask(r) \/ SetFlag(r) \/ LoadMask(r) \/ LockNotify(r)
    BY <1>1, <2>7 DEF Opened, RunSerial, SetTask, SetFlag, LoadMask, LockNotify, CGoto
  <2>8. CASE Notify(r) \/ RunZero(r) \/ Join(r) \/ ReleaseWorkIndex(r)
    BY <1>1, <2>8 DEF Opened, Notify, RunZero, Join, ReleaseWorkIndex, CGoto
  <2>9. CASE EnqueueReturn(r)
    <3>1. /\ mActiveCount' = mActiveCount - BindHolds(r) /\ binding' = binding \ {r}
          /\ mThreadOpen' = mThreadOpen
          /\ cpc[r] = "returned" /\ cpc' = [cpc EXCEPT ![r] = "user"]
      BY <2>9 DEF EnqueueReturn, CGoto
    <3>2. Opened' = Opened
      BY <3>1 DEF Opened
    <3>3. Cardinality(binding \ {r}) = Cardinality(binding) - BindHolds(r)
      <4>1. CASE r \in binding
        <5>1. Cardinality(binding \ {r}) = Cardinality(binding) - 1
          BY <1>0, <4>1, FS_RemoveElement
        <5> QED BY <4>1, <5>1 DEF BindHolds
      <4>2. CASE r \notin binding
        <5>1. binding \ {r} = binding
          BY <4>2
        <5>2. BindHolds(r) = 0 /\ Cardinality(binding) - 0 = Cardinality(binding)
          BY <1>0, <4>2 DEF BindHolds
        <5> QED BY <5>1, <5>2
      <4> QED BY <4>1, <4>2
    <3>4. BindHolds(r) \in Nat
      BY DEF BindHolds
    <3> QED BY <1>0, <3>1, <3>2, <3>3, <3>4 DEF ActiveCountExact
  <2>10. CASE Deactive(r)
    <3>1. /\ mActiveCount' = mActiveCount - 1 /\ binding' = binding
          /\ mThreadOpen' = mThreadOpen /\ mThreadOpen[r] = 0
          /\ cpc[r] = "deactive" /\ cpc' = [cpc EXCEPT ![r] = "user"]
      BY <2>10 DEF Deactive, CGoto, ClientInv
    <3>2. Opened' = Opened \ {r} /\ r \in Opened
      BY <3>1 DEF Opened
    <3>3. Cardinality(Opened \ {r}) = Cardinality(Opened) - 1
      BY <1>0, <3>2, FS_RemoveElement
    <3> QED BY <1>0, <3>1, <3>2, <3>3 DEF ActiveCountExact
  <2> QED BY <1>4, <2>1, <2>2, <2>3, <2>4, <2>5, <2>6, <2>7, <2>8, <2>9, <2>10 DEF ClientStep
<1>5. CASE DestroyStop \/ DestroyNotify \/ DestroyJoin \/ UNCHANGED vars
  BY <1>1, <1>5, DestroyFrame DEF Opened
<1> QED BY <1>2, <1>3, <1>4, <1>5 DEF Next, Terminated

\* mActiveCount is the number of open runtimes plus the number of those that
\* are binding cores, whatever Begin, End and _bindCPUCore of any number of
\* runtimes interleave (ActiveCountExact).
THEOREM ActiveCounted == Safety => []ActiveCountExact
<1>1. IInv /\ OpenInv /\ ActiveCountExact /\ [Next]_vars => (OpenInv /\ ActiveCountExact)'
  BY NextOpenInv, NextActiveCountExact DEF IInv
<1> QED BY <1>1, InitOpenInv, Invariance, PTL DEF Safety

-----------------------------------------------------------------------------
(* Each item of a task has one thread, and that thread runs it once.        *)

\* Thread t's share are the items it owns, and every item below n has an owner
\* among the threads the task occupies.
LEMMA Shares ==
    ASSUME NEW n \in Nat, n > 1, NEW v \in Items
    PROVE  /\ \A t \in 0 .. ThreadsUsed(n) - 1 : v \in Share(n, t) <=> v < n /\ Owner(n, v) = t
           /\ v < n => Owner(n, v) \in 0 .. ThreadsUsed(n) - 1
<1>1. v \in Nat /\ NumberThread \in Nat \ {0}
  BY ConstantTypes, ThreadsAssumption
<1>2. CASE n > NumberThread
  <2>1. v % NumberThread \in 0 .. NumberThread - 1
    BY <1>1
  <2> QED BY <1>1, <1>2, <2>1 DEF Share, Owner, ThreadsUsed
<1>3. CASE ~(n > NumberThread)
  BY <1>1, <1>3 DEF Share, Owner, ThreadsUsed
<1> QED BY <1>2, <1>3

\* What RunItems adds.
LEMMA RunItemsAdds ==
    ASSUME ran \in [Runtimes -> [Items -> Nat]], NEW r \in Runtimes, NEW S, RunItems(r, S)
    PROVE  /\ \A q \in Runtimes \ {r}, v \in Items : ran'[q][v] = ran[q][v]
           /\ \A v \in Items : ran'[r][v] = ran[r][v] + (IF v \in S THEN 1 ELSE 0)
  BY DEF RunItems

\* The runtimes that have published a task are in different slots.
LEMMA PublishedApart ==
    ASSUME ClientInv, SlotExclusive, NEW q \in Runtimes, NEW r \in Runtimes,
           cpc[q] \in Published, cpc[r] \in Published, mTaskIndex[q] = mTaskIndex[r]
    PROVE  q = r
  BY Holding DEF SlotExclusive

\* A worker that runs or clears works for the runtime its slot points to.
LEMMA WorksFor ==
    ASSUME TypeOK, WorkerInv, ClientInv, FlagInv, NEW w \in Workers, wpc[w] \in {"run", "clear"}
    PROVE  \E r \in Runtimes :
             /\ mTasks[wslot[w]] = r /\ mTaskIndex[r] = wslot[w] /\ cpc[r] \in Published
             /\ w \in 1 .. ThreadsUsed(size[r]) - 1
             /\ cpc[r] = "setFlags" => w < next[r]
             /\ <<mTaskIndex[r], w>> \in mFlags /\ size[r] \in Nat /\ size[r] > 1
<1>1. wslot[w] \in Slots /\ <<wslot[w], w>> \in mFlags
  BY DEF WorkerInv
<1>2. PICK r \in Runtimes : OwnsFlag(r, wslot[w], w)
  BY <1>1 DEF FlagInv
<1>3. size[r] \in Nat /\ ThreadsUsed(size[r]) \in Nat /\ w \in Nat \ {0}
  BY ConstantTypes, ThreadsAssumption DEF TypeOK, ClientTypeOK, ThreadsUsed
<1> QED BY <1>1, <1>2, <1>3 DEF OwnsFlag, ClientInv

\* Runs for a published task, by the thread that owns the item.
LEMMA PublishedRuns ==
    ASSUME TypeOK, ClientInv, NEW q \in Runtimes, cpc[q] \in Published, NEW v \in Items
    PROVE  /\ v < size[q] => Owner(size[q], v) \in 0 .. ThreadsUsed(size[q]) - 1
           /\ 0 .. ThreadsUsed(size[q]) - 1 \subseteq Workers \cup {0}
           /\ \A t \in 0 .. ThreadsUsed(size[q]) - 1 :
                /\ v \in Share(size[q], t) <=> v < size[q] /\ Owner(size[q], v) = t
                /\ v \in Share(size[q], t) => Runs(q, v) = IF DoneBy(q, t) THEN 1 ELSE 0
           /\ ~(v < size[q]) => Runs(q, v) = 0
<1>1. size[q] \in Nat /\ size[q] > 1
  BY DEF TypeOK, ClientTypeOK, ClientInv
<1>2. cpc[q] # "returned"
  BY DEF Published
<1>3. 0 .. ThreadsUsed(size[q]) - 1 \subseteq Workers \cup {0}
  BY <1>1, ThreadsAssumption DEF ThreadsUsed, Workers
<1> QED BY <1>1, <1>2, <1>3, Shares DEF Runs

\* The same after a step that leaves the task's size alone.
LEMMA RunsNext ==
    ASSUME NEW q \in Runtimes, cpc'[q] \in Published, size'[q] = size[q], NEW v \in Items
    PROVE  /\ \A t : v < size[q] /\ Owner(size[q], v) = t => Runs(q, v)' = IF DoneBy(q, t)' THEN 1 ELSE 0
           /\ ~(v < size[q]) => Runs(q, v)' = 0
<1>1. cpc'[q] # "returned"
  BY DEF Published
<1>2. ASSUME NEW t, v < size[q], Owner(size[q], v) = t
      PROVE  Runs(q, v)' = IF DoneBy(q, t)' THEN 1 ELSE 0
  <2>1. t = Owner(size'[q], v)
    BY <1>2
  <2> QED BY <1>1, <1>2, <2>1 DEF Runs, DoneBy, Lowered
<1> QED BY <1>1, <1>2 DEF Runs

\* An item whose thread has got no further has not run again.
LEMMA ItemAlone ==
    ASSUME TypeOK, ClientInv, NEW q \in Runtimes, cpc[q] \in Published, cpc'[q] \in Published,
           size'[q] = size[q], NEW v \in Items,
           \A t \in 0 .. ThreadsUsed(size[q]) - 1 :
              Owner(size[q], v) = t => (DoneBy(q, t)' <=> DoneBy(q, t))
    PROVE  Runs(q, v)' = Runs(q, v)
<1>1. CASE v < size[q]
  <2>1. PICK t \in 0 .. ThreadsUsed(size[q]) - 1 : Owner(size[q], v) = t
    BY <1>1, PublishedRuns
  <2>2. Runs(q, v) = IF DoneBy(q, t) THEN 1 ELSE 0
    BY <1>1, <2>1, PublishedRuns
  <2>3. Runs(q, v)' = IF DoneBy(q, t)' THEN 1 ELSE 0
    BY <1>1, <2>1, RunsNext
  <2> QED BY <2>1, <2>2, <2>3
<1>2. CASE ~(v < size[q])
  BY <1>2, PublishedRuns, RunsNext
<1> QED BY <1>1, <1>2

\* A runtime that a step leaves alone, with the flags of its slot, keeps RanInv.
LEMMA RuntimeAlone ==
    ASSUME TypeOK, ClientInv, RanInv, NEW q \in Runtimes,
           cpc'[q] = cpc[q], size'[q] = size[q], next'[q] = next[q], mTaskIndex'[q] = mTaskIndex[q],
           \A v \in Items : ran'[q][v] = ran[q][v],
           cpc[q] \in Published => \A t \in Workers : Lowered(q, t)' <=> Lowered(q, t)
    PROVE  \A v \in Items : ran'[q][v] = Runs(q, v)'
<1> SUFFICES ASSUME NEW v \in Items PROVE Runs(q, v)' = Runs(q, v)
  BY DEF RanInv
<1>1. CASE cpc[q] \in Published
  <2>1. \A t \in Workers \cup {0} : DoneBy(q, t)' <=> DoneBy(q, t)
    BY <1>1 DEF DoneBy
  <2>2. 0 .. ThreadsUsed(size[q]) - 1 \subseteq Workers \cup {0}
    BY <1>1, PublishedRuns
  <2> QED BY <1>1, <2>1, <2>2, ItemAlone
<1>2. CASE cpc[q] \notin Published
  BY <1>2 DEF Runs
<1> QED BY <1>1, <1>2

\* A worker executes a share of a task that is still published, and none of
\* its items has run.
LEMMA WorkerRunsFresh ==
    ASSUME IInv, RanInv, NEW w \in Workers, WorkerRun(w)
    PROVE  \E r \in Runtimes :
             /\ RunItems(r, Share(size[r], w)) /\ cpc[r] \in Published
             /\ w \in 1 .. ThreadsUsed(size[r]) - 1 /\ mTaskIndex[r] = wslot[w]
             /\ cpc[r] = "setFlags" => w < next[r]
             /\ <<mTaskIndex[r], w>> \in mFlags
             /\ \A v \in Items : v \in Share(size[r], w) => v < size[r] /\ ran[r][v] = 0
<1>1. TypeOK /\ WorkerInv /\ ClientInv /\ FlagInv /\ wpc[w] = "run"
  BY DEF IInv, WorkerRun
<1>2. PICK r \in Runtimes :
             /\ mTasks[wslot[w]] = r /\ mTaskIndex[r] = wslot[w] /\ cpc[r] \in Published
             /\ w \in 1 .. ThreadsUsed(size[r]) - 1
             /\ cpc[r] = "setFlags" => w < next[r]
             /\ <<mTaskIndex[r], w>> \in mFlags /\ size[r] \in Nat /\ size[r] > 1
  BY <1>1, WorksFor
<1>3. RunItems(r, Share(size[r], w))
  BY <1>2 DEF WorkerRun
<1>4. ~DoneBy(r, w)
  BY <1>1, <1>2, ConstantTypes DEF DoneBy, Lowered
<1>5. w \in 0 .. ThreadsUsed(size[r]) - 1
  BY <1>2
<1>6. \A v \in Items : v \in Share(size[r], w) => v < size[r] /\ ran[r][v] = 0
  BY <1>1, <1>2, <1>4, <1>5, PublishedRuns DEF RanInv
<1> QED BY <1>2, <1>3, <1>6

\* A worker that executes its share: those items have run once now, and no others.
LEMMA WorkerRunRan ==
    ASSUME IInv, RanInv, NEW w \in Workers, WorkerRun(w)
    PROVE  RanInv'
<1>1. TypeOK /\ WorkerInv /\ ClientInv /\ FlagInv /\ SlotExclusive
  BY DEF IInv
<1>2. PICK r \in Runtimes :
             /\ RunItems(r, Share(size[r], w)) /\ cpc[r] \in Published
             /\ w \in 1 .. ThreadsUsed(size[r]) - 1 /\ mTaskIndex[r] = wslot[w]
             /\ cpc[r] = "setFlags" => w < next[r]
             /\ <<mTaskIndex[r], w>> \in mFlags
             /\ \A v \in Items : v \in Share(size[r], w) => v < size[r] /\ ran[r][v] = 0
  BY WorkerRunsFresh
<1>3. /\ wpc[w] = "run" /\ wpc' = [wpc EXCEPT ![w] = "clear"]
      /\ UNCHANGED <<mFlags, wslot, cpc, mTaskIndex, size, next>>
  BY DEF WorkerRun, WGoto
<1>4. wpc \in [Workers -> {"loop", "poll", "scan", "run", "clear", "lock", "check",
                            "block", "blocked", "clearBit", "done"}]
  BY <1>1 DEF TypeOK, WorkerTypeOK
<1>5. /\ \A q \in Runtimes \ {r}, v \in Items : ran'[q][v] = ran[q][v]
      /\ \A v \in Items : ran'[r][v] = ran[r][v] + (IF v \in Share(size[r], w) THEN 1 ELSE 0)
  BY <1>1, <1>2, RunItemsAdds DEF TypeOK, ClientTypeOK
<1>6. ASSUME NEW q \in Runtimes \ {r} PROVE \A v \in Items : ran'[q][v] = Runs(q, v)'
  <2>1. ASSUME cpc[q] \in Published, NEW t \in Workers PROVE Lowered(q, t)' <=> Lowered(q, t)
    <3>1. mTaskIndex[q] # wslot[w]
      BY <1>1, <1>2, <1>6, <2>1, PublishedApart
    <3> QED BY <1>3, <1>4, <3>1 DEF Lowered
  <2> QED BY <1>1, <1>3, <1>5, <2>1, RuntimeAlone
<1>7. ASSUME NEW v \in Items, v \in Share(size[r], w) PROVE ran'[r][v] = Runs(r, v)'
  <2>1. w \in 0 .. ThreadsUsed(size[r]) - 1 /\ w # 0
    BY <1>2
  <2>2. Owner(size[r], v) = w /\ v < size[r]
    BY <1>1, <1>2, <1>7, <2>1, PublishedRuns
  <2>3. DoneBy(r, w)'
    BY <1>2, <1>3, <1>4, <2>1 DEF DoneBy, Lowered
  <2>4. Runs(r, v)' = 1
    BY <1>2, <1>3, <2>2, <2>3, RunsNext
  <2> QED BY <1>2, <1>5, <1>7, <2>4
<1>8. ASSUME NEW v \in Items, v \notin Share(size[r], w) PROVE ran'[r][v] = Runs(r, v)'
  <2>1. ASSUME NEW t \in 0 .. ThreadsUsed(size[r]) - 1, Owner(size[r], v) = t, v < size[r]
        PROVE  DoneBy(r, t)' <=> DoneBy(r, t)
    <3>1. t # w
      BY <1>1, <1>2, <1>8, <2>1, PublishedRuns
    <3>2. t \in Workers \cup {0}
      BY <1>1, <1>2, PublishedRuns
    <3> QED BY <1>3, <1>4, <3>1, <3>2 DEF DoneBy, Lowered
  <2>2. Runs(r, v)' = Runs(r, v)
    <3>1. CASE v < size[r]
      BY <1>1, <1>2, <1>3, <2>1, <3>1, ItemAlone
    <3>2. CASE ~(v < size[r])
      BY <1>1, <1>2, <1>3, <3>2, PublishedRuns, RunsNext
    <3> QED BY <3>1, <3>2
  <2>3. ran'[r][v] = ran[r][v]
    BY <1>1, <1>5, <1>8 DEF TypeOK, ClientTypeOK
  <2> QED BY <2>2, <2>3 DEF RanInv
<1> QED BY <1>6, <1>7, <1>8 DEF RanInv

\* A worker that lowers its flag has run its share before; its other steps
\* touch neither flags nor tasks.
LEMMA WorkerOtherRan ==
    ASSUME IInv, RanInv, NEW w \in Workers, WorkerStep(w) \/ SpuriousWakeup(w), ~WorkerRun(w)
    PROVE  RanInv'
<1>1. TypeOK /\ WorkerInv /\ ClientInv /\ FlagInv /\ SlotExclusive
  BY DEF IInv
<1>2. UNCHANGED <<cpc, mTaskIndex, size, next, ran>>
  BY DEF WorkerStep, WorkerLoop, WorkerPoll, WorkerScan, WorkerClear, WorkerSpin, WorkerSleep,
         WorkerLock, WorkerCheck, WorkerBlock, SpuriousWakeup, WorkerClearBit
<1>3. ASSUME NEW q \in Runtimes, cpc[q] \in Published, NEW t \in Workers
      PROVE  Lowered(q, t)' <=> Lowered(q, t)
  <2> USE DEF TypeOK, WorkerTypeOK
  <2>1. CASE WorkerClear(w)
    <3>1. /\ wpc[w] = "clear" /\ wpc' = [wpc EXCEPT ![w] = "scan"]
          /\ mFlags' = mFlags \ {<<wslot[w], w>>} /\ wslot' = [wslot EXCEPT ![w] = @ + 1]
      BY <2>1 DEF WorkerClear, WGoto
    <3>2. CASE t # w
      BY <1>1, <1>2, <3>1, <3>2 DEF Lowered
    <3>3. CASE t = w /\ mTaskIndex[q] = wslot[w]
      BY <1>1, <1>2, <3>1, <3>3 DEF Lowered
    <3>4. CASE t = w /\ mTaskIndex[q] # wslot[w]
      BY <1>1, <1>2, <3>1, <3>4 DEF Lowered
    <3> QED BY <3>2, <3>3, <3>4
  <2>2. CASE WorkerScan(w) \/ WorkerSpin(w) \/ WorkerSleep(w)
    BY <1>1, <1>2, <2>2 DEF Lowered, WorkerScan, WorkerSpin, WorkerSleep, WGoto
  <2>3. CASE \/ WorkerLoop(w) \/ WorkerPoll(w) \/ WorkerLock(w) \/ WorkerCheck(w) \/ WorkerBlock(w)
             \/ SpuriousWakeup(w) \/ WorkerClearBit(w)
    BY <1>1, <1>2, <2>3 DEF Lowered, WorkerLoop, WorkerPoll, WorkerLock, WorkerCheck, WorkerBlock,
                            SpuriousWakeup, WorkerClearBit, WGoto
  <2> QED BY <2>1, <2>2, <2>3 DEF WorkerStep
<1>4. ASSUME NEW q \in Runtimes PROVE \A v \in Items : ran'[q][v] = Runs(q, v)'
  BY <1>1, <1>2, <1>3, RuntimeAlone
<1> QED BY <1>4 DEF RanInv

\* A runtime's thread does no item of another runtime's task.
LEMMA ClientOthersRan ==
    ASSUME IInv, RanInv, NEW r \in Runtimes, ClientCall(r) \/ ClientStep(r),
           NEW q \in Runtimes \ {r}
    PROVE  \A v \in Items : ran'[q][v] = Runs(q, v)'
<1>1. TypeOK /\ ClientInv /\ SlotExclusive
  BY DEF IInv
<1>2. /\ cpc'[q] = cpc[q] /\ mTaskIndex'[q] = mTaskIndex[q] /\ size'[q] = size[q] /\ next'[q] = next[q]
      /\ wslot' = wslot /\ (wpc' = wpc \/ NotifyAll)
  BY <1>1, ClientFrame
<1>3. \A v \in Items : ran'[q][v] = ran[q][v]
  <2> USE <1>1 DEF TypeOK, ClientTypeOK
  <2>1. CASE RunZero(r)
    <3>1. mTasks[mTaskIndex[r]] = r
      BY <2>1 DEF RunZero, ClientInv, Published
    <3> QED BY <2>1, <3>1, RunItemsAdds DEF RunZero
  <2>2. CASE RunSerial(r)
    BY <2>2, RunItemsAdds DEF RunSerial
  <2>3. CASE EnqueueReturn(r)
    BY <2>3 DEF EnqueueReturn
  <2>4. CASE ClientCall(r)
    BY <2>4 DEF ClientCall, AcquireWorkIndex, BeginAgain, UserEnqueue, End
  <2>5. CASE \/ Open(r) \/ OpenNotify(r) \/ BindSkip(r) \/ BindActive(r) \/ BindNotify(r) \/ SetTask(r)
             \/ SetFlag(r) \/ LoadMask(r) \/ LockNotify(r) \/ Notify(r) \/ Join(r)
             \/ ReleaseWorkIndex(r) \/ Deactive(r)
    BY <2>5 DEF Open, OpenNotify, BindSkip, BindActive, BindNotify, SetTask, SetFlag, LoadMask,
         LockNotify, Notify, Join, ReleaseWorkIndex, Deactive
  <2> QED BY <2>1, <2>2, <2>3, <2>4, <2>5 DEF ClientStep
<1>4. ASSUME cpc[q] \in Published, NEW t \in Workers PROVE Lowered(q, t)' <=> Lowered(q, t)
  <2>1. <<mTaskIndex[q], t>> \in mFlags' <=> <<mTaskIndex[q], t>> \in mFlags
    <3>1. CASE SetFlag(r)
      <4>1. cpc[r] \in Published /\ mFlags' \subseteq mFlags \cup {<<mTaskIndex[r], next[r]>>}
                                 /\ mFlags \subseteq mFlags'
        BY <3>1 DEF SetFlag, Published
      <4>2. mTaskIndex[q] # mTaskIndex[r]
        BY <1>1, <1>4, <4>1, PublishedApart
      <4> QED BY <4>1, <4>2
    <3>2. CASE ~SetFlag(r)
      BY <3>2 DEF ClientCall, AcquireWorkIndex, BeginAgain, UserEnqueue, End,
         ClientStep, Open, OpenNotify, BindSkip, BindActive, BindNotify, RunSerial, SetTask,
         LoadMask, LockNotify, Notify, RunZero, Join, EnqueueReturn, ReleaseWorkIndex, Deactive
    <3> QED BY <3>1, <3>2
  <2>2. wpc'[t] = "clear" <=> wpc[t] = "clear"
    BY <1>2 DEF NotifyAll
  <2> QED BY <1>2, <2>1, <2>2 DEF Lowered
<1> QED BY <1>1, <1>2, <1>3, <1>4, RuntimeAlone

\* A caller executes the items of its own task only, and none that has run.
LEMMA ClientRunsFresh ==
    ASSUME IInv, RanInv, NEW r \in Runtimes
    PROVE  /\ RunSerial(r) => /\ RunItems(r, {v \in Items : v < size[r]}) /\ cpc[r] = "serial"
                              /\ \A v \in Items : ran[r][v] = 0
           /\ RunZero(r) => /\ RunItems(r, Share(size[r], 0)) /\ cpc[r] = "runZero"
                            /\ \A v \in Items : v \in Share(size[r], 0) => v < size[r] /\ ran[r][v] = 0
<1>1. TypeOK /\ ClientInv
  BY DEF IInv
<1>2. ASSUME RunSerial(r)
      PROVE  /\ RunItems(r, {v \in Items : v < size[r]}) /\ cpc[r] = "serial"
             /\ \A v \in Items : ran[r][v] = 0
  BY <1>2 DEF RunSerial, RanInv, Runs, Published
<1>3. ASSUME RunZero(r)
      PROVE  /\ RunItems(r, Share(size[r], 0)) /\ cpc[r] = "runZero"
             /\ \A v \in Items : v \in Share(size[r], 0) => v < size[r] /\ ran[r][v] = 0
  <2>1. cpc[r] = "runZero" /\ cpc[r] \in Published /\ size[r] \in Nat /\ size[r] > 1
    BY <1>1, <1>3 DEF RunZero, Published, ClientInv, TypeOK, ClientTypeOK
  <2>2. mTasks[mTaskIndex[r]] = r
    BY <1>1, <2>1 DEF ClientInv
  <2>3. ~DoneBy(r, 0) /\ 0 \in 0 .. ThreadsUsed(size[r]) - 1
    BY <2>1, ThreadsAssumption DEF DoneBy, ThreadsUsed
  <2>4. \A v \in Items : v \in Share(size[r], 0) => v < size[r] /\ ran[r][v] = 0
    BY <1>1, <2>1, <2>3, PublishedRuns DEF RanInv
  <2> QED BY <1>3, <2>1, <2>2, <2>4 DEF RunZero
<1> QED BY <1>2, <1>3

\* Outside the dispatch of a task nothing of it has run.
LEMMA OutsideRan ==
    ASSUME RanInv, NEW r \in Runtimes, cpc[r] \notin Published \cup {"returned"},
           cpc'[r] \notin Published \cup {"returned"}, ran' = ran
    PROVE  \A v \in Items : ran'[r][v] = Runs(r, v)'
  BY DEF RanInv, Runs

\* Between the last flag and the join, the dispatcher's own steps do no item.
LEMMA DispatchRan ==
    ASSUME TypeOK, ClientInv, RanInv, NEW r \in Runtimes, UNCHANGED <<mTaskIndex, mFlags, wslot, size, ran>>,
           cpc[r] \in Published \ {"join"}, cpc'[r] \in Published \ {"join", "setFlags"},
           cpc[r] = "setFlags" => ~(next[r] < ThreadsUsed(size[r])),
           wpc' = wpc \/ NotifyAll
    PROVE  \A v \in Items : ran'[r][v] = Runs(r, v)'
<1> SUFFICES ASSUME NEW v \in Items PROVE Runs(r, v)' = Runs(r, v)
  BY DEF RanInv
<1>1. ASSUME NEW t \in 0 .. ThreadsUsed(size[r]) - 1 PROVE DoneBy(r, t)' <=> DoneBy(r, t)
  <2>1. t \in Workers \cup {0} /\ t < ThreadsUsed(size[r]) /\ ThreadsUsed(size[r]) \in Nat /\ next[r] \in Nat
    <3>1. ThreadsUsed(size[r]) \in Nat /\ next[r] \in Nat
      BY ThreadsAssumption DEF TypeOK, ClientTypeOK, ThreadsUsed
    <3> QED BY <3>1, PublishedRuns
  <2>2. CASE t = 0
    BY <2>2 DEF DoneBy
  <2>3. CASE t \in Workers /\ t # 0
    <3>1. wpc'[t] = "clear" <=> wpc[t] = "clear"
      BY <2>3 DEF NotifyAll
    <3>2. Lowered(r, t)' <=> Lowered(r, t)
      BY <3>1 DEF Lowered
    <3>3. cpc[r] = "setFlags" => t < next[r]
      BY <2>1
    <3> QED BY <2>3, <3>2, <3>3 DEF DoneBy
  <2> QED BY <2>1, <2>2, <2>3
<1> QED BY <1>1, ItemAlone

\* The loop that raises the flags: the flag of a worker that is just being
\* flagged was down, so the worker is not past its share yet.
LEMMA SetFlagRan ==
    ASSUME IInv, RanInv, NEW r \in Runtimes, SetFlag(r), next[r] < ThreadsUsed(size[r])
    PROVE  \A v \in Items : ran'[r][v] = Runs(r, v)'
<1>1. TypeOK /\ ClientInv /\ SlotExclusive /\ FlagInv /\ WorkerInv
  BY DEF IInv
<1>2. /\ cpc[r] = "setFlags" /\ cpc' = cpc /\ cpc[r] \in Published
      /\ mFlags' = mFlags \cup {<<mTaskIndex[r], next[r]>>}
      /\ next' = [next EXCEPT ![r] = next[r] + 1]
      /\ UNCHANGED <<mTaskIndex, size, ran, wpc, wslot>>
  BY DEF SetFlag, Published
<1>3. next[r] \in Nat /\ next'[r] = next[r] + 1 /\ mTaskIndex[r] \in Slots
  BY <1>1, <1>2 DEF TypeOK, ClientTypeOK, ClientInv
<1> SUFFICES ASSUME NEW v \in Items PROVE Runs(r, v)' = Runs(r, v)
  BY <1>2 DEF RanInv
<1>4. ASSUME NEW t \in 0 .. ThreadsUsed(size[r]) - 1 PROVE DoneBy(r, t)' <=> DoneBy(r, t)
  <2>1. t \in Workers \cup {0} /\ t \in Nat
    BY <1>1, <1>2, PublishedRuns, ConstantTypes
  <2>2. CASE t = 0
    BY <1>2, <2>2 DEF DoneBy
  <2>3. CASE t # 0 /\ t # next[r]
    <3>1. t < next'[r] <=> t < next[r]
      BY <1>3, <2>1, <2>3
    <3>2. Lowered(r, t)' <=> Lowered(r, t)
      BY <1>2, <2>3 DEF Lowered
    <3> QED BY <1>2, <2>3, <3>1, <3>2 DEF DoneBy
  <2>4. CASE t # 0 /\ t = next[r]
    <3>1. ~DoneBy(r, t)
      BY <1>2, <1>3, <2>4 DEF DoneBy
    <3>2. ~(wpc[t] = "clear" /\ wslot[t] = mTaskIndex[r])
      <4> SUFFICES ASSUME wpc[t] = "clear", wslot[t] = mTaskIndex[r] PROVE FALSE
        OBVIOUS
      <4>1. t \in Workers /\ <<mTaskIndex[r], t>> \in mFlags
        BY <1>1, <2>1, <2>4 DEF WorkerInv
      <4>2. PICK q \in Runtimes : OwnsFlag(q, mTaskIndex[r], t)
        BY <1>1, <1>3, <4>1 DEF FlagInv
      <4>3. q = r
        BY <1>1, <1>2, <4>2, PublishedApart DEF OwnsFlag
      <4> QED BY <1>2, <1>3, <2>4, <4>2, <4>3 DEF OwnsFlag
    <3>3. ~Lowered(r, t)'
      BY <1>2, <2>4, <3>2 DEF Lowered
    <3> QED BY <2>4, <3>1, <3>3 DEF DoneBy
  <2> QED BY <2>2, <2>3, <2>4
<1> QED BY <1>1, <1>2, <1>4, ItemAlone

\* The join: every flag of the task is down, so every share has been executed.
LEMMA JoinRan ==
    ASSUME IInv, RanInv, NEW r \in Runtimes, Join(r)
    PROVE  \A v \in Items : ran'[r][v] = Runs(r, v)'
<1>1. TypeOK /\ ClientInv
  BY DEF IInv
<1>2. /\ cpc[r] = "join" /\ cpc[r] \in Published /\ cpc'[r] = "returned" /\ UNCHANGED <<size, ran>>
      /\ \A w \in 1 .. ThreadsUsed(size[r]) - 1 : <<mTaskIndex[r], w>> \notin mFlags
  BY <1>1 DEF Join, CGoto, Published, TypeOK, ClientTypeOK
<1> SUFFICES ASSUME NEW v \in Items PROVE Runs(r, v)' = Runs(r, v)
  BY <1>2 DEF RanInv
<1>3. \A t \in 0 .. ThreadsUsed(size[r]) - 1 : DoneBy(r, t)
  BY <1>2 DEF DoneBy, Lowered
<1>4. Runs(r, v) = IF v < size[r] THEN 1 ELSE 0
  BY <1>1, <1>2, <1>3, PublishedRuns
<1>5. Runs(r, v)' = IF v < size[r] THEN 1 ELSE 0
  BY <1>2 DEF Runs, Published
<1> QED BY <1>4, <1>5

\* The caller's own share.
LEMMA RunZeroRan ==
    ASSUME IInv, RanInv, NEW r \in Runtimes, RunZero(r)
    PROVE  \A v \in Items : ran'[r][v] = Runs(r, v)'
<1>1. TypeOK /\ ClientInv
  BY DEF IInv
<1>2. /\ RunItems(r, Share(size[r], 0)) /\ cpc[r] = "runZero" /\ cpc[r] \in Published
      /\ \A v \in Items : v \in Share(size[r], 0) => v < size[r] /\ ran[r][v] = 0
  BY ClientRunsFresh DEF Published
<1>3. /\ cpc'[r] = "join" /\ cpc'[r] \in Published
      /\ UNCHANGED <<mFlags, wpc, wslot, mTaskIndex, size, next>>
  BY <1>1 DEF RunZero, CGoto, Published, TypeOK, ClientTypeOK
<1>4. \A v \in Items : ran'[r][v] = ran[r][v] + (IF v \in Share(size[r], 0) THEN 1 ELSE 0)
  BY <1>1, <1>2, RunItemsAdds DEF TypeOK, ClientTypeOK
<1>5. 0 \in 0 .. ThreadsUsed(size[r]) - 1
  BY <1>1, <1>2, ThreadsAssumption DEF ThreadsUsed, TypeOK, ClientTypeOK, ClientInv
<1>6. ASSUME NEW v \in Items, v \in Share(size[r], 0) PROVE ran'[r][v] = Runs(r, v)'
  <2>1. Owner(size[r], v) = 0 /\ v < size[r]
    BY <1>1, <1>2, <1>5, <1>6, PublishedRuns
  <2>2. DoneBy(r, 0)'
    BY <1>3 DEF DoneBy
  <2>3. Runs(r, v)' = 1
    BY <1>3, <2>1, <2>2, RunsNext
  <2> QED BY <1>2, <1>4, <1>6, <2>3
<1>7. ASSUME NEW v \in Items, v \notin Share(size[r], 0) PROVE ran'[r][v] = Runs(r, v)'
  <2>1. ASSUME NEW t \in 0 .. ThreadsUsed(size[r]) - 1, Owner(size[r], v) = t, v < size[r]
        PROVE  DoneBy(r, t)' <=> DoneBy(r, t)
    <3>1. t # 0
      BY <1>1, <1>2, <1>5, <1>7, <2>1, PublishedRuns
    <3> QED BY <1>2, <1>3, <3>1 DEF DoneBy, Lowered
  <2>2. Runs(r, v)' = Runs(r, v)
    <3>1. CASE v < size[r]
      BY <1>1, <1>2, <1>3, <2>1, <3>1, ItemAlone
    <3>2. CASE ~(v < size[r])
      BY <1>1, <1>2, <1>3, <3>2, PublishedRuns, RunsNext
    <3> QED BY <3>1, <3>2
  <2>3. ran'[r][v] = ran[r][v]
    BY <1>1, <1>4, <1>7 DEF TypeOK, ClientTypeOK
  <2> QED BY <2>2, <2>3 DEF RanInv
<1> QED BY <1>6, <1>7

\* The steps of a runtime's thread count its own items right.
LEMMA ClientOwnRan ==
    ASSUME IInv, RanInv, NEW r \in Runtimes, ClientCall(r) \/ ClientStep(r)
    PROVE  \A v \in Items : ran'[r][v] = Runs(r, v)'
<1>1. TypeOK /\ ClientInv
  BY DEF IInv
<1>2. CASE ClientCall(r)
  <2>1. /\ cpc[r] = "user" /\ cpc'[r] \notin Published \cup {"returned"} /\ ran' = ran
    BY <1>1, <1>2 DEF TypeOK, ClientTypeOK, ClientCall, AcquireWorkIndex, BeginAgain, UserEnqueue, End,
         Enqueue, CGoto, Published
  <2> QED BY <2>1, OutsideRan DEF Published
<1>3. CASE Open(r) \/ OpenNotify(r) \/ BindSkip(r) \/ BindActive(r) \/ BindNotify(r)
  <2>1. /\ cpc[r] \in {"open", "openNotify", "bind", "bindNotify"}
        /\ cpc'[r] \notin Published \cup {"returned"} /\ ran' = ran
    BY <1>1, <1>3 DEF TypeOK, ClientTypeOK, Open, OpenNotify, BindSkip, BindActive, BindNotify,
         Active, Enqueue, CGoto, Published
  <2> QED BY <2>1, OutsideRan DEF Published
<1>4. CASE ReleaseWorkIndex(r) \/ Deactive(r)
  <2>1. /\ cpc[r] \in {"release", "deactive"}
        /\ cpc'[r] \notin Published \cup {"returned"} /\ ran' = ran
    BY <1>1, <1>4 DEF TypeOK, ClientTypeOK, ReleaseWorkIndex, Deactive, CGoto, Published
  <2> QED BY <2>1, OutsideRan DEF Published
<1>5. CASE RunSerial(r)
  <2>1. /\ RunItems(r, {v \in Items : v < size[r]}) /\ \A v \in Items : ran[r][v] = 0
    BY <1>5, ClientRunsFresh
  <2>2. cpc'[r] = "returned" /\ size' = size
    BY <1>1, <1>5 DEF TypeOK, ClientTypeOK, RunSerial, CGoto
  <2>3. \A v \in Items : ran'[r][v] = IF v < size[r] THEN 1 ELSE 0
    BY <1>1, <2>1, RunItemsAdds DEF TypeOK, ClientTypeOK
  <2> QED BY <2>2, <2>3 DEF Runs, Published
<1>6. CASE SetTask(r)
  <2>1. cpc[r] = "dispatch" /\ cpc'[r] \in {"serial", "setFlags"} /\ ran' = ran /\ size' = size
        /\ (cpc'[r] = "setFlags" => next'[r] = 1)
    BY <1>1, <1>6 DEF TypeOK, ClientTypeOK, SetTask, CGoto
  <2>2. CASE cpc'[r] = "serial"
    BY <2>1, <2>2, OutsideRan DEF Published
  <2>3. CASE cpc'[r] = "setFlags"
    <3>1. \A t \in Nat : ~DoneBy(r, t)'
      BY <2>1, <2>3 DEF DoneBy
    <3>2. size[r] \in Nat /\ size[r] > 1
      BY <1>1, <2>1 DEF TypeOK, ClientTypeOK, ClientInv
    <3>3. ASSUME NEW v \in Items PROVE Runs(r, v)' = 0
      <4>1. CASE v < size[r]
        <5>1. PICK t \in 0 .. ThreadsUsed(size[r]) - 1 : Owner(size[r], v) = t
          BY <3>2, <4>1, Shares
        <5> QED BY <2>1, <2>3, <3>1, <4>1, <5>1, RunsNext DEF Published
      <4>2. CASE ~(v < size[r])
        BY <2>1, <2>3, <4>2, RunsNext DEF Published
      <4> QED BY <4>1, <4>2
    <3> QED BY <2>1, <3>3 DEF RanInv, Runs, Published
  <2> QED BY <2>1, <2>2, <2>3
<1>7. CASE SetFlag(r) /\ next[r] < ThreadsUsed(size[r])
  BY <1>7, SetFlagRan
<1>8. CASE SetFlag(r) /\ ~(next[r] < ThreadsUsed(size[r]))
  <2>1. cpc[r] = "setFlags" /\ cpc'[r] = "loadMask" /\ UNCHANGED <<mTaskIndex, mFlags, wslot, size, ran, wpc>>
    BY <1>1, <1>8 DEF TypeOK, ClientTypeOK, SetFlag, CGoto
  <2> QED BY <1>1, <1>8, <2>1, DispatchRan DEF Published
<1>9. CASE LoadMask(r) \/ LockNotify(r) \/ Notify(r)
  <2>1. /\ cpc[r] \in {"loadMask", "lockNotify", "notify"}
        /\ cpc'[r] \in {"lockNotify", "notify", "runZero"}
        /\ UNCHANGED <<mTaskIndex, mFlags, wslot, size, ran>> /\ (wpc' = wpc \/ NotifyAll)
    BY <1>1, <1>9 DEF TypeOK, ClientTypeOK, LoadMask, LockNotify, Notify, CGoto
  <2> QED BY <1>1, <2>1, DispatchRan DEF Published
<1>10. CASE RunZero(r)
  BY <1>10, RunZeroRan
<1>11. CASE Join(r)
  BY <1>11, JoinRan
<1>12. CASE EnqueueReturn(r)
  <2>1. cpc'[r] = "user" /\ \A v \in Items : ran'[r][v] = 0
    BY <1>1, <1>12 DEF TypeOK, ClientTypeOK, EnqueueReturn, CGoto
  <2> QED BY <2>1 DEF Runs, Published
<1> QED BY <1>2, <1>3, <1>4, <1>5, <1>6, <1>7, <1>8, <1>9, <1>10, <1>11, <1>12 DEF ClientStep

\* Every step of the pool keeps the count of every item.
LEMMA NextRanInv ==
    ASSUME IInv, RanInv, [Next]_vars
    PROVE  RanInv'
<1>1. ASSUME NEW w \in Workers, WorkerStep(w) \/ SpuriousWakeup(w) PROVE RanInv'
  BY <1>1, WorkerRunRan, WorkerOtherRan
<1>2. ASSUME NEW r \in Runtimes, ClientCall(r) \/ ClientStep(r) PROVE RanInv'
  BY <1>2, ClientOwnRan, ClientOthersRan DEF RanInv
<1>3. CASE DestroyStop \/ DestroyNotify \/ DestroyJoin \/ UNCHANGED vars
  <2>1. UNCHANGED <<cpc, mTaskIndex, size, next, ran, mFlags, wslot>> /\ (wpc' = wpc \/ NotifyAll)
    BY <1>3, DestroyFrame
  <2>2. \A q \in Runtimes, t \in Workers : Lowered(q, t)' <=> Lowered(q, t)
    BY <2>1 DEF Lowered, NotifyAll
  <2>3. ASSUME NEW q \in Runtimes PROVE \A v \in Items : ran'[q][v] = Runs(q, v)'
    BY <2>1, <2>2, RuntimeAlone DEF IInv
  <2> QED BY <2>3 DEF RanInv
<1> QED BY <1>1, <1>2, <1>3 DEF Next, Terminated

\* The history of every task is exact at every point of its dispatch.
THEOREM RanExact == Safety => []RanInv
<1>1. Init => RanInv
  BY DEF Init, RanInv, Runs, Published
<1>2. IInv /\ RanInv /\ [Next]_vars => RanInv'
  BY NextRanInv
<1> QED BY <1>1, <1>2, Invariance, PTL DEF Safety

\* When enqueue returns, each item of its task has run exactly once, for any
\* number of runtimes, threads, slots and items (ExactlyOnce).
THEOREM EnqueueExact == Safety => []ExactlyOnce
<1>1. RanInv => ExactlyOnce
  BY DEF RanInv, Runs, ExactlyOnce, Published
<1> QED BY <1>1, RanExact, PTL

-----------------------------------------------------------------------------
(* enqueue implements ParallelFor.                                          *)

\* The callers inside a call of enqueue, as the refinement maps them.
Busy == {r \in Runtimes : cpc[r] \in InCall}

\* Executing items that have not run yet is a Run step of ParallelFor.
LEMMA RunsAbstract ==
    ASSUME TypeOK, NEW r \in Runtimes, cpc[r] \in InCall, NEW S, RunItems(r, S),
           \A v \in Items : v \in S => v < size[r] /\ ran[r][v] = 0,
           size' = size, Busy' = Busy
    PROVE  PF!Run(r)
<1>1. PICK T \in SUBSET Items : T = {v \in Items : v \in S}
  OBVIOUS
<1>2. T \in SUBSET PF!Fresh(r)
  BY <1>1 DEF PF!Fresh
<1>3. ran \in [Runtimes -> [Items -> Nat]]
  BY DEF TypeOK, ClientTypeOK
<1>4. \A v \in Items : ran[r][v] + (IF v \in S THEN 1 ELSE 0) = IF v \in T THEN 1 ELSE ran[r][v]
  BY <1>1, <1>3
<1>5. [v \in Items |-> ran[r][v] + (IF v \in S THEN 1 ELSE 0)] = [v \in Items |-> IF v \in T THEN 1 ELSE ran[r][v]]
  BY <1>4
<1>6. ran' = [ran EXCEPT ![r] = [v \in Items |-> IF v \in T THEN 1 ELSE ran[r][v]]]
  BY <1>5 DEF RunItems
<1>7. r \in Busy
  BY DEF Busy
<1> QED BY <1>2, <1>6, <1>7 DEF PF!Run, Busy, InCall

\* A step that neither enters nor leaves a call and runs nothing is a stutter.
LEMMA StutterAbstract ==
    ASSUME UNCHANGED <<size, ran>>, \A q \in Runtimes : cpc'[q] \in InCall <=> cpc[q] \in InCall
    PROVE  UNCHANGED PF!vars
<1>1. Busy' = Busy
  BY DEF Busy
<1> QED BY <1>1 DEF PF!vars, Busy, InCall

\* Every step of a worker is a Run step or a stutter.
LEMMA WorkerAbstract ==
    ASSUME IInv, RanInv, NEW w \in Workers, WorkerStep(w) \/ SpuriousWakeup(w)
    PROVE  [PF!Next]_(PF!vars)
<1>1. CASE WorkerRun(w)
  <2>1. PICK r \in Runtimes :
             /\ RunItems(r, Share(size[r], w)) /\ cpc[r] \in Published
             /\ \A v \in Items : v \in Share(size[r], w) => v < size[r] /\ ran[r][v] = 0
    BY <1>1, WorkerRunsFresh
  <2>2. size' = size /\ cpc' = cpc /\ cpc[r] \in InCall
    BY <1>1, <2>1 DEF WorkerRun, InCall
  <2>3. Busy' = Busy
    BY <2>2 DEF Busy
  <2>4. PF!Run(r)
    BY <2>1, <2>2, <2>3, RunsAbstract DEF IInv
  <2> QED BY <2>4 DEF PF!Next
<1>2. CASE ~WorkerRun(w)
  <2>1. UNCHANGED <<cpc, size, ran>>
    BY <1>2 DEF WorkerStep, WorkerLoop, WorkerPoll, WorkerScan, WorkerClear, WorkerSpin, WorkerSleep,
         WorkerLock, WorkerCheck, WorkerBlock, SpuriousWakeup, WorkerClearBit
  <2> QED BY <2>1, StutterAbstract
<1> QED BY <1>1, <1>2

\* So is every step of a runtime's thread, except that entering enqueue is a
\* Call step and leaving it a Return step.
LEMMA ClientAbstract ==
    ASSUME IInv, RanInv, NEW r \in Runtimes, ClientCall(r) \/ ClientStep(r)
    PROVE  [PF!Next]_(PF!vars)
<1>0. TypeOK /\ cpc \in [Runtimes -> Published \cup
                   {"user", "open", "openNotify", "bind", "bindNotify", "serial",
                    "dispatch", "returned", "release", "deactive"}]
  BY DEF IInv, TypeOK, ClientTypeOK
<1>1. CASE UserEnqueue(r) \/ BindNotify(r)
  <2>1. PICK n \in TaskSizes : Enqueue(r, n)
    BY <1>1 DEF UserEnqueue, BindNotify, TaskSizes
  <2>2. cpc[r] \in {"user", "bindNotify"} /\ ran' = ran /\ cpc'[r] \in {"serial", "dispatch"}
        /\ \A q \in Runtimes \ {r} : cpc'[q] = cpc[q]
    BY <1>0, <1>1, <2>1 DEF UserEnqueue, BindNotify, Enqueue, CGoto
  <2>3. r \notin Busy /\ Busy' = Busy \cup {r}
    BY <2>2 DEF Busy, InCall, Published
  <2>4. size' = [size EXCEPT ![r] = n]
    BY <2>1 DEF Enqueue
  <2>5. PF!Call(r)
    BY <2>2, <2>3, <2>4 DEF PF!Call, Busy, InCall, TaskSizes
  <2> QED BY <2>5 DEF PF!Next
<1>2. CASE RunSerial(r) \/ RunZero(r)
  <2>1. PICK S : /\ RunItems(r, S) /\ cpc[r] \in InCall
                 /\ \A v \in Items : v \in S => v < size[r] /\ ran[r][v] = 0
    <3>1. CASE RunSerial(r)
      <4>1. /\ RunItems(r, {v \in Items : v < size[r]}) /\ cpc[r] = "serial"
            /\ \A v \in Items : ran[r][v] = 0
        BY <3>1, ClientRunsFresh
      <4>2. \A v \in Items : v \in {u \in Items : u < size[r]} => v < size[r] /\ ran[r][v] = 0
        BY <4>1
      <4> QED BY <4>1, <4>2 DEF InCall
    <3>2. CASE RunZero(r)
      <4>1. /\ RunItems(r, Share(size[r], 0)) /\ cpc[r] = "runZero"
            /\ \A v \in Items : v \in Share(size[r], 0) => v < size[r] /\ ran[r][v] = 0
        BY <3>2, ClientRunsFresh
      <4> QED BY <4>1 DEF InCall, Published
    <3> QED BY <1>2, <3>1, <3>2
  <2>2. size' = size /\ cpc'[r] \in InCall /\ \A q \in Runtimes \ {r} : cpc'[q] = cpc[q]
    BY <1>0, <1>2 DEF RunSerial, RunZero, CGoto, InCall, Published
  <2>3. Busy' = Busy
    BY <2>1, <2>2 DEF Busy
  <2>4. PF!Run(r)
    BY <1>0, <2>1, <2>2, <2>3, RunsAbstract
  <2> QED BY <2>4 DEF PF!Next
<1>3. CASE EnqueueReturn(r)
  <2>1. /\ cpc[r] = "returned" /\ cpc'[r] = "user" /\ \A q \in Runtimes \ {r} : cpc'[q] = cpc[q]
        /\ size' = [size EXCEPT ![r] = 0]
        /\ ran' = [ran EXCEPT ![r] = [v \in Items |-> 0]]
    BY <1>0, <1>3 DEF EnqueueReturn, CGoto
  <2>2. r \in Busy /\ Busy' = Busy \ {r}
    BY <2>1 DEF Busy, InCall, Published
  <2>3. PF!Fresh(r) = {}
    BY <2>1 DEF PF!Fresh, RanInv, Runs
  <2>4. PF!Return(r)
    BY <2>1, <2>2, <2>3 DEF PF!Return, Busy, InCall
  <2> QED BY <2>4 DEF PF!Next
<1>4. CASE AcquireWorkIndex(r) \/ BeginAgain(r) \/ End(r)
  <2>1. UNCHANGED <<size, ran>> /\ \A q \in Runtimes : cpc'[q] \in InCall <=> cpc[q] \in InCall
    BY <1>0, <1>4 DEF AcquireWorkIndex, BeginAgain, End, CGoto, InCall, Published
  <2> QED BY <2>1, StutterAbstract
<1>5. CASE Open(r) \/ OpenNotify(r) \/ BindSkip(r) \/ BindActive(r) \/ ReleaseWorkIndex(r) \/ Deactive(r)
  <2>1. UNCHANGED <<size, ran>> /\ \A q \in Runtimes : cpc'[q] \in InCall <=> cpc[q] \in InCall
    BY <1>0, <1>5 DEF Open, OpenNotify, BindSkip, BindActive, Active, ReleaseWorkIndex, Deactive,
         CGoto, InCall, Published
  <2> QED BY <2>1, StutterAbstract
<1>6. CASE SetTask(r) \/ SetFlag(r) \/ LoadMask(r) \/ LockNotify(r) \/ Notify(r) \/ Join(r)
  <2>1. UNCHANGED <<size, ran>> /\ \A q \in Runtimes : cpc'[q] \in InCall <=> cpc[q] \in InCall
    BY <1>0, <1>6 DEF SetTask, SetFlag, LoadMask, LockNotify, Notify, Join, CGoto, InCall, Published
  <2> QED BY <2>1, StutterAbstract
<1> QED BY <1>1, <1>2, <1>3, <1>4, <1>5, <1>6 DEF ClientCall, ClientStep

\* ThreadPool::enqueue keeps the promise of ParallelFor: every step of the
\* pool, its workers and its callers is a step of the abstract specification
\* or leaves it unchanged (ImplementsParallelFor).
THEOREM EnqueueImplements == Safety => ImplementsParallelFor
<1>1. Init => PF!Init
  BY DEF Init, PF!Init, Published
<1>2. IInv /\ RanInv /\ [Next]_vars => [PF!Next]_(PF!vars)
  <2> SUFFICES ASSUME IInv, RanInv, [Next]_vars PROVE [PF!Next]_(PF!vars)
    OBVIOUS
  <2>1. ASSUME NEW w \in Workers, WorkerStep(w) \/ SpuriousWakeup(w) PROVE [PF!Next]_(PF!vars)
    BY <2>1, WorkerAbstract
  <2>2. ASSUME NEW r \in Runtimes, ClientCall(r) \/ ClientStep(r) PROVE [PF!Next]_(PF!vars)
    BY <2>2, ClientAbstract
  <2>3. CASE DestroyStop \/ DestroyNotify \/ DestroyJoin \/ UNCHANGED vars
    BY <2>3, DestroyFrame, StutterAbstract
  <2> QED BY <2>1, <2>2, <2>3 DEF Next, Terminated
<1> QED BY <1>1, <1>2, Invariance, RanExact, PTL DEF Safety, ImplementsParallelFor, PF!Safety
=============================================================================
