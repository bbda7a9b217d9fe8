-------------------------- MODULE ThreadPoolProofs --------------------------
(***************************************************************************)
(* Proofs about ThreadPool for any set of workers, callers, tasks and      *)
(* loops.  Three arguments, each an inductive invariant of its own:        *)
(*                                                                         *)
(* - Lifetime (Inv): activeWorkers is exactly the number of workers that   *)
(*   hold the descriptor's pointer and have not let go of it (CountOK),    *)
(*   and a published descriptor belongs to a dispatcher that is still      *)
(*   inside its loop (PublishedOK).  So when the dispatcher sees           *)
(*   activeWorkers = 0 after withdrawing the pointer, nobody is left who   *)
(*   could touch its frame.                                                *)
(* - Tasks (TaskInv): a task is in one place at a time, so m_pendingCount  *)
(*   is the number of tasks that somebody still has to finish or retire.   *)
(* - Indices (IndexInv): the chunks cut the range, each is claimed once,   *)
(*   and the latch counts those that have not run to their end.            *)
(***************************************************************************)
EXTENDS ThreadPool, FiniteSetTheorems, SequenceTheorems, TLAPS

LoopPoints == {"pfLock", "publish", "notifyAll", "claim", "run", "countDown",
               "await", "drain", "drainWait", "drainAsleep", "pfLeave", "pfNotify"}
DispatchPoints == {"pfLock", "publish", "notifyAll", "await", "drain", "drainWait", "drainAsleep"}
ChunkPoints == {"claim", "run", "countDown"}
PublishedPoints == {"notifyAll", "claim", "run", "countDown", "await"}

(* The workers that hold a pointer to descriptor l.                        *)
Helpers(l) == {w \in AllWorkers : /\ loop[w] = l /\ desc[l].owner # w
                                  /\ pc[w] \in ChunkPoints \cup {"pfLeave"}}

LocalsOK ==
  \A t \in Threads :
    /\ loop[t] = 0 <=> pc[t] \notin LoopPoints
    /\ loop[t] <= loops
    /\ inLoop[t] <=> pc[t] \in ChunkPoints
    /\ pc[t] = "push" => burst[t] \in Nat

OwnerOK ==
  \A t \in Threads :
    /\ pc[t] \in DispatchPoints => desc[loop[t]].live /\ desc[loop[t]].owner = t
    /\ pc[t] \in ChunkPoints =>
         desc[loop[t]].live /\ (desc[loop[t]].owner = t \/ t \in AllWorkers)
    /\ pc[t] = "pfLeave" =>
         desc[loop[t]].live /\ desc[loop[t]].owner # t /\ t \in AllWorkers

CountOK == \A l \in LoopIds : desc[l].activeWorkers = Cardinality(Helpers(l))

PublishedOK ==
  m_pfWork # 0 =>
    /\ desc[m_pfWork].live
    /\ desc[m_pfWork].owner \in Threads
    /\ loop[desc[m_pfWork].owner] = m_pfWork
    /\ pc[desc[m_pfWork].owner] \in PublishedPoints

(* The inductive invariant.                                                *)
Inv == TypeOK /\ LocalsOK /\ OwnerOK /\ CountOK /\ PublishedOK
-----------------------------------------------------------------------------
(* A point stays where the invariant's parts put it.                       *)
SameClass(a, b) ==
  /\ a \in LoopPoints <=> b \in LoopPoints
  /\ a \in DispatchPoints <=> b \in DispatchPoints
  /\ a \in ChunkPoints <=> b \in ChunkPoints
  /\ a \in PublishedPoints <=> b \in PublishedPoints
  /\ a = "pfLeave" <=> b = "pfLeave"

(* What a step that leaves the descriptors' lifetimes alone does: it moves
   threads within their classes and opens at most one new loop.            *)
Quiet ==
  /\ loop' = loop /\ inLoop' = inLoop /\ m_pfWork' = m_pfWork
  /\ loops' \in Nat /\ loops <= loops'
  /\ \A t \in Threads : SameClass(pc[t], pc'[t]) /\ (pc'[t] = "push" => burst'[t] \in Nat)
  /\ \A l \in LoopIds :
       /\ desc'[l].activeWorkers = desc[l].activeWorkers
       /\ l <= loops => desc'[l].owner = desc[l].owner /\ desc'[l].live = desc[l].live

(* The helpers of a loop are finitely many, and a helper is counted.       *)
LEMMA HelpersFinite ==
  \A l : /\ IsFiniteSet(Helpers(l)) /\ Cardinality(Helpers(l)) \in Nat
         /\ \A w \in Helpers(l) : Cardinality(Helpers(l)) > 0
<1> SUFFICES ASSUME NEW l
             PROVE  /\ IsFiniteSet(Helpers(l)) /\ Cardinality(Helpers(l)) \in Nat
                    /\ \A w \in Helpers(l) : Cardinality(Helpers(l)) > 0
  OBVIOUS
<1>1. Helpers(l) \subseteq AllWorkers
  BY DEF Helpers
<1>2. IsFiniteSet(Helpers(l))
  BY <1>1, ThreadAssumption, FS_Subset
<1>3. Cardinality(Helpers(l)) \in Nat
  BY <1>2, FS_CardinalityType
<1>4. ASSUME NEW w \in Helpers(l) PROVE Cardinality(Helpers(l)) > 0
  BY <1>2, <1>3, FS_EmptySet, SMT
<1> QED BY <1>2, <1>3, <1>4

(* The five parts of the invariant survive a quiet step.                   *)
LEMMA QuietStep ==
  ASSUME Inv, Quiet
  PROVE  LocalsOK' /\ OwnerOK' /\ CountOK' /\ PublishedOK'
<1> USE DEF Inv, Quiet
<1>0. \A t \in Threads : loop[t] \in Nat /\ (loop[t] # 0 => loop[t] \in LoopIds /\ loop[t] <= loops)
  BY BoundAssumption DEF TypeOK, LocalType, HistoryType, LocalsOK, LoopIds
<1>1. LocalsOK'
  BY <1>0 DEF LocalsOK, SameClass, TypeOK, HistoryType
<1>2. OwnerOK'
  <2> SUFFICES ASSUME NEW t \in Threads,
                      pc'[t] \in DispatchPoints \cup ChunkPoints \cup {"pfLeave"}
               PROVE  /\ pc[t] \in LoopPoints
                      /\ loop'[t] = loop[t]
                      /\ desc'[loop[t]].owner = desc[loop[t]].owner
                      /\ desc'[loop[t]].live = desc[loop[t]].live
    BY DEF OwnerOK, SameClass
  <2>1. pc[t] \in LoopPoints
    BY DEF SameClass, LoopPoints, DispatchPoints, ChunkPoints
  <2>2. loop[t] # 0
    BY <2>1 DEF LocalsOK
  <2> QED BY <2>1, <2>2, <1>0
<1>3. ASSUME NEW l \in LoopIds PROVE Helpers(l)' = Helpers(l)
  <2>1. ASSUME NEW w \in AllWorkers, loop[w] = l
        PROVE  desc'[l].owner = desc[l].owner
    <3>1. w \in Threads
      BY DEF Threads
    <3>2. l <= loops
      BY <2>1, <3>1, <1>0 DEF LocalsOK
    <3> QED BY <3>2
  <2>2. \A w \in AllWorkers : pc'[w] \in ChunkPoints \cup {"pfLeave"}
                                <=> pc[w] \in ChunkPoints \cup {"pfLeave"}
    BY DEF SameClass, Threads
  <2> QED BY <2>1, <2>2 DEF Helpers
<1>4. CountOK'
  BY <1>3 DEF CountOK
<1>5. PublishedOK'
  <2> SUFFICES ASSUME m_pfWork # 0
               PROVE  /\ m_pfWork \in LoopIds
                      /\ m_pfWork <= loops
                      /\ SameClass(pc[desc[m_pfWork].owner], pc'[desc[m_pfWork].owner])
    BY DEF PublishedOK, SameClass
  <2> DEFINE u == desc[m_pfWork].owner
  <2>1. u \in Threads /\ loop[u] = m_pfWork
    BY DEF PublishedOK
  <2> QED BY <2>1, <1>0
<1> QED BY <1>1, <1>2, <1>4, <1>5
-----------------------------------------------------------------------------
(* Type correctness, operation by operation.                               *)

(* A pool has finitely many workers.                                       *)
LEMMA ThreadCountType ==
  ASSUME TypeOK
  PROVE  m_threadCount \in Nat
<1>1. m_workers \subseteq AllWorkers
  BY DEF TypeOK, PoolType, AllWorkers
<1> QED BY <1>1, ThreadAssumption, FS_Subset, FS_CardinalityType DEF m_threadCount

(* dispatchParallelFor fills in a well typed descriptor.                   *)
LEMMA NewDescType ==
  ASSUME TypeOK, NEW t \in Threads, NEW r \in Requests, r[1] < r[2], NumChunks(r) > 1
  PROVE  NewDesc(t, r) \in DescType
<1>1. r[1] \in Nat /\ r[2] \in Nat /\ r[3] \in Nat
  BY RequestAssumption
<1>2. EffectiveGrain(r[3]) \in Nat /\ EffectiveGrain(r[3]) > 0
  BY <1>1 DEF EffectiveGrain
<1>3. DivideUp(r[2] - r[1], EffectiveGrain(r[3])) \in Int
  BY <1>1, <1>2 DEF DivideUp
<1>4. NumChunks(r) \in Int
  BY <1>3, ThreadCountType DEF NumChunks, computeChunkCount, s_ChunkOversubscription
<1>5. /\ (r[2] - r[1]) \div NumChunks(r) \in Nat
      /\ (r[2] - r[1]) % NumChunks(r) \in Nat
  BY <1>1, <1>4
<1> QED BY <1>1, <1>4, <1>5 DEF NewDesc, DescType

(* enqueue and enqueueBatch keep the types.                                *)
LEMMA EnqueueType ==
  ASSUME Inv, NEW t \in Threads,
         \/ EnqueueInline(t) \/ (\E n \in 1 .. MaxBatch : EnqueueCount(t, n))
         \/ EnqueuePush(t) \/ EnqueueNotify(t)
  PROVE  TypeOK'
<1> USE DEF Inv, TypeOK, poolVars, ghosts, Goto
<1>1. CASE EnqueueInline(t)
  <2>1. PoolType' /\ LocalType'
    BY <1>1 DEF EnqueueInline, PoolType, LocalType
  <2>2. issued' \in 0 .. MaxTasks /\ finished' \subseteq Nat
    BY <1>1, BoundAssumption DEF EnqueueInline, HistoryType
  <2>3. HistoryType'
    BY <1>1, <2>2 DEF EnqueueInline, HistoryType
  <2> QED BY <1>1, <2>1, <2>3 DEF EnqueueInline
<1>2. ASSUME NEW n \in 1 .. MaxBatch, EnqueueCount(t, n) PROVE TypeOK'
  BY <1>2, BoundAssumption DEF EnqueueCount, PoolType, LocalType, HistoryType, ControlPoints
<1>3. CASE EnqueuePush(t)
  <2>1. burst[t] \in Nat /\ \A i \in 1 .. burst[t] : seen[t] + i \in Nat
    BY <1>3 DEF EnqueuePush, LocalsOK, LocalType
  <2>2. m_tasks' \in Seq(Nat)
    <3> DEFINE burstTasks == [i \in 1 .. burst[t] |-> seen[t] + i]
    <3>1. burstTasks \in Seq(Nat)
      BY <2>1, IsASeq
    <3>2. m_tasks' = m_tasks \o burstTasks
      BY <1>3 DEF EnqueuePush
    <3> HIDE DEF burstTasks
    <3> QED BY <3>1, <3>2, ConcatProperties DEF PoolType
  <2>3. PoolType' /\ HistoryType'
    BY <1>3, <2>2 DEF EnqueuePush, PoolType, HistoryType
  <2>4. LocalType'
    BY <1>3, ThreadCountType DEF EnqueuePush, LocalType, ControlPoints
  <2> QED BY <1>3, <2>3, <2>4 DEF EnqueuePush
<1>4. CASE EnqueueNotify(t)
  <2>1. asleep' \subseteq m_workers
    BY <1>4 DEF EnqueueNotify, NotifyOne, PoolType
  <2> QED BY <1>4, <2>1 DEF EnqueueNotify, Home, PoolType, LocalType, HistoryType, ControlPoints
<1> QED BY <1>1, <1>2, <1>3, <1>4

(* A thread inside a loop refers to a descriptor.                          *)
LEMMA LoopTypes ==
  ASSUME Inv, NEW t \in Threads, pc[t] \in LoopPoints
  PROVE  /\ loop[t] \in LoopIds /\ loop[t] # 0
         /\ desc[loop[t]] \in DescType
BY BoundAssumption DEF Inv, LocalsOK, TypeOK, LocalType, LoopIds

(* The fields that operations assign keep a descriptor well typed.         *)
LEMMA DescUpdates ==
  ASSUME NEW d \in DescType
  PROVE  /\ [d EXCEPT !.live = FALSE] \in DescType
         /\ [d EXCEPT !.nextChunk = @ + 1] \in DescType
         /\ [d EXCEPT !.done = @ - 1] \in DescType
         /\ [d EXCEPT !.activeWorkers = @ + 1] \in DescType
         /\ d.activeWorkers > 0 => [d EXCEPT !.activeWorkers = @ - 1] \in DescType
         /\ \A t \in Threads : \A b, e \in Nat :
              [d EXCEPT !.owner = t, !.begin = b, !.end = e] \in DescType
<1> USE DEF DescType
<1>1. [d EXCEPT !.live = FALSE] \in DescType
  OBVIOUS
<1>2. [d EXCEPT !.nextChunk = @ + 1] \in DescType
  OBVIOUS
<1>3. [d EXCEPT !.done = @ - 1] \in DescType
  OBVIOUS
<1>4. [d EXCEPT !.activeWorkers = @ + 1] \in DescType
  OBVIOUS
<1>5. d.activeWorkers > 0 => [d EXCEPT !.activeWorkers = @ - 1] \in DescType
  OBVIOUS
<1>6. \A t \in Threads : \A b, e \in Nat :
        [d EXCEPT !.owner = t, !.begin = b, !.end = e] \in DescType
  OBVIOUS
<1> QED BY <1>1, <1>2, <1>3, <1>4, <1>5, <1>6

(* parallelFor keeps the types.                                            *)
LEMMA ParallelForType ==
  ASSUME Inv, NEW t \in Threads, NEW r \in Requests,
         ParallelForSerial(t, r) \/ ParallelForEnter(t, r)
  PROVE  TypeOK'
<1> USE DEF Inv, TypeOK, poolVars, ghosts, Goto
<1>1. r[1] \in Nat /\ r[2] \in Nat
  BY RequestAssumption
<1>2. loops + 1 \in LoopIds /\ loops + 1 \in 0 .. MaxLoops
  BY BoundAssumption DEF HistoryType, LoopIds, ParallelForSerial, ParallelForEnter
<1>3. CASE ParallelForSerial(t, r)
  <2>1. desc' \in [LoopIds -> DescType]
    <3>1. [desc[loops + 1] EXCEPT !.owner = t, !.begin = r[1], !.end = r[2]] \in DescType
      BY <1>1, <1>2, DescUpdates
    <3> QED BY <1>3, <3>1 DEF ParallelForSerial
  <2>2. hits' \in [LoopIds -> [Indices -> Nat]]
    <3>1. hits \in [LoopIds -> [Indices -> Nat]]
      BY DEF HistoryType
    <3> QED BY <1>2, <1>3, <3>1 DEF ParallelForSerial, RunRange
  <2>3. PoolType' /\ LocalType'
    BY <1>3 DEF ParallelForSerial, PoolType, LocalType
  <2> QED BY <1>2, <1>3, <2>1, <2>2, <2>3 DEF ParallelForSerial, HistoryType
<1>4. CASE ParallelForEnter(t, r)
  <2>1. NewDesc(t, r) \in DescType
    BY <1>4, NewDescType DEF ParallelForEnter
  <2>2. desc' \in [LoopIds -> DescType]
    BY <1>2, <1>4, <2>1 DEF ParallelForEnter
  <2> QED BY <1>2, <1>4, <2>2
      DEF ParallelForEnter, PoolType, LocalType, HistoryType, ControlPoints
<1> QED BY <1>3, <1>4

(* dispatchParallelFor keeps the types.                                    *)
LEMMA DispatchType ==
  ASSUME Inv, NEW t \in Threads,
         \/ DispatchLock(t) \/ DispatchPublish(t) \/ DispatchNotify(t) \/ DispatchAwait(t)
         \/ DispatchDrainLoad(t) \/ DispatchDrainWait(t) \/ DispatchReturn(t)
  PROVE  TypeOK'
<1> USE BoundAssumption
    DEF Inv, poolVars, ghosts, Goto, TypeOK, PoolType, LocalType, HistoryType, ControlPoints
<1>1. CASE DispatchLock(t)
  BY <1>1 DEF DispatchLock
<1>2. CASE DispatchPublish(t)
  BY <1>2 DEF DispatchPublish
<1>3. CASE DispatchNotify(t)
  BY <1>3 DEF DispatchNotify
<1>4. CASE DispatchAwait(t)
  BY <1>4 DEF DispatchAwait
<1>5. CASE DispatchDrainLoad(t)
  <2>1. desc[loop[t]].activeWorkers \in Nat
    BY <1>5, LoopTypes DEF DispatchDrainLoad, LoopPoints, DescType
  <2> QED BY <1>5, <2>1 DEF DispatchDrainLoad
<1>6. CASE DispatchDrainWait(t)
  BY <1>6 DEF DispatchDrainWait
<1>7. CASE DispatchReturn(t)
  <2>1. loop[t] \in LoopIds /\ desc[loop[t]] \in DescType
    BY <1>7, LoopTypes DEF DispatchReturn, LoopPoints
  <2>2. desc' \in [LoopIds -> DescType]
    <3>1. desc' = [desc EXCEPT ![loop[t]] = [desc[loop[t]] EXCEPT !.live = FALSE]]
      BY <1>7 DEF DispatchReturn
    <3> QED BY <2>1, <3>1, DescUpdates
  <2>3. PoolType' /\ HistoryType'
    BY <1>7 DEF DispatchReturn
  <2>4. LocalType'
    BY <1>7 DEF DispatchReturn, Home
  <2> QED BY <2>2, <2>3, <2>4
<1> QED BY <1>1, <1>2, <1>3, <1>4, <1>5, <1>6, <1>7

(* processParallelFor keeps the types.                                     *)
LEMMA ChunkType ==
  ASSUME Inv, NEW t \in Threads, ClaimChunk(t) \/ RunChunk(t) \/ CountDown(t)
  PROVE  TypeOK'
<1> USE DEF Inv, TypeOK, poolVars, ghosts, Goto
<1>1. loop[t] \in LoopIds /\ desc[loop[t]] \in DescType
  BY LoopTypes DEF ClaimChunk, RunChunk, CountDown, LoopPoints
<1>2. CASE ClaimChunk(t)
  <2>1. desc' \in [LoopIds -> DescType]
    <3>1. desc' = [desc EXCEPT ![loop[t]] = [desc[loop[t]] EXCEPT !.nextChunk = @ + 1]]
      BY <1>2 DEF ClaimChunk
    <3> QED BY <1>1, <3>1, DescUpdates
  <2>2. desc[loop[t]].nextChunk \in Nat
    BY <1>1 DEF DescType
  <2>3. LocalType'
    BY <1>2, <2>2 DEF ClaimChunk, LocalType, ControlPoints
  <2>4. PoolType' /\ HistoryType'
    BY <1>2 DEF ClaimChunk, PoolType, HistoryType
  <2> QED BY <2>1, <2>3, <2>4
<1>3. CASE RunChunk(t)
  <2>1. hits' \in [LoopIds -> [Indices -> Nat]]
    BY <1>1, <1>3 DEF RunChunk, RunRange, HistoryType
  <2> QED BY <1>3, <2>1 DEF RunChunk, PoolType, LocalType, HistoryType, ControlPoints
<1>4. CASE CountDown(t)
  <2>1. desc' \in [LoopIds -> DescType]
    <3>1. desc' = [desc EXCEPT ![loop[t]] = [desc[loop[t]] EXCEPT !.done = @ - 1]]
      BY <1>4 DEF CountDown
    <3> QED BY <1>1, <3>1, DescUpdates
  <2> QED BY <1>4, <2>1 DEF CountDown, PoolType, LocalType, HistoryType, ControlPoints
<1> QED BY <1>2, <1>3, <1>4

(* A worker on its way out is still counted, so the count does not wrap.   *)
LEMMA LeaverCounted ==
  ASSUME Inv, NEW w \in AllWorkers, pc[w] = "pfLeave"
  PROVE  desc[loop[w]].activeWorkers > 0
<1>1. w \in Threads
  BY DEF Threads
<1>2. loop[w] \in LoopIds
  BY <1>1, LoopTypes DEF LoopPoints
<1>3. w \in Helpers(loop[w])
  BY <1>1 DEF Inv, OwnerOK, Helpers
<1> QED BY <1>2, <1>3, HelpersFinite DEF Inv, CountOK

(* workerLoop keeps the types.                                             *)
LEMMA WorkerType ==
  ASSUME Inv, NEW w \in AllWorkers, WorkerStep(w) \/ SpuriousWake(w)
  PROVE  TypeOK'
<1> USE DEF Inv, poolVars, ghosts, Goto, TypeOK
<1>0. w \in Threads
  BY DEF Threads
<1>1. CASE WorkerLeaveLoop(w)
  <2>1. loop[w] \in LoopIds /\ desc[loop[w]] \in DescType
    BY <1>0, <1>1, LoopTypes DEF WorkerLeaveLoop, LoopPoints
  <2>2. desc' \in [LoopIds -> DescType]
    <3>1. desc' = [desc EXCEPT ![loop[w]] = [desc[loop[w]] EXCEPT !.activeWorkers = @ - 1]]
      BY <1>1 DEF WorkerLeaveLoop
    <3>2. desc[loop[w]].activeWorkers > 0
      BY <1>1, LeaverCounted DEF WorkerLeaveLoop
    <3> QED BY <2>1, <3>1, <3>2, DescUpdates
  <2>3. loop' \in [Threads -> 0 .. MaxLoops]
    <3> DEFINE Ids == 0 .. MaxLoops
    <3>1. 0 \in Ids /\ loop[w] \in Ids /\ loop \in [Threads -> Ids]
      BY <1>0, BoundAssumption DEF LocalType
    <3> HIDE DEF Ids
    <3>2. loop' \in [Threads -> Ids]
      BY <1>1, <3>1 DEF WorkerLeaveLoop
    <3> QED BY <3>2 DEF Ids
  <2>4. LocalType'
    BY <1>1, <2>3 DEF WorkerLeaveLoop, LocalType, ControlPoints
  <2>5. PoolType' /\ HistoryType'
    BY <1>1 DEF WorkerLeaveLoop, PoolType, HistoryType
  <2> QED BY <2>2, <2>4, <2>5
<1>2. CASE WorkerNotifyLoop(w)
  <2>1. loop' \in [Threads -> 0 .. MaxLoops]
    <3>1. 0 \in 0 .. MaxLoops
      BY BoundAssumption
    <3>2. loop' = [loop EXCEPT ![w] = 0]
      BY <1>2 DEF WorkerNotifyLoop
    <3> QED BY <3>1, <3>2 DEF LocalType
  <2>2. pc' \in [Threads -> ControlPoints]
    BY <1>2 DEF WorkerNotifyLoop, LocalType, ControlPoints
  <2>3. LocalType'
    BY <1>2, <2>1, <2>2 DEF WorkerNotifyLoop, LocalType
  <2> QED BY <1>2, <2>3 DEF WorkerNotifyLoop, PoolType, HistoryType
<1>3. CASE WorkerTakeLoop(w)
  <2>1. m_pfWork \in LoopIds
    BY <1>3, BoundAssumption DEF WorkerTakeLoop, hasParallelWork, LoopIds, PoolType
  <2>2. desc' \in [LoopIds -> DescType]
    <3>1. desc' = [desc EXCEPT ![m_pfWork] = [desc[m_pfWork] EXCEPT !.activeWorkers = @ + 1]]
      BY <1>3 DEF WorkerTakeLoop
    <3> QED BY <2>1, <3>1, DescUpdates
  <2>3. LocalType'
    BY <1>3 DEF WorkerTakeLoop, LocalType, PoolType, ControlPoints
  <2>4. PoolType' /\ HistoryType'
    BY <1>3 DEF WorkerTakeLoop, PoolType, HistoryType
  <2> QED BY <2>2, <2>3, <2>4
<1>4. CASE WorkerTakeTask(w)
  <2>1. Head(m_tasks) \in Nat /\ Tail(m_tasks) \in Seq(Nat)
    BY <1>4 DEF WorkerTakeTask, PoolType
  <2>2. PoolType' /\ HistoryType'
    BY <1>4, <2>1 DEF WorkerTakeTask, PoolType, HistoryType
  <2>3. LocalType'
    BY <1>4, <2>1 DEF WorkerTakeTask, LocalType, ControlPoints
  <2> QED BY <1>4, <2>2, <2>3 DEF WorkerTakeTask
<1>5. CASE WorkerSleep(w)
  BY <1>5 DEF WorkerSleep, AtLoop, PoolType, LocalType, HistoryType
<1>6. CASE WorkerExit(w)
  BY <1>6 DEF WorkerExit, PoolType, LocalType, HistoryType, ControlPoints
<1>7. CASE WorkerFinishTask(w)
  BY <1>0, <1>7 DEF WorkerFinishTask, PoolType, LocalType, HistoryType, ControlPoints
<1>8. CASE WorkerRetireTask(w)
  <2>1. LocalType'
    BY <1>8 DEF WorkerRetireTask, LocalType, ControlPoints
  <2> QED BY <1>8, <2>1 DEF WorkerRetireTask, PoolType, HistoryType
<1>9. CASE WorkerNotifyPending(w)
  <2>1. LocalType'
    BY <1>9 DEF WorkerNotifyPending, LocalType, ControlPoints
  <2> QED BY <1>9, <2>1 DEF WorkerNotifyPending, PoolType, HistoryType
<1>10. CASE SpuriousWake(w)
  BY <1>10 DEF SpuriousWake, PoolType, LocalType, HistoryType
<1> QED BY <1>1, <1>2, <1>3, <1>4, <1>5, <1>6, <1>7, <1>8, <1>9, <1>10 DEF WorkerStep

(* wait() and the destructor keep the types.                               *)
LEMMA ClientType ==
  ASSUME Inv, NEW c \in Clients, WaitCall(c) \/ DestroyCall(c) \/ ClientStep(c)
  PROVE  TypeOK'
<1> USE DEF Inv, poolVars, ghosts, Goto, TypeOK
<1>0. issued \in Nat /\ m_pendingCount \in Int
  BY BoundAssumption DEF HistoryType, PoolType
<1>1. CASE WaitCall(c)
  <2>1. HistoryType'
    BY <1>0, <1>1 DEF WaitCall, HistoryType
  <2> QED BY <1>1, <2>1 DEF WaitCall, PoolType, LocalType, ControlPoints
<1>2. CASE DestroyCall(c)
  <2>1. HistoryType'
    BY <1>0, <1>2 DEF DestroyCall, HistoryType
  <2>2. LocalType'
    BY <1>2 DEF DestroyCall, LocalType, ControlPoints
  <2> QED BY <1>2, <2>1, <2>2 DEF DestroyCall, PoolType
<1>3. CASE WaitReturn(c)
  BY <1>3 DEF WaitReturn, PoolType, LocalType, HistoryType, ControlPoints
<1>4. CASE WaitLoad(c)
  <2>1. m_pendingCount \in Nat
    BY <1>0, <1>4 DEF WaitLoad
  <2>2. LocalType'
    BY <1>4, <2>1 DEF WaitLoad, LocalType, ControlPoints
  <2> QED BY <1>4, <2>2 DEF WaitLoad, PoolType, HistoryType
<1>5. CASE WaitFutex(c)
  <2>1. LocalType'
    BY <1>5 DEF WaitFutex, LocalType, ControlPoints
  <2> QED BY <1>5, <2>1 DEF WaitFutex, PoolType, HistoryType
<1>6. ASSUME NEW w \in AllWorkers, JoinWorker(c, w) PROVE TypeOK'
  BY <1>6 DEF JoinWorker, PoolType, LocalType, HistoryType
<1>7. CASE JoinReturn(c)
  BY <1>7 DEF JoinReturn, PoolType, LocalType, HistoryType, ControlPoints
<1> QED BY <1>1, <1>2, <1>3, <1>4, <1>5, <1>6, <1>7 DEF ClientStep
-----------------------------------------------------------------------------
(* The operations that leave the descriptors' lifetimes alone.             *)

(* Which operations are quiet in the sense above.                          *)
LEMMA QuietOperations ==
  ASSUME Inv,
         \/ \E t \in Threads :
              \/ EnqueueInline(t) \/ (\E n \in 1 .. MaxBatch : EnqueueCount(t, n))
              \/ EnqueuePush(t) \/ EnqueueNotify(t)
              \/ (\E r \in Requests : ParallelForSerial(t, r))
              \/ DispatchLock(t) \/ DispatchDrainLoad(t) \/ DispatchDrainWait(t)
              \/ RunChunk(t) \/ CountDown(t)
         \/ \E w \in AllWorkers :
              \/ WorkerTakeTask(w) \/ WorkerSleep(w) \/ WorkerExit(w) \/ WorkerFinishTask(w)
              \/ WorkerRetireTask(w) \/ WorkerNotifyPending(w) \/ SpuriousWake(w)
         \/ \E c \in Clients : WaitCall(c) \/ DestroyCall(c) \/ ClientStep(c)
         \/ UNCHANGED vars
  PROVE  Quiet
<1> USE DEF Inv, poolVars, ghosts, Goto, SameClass,
            LoopPoints, DispatchPoints, ChunkPoints, PublishedPoints
<1>0. /\ pc \in [Threads -> ControlPoints] /\ burst \in [Threads -> Int]
      /\ loops \in Nat /\ desc \in [LoopIds -> DescType]
      /\ \A t \in Threads : pc[t] = "push" => burst[t] \in Nat
  BY BoundAssumption DEF TypeOK, LocalType, HistoryType, LocalsOK
<1>1. ASSUME NEW t \in Threads, EnqueueInline(t) PROVE Quiet
  BY <1>0, <1>1 DEF Quiet, EnqueueInline
<1>2. ASSUME NEW t \in Threads, NEW n \in 1 .. MaxBatch, EnqueueCount(t, n) PROVE Quiet
  BY <1>0, <1>2, BoundAssumption DEF Quiet, EnqueueCount, CanCall, Home
<1>3. ASSUME NEW t \in Threads, EnqueuePush(t) PROVE Quiet
  BY <1>0, <1>3 DEF Quiet, EnqueuePush
<1>4. ASSUME NEW t \in Threads, EnqueueNotify(t) PROVE Quiet
  BY <1>0, <1>4 DEF Quiet, EnqueueNotify, Home
<1>5. ASSUME NEW t \in Threads, NEW r \in Requests, ParallelForSerial(t, r) PROVE Quiet
  <2> DEFINE n == loops + 1
  <2>1. /\ n \in LoopIds /\ loops' = n
        /\ \A l \in LoopIds : l <= loops => l # n
    <3>1. loops < MaxLoops /\ loops' = loops + 1
      BY <1>5 DEF ParallelForSerial
    <3> QED BY <1>0, <3>1, BoundAssumption DEF LoopIds
  <2>2. desc' = [desc EXCEPT ![n] = [@ EXCEPT !.owner = t, !.begin = r[1], !.end = r[2]]]
    BY <1>5 DEF ParallelForSerial
  <2> HIDE DEF n
  <2>3. \A l \in LoopIds : l # n => desc'[l] = desc[l]
    BY <1>0, <2>1, <2>2
  <2>4. desc'[n].activeWorkers = desc[n].activeWorkers
    BY <1>0, <2>1, <2>2 DEF DescType
  <2>5. \A l \in LoopIds : /\ desc'[l].activeWorkers = desc[l].activeWorkers
                           /\ l <= loops => desc'[l] = desc[l]
    BY <2>1, <2>3, <2>4
  <2>6. /\ loop' = loop /\ inLoop' = inLoop /\ m_pfWork' = m_pfWork /\ pc' = pc /\ burst' = burst
    BY <1>5 DEF ParallelForSerial
  <2>7. loops' \in Nat /\ loops <= loops'
    BY <1>0, <2>1 DEF n
  <2> HIDE DEF LoopPoints, DispatchPoints, ChunkPoints, PublishedPoints
  <2> QED BY <1>0, <2>5, <2>6, <2>7 DEF Quiet
<1>6. ASSUME NEW t \in Threads, DispatchLock(t) PROVE Quiet
  BY <1>0, <1>6 DEF Quiet, DispatchLock
<1>7. ASSUME NEW t \in Threads, DispatchDrainLoad(t) PROVE Quiet
  BY <1>0, <1>7 DEF Quiet, DispatchDrainLoad
<1>8. ASSUME NEW t \in Threads, DispatchDrainWait(t) PROVE Quiet
  BY <1>0, <1>8 DEF Quiet, DispatchDrainWait
<1>9. ASSUME NEW t \in Threads, RunChunk(t) PROVE Quiet
  BY <1>0, <1>9 DEF Quiet, RunChunk
<1>10. ASSUME NEW t \in Threads, CountDown(t) PROVE Quiet
  <2>1. \A l \in LoopIds : /\ desc'[l].activeWorkers = desc[l].activeWorkers
                           /\ desc'[l].owner = desc[l].owner
                           /\ desc'[l].live = desc[l].live
    BY <1>0, <1>10 DEF CountDown, DescType
  <2> QED BY <1>0, <1>10, <2>1 DEF Quiet, CountDown
<1>11. ASSUME NEW w \in AllWorkers,
              \/ WorkerTakeTask(w) \/ WorkerSleep(w) \/ WorkerExit(w) \/ WorkerFinishTask(w)
              \/ WorkerRetireTask(w) \/ SpuriousWake(w)
       PROVE  Quiet
  BY <1>0, <1>11 DEF Quiet, WorkerTakeTask, WorkerSleep, WorkerExit, WorkerFinishTask,
                     WorkerRetireTask, SpuriousWake, AtLoop
<1>12. ASSUME NEW w \in AllWorkers, WorkerNotifyPending(w) PROVE Quiet
  BY <1>0, <1>12 DEF Quiet, WorkerNotifyPending
<1>13. ASSUME NEW c \in Clients, WaitCall(c) PROVE Quiet
  BY <1>0, <1>13 DEF Quiet, WaitCall
<1>14. ASSUME NEW c \in Clients, DestroyCall(c) PROVE Quiet
  BY <1>0, <1>14 DEF Quiet, DestroyCall
<1>15. ASSUME NEW c \in Clients, ClientStep(c) PROVE Quiet
  BY <1>0, <1>15 DEF Quiet, ClientStep, WaitReturn, WaitLoad, WaitFutex, JoinWorker, JoinReturn
<1>16. CASE UNCHANGED vars
  BY <1>0, <1>16 DEF Quiet, vars
<1> QED BY <1>1, <1>2, <1>3, <1>4, <1>5, <1>6, <1>7, <1>8, <1>9, <1>10, <1>11, <1>12,
           <1>13, <1>14, <1>15, <1>16
-----------------------------------------------------------------------------
(* The operations that open, publish, share, leave and close a descriptor. *)

Bookkeeping == LocalsOK /\ OwnerOK /\ CountOK /\ PublishedOK

(* No thread refers to a loop that has not been opened.                    *)
LEMMA ReferencedLoops ==
  ASSUME Inv
  PROVE  /\ \A t \in Threads : loop[t] \in 0 .. loops
         /\ m_pfWork \in 0 .. loops
         /\ \A t \in Threads : loop[t] # 0 => loop[t] \in LoopIds
         /\ m_pfWork # 0 => m_pfWork \in LoopIds
<1>1. /\ \A t \in Threads : loop[t] \in 0 .. loops
      /\ \A t \in Threads : loop[t] # 0 => loop[t] \in LoopIds
  BY BoundAssumption DEF Inv, LocalsOK, TypeOK, LocalType, HistoryType, LoopIds
<1>2. m_pfWork # 0 => m_pfWork \in 1 .. loops
  BY <1>1 DEF Inv, PublishedOK
<1> QED BY <1>1, <1>2, BoundAssumption DEF Inv, TypeOK, HistoryType, LoopIds

(* The helpers of a loop are unchanged when the threads concerned are.     *)
LEMMA SameHelpers ==
  ASSUME NEW l,
         \A w \in AllWorkers :
           (loop'[w] = l /\ desc'[l].owner # w /\ pc'[w] \in ChunkPoints \cup {"pfLeave"})
             <=> (loop[w] = l /\ desc[l].owner # w /\ pc[w] \in ChunkPoints \cup {"pfLeave"})
  PROVE  Helpers(l)' = Helpers(l)
BY DEF Helpers

(* A new descriptor has its dispatcher as owner and no helper.             *)
LEMMA EnterStep ==
  ASSUME Inv, NEW t \in Threads, NEW r \in Requests, ParallelForEnter(t, r)
  PROVE  Bookkeeping'
<1>0. PICK n : n = loops + 1
  OBVIOUS
<1>1. /\ n \in LoopIds /\ n # 0 /\ loops \in Nat
      /\ \A u \in Threads : loop[u] # n /\ loop[u] \in Nat /\ (loop[u] # 0 => loop[u] \in LoopIds)
      /\ \A u \in Threads : loop[u] <= n
      /\ m_pfWork # n
  BY <1>0, ReferencedLoops, BoundAssumption DEF Inv, ParallelForEnter, TypeOK, HistoryType, LoopIds
<1>2. /\ desc' = [desc EXCEPT ![n] = NewDesc(t, r)] /\ loop' = [loop EXCEPT ![t] = n]
      /\ pc' = [pc EXCEPT ![t] = "pfLock"] /\ loops' = n
      /\ inLoop' = inLoop /\ burst' = burst /\ m_pfWork' = m_pfWork
  BY <1>0 DEF ParallelForEnter, Goto, poolVars
<1>3. /\ NewDesc(t, r).live /\ NewDesc(t, r).owner = t /\ NewDesc(t, r).activeWorkers = 0
  BY DEF NewDesc
<1>4. loop[t] = 0 /\ pc[t] \notin LoopPoints
  BY DEF ParallelForEnter, RunsSerially, CanCall, Home, Inv, LocalsOK, ChunkPoints, LoopPoints
<1>5. /\ desc \in [LoopIds -> DescType] /\ loop \in [Threads -> 0 .. MaxLoops]
      /\ pc \in [Threads -> ControlPoints]
  BY DEF Inv, TypeOK, LocalType
<1>6. LocalsOK'
  <2> SUFFICES ASSUME NEW u \in Threads
               PROVE  /\ loop'[u] = 0 <=> pc'[u] \notin LoopPoints
                      /\ loop'[u] <= n
                      /\ inLoop[u] <=> pc'[u] \in ChunkPoints
                      /\ pc'[u] = "push" => burst[u] \in Nat
    BY <1>2 DEF LocalsOK
  <2>1. CASE u = t
    <3>1. pc'[u] = "pfLock" /\ loop'[u] = n /\ n <= n
      BY <1>0, <1>1, <1>2, <1>5, <2>1
    <3>2. ~ inLoop[u]
      BY <1>4, <2>1 DEF Inv, LocalsOK, LoopPoints, ChunkPoints
    <3> QED BY <1>1, <3>1, <3>2 DEF LoopPoints, ChunkPoints
  <2>2. CASE u # t
    BY <1>1, <1>2, <1>5, <2>2 DEF Inv, LocalsOK
  <2> QED BY <2>1, <2>2
<1>7. OwnerOK'
  BY <1>1, <1>2, <1>3, <1>4, <1>5 DEF Inv, LocalsOK, OwnerOK, LoopPoints, DispatchPoints, ChunkPoints
<1>8. CountOK'
  <2>1. ASSUME NEW l \in LoopIds, l # n PROVE Helpers(l)' = Helpers(l)
    <3>1. desc'[l] = desc[l]
      BY <1>1, <1>2, <1>5, <2>1
    <3> QED BY <1>1, <1>2, <1>4, <1>5, <2>1, <3>1, SameHelpers DEF LoopPoints, ChunkPoints, Threads
  <2>2. Helpers(n)' = {}
    <3> SUFFICES ASSUME NEW w \in AllWorkers, loop'[w] = n, pc'[w] \in ChunkPoints \cup {"pfLeave"}
                 PROVE  FALSE
      BY DEF Helpers
    <3>1. w \in Threads
      BY DEF Threads
    <3>2. w = t
      BY <1>1, <1>2, <1>5, <3>1
    <3> QED BY <1>2, <1>5, <3>1, <3>2 DEF ChunkPoints
  <2>3. desc'[n].activeWorkers = Cardinality(Helpers(n)')
    BY <1>1, <1>2, <1>3, <1>5, <2>2, FS_EmptySet
  <2>4. ASSUME NEW l \in LoopIds, l # n PROVE desc'[l].activeWorkers = Cardinality(Helpers(l)')
    BY <1>1, <1>2, <1>5, <2>1, <2>4 DEF Inv, CountOK
  <2> QED BY <2>3, <2>4 DEF CountOK
<1>9. PublishedOK'
  BY <1>1, <1>2, <1>4, <1>5, ReferencedLoops DEF Inv, PublishedOK, PublishedPoints, LoopPoints
<1> QED BY <1>6, <1>7, <1>8, <1>9 DEF Bookkeeping

(* The dispatcher publishes its own, live descriptor.                      *)
LEMMA PublishStep ==
  ASSUME Inv, NEW t \in Threads, DispatchPublish(t)
  PROVE  Bookkeeping'
<1>0. PICK n : n = loop[t]
  OBVIOUS
<1>1. /\ pc[t] = "publish" /\ m_pfWork' = n /\ pc' = [pc EXCEPT ![t] = "notifyAll"]
      /\ desc' = desc /\ loop' = loop /\ inLoop' = inLoop /\ burst' = burst /\ loops' = loops
  BY <1>0 DEF DispatchPublish, Goto, ghosts
<1>2. pc \in [Threads -> ControlPoints] /\ desc[n].live /\ desc[n].owner = t
  BY <1>0, <1>1 DEF Inv, TypeOK, LocalType, OwnerOK, DispatchPoints
<1>3. LocalsOK'
  BY <1>1, <1>2 DEF Inv, LocalsOK, LoopPoints, ChunkPoints
<1>4. OwnerOK'
  BY <1>1, <1>2 DEF Inv, OwnerOK, DispatchPoints, ChunkPoints
<1>5. CountOK'
  <2>1. ASSUME NEW l \in LoopIds PROVE Helpers(l)' = Helpers(l)
    BY <1>1, <1>2, SameHelpers DEF ChunkPoints
  <2> QED BY <1>1, <2>1 DEF Inv, CountOK
<1>6. PublishedOK'
  BY <1>0, <1>1, <1>2 DEF PublishedOK, PublishedPoints
<1> QED BY <1>3, <1>4, <1>5, <1>6 DEF Bookkeeping

(* The dispatcher joins its loop as owner, not as helper.                  *)
LEMMA NotifyStep ==
  ASSUME Inv, NEW t \in Threads, DispatchNotify(t)
  PROVE  Bookkeeping'
<1>0. PICK n : n = loop[t]
  OBVIOUS
<1>1. /\ pc[t] = "notifyAll" /\ m_pfWork' = m_pfWork /\ pc' = [pc EXCEPT ![t] = "claim"]
      /\ inLoop' = [inLoop EXCEPT ![t] = TRUE]
      /\ desc' = desc /\ loop' = loop /\ burst' = burst /\ loops' = loops
  BY DEF DispatchNotify, Goto, ghosts
<1>2. /\ pc \in [Threads -> ControlPoints] /\ inLoop \in [Threads -> BOOLEAN]
      /\ desc[n].live /\ desc[n].owner = t
  BY <1>0, <1>1 DEF Inv, TypeOK, LocalType, OwnerOK, DispatchPoints
<1>3. LocalsOK'
  BY <1>1, <1>2 DEF Inv, LocalsOK, LoopPoints, ChunkPoints
<1>4. OwnerOK'
  BY <1>0, <1>1, <1>2 DEF Inv, OwnerOK, DispatchPoints, ChunkPoints
<1>5. CountOK'
  <2>1. ASSUME NEW l \in LoopIds PROVE Helpers(l)' = Helpers(l)
    BY <1>0, <1>1, <1>2, SameHelpers DEF ChunkPoints
  <2> QED BY <1>1, <2>1 DEF Inv, CountOK
<1>6. PublishedOK'
  BY <1>1, <1>2 DEF Inv, PublishedOK, PublishedPoints
<1> QED BY <1>3, <1>4, <1>5, <1>6 DEF Bookkeeping

(* Withdrawing the pointer leaves the helpers as they are.                 *)
LEMMA AwaitStep ==
  ASSUME Inv, NEW t \in Threads, DispatchAwait(t)
  PROVE  Bookkeeping'
<1>1. /\ pc[t] = "await" /\ m_pfWork' = 0 /\ pc' = [pc EXCEPT ![t] = "drain"]
      /\ desc' = desc /\ loop' = loop /\ inLoop' = inLoop /\ burst' = burst /\ loops' = loops
  BY DEF DispatchAwait, Goto, ghosts
<1>2. pc \in [Threads -> ControlPoints]
  BY DEF Inv, TypeOK, LocalType
<1>3. LocalsOK'
  BY <1>1, <1>2 DEF Inv, LocalsOK, LoopPoints, ChunkPoints
<1>4. OwnerOK'
  BY <1>1, <1>2 DEF Inv, OwnerOK, DispatchPoints, ChunkPoints
<1>5. CountOK'
  <2>1. ASSUME NEW l \in LoopIds PROVE Helpers(l)' = Helpers(l)
    BY <1>1, <1>2, SameHelpers DEF ChunkPoints
  <2> QED BY <1>1, <2>1 DEF Inv, CountOK
<1>6. PublishedOK'
  BY <1>1 DEF PublishedOK
<1> QED BY <1>3, <1>4, <1>5, <1>6 DEF Bookkeeping

(* The step the argument is about: the dispatcher's frame dies.  By CountOK
   the loop has no helper left, and by PublishedOK it is not published.    *)
LEMMA ReturnStep ==
  ASSUME Inv, NEW t \in Threads, DispatchReturn(t)
  PROVE  Bookkeeping'
<1>0. PICK n : n = loop[t]
  OBVIOUS
<1>1. /\ pc[t] = "drain" /\ desc[n].activeWorkers = 0
      /\ desc' = [desc EXCEPT ![n] = [desc[n] EXCEPT !.live = FALSE]]
      /\ loop' = [loop EXCEPT ![t] = 0] /\ pc' = [pc EXCEPT ![t] = Home(t)]
      /\ m_pfWork' = m_pfWork /\ inLoop' = inLoop /\ burst' = burst /\ loops' = loops
  BY <1>0 DEF DispatchReturn, Goto, ghosts
<1>2. /\ pc \in [Threads -> ControlPoints] /\ loop \in [Threads -> 0 .. MaxLoops]
      /\ desc \in [LoopIds -> DescType] /\ loops \in Nat
  BY BoundAssumption DEF Inv, TypeOK, LocalType, HistoryType
<1>3. n \in LoopIds /\ n # 0 /\ desc[n].owner = t
  BY <1>0, <1>1, LoopTypes DEF Inv, OwnerOK, LoopPoints, DispatchPoints
<1>4. Home(t) \in {"idle", "task"}
  BY DEF Home
<1>5. Helpers(n) = {}
  <2>1. Cardinality(Helpers(n)) = 0
    BY <1>1, <1>3 DEF Inv, CountOK
  <2> QED BY <2>1, HelpersFinite
<1>6. \A u \in Threads \ {t} : loop[u] = n => pc[u] = "pfNotify"
  <2> SUFFICES ASSUME NEW u \in Threads, u # t, loop[u] = n, pc[u] # "pfNotify" PROVE FALSE
    OBVIOUS
  <2>1. pc[u] \in LoopPoints
    BY <1>3 DEF Inv, LocalsOK
  <2>2. pc[u] \notin DispatchPoints
    BY <1>3 DEF Inv, OwnerOK
  <2>3. pc[u] \in ChunkPoints \cup {"pfLeave"}
    BY <2>1, <2>2 DEF LoopPoints, DispatchPoints, ChunkPoints
  <2>4. u \in AllWorkers
    BY <1>3, <2>3 DEF Inv, OwnerOK
  <2> QED BY <1>3, <1>5, <2>3, <2>4 DEF Helpers
<1>7. LocalsOK'
  <2> SUFFICES ASSUME NEW u \in Threads
               PROVE  /\ loop'[u] = 0 <=> pc'[u] \notin LoopPoints
                      /\ loop'[u] <= loops
                      /\ inLoop[u] <=> pc'[u] \in ChunkPoints
                      /\ pc'[u] = "push" => burst[u] \in Nat
    BY <1>1 DEF LocalsOK
  <2>1. CASE u = t
    <3>1. pc'[u] \in {"idle", "task"} /\ loop'[u] = 0
      BY <1>1, <1>2, <1>4, <2>1
    <3>2. ~ inLoop[u]
      BY <1>1, <2>1 DEF Inv, LocalsOK, ChunkPoints
    <3> QED BY <1>2, <3>1, <3>2 DEF LoopPoints, ChunkPoints
  <2>2. CASE u # t
    BY <1>1, <1>2, <2>2 DEF Inv, LocalsOK
  <2> QED BY <2>1, <2>2
<1>8. OwnerOK'
  <2> SUFFICES ASSUME NEW u \in Threads,
                      pc'[u] \in DispatchPoints \cup ChunkPoints \cup {"pfLeave"}
               PROVE  /\ pc'[u] = pc[u] /\ loop'[u] = loop[u]
                      /\ desc'[loop[u]] = desc[loop[u]]
    BY DEF Inv, OwnerOK
  <2>1. u # t
    BY <1>1, <1>2, <1>4 DEF DispatchPoints, ChunkPoints
  <2>2. pc'[u] = pc[u] /\ loop'[u] = loop[u]
    BY <1>1, <1>2, <2>1
  <2>3. loop[u] # n
    BY <1>6, <2>1, <2>2 DEF DispatchPoints, ChunkPoints
  <2>4. loop[u] \in LoopIds
    BY <2>2, LoopTypes DEF LoopPoints, DispatchPoints, ChunkPoints
  <2> QED BY <1>1, <1>2, <2>2, <2>3, <2>4
<1>9. CountOK'
  <2>1. ASSUME NEW l \in LoopIds
        PROVE  desc'[l].owner = desc[l].owner /\ desc'[l].activeWorkers = desc[l].activeWorkers
    BY <1>1, <1>2, <1>3 DEF DescType
  <2>2. ASSUME NEW l \in LoopIds PROVE Helpers(l)' = Helpers(l)
    <3> SUFFICES ASSUME NEW w \in AllWorkers
                 PROVE  (loop'[w] = l /\ pc'[w] \in ChunkPoints \cup {"pfLeave"})
                          <=> (loop[w] = l /\ pc[w] \in ChunkPoints \cup {"pfLeave"})
      BY <2>1, SameHelpers
    <3>1. w \in Threads
      BY DEF Threads
    <3> QED BY <1>1, <1>2, <1>4, <3>1 DEF ChunkPoints
  <2> QED BY <2>1, <2>2 DEF Inv, CountOK
<1>10. PublishedOK'
  <2> SUFFICES ASSUME m_pfWork # 0
               PROVE  /\ desc'[m_pfWork] = desc[m_pfWork]
                      /\ loop'[desc[m_pfWork].owner] = loop[desc[m_pfWork].owner]
                      /\ pc'[desc[m_pfWork].owner] = pc[desc[m_pfWork].owner]
    BY <1>1 DEF Inv, PublishedOK
  <2>1. m_pfWork # n
    BY <1>1, <1>3 DEF Inv, PublishedOK, PublishedPoints
  <2>2. m_pfWork \in LoopIds
    BY ReferencedLoops
  <2>3. desc[m_pfWork].owner \in Threads \ {t}
    BY <1>1 DEF Inv, PublishedOK, PublishedPoints
  <2> QED BY <1>1, <1>2, <1>3, <2>1, <2>2, <2>3
<1> QED BY <1>7, <1>8, <1>9, <1>10 DEF Bookkeeping

(* A claim keeps the thread in the loop, or sends it out on its own side.  *)
LEMMA ClaimStep ==
  ASSUME Inv, NEW t \in Threads, ClaimChunk(t)
  PROVE  Bookkeeping'
<1>0. PICK n : n = loop[t]
  OBVIOUS
<1> DEFINE next == pc'[t]
<1>1. /\ pc[t] = "claim" /\ loop' = loop /\ m_pfWork' = m_pfWork /\ burst' = burst /\ loops' = loops
      /\ desc' = [desc EXCEPT ![n] = [desc[n] EXCEPT !.nextChunk = @ + 1]]
  BY <1>0 DEF ClaimChunk, ghosts, poolVars
<1>2. /\ pc \in [Threads -> ControlPoints] /\ inLoop \in [Threads -> BOOLEAN]
      /\ desc \in [LoopIds -> DescType]
  BY DEF Inv, TypeOK, LocalType
<1>3. n \in LoopIds /\ n # 0
  BY <1>0, <1>1, LoopTypes DEF LoopPoints
<1>4. \/ next = "run" /\ inLoop'[t] = inLoop[t]
      \/ next = "await" /\ desc[n].owner = t /\ inLoop'[t] = FALSE
      \/ next = "pfLeave" /\ desc[n].owner # t /\ inLoop'[t] = FALSE
  BY <1>0, <1>2 DEF ClaimChunk, Goto
<1>5. \A u \in Threads \ {t} : pc'[u] = pc[u] /\ inLoop'[u] = inLoop[u]
  BY <1>2 DEF ClaimChunk, Goto
<1>6. \A l \in LoopIds : /\ desc'[l].live = desc[l].live /\ desc'[l].owner = desc[l].owner
                          /\ desc'[l].activeWorkers = desc[l].activeWorkers
  BY <1>1, <1>2, <1>3 DEF DescType
<1>7. \A u \in Threads : loop[u] # 0 => loop[u] \in LoopIds
  BY ReferencedLoops
<1>8. LocalsOK'
  <2> SUFFICES ASSUME NEW u \in Threads
               PROVE  /\ loop[u] = 0 <=> pc'[u] \notin LoopPoints
                      /\ loop[u] <= loops
                      /\ inLoop'[u] <=> pc'[u] \in ChunkPoints
                      /\ pc'[u] = "push" => burst[u] \in Nat
    BY <1>1 DEF LocalsOK
  <2>1. CASE u = t
    <3>1. inLoop[u]
      BY <1>1, <2>1 DEF Inv, LocalsOK, ChunkPoints
    <3> QED BY <1>0, <1>1, <1>3, <1>4, <2>1, <3>1 DEF Inv, LocalsOK, LoopPoints, ChunkPoints
  <2>2. CASE u # t
    BY <1>5, <2>2 DEF Inv, LocalsOK
  <2> QED BY <2>1, <2>2
<1>9. OwnerOK'
  <2> SUFFICES ASSUME NEW u \in Threads
               PROVE  /\ pc'[u] \in DispatchPoints =>
                           desc'[loop[u]].live /\ desc'[loop[u]].owner = u
                      /\ pc'[u] \in ChunkPoints =>
                           desc'[loop[u]].live /\ (desc'[loop[u]].owner = u \/ u \in AllWorkers)
                      /\ pc'[u] = "pfLeave" =>
                           desc'[loop[u]].live /\ desc'[loop[u]].owner # u /\ u \in AllWorkers
    BY <1>1 DEF OwnerOK
  <2>1. CASE u = t
    <3>1. /\ desc'[n].owner = desc[n].owner /\ desc'[n].live
          /\ desc[n].owner = t \/ t \in AllWorkers
      BY <1>0, <1>1, <1>3, <1>6 DEF Inv, OwnerOK, ChunkPoints
    <3> QED BY <1>0, <1>4, <2>1, <3>1 DEF DispatchPoints, ChunkPoints
  <2>2. CASE u # t
    <3>1. pc'[u] = pc[u]
      BY <1>5, <2>2
    <3>2. pc[u] \in DispatchPoints \cup ChunkPoints \cup {"pfLeave"} => loop[u] \in LoopIds
      BY LoopTypes DEF LoopPoints, DispatchPoints, ChunkPoints
    <3> QED BY <1>6, <3>1, <3>2 DEF Inv, OwnerOK
  <2> QED BY <2>1, <2>2
<1>10. CountOK'
  <2>1. ASSUME NEW l \in LoopIds PROVE Helpers(l)' = Helpers(l)
    <3> SUFFICES ASSUME NEW w \in AllWorkers, loop[w] = l, desc[l].owner # w
                 PROVE  pc'[w] \in ChunkPoints \cup {"pfLeave"}
                          <=> pc[w] \in ChunkPoints \cup {"pfLeave"}
      BY <1>1, <1>6, SameHelpers
    <3>1. w \in Threads
      BY DEF Threads
    <3>2. CASE w = t
      BY <1>0, <1>1, <1>4, <3>2 DEF ChunkPoints
    <3>3. CASE w # t
      BY <1>5, <3>1, <3>3
    <3> QED BY <3>2, <3>3
  <2> QED BY <1>6, <2>1 DEF Inv, CountOK
<1>11. PublishedOK'
  <2> SUFFICES ASSUME m_pfWork # 0
               PROVE  /\ m_pfWork \in LoopIds
                      /\ pc'[desc[m_pfWork].owner] \in PublishedPoints
    BY <1>1, <1>6 DEF Inv, PublishedOK
  <2> DEFINE u == desc[m_pfWork].owner
  <2>1. u \in Threads /\ pc[u] \in PublishedPoints /\ loop[u] = m_pfWork
    BY DEF Inv, PublishedOK
  <2>2. CASE u = t
    BY <1>0, <1>4, <2>1, <2>2, ReferencedLoops DEF PublishedPoints
  <2>3. CASE u # t
    BY <1>5, <2>1, <2>3, ReferencedLoops
  <2> QED BY <2>2, <2>3
<1> QED BY <1>8, <1>9, <1>10, <1>11 DEF Bookkeeping

(* fetch_sub takes the worker out of the count and of the helpers.         *)
LEMMA LeaveStep ==
  ASSUME Inv, NEW w \in AllWorkers, WorkerLeaveLoop(w)
  PROVE  Bookkeeping'
<1>0. PICK n : n = loop[w]
  OBVIOUS
<1>1. /\ pc[w] = "pfLeave" /\ inLoop' = inLoop /\ m_pfWork' = m_pfWork
      /\ burst' = burst /\ loops' = loops
      /\ desc' = [desc EXCEPT ![n] = [desc[n] EXCEPT !.activeWorkers = @ - 1]]
  BY <1>0 DEF WorkerLeaveLoop, ghosts, poolVars
<1>2. /\ w \in Threads
      /\ pc \in [Threads -> ControlPoints] /\ loop \in [Threads -> 0 .. MaxLoops]
      /\ desc \in [LoopIds -> DescType] /\ loops \in Nat
  BY BoundAssumption DEF Inv, TypeOK, LocalType, HistoryType, Threads
<1>3. n \in LoopIds /\ n # 0
  BY <1>0, <1>1, <1>2, LoopTypes DEF LoopPoints
<1>4. \/ pc'[w] = "pfNotify" /\ loop'[w] = n
      \/ pc'[w] = "loop" /\ loop'[w] = 0
  BY <1>0, <1>2 DEF WorkerLeaveLoop, Goto
<1>5. \A u \in Threads \ {w} : pc'[u] = pc[u] /\ loop'[u] = loop[u]
  BY <1>2 DEF WorkerLeaveLoop, Goto
<1>6. /\ \A l \in LoopIds : desc'[l].live = desc[l].live /\ desc'[l].owner = desc[l].owner
      /\ \A l \in LoopIds \ {n} : desc'[l].activeWorkers = desc[l].activeWorkers
      /\ desc'[n].activeWorkers = desc[n].activeWorkers - 1
  BY <1>1, <1>2, <1>3 DEF DescType
<1>7. LocalsOK'
  <2> SUFFICES ASSUME NEW u \in Threads
               PROVE  /\ loop'[u] = 0 <=> pc'[u] \notin LoopPoints
                      /\ loop'[u] <= loops
                      /\ inLoop[u] <=> pc'[u] \in ChunkPoints
                      /\ pc'[u] = "push" => burst[u] \in Nat
    BY <1>1 DEF LocalsOK
  <2>1. CASE u = w
    <3>1. ~ inLoop[u] /\ n <= loops
      BY <1>0, <1>1, <2>1 DEF Inv, LocalsOK, ChunkPoints
    <3> QED BY <1>2, <1>3, <1>4, <2>1, <3>1 DEF LoopPoints, ChunkPoints
  <2>2. CASE u # w
    BY <1>5, <2>2 DEF Inv, LocalsOK
  <2> QED BY <2>1, <2>2
<1>8. OwnerOK'
  <2> SUFFICES ASSUME NEW u \in Threads,
                      pc'[u] \in DispatchPoints \cup ChunkPoints \cup {"pfLeave"}
               PROVE  /\ pc'[u] = pc[u] /\ loop'[u] = loop[u] /\ loop[u] \in LoopIds
    BY <1>6 DEF Inv, OwnerOK
  <2>1. u # w
    BY <1>4 DEF DispatchPoints, ChunkPoints
  <2>2. pc'[u] = pc[u] /\ loop'[u] = loop[u]
    BY <1>5, <2>1
  <2> QED BY <2>2, LoopTypes DEF LoopPoints, DispatchPoints, ChunkPoints
<1>9. CountOK'
  <2>1. ASSUME NEW l \in LoopIds \ {n} PROVE Helpers(l)' = Helpers(l)
    <3> SUFFICES ASSUME NEW v \in AllWorkers
                 PROVE  (loop'[v] = l /\ pc'[v] \in ChunkPoints \cup {"pfLeave"})
                          <=> (loop[v] = l /\ pc[v] \in ChunkPoints \cup {"pfLeave"})
      BY <1>6, SameHelpers
    <3>1. v \in Threads
      BY DEF Threads
    <3>2. CASE v = w
      BY <1>0, <1>4, <3>2 DEF ChunkPoints
    <3>3. CASE v # w
      BY <1>5, <3>1, <3>3
    <3> QED BY <3>2, <3>3
  <2>2. Helpers(n)' = Helpers(n) \ {w}
    <3> SUFFICES ASSUME NEW v \in AllWorkers
                 PROVE  (loop'[v] = n /\ pc'[v] \in ChunkPoints \cup {"pfLeave"})
                          <=> (v # w /\ loop[v] = n /\ pc[v] \in ChunkPoints \cup {"pfLeave"})
      BY <1>3, <1>6 DEF Helpers
    <3>1. v \in Threads
      BY DEF Threads
    <3>2. CASE v = w
      BY <1>4, <3>2 DEF ChunkPoints
    <3>3. CASE v # w
      BY <1>5, <3>1, <3>3
    <3> QED BY <3>2, <3>3
  <2>3. w \in Helpers(n)
    BY <1>0, <1>1, <1>2 DEF Inv, OwnerOK, Helpers
  <2>4. Cardinality(Helpers(n) \ {w}) = Cardinality(Helpers(n)) - 1
    BY <2>3, HelpersFinite, FS_RemoveElement
  <2>5. desc'[n].activeWorkers = Cardinality(Helpers(n)')
    BY <1>3, <1>6, <2>2, <2>4 DEF Inv, CountOK
  <2>6. ASSUME NEW l \in LoopIds \ {n} PROVE desc'[l].activeWorkers = Cardinality(Helpers(l)')
    BY <1>6, <2>1 DEF Inv, CountOK
  <2> QED BY <2>5, <2>6 DEF CountOK
<1>10. PublishedOK'
  <2> SUFFICES ASSUME m_pfWork # 0
               PROVE  /\ m_pfWork \in LoopIds
                      /\ loop'[desc[m_pfWork].owner] = loop[desc[m_pfWork].owner]
                      /\ pc'[desc[m_pfWork].owner] = pc[desc[m_pfWork].owner]
    BY <1>1, <1>6 DEF Inv, PublishedOK
  <2>1. desc[m_pfWork].owner \in Threads \ {w}
    BY <1>1 DEF Inv, PublishedOK, PublishedPoints
  <2> QED BY <1>5, <2>1, ReferencedLoops
<1> QED BY <1>7, <1>8, <1>9, <1>10 DEF Bookkeeping

(* The late notify touches no descriptor.                                  *)
LEMMA NotifyLoopStep ==
  ASSUME Inv, NEW w \in AllWorkers, WorkerNotifyLoop(w)
  PROVE  Bookkeeping'
<1>1. /\ pc[w] = "pfNotify" /\ inLoop' = inLoop /\ m_pfWork' = m_pfWork /\ desc' = desc
      /\ burst' = burst /\ loops' = loops
  BY DEF WorkerNotifyLoop, ghosts, poolVars
<1>2. /\ w \in Threads
      /\ pc \in [Threads -> ControlPoints] /\ loop \in [Threads -> 0 .. MaxLoops] /\ loops \in Nat
  BY BoundAssumption DEF Inv, TypeOK, LocalType, HistoryType, Threads
<1>3. pc'[w] = "loop" /\ loop'[w] = 0
  BY <1>2 DEF WorkerNotifyLoop
<1>4. \A u \in Threads \ {w} : SameClass(pc[u], pc'[u]) /\ loop'[u] = loop[u]
                                /\ (pc'[u] = "push" => pc[u] = "push")
  BY <1>2 DEF WorkerNotifyLoop, SameClass, LoopPoints, DispatchPoints, ChunkPoints, PublishedPoints
<1>5. LocalsOK'
  <2> SUFFICES ASSUME NEW u \in Threads
               PROVE  /\ loop'[u] = 0 <=> pc'[u] \notin LoopPoints
                      /\ loop'[u] <= loops
                      /\ inLoop[u] <=> pc'[u] \in ChunkPoints
                      /\ pc'[u] = "push" => burst[u] \in Nat
    BY <1>1 DEF LocalsOK
  <2>1. CASE u = w
    <3>1. ~ inLoop[u]
      BY <1>1, <2>1 DEF Inv, LocalsOK, ChunkPoints
    <3> QED BY <1>2, <1>3, <2>1, <3>1 DEF LoopPoints, ChunkPoints
  <2>2. CASE u # w
    BY <1>4, <2>2 DEF Inv, LocalsOK, SameClass
  <2> QED BY <2>1, <2>2
<1>6. OwnerOK'
  <2> SUFFICES ASSUME NEW u \in Threads,
                      pc'[u] \in DispatchPoints \cup ChunkPoints \cup {"pfLeave"}
               PROVE  SameClass(pc[u], pc'[u]) /\ loop'[u] = loop[u]
    BY <1>1 DEF Inv, OwnerOK, SameClass
  <2> QED BY <1>3, <1>4 DEF DispatchPoints, ChunkPoints
<1>7. CountOK'
  <2>1. ASSUME NEW l \in LoopIds PROVE Helpers(l)' = Helpers(l)
    <3> SUFFICES ASSUME NEW v \in AllWorkers
                 PROVE  (loop'[v] = l /\ pc'[v] \in ChunkPoints \cup {"pfLeave"})
                          <=> (loop[v] = l /\ pc[v] \in ChunkPoints \cup {"pfLeave"})
      BY <1>1, SameHelpers
    <3>1. v \in Threads
      BY DEF Threads
    <3>2. CASE v = w
      BY <1>1, <1>3, <3>2 DEF ChunkPoints
    <3>3. CASE v # w
      BY <1>4, <3>1, <3>3 DEF SameClass
    <3> QED BY <3>2, <3>3
  <2> QED BY <1>1, <2>1 DEF Inv, CountOK
<1>8. PublishedOK'
  <2>1. m_pfWork # 0 => desc[m_pfWork].owner \in Threads \ {w}
    BY <1>1 DEF Inv, PublishedOK, PublishedPoints
  <2> QED BY <1>1, <1>4, <2>1 DEF Inv, PublishedOK, SameClass
<1> QED BY <1>5, <1>6, <1>7, <1>8 DEF Bookkeeping

(* A worker that picks up the pointer becomes a counted helper.            *)
LEMMA TakeLoopStep ==
  ASSUME Inv, NEW w \in AllWorkers, WorkerTakeLoop(w)
  PROVE  Bookkeeping'
<1>0. PICK n : n = m_pfWork
  OBVIOUS
<1>1. /\ pc[w] = "loop" /\ n # 0 /\ m_pfWork' = n /\ burst' = burst /\ loops' = loops
      /\ desc' = [desc EXCEPT ![n] = [desc[n] EXCEPT !.activeWorkers = @ + 1]]
      /\ loop' = [loop EXCEPT ![w] = n] /\ inLoop' = [inLoop EXCEPT ![w] = TRUE]
      /\ pc' = [pc EXCEPT ![w] = "claim"]
  BY <1>0 DEF WorkerTakeLoop, AtLoop, hasParallelWork, Goto, ghosts, poolVars
<1>2. /\ w \in Threads
      /\ pc \in [Threads -> ControlPoints] /\ loop \in [Threads -> 0 .. MaxLoops]
      /\ inLoop \in [Threads -> BOOLEAN]
      /\ desc \in [LoopIds -> DescType] /\ loops \in Nat
  BY BoundAssumption DEF Inv, TypeOK, LocalType, HistoryType, Threads
<1>3. n \in LoopIds /\ n <= loops
  BY <1>0, <1>1, <1>2, ReferencedLoops
<1>4. desc[n].live /\ desc[n].owner \in Threads \ {w}
  BY <1>0, <1>1 DEF Inv, PublishedOK, PublishedPoints
<1>5. /\ pc'[w] = "claim" /\ loop'[w] = n /\ inLoop'[w] = TRUE
      /\ \A u \in Threads \ {w} : pc'[u] = pc[u] /\ loop'[u] = loop[u] /\ inLoop'[u] = inLoop[u]
  BY <1>1, <1>2
<1>6. /\ \A l \in LoopIds : desc'[l].live = desc[l].live /\ desc'[l].owner = desc[l].owner
      /\ \A l \in LoopIds \ {n} : desc'[l].activeWorkers = desc[l].activeWorkers
      /\ desc'[n].activeWorkers = desc[n].activeWorkers + 1
  BY <1>1, <1>2, <1>3 DEF DescType
<1>7. LocalsOK'
  <2> SUFFICES ASSUME NEW u \in Threads
               PROVE  /\ loop'[u] = 0 <=> pc'[u] \notin LoopPoints
                      /\ loop'[u] <= loops
                      /\ inLoop'[u] <=> pc'[u] \in ChunkPoints
                      /\ pc'[u] = "push" => burst[u] \in Nat
    BY <1>1 DEF LocalsOK
  <2>1. CASE u = w
    BY <1>1, <1>3, <1>5, <2>1 DEF LoopPoints, ChunkPoints
  <2>2. CASE u # w
    BY <1>5, <2>2 DEF Inv, LocalsOK
  <2> QED BY <2>1, <2>2
<1>8. OwnerOK'
  <2> SUFFICES ASSUME NEW u \in Threads
               PROVE  /\ pc'[u] \in DispatchPoints =>
                           desc'[loop'[u]].live /\ desc'[loop'[u]].owner = u
                      /\ pc'[u] \in ChunkPoints =>
                           desc'[loop'[u]].live /\ (desc'[loop'[u]].owner = u \/ u \in AllWorkers)
                      /\ pc'[u] = "pfLeave" =>
                           desc'[loop'[u]].live /\ desc'[loop'[u]].owner # u /\ u \in AllWorkers
    BY DEF OwnerOK
  <2>1. CASE u = w
    BY <1>3, <1>4, <1>5, <1>6, <2>1 DEF DispatchPoints, ChunkPoints
  <2>2. CASE u # w
    <3>1. pc'[u] = pc[u] /\ loop'[u] = loop[u]
      BY <1>5, <2>2
    <3>2. pc[u] \in DispatchPoints \cup ChunkPoints \cup {"pfLeave"} => loop[u] \in LoopIds
      BY LoopTypes DEF LoopPoints, DispatchPoints, ChunkPoints
    <3> QED BY <1>6, <3>1, <3>2 DEF Inv, OwnerOK
  <2> QED BY <2>1, <2>2
<1>9. CountOK'
  <2>0. loop[w] = 0
    BY <1>1, <1>2 DEF Inv, LocalsOK, LoopPoints
  <2>1. ASSUME NEW l \in LoopIds \ {n} PROVE Helpers(l)' = Helpers(l)
    <3> SUFFICES ASSUME NEW v \in AllWorkers
                 PROVE  (loop'[v] = l /\ pc'[v] \in ChunkPoints \cup {"pfLeave"})
                          <=> (loop[v] = l /\ pc[v] \in ChunkPoints \cup {"pfLeave"})
      BY <1>6, SameHelpers
    <3>1. v \in Threads
      BY DEF Threads
    <3>2. CASE v = w
      BY <1>1, <1>5, <3>2 DEF ChunkPoints
    <3>3. CASE v # w
      BY <1>5, <3>1, <3>3
    <3> QED BY <3>2, <3>3
  <2>2. Helpers(n)' = Helpers(n) \cup {w}
    <3> SUFFICES ASSUME NEW v \in AllWorkers
                 PROVE  (loop'[v] = n /\ pc'[v] \in ChunkPoints \cup {"pfLeave"})
                          <=> (v = w \/ (loop[v] = n /\ pc[v] \in ChunkPoints \cup {"pfLeave"}))
      BY <1>3, <1>4, <1>6 DEF Helpers
    <3>1. v \in Threads
      BY DEF Threads
    <3>2. CASE v = w
      BY <1>5, <3>2 DEF ChunkPoints
    <3>3. CASE v # w
      BY <1>5, <3>1, <3>3
    <3> QED BY <3>2, <3>3
  <2>3. w \notin Helpers(n)
    BY <1>1, <2>0 DEF Helpers
  <2>4. Cardinality(Helpers(n) \cup {w}) = Cardinality(Helpers(n)) + 1
    BY <2>3, HelpersFinite, FS_AddElement
  <2>5. desc'[n].activeWorkers = Cardinality(Helpers(n)')
    BY <1>3, <1>6, <2>2, <2>4 DEF Inv, CountOK
  <2>6. ASSUME NEW l \in LoopIds \ {n} PROVE desc'[l].activeWorkers = Cardinality(Helpers(l)')
    BY <1>6, <2>1 DEF Inv, CountOK
  <2> QED BY <2>5, <2>6 DEF CountOK
<1>10. PublishedOK'
  BY <1>0, <1>1, <1>3, <1>4, <1>5, <1>6 DEF Inv, PublishedOK
<1> QED BY <1>7, <1>8, <1>9, <1>10 DEF Bookkeeping
-----------------------------------------------------------------------------
(* The invariant holds of a new pool,                                      *)
LEMMA InitInv == Init => Inv
<1> SUFFICES ASSUME Init PROVE Inv
  OBVIOUS
<1> USE DEF Init
<1>1. NoDesc \in DescType
  BY DEF NoDesc, DescType
<1>2. TypeOK
  BY <1>1, BoundAssumption DEF TypeOK, PoolType, LocalType, HistoryType, ControlPoints
<1>3. LocalsOK
  BY BoundAssumption DEF LocalsOK, LoopPoints, ChunkPoints
<1>4. OwnerOK
  BY DEF OwnerOK, DispatchPoints, ChunkPoints
<1>5. CountOK
  <2>1. ASSUME NEW l \in LoopIds PROVE Helpers(l) = {}
    BY DEF Helpers, Threads, ChunkPoints
  <2> QED BY <2>1, FS_EmptySet DEF CountOK, NoDesc
<1>6. PublishedOK
  BY DEF PublishedOK
<1> QED BY <1>2, <1>3, <1>4, <1>5, <1>6 DEF Inv

(* is kept by every step,                                                  *)
LEMMA NextInv == Inv /\ [Next]_vars => Inv'
<1> SUFFICES ASSUME Inv, [Next]_vars PROVE TypeOK' /\ Bookkeeping'
  BY DEF Inv, Bookkeeping
<1>1. ASSUME NEW t \in Threads, Call(t) PROVE TypeOK' /\ Bookkeeping'
  BY <1>1, EnqueueType, ParallelForType, QuietOperations, QuietStep, EnterStep DEF Call, Bookkeeping
<1>2. ASSUME NEW t \in Threads, Step(t) PROVE TypeOK' /\ Bookkeeping'
  <2>1. TypeOK'
    BY <1>2, EnqueueType, DispatchType, ChunkType DEF Step
  <2> QED BY <1>2, <2>1, QuietOperations, QuietStep, PublishStep, NotifyStep, AwaitStep,
             ReturnStep, ClaimStep DEF Step, Bookkeeping
<1>3. ASSUME NEW w \in AllWorkers, WorkerStep(w) \/ SpuriousWake(w) PROVE TypeOK' /\ Bookkeeping'
  BY <1>3, WorkerType, QuietOperations, QuietStep, LeaveStep, NotifyLoopStep, TakeLoopStep
     DEF WorkerStep, Bookkeeping
<1>4. ASSUME NEW c \in Clients, WaitCall(c) \/ DestroyCall(c) \/ ClientStep(c)
      PROVE  TypeOK' /\ Bookkeeping'
  BY <1>4, ClientType, QuietOperations, QuietStep DEF Bookkeeping
<1>5. CASE UNCHANGED vars
  <2>1. TypeOK'
    BY <1>5 DEF Inv, TypeOK, PoolType, LocalType, HistoryType, vars
  <2> QED BY <1>5, <2>1, QuietOperations, QuietStep DEF Bookkeeping
<1> QED BY <1>1, <1>2, <1>3, <1>4, <1>5 DEF Next, Terminated

(* and so holds always.                                                    *)
LEMMA PoolInvariant == Spec => []Inv
BY InitInv, NextInv, PTL DEF Spec

(* Every member, descriptor and local keeps its type; activeWorkers, an
   unsigned counter that workerLoop decrements, never wraps below zero.    *)
THEOREM TypeCorrect == Spec => []TypeOK
<1>1. Inv => TypeOK
  BY DEF Inv
<1> QED BY <1>1, PoolInvariant, PTL

(* For any number of workers, callers and loops, no thread touches a
   ParallelForDesc after dispatchParallelFor has returned.                 *)
THEOREM DescriptorSafe == Spec => []DescriptorOutlivesUse
<1>1. Inv => DescriptorOutlivesUse
  <2> SUFFICES ASSUME Inv PROVE DescriptorOutlivesUse
    OBVIOUS
  <2>1. m_pfWork # 0 => desc[m_pfWork].live
    BY DEF Inv, PublishedOK
  <2>2. ASSUME NEW t \in Threads, loop[t] # 0, pc[t] # "pfNotify" PROVE desc[loop[t]].live
    <3>1. pc[t] \in DispatchPoints \cup ChunkPoints \cup {"pfLeave"}
      BY <2>2 DEF Inv, LocalsOK, LoopPoints, DispatchPoints, ChunkPoints
    <3> QED BY <3>1 DEF Inv, OwnerOK
  <2> QED BY <2>1, <2>2 DEF DescriptorOutlivesUse
<1> QED BY <1>1, PoolInvariant, PTL

(* No chunk of a loop ever waits for m_pfMutex, so a parallelFor nested in a
   chunk cannot deadlock with the dispatcher that waits for the chunk.     *)
THEOREM NestedLoopsSerial == Spec => []ChunkNeverDispatches
<1>1. Inv => ChunkNeverDispatches
  BY DEF Inv, LocalsOK, ChunkNeverDispatches, ChunkPoints
<1> QED BY <1>1, PoolInvariant, PTL
-----------------------------------------------------------------------------
(* The chunks of a descriptor tile [begin, end): the first starts at begin,
   each next one starts where the one before ends, none is empty, and the last ends
   at end.  This is the arithmetic by which parallelFor runs every index once
   however the chunks are claimed (processParallelFor, dispatchParallelFor). *)
THEOREM ChunksTile ==
  ASSUME NEW b \in Nat, NEW count \in Nat, NEW n \in Nat, 0 < n, n <= count,
         NEW d, d.begin = b, d.chunkSize = count \div n, d.remainder = count % n
  PROVE  /\ ChunkBegin(d, 0) = b
         /\ \A c \in 0 .. (n - 1) : ChunkEnd(d, c) = ChunkBegin(d, c + 1)
         /\ \A c \in 0 .. (n - 1) : ChunkBegin(d, c) < ChunkEnd(d, c)
         /\ ChunkEnd(d, n - 1) = b + count
<1> DEFINE q == count \div n
           m == count % n
<1>1. q \in Nat /\ m \in 0 .. (n - 1) /\ count = n * q + m
  OBVIOUS
<1>2. q > 0
  <2> SUFFICES ASSUME q = 0 PROVE FALSE
    BY <1>1
  <2> QED BY <1>1
<1>3. d.chunkSize = q /\ d.remainder = m
  OBVIOUS
<1> HIDE DEF q, m
<1>4. ChunkBegin(d, 0) = b
  BY <1>1, <1>3 DEF ChunkBegin
<1>5. ASSUME NEW c \in 0 .. (n - 1)
      PROVE  ChunkEnd(d, c) = ChunkBegin(d, c + 1) /\ ChunkBegin(d, c) < ChunkEnd(d, c)
  <2>1. (c + 1) * q = c * q + q /\ c * q \in Nat
    BY <1>1
  <2> QED BY <1>1, <1>2, <1>3, <2>1 DEF ChunkBegin, ChunkEnd
<1>6. ChunkBegin(d, n) = b + count
  BY <1>1, <1>3 DEF ChunkBegin
<1>7. ChunkEnd(d, n - 1) = b + count
  BY <1>5, <1>6
<1> QED BY <1>4, <1>5, <1>7
-----------------------------------------------------------------------------
(* The tasks.  Every task is pushed, then queued, then held by one worker,
   then finished, and is in one of these places at a time; so the tasks that
   m_pendingCount counts are the unfinished ones and those whose worker has
   not yet decremented it.                                                 *)

ClosePoints == {"closeLoad", "closeFutex", "closeAsleep", "join"}

Unfinished == (1 .. issued) \ finished
Retiring == {w \in AllWorkers : pc[w] = "retire"}
Queued(k) == \E i \in 1 .. Len(m_tasks) : m_tasks[i] = k
Pushes(t, k) == pc[t] = "push" /\ seen[t] < k /\ k <= seen[t] + burst[t]
InTask(w) ==
  \/ pc[w] \in {"task", "push", "notify"} \cup DispatchPoints
  \/ pc[w] \in ChunkPoints /\ desc[loop[w]].owner = w

QueueOK ==
  /\ \A i \in 1 .. Len(m_tasks) : m_tasks[i] \in Unfinished
  /\ \A i, j \in 1 .. Len(m_tasks) : m_tasks[i] = m_tasks[j] => i = j

ItemsOK ==
  \A w \in AllWorkers :
    /\ InTask(w) => item[w] # 0
    /\ item[w] # 0 => /\ item[w] \in Unfinished /\ ~ Queued(item[w])
                      /\ \A v \in AllWorkers : item[v] = item[w] => v = w

PushOK ==
  \A t \in Threads :
    pc[t] = "push" =>
      /\ burst[t] >= 1 /\ seen[t] + burst[t] <= issued
      /\ \A k \in 1 .. issued :
           Pushes(t, k) => /\ k \notin finished /\ ~ Queued(k)
                           /\ \A w \in AllWorkers : item[w] # k
                           /\ \A u \in Threads : Pushes(u, k) => u = t

CloseOK ==
  \A c, d \in Clients : pc[c] \in ClosePoints /\ d # c => pc[d] = "gone"

HistoryOK == finished \subseteq 1 .. issued /\ \A t \in Threads : before[t] <= issued

TaskInv ==
  /\ HistoryOK /\ QueueOK /\ ItemsOK /\ PushOK /\ CloseOK
  /\ PendingExact /\ DestructionDrains

(* What a step that moves no task does: it leaves the queue, the items and
   the counts alone, starts no push and retires no worker.                 *)
TaskQuiet ==
  /\ m_tasks' = m_tasks /\ item' = item /\ finished' = finished /\ issued' = issued
  /\ m_pendingCount' = m_pendingCount
  /\ \A t \in Threads :
       /\ pc'[t] = "push" => pc[t] = "push" /\ seen'[t] = seen[t] /\ burst'[t] = burst[t]
       /\ pc'[t] = "retire" <=> pc[t] = "retire"
       /\ before'[t] <= issued
  /\ \A w \in AllWorkers : InTask(w)' => InTask(w)
  /\ \A c \in Clients : pc'[c] = "join" => pc[c] = "join"

(* What a step does that closes nothing: no thread is recalled from "gone"
   and none starts to destroy the pool.                                    *)
CloseQuiet ==
  \A d \in Clients : /\ pc[d] = "gone" => pc'[d] = "gone"
                     /\ pc'[d] \in ClosePoints => pc[d] \in ClosePoints

TaskParts == HistoryOK /\ QueueOK /\ ItemsOK /\ PushOK /\ PendingExact /\ DestructionDrains

(* The sets that PendingExact counts are finite.                           *)
LEMMA CountedFinite ==
  ASSUME Inv
  PROVE  /\ IsFiniteSet(Unfinished) /\ Cardinality(Unfinished) \in Nat
         /\ IsFiniteSet(Retiring) /\ Cardinality(Retiring) \in Nat
         /\ issued \in Nat
<1>0. issued \in Nat
  BY BoundAssumption DEF Inv, TypeOK, HistoryType
<1>1. IsFiniteSet(1 .. issued) /\ Unfinished \subseteq 1 .. issued
  BY <1>0, FS_Interval DEF Unfinished
<1>2. IsFiniteSet(Unfinished)
  BY <1>1, FS_Subset
<1>3. Retiring \subseteq AllWorkers /\ IsFiniteSet(AllWorkers)
  BY ThreadAssumption DEF Retiring
<1>4. IsFiniteSet(Retiring)
  BY <1>3, FS_Subset
<1> QED BY <1>0, <1>2, <1>4, FS_CardinalityType

(* The count of pending tasks, in the terms above.                         *)
LEMMA PendingCount ==
  ASSUME PendingExact
  PROVE  m_pendingCount = Cardinality(Unfinished) + Cardinality(Retiring)
BY DEF PendingExact, Unfinished, Retiring

(* A step that moves no task keeps the accounting of tasks.                *)
LEMMA TaskQuietStep ==
  ASSUME Inv, TaskInv, TaskQuiet
  PROVE  TaskParts'
<1> USE DEF TaskInv, TaskQuiet
<1>1. HistoryOK'
  BY DEF HistoryOK
<1>2. QueueOK'
  BY DEF QueueOK, Unfinished
<1>3. ItemsOK'
  BY DEF ItemsOK, Unfinished, Queued
<1>4. PushOK'
  BY DEF PushOK, Pushes, Queued
<1>5. PendingExact'
  <2>1. {w \in AllWorkers : pc'[w] = "retire"} = {w \in AllWorkers : pc[w] = "retire"}
    BY DEF Threads
  <2> QED BY <2>1 DEF PendingExact
<1>6. DestructionDrains'
  BY DEF DestructionDrains
<1> QED BY <1>1, <1>2, <1>3, <1>4, <1>5, <1>6 DEF TaskParts

(* Closing is settled by the one caller that destroys the pool.            *)
LEMMA CloseQuietStep ==
  ASSUME CloseOK, CloseQuiet
  PROVE  CloseOK'
BY DEF CloseOK, CloseQuiet

(* No step but DestroyCall begins the destruction of the pool.             *)
LEMMA CloseSteps ==
  ASSUME Inv, CloseOK, [Next]_vars
  PROVE  CloseOK'
<1> USE DEF Goto
<1>0. pc \in [Threads -> ControlPoints] /\ Clients \subseteq Threads /\ AllWorkers \subseteq Threads
      /\ AllWorkers \cap Clients = {}
  BY ThreadAssumption DEF Inv, TypeOK, LocalType, Threads
<1>1. ASSUME NEW t \in Threads, Call(t) PROVE CloseQuiet
  BY <1>0, <1>1 DEF CloseQuiet, ClosePoints, Call, EnqueueInline, EnqueueCount, ParallelForSerial,
                    ParallelForEnter, CanCall, Home
<1>2. ASSUME NEW t \in Threads, Step(t) PROVE CloseQuiet
  <2>1. CASE EnqueuePush(t) \/ EnqueueNotify(t)
    BY <1>0, <2>1 DEF CloseQuiet, ClosePoints, EnqueuePush, EnqueueNotify, Home
  <2>2. CASE DispatchLock(t) \/ DispatchPublish(t) \/ DispatchNotify(t) \/ DispatchAwait(t)
    BY <1>0, <2>2 DEF CloseQuiet, ClosePoints, DispatchLock, DispatchPublish, DispatchNotify,
                      DispatchAwait
  <2>3. CASE DispatchDrainLoad(t) \/ DispatchDrainWait(t) \/ DispatchReturn(t)
    BY <1>0, <2>3 DEF CloseQuiet, ClosePoints, DispatchDrainLoad, DispatchDrainWait,
                      DispatchReturn, Home
  <2>4. CASE ClaimChunk(t) \/ RunChunk(t) \/ CountDown(t)
    BY <1>0, <2>4 DEF CloseQuiet, ClosePoints, ClaimChunk, RunChunk, CountDown
  <2> QED BY <1>2, <2>1, <2>2, <2>3, <2>4 DEF Step
<1>3. ASSUME NEW w \in AllWorkers, WorkerStep(w) \/ SpuriousWake(w) PROVE CloseQuiet
  <2>1. CASE WorkerNotifyLoop(w)
    BY <1>0, <2>1 DEF CloseQuiet, ClosePoints, WorkerNotifyLoop
  <2>2. CASE WorkerNotifyPending(w)
    BY <1>0, <2>2 DEF CloseQuiet, ClosePoints, WorkerNotifyPending
  <2>3. CASE \/ WorkerLeaveLoop(w) \/ WorkerTakeLoop(w) \/ WorkerTakeTask(w) \/ WorkerSleep(w)
             \/ WorkerExit(w) \/ WorkerFinishTask(w) \/ WorkerRetireTask(w) \/ SpuriousWake(w)
    <3>1. \A d \in Clients : pc'[d] = pc[d]
      BY <1>0, <2>3 DEF WorkerLeaveLoop, WorkerTakeLoop, WorkerTakeTask, WorkerSleep, WorkerExit,
                        WorkerFinishTask, WorkerRetireTask, SpuriousWake
    <3> QED BY <3>1 DEF CloseQuiet
  <2> QED BY <1>3, <2>1, <2>2, <2>3 DEF WorkerStep
<1>4. ASSUME NEW c \in Clients, WaitCall(c) \/ ClientStep(c) PROVE CloseQuiet
  <2>1. CASE WaitCall(c)
    BY <1>0, <2>1 DEF CloseQuiet, ClosePoints, WaitCall
  <2>2. CASE ClientStep(c)
    BY <1>0, <2>2 DEF CloseQuiet, ClosePoints, ClientStep, WaitReturn, WaitLoad, WaitFutex,
                      JoinWorker, JoinReturn
  <2> QED BY <1>4, <2>1, <2>2
<1>5. ASSUME NEW c \in Clients, DestroyCall(c) PROVE CloseOK'
  BY <1>0, <1>5 DEF DestroyCall, CloseOK, ClosePoints
<1>6. CASE UNCHANGED vars
  BY <1>6 DEF vars, CloseOK
<1> QED BY <1>1, <1>2, <1>3, <1>4, <1>5, <1>6, CloseQuietStep DEF Next, Terminated

(* A worker that steps into a call, or on within one, is still in its task:
   only taking a task and finishing it change that.                        *)
LEMMA StaysInTask ==
  ASSUME Inv, Quiet,
         \A w \in AllWorkers : pc'[w] \in {"task", "push", "notify"}
                                 => pc[w] \in {"task", "push", "notify"}
  PROVE  \A w \in AllWorkers : InTask(w)' => InTask(w)
<1> SUFFICES ASSUME NEW w \in AllWorkers, InTask(w)' PROVE InTask(w)
  OBVIOUS
<1>0. w \in Threads
  BY DEF Threads
<1>1. CASE pc'[w] \in {"task", "push", "notify"}
  BY <1>1 DEF InTask
<1>2. CASE pc'[w] \in DispatchPoints
  BY <1>0, <1>2 DEF InTask, Quiet, SameClass
<1>3. CASE pc'[w] \in ChunkPoints /\ desc'[loop'[w]].owner = w
  <2>1. pc[w] \in ChunkPoints /\ loop'[w] = loop[w]
    BY <1>0, <1>3 DEF Quiet, SameClass
  <2>2. loop[w] \in LoopIds /\ loop[w] <= loops
    BY <1>0, <2>1, LoopTypes DEF Inv, LocalsOK, ChunkPoints, LoopPoints
  <2>3. desc[loop[w]].owner = w
    BY <1>3, <2>1, <2>2 DEF Quiet
  <2> QED BY <2>1, <2>3 DEF InTask
<1> QED BY <1>1, <1>2, <1>3 DEF InTask

(* The operations of Quiet that move no task.                              *)
LEMMA QuietMovesNoTask ==
  ASSUME Inv, TaskInv,
         \/ \E t \in Threads :
              \/ EnqueueNotify(t)
              \/ (\E r \in Requests : ParallelForSerial(t, r))
              \/ DispatchLock(t) \/ DispatchDrainLoad(t) \/ DispatchDrainWait(t)
              \/ RunChunk(t) \/ CountDown(t)
         \/ \E w \in AllWorkers :
              WorkerSleep(w) \/ WorkerExit(w) \/ WorkerNotifyPending(w) \/ SpuriousWake(w)
         \/ \E c \in Clients :
              \/ WaitCall(c) \/ DestroyCall(c) \/ WaitLoad(c) \/ WaitFutex(c)
              \/ (\E w \in AllWorkers : JoinWorker(c, w))
              \/ JoinReturn(c)
         \/ UNCHANGED vars
  PROVE  TaskQuiet
<1> USE DEF poolVars, ghosts, Goto
<1> DEFINE Calm == \A t \in Threads :
                     /\ pc'[t] = "push" => pc[t] = "push" /\ seen'[t] = seen[t] /\ burst'[t] = burst[t]
                     /\ pc'[t] = "retire" <=> pc[t] = "retire"
                     /\ before'[t] <= issued
                     /\ pc'[t] = "join" => pc[t] = "join"
                     /\ t \in AllWorkers /\ pc'[t] \in {"task", "push", "notify"}
                          => pc[t] \in {"task", "push", "notify"}
           Fixed == /\ m_tasks' = m_tasks /\ item' = item /\ finished' = finished
                    /\ issued' = issued /\ m_pendingCount' = m_pendingCount
<1>0. /\ pc \in [Threads -> ControlPoints] /\ seen \in [Threads -> Nat] /\ burst \in [Threads -> Int]
      /\ before \in [Threads -> Nat] /\ issued \in Nat
      /\ AllWorkers \subseteq Threads /\ Clients \subseteq Threads /\ AllWorkers \cap Clients = {}
      /\ \A t \in Threads : before[t] <= issued
  BY ThreadAssumption, BoundAssumption
     DEF Inv, TypeOK, LocalType, HistoryType, Threads, TaskInv, HistoryOK
<1>1. Quiet
  BY QuietOperations DEF ClientStep
<1>2. Calm /\ Fixed
  <2>1. ASSUME NEW t \in Threads, EnqueueNotify(t) PROVE Calm /\ Fixed
    BY <1>0, <2>1 DEF EnqueueNotify, Home
  <2>2. ASSUME NEW t \in Threads, NEW r \in Requests, ParallelForSerial(t, r) PROVE Calm /\ Fixed
    BY <1>0, <2>2 DEF ParallelForSerial
  <2>3. ASSUME NEW t \in Threads, \/ DispatchLock(t) \/ DispatchDrainLoad(t) \/ DispatchDrainWait(t)
                                  \/ RunChunk(t) \/ CountDown(t)
        PROVE  Calm /\ Fixed
    BY <1>0, <2>3 DEF DispatchLock, DispatchDrainLoad, DispatchDrainWait, RunChunk, CountDown
  <2>4. ASSUME NEW w \in AllWorkers, WorkerSleep(w) \/ WorkerExit(w) \/ SpuriousWake(w)
        PROVE  Calm /\ Fixed
    BY <1>0, <2>4 DEF WorkerSleep, WorkerExit, SpuriousWake, AtLoop
  <2>5. ASSUME NEW w \in AllWorkers, WorkerNotifyPending(w) PROVE Calm /\ Fixed
    BY <1>0, <2>5 DEF WorkerNotifyPending
  <2>6. ASSUME NEW c \in Clients, WaitCall(c) PROVE Calm /\ Fixed
    BY <1>0, <2>6 DEF WaitCall
  <2>7. ASSUME NEW c \in Clients, DestroyCall(c) PROVE Calm /\ Fixed
    BY <1>0, <2>7 DEF DestroyCall
  <2>8. ASSUME NEW c \in Clients, \/ WaitLoad(c) \/ WaitFutex(c) \/ JoinReturn(c)
                                  \/ (\E w \in AllWorkers : JoinWorker(c, w))
        PROVE  Calm /\ Fixed
    BY <1>0, <2>8 DEF WaitLoad, WaitFutex, JoinReturn, JoinWorker
  <2>9. CASE UNCHANGED vars
    BY <1>0, <2>9 DEF vars
  <2> QED BY <2>1, <2>2, <2>3, <2>4, <2>5, <2>6, <2>7, <2>8, <2>9
<1>3. \A w \in AllWorkers : InTask(w)' => InTask(w)
  <2>1. \A w \in AllWorkers : pc'[w] \in {"task", "push", "notify"}
                                => pc[w] \in {"task", "push", "notify"}
    BY <1>0, <1>2
  <2> QED BY <1>1, <2>1, StaysInTask
<1> QED BY <1>0, <1>2, <1>3 DEF TaskQuiet

(* The steps of a loop move no task either: a dispatcher comes from its task
   and returns to it, and a helper is not in one.                          *)
LEMMA LoopMovesNoTask ==
  ASSUME Inv, TaskInv,
         \/ \E t \in Threads :
              \/ (\E r \in Requests : ParallelForEnter(t, r))
              \/ DispatchPublish(t) \/ DispatchNotify(t) \/ DispatchAwait(t)
              \/ DispatchReturn(t) \/ ClaimChunk(t)
         \/ \E w \in AllWorkers :
              WorkerLeaveLoop(w) \/ WorkerNotifyLoop(w) \/ WorkerTakeLoop(w)
  PROVE  TaskQuiet
<1> USE DEF poolVars, ghosts, Goto
<1> DEFINE Calm == \A t \in Threads :
                     /\ pc'[t] = "push" => pc[t] = "push" /\ seen'[t] = seen[t] /\ burst'[t] = burst[t]
                     /\ pc'[t] = "retire" <=> pc[t] = "retire"
                     /\ before'[t] <= issued
                     /\ pc'[t] = "join" => pc[t] = "join"
           Fixed == /\ m_tasks' = m_tasks /\ item' = item /\ finished' = finished
                    /\ issued' = issued /\ m_pendingCount' = m_pendingCount
           Same == \A w \in AllWorkers : InTask(w)' => InTask(w)
<1>0. /\ pc \in [Threads -> ControlPoints] /\ seen \in [Threads -> Nat] /\ burst \in [Threads -> Int]
      /\ before \in [Threads -> Nat] /\ issued \in Nat
      /\ loop \in [Threads -> 0 .. MaxLoops] /\ desc \in [LoopIds -> DescType]
      /\ AllWorkers \subseteq Threads /\ Clients \subseteq Threads /\ AllWorkers \cap Clients = {}
      /\ \A t \in Threads : before[t] <= issued
  BY ThreadAssumption, BoundAssumption
     DEF Inv, TypeOK, LocalType, HistoryType, Threads, TaskInv, HistoryOK
<1>a. \A w \in AllWorkers : pc[w] \in ChunkPoints => loop[w] \in LoopIds
  BY <1>0, LoopTypes DEF ChunkPoints, LoopPoints
<1>1. ASSUME NEW t \in Threads, NEW r \in Requests, ParallelForEnter(t, r) PROVE Calm /\ Fixed /\ Same
  <2>1. pc[t] = Home(t) /\ pc' = [pc EXCEPT ![t] = "pfLock"]
    BY <1>1 DEF ParallelForEnter, CanCall, RunsSerially, Inv, LocalsOK, ChunkPoints
  <2>2. Calm /\ Fixed
    BY <1>0, <1>1, <2>1 DEF ParallelForEnter, Home
  <2>3. Same
    <3> SUFFICES ASSUME NEW w \in AllWorkers, InTask(w)' PROVE InTask(w)
      OBVIOUS
    <3>1. CASE w = t
      BY <1>0, <2>1, <3>1 DEF InTask, Home
    <3>2. CASE w # t
      <4>1. pc'[w] = pc[w] /\ loop'[w] = loop[w]
        BY <1>0, <1>1, <2>1, <3>2 DEF ParallelForEnter
      <4>2. pc[w] \in ChunkPoints => desc'[loop[w]] = desc[loop[w]]
        <5>1. pc[w] \in ChunkPoints => loop[w] # loops + 1
          BY <1>0, ReferencedLoops, BoundAssumption DEF Inv, TypeOK, HistoryType
        <5> QED BY <1>0, <1>1, <1>a, <5>1 DEF ParallelForEnter
      <4> QED BY <4>1, <4>2 DEF InTask
    <3> QED BY <3>1, <3>2
  <2> QED BY <2>2, <2>3
<1>2. ASSUME NEW t \in Threads, DispatchPublish(t) \/ DispatchNotify(t) \/ DispatchAwait(t)
      PROVE  Calm /\ Fixed /\ Same
  <2>1. Calm /\ Fixed
    BY <1>0, <1>2 DEF DispatchPublish, DispatchNotify, DispatchAwait
  <2>2. pc[t] \in DispatchPoints /\ loop' = loop /\ desc' = desc
        /\ \A w \in Threads \ {t} : pc'[w] = pc[w]
    BY <1>0, <1>2 DEF DispatchPublish, DispatchNotify, DispatchAwait, DispatchPoints
  <2> QED BY <1>0, <2>1, <2>2 DEF InTask
<1>3. ASSUME NEW t \in Threads, DispatchReturn(t) PROVE Calm /\ Fixed /\ Same
  <2>1. Calm /\ Fixed
    BY <1>0, <1>3 DEF DispatchReturn, Home
  <2>2. /\ pc[t] \in DispatchPoints /\ pc'[t] = Home(t)
        /\ \A w \in Threads \ {t} : pc'[w] = pc[w] /\ loop'[w] = loop[w]
    BY <1>0, <1>3 DEF DispatchReturn, DispatchPoints
  <2>3. \A l \in LoopIds : desc'[l].owner = desc[l].owner
    BY <1>0, <1>3 DEF DispatchReturn, DescType
  <2> QED BY <1>0, <1>a, <2>1, <2>2, <2>3 DEF InTask
<1>4. ASSUME NEW t \in Threads, ClaimChunk(t) PROVE Calm /\ Fixed /\ Same
  <2>1. Calm /\ Fixed
    BY <1>0, <1>4 DEF ClaimChunk
  <2>2. /\ pc[t] \in ChunkPoints /\ loop' = loop
        /\ \A w \in Threads \ {t} : pc'[w] = pc[w]
        /\ \/ pc'[t] = "run" \/ (pc'[t] = "await" /\ desc[loop[t]].owner = t) \/ pc'[t] = "pfLeave"
    BY <1>0, <1>4 DEF ClaimChunk, ChunkPoints
  <2>3. \A l \in LoopIds : desc'[l].owner = desc[l].owner
    BY <1>0, <1>4 DEF ClaimChunk, DescType
  <2> SUFFICES ASSUME NEW w \in AllWorkers, InTask(w)' PROVE InTask(w)
    BY <2>1
  <2>4. CASE w = t
    BY <1>0, <1>a, <2>2, <2>3, <2>4 DEF InTask, ChunkPoints, DispatchPoints
  <2>5. CASE w # t
    BY <1>0, <1>a, <2>2, <2>3, <2>5 DEF InTask
  <2> QED BY <2>4, <2>5
<1>5. ASSUME NEW w \in AllWorkers, WorkerLeaveLoop(w) PROVE Calm /\ Fixed /\ Same
  <2>1. Calm /\ Fixed
    BY <1>0, <1>5 DEF WorkerLeaveLoop
  <2>2. /\ pc'[w] \in {"pfNotify", "loop"}
        /\ \A v \in Threads \ {w} : pc'[v] = pc[v] /\ loop'[v] = loop[v]
    BY <1>0, <1>5 DEF WorkerLeaveLoop
  <2>3. \A l \in LoopIds : desc'[l].owner = desc[l].owner
    BY <1>0, <1>5 DEF WorkerLeaveLoop, DescType
  <2> SUFFICES ASSUME NEW v \in AllWorkers, InTask(v)' PROVE InTask(v)
    BY <2>1
  <2>4. v # w
    BY <2>2 DEF InTask, ChunkPoints, DispatchPoints
  <2> QED BY <1>0, <1>a, <2>2, <2>3, <2>4 DEF InTask
<1>6. ASSUME NEW w \in AllWorkers, WorkerNotifyLoop(w) PROVE Calm /\ Fixed /\ Same
  <2>1. Calm /\ Fixed
    BY <1>0, <1>6 DEF WorkerNotifyLoop
  <2>2. /\ pc'[w] = "loop" /\ desc' = desc
        /\ \A v \in Threads \ {w} : /\ loop'[v] = loop[v]
                                    /\ \/ pc'[v] = pc[v]
                                       \/ pc[v] = "drainAsleep" /\ pc'[v] = "drainWait"
    BY <1>0, <1>6 DEF WorkerNotifyLoop
  <2> SUFFICES ASSUME NEW v \in AllWorkers, InTask(v)' PROVE InTask(v)
    BY <2>1
  <2>3. v # w
    BY <2>2 DEF InTask, ChunkPoints, DispatchPoints
  <2> QED BY <1>0, <2>2, <2>3 DEF InTask, DispatchPoints
<1>7. ASSUME NEW w \in AllWorkers, WorkerTakeLoop(w) PROVE Calm /\ Fixed /\ Same
  <2>1. Calm /\ Fixed
    BY <1>0, <1>7 DEF WorkerTakeLoop, AtLoop
  <2>2. /\ pc[w] = "loop" /\ pc'[w] = "claim" /\ loop'[w] = m_pfWork /\ m_pfWork # 0
        /\ \A v \in Threads \ {w} : pc'[v] = pc[v] /\ loop'[v] = loop[v]
    BY <1>0, <1>7 DEF WorkerTakeLoop, AtLoop, hasParallelWork
  <2>3. \A l \in LoopIds : desc'[l].owner = desc[l].owner
    BY <1>0, <1>7 DEF WorkerTakeLoop, DescType
  <2>4. m_pfWork \in LoopIds
    BY <2>2, ReferencedLoops
  <2>5. desc[m_pfWork].owner # w
    BY <2>2 DEF Inv, PublishedOK, PublishedPoints
  <2> SUFFICES ASSUME NEW v \in AllWorkers, InTask(v)' PROVE InTask(v)
    BY <2>1
  <2>6. v # w
    BY <2>2, <2>3, <2>4, <2>5 DEF InTask, DispatchPoints
  <2> QED BY <1>0, <1>a, <2>2, <2>3, <2>6 DEF InTask
<1> QED BY <1>0, <1>1, <1>2, <1>3, <1>4, <1>5, <1>6, <1>7 DEF TaskQuiet

(* No thread is at "join" while a task is unfinished or a caller is idle.  *)
LEMMA NobodyJoins ==
  ASSUME TaskInv, Unfinished # {}, NEW c \in Clients
  PROVE  pc[c] # "join"
BY DEF TaskInv, DestructionDrains, Unfinished

(* Without threads the task is issued and finished in one step.            *)
LEMMA EnqueueInlineTasks ==
  ASSUME Inv, TaskInv, NEW t \in Threads, EnqueueInline(t)
  PROVE  TaskParts'
<1> USE DEF TaskInv
<1>0. issued \in Nat /\ finished \subseteq 1 .. issued
  BY CountedFinite DEF HistoryOK
<1>1. /\ issued' = issued + 1 /\ finished' = finished \cup {issued + 1}
      /\ m_tasks' = m_tasks /\ item' = item /\ pc' = pc /\ loop' = loop /\ desc' = desc
      /\ seen' = seen /\ burst' = burst /\ before' = before /\ m_pendingCount' = m_pendingCount
  BY DEF EnqueueInline, poolVars
<1>2. Unfinished' = Unfinished
  BY <1>0, <1>1 DEF Unfinished
<1>3. HistoryOK'
  BY <1>0, <1>1, BoundAssumption DEF HistoryOK, Inv, TypeOK, HistoryType
<1>4. QueueOK'
  BY <1>1, <1>2 DEF QueueOK
<1>5. ItemsOK'
  BY <1>1, <1>2 DEF ItemsOK, InTask, Queued
<1>6. PushOK'
  <2> SUFFICES ASSUME NEW u \in Threads, pc[u] = "push"
               PROVE  /\ burst[u] >= 1 /\ seen[u] + burst[u] <= issued + 1
                      /\ \A k \in 1 .. issued + 1 :
                           Pushes(u, k) => /\ k \notin finished' /\ ~ Queued(k)
                                           /\ \A w \in AllWorkers : item[w] # k
                                           /\ \A v \in Threads : Pushes(v, k) => v = u
    BY <1>1 DEF PushOK, Pushes, Queued
  <2>1. burst[u] \in Int /\ seen[u] \in Nat /\ burst[u] >= 1 /\ seen[u] + burst[u] <= issued
    BY DEF PushOK, Inv, TypeOK, LocalType
  <2>2. \A k \in 1 .. issued + 1 : Pushes(u, k) => k \in 1 .. issued
    BY <1>0, <2>1 DEF Pushes
  <2> QED BY <1>0, <1>1, <2>1, <2>2 DEF PushOK
<1>7. PendingExact'
  BY <1>1, <1>2 DEF PendingExact, Unfinished
<1>8. DestructionDrains'
  BY <1>0, <1>1 DEF DestructionDrains
<1> QED BY <1>3, <1>4, <1>5, <1>6, <1>7, <1>8 DEF TaskParts

(* A call is made by a task or by a caller that is not destroying the pool. *)
LEMMA CallersKeepPoolOpen ==
  ASSUME Inv, TaskInv, NEW t \in Threads, CanCall(t), NEW c \in Clients
  PROVE  pc[c] # "join"
<1>1. CASE t \in Clients
  BY <1>1 DEF CanCall, Home, TaskInv, CloseOK, ClosePoints
<1>2. CASE t \in AllWorkers /\ t \notin Clients
  BY <1>2, NobodyJoins DEF CanCall, Home, TaskInv, ItemsOK, InTask
<1> QED BY <1>1, <1>2 DEF Threads

(* enqueue counts tasks that nobody else pushes, queues or runs.           *)
LEMMA EnqueueCountTasks ==
  ASSUME Inv, TaskInv, NEW t \in Threads, NEW n \in 1 .. MaxBatch, EnqueueCount(t, n)
  PROVE  TaskParts'
<1> USE DEF TaskInv
<1>0. issued \in Nat /\ finished \subseteq 1 .. issued /\ n \in Nat /\ n >= 1
  BY CountedFinite, BoundAssumption DEF HistoryOK
<1>1. /\ issued' = issued + n /\ m_pendingCount' = m_pendingCount + n
      /\ burst' = [burst EXCEPT ![t] = n] /\ seen' = [seen EXCEPT ![t] = issued]
      /\ pc' = [pc EXCEPT ![t] = "push"] /\ pc[t] = Home(t)
      /\ finished' = finished /\ m_tasks' = m_tasks /\ item' = item /\ loop' = loop /\ desc' = desc
      /\ before' = before
  BY DEF EnqueueCount, Goto, CanCall
<1>2. /\ pc \in [Threads -> ControlPoints] /\ seen \in [Threads -> Nat]
      /\ burst \in [Threads -> Int] /\ before \in [Threads -> Nat]
      /\ m_pendingCount \in Int
  BY DEF Inv, TypeOK, PoolType, LocalType, HistoryType
<1>3. /\ pc'[t] = "push" /\ burst'[t] = n /\ seen'[t] = issued /\ pc[t] \notin {"push", "retire"}
      /\ \A u \in Threads \ {t} : pc'[u] = pc[u] /\ burst'[u] = burst[u] /\ seen'[u] = seen[u]
  BY <1>1, <1>2 DEF Home
<1>4. /\ Unfinished' = Unfinished \cup ((issued + 1) .. (issued + n))
      /\ Unfinished \subseteq 1 .. issued /\ Unfinished \subseteq Unfinished'
  BY <1>0, <1>1 DEF Unfinished
<1>5. HistoryOK'
  BY <1>0, <1>1, <1>2 DEF HistoryOK
<1>6. QueueOK'
  BY <1>1, <1>4 DEF QueueOK
<1>7. ItemsOK'
  <2>1. \A w \in AllWorkers : InTask(w)' => InTask(w)
    <3> SUFFICES ASSUME NEW w \in AllWorkers, InTask(w)' PROVE InTask(w)
      OBVIOUS
    <3>1. w \in Threads /\ w \notin Clients
      BY ThreadAssumption DEF Threads
    <3>2. CASE w = t
      BY <1>1, <3>1, <3>2 DEF InTask, Home
    <3>3. CASE w # t
      BY <1>1, <1>3, <3>1, <3>3 DEF InTask
    <3> QED BY <3>2, <3>3
  <2> QED BY <1>1, <1>4, <2>1 DEF ItemsOK, Queued
<1>8. PushOK'
  <2>1. \A w \in AllWorkers : item[w] \in 0 .. issued
    <3> SUFFICES ASSUME NEW w \in AllWorkers, item[w] # 0 PROVE item[w] \in 1 .. issued
      BY <1>0
    <3> QED BY <1>4 DEF ItemsOK
  <2>2. \A k \in Nat : Queued(k) => k <= issued
    BY <1>4 DEF Queued, QueueOK
  <2>3. \A u \in Threads : pc[u] = "push" =>
          burst[u] >= 1 /\ seen[u] + burst[u] <= issued
    BY DEF PushOK
  <2> SUFFICES ASSUME NEW u \in Threads, pc'[u] = "push"
               PROVE  /\ burst'[u] >= 1 /\ seen'[u] + burst'[u] <= issued + n
                      /\ \A k \in 1 .. issued + n :
                           Pushes(u, k)' => /\ k \notin finished /\ ~ Queued(k)
                                            /\ \A w \in AllWorkers : item[w] # k
                                            /\ \A v \in Threads : Pushes(v, k)' => v = u
    BY <1>1 DEF PushOK, Queued
  <2>4. burst'[u] >= 1 /\ seen'[u] + burst'[u] <= issued + n
    BY <1>0, <1>2, <1>3, <2>3
  <2> SUFFICES ASSUME NEW k \in 1 .. issued + n, Pushes(u, k)'
               PROVE  /\ k \notin finished /\ ~ Queued(k)
                      /\ \A w \in AllWorkers : item[w] # k
                      /\ \A v \in Threads : Pushes(v, k)' => v = u
    BY <2>4
  <2>5. k \in Nat
    BY <1>0
  <2>6. \A v \in Threads \ {t} : Pushes(v, k)' <=> Pushes(v, k)
    BY <1>3 DEF Pushes
  <2>7. \A v \in Threads \ {t} : Pushes(v, k) => k <= issued
    BY <1>0, <1>2, <2>3, <2>5 DEF Pushes
  <2>8. Pushes(t, k)' <=> k > issued
    BY <1>0, <1>3, <2>5 DEF Pushes
  <2>9. CASE u = t
    <3>1. k > issued
      BY <2>8, <2>9
    <3> QED BY <1>0, <2>1, <2>2, <2>5, <2>6, <2>7, <2>9, <3>1
  <2>10. CASE u # t
    <3>1. k \in 1 .. issued /\ Pushes(u, k) /\ pc[u] = "push"
      BY <1>0, <2>5, <2>6, <2>7, <2>10 DEF Pushes
    <3>2. ~ Pushes(t, k)'
      BY <1>0, <2>5, <2>8, <3>1
    <3> QED BY <2>6, <3>1, <3>2 DEF PushOK
  <2> QED BY <2>9, <2>10
<1>9. PendingExact'
  <2>1. Retiring' = Retiring
    BY <1>3 DEF Retiring, Threads
  <2>2. /\ IsFiniteSet((issued + 1) .. (issued + n))
        /\ Cardinality((issued + 1) .. (issued + n)) = n
    BY <1>0, FS_Interval
  <2>3. Unfinished \cap ((issued + 1) .. (issued + n)) = {}
    BY <1>0, <1>4
  <2>4. Cardinality(Unfinished') = Cardinality(Unfinished) + n
    <3> DEFINE Fresh == (issued + 1) .. (issued + n)
    <3>1. IsFiniteSet(Fresh) /\ Cardinality(Fresh) = n /\ Unfinished \cap Fresh = {}
      BY <2>2, <2>3
    <3>2. Unfinished' = Unfinished \cup Fresh
      BY <1>4
    <3>3. IsFiniteSet(Unfinished) /\ Cardinality(Unfinished) \in Nat
      BY CountedFinite
    <3> HIDE DEF Fresh
    <3>4. Cardinality(Unfinished \cup Fresh)
            = Cardinality(Unfinished) + Cardinality(Fresh) - Cardinality(Unfinished \cap Fresh)
      BY <3>1, <3>3, FS_Union
    <3>5. Cardinality(Unfinished \cap Fresh) = 0
      BY <3>1, FS_EmptySet
    <3> QED BY <1>0, <3>1, <3>2, <3>3, <3>4, <3>5
  <2>5. m_pendingCount' = Cardinality(Unfinished') + Cardinality(Retiring')
    BY <1>0, <1>1, <2>1, <2>4, PendingCount, CountedFinite
  <2> QED BY <2>5 DEF PendingExact, Unfinished, Retiring
<1>10. DestructionDrains'
  <2>1. \A c \in Clients : pc[c] # "join"
    BY CallersKeepPoolOpen DEF EnqueueCount
  <2> QED BY <1>2, <1>3, <2>1 DEF DestructionDrains, Threads
<1> QED BY <1>5, <1>6, <1>7, <1>8, <1>9, <1>10 DEF TaskParts

(* The pushed tasks move from their thread into the queue.                 *)
LEMMA EnqueuePushTasks ==
  ASSUME Inv, TaskInv, NEW t \in Threads, EnqueuePush(t)
  PROVE  TaskParts'
<1> USE DEF TaskInv
<1>0. PICK s, b : s = seen[t] /\ b = burst[t]
  OBVIOUS
<1>1. /\ pc[t] = "push" /\ pc' = [pc EXCEPT ![t] = "notify"]
      /\ m_tasks' = m_tasks \o [i \in 1 .. b |-> s + i]
      /\ issued' = issued /\ finished' = finished /\ item' = item /\ seen' = seen
      /\ m_pendingCount' = m_pendingCount /\ before' = before /\ loop' = loop /\ desc' = desc
      /\ \A u \in Threads \ {t} : burst'[u] = burst[u]
  BY <1>0 DEF EnqueuePush, Goto, ghosts, Inv, TypeOK, LocalType
<1>2. /\ pc \in [Threads -> ControlPoints] /\ seen \in [Threads -> Nat]
      /\ burst \in [Threads -> Int] /\ m_tasks \in Seq(Nat) /\ issued \in Nat
  BY CountedFinite DEF Inv, TypeOK, PoolType, LocalType
<1>3. s \in Nat /\ b \in Nat /\ b >= 1 /\ s + b <= issued
  BY <1>0, <1>1, <1>2 DEF PushOK
<1>4. \A k \in Nat : Pushes(t, k) <=> k > s /\ k <= s + b
  BY <1>0, <1>1 DEF Pushes
<1>5. PICK q : q = [i \in 1 .. b |-> s + i]
  OBVIOUS
<1>6. q \in Seq(Nat) /\ Len(q) = b /\ \A i \in 1 .. b : q[i] = s + i
  BY <1>3, <1>5
<1>7. PICK m \in Nat : m = Len(m_tasks)
  BY <1>2
<1>8. /\ Len(m_tasks') = m + b
      /\ \A i \in 1 .. (m + b) : m_tasks'[i] = IF i <= m THEN m_tasks[i] ELSE s + (i - m)
  <2>1. m_tasks' = m_tasks \o q
    BY <1>1, <1>5
  <2>2. /\ Len(m_tasks \o q) = m + b
        /\ \A i \in 1 .. (m + b) : (m_tasks \o q)[i] = IF i <= m THEN m_tasks[i] ELSE q[i - m]
    BY <1>2, <1>6, <1>7, ConcatProperties
  <2>3. \A i \in 1 .. (m + b) : ~ (i <= m) => i - m \in 1 .. b
    BY <1>3
  <2> QED BY <1>6, <2>1, <2>2, <2>3
<1>9. \A k \in Nat : Queued(k)' <=> Queued(k) \/ Pushes(t, k)
  <2> SUFFICES ASSUME NEW k \in Nat PROVE Queued(k)' <=> Queued(k) \/ Pushes(t, k)
    OBVIOUS
  <2>1. ASSUME Queued(k)' PROVE Queued(k) \/ Pushes(t, k)
    <3>1. PICK i \in 1 .. (m + b) : m_tasks'[i] = k
      BY <1>8, <2>1 DEF Queued
    <3>2. CASE i <= m
      BY <1>7, <1>8, <3>1, <3>2 DEF Queued
    <3>3. CASE ~ (i <= m)
      BY <1>3, <1>4, <1>7, <1>8, <3>1, <3>3
    <3> QED BY <3>2, <3>3
  <2>2. ASSUME Queued(k) PROVE Queued(k)'
    <3>1. PICK i \in 1 .. m : m_tasks[i] = k
      BY <1>7, <2>2 DEF Queued
    <3>2. i \in 1 .. (m + b) /\ i <= m
      BY <1>3
    <3> QED BY <1>8, <3>1, <3>2 DEF Queued
  <2>3. ASSUME Pushes(t, k) PROVE Queued(k)'
    <3>1. PICK i \in Int : i = m + (k - s)
      BY <1>3
    <3>2. i \in 1 .. (m + b) /\ ~ (i <= m) /\ s + (i - m) = k
      BY <1>3, <1>4, <2>3, <3>1
    <3> QED BY <1>8, <3>2 DEF Queued
  <2> QED BY <2>1, <2>2, <2>3
<1>10. \A k \in Nat : Pushes(t, k) =>
         /\ k \in Unfinished /\ ~ Queued(k) /\ \A w \in AllWorkers : item[w] # k
         /\ \A u \in Threads : Pushes(u, k) => u = t
  BY <1>1, <1>2, <1>3, <1>4 DEF PushOK, Unfinished
<1>11. \A k \in Nat : \A u \in Threads : Pushes(u, k)' <=> Pushes(u, k) /\ u # t
  BY <1>1, <1>2 DEF Pushes
<1>12. HistoryOK'
  BY <1>1 DEF HistoryOK
<1>13. QueueOK'
  <2>1. ASSUME NEW i \in 1 .. (m + b) PROVE m_tasks'[i] \in Unfinished
    <3>1. CASE i <= m
      BY <1>7, <1>8, <3>1 DEF QueueOK
    <3>2. CASE ~ (i <= m)
      <4>1. m_tasks'[i] = s + (i - m)
        BY <1>8, <3>2
      <4>2. s + (i - m) \in Nat /\ Pushes(t, s + (i - m))
        BY <1>3, <1>4, <3>2
      <4> QED BY <1>10, <4>1, <4>2
    <3> QED BY <3>1, <3>2
  <2>2. ASSUME NEW i \in 1 .. (m + b), NEW j \in 1 .. (m + b), m_tasks'[i] = m_tasks'[j], i <= m, ~ (j <= m)
        PROVE  FALSE
    <3>1. m_tasks[i] = s + (j - m)
      BY <1>8, <2>2
    <3>2. s + (j - m) \in Nat /\ Pushes(t, s + (j - m))
      BY <1>3, <1>4, <2>2
    <3>3. Queued(s + (j - m))
      BY <1>7, <2>2, <3>1 DEF Queued
    <3> QED BY <1>10, <3>2, <3>3
  <2>3. ASSUME NEW i \in 1 .. (m + b), NEW j \in 1 .. (m + b), m_tasks'[i] = m_tasks'[j]
        PROVE  i = j
    <3>1. CASE i <= m /\ j <= m
      BY <1>7, <1>8, <2>3, <3>1 DEF QueueOK
    <3>2. CASE ~ (i <= m) /\ ~ (j <= m)
      BY <1>3, <1>8, <2>3, <3>2
    <3> QED BY <2>2, <2>3, <3>1, <3>2
  <2> QED BY <1>1, <1>8, <2>1, <2>3 DEF QueueOK, Unfinished
<1>14. ItemsOK'
  <2>1. \A w \in AllWorkers : InTask(w)' => InTask(w)
    BY <1>1, <1>2 DEF InTask, Threads
  <2>2. \A w \in AllWorkers : item[w] # 0 => item[w] \in Nat /\ ~ Queued(item[w]) /\ ~ Pushes(t, item[w])
    BY <1>10 DEF ItemsOK, Unfinished
  <2>3. \A w \in AllWorkers : item[w] # 0 => ~ Queued(item[w])'
    <3> SUFFICES ASSUME NEW w \in AllWorkers, item[w] # 0, NEW k, k = item[w] PROVE ~ Queued(k)'
      BY <1>1 DEF Queued
    <3> QED BY <1>9, <2>2
  <2> QED BY <1>1, <2>1, <2>3 DEF ItemsOK, Unfinished, Queued
<1>15. PushOK'
  <2> SUFFICES ASSUME NEW u \in Threads \ {t}, pc[u] = "push"
               PROVE  /\ burst[u] >= 1 /\ seen[u] + burst[u] <= issued
                      /\ \A k \in 1 .. issued :
                           Pushes(u, k)' => /\ k \notin finished /\ ~ Queued(k)'
                                            /\ \A w \in AllWorkers : item[w] # k
                                            /\ \A v \in Threads : Pushes(v, k)' => v = u
    BY <1>1, <1>2 DEF PushOK
  <2> SUFFICES ASSUME NEW k \in 1 .. issued, Pushes(u, k)'
               PROVE  /\ k \notin finished /\ ~ Queued(k)'
                      /\ \A w \in AllWorkers : item[w] # k
                      /\ \A v \in Threads : Pushes(v, k)' => v = u
    BY DEF PushOK
  <2>1. k \in Nat /\ Pushes(u, k)
    BY <1>2, <1>11
  <2>2. ~ Pushes(t, k)
    BY <1>10, <2>1
  <2> QED BY <1>9, <1>11, <2>1, <2>2 DEF PushOK
<1>16. PendingExact'
  <2>1. {w \in AllWorkers : pc'[w] = "retire"} = {w \in AllWorkers : pc[w] = "retire"}
    BY <1>1, <1>2 DEF Threads
  <2> QED BY <1>1, <2>1 DEF PendingExact
<1>17. DestructionDrains'
  <2>1. s + 1 \in Unfinished
    BY <1>3, <1>4, <1>10
  <2>2. \A c \in Clients : pc[c] # "join"
    BY <2>1, NobodyJoins
  <2> QED BY <1>1, <1>2, <2>2 DEF DestructionDrains, Threads
<1> QED BY <1>12, <1>13, <1>14, <1>15, <1>16, <1>17 DEF TaskParts

(* The head of the queue moves to the worker that takes it.                *)
LEMMA TakeTaskTasks ==
  ASSUME Inv, TaskInv, NEW w \in AllWorkers, WorkerTakeTask(w)
  PROVE  TaskParts'
<1> USE DEF TaskInv
<1>1. /\ pc[w] = "loop" /\ pc' = [pc EXCEPT ![w] = "task"] /\ m_tasks # <<>>
      /\ item' = [item EXCEPT ![w] = Head(m_tasks)] /\ m_tasks' = Tail(m_tasks)
      /\ issued' = issued /\ finished' = finished /\ seen' = seen /\ burst' = burst
      /\ m_pendingCount' = m_pendingCount /\ before' = before /\ loop' = loop /\ desc' = desc
  BY DEF WorkerTakeTask, AtLoop, Goto, ghosts
<1>2. /\ pc \in [Threads -> ControlPoints] /\ item \in [Threads -> Nat] /\ m_tasks \in Seq(Nat)
      /\ AllWorkers \subseteq Threads
  BY DEF Inv, TypeOK, PoolType, LocalType, Threads
<1>3. PICK m \in Nat : m = Len(m_tasks)
  BY <1>2
<1>4. PICK h : h = Head(m_tasks)
  OBVIOUS
<1>5. m >= 1 /\ h = m_tasks[1]
  BY <1>1, <1>2, <1>3, <1>4
<1>6. Len(m_tasks') = m - 1 /\ \A i \in 1 .. (m - 1) : m_tasks'[i] = m_tasks[i + 1]
  BY <1>1, <1>2, <1>3, HeadTailProperties
<1>7. h \in Unfinished /\ Queued(h) /\ h # 0 /\ h \in Nat /\ h \in 1 .. issued
  BY <1>3, <1>5 DEF QueueOK, Queued, Unfinished
<1>8. \A k : Queued(k)' => Queued(k) /\ k # h
  <2> SUFFICES ASSUME NEW k, Queued(k)' PROVE Queued(k) /\ k # h
    OBVIOUS
  <2>1. PICK i \in 1 .. (m - 1) : m_tasks'[i] = k
    BY <1>6 DEF Queued
  <2>2. i + 1 \in 1 .. m /\ m_tasks[i + 1] = k /\ i + 1 # 1 /\ 1 \in 1 .. m
    BY <1>5, <1>6, <2>1
  <2> QED BY <1>3, <1>5, <2>2 DEF Queued, QueueOK
<1>9. item'[w] = h /\ \A v \in AllWorkers \ {w} : item'[v] = item[v]
  BY <1>1, <1>2, <1>4
<1>10. \A v \in AllWorkers : item[v] # h
  BY <1>7 DEF ItemsOK
<1>11. \A u \in Threads : \A k : Pushes(u, k)' <=> Pushes(u, k)
  BY <1>1, <1>2 DEF Pushes
<1>12. HistoryOK'
  BY <1>1 DEF HistoryOK
<1>13. QueueOK'
  <2>1. \A i \in 1 .. (m - 1) : i + 1 \in 1 .. m
    OBVIOUS
  <2> QED BY <1>1, <1>3, <1>6, <2>1 DEF QueueOK, Unfinished
<1>14. ItemsOK'
  <2>1. \A v \in AllWorkers \ {w} : InTask(v)' => InTask(v)
    BY <1>1, <1>2 DEF InTask
  <2>2. Unfinished' = Unfinished
    BY <1>1 DEF Unfinished
  <2>3. ~ Queued(h)'
    BY <1>8
  <2>4. \A v \in AllWorkers \ {w} : item[v] # 0 => ~ Queued(item[v])'
    <3> SUFFICES ASSUME NEW v \in AllWorkers \ {w}, item[v] # 0, NEW k, k = item[v] PROVE ~ Queued(k)'
      BY <1>9 DEF Queued
    <3> QED BY <1>8 DEF ItemsOK
  <2> SUFFICES ASSUME NEW v \in AllWorkers
               PROVE  /\ InTask(v)' => item'[v] # 0
                      /\ item'[v] # 0 => /\ item'[v] \in Unfinished
                                         /\ ~ \E i \in 1 .. Len(m_tasks') : m_tasks'[i] = item'[v]
                                         /\ \A u \in AllWorkers : item'[u] = item'[v] => u = v
    BY <2>2 DEF ItemsOK, Queued
  <2>5. CASE v = w
    BY <1>7, <1>9, <1>10, <2>3, <2>5 DEF Queued
  <2>6. CASE v # w
    BY <1>9, <1>10, <2>1, <2>4, <2>6 DEF ItemsOK, Queued
  <2> QED BY <2>5, <2>6
<1>15. PushOK'
  <2> SUFFICES ASSUME NEW u \in Threads, pc[u] = "push"
               PROVE  /\ burst[u] >= 1 /\ seen[u] + burst[u] <= issued
                      /\ \A k \in 1 .. issued :
                           Pushes(u, k) => /\ k \notin finished /\ ~ Queued(k)'
                                           /\ \A v \in AllWorkers : item'[v] # k
                                           /\ \A v \in Threads : Pushes(v, k) => v = u
    BY <1>1, <1>2, <1>11 DEF PushOK
  <2>1. \A k \in 1 .. issued : Pushes(u, k) => k # h
    BY <1>7 DEF PushOK
  <2> QED BY <1>8, <1>9, <2>1 DEF PushOK
<1>16. PendingExact'
  <2>1. {v \in AllWorkers : pc'[v] = "retire"} = {v \in AllWorkers : pc[v] = "retire"}
    BY <1>1, <1>2
  <2> QED BY <1>1, <2>1 DEF PendingExact
<1>17. DestructionDrains'
  <2>1. \A c \in Clients : pc[c] # "join"
    BY <1>7, NobodyJoins
  <2> QED BY <1>1, <1>2, <2>1 DEF DestructionDrains, Threads
<1> QED BY <1>12, <1>13, <1>14, <1>15, <1>16, <1>17 DEF TaskParts

(* A finished task is still counted, through the worker that retires it.   *)
LEMMA FinishTaskTasks ==
  ASSUME Inv, TaskInv, NEW w \in AllWorkers, WorkerFinishTask(w)
  PROVE  TaskParts'
<1> USE DEF TaskInv
<1>0. PICK k : k = item[w]
  OBVIOUS
<1>1. /\ pc[w] = "task" /\ pc' = [pc EXCEPT ![w] = "retire"]
      /\ finished' = finished \cup {k} /\ item' = [item EXCEPT ![w] = 0]
      /\ m_tasks' = m_tasks /\ issued' = issued /\ seen' = seen /\ burst' = burst
      /\ m_pendingCount' = m_pendingCount /\ before' = before /\ loop' = loop /\ desc' = desc
  BY <1>0 DEF WorkerFinishTask, Goto, poolVars
<1>2. /\ pc \in [Threads -> ControlPoints] /\ item \in [Threads -> Nat]
      /\ AllWorkers \subseteq Threads /\ AllWorkers \cap Clients = {} /\ issued \in Nat
  BY ThreadAssumption, CountedFinite DEF Inv, TypeOK, LocalType, Threads
<1>3. /\ k # 0 /\ k \in Unfinished /\ k \in 1 .. issued /\ ~ Queued(k)
      /\ \A v \in AllWorkers : item[v] = k => v = w
  BY <1>0, <1>1 DEF ItemsOK, InTask, Unfinished
<1>4. Unfinished' = Unfinished \ {k}
  BY <1>1 DEF Unfinished
<1>5. item'[w] = 0 /\ \A v \in AllWorkers \ {w} : item'[v] = item[v] /\ item[v] # k
  BY <1>1, <1>2, <1>3
<1>6. \A u \in Threads : \A j : Pushes(u, j)' <=> Pushes(u, j)
  BY <1>1, <1>2 DEF Pushes
<1>7. \A j : Queued(j)' <=> Queued(j)
  BY <1>1 DEF Queued
<1>8. HistoryOK'
  BY <1>1, <1>3 DEF HistoryOK
<1>9. QueueOK'
  BY <1>1, <1>3, <1>4 DEF QueueOK, Queued
<1>10. ItemsOK'
  <2>1. \A v \in AllWorkers \ {w} : InTask(v)' => InTask(v)
    BY <1>1, <1>2 DEF InTask
  <2>2. ~ InTask(w)'
    BY <1>1, <1>2 DEF InTask, DispatchPoints, ChunkPoints
  <2> QED BY <1>1, <1>4, <1>5, <2>1, <2>2 DEF ItemsOK, Queued
<1>11. PushOK'
  <2> SUFFICES ASSUME NEW u \in Threads, pc[u] = "push"
               PROVE  /\ burst[u] >= 1 /\ seen[u] + burst[u] <= issued
                      /\ \A j \in 1 .. issued :
                           Pushes(u, j) => /\ j \notin finished' /\ ~ Queued(j)
                                           /\ \A v \in AllWorkers : item'[v] # j
                                           /\ \A v \in Threads : Pushes(v, j) => v = u
    BY <1>1, <1>2, <1>6, <1>7 DEF PushOK
  <2>1. \A j \in 1 .. issued : Pushes(u, j) => j # k /\ j # 0
    BY <1>0, <1>2 DEF PushOK
  <2> QED BY <1>1, <1>5, <2>1 DEF PushOK
<1>12. PendingExact'
  <2>1. Retiring' = Retiring \cup {w} /\ w \notin Retiring
    BY <1>1, <1>2 DEF Retiring
  <2>2. Cardinality(Retiring \cup {w}) = Cardinality(Retiring) + 1
    BY <2>1, CountedFinite, FS_AddElement
  <2>3. Cardinality(Unfinished \ {k}) = Cardinality(Unfinished) - 1
    BY <1>3, CountedFinite, FS_RemoveElement
  <2>4. m_pendingCount' = Cardinality(Unfinished') + Cardinality(Retiring')
    BY <1>1, <1>4, <2>1, <2>2, <2>3, PendingCount, CountedFinite
  <2> QED BY <2>4 DEF PendingExact, Unfinished, Retiring
<1>13. DestructionDrains'
  <2>1. \A c \in Clients : pc[c] # "join"
    BY <1>3, NobodyJoins
  <2> QED BY <1>1, <1>2, <2>1 DEF DestructionDrains, Threads
<1> QED BY <1>8, <1>9, <1>10, <1>11, <1>12, <1>13 DEF TaskParts

(* The decrement is that of a task already finished.                       *)
LEMMA RetireTaskTasks ==
  ASSUME Inv, TaskInv, NEW w \in AllWorkers, WorkerRetireTask(w)
  PROVE  TaskParts'
<1> USE DEF TaskInv
<1>1. /\ pc[w] = "retire" /\ m_pendingCount' = m_pendingCount - 1
      /\ finished' = finished /\ item' = item
      /\ m_tasks' = m_tasks /\ issued' = issued /\ seen' = seen /\ burst' = burst
      /\ before' = before /\ loop' = loop /\ desc' = desc
  BY DEF WorkerRetireTask, ghosts
<1>2. /\ pc \in [Threads -> ControlPoints] /\ m_pendingCount \in Int
      /\ AllWorkers \subseteq Threads /\ AllWorkers \cap Clients = {}
  BY ThreadAssumption DEF Inv, TypeOK, LocalType, PoolType, Threads
<1>3. pc'[w] \in {"pendNotify", "loop"} /\ \A u \in Threads \ {w} : pc'[u] = pc[u]
  BY <1>2 DEF WorkerRetireTask, Goto
<1>4. HistoryOK' /\ QueueOK'
  BY <1>1 DEF HistoryOK, QueueOK, Unfinished
<1>5. ItemsOK'
  <2>1. \A v \in AllWorkers : InTask(v)' => InTask(v)
    BY <1>1, <1>2, <1>3 DEF InTask, DispatchPoints, ChunkPoints
  <2> QED BY <1>1, <2>1 DEF ItemsOK, Queued, Unfinished
<1>6. PushOK'
  <2>1. \A u \in Threads : \A k : Pushes(u, k)' <=> Pushes(u, k)
    BY <1>1, <1>3 DEF Pushes
  <2>2. \A u \in Threads : pc'[u] = "push" => pc[u] = "push"
    BY <1>3
  <2> QED BY <1>1, <2>1, <2>2 DEF PushOK, Queued
<1>7. PendingExact'
  <2>1. Retiring' = Retiring \ {w} /\ w \in Retiring
    BY <1>1, <1>2, <1>3 DEF Retiring
  <2>2. Cardinality(Retiring \ {w}) = Cardinality(Retiring) - 1
    BY <2>1, CountedFinite, FS_RemoveElement
  <2>3. Unfinished' = Unfinished
    BY <1>1 DEF Unfinished
  <2>4. m_pendingCount' = Cardinality(Unfinished') + Cardinality(Retiring')
    BY <1>1, <2>1, <2>2, <2>3, PendingCount, CountedFinite
  <2> QED BY <2>4 DEF PendingExact, Unfinished, Retiring
<1>8. DestructionDrains'
  BY <1>1, <1>2, <1>3 DEF DestructionDrains, Threads
<1> QED BY <1>4, <1>5, <1>6, <1>7, <1>8 DEF TaskParts

(* A count of zero means that every task issued has been finished and none
   is left in the queue.                                                   *)
LEMMA NonePending ==
  ASSUME Inv, TaskInv, m_pendingCount = 0
  PROVE  m_tasks = <<>> /\ (1 .. issued) \subseteq finished
<1>1. Unfinished = {}
  <2>1. Cardinality(Unfinished) = 0 /\ IsFiniteSet(Unfinished)
    BY PendingCount, CountedFinite DEF TaskInv
  <2> QED BY <2>1, FS_EmptySet
<1>2. m_tasks \in Seq(Nat)
  BY DEF Inv, TypeOK, PoolType
<1>3. m_tasks = <<>>
  <2> SUFFICES ASSUME m_tasks # <<>> PROVE FALSE
    OBVIOUS
  <2>1. 1 \in 1 .. Len(m_tasks)
    BY <1>2
  <2> QED BY <1>1, <2>1 DEF TaskInv, QueueOK
<1> QED BY <1>1, <1>3 DEF Unfinished

(* waitPending returns on a count of zero, so the destructor may join.     *)
LEMMA WaitReturnTasks ==
  ASSUME Inv, TaskInv, NEW c \in Clients, WaitReturn(c)
  PROVE  TaskParts'
<1> USE DEF TaskInv
<1>1. /\ m_pendingCount = 0 /\ pc[c] \in {"waitLoad", "closeLoad"} /\ m_pendingCount' = m_pendingCount
      /\ finished' = finished /\ item' = item
      /\ m_tasks' = m_tasks /\ issued' = issued /\ seen' = seen /\ burst' = burst
      /\ before' = before /\ loop' = loop /\ desc' = desc
  BY DEF WaitReturn, ghosts, poolVars
<1>2. /\ pc \in [Threads -> ControlPoints] /\ Clients \subseteq Threads
      /\ AllWorkers \subseteq Threads /\ AllWorkers \cap Clients = {}
  BY ThreadAssumption DEF Inv, TypeOK, LocalType, Threads
<1>3. pc'[c] \in {"idle", "join"} /\ \A u \in Threads \ {c} : pc'[u] = pc[u]
  BY <1>2 DEF WaitReturn, Goto
<1>4. HistoryOK' /\ QueueOK'
  BY <1>1 DEF HistoryOK, QueueOK, Unfinished
<1>5. ItemsOK'
  <2>1. \A v \in AllWorkers : InTask(v)' => InTask(v)
    BY <1>1, <1>2, <1>3 DEF InTask
  <2> QED BY <1>1, <2>1 DEF ItemsOK, Queued, Unfinished
<1>6. PushOK'
  <2>1. \A u \in Threads : \A k : Pushes(u, k)' <=> Pushes(u, k)
    BY <1>1, <1>3 DEF Pushes
  <2>2. \A u \in Threads : pc'[u] = "push" => pc[u] = "push"
    BY <1>3
  <2> QED BY <1>1, <2>1, <2>2 DEF PushOK, Queued
<1>7. PendingExact'
  <2>1. {v \in AllWorkers : pc'[v] = "retire"} = {v \in AllWorkers : pc[v] = "retire"}
    BY <1>2, <1>3
  <2> QED BY <1>1, <2>1 DEF PendingExact
<1>8. DestructionDrains'
  BY <1>1, NonePending DEF DestructionDrains
<1> QED BY <1>4, <1>5, <1>6, <1>7, <1>8 DEF TaskParts

(* The pool starts with no task anywhere.                                  *)
LEMMA InitTasks == Init => TaskInv
<1> SUFFICES ASSUME Init PROVE TaskInv
  OBVIOUS
<1> USE DEF Init
<1>1. HistoryOK /\ QueueOK
  BY DEF HistoryOK, QueueOK
<1>2. ItemsOK
  BY ThreadAssumption DEF ItemsOK, InTask, DispatchPoints, ChunkPoints, Threads
<1>3. PushOK /\ CloseOK /\ DestructionDrains
  BY DEF PushOK, CloseOK, DestructionDrains, ClosePoints, Threads
<1>4. PendingExact
  <2>1. Unfinished = {} /\ Retiring = {}
    BY DEF Unfinished, Retiring, Threads
  <2>2. Cardinality(Unfinished) = 0 /\ Cardinality(Retiring) = 0
    BY <2>1, FS_EmptySet, Zenon
  <2>3. m_pendingCount = Cardinality(Unfinished) + Cardinality(Retiring)
    BY <2>2
  <2> QED BY <2>3 DEF PendingExact, Unfinished, Retiring
<1> QED BY <1>1, <1>2, <1>3, <1>4 DEF TaskInv

(* Every step of the pool keeps the accounting of tasks.                   *)
LEMMA NextTasks == Inv /\ TaskInv /\ [Next]_vars => TaskInv'
<1> SUFFICES ASSUME Inv, TaskInv, [Next]_vars PROVE TaskParts'
  BY CloseSteps DEF TaskInv, TaskParts
<1>1. ASSUME NEW t \in Threads, Call(t) PROVE TaskParts'
  BY <1>1, EnqueueInlineTasks, EnqueueCountTasks, QuietMovesNoTask, LoopMovesNoTask, TaskQuietStep
     DEF Call
<1>2. ASSUME NEW t \in Threads, Step(t) PROVE TaskParts'
  BY <1>2, EnqueuePushTasks, QuietMovesNoTask, LoopMovesNoTask, TaskQuietStep DEF Step
<1>3. ASSUME NEW w \in AllWorkers, WorkerStep(w) \/ SpuriousWake(w) PROVE TaskParts'
  BY <1>3, TakeTaskTasks, FinishTaskTasks, RetireTaskTasks, QuietMovesNoTask, LoopMovesNoTask,
     TaskQuietStep DEF WorkerStep
<1>4. ASSUME NEW c \in Clients, WaitCall(c) \/ DestroyCall(c) \/ ClientStep(c) PROVE TaskParts'
  BY <1>4, WaitReturnTasks, QuietMovesNoTask, TaskQuietStep DEF ClientStep
<1>5. CASE UNCHANGED vars
  BY <1>5, QuietMovesNoTask, TaskQuietStep
<1> QED BY <1>1, <1>2, <1>3, <1>4, <1>5 DEF Next, Terminated

(* The accounting of tasks is an invariant of the pool.                    *)
LEMMA TaskInvariant == Spec => [](Inv /\ TaskInv)
BY InitInv, NextInv, InitTasks, NextTasks, PTL DEF Spec

(* For any number of workers, callers and tasks, m_pendingCount is exactly
   the number of tasks that are being pushed, queued, running or about to be
   counted down: waitPending cannot miss a task and the counter never wraps. *)
THEOREM PendingCountExact == Spec => []PendingExact
<1>1. Inv /\ TaskInv => PendingExact
  BY DEF TaskInv
<1> QED BY <1>1, TaskInvariant, PTL

(* The destructor of any pool joins its workers only when its queue is empty
   and every task ever enqueued has run to its end.                        *)
THEOREM DestructorDrains == Spec => []DestructionDrains
<1>1. Inv /\ TaskInv => DestructionDrains
  BY DEF TaskInv
<1> QED BY <1>1, TaskInvariant, PTL

(* Whoever returns from wait() sees finished every task that was enqueued
   before the call: no step but waitPending's return on a count of zero
   takes a caller from the load back to its own code.                      *)
LEMMA WaitStep ==
  ASSUME Inv, TaskInv, [Next]_vars, NEW c \in Clients, pc[c] = "waitLoad", pc'[c] = "idle"
  PROVE  (1 .. before[c]) \subseteq finished
<1> USE DEF Goto
<1>0. /\ pc \in [Threads -> ControlPoints] /\ Clients \subseteq Threads /\ AllWorkers \subseteq Threads
      /\ AllWorkers \cap Clients = {} /\ before[c] \in Nat /\ issued \in Nat /\ before[c] <= issued
  BY ThreadAssumption, BoundAssumption
     DEF Inv, TypeOK, LocalType, HistoryType, Threads, TaskInv, HistoryOK
<1>1. ASSUME NEW t \in Threads, Call(t) PROVE FALSE
  BY <1>0, <1>1 DEF Call, EnqueueInline, EnqueueCount, ParallelForSerial, ParallelForEnter,
                    CanCall, Home
<1>2. ASSUME NEW t \in Threads, Step(t) PROVE FALSE
  <2>1. pc[t] # "waitLoad" /\ \A u \in Threads \ {t} : pc'[u] = pc[u]
    BY <1>0, <1>2 DEF Step, EnqueuePush, EnqueueNotify, DispatchLock, DispatchPublish, DispatchNotify,
       DispatchAwait, DispatchDrainLoad, DispatchDrainWait, DispatchReturn, ClaimChunk, RunChunk,
       CountDown
  <2> QED BY <1>0, <2>1
<1>3. ASSUME NEW w \in AllWorkers, WorkerStep(w) \/ SpuriousWake(w) PROVE FALSE
  <2>1. pc'[c] = pc[c]
    BY <1>0, <1>3 DEF WorkerStep, WorkerLeaveLoop, WorkerNotifyLoop, WorkerTakeLoop, WorkerTakeTask,
       WorkerSleep, WorkerExit, WorkerFinishTask, WorkerRetireTask, WorkerNotifyPending, SpuriousWake
  <2> QED BY <2>1
<1>4. ASSUME NEW d \in Clients, WaitCall(d) \/ DestroyCall(d) \/ ClientStep(d)
      PROVE  m_pendingCount = 0
  BY <1>0, <1>4 DEF WaitCall, DestroyCall, ClientStep, WaitReturn, WaitLoad, WaitFutex, JoinWorker,
     JoinReturn
<1>5. ~ UNCHANGED vars
  BY DEF vars
<1>6. m_pendingCount = 0
  BY <1>1, <1>2, <1>3, <1>4, <1>5 DEF Next, Terminated
<1>7. (1 .. issued) \subseteq finished
  BY <1>6, NonePending
<1> QED BY <1>0, <1>7

(* wait() of any pool returns only after the tasks enqueued before it.     *)
THEOREM WaitSeesTasks == Spec => WaitSeesAllDone
<1>1. Inv /\ TaskInv /\ [Next]_vars =>
        [\A c \in Clients :
           pc[c] = "waitLoad" /\ pc'[c] = "idle" => (1 .. before[c]) \subseteq finished]_vars
  BY WaitStep
<1> QED BY <1>1, TaskInvariant, PTL DEF Spec, WaitSeesAllDone
-----------------------------------------------------------------------------
(* The indices of a loop.  A chunk is unclaimed, claimed by one thread that
   has yet to run it, or run; the latch counts the chunks that are unclaimed
   or still held.  An index has been visited once exactly when the chunk it
   lies in has run, and the chunks cut the range without gap or overlap.   *)

Running(l) == {t \in Threads : pc[t] \in {"run", "countDown"} /\ loop[t] = l}
ChunksLeft(d) == IF d.nextChunk < d.numChunks THEN d.numChunks - d.nextChunk ELSE 0
InRange(d, i) == d.begin <= i /\ i < d.end
InChunk(d, c, i) == ChunkBegin(d, c) <= i /\ i < ChunkEnd(d, c)
ChunkIds(d) == 0 .. (d.numChunks - 1)
Ran(l, c) == /\ c < desc[l].nextChunk
             /\ \A t \in Threads : pc[t] = "run" /\ loop[t] = l => chunk[t] # c
Visited(l, i) == \E c \in ChunkIds(desc[l]) : Ran(l, c) /\ InChunk(desc[l], c, i)

(* The descriptor cuts its range as dispatchParallelFor does.              *)
Cut(d) ==
  /\ d.begin < d.end /\ d.numChunks > 0 /\ d.numChunks <= d.end - d.begin
  /\ d.chunkSize = (d.end - d.begin) \div d.numChunks
  /\ d.remainder = (d.end - d.begin) % d.numChunks

LatchOK(l) == desc[l].done = ChunksLeft(desc[l]) + Cardinality(Running(l))

ClaimsOK(l) ==
  /\ \A t \in Running(l) : chunk[t] < desc[l].nextChunk /\ chunk[t] \in ChunkIds(desc[l])
  /\ \A t, u \in Running(l) : chunk[t] = chunk[u] => t = u

HitsOK(l) == \A i \in Indices : hits[l][i] = IF Visited(l, i) THEN 1 ELSE 0

(* Of a loop under way, of one that has returned, and of one not yet made. *)
LiveOK(l) == l <= loops /\ Cut(desc[l]) /\ LatchOK(l) /\ ClaimsOK(l) /\ HitsOK(l)
ClosedOK(l) == \A i \in Indices : hits[l][i] = IF InRange(desc[l], i) THEN 1 ELSE 0
FreshOK(l) == ~ desc[l].live /\ \A i \in Indices : hits[l][i] = 0

LoopOK(l) ==
  /\ desc[l].live => LiveOK(l)
  /\ ~ desc[l].live /\ l <= loops => ClosedOK(l)
  /\ l > loops => FreshOK(l)

DrainPoints == {"drain", "drainWait", "drainAsleep"}
DrainOK == \A t \in Threads : pc[t] \in DrainPoints => desc[loop[t]].done = 0

IndexInv == (\A l \in LoopIds : LoopOK(l)) /\ DrainOK

(* The chunks of a cut range lie in it, are disjoint, and cover it.        *)
LEMMA CutRange ==
  ASSUME NEW d \in DescType, Cut(d)
  PROVE  /\ \A c \in ChunkIds(d) : \A i \in Int : InChunk(d, c, i) => InRange(d, i)
         /\ \A c, e \in ChunkIds(d) : \A i \in Int : InChunk(d, c, i) /\ InChunk(d, e, i) => c = e
         /\ \A i \in Int : InRange(d, i) => \E c \in ChunkIds(d) : InChunk(d, c, i)
<1>1. PICK n \in Nat, b \in Nat, count \in Nat, q \in Int, m \in Int :
        /\ n = d.numChunks /\ b = d.begin /\ count = d.end - d.begin
        /\ q = d.chunkSize /\ m = d.remainder
  BY DEF Cut, DescType
<1>2. /\ n > 0 /\ n <= count /\ q = count \div n /\ m = count % n /\ d.end = b + count
      /\ d.begin \in Nat /\ d.end \in Nat
  BY <1>1 DEF Cut, DescType
<1>3. q \in Nat /\ m \in 0 .. (n - 1) /\ count = n * q + m
  <2>1. /\ count \div n \in Nat /\ count % n \in 0 .. (n - 1)
        /\ count = n * (count \div n) + (count % n)
    BY <1>2
  <2> QED BY <1>2, <2>1
<1>4. q > 0
  <2> SUFFICES ASSUME q = 0 PROVE FALSE
    BY <1>3
  <2> QED BY <1>2, <1>3
<1> DEFINE Low(c) == IF c < m THEN c ELSE m
<1>5. \A c \in Int : /\ ChunkBegin(d, c) = b + c * q + Low(c)
                     /\ ChunkEnd(d, c) = b + c * q + Low(c) + q + (IF c < m THEN 1 ELSE 0)
  BY <1>1 DEF ChunkBegin, ChunkEnd
<1>6. ASSUME NEW c \in Int, NEW e \in Int, 0 <= c, c < e
      PROVE  ChunkEnd(d, c) <= ChunkBegin(d, e)
  <2>1. PICK k \in Nat : e = c + 1 + k
    <3>1. e - c - 1 \in Nat /\ e = c + 1 + (e - c - 1)
      BY <1>6
    <3> QED BY <3>1
  <2>2. e * q = c * q + q + k * q /\ k * q \in Nat /\ c * q \in Int
    BY <1>3, <2>1
  <2>3. Low(c) + (IF c < m THEN 1 ELSE 0) <= Low(e)
    BY <1>3, <1>6
  <2>4. /\ ChunkEnd(d, c) = b + c * q + (Low(c) + (IF c < m THEN 1 ELSE 0)) + q
        /\ ChunkBegin(d, e) = b + e * q + Low(e)
        /\ Low(c) \in Int /\ Low(e) \in Int
    <3>1. PICK x \in Int : x = c * q
      BY <1>3
    <3>2. ChunkEnd(d, c) = b + x + Low(c) + q + (IF c < m THEN 1 ELSE 0)
      BY <1>5, <3>1
    <3>3. ChunkEnd(d, c) = b + x + (Low(c) + (IF c < m THEN 1 ELSE 0)) + q
      BY <1>3, <3>2
    <3>4. Low(c) \in Int /\ Low(e) \in Int
      BY <1>3
    <3> QED BY <1>5, <3>1, <3>3, <3>4
  <2> HIDE DEF Low
  <2> QED BY <1>3, <2>2, <2>3, <2>4
<1>7. ChunkBegin(d, n) = b + count
  <2>1. ChunkBegin(d, n) = b + n * q + Low(n) /\ Low(n) = m
    BY <1>3, <1>5
  <2>2. n * q \in Int
    BY <1>3
  <2> QED BY <1>3, <2>1, <2>2
<1>8. ChunkIds(d) = 0 .. (n - 1)
  BY <1>1 DEF ChunkIds
<1>9. ASSUME NEW c \in ChunkIds(d), NEW i \in Int, InChunk(d, c, i) PROVE InRange(d, i)
  <2>1. c \in Nat /\ c < n
    BY <1>8
  <2>2. ChunkEnd(d, c) <= b + count
    BY <1>6, <1>7, <2>1
  <2>3. b <= ChunkBegin(d, c)
    <3>1. c * q \in Nat /\ Low(c) \in Nat
      BY <1>3, <2>1
    <3>2. ChunkBegin(d, c) = b + c * q + Low(c)
      BY <1>5, <2>1
    <3> HIDE DEF Low
    <3> QED BY <3>1, <3>2
  <2>4. ChunkBegin(d, c) \in Int /\ ChunkEnd(d, c) \in Int
    <3>1. c * q \in Int
      BY <1>3, <2>1
    <3> QED BY <1>3, <1>5, <2>1, <3>1
  <2> QED BY <1>1, <1>2, <1>9, <2>2, <2>3, <2>4 DEF InChunk, InRange
<1>10. ASSUME NEW c \in ChunkIds(d), NEW e \in ChunkIds(d), NEW i \in Int,
              InChunk(d, c, i), InChunk(d, e, i), c < e
       PROVE  FALSE
  <2>1. c \in Nat /\ e \in Nat
    BY <1>8
  <2>2. ChunkEnd(d, c) <= ChunkBegin(d, e)
    BY <1>6, <1>10, <2>1
  <2>3. ChunkEnd(d, c) \in Int /\ ChunkBegin(d, e) \in Int
    <3>1. c * q \in Int /\ e * q \in Int
      BY <1>3, <2>1
    <3> QED BY <1>3, <1>5, <2>1, <3>1
  <2> QED BY <1>10, <2>2, <2>3 DEF InChunk
<1>11. ASSUME NEW c \in ChunkIds(d), NEW e \in ChunkIds(d), NEW i \in Int,
              InChunk(d, c, i), InChunk(d, e, i)
       PROVE  c = e
  <2>1. c \in Int /\ e \in Int
    BY <1>8
  <2>2. ~ (c < e) /\ ~ (e < c)
    BY <1>10, <1>11
  <2> QED BY <2>1, <2>2
<1>12. ASSUME NEW i \in Int, InRange(d, i) PROVE \E c \in ChunkIds(d) : InChunk(d, c, i)
  <2>1. PICK j \in Nat : j = i - b
    BY <1>1, <1>12 DEF InRange
  <2>2. j < count
    BY <1>1, <1>2, <1>12, <2>1 DEF InRange
  <2>3. CASE j < m * (q + 1)
    <3>1. PICK c \in Nat : c * (q + 1) <= j /\ j < c * (q + 1) + (q + 1)
      <4>1. j \div (q + 1) \in Nat /\ j = (q + 1) * (j \div (q + 1)) + (j % (q + 1))
            /\ j % (q + 1) \in 0 .. q
        BY <1>3
      <4>2. PICK c \in Nat, u \in 0 .. q : c = j \div (q + 1) /\ u = j % (q + 1)
        BY <4>1
      <4>3. j = (q + 1) * c + u /\ (q + 1) * c = c * (q + 1) /\ c * (q + 1) \in Int
        BY <1>3, <4>1, <4>2
      <4>4. c * (q + 1) <= j /\ j < c * (q + 1) + (q + 1)
        BY <1>3, <4>3
      <4> QED BY <4>4
    <3>2. c < m
      <4> SUFFICES ASSUME c >= m PROVE FALSE
        BY <1>3
      <4>1. PICK k \in Nat : c = m + k
        <5>1. c - m \in Nat /\ c = m + (c - m)
          BY <1>3
        <5> QED BY <5>1
      <4>2. c * (q + 1) = m * (q + 1) + k * (q + 1) /\ k * (q + 1) \in Nat /\ m * (q + 1) \in Nat
        BY <1>3, <4>1
      <4> QED BY <2>3, <3>1, <4>2
    <3>3. c * (q + 1) = c * q + c /\ c * q \in Nat
      BY <1>3
    <3>4. ChunkBegin(d, c) <= i /\ i < ChunkEnd(d, c)
      BY <1>3, <1>5, <2>1, <3>1, <3>2, <3>3
    <3> QED BY <1>3, <1>8, <3>2, <3>4 DEF InChunk
  <2>4. CASE ~ (j < m * (q + 1))
    <3>1. m * (q + 1) = m * q + m /\ m * q \in Nat
      BY <1>3
    <3>2. PICK p \in Nat : p = j - (m * q + m)
      BY <1>3, <2>4, <3>1
    <3>3. PICK k \in Nat : k * q <= p /\ p < k * q + q
      <4>1. p \div q \in Nat /\ p = q * (p \div q) + (p % q) /\ p % q \in 0 .. (q - 1)
        BY <1>3, <1>4
      <4>2. PICK k \in Nat, u \in 0 .. (q - 1) : k = p \div q /\ u = p % q
        BY <4>1
      <4>3. p = q * k + u /\ q * k = k * q /\ k * q \in Int
        BY <1>3, <4>1, <4>2
      <4>4. k * q <= p /\ p < k * q + q
        BY <1>3, <4>3
      <4> QED BY <4>4
    <3>4. (m + k) * q = m * q + k * q /\ k * q \in Nat
      BY <1>3
    <3>5. m + k < n
      <4> SUFFICES ASSUME m + k >= n PROVE FALSE
        BY <1>3
      <4>1. PICK z \in Nat : m + k = n + z
        <5>1. m + k - n \in Nat /\ m + k = n + (m + k - n)
          BY <1>3
        <5> QED BY <5>1
      <4>2. (m + k) * q = n * q + z * q /\ z * q \in Nat /\ n * q \in Nat
        BY <1>3, <4>1
      <4> QED BY <1>3, <2>2, <3>1, <3>2, <3>3, <3>4, <4>2
    <3>6. ChunkBegin(d, m + k) <= i /\ i < ChunkEnd(d, m + k)
      BY <1>3, <1>5, <2>1, <3>1, <3>2, <3>3, <3>4
    <3>7. m + k \in ChunkIds(d)
      BY <1>3, <1>8, <3>5
    <3> QED BY <3>6, <3>7 DEF InChunk
  <2> QED BY <2>3, <2>4
<1> QED BY <1>9, <1>11, <1>12

(* dispatchParallelFor cuts a range into at most as many chunks as it has
   indices.                                                                *)
LEMMA NewDescCut ==
  ASSUME TypeOK, NEW t \in Threads, NEW r \in Requests, r[1] < r[2], NumChunks(r) > 1
  PROVE  Cut(NewDesc(t, r))
<1>1. PICK count \in Nat, g \in Nat : count = r[2] - r[1] /\ g = EffectiveGrain(r[3]) /\ g > 0
  BY RequestAssumption DEF EffectiveGrain
<1>2. PICK q \in Int : q = DivideUp(count, g)
  BY <1>1 DEF DivideUp
<1>3. NumChunks(r) \in Int /\ NumChunks(r) <= q
  BY <1>1, <1>2, ThreadCountType DEF NumChunks, computeChunkCount, s_ChunkOversubscription
<1>4. q <= count
  <2>1. PICK a \in Int : a = count + g - 1
    BY <1>1
  <2>2. q = a \div g
    BY <1>2, <2>1 DEF DivideUp
  <2>3. q * g <= a
    BY <1>1, <2>1, <2>2
  <2> SUFFICES ASSUME q > count PROVE FALSE
    BY <1>1
  <2>4. PICK k \in Nat : q = count + 1 + k
    <3>1. q - count - 1 \in Nat /\ q = count + 1 + (q - count - 1)
      BY <1>1
    <3> QED BY <3>1
  <2>5. q * g = count * g + g + k * g /\ k * g \in Nat
    BY <1>1, <2>4
  <2>6. count * g >= count
    <3>1. PICK h \in Nat : g = 1 + h
      <4>1. g - 1 \in Nat /\ g = 1 + (g - 1)
        BY <1>1
      <4> QED BY <4>1
    <3>2. count * g = count + count * h /\ count * h \in Nat
      BY <1>1, <3>1
    <3> QED BY <1>1, <3>2
  <2> QED BY <1>1, <2>1, <2>3, <2>5, <2>6
<1>5. /\ NewDesc(t, r).begin = r[1] /\ NewDesc(t, r).end = r[2]
      /\ NewDesc(t, r).numChunks = NumChunks(r)
      /\ NewDesc(t, r).chunkSize = (r[2] - r[1]) \div NumChunks(r)
      /\ NewDesc(t, r).remainder = (r[2] - r[1]) % NumChunks(r)
  BY DEF NewDesc
<1> QED BY <1>1, <1>3, <1>4, <1>5 DEF Cut

(* What a step that leaves loop l alone keeps of it.                       *)
SameFields(d, e) ==
  /\ e.live = d.live /\ e.begin = d.begin /\ e.end = d.end
  /\ e.numChunks = d.numChunks /\ e.chunkSize = d.chunkSize /\ e.remainder = d.remainder
  /\ e.nextChunk = d.nextChunk /\ e.done = d.done

SameView(l) ==
  /\ SameFields(desc[l], desc'[l]) /\ hits'[l] = hits[l]
  /\ \A t \in Threads :
       /\ pc'[t] = "run" /\ loop'[t] = l <=> pc[t] = "run" /\ loop[t] = l
       /\ pc'[t] = "countDown" /\ loop'[t] = l <=> pc[t] = "countDown" /\ loop[t] = l
       /\ pc[t] \in {"run", "countDown"} /\ loop[t] = l => chunk'[t] = chunk[t]

(* Every loop made by then was made before, unless this step makes it.     *)
NoNewLoop(l) == loops' \in Nat /\ loops <= loops' /\ (l <= loops' => l <= loops)

(* A loop whose view is unchanged is still accounted for.                  *)
LEMMA SameViewKeeps ==
  ASSUME Inv, NEW l \in LoopIds, LoopOK(l), SameView(l), NoNewLoop(l)
  PROVE  LoopOK(l)'
<1>1. Running(l)' = Running(l) /\ \A t \in Running(l) : chunk'[t] = chunk[t]
  BY DEF Running, SameView
<1>2. /\ SameFields(desc[l], desc'[l]) /\ hits'[l] = hits[l] /\ l \in Nat /\ loops \in Nat
      /\ ChunkIds(desc'[l]) = ChunkIds(desc[l])
  BY BoundAssumption DEF SameView, LoopIds, Inv, TypeOK, HistoryType, ChunkIds, SameFields
<1>3. \A c : Ran(l, c)' <=> Ran(l, c)
  BY DEF Ran, SameView, SameFields
<1>4. \A c, i : InChunk(desc'[l], c, i) <=> InChunk(desc[l], c, i)
  BY <1>2 DEF InChunk, ChunkBegin, ChunkEnd, SameFields
<1>5. \A i : Visited(l, i)' <=> Visited(l, i)
  BY <1>2, <1>3, <1>4 DEF Visited
<1>6. LiveOK(l) => LiveOK(l)'
  <2>1. Cut(desc[l]) => Cut(desc'[l])
    BY <1>2 DEF Cut, SameFields
  <2>2. LatchOK(l) => LatchOK(l)'
    BY <1>1, <1>2 DEF LatchOK, ChunksLeft, SameFields
  <2>3. ClaimsOK(l) => ClaimsOK(l)'
    BY <1>1, <1>2 DEF ClaimsOK, SameFields
  <2>4. HitsOK(l) => HitsOK(l)'
    BY <1>2, <1>5 DEF HitsOK
  <2>5. l <= loops => l <= loops'
    BY <1>2 DEF NoNewLoop
  <2> QED BY <2>1, <2>2, <2>3, <2>4, <2>5 DEF LiveOK
<1>7. ClosedOK(l) => ClosedOK(l)'
  BY <1>2 DEF ClosedOK, InRange, SameFields
<1>8. FreshOK(l) => FreshOK(l)'
  BY <1>2 DEF FreshOK, SameFields
<1>9. l > loops' => l > loops
  BY <1>2 DEF NoNewLoop
<1> QED BY <1>2, <1>6, <1>7, <1>8, <1>9 DEF LoopOK, NoNewLoop, SameFields

(* The steps that touch no chunk, no index and no loop count.              *)
IndexQuiet ==
  /\ hits' = hits /\ loops' = loops
  /\ \A l \in LoopIds : SameFields(desc[l], desc'[l])
  /\ \A t \in Threads :
       /\ pc'[t] = "run" <=> pc[t] = "run"
       /\ pc'[t] = "countDown" <=> pc[t] = "countDown"
       /\ pc[t] \in {"run", "countDown"} => loop'[t] = loop[t] /\ chunk'[t] = chunk[t]
       /\ pc'[t] \in DrainPoints => pc[t] \in DrainPoints /\ loop'[t] = loop[t]

(* Such a step keeps every loop's account of its indices.                  *)
LEMMA IndexQuietStep ==
  ASSUME Inv, IndexInv, IndexQuiet
  PROVE  IndexInv'
<1>1. ASSUME NEW l \in LoopIds PROVE LoopOK(l)'
  <2>1. SameView(l)
    BY DEF IndexQuiet, SameView
  <2>2. NoNewLoop(l)
    BY BoundAssumption DEF IndexQuiet, NoNewLoop, Inv, TypeOK, HistoryType
  <2> QED BY <2>1, <2>2, SameViewKeeps DEF IndexInv
<1>2. DrainOK'
  <2> SUFFICES ASSUME NEW t \in Threads, pc'[t] \in DrainPoints PROVE desc'[loop'[t]].done = 0
    BY DEF DrainOK
  <2>1. pc[t] \in DrainPoints /\ loop'[t] = loop[t] /\ desc[loop[t]].done = 0
    BY DEF IndexQuiet, IndexInv, DrainOK
  <2>2. loop[t] \in LoopIds
    BY <2>1, LoopTypes DEF DrainPoints, LoopPoints
  <2> QED BY <2>1, <2>2 DEF IndexQuiet, SameFields
<1> QED BY <1>1, <1>2 DEF IndexInv

(* They are the steps outside the chunks and the ends of a loop.           *)
LEMMA IndexQuietSteps ==
  ASSUME Inv,
         \/ \E t \in Threads :
              \/ EnqueueInline(t) \/ (\E n \in 1 .. MaxBatch : EnqueueCount(t, n))
              \/ EnqueuePush(t) \/ EnqueueNotify(t)
              \/ DispatchLock(t) \/ DispatchPublish(t) \/ DispatchNotify(t)
              \/ DispatchDrainLoad(t) \/ DispatchDrainWait(t)
         \/ \E w \in AllWorkers : WorkerStep(w) \/ SpuriousWake(w)
         \/ \E c \in Clients : WaitCall(c) \/ DestroyCall(c) \/ ClientStep(c)
         \/ UNCHANGED vars
  PROVE  IndexQuiet
<1> USE DEF poolVars, ghosts, Goto, DrainPoints
<1> DEFINE Calm == \A t \in Threads :
                     /\ pc'[t] = "run" <=> pc[t] = "run"
                     /\ pc'[t] = "countDown" <=> pc[t] = "countDown"
                     /\ pc[t] \in {"run", "countDown"} => loop'[t] = loop[t] /\ chunk'[t] = chunk[t]
                     /\ pc'[t] \in DrainPoints => pc[t] \in DrainPoints /\ loop'[t] = loop[t]
           Fixed == hits' = hits /\ loops' = loops
           Kept == \A l \in LoopIds : SameFields(desc[l], desc'[l])
<1>0. /\ pc \in [Threads -> ControlPoints] /\ loop \in [Threads -> 0 .. MaxLoops]
      /\ chunk \in [Threads -> Nat] /\ desc \in [LoopIds -> DescType]
      /\ AllWorkers \subseteq Threads /\ Clients \subseteq Threads
  BY DEF Inv, TypeOK, LocalType, Threads
<1>a. desc' = desc => Kept
  BY DEF SameFields
<1>1. ASSUME NEW t \in Threads, EnqueueInline(t) PROVE Calm /\ Fixed /\ Kept
  BY <1>0, <1>1, <1>a DEF EnqueueInline
<1>2. ASSUME NEW t \in Threads, NEW n \in 1 .. MaxBatch, EnqueueCount(t, n) PROVE Calm /\ Fixed /\ Kept
  BY <1>0, <1>2, <1>a DEF EnqueueCount, CanCall, Home
<1>3. ASSUME NEW t \in Threads, EnqueuePush(t) \/ EnqueueNotify(t) PROVE Calm /\ Fixed /\ Kept
  BY <1>0, <1>3, <1>a DEF EnqueuePush, EnqueueNotify, Home
<1>4. ASSUME NEW t \in Threads, DispatchLock(t) \/ DispatchPublish(t) \/ DispatchNotify(t)
      PROVE  Calm /\ Fixed /\ Kept
  BY <1>0, <1>4, <1>a DEF DispatchLock, DispatchPublish, DispatchNotify
<1>5. ASSUME NEW t \in Threads, DispatchDrainLoad(t) \/ DispatchDrainWait(t)
      PROVE  Calm /\ Fixed /\ Kept
  BY <1>0, <1>5, <1>a DEF DispatchDrainLoad, DispatchDrainWait
<1>6. ASSUME NEW w \in AllWorkers, WorkerLeaveLoop(w) PROVE Calm /\ Fixed /\ Kept
  <2>1. Kept
    BY <1>0, <1>6 DEF WorkerLeaveLoop, SameFields, DescType
  <2>2. Calm /\ Fixed
    BY <1>0, <1>6 DEF WorkerLeaveLoop
  <2> QED BY <2>1, <2>2
<1>7. ASSUME NEW w \in AllWorkers, WorkerTakeLoop(w) PROVE Calm /\ Fixed /\ Kept
  <2>1. Kept
    BY <1>0, <1>7 DEF WorkerTakeLoop, SameFields, DescType
  <2>2. Calm /\ Fixed
    BY <1>0, <1>7 DEF WorkerTakeLoop, AtLoop
  <2> QED BY <2>1, <2>2
<1>8. ASSUME NEW w \in AllWorkers, WorkerNotifyLoop(w) PROVE Calm /\ Fixed /\ Kept
  BY <1>0, <1>8, <1>a DEF WorkerNotifyLoop
<1>9. ASSUME NEW w \in AllWorkers, \/ WorkerTakeTask(w) \/ WorkerSleep(w) \/ WorkerExit(w)
                                   \/ WorkerFinishTask(w) \/ WorkerRetireTask(w) \/ SpuriousWake(w)
      PROVE  Calm /\ Fixed /\ Kept
  BY <1>0, <1>9, <1>a DEF WorkerTakeTask, WorkerSleep, WorkerExit, WorkerFinishTask,
                          WorkerRetireTask, SpuriousWake, AtLoop
<1>10. ASSUME NEW w \in AllWorkers, WorkerNotifyPending(w) PROVE Calm /\ Fixed /\ Kept
  BY <1>0, <1>10, <1>a DEF WorkerNotifyPending
<1>11. ASSUME NEW c \in Clients, WaitCall(c) \/ DestroyCall(c) PROVE Calm /\ Fixed /\ Kept
  BY <1>0, <1>11, <1>a DEF WaitCall, DestroyCall
<1>12. ASSUME NEW c \in Clients, ClientStep(c) PROVE Calm /\ Fixed /\ Kept
  BY <1>0, <1>12, <1>a DEF ClientStep, WaitReturn, WaitLoad, WaitFutex, JoinWorker, JoinReturn
<1>13. ASSUME UNCHANGED vars PROVE Calm /\ Fixed /\ Kept
  BY <1>0, <1>13, <1>a DEF vars
<1>14. Calm /\ Fixed /\ Kept
  BY <1>1, <1>2, <1>3, <1>4, <1>5, <1>6, <1>7, <1>8, <1>9, <1>10, <1>11, <1>12, <1>13
     DEF WorkerStep
<1> QED BY <1>14 DEF IndexQuiet

(* What a thread or a published pointer refers to is a loop that was made. *)
LEMMA LoopCounts ==
  ASSUME Inv
  PROVE  /\ loops \in Nat /\ loops <= MaxLoops /\ MaxLoops \in Nat
         /\ \A l \in LoopIds : l \in Nat /\ l # 0
         /\ \A t \in Threads : loop[t] \in Nat /\ loop[t] <= loops
  BY ReferencedLoops, BoundAssumption DEF Inv, TypeOK, HistoryType, LoopIds

(* A loop that was run in the caller has visited its range and no more.    *)
LEMMA SerialIndices ==
  ASSUME Inv, IndexInv, NEW t \in Threads, NEW r \in Requests, ParallelForSerial(t, r)
  PROVE  IndexInv'
<1>0. PICK n : n = loops + 1
  OBVIOUS
<1>1. /\ loops' = n /\ loops < MaxLoops /\ pc' = pc /\ loop' = loop /\ chunk' = chunk
      /\ desc' = [desc EXCEPT ![n] = [@ EXCEPT !.owner = t, !.begin = r[1], !.end = r[2]]]
      /\ hits' = [hits EXCEPT ![n] = [i \in Indices |->
                    @[i] + (IF r[1] <= i /\ i < r[2] THEN 1 ELSE 0)]]
  BY <1>0 DEF ParallelForSerial, RunRange
<1>2. n \in LoopIds /\ n \in Nat /\ loops \in Nat /\ n > loops
  BY <1>0, <1>1, LoopCounts DEF LoopIds
<1>3. desc \in [LoopIds -> DescType] /\ hits \in [LoopIds -> [Indices -> Nat]]
  BY DEF Inv, TypeOK, HistoryType
<1>4. \A l \in LoopIds : l # n => desc'[l] = desc[l] /\ hits'[l] = hits[l]
  BY <1>1, <1>2, <1>3
<1>5. ASSUME NEW l \in LoopIds, l # n PROVE LoopOK(l)'
  <2>1. SameView(l)
    BY <1>1, <1>4, <1>5 DEF SameView, SameFields
  <2>2. NoNewLoop(l)
    BY <1>0, <1>1, <1>2, <1>5, LoopCounts DEF NoNewLoop
  <2> QED BY <2>1, <2>2, SameViewKeeps DEF IndexInv
<1>6. LoopOK(n)'
  <2>1. FreshOK(n)
    BY <1>2 DEF IndexInv, LoopOK
  <2>2. desc'[n].live = FALSE /\ desc'[n].begin = r[1] /\ desc'[n].end = r[2]
    BY <1>1, <1>2, <1>3, <2>1 DEF FreshOK, DescType
  <2>3. \A i \in Indices : hits'[n][i] = IF r[1] <= i /\ i < r[2] THEN 1 ELSE 0
    BY <1>1, <1>2, <1>3, <2>1 DEF FreshOK
  <2>4. ClosedOK(n)'
    BY <1>0, <2>2, <2>3 DEF ClosedOK, InRange
  <2> QED BY <1>1, <1>2, <2>2, <2>4 DEF LoopOK
<1>7. DrainOK'
  <2>1. \A u \in Threads : pc[u] \in DrainPoints => loop[u] \in LoopIds /\ loop[u] # n
    BY <1>2, LoopTypes, LoopCounts DEF DrainPoints, LoopPoints
  <2> QED BY <1>1, <1>4, <2>1 DEF DrainOK, IndexInv
<1> QED BY <1>5, <1>6, <1>7 DEF IndexInv

(* A new loop has all its chunks unclaimed and none of its indices visited. *)
LEMMA EnterIndices ==
  ASSUME Inv, IndexInv, NEW t \in Threads, NEW r \in Requests, ParallelForEnter(t, r)
  PROVE  IndexInv'
<1>0. PICK n, d : n = loops + 1 /\ d = NewDesc(t, r)
  OBVIOUS
<1>1. /\ loops' = n /\ loops < MaxLoops /\ chunk' = chunk /\ hits' = hits
      /\ desc' = [desc EXCEPT ![n] = d] /\ loop' = [loop EXCEPT ![t] = n]
      /\ pc' = [pc EXCEPT ![t] = "pfLock"] /\ pc[t] \notin LoopPoints
  BY <1>0 DEF ParallelForEnter, Goto, CanCall, Home, RunsSerially, Inv, LocalsOK, LoopPoints, ChunkPoints
<1>2. n \in LoopIds /\ n \in Nat /\ loops \in Nat /\ n > loops
  BY <1>0, <1>1, LoopCounts DEF LoopIds
<1>3. /\ desc \in [LoopIds -> DescType] /\ pc \in [Threads -> ControlPoints]
      /\ loop \in [Threads -> 0 .. MaxLoops]
  BY DEF Inv, TypeOK, LocalType
<1>4. /\ pc'[t] = "pfLock" /\ loop'[t] = n
      /\ \A u \in Threads \ {t} : pc'[u] = pc[u] /\ loop'[u] = loop[u] /\ loop[u] # n
  BY <1>1, <1>2, <1>3, LoopCounts
<1>5. ASSUME NEW l \in LoopIds, l # n PROVE LoopOK(l)'
  <2>1. SameView(l)
    BY <1>1, <1>2, <1>3, <1>4, <1>5 DEF SameView, SameFields, LoopPoints
  <2>2. NoNewLoop(l)
    BY <1>0, <1>1, <1>2, <1>5, LoopCounts DEF NoNewLoop
  <2> QED BY <2>1, <2>2, SameViewKeeps DEF IndexInv
<1>6. LoopOK(n)'
  <2>1. FreshOK(n)
    BY <1>2 DEF IndexInv, LoopOK
  <2>2. /\ desc'[n] = d /\ d.live /\ d.nextChunk = 0 /\ d.done = d.numChunks /\ d \in DescType
        /\ Cut(d)
    <3>1. d \in DescType /\ Cut(d)
      BY <1>0, NewDescType, NewDescCut DEF ParallelForEnter, Inv
    <3> QED BY <1>0, <1>1, <1>2, <1>3, <3>1 DEF NewDesc
  <2>3. Running(n)' = {}
    BY <1>4 DEF Running
  <2>4. LatchOK(n)'
    <3>1. Cardinality(Running(n)') = 0
      BY <2>3, FS_EmptySet, Zenon
    <3>2. ChunksLeft(desc'[n]) = d.numChunks /\ d.numChunks \in Nat
      BY <2>2 DEF ChunksLeft, Cut, DescType
    <3>3. desc'[n].done = ChunksLeft(desc'[n]) + Cardinality(Running(n)')
      BY <2>2, <3>1, <3>2
    <3> QED BY <1>0, <3>3 DEF LatchOK
  <2>5. ClaimsOK(n)'
    BY <1>0, <2>3 DEF ClaimsOK
  <2>6. HitsOK(n)'
    <3>1. ASSUME NEW i PROVE ~ Visited(n, i)'
      BY <2>2 DEF Visited, Ran, ChunkIds, DescType
    <3> QED BY <1>1, <2>1, <3>1 DEF HitsOK, FreshOK
  <2> QED BY <1>1, <1>2, <2>2, <2>4, <2>5, <2>6 DEF LoopOK, LiveOK
<1>7. DrainOK'
  <2>1. \A u \in Threads : pc[u] \in DrainPoints => loop[u] \in LoopIds /\ loop[u] # n
    BY <1>2, LoopTypes, LoopCounts DEF DrainPoints, LoopPoints
  <2>2. \A u \in Threads : pc'[u] \in DrainPoints => u # t
    BY <1>4 DEF DrainPoints
  <2> QED BY <1>1, <1>3, <1>4, <2>1, <2>2 DEF DrainOK, IndexInv
<1> QED BY <1>5, <1>6, <1>7 DEF IndexInv

(* The dispatcher that leaves done.wait() drains a loop whose latch is zero. *)
LEMMA AwaitIndices ==
  ASSUME Inv, IndexInv, NEW t \in Threads, DispatchAwait(t)
  PROVE  IndexInv'
<1>1. /\ pc[t] = "await" /\ desc[loop[t]].done = 0 /\ pc' = [pc EXCEPT ![t] = "drain"]
      /\ desc' = desc /\ loop' = loop /\ chunk' = chunk /\ hits' = hits /\ loops' = loops
  BY DEF DispatchAwait, Goto, ghosts
<1>2. pc \in [Threads -> ControlPoints]
  BY DEF Inv, TypeOK, LocalType
<1>3. ASSUME NEW l \in LoopIds PROVE LoopOK(l)'
  <2>1. SameView(l)
    BY <1>1, <1>2 DEF SameView, SameFields
  <2>2. NoNewLoop(l)
    BY <1>1, LoopCounts DEF NoNewLoop
  <2> QED BY <2>1, <2>2, SameViewKeeps DEF IndexInv
<1>4. DrainOK'
  BY <1>1, <1>2 DEF DrainOK, IndexInv
<1> QED BY <1>3, <1>4 DEF IndexInv

(* The threads of a loop are finitely many.                                *)
LEMMA RunningFinite ==
  \A l : IsFiniteSet(Running(l)) /\ Cardinality(Running(l)) \in Nat
<1> SUFFICES ASSUME NEW l PROVE IsFiniteSet(Running(l)) /\ Cardinality(Running(l)) \in Nat
  OBVIOUS
<1>1. IsFiniteSet(Threads)
  BY ThreadAssumption, FS_Union DEF Threads
<1>2. Running(l) \subseteq Threads
  BY DEF Running
<1>3. IsFiniteSet(Running(l))
  BY <1>1, <1>2, FS_Subset
<1> QED BY <1>3, FS_CardinalityType

(* A latch at zero means that every chunk of the loop has run.             *)
LEMMA LatchZero ==
  ASSUME Inv, NEW l \in LoopIds, LiveOK(l), desc[l].done = 0
  PROVE  Running(l) = {} /\ \A c \in ChunkIds(desc[l]) : Ran(l, c)
<1>1. desc[l].nextChunk \in Nat /\ desc[l].numChunks \in Nat
  BY DEF Inv, TypeOK, DescType
<1>2. ChunksLeft(desc[l]) \in Nat
  BY <1>1 DEF ChunksLeft
<1>3. ChunksLeft(desc[l]) = 0 /\ Cardinality(Running(l)) = 0
  BY <1>2, RunningFinite DEF LiveOK, LatchOK
<1>4. Running(l) = {}
  BY <1>3, RunningFinite, FS_EmptySet
<1>5. desc[l].numChunks <= desc[l].nextChunk
  BY <1>1, <1>3 DEF ChunksLeft
<1> QED BY <1>1, <1>4, <1>5 DEF Running, Ran, ChunkIds

(* When the dispatcher returns, every index of the range has been visited. *)
LEMMA ReturnIndices ==
  ASSUME Inv, IndexInv, NEW t \in Threads, DispatchReturn(t)
  PROVE  IndexInv'
<1>0. PICK n : n = loop[t]
  OBVIOUS
<1>1. /\ pc[t] = "drain" /\ pc' = [pc EXCEPT ![t] = Home(t)] /\ loop' = [loop EXCEPT ![t] = 0]
      /\ desc' = [desc EXCEPT ![n] = [desc[n] EXCEPT !.live = FALSE]]
      /\ chunk' = chunk /\ hits' = hits /\ loops' = loops
  BY <1>0 DEF DispatchReturn, Goto, ghosts
<1>2. /\ desc \in [LoopIds -> DescType] /\ pc \in [Threads -> ControlPoints]
      /\ loop \in [Threads -> 0 .. MaxLoops] /\ hits \in [LoopIds -> [Indices -> Nat]]
  BY DEF Inv, TypeOK, LocalType, HistoryType
<1>3. /\ n \in LoopIds /\ n <= loops /\ desc[n].live /\ desc[n].done = 0
  BY <1>0, <1>1, LoopTypes, LoopCounts
     DEF LoopPoints, DispatchPoints, DrainPoints, Inv, OwnerOK, IndexInv, DrainOK
<1>4. /\ pc'[t] \in {"idle", "task"}
      /\ \A u \in Threads \ {t} : pc'[u] = pc[u] /\ loop'[u] = loop[u]
  BY <1>1, <1>2 DEF Home
<1>5. /\ \A l \in LoopIds : l # n => desc'[l] = desc[l]
      /\ desc'[n].live = FALSE /\ desc'[n].done = desc[n].done
      /\ desc'[n].begin = desc[n].begin /\ desc'[n].end = desc[n].end
  BY <1>1, <1>2, <1>3 DEF DescType
<1>6. ASSUME NEW l \in LoopIds, l # n PROVE LoopOK(l)'
  <2>1. SameView(l)
    BY <1>0, <1>1, <1>4, <1>5, <1>6 DEF SameView, SameFields
  <2>2. NoNewLoop(l)
    BY <1>1, LoopCounts DEF NoNewLoop
  <2> QED BY <2>1, <2>2, SameViewKeeps DEF IndexInv
<1>7. LoopOK(n)'
  <2>1. LiveOK(n)
    BY <1>3 DEF IndexInv, LoopOK
  <2>2. \A c \in ChunkIds(desc[n]) : Ran(n, c)
    BY <1>3, <2>1, LatchZero
  <2>3. desc[n] \in DescType /\ Cut(desc[n])
    BY <1>2, <1>3, <2>1 DEF LiveOK
  <2>4. \A i \in Indices : Visited(n, i) <=> InRange(desc[n], i)
    <3> SUFFICES ASSUME NEW i \in Indices PROVE Visited(n, i) <=> InRange(desc[n], i)
      OBVIOUS
    <3>1. i \in Int
      BY RequestAssumption DEF Indices
    <3> QED BY <2>2, <2>3, <3>1, CutRange DEF Visited
  <2>5. \A i \in Indices : hits[n][i] = IF InRange(desc[n], i) THEN 1 ELSE 0
    BY <2>1, <2>4 DEF LiveOK, HitsOK
  <2>6. ClosedOK(n)'
    BY <1>0, <1>1, <1>5, <2>5 DEF ClosedOK, InRange
  <2> QED BY <1>1, <1>3, <1>5, <2>6, LoopCounts DEF LoopOK
<1>8. DrainOK'
  <2> SUFFICES ASSUME NEW u \in Threads, pc'[u] \in DrainPoints PROVE desc'[loop'[u]].done = 0
    BY DEF DrainOK
  <2>1. u # t /\ pc[u] \in DrainPoints /\ loop'[u] = loop[u]
    BY <1>4 DEF DrainPoints
  <2>2. loop[u] \in LoopIds /\ desc[loop[u]].done = 0
    BY <2>1, LoopTypes DEF DrainPoints, LoopPoints, IndexInv, DrainOK
  <2> QED BY <1>5, <2>1, <2>2
<1> QED BY <1>6, <1>7, <1>8 DEF IndexInv

(* A claim takes the next chunk, which nobody else has claimed.            *)
LEMMA ClaimIndices ==
  ASSUME Inv, IndexInv, NEW t \in Threads, ClaimChunk(t)
  PROVE  IndexInv'
<1>0. PICK n, x : n = loop[t] /\ x = desc[n].nextChunk
  OBVIOUS
<1>1. /\ pc[t] = "claim" /\ loop' = loop /\ hits' = hits /\ loops' = loops
      /\ desc' = [desc EXCEPT ![n] = [desc[n] EXCEPT !.nextChunk = @ + 1]]
  BY <1>0 DEF ClaimChunk, ghosts
<1>2. /\ desc \in [LoopIds -> DescType] /\ pc \in [Threads -> ControlPoints]
      /\ chunk \in [Threads -> Nat]
  BY DEF Inv, TypeOK, LocalType
<1>3. n \in LoopIds /\ desc[n].live /\ x \in Nat /\ desc[n].numChunks \in Nat
  BY <1>0, <1>1, <1>2, LoopTypes DEF LoopPoints, ChunkPoints, Inv, OwnerOK, DescType
<1>4. \A u \in Threads \ {t} : pc'[u] = pc[u] /\ chunk'[u] = chunk[u]
  BY <1>2 DEF ClaimChunk, Goto
<1>5. \/ x < desc[n].numChunks /\ pc'[t] = "run" /\ chunk'[t] = x
      \/ ~ (x < desc[n].numChunks) /\ pc'[t] \in {"await", "pfLeave"} /\ chunk'[t] = chunk[t]
  BY <1>0, <1>2 DEF ClaimChunk, Goto
<1>6. /\ \A l \in LoopIds : l # n => desc'[l] = desc[l]
      /\ desc'[n].nextChunk = x + 1 /\ desc'[n].live = desc[n].live /\ desc'[n].done = desc[n].done
      /\ desc'[n].begin = desc[n].begin /\ desc'[n].end = desc[n].end
      /\ desc'[n].numChunks = desc[n].numChunks /\ desc'[n].chunkSize = desc[n].chunkSize
      /\ desc'[n].remainder = desc[n].remainder
  BY <1>0, <1>1, <1>2, <1>3 DEF DescType
<1>7. ASSUME NEW l \in LoopIds, l # n PROVE LoopOK(l)'
  <2>1. SameView(l)
    BY <1>0, <1>1, <1>4, <1>6, <1>7 DEF SameView, SameFields
  <2>2. NoNewLoop(l)
    BY <1>1, LoopCounts DEF NoNewLoop
  <2> QED BY <2>1, <2>2, SameViewKeeps DEF IndexInv
<1>8. LoopOK(n)'
  <2>1. LiveOK(n)
    BY <1>3 DEF IndexInv, LoopOK
  <2>2. ChunkIds(desc'[n]) = ChunkIds(desc[n]) /\ ChunkIds(desc[n]) = 0 .. (desc[n].numChunks - 1)
    BY <1>6 DEF ChunkIds
  <2>3. \A u \in Running(n) : chunk[u] \in Nat /\ chunk[u] < x /\ chunk[u] \in ChunkIds(desc[n])
    BY <1>0, <1>2, <2>1 DEF LiveOK, ClaimsOK, Running
  <2>4. t \notin Running(n)
    BY <1>1 DEF Running
  <2>5. \A u \in Running(n) : chunk'[u] = chunk[u]
    BY <1>4, <2>4 DEF Running
  <2>6. Cut(desc'[n])
    BY <1>6, <2>1 DEF LiveOK, Cut
  <2>7. \A c \in ChunkIds(desc[n]) : Ran(n, c)' <=> Ran(n, c)
    <3> SUFFICES ASSUME NEW c \in ChunkIds(desc[n]) PROVE Ran(n, c)' <=> Ran(n, c)
      OBVIOUS
    <3>1. c \in Nat /\ c < desc[n].numChunks
      BY <1>3, <2>2
    <3>2. CASE x < desc[n].numChunks
      <4>1. pc'[t] = "run" /\ chunk'[t] = x
        BY <1>5, <3>2
      <4>2. c < x + 1 /\ c # x <=> c < x
        BY <1>3, <3>1
      <4> QED BY <1>0, <1>1, <1>4, <1>6, <4>1, <4>2 DEF Ran
    <3>3. CASE ~ (x < desc[n].numChunks)
      <4>1. pc'[t] # "run" /\ c < x + 1 /\ c < x
        BY <1>3, <1>5, <3>1, <3>3
      <4> QED BY <1>0, <1>1, <1>4, <1>6, <4>1 DEF Ran
    <3> QED BY <3>2, <3>3
  <2>8. HitsOK(n)'
    <3>1. \A c, i : InChunk(desc'[n], c, i) <=> InChunk(desc[n], c, i)
      BY <1>6 DEF InChunk, ChunkBegin, ChunkEnd
    <3>2. \A i : Visited(n, i)' <=> Visited(n, i)
      BY <2>2, <2>7, <3>1 DEF Visited
    <3> QED BY <1>1, <2>1, <3>2 DEF HitsOK, LiveOK
  <2>9. LatchOK(n)' /\ ClaimsOK(n)'
    <3>1. CASE x < desc[n].numChunks
      <4>1. Running(n)' = Running(n) \cup {t}
        BY <1>0, <1>1, <1>4, <1>5, <3>1 DEF Running
      <4>2. Cardinality(Running(n)') = Cardinality(Running(n)) + 1
        BY <2>4, <4>1, RunningFinite, FS_AddElement
      <4>3. ChunksLeft(desc'[n]) = ChunksLeft(desc[n]) - 1 /\ ChunksLeft(desc[n]) \in Nat
        BY <1>0, <1>3, <1>6, <3>1 DEF ChunksLeft
      <4>4. desc'[n].done = ChunksLeft(desc'[n]) + Cardinality(Running(n)')
        BY <1>6, <2>1, <4>2, <4>3, RunningFinite DEF LiveOK, LatchOK
      <4>5. x \in ChunkIds(desc[n]) /\ chunk'[t] = x
        BY <1>3, <1>5, <2>2, <3>1
      <4>6. /\ \A u \in Running(n) \cup {t} : chunk'[u] < x + 1 /\ chunk'[u] \in ChunkIds(desc[n])
            /\ \A u, v \in Running(n) \cup {t} : chunk'[u] = chunk'[v] => u = v
        <5>1. \A u \in Running(n) : chunk'[u] < x /\ chunk'[u] \in Nat /\ chunk'[u] \in ChunkIds(desc[n])
          BY <2>3, <2>5
        <5>2. \A u, v \in Running(n) : chunk'[u] = chunk'[v] => u = v
          BY <2>1, <2>5 DEF LiveOK, ClaimsOK
        <5> QED BY <1>3, <4>5, <5>1, <5>2
      <4> QED BY <1>6, <2>2, <4>1, <4>4, <4>6 DEF LatchOK, ClaimsOK
    <3>2. CASE ~ (x < desc[n].numChunks)
      <4>1. Running(n)' = Running(n)
        BY <1>0, <1>1, <1>4, <1>5, <3>2 DEF Running
      <4>2. ChunksLeft(desc'[n]) = ChunksLeft(desc[n])
        BY <1>0, <1>3, <1>6, <3>2 DEF ChunksLeft
      <4>3. desc'[n].done = ChunksLeft(desc'[n]) + Cardinality(Running(n)')
        BY <1>6, <2>1, <4>1, <4>2 DEF LiveOK, LatchOK
      <4>4. /\ \A u \in Running(n) : chunk'[u] < x + 1 /\ chunk'[u] \in ChunkIds(desc[n])
            /\ \A u, v \in Running(n) : chunk'[u] = chunk'[v] => u = v
        BY <1>3, <2>1, <2>3, <2>5 DEF LiveOK, ClaimsOK
      <4> QED BY <1>6, <2>2, <4>1, <4>3, <4>4 DEF LatchOK, ClaimsOK
    <3> QED BY <3>1, <3>2
  <2> QED BY <1>1, <1>3, <1>6, <2>1, <2>6, <2>8, <2>9, LoopCounts DEF LoopOK, LiveOK
<1>9. DrainOK'
  <2> SUFFICES ASSUME NEW u \in Threads, pc'[u] \in DrainPoints PROVE desc'[loop[u]].done = 0
    BY <1>1 DEF DrainOK
  <2>1. pc[u] \in DrainPoints
    BY <1>4, <1>5 DEF DrainPoints
  <2>2. loop[u] \in LoopIds /\ desc[loop[u]].done = 0
    BY <2>1, LoopTypes DEF DrainPoints, LoopPoints, IndexInv, DrainOK
  <2> QED BY <1>6, <2>2
<1> QED BY <1>7, <1>8, <1>9 DEF IndexInv

(* Running a chunk visits its indices, none of which was visited before:
   no other thread holds the chunk and no other chunk holds the index.     *)
LEMMA RunIndices ==
  ASSUME Inv, IndexInv, NEW t \in Threads, RunChunk(t)
  PROVE  IndexInv'
<1>0. PICK n, x, d : n = loop[t] /\ x = chunk[t] /\ d = desc[n]
  OBVIOUS
<1>1. /\ pc[t] = "run" /\ pc' = [pc EXCEPT ![t] = "countDown"] /\ loop' = loop /\ chunk' = chunk
      /\ desc' = desc /\ loops' = loops
      /\ hits' = [hits EXCEPT ![n] = [i \in Indices |->
           @[i] + (IF ChunkBegin(d, x) <= i /\ i < ChunkEnd(d, x) THEN 1 ELSE 0)]]
  BY <1>0 DEF RunChunk, RunRange, Goto
<1>2. /\ desc \in [LoopIds -> DescType] /\ pc \in [Threads -> ControlPoints]
      /\ hits \in [LoopIds -> [Indices -> Nat]]
  BY DEF Inv, TypeOK, LocalType, HistoryType
<1>3. n \in LoopIds /\ d.live /\ d \in DescType
  BY <1>0, <1>1, <1>2, LoopTypes DEF LoopPoints, ChunkPoints, Inv, OwnerOK
<1>4. pc'[t] = "countDown" /\ \A u \in Threads \ {t} : pc'[u] = pc[u]
  BY <1>1, <1>2
<1>5. /\ \A l \in LoopIds : l # n => hits'[l] = hits[l]
      /\ \A i \in Indices : hits'[n][i] = hits[n][i] + (IF InChunk(d, x, i) THEN 1 ELSE 0)
  BY <1>1, <1>2, <1>3 DEF InChunk
<1>6. ASSUME NEW l \in LoopIds, l # n PROVE LoopOK(l)'
  <2>1. SameView(l)
    BY <1>0, <1>1, <1>4, <1>5, <1>6 DEF SameView, SameFields
  <2>2. NoNewLoop(l)
    BY <1>1, LoopCounts DEF NoNewLoop
  <2> QED BY <2>1, <2>2, SameViewKeeps DEF IndexInv
<1>7. LoopOK(n)'
  <2>1. LiveOK(n) /\ Cut(d)
    BY <1>0, <1>3 DEF IndexInv, LoopOK, LiveOK
  <2>2. Running(n)' = Running(n) /\ t \in Running(n)
    BY <1>0, <1>1, <1>4 DEF Running
  <2>3. LatchOK(n)' /\ ClaimsOK(n)'
    BY <1>1, <2>1, <2>2 DEF LiveOK, LatchOK, ClaimsOK
  <2>4. x < d.nextChunk /\ x \in ChunkIds(d) /\ \A u \in Running(n) : chunk[u] = x => u = t
    BY <1>0, <2>1, <2>2 DEF LiveOK, ClaimsOK
  <2>5. \A c \in ChunkIds(d) : Ran(n, c)' <=> Ran(n, c) \/ c = x
    <3> SUFFICES ASSUME NEW c \in ChunkIds(d) PROVE Ran(n, c)' <=> Ran(n, c) \/ c = x
      OBVIOUS
    <3>1. CASE c = x
      <4>1. \A u \in Threads : pc'[u] = "run" /\ loop[u] = n => chunk[u] # x
        BY <1>4, <2>4 DEF Running
      <4> QED BY <1>0, <1>1, <2>4, <3>1, <4>1 DEF Ran
    <3>2. CASE c # x
      <4>1. \A u \in Threads : (pc'[u] = "run" /\ loop[u] = n => chunk[u] # c)
                                 <=> (pc[u] = "run" /\ loop[u] = n => chunk[u] # c)
        BY <1>0, <1>4, <3>2
      <4> QED BY <1>0, <1>1, <3>2, <4>1 DEF Ran
    <3> QED BY <3>1, <3>2
  <2>6. ~ Ran(n, x)
    BY <1>0, <1>1 DEF Ran
  <2>7. HitsOK(n)'
    <3> SUFFICES ASSUME NEW i \in Indices PROVE hits'[n][i] = IF Visited(n, i)' THEN 1 ELSE 0
      BY DEF HitsOK
    <3>1. i \in Int
      BY RequestAssumption DEF Indices
    <3>2. hits[n][i] = IF Visited(n, i) THEN 1 ELSE 0
      BY <2>1 DEF LiveOK, HitsOK
    <3>3. Visited(n, i)' <=> \E c \in ChunkIds(d) : Ran(n, c)' /\ InChunk(d, c, i)
      BY <1>0, <1>1 DEF Visited
    <3>4. Visited(n, i) <=> \E c \in ChunkIds(d) : Ran(n, c) /\ InChunk(d, c, i)
      BY <1>0 DEF Visited
    <3>5. CASE InChunk(d, x, i)
      <4>1. \A c \in ChunkIds(d) : InChunk(d, c, i) => c = x
        BY <1>3, <2>1, <2>4, <3>1, <3>5, CutRange
      <4>2. ~ Visited(n, i) /\ Visited(n, i)'
        BY <2>4, <2>5, <2>6, <3>3, <3>4, <3>5, <4>1
      <4> QED BY <1>5, <3>2, <3>5, <4>2
    <3>6. CASE ~ InChunk(d, x, i)
      <4>1. Visited(n, i)' <=> Visited(n, i)
        BY <2>5, <3>3, <3>4, <3>6
      <4> QED BY <1>5, <3>2, <3>6, <4>1
    <3> QED BY <3>5, <3>6
  <2>8. desc'[n].live /\ Cut(desc'[n]) /\ n <= loops' /\ ~ (n > loops')
    BY <1>0, <1>1, <1>3, <2>1, LoopCounts DEF LiveOK
  <2> QED BY <2>3, <2>7, <2>8 DEF LoopOK, LiveOK
<1>8. DrainOK'
  BY <1>1, <1>4 DEF DrainOK, IndexInv, DrainPoints
<1> QED BY <1>6, <1>7, <1>8 DEF IndexInv

(* Counting down gives the chunk up; a loop that drains has none to give.  *)
LEMMA CountDownIndices ==
  ASSUME Inv, IndexInv, NEW t \in Threads, CountDown(t)
  PROVE  IndexInv'
<1>0. PICK n : n = loop[t]
  OBVIOUS
<1>1. /\ pc[t] = "countDown" /\ pc' = [pc EXCEPT ![t] = "claim"] /\ loop' = loop
      /\ chunk' = [chunk EXCEPT ![t] = 0] /\ hits' = hits /\ loops' = loops
      /\ desc' = [desc EXCEPT ![n] = [desc[n] EXCEPT !.done = @ - 1]]
  BY <1>0 DEF CountDown, Goto, ghosts
<1>2. /\ desc \in [LoopIds -> DescType] /\ pc \in [Threads -> ControlPoints]
      /\ chunk \in [Threads -> Nat]
  BY DEF Inv, TypeOK, LocalType
<1>3. n \in LoopIds /\ desc[n].live /\ desc[n].done \in Int /\ desc[n].nextChunk \in Nat
      /\ desc[n].numChunks \in Nat
  BY <1>0, <1>1, <1>2, LoopTypes DEF LoopPoints, ChunkPoints, Inv, OwnerOK, DescType
<1>4. pc'[t] = "claim" /\ \A u \in Threads \ {t} : pc'[u] = pc[u] /\ chunk'[u] = chunk[u]
  BY <1>1, <1>2
<1>5. /\ \A l \in LoopIds : l # n => desc'[l] = desc[l]
      /\ desc'[n].nextChunk = desc[n].nextChunk /\ desc'[n].live = desc[n].live
      /\ desc'[n].done = desc[n].done - 1
      /\ desc'[n].begin = desc[n].begin /\ desc'[n].end = desc[n].end
      /\ desc'[n].numChunks = desc[n].numChunks /\ desc'[n].chunkSize = desc[n].chunkSize
      /\ desc'[n].remainder = desc[n].remainder
  BY <1>1, <1>2, <1>3 DEF DescType
<1>6. ASSUME NEW l \in LoopIds, l # n PROVE LoopOK(l)'
  <2>1. SameView(l)
    BY <1>0, <1>1, <1>4, <1>5, <1>6 DEF SameView, SameFields
  <2>2. NoNewLoop(l)
    BY <1>1, LoopCounts DEF NoNewLoop
  <2> QED BY <2>1, <2>2, SameViewKeeps DEF IndexInv
<1>7. LiveOK(n)
  BY <1>3 DEF IndexInv, LoopOK
<1>8. t \in Running(n) /\ Running(n)' = Running(n) \ {t}
  BY <1>0, <1>1, <1>4 DEF Running
<1>9. LoopOK(n)'
  <2>1. ChunkIds(desc'[n]) = ChunkIds(desc[n])
    BY <1>5 DEF ChunkIds
  <2>2. Cut(desc'[n])
    BY <1>5, <1>7 DEF LiveOK, Cut
  <2>3. LatchOK(n)'
    <3>1. Cardinality(Running(n)') = Cardinality(Running(n)) - 1
      BY <1>8, RunningFinite, FS_RemoveElement
    <3>2. ChunksLeft(desc'[n]) = ChunksLeft(desc[n]) /\ ChunksLeft(desc[n]) \in Nat
      BY <1>3, <1>5 DEF ChunksLeft
    <3>3. desc'[n].done = ChunksLeft(desc'[n]) + Cardinality(Running(n)')
      BY <1>5, <1>7, <3>1, <3>2, RunningFinite DEF LiveOK, LatchOK
    <3> QED BY <1>0, <3>3 DEF LatchOK
  <2>4. ClaimsOK(n)'
    <3>1. \A u \in Running(n) \ {t} : chunk'[u] = chunk[u]
      BY <1>4 DEF Running
    <3> QED BY <1>5, <1>7, <1>8, <2>1, <3>1 DEF LiveOK, ClaimsOK
  <2>5. HitsOK(n)'
    <3>1. \A c : Ran(n, c)' <=> Ran(n, c)
      <4>1. \A u \in Threads : /\ pc'[u] = "run" <=> pc[u] = "run"
                               /\ pc[u] = "run" => chunk'[u] = chunk[u]
        BY <1>1, <1>4
      <4> QED BY <1>1, <1>5, <4>1 DEF Ran
    <3>2. \A c, i : InChunk(desc'[n], c, i) <=> InChunk(desc[n], c, i)
      BY <1>5 DEF InChunk, ChunkBegin, ChunkEnd
    <3>3. \A i : Visited(n, i)' <=> Visited(n, i)
      BY <2>1, <3>1, <3>2 DEF Visited
    <3> QED BY <1>1, <1>7, <3>3 DEF HitsOK, LiveOK
  <2> QED BY <1>1, <1>3, <1>5, <1>7, <2>2, <2>3, <2>4, <2>5, LoopCounts DEF LoopOK, LiveOK
<1>10. DrainOK'
  <2>1. desc[n].done # 0
    BY <1>3, <1>7, <1>8, LatchZero
  <2> SUFFICES ASSUME NEW u \in Threads, pc'[u] \in DrainPoints PROVE desc'[loop[u]].done = 0
    BY <1>1 DEF DrainOK
  <2>2. pc[u] \in DrainPoints
    BY <1>4 DEF DrainPoints
  <2>3. loop[u] \in LoopIds /\ desc[loop[u]].done = 0
    BY <2>2, LoopTypes DEF DrainPoints, LoopPoints, IndexInv, DrainOK
  <2> QED BY <1>5, <2>1, <2>3
<1> QED BY <1>6, <1>9, <1>10 DEF IndexInv

(* No loop has been made.                                                  *)
LEMMA InitIndices == Init => IndexInv
<1> SUFFICES ASSUME Init PROVE IndexInv
  OBVIOUS
<1>1. ASSUME NEW l \in LoopIds PROVE LoopOK(l)
  <2>1. FreshOK(l)
    BY DEF Init, FreshOK, NoDesc
  <2>2. loops = 0 /\ l \in Nat /\ l > 0
    BY BoundAssumption DEF Init, LoopIds
  <2> QED BY <2>1, <2>2 DEF LoopOK, FreshOK
<1>2. DrainOK
  BY DEF Init, DrainOK, DrainPoints
<1> QED BY <1>1, <1>2 DEF IndexInv

(* Every step of the pool keeps the account of the indices.                *)
LEMMA NextIndices == Inv /\ IndexInv /\ [Next]_vars => IndexInv'
<1> SUFFICES ASSUME Inv, IndexInv, [Next]_vars PROVE IndexInv'
  OBVIOUS
<1>1. ASSUME NEW t \in Threads, Call(t) PROVE IndexInv'
  BY <1>1, IndexQuietSteps, IndexQuietStep, SerialIndices, EnterIndices DEF Call
<1>2. ASSUME NEW t \in Threads, Step(t) PROVE IndexInv'
  BY <1>2, IndexQuietSteps, IndexQuietStep, AwaitIndices, ReturnIndices, ClaimIndices, RunIndices,
     CountDownIndices DEF Step
<1>3. ASSUME NEW w \in AllWorkers, WorkerStep(w) \/ SpuriousWake(w) PROVE IndexInv'
  BY <1>3, IndexQuietSteps, IndexQuietStep
<1>4. ASSUME NEW c \in Clients, WaitCall(c) \/ DestroyCall(c) \/ ClientStep(c) PROVE IndexInv'
  BY <1>4, IndexQuietSteps, IndexQuietStep
<1>5. CASE UNCHANGED vars
  BY <1>5, IndexQuietSteps, IndexQuietStep
<1> QED BY <1>1, <1>2, <1>3, <1>4, <1>5 DEF Next, Terminated

(* The account of the indices is an invariant of the pool.                 *)
LEMMA IndexInvariant == Spec => [](Inv /\ IndexInv)
BY InitInv, NextInv, InitIndices, NextIndices, PTL DEF Spec

(* For any number of threads, any requests and any interleaving of the
   claims, parallelFor runs its functor at most once for each index of its
   range and for no other, and exactly once when it has returned.          *)
THEOREM IndicesOnce == Spec => []EachIndexOnce
<1>1. Inv /\ IndexInv => EachIndexOnce
  <2> SUFFICES ASSUME Inv, IndexInv, NEW l \in 1 .. loops, NEW i \in Indices
               PROVE  /\ hits[l][i] <= (IF InRange(desc[l], i) THEN 1 ELSE 0)
                      /\ ~ desc[l].live /\ InRange(desc[l], i) => hits[l][i] = 1
    BY DEF EachIndexOnce, InRange
  <2>1. l \in LoopIds /\ l <= loops /\ i \in Int /\ desc[l] \in DescType
    BY LoopCounts, RequestAssumption DEF LoopIds, Indices, Inv, TypeOK
  <2>2. CASE desc[l].live
    <3>1. Cut(desc[l]) /\ hits[l][i] = IF Visited(l, i) THEN 1 ELSE 0
      BY <2>1, <2>2 DEF IndexInv, LoopOK, LiveOK, HitsOK
    <3>2. Visited(l, i) => InRange(desc[l], i)
      BY <2>1, <3>1, CutRange DEF Visited
    <3> QED BY <2>2, <3>1, <3>2
  <2>3. CASE ~ desc[l].live
    BY <2>1, <2>3 DEF IndexInv, LoopOK, ClosedOK
  <2> QED BY <2>2, <2>3
<1> QED BY <1>1, IndexInvariant, PTL
=============================================================================
