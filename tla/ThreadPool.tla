----------------------------- MODULE ThreadPool -----------------------------
(***************************************************************************)
(* Core::Alloc::ThreadPool (core/alloc/thread.h).                          *)
(*                                                                         *)
(* A pool owns m_threadCount workers that share one condition variable     *)
(* (m_taskAvailable) for two kinds of work: a FIFO of tasks (enqueue,      *)
(* enqueueBatch) and at most one published parallelFor descriptor          *)
(* (m_pfWork).  The descriptor and its latch live on the dispatcher's      *)
(* stack, so they die the moment parallelFor returns.                      *)
(*                                                                         *)
(* Grain of atomicity: one action per critical section of m_taskMutex and  *)
(* one per atomic operation outside it.  A notify is a step of its own     *)
(* wherever the code issues it after the unlock, and an atomic wait is a   *)
(* load, a compare-and-sleep and a wake-up.                                *)
(***************************************************************************)
EXTENDS Integers, Sequences, FiniteSets

CONSTANTS
  WorkerSets,   \* the worker sets a pool may be constructed with; {} is the pool without threads
  Clients,      \* threads outside the pool that call it
  MaxTasks,     \* bound: tasks ever enqueued
  MaxBatch,     \* bound: tasks in one enqueueBatch
  MaxLoops,     \* bound: parallelFor calls ever made
  Requests,     \* the parallelFor argument lists <<begin, end, grainSize>> callers use
  NoThread      \* "no owner" of a mutex

TaskIds == 1 .. MaxTasks
LoopIds == 1 .. MaxLoops
AllWorkers == UNION WorkerSets
Threads == AllWorkers \cup Clients

ASSUME ThreadAssumption ==
  /\ IsFiniteSet(AllWorkers) /\ IsFiniteSet(Clients)
  /\ AllWorkers \cap Clients = {}
  /\ NoThread \notin Threads
ASSUME BoundAssumption == MaxTasks \in Nat /\ MaxBatch \in Nat /\ MaxLoops \in Nat
ASSUME RequestAssumption == Requests \subseteq Nat \X Nat \X Nat

VARIABLES
  m_workers,       \* the workers of this pool
  m_tasks,         \* queue of task ids
  m_pendingCount,  \* tasks enqueued and not finished
  m_pfWork,        \* published descriptor, 0 for nullptr
  m_pfMutex,       \* thread that holds it
  asleep,          \* workers blocked in m_taskAvailable.wait
  stopped,         \* workers whose stop token was triggered
  desc,            \* loop id -> ParallelForDesc with its latch
  pc,              \* control point of each thread
  loop,            \* descriptor the thread is working on, 0 for none
  chunk,           \* chunk the thread claimed
  seen,            \* value the thread's atomic wait compares with
  item,            \* task the worker runs, 0 for none
  burst,           \* tasks the thread is enqueueing, then notify_one calls it still owes
  inLoop,          \* thread-local: executing a chunk of this pool
  issued,          \* history: number of tasks created
  loops,           \* history: number of loops created
  finished,        \* history: tasks whose function returned
  before,          \* history: tasks created before the thread's wait()
  hits             \* history: loop id -> index -> times the functor ran

poolVars == <<m_tasks, m_pendingCount, m_pfWork, m_pfMutex, asleep, stopped>>
ghosts   == <<issued, loops, finished, before, hits>>
vars == <<m_workers, m_tasks, m_pendingCount, m_pfWork, m_pfMutex, asleep, stopped,
          desc, pc, loop, chunk, seen, item, burst, inLoop,
          issued, loops, finished, before, hits>>

m_threadCount == Cardinality(m_workers)

Goto(t, l) == pc' = [pc EXCEPT ![t] = l]

(* Where control returns to after a call: a client is idle, a worker is in
   the task that made the call.                                            *)
Home(t) == IF t \in Clients THEN "idle" ELSE "task"
CanCall(t) == pc[t] = Home(t)

-----------------------------------------------------------------------------
(* The arithmetic of a loop.                                               *)

s_ChunkOversubscription == 4

DivideUp(a, b) == (a + b - 1) \div b
EffectiveGrain(g) == IF g > 0 THEN g ELSE 1

computeChunkCount(maxChunks, totalThreads) ==
  LET target == totalThreads * s_ChunkOversubscription
  IN  IF maxChunks < target THEN maxChunks ELSE target

ChunkBeginNoRemainder(d, c) ==      \* mutant: the longer chunks do not shift the later ones
  d.begin + c * d.chunkSize
ChunkBegin(d, c) ==
  d.begin + c * d.chunkSize + (IF c < d.remainder THEN c ELSE d.remainder)
ChunkEnd(d, c) ==
  ChunkBegin(d, c) + d.chunkSize + (IF c < d.remainder THEN 1 ELSE 0)

RunsSeriallyUnlessNested(t, r) ==   \* mutant: a nested call is not recognised
  m_workers = {} \/ r[2] - r[1] <= EffectiveGrain(r[3])

RunsSerially(t, r) ==
  \/ m_workers = {}
  \/ r[2] - r[1] <= EffectiveGrain(r[3])
  \/ inLoop[t]

NumChunks(r) ==
  computeChunkCount(DivideUp(r[2] - r[1], EffectiveGrain(r[3])), m_threadCount + 1)

NewDesc(t, r) ==
  LET count == r[2] - r[1]
      n == NumChunks(r)
  IN  [live |-> TRUE, owner |-> t, begin |-> r[1], end |-> r[2],
       numChunks |-> n, chunkSize |-> count \div n, remainder |-> count % n,
       nextChunk |-> 0, done |-> n, activeWorkers |-> 0]

NoDesc == [live |-> FALSE, owner |-> NoThread, begin |-> 0, end |-> 0,
           numChunks |-> 1, chunkSize |-> 0, remainder |-> 0,
           nextChunk |-> 0, done |-> 0, activeWorkers |-> 0]

hasParallelWork ==
  m_pfWork # 0 /\ desc[m_pfWork].nextChunk < desc[m_pfWork].numChunks

Indices == UNION {r[1] .. (r[2] - 1) : r \in Requests}
-----------------------------------------------------------------------------
Init ==
  /\ m_workers \in WorkerSets
  /\ m_tasks = <<>> /\ m_pendingCount = 0
  /\ m_pfWork = 0 /\ m_pfMutex = NoThread
  /\ asleep = {} /\ stopped = {}
  /\ desc = [l \in LoopIds |-> NoDesc]
  /\ pc = [t \in Threads |-> IF t \in Clients THEN "idle" ELSE "loop"]
  /\ loop = [t \in Threads |-> 0] /\ chunk = [t \in Threads |-> 0]
  /\ seen = [t \in Threads |-> 0] /\ item = [t \in Threads |-> 0]
  /\ burst = [t \in Threads |-> 0] /\ inLoop = [t \in Threads |-> FALSE]
  /\ issued = 0 /\ loops = 0 /\ finished = {}
  /\ before = [t \in Threads |-> 0]
  /\ hits = [l \in LoopIds |-> [i \in Indices |-> 0]]
-----------------------------------------------------------------------------
(* enqueue (n = 1) and enqueueBatch: count, push under the lock, notify.   *)

EnqueueInline(t) ==          \* a pool without threads runs the task in the caller
  /\ m_workers = {} /\ CanCall(t) /\ issued < MaxTasks
  /\ issued' = issued + 1
  /\ finished' = finished \cup {issued + 1}
  /\ UNCHANGED <<m_workers, poolVars, desc, pc, loop, chunk, seen, item, burst,
                 inLoop, loops, before, hits>>

EnqueueCountOne(t, n) ==     \* mutant: a batch is counted as one task
  /\ m_workers # {} /\ CanCall(t) /\ issued + n <= MaxTasks
  /\ m_pendingCount' = m_pendingCount + 1
  /\ burst' = [burst EXCEPT ![t] = n]
  /\ issued' = issued + n
  /\ seen' = [seen EXCEPT ![t] = issued]
  /\ Goto(t, "push")
  /\ UNCHANGED <<m_workers, m_tasks, m_pfWork, m_pfMutex, asleep, stopped, desc,
                 loop, chunk, item, inLoop, loops, finished, before, hits>>

EnqueueCount(t, n) ==
  /\ m_workers # {} /\ CanCall(t) /\ issued + n <= MaxTasks
  /\ m_pendingCount' = m_pendingCount + n
  /\ burst' = [burst EXCEPT ![t] = n]
  /\ issued' = issued + n
  /\ seen' = [seen EXCEPT ![t] = issued]     \* names the tasks issued+1 .. issued+n
  /\ Goto(t, "push")
  /\ UNCHANGED <<m_workers, m_tasks, m_pfWork, m_pfMutex, asleep, stopped, desc,
                 loop, chunk, item, inLoop, loops, finished, before, hits>>

EnqueuePush(t) ==
  /\ pc[t] = "push"
  /\ m_tasks' = m_tasks \o [i \in 1 .. burst[t] |-> seen[t] + i]
  /\ burst' = [burst EXCEPT ![t] = IF @ < m_threadCount THEN @ ELSE m_threadCount]
  /\ Goto(t, "notify")
  /\ UNCHANGED <<m_workers, m_pendingCount, m_pfWork, m_pfMutex, asleep, stopped,
                 desc, loop, chunk, seen, item, inLoop, ghosts>>

NotifyNobody(S) == {S}       \* mutant: the notify is missing
NotifyOne(S) == IF S = {} THEN {S} ELSE {S \ {w} : w \in S}

EnqueueNotify(t) ==
  /\ pc[t] = "notify"
  /\ asleep' \in NotifyOne(asleep)
  /\ burst' = [burst EXCEPT ![t] = @ - 1]
  /\ seen' = [seen EXCEPT ![t] = 0]
  /\ Goto(t, IF burst[t] = 1 THEN Home(t) ELSE "notify")
  /\ UNCHANGED <<m_workers, m_tasks, m_pendingCount, m_pfWork, m_pfMutex, stopped,
                 desc, loop, chunk, item, inLoop, ghosts>>
-----------------------------------------------------------------------------
(* parallelFor and dispatchParallelFor.                                    *)

(* The functor runs over lo .. hi-1 of loop l.                             *)
RunRange(l, lo, hi) ==
  hits' = [hits EXCEPT ![l] = [i \in Indices |-> @[i] + (IF lo <= i /\ i < hi THEN 1 ELSE 0)]]

(* Too small, no workers, or called by a chunk of a loop of this pool.     *)
ParallelForSerial(t, r) ==
  /\ CanCall(t) \/ pc[t] = "run"
  /\ r[1] < r[2] /\ loops < MaxLoops
  /\ RunsSerially(t, r) \/ NumChunks(r) <= 1
  /\ loops' = loops + 1
  /\ RunRange(loops + 1, r[1], r[2])
  /\ desc' = [desc EXCEPT ![loops + 1] = [@ EXCEPT !.owner = t, !.begin = r[1], !.end = r[2]]]
  /\ UNCHANGED <<m_workers, poolVars, pc, loop, chunk, seen, item, burst, inLoop,
                 issued, finished, before>>

ParallelForEnter(t, r) ==
  /\ CanCall(t) \/ pc[t] = "run"
  /\ r[1] < r[2] /\ loops < MaxLoops
  /\ ~ RunsSerially(t, r) /\ NumChunks(r) > 1
  /\ loops' = loops + 1
  /\ desc' = [desc EXCEPT ![loops + 1] = NewDesc(t, r)]
  /\ loop' = [loop EXCEPT ![t] = loops + 1]
  /\ Goto(t, "pfLock")
  /\ UNCHANGED <<m_workers, poolVars, chunk, seen, item, burst, inLoop,
                 issued, finished, before, hits>>

DispatchLock(t) ==
  /\ pc[t] = "pfLock" /\ m_pfMutex = NoThread
  /\ m_pfMutex' = t
  /\ Goto(t, "publish")
  /\ UNCHANGED <<m_workers, m_tasks, m_pendingCount, m_pfWork, asleep, stopped,
                 desc, loop, chunk, seen, item, burst, inLoop, ghosts>>

DispatchPublish(t) ==
  /\ pc[t] = "publish"
  /\ m_pfWork' = loop[t]
  /\ Goto(t, "notifyAll")
  /\ UNCHANGED <<m_workers, m_tasks, m_pendingCount, m_pfMutex, asleep, stopped,
                 desc, loop, chunk, seen, item, burst, inLoop, ghosts>>

DispatchNotify(t) ==         \* notify_all, then the dispatcher joins its own loop
  /\ pc[t] = "notifyAll"
  /\ asleep' = {}
  /\ inLoop' = [inLoop EXCEPT ![t] = TRUE]
  /\ Goto(t, "claim")
  /\ UNCHANGED <<m_workers, m_tasks, m_pendingCount, m_pfWork, m_pfMutex, stopped,
                 desc, loop, chunk, seen, item, burst, ghosts>>

DispatchAwait(t) ==          \* done.wait(), then the descriptor is withdrawn
  /\ pc[t] = "await" /\ desc[loop[t]].done = 0
  /\ m_pfWork' = 0
  /\ Goto(t, "drain")
  /\ UNCHANGED <<m_workers, m_tasks, m_pendingCount, m_pfMutex, asleep, stopped,
                 desc, loop, chunk, seen, item, burst, inLoop, ghosts>>

DispatchDrainLoad(t) ==
  /\ pc[t] = "drain" /\ desc[loop[t]].activeWorkers > 0
  /\ seen' = [seen EXCEPT ![t] = desc[loop[t]].activeWorkers]
  /\ Goto(t, "drainWait")
  /\ UNCHANGED <<m_workers, poolVars, desc, loop, chunk, item, burst, inLoop, ghosts>>

DispatchDrainWait(t) ==
  /\ pc[t] = "drainWait"
  /\ Goto(t, IF desc[loop[t]].activeWorkers = seen[t] THEN "drainAsleep" ELSE "drain")
  /\ UNCHANGED <<m_workers, poolVars, desc, loop, chunk, seen, item, burst, inLoop, ghosts>>

DispatchReturn(t) ==         \* the frame dies: descriptor and latch with it
  /\ pc[t] = "drain" /\ desc[loop[t]].activeWorkers = 0
  /\ desc' = [desc EXCEPT ![loop[t]].live = FALSE]
  /\ loop' = [loop EXCEPT ![t] = 0]
  /\ seen' = [seen EXCEPT ![t] = 0]
  /\ m_pfMutex' = NoThread
  /\ Goto(t, Home(t))
  /\ UNCHANGED <<m_workers, m_tasks, m_pendingCount, m_pfWork, asleep, stopped,
                 chunk, item, burst, inLoop, ghosts>>
-----------------------------------------------------------------------------
(* processParallelFor, run by the dispatcher and by every worker that      *)
(* picked the descriptor up.                                               *)

ClaimChunk(t) ==
  LET l == loop[t] IN
  /\ pc[t] = "claim"
  /\ desc' = [desc EXCEPT ![l].nextChunk = @ + 1]
  /\ IF desc[l].nextChunk < desc[l].numChunks
     THEN /\ chunk' = [chunk EXCEPT ![t] = desc[l].nextChunk]
          /\ Goto(t, "run")
          /\ UNCHANGED inLoop
     ELSE /\ inLoop' = [inLoop EXCEPT ![t] = FALSE]
          /\ Goto(t, IF desc[l].owner = t THEN "await" ELSE "pfLeave")
          /\ UNCHANGED chunk
  /\ UNCHANGED <<m_workers, poolVars, loop, seen, item, burst, ghosts>>

RunChunk(t) ==
  LET d == desc[loop[t]] IN
  /\ pc[t] = "run"
  /\ RunRange(loop[t], ChunkBegin(d, chunk[t]), ChunkEnd(d, chunk[t]))
  /\ Goto(t, "countDown")
  /\ UNCHANGED <<m_workers, poolVars, desc, loop, chunk, seen, item, burst, inLoop,
                 issued, loops, finished, before>>

CountDown(t) ==
  /\ pc[t] = "countDown"
  /\ desc' = [desc EXCEPT ![loop[t]].done = @ - 1]
  /\ chunk' = [chunk EXCEPT ![t] = 0]
  /\ Goto(t, "claim")
  /\ UNCHANGED <<m_workers, poolVars, loop, seen, item, burst, inLoop, ghosts>>

WorkerLeaveLoop(t) ==        \* activeWorkers.fetch_sub; the last one notifies
  LET l == loop[t] IN
  /\ pc[t] = "pfLeave"
  /\ desc' = [desc EXCEPT ![l].activeWorkers = @ - 1]
  /\ Goto(t, IF desc[l].activeWorkers = 1 THEN "pfNotify" ELSE "loop")
  /\ loop' = [loop EXCEPT ![t] = IF desc[l].activeWorkers = 1 THEN l ELSE 0]
  /\ UNCHANGED <<m_workers, poolVars, chunk, seen, item, burst, inLoop, ghosts>>

(* notify_all by address: the descriptor may already be gone, its memory is
   not read.                                                               *)
WorkerNotifyLoop(t) ==
  /\ pc[t] = "pfNotify"
  /\ pc' = [u \in Threads |->
              IF u = t THEN "loop"
              ELSE IF pc[u] = "drainAsleep" /\ loop[u] = loop[t] THEN "drainWait" ELSE pc[u]]
  /\ loop' = [loop EXCEPT ![t] = 0]
  /\ UNCHANGED <<m_workers, poolVars, desc, chunk, seen, item, burst, inLoop, ghosts>>
-----------------------------------------------------------------------------
(* workerLoop: one critical section of m_taskMutex per iteration.          *)

AtLoop(w) == pc[w] = "loop" /\ w \in m_workers \ asleep

WorkerTakeLoopUncounted(w) ==   \* mutant: the worker does not register as active
  /\ AtLoop(w) /\ hasParallelWork
  /\ loop' = [loop EXCEPT ![w] = m_pfWork]
  /\ inLoop' = [inLoop EXCEPT ![w] = TRUE]
  /\ Goto(w, "claim")
  /\ UNCHANGED <<m_workers, poolVars, desc, chunk, seen, item, burst, ghosts>>

WorkerTakeLoop(w) ==
  /\ AtLoop(w) /\ hasParallelWork
  /\ desc' = [desc EXCEPT ![m_pfWork].activeWorkers = @ + 1]
  /\ loop' = [loop EXCEPT ![w] = m_pfWork]
  /\ inLoop' = [inLoop EXCEPT ![w] = TRUE]
  /\ Goto(w, "claim")
  /\ UNCHANGED <<m_workers, poolVars, chunk, seen, item, burst, ghosts>>

WorkerTakeTask(w) ==
  /\ AtLoop(w) /\ ~ hasParallelWork /\ m_tasks # <<>>
  /\ item' = [item EXCEPT ![w] = Head(m_tasks)]
  /\ m_tasks' = Tail(m_tasks)
  /\ Goto(w, "task")
  /\ UNCHANGED <<m_workers, m_pendingCount, m_pfWork, m_pfMutex, asleep, stopped,
                 desc, loop, chunk, seen, burst, inLoop, ghosts>>

WorkerSleep(w) ==
  /\ AtLoop(w) /\ ~ hasParallelWork /\ m_tasks = <<>> /\ w \notin stopped
  /\ asleep' = asleep \cup {w}
  /\ UNCHANGED <<m_workers, m_tasks, m_pendingCount, m_pfWork, m_pfMutex, stopped,
                 desc, pc, loop, chunk, seen, item, burst, inLoop, ghosts>>

WorkerExit(w) ==
  /\ AtLoop(w) /\ ~ hasParallelWork /\ m_tasks = <<>> /\ w \in stopped
  /\ Goto(w, "exited")
  /\ UNCHANGED <<m_workers, poolVars, desc, loop, chunk, seen, item, burst, inLoop, ghosts>>

WorkerFinishTask(w) ==       \* the function returned
  /\ pc[w] = "task"
  /\ finished' = finished \cup {item[w]}
  /\ item' = [item EXCEPT ![w] = 0]
  /\ Goto(w, "retire")
  /\ UNCHANGED <<m_workers, poolVars, desc, loop, chunk, seen, burst, inLoop,
                 issued, loops, before, hits>>

WorkerRetireSilently(w) ==   \* mutant: the last task notifies nobody
  /\ pc[w] = "retire"
  /\ m_pendingCount' = m_pendingCount - 1
  /\ Goto(w, "loop")
  /\ UNCHANGED <<m_workers, m_tasks, m_pfWork, m_pfMutex, asleep, stopped,
                 desc, loop, chunk, seen, item, burst, inLoop, ghosts>>

WorkerRetireTask(w) ==       \* m_pendingCount.fetch_sub; the last one notifies
  /\ pc[w] = "retire"
  /\ m_pendingCount' = m_pendingCount - 1
  /\ Goto(w, IF m_pendingCount = 1 THEN "pendNotify" ELSE "loop")
  /\ UNCHANGED <<m_workers, m_tasks, m_pfWork, m_pfMutex, asleep, stopped,
                 desc, loop, chunk, seen, item, burst, inLoop, ghosts>>

WorkerNotifyPending(w) ==
  /\ pc[w] = "pendNotify"
  /\ pc' = [u \in Threads |->
              CASE u = w -> "loop"
                [] pc[u] = "waitAsleep" -> "waitFutex"
                [] pc[u] = "closeAsleep" -> "closeFutex"
                [] OTHER -> pc[u]]
  /\ UNCHANGED <<m_workers, poolVars, desc, loop, chunk, seen, item, burst, inLoop, ghosts>>

SpuriousWake(w) ==
  /\ w \in asleep
  /\ asleep' = asleep \ {w}
  /\ UNCHANGED <<m_workers, m_tasks, m_pendingCount, m_pfWork, m_pfMutex, stopped,
                 desc, pc, loop, chunk, seen, item, burst, inLoop, ghosts>>
-----------------------------------------------------------------------------
(* waitPending, called by wait() and by ~ThreadPool.                       *)

WaitCall(c) ==
  /\ pc[c] = "idle"
  /\ before' = [before EXCEPT ![c] = issued]
  /\ Goto(c, "waitLoad")
  /\ UNCHANGED <<m_workers, poolVars, desc, loop, chunk, seen, item, burst, inLoop,
                 issued, loops, finished, hits>>

DestroyCall(c) ==            \* callers are done with the pool; its tasks may still enqueue
  /\ \A d \in Clients : pc[d] = "idle"
  /\ before' = [before EXCEPT ![c] = issued]
  /\ pc' = [d \in Threads |-> IF d = c THEN "closeLoad" ELSE IF d \in Clients THEN "gone" ELSE pc[d]]
  /\ UNCHANGED <<m_workers, poolVars, desc, loop, chunk, seen, item, burst, inLoop,
                 issued, loops, finished, hits>>

WaitReturnOnEmptyQueue(c) == \* mutant: running tasks are not waited for
  /\ pc[c] \in {"waitLoad", "closeLoad"} /\ m_tasks = <<>>
  /\ Goto(c, IF pc[c] = "waitLoad" THEN "idle" ELSE "join")
  /\ UNCHANGED <<m_workers, poolVars, desc, loop, chunk, seen, item, burst, inLoop, ghosts>>

WaitReturn(c) ==
  /\ pc[c] \in {"waitLoad", "closeLoad"} /\ m_pendingCount = 0
  /\ Goto(c, IF pc[c] = "waitLoad" THEN "idle" ELSE "join")
  /\ UNCHANGED <<m_workers, poolVars, desc, loop, chunk, seen, item, burst, inLoop, ghosts>>

WaitLoad(c) ==
  /\ pc[c] \in {"waitLoad", "closeLoad"} /\ m_pendingCount > 0
  /\ seen' = [seen EXCEPT ![c] = m_pendingCount]
  /\ Goto(c, IF pc[c] = "waitLoad" THEN "waitFutex" ELSE "closeFutex")
  /\ UNCHANGED <<m_workers, poolVars, desc, loop, chunk, item, burst, inLoop, ghosts>>

WaitFutex(c) ==
  /\ pc[c] \in {"waitFutex", "closeFutex"}
  /\ LET closing == pc[c] = "closeFutex" IN
     IF m_pendingCount = seen[c]
     THEN Goto(c, IF closing THEN "closeAsleep" ELSE "waitAsleep") /\ UNCHANGED seen
     ELSE Goto(c, IF closing THEN "closeLoad" ELSE "waitLoad") /\ seen' = [seen EXCEPT ![c] = 0]
  /\ UNCHANGED <<m_workers, poolVars, desc, loop, chunk, item, burst, inLoop, ghosts>>

(* ~m_workers: each joining thread in turn is asked to stop and joined.    *)
JoinWorker(c, w) ==
  /\ pc[c] = "join" /\ w \in m_workers \ stopped
  /\ \A v \in stopped : pc[v] = "exited"
  /\ stopped' = stopped \cup {w}
  /\ asleep' = asleep \ {w}
  /\ UNCHANGED <<m_workers, m_tasks, m_pendingCount, m_pfWork, m_pfMutex,
                 desc, pc, loop, chunk, seen, item, burst, inLoop, ghosts>>

JoinReturn(c) ==
  /\ pc[c] = "join" /\ \A v \in m_workers : pc[v] = "exited"
  /\ Goto(c, "gone")
  /\ UNCHANGED <<m_workers, poolVars, desc, loop, chunk, seen, item, burst, inLoop, ghosts>>

Terminated ==
  /\ \A c \in Clients : pc[c] = "gone"
  /\ UNCHANGED vars
-----------------------------------------------------------------------------
Call(t) ==
  \/ EnqueueInline(t)
  \/ \E n \in 1 .. MaxBatch : EnqueueCount(t, n)
  \/ \E r \in Requests : ParallelForSerial(t, r) \/ ParallelForEnter(t, r)

(* The steps a thread takes inside a call of the pool.                     *)
Step(t) ==
  \/ EnqueuePush(t) \/ EnqueueNotify(t)
  \/ DispatchLock(t) \/ DispatchPublish(t) \/ DispatchNotify(t) \/ DispatchAwait(t)
  \/ DispatchDrainLoad(t) \/ DispatchDrainWait(t) \/ DispatchReturn(t)
  \/ ClaimChunk(t) \/ RunChunk(t) \/ CountDown(t)

WorkerStep(w) ==
  \/ WorkerLeaveLoop(w) \/ WorkerNotifyLoop(w)
  \/ WorkerTakeLoop(w) \/ WorkerTakeTask(w) \/ WorkerSleep(w) \/ WorkerExit(w)
  \/ WorkerFinishTask(w) \/ WorkerRetireTask(w) \/ WorkerNotifyPending(w)

ClientStep(c) ==
  \/ WaitReturn(c) \/ WaitLoad(c) \/ WaitFutex(c)
  \/ (\E w \in AllWorkers : JoinWorker(c, w))
  \/ JoinReturn(c)

Next ==
  \/ \E t \in Threads : Call(t) \/ Step(t)
  \/ \E w \in AllWorkers : WorkerStep(w) \/ SpuriousWake(w)
  \/ \E c \in Clients : WaitCall(c) \/ DestroyCall(c) \/ ClientStep(c)
  \/ Terminated

(* A thread that can take a step inside the pool takes it: the operating
   system runs every runnable thread.  Nothing is assumed of which calls are
   made, of spurious wake-ups, or of which sleeper notify_one wakes.       *)
Fairness ==
  /\ \A t \in Threads : WF_vars(Step(t))
  /\ \A w \in AllWorkers : WF_vars(WorkerStep(w))
  /\ \A c \in Clients : WF_vars(ClientStep(c))

Spec == Init /\ [][Next]_vars
FairSpec == Spec /\ Fairness
-----------------------------------------------------------------------------
(* Properties.                                                             *)

ControlPoints ==
  {"idle", "gone", "loop", "exited", "task", "retire", "pendNotify",
   "push", "notify", "pfLock", "publish", "notifyAll", "claim", "run", "countDown",
   "await", "drain", "drainWait", "drainAsleep", "pfLeave", "pfNotify",
   "waitLoad", "waitFutex", "waitAsleep", "closeLoad", "closeFutex", "closeAsleep", "join"}

DescType ==
  [live : BOOLEAN, owner : Threads \cup {NoThread}, begin : Nat, end : Nat,
   numChunks : Nat, chunkSize : Nat, remainder : Nat,
   nextChunk : Nat, done : Int, activeWorkers : Nat]

PoolType ==
  /\ m_workers \in WorkerSets
  /\ m_tasks \in Seq(Nat) /\ m_pendingCount \in Int
  /\ m_pfWork \in 0 .. MaxLoops /\ m_pfMutex \in Threads \cup {NoThread}
  /\ asleep \subseteq m_workers /\ stopped \subseteq m_workers

LocalType ==
  /\ pc \in [Threads -> ControlPoints] /\ loop \in [Threads -> 0 .. MaxLoops]
  /\ chunk \in [Threads -> Nat] /\ seen \in [Threads -> Nat]
  /\ item \in [Threads -> Nat] /\ burst \in [Threads -> Int]
  /\ inLoop \in [Threads -> BOOLEAN]

HistoryType ==
  /\ issued \in 0 .. MaxTasks /\ loops \in 0 .. MaxLoops
  /\ finished \subseteq Nat /\ before \in [Threads -> Nat]
  /\ hits \in [LoopIds -> [Indices -> Nat]]

(* Type correctness of the pool's members, the descriptors and the threads'
   locals (thread.h, the private members and the locals of workerLoop); in
   particular activeWorkers, an unsigned counter, never goes below zero.   *)
TypeOK ==
  PoolType /\ LocalType /\ HistoryType /\ desc \in [LoopIds -> DescType]

(* No thread reads or writes a ParallelForDesc, its latch or its functor
   after dispatchParallelFor returned: neither through m_pfWork nor through
   the pointer a worker took in workerLoop.  (The notify_all after the last
   fetch_sub only uses the address.)                                       *)
DescriptorOutlivesUse ==
  /\ m_pfWork # 0 => desc[m_pfWork].live
  /\ \A t \in Threads : loop[t] # 0 /\ pc[t] # "pfNotify" => desc[loop[t]].live

(* parallelFor calls its functor for every index of [begin, end) exactly
   once and for no other index, however the chunks were claimed: never
   twice, and never not at all once the call has returned.                 *)
EachIndexOnce ==
  \A l \in 1 .. loops : \A i \in Indices :
    LET inRange == desc[l].begin <= i /\ i < desc[l].end
    IN  /\ hits[l][i] <= (IF inRange THEN 1 ELSE 0)
        /\ ~ desc[l].live /\ inRange => hits[l][i] = 1

(* m_pendingCount is exactly the number of tasks being pushed, queued or
   running, so waitPending cannot miss one and the counter cannot wrap.    *)
PendingExact ==
  m_pendingCount =
    Cardinality((1 .. issued) \ finished) + Cardinality({w \in AllWorkers : pc[w] = "retire"})

(* A thread that executes a chunk never queues for m_pfMutex, whose holder
   waits for that very chunk.                                              *)
ChunkNeverDispatches ==
  \A t \in Threads : pc[t] \in {"pfLock", "publish", "notifyAll"} => ~ inLoop[t]

(* wait() returns only when every task enqueued before it was called has
   run to its end.                                                         *)
WaitSeesAllDone ==
  [][\A c \in Clients :
       pc[c] = "waitLoad" /\ pc'[c] = "idle" => (1 .. before[c]) \subseteq finished]_vars

(* ~ThreadPool joins its workers only after every task, those enqueued by
   tasks included, has run; no task is dropped.                            *)
DestructionDrains ==
  \A c \in Clients : pc[c] = "join" => m_tasks = <<>> /\ (1 .. issued) \subseteq finished

(* Every call of a client returns, destruction included: no wake-up of
   m_taskAvailable, of m_pendingCount or of activeWorkers is lost.         *)
EveryCallReturns ==
  \A c \in Clients : pc[c] \notin {"idle", "gone"} ~> pc[c] \in {"idle", "gone"}

(* Every task that was enqueued is eventually run to its end.              *)
EveryTaskRuns ==
  \A k \in TaskIds : k <= issued ~> k \in finished
=============================================================================
