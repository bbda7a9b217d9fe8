----------------------------- MODULE JobSystem ------------------------------
(***************************************************************************)
(* Core::Alloc::JobSystem (core/alloc/job.h): jobs with dependencies on    *)
(* top of a ThreadPool.                                                    *)
(*                                                                         *)
(* A job lives in a node of m_nodes, named by a handle (index,             *)
(* generation); the node returns to a LIFO free list when the job          *)
(* completes and its generation moves on, which is what turns old handles  *)
(* into "already complete".  Each critical section of m_mutex is one       *)
(* action, as is each atomic operation outside it.                         *)
(*                                                                         *)
(* A thread's activations of execute() and of enqueueExecution() are a     *)
(* stack of frames, because a pool without workers runs jobs inside the    *)
(* call that made them ready.  The pool itself is its queue: ThreadPool    *)
(* shows that what is enqueued is run once.                                *)
(***************************************************************************)
EXTENDS Integers, Sequences, FiniteSets, SequencesExt

CONSTANTS
  WorkerSets,             \* the worker sets of the pool; {} runs jobs in the caller
  Clients,                \* threads outside the pool
  Waiters,                \* the clients among them that call wait() and waitAll()
  MaxJobs,                \* bound: jobs ever submitted
  MaxDeps,                \* bound: length of a dependency list
  GenerationLimit,        \* largest generation: 2^32 - 1 in the code
  s_WorkFirstDepthLimit   \* inline continuations in a row: 8 in the code

Jobs == 1 .. MaxJobs
AllWorkers == UNION WorkerSets
Threads == AllWorkers \cup Clients

ASSUME JobAssumption ==
  /\ IsFiniteSet(AllWorkers) /\ IsFiniteSet(Clients) /\ AllWorkers \cap Clients = {}
  /\ Waiters \subseteq Clients
  /\ MaxJobs \in Nat /\ MaxDeps \in Nat
  /\ GenerationLimit \in Nat \ {0} /\ s_WorkFirstDepthLimit \in Nat

VARIABLES
  workers,             \* the pool's workers
  m_nodes,             \* sequence of JobNode
  m_freeNodes,         \* stack of node indices
  m_pendingJobCount,
  poolTasks,           \* handles whose execute() is queued on the pool
  stack,               \* thread -> its activations, innermost last
  call,                \* client -> the wait()/waitAll() it is in
  handle,              \* history: job -> handle submit returned
  state,               \* history: job -> progress, as in JobGraph
  deps                 \* history: job -> the jobs its handles named

vars == <<workers, m_nodes, m_freeNodes, m_pendingJobCount, poolTasks, stack, call,
          handle, state, deps>>

NoHandle == [index |-> 0, generation |-> 0]
valid(h) == h # NoHandle

Graph == INSTANCE JobGraph WITH Jobs <- Jobs, state <- state, deps <- deps

submitted == {j \in Jobs : state[j] # "none"}

-----------------------------------------------------------------------------
(* Nodes.                                                                  *)

FreshNode == [func |-> 0, dependents |-> <<>>, generation |-> 1, remaining |-> 0,
              completed |-> TRUE, scheduled |-> FALSE, completedGeneration |-> 0]

(* tryResolveNodeLocked: the handle names an unfinished job.               *)
Resolves(nodes, h) ==
  /\ valid(h) /\ h.index <= Len(nodes)
  /\ nodes[h.index].generation = h.generation
  /\ ~ nodes[h.index].completed

NextGenerationUnwrapped(g) == g + 1   \* mutant: the generation leaves its width
NextGeneration(g) == IF g = GenerationLimit THEN 1 ELSE g + 1

AcquireOldest ==             \* mutant: the free list is read at one end and popped at the other
  IF m_freeNodes # <<>> THEN Head(m_freeNodes) ELSE Len(m_nodes) + 1
AcquireIndex == IF m_freeNodes # <<>> THEN Last(m_freeNodes) ELSE Len(m_nodes) + 1

acquireStillCompleted(j) ==  \* mutant: the completed flag of the last job stays
  LET grown == IF m_freeNodes # <<>> THEN m_nodes ELSE Append(m_nodes, FreshNode)
  IN  [grown EXCEPT ![AcquireIndex] =
         [@ EXCEPT !.func = j, !.dependents = <<>>, !.remaining = 0, !.scheduled = FALSE]]

acquireNodeLocked(j) ==
  LET grown == IF m_freeNodes # <<>> THEN m_nodes ELSE Append(m_nodes, FreshNode)
  IN  [grown EXCEPT ![AcquireIndex] =
         [@ EXCEPT !.func = j, !.dependents = <<>>, !.remaining = 0,
                   !.completed = FALSE, !.scheduled = FALSE]]

recycleNodeLocked(node) ==
  [node EXCEPT !.func = 0, !.dependents = <<>>, !.remaining = 0, !.completed = TRUE,
               !.scheduled = FALSE, !.generation = NextGeneration(@)]

(* Mutants of ReleaseDependent: the first dependency to complete schedules
   the job; the count only falls when it reaches 0; the inline continuation
   also goes to the pool; what is not run inline is dropped.               *)
ReleaseOnFirst(st, h) ==
  LET n == st.nodes[h.index] IN
  IF ~ Resolves(st.nodes, h) \/ n.remaining = 0 \/ n.scheduled THEN st
  ELSE [st EXCEPT !.nodes[h.index].remaining = @ - 1,
                  !.nodes[h.index].scheduled = TRUE,
                  !.batch = Append(@, h)]
ReleaseLastOnly(st, h) ==
  LET n == st.nodes[h.index] IN
  IF ~ Resolves(st.nodes, h) \/ n.remaining # 1 \/ n.scheduled THEN st
  ELSE [st EXCEPT !.nodes[h.index].remaining = 0,
                  !.nodes[h.index].scheduled = TRUE,
                  !.batch = Append(@, h)]
ReleaseTwice(st, h) ==
  LET n == st.nodes[h.index]
      ready == n.remaining = 1 /\ ~ n.scheduled
  IN  IF ~ Resolves(st.nodes, h) \/ n.remaining = 0 THEN st
      ELSE [st EXCEPT !.nodes[h.index].remaining = @ - 1,
                      !.nodes[h.index].scheduled = @ \/ ready,
                      !.cont  = IF ready /\ st.allowInline /\ ~ valid(@) THEN h ELSE @,
                      !.batch = IF ready THEN Append(@, h) ELSE @]
ReleaseInlineOnly(st, h) ==
  LET n == st.nodes[h.index]
      ready == n.remaining = 1 /\ ~ n.scheduled
  IN  IF ~ Resolves(st.nodes, h) \/ n.remaining = 0 THEN st
      ELSE [st EXCEPT !.nodes[h.index].remaining = @ - 1,
                      !.nodes[h.index].scheduled = @ \/ ready,
                      !.cont  = IF ready /\ st.allowInline /\ ~ valid(@) THEN h ELSE @]

(* complete()'s loop body for dependent h: st carries the nodes, the
   continuation to run inline and the batch for the pool.                  *)
ReleaseDependent(st, h) ==
  LET n == st.nodes[h.index]
      ready == n.remaining = 1 /\ ~ n.scheduled
      inline == ready /\ st.allowInline /\ ~ valid(st.cont)
  IN  IF ~ Resolves(st.nodes, h) \/ n.remaining = 0 THEN st
      ELSE [st EXCEPT !.nodes[h.index] = [n EXCEPT !.remaining = @ - 1, !.scheduled = @ \/ ready],
                      !.cont  = IF inline THEN h ELSE @,
                      !.batch = IF ready /\ ~ inline THEN Append(@, h) ELSE @]

ReleaseDependents(nodes, list, allowInline) ==
  LET after[k \in 0 .. Len(list)] ==
        IF k = 0 THEN [nodes |-> nodes, allowInline |-> allowInline,
                       cont |-> NoHandle, batch |-> <<>>]
        ELSE ReleaseDependent(after[k - 1], list[k])
  IN  after[Len(list)]

(* submitWithDependencies()'s loop body for dependency h: st carries the
   nodes, the new job's handle and the number of dependencies it waits for. *)
LinkDependency(st, h) ==
  IF Resolves(st.nodes, h)
  THEN [st EXCEPT !.nodes[h.index].dependents = Append(@, st.out), !.unresolved = @ + 1]
  ELSE st

LinkDependencies(nodes, out, list) ==
  LET after[k \in 0 .. Len(list)] ==
        IF k = 0 THEN [nodes |-> nodes, out |-> out, unresolved |-> 0]
        ELSE LinkDependency(after[k - 1], handle[list[k]])
  IN  after[Len(list)]
-----------------------------------------------------------------------------
(* Frames.  "enqueue": a submit that must schedule its job; the others are
   the control points of execute() and complete().                         *)

Frame(at, h) == [at |-> at, cur |-> h, depth |-> 0, fn |-> 0, cont |-> NoHandle, batch |-> <<>>]

Top(t) == Last(stack[t])
At(t, p) == stack[t] # <<>> /\ Top(t).at = p
SetTop(t, f) == stack' = [stack EXCEPT ![t] = Append(Front(@), f)]
Push(t, f) == stack' = [stack EXCEPT ![t] = Append(@, f)]
Pop(t) == stack' = [stack EXCEPT ![t] = Front(@)]

Idle == [at |-> "idle", job |-> 0, seen |-> 0, past |-> {}]

(* A caller may be outside any call, or inside the function of a job.      *)
CanCall(t) ==
  \/ t \in Clients /\ stack[t] = <<>> /\ call[t].at = "idle"
  \/ At(t, "run")

Init ==
  /\ workers \in WorkerSets
  /\ m_nodes = <<>> /\ m_freeNodes = <<>> /\ m_pendingJobCount = 0 /\ poolTasks = <<>>
  /\ stack = [t \in Threads |-> <<>>]
  /\ call = [c \in Clients |-> Idle]
  /\ handle = [j \in Jobs |-> NoHandle]
  /\ state = [j \in Jobs |-> "none"]
  /\ deps = [j \in Jobs |-> {}]

(* How many later jobs have used job j's node.  A caller does not use a handle
   after GenerationLimit reuses of its node, when it would name another job,
   and wait() does not last that long either: one reuse earlier the signal
   shows the very value wait() saw before its job completed.               *)
Age(j) == Cardinality({k \in submitted : k > j /\ handle[k].index = handle[j].index})
Holding == {call[c].job : c \in {d \in Clients : call[d].at # "idle"}} \ {0}
NextAge(j) == Age(j) + (IF handle[j].index = AcquireIndex THEN 1 ELSE 0)
-----------------------------------------------------------------------------
(* submit(): the handles of the jobs in the list, duplicates included.     *)
submitWithDependencies(t, list) ==
  LET j == Cardinality(submitted) + 1
      acquired == acquireNodeLocked(j)
      out == [index |-> AcquireIndex, generation |-> acquired[AcquireIndex].generation]
      linked == LinkDependencies(acquired, out, list)
      count == linked.unresolved
  IN
  /\ CanCall(t) /\ j \in Jobs
  /\ \A k \in Range(list) : NextAge(k) < GenerationLimit
  /\ \A k \in Holding : NextAge(k) < GenerationLimit - 1
  /\ m_nodes' = [linked.nodes EXCEPT ![out.index].remaining = count,
                                     ![out.index].scheduled = (count = 0)]
  /\ m_freeNodes' = IF m_freeNodes # <<>> THEN Front(m_freeNodes) ELSE m_freeNodes
  /\ m_pendingJobCount' = m_pendingJobCount + 1
  /\ IF count = 0 THEN Push(t, Frame("enqueue", out)) ELSE UNCHANGED stack
  /\ handle' = [handle EXCEPT ![j] = out]
  /\ state' = [state EXCEPT ![j] = "pending"]
  /\ deps' = [deps EXCEPT ![j] = Range(list)]
  /\ UNCHANGED <<workers, poolTasks, call>>

enqueueExecution(t) ==
  /\ At(t, "enqueue")
  /\ IF workers = {}
     THEN SetTop(t, Frame("take", Top(t).cur)) /\ UNCHANGED poolTasks
     ELSE Pop(t) /\ poolTasks' = Append(poolTasks, Top(t).cur)
  /\ UNCHANGED <<workers, m_nodes, m_freeNodes, m_pendingJobCount, call, handle, state, deps>>
-----------------------------------------------------------------------------
(* execute(): a pool worker takes the request, then each round takes one
   job, runs it, completes it and may continue inline with a dependent.    *)

WorkerTake(w) ==
  /\ w \in workers /\ stack[w] = <<>> /\ poolTasks # <<>>
  /\ Push(w, Frame("take", Head(poolTasks)))
  /\ poolTasks' = Tail(poolTasks)
  /\ UNCHANGED <<workers, m_nodes, m_freeNodes, m_pendingJobCount, call, handle, state, deps>>

ExecuteTake(t) ==
  LET h == Top(t).cur IN
  /\ At(t, "take")
  /\ IF Resolves(m_nodes, h) /\ m_nodes[h.index].scheduled
     THEN /\ SetTop(t, [Top(t) EXCEPT !.at = "run", !.fn = m_nodes[h.index].func])
          /\ m_nodes' = [m_nodes EXCEPT ![h.index].func = 0]
          /\ state' = [j \in Jobs |-> IF j = m_nodes[h.index].func THEN "running" ELSE state[j]]
     ELSE Pop(t) /\ UNCHANGED <<m_nodes, state>>
  /\ UNCHANGED <<workers, m_freeNodes, m_pendingJobCount, poolTasks, call, handle, deps>>

ExecuteRun(t) ==             \* the function returns
  /\ At(t, "run")
  /\ SetTop(t, [Top(t) EXCEPT !.at = "complete"])
  /\ state' = [j \in Jobs |-> IF j = Top(t).fn THEN "ended" ELSE state[j]]
  /\ UNCHANGED <<workers, m_nodes, m_freeNodes, m_pendingJobCount, poolTasks, call, handle, deps>>

completeLocked(t) ==
  LET h == Top(t).cur
      released == ReleaseDependents(m_nodes, m_nodes[h.index].dependents,
                                    Top(t).depth < s_WorkFirstDepthLimit)
  IN
  /\ At(t, "complete")
  /\ IF Resolves(m_nodes, h)
     THEN /\ m_nodes' = [released.nodes EXCEPT ![h.index] =
                           recycleNodeLocked([@ EXCEPT !.completedGeneration = h.generation])]
          /\ m_freeNodes' = Append(m_freeNodes, h.index)
          /\ SetTop(t, [Top(t) EXCEPT !.at = "signal", !.cont = released.cont,
                                      !.batch = released.batch])
     ELSE Pop(t) /\ UNCHANGED <<m_nodes, m_freeNodes>>
  /\ UNCHANGED <<workers, m_pendingJobCount, poolTasks, call, handle, state, deps>>

completeSilently(t) ==       \* mutant: the signal is stored and nobody notified
  /\ At(t, "signal")
  /\ SetTop(t, [Top(t) EXCEPT !.at = "batch"])
  /\ UNCHANGED <<workers, m_nodes, m_freeNodes, m_pendingJobCount, poolTasks, call, handle, state, deps>>

completeNotify(t) ==         \* completedGeneration.notify_all
  /\ At(t, "signal")
  /\ SetTop(t, [Top(t) EXCEPT !.at = "batch"])
  /\ call' = [c \in Clients |->
                IF call[c].at = "asleep" /\ handle[call[c].job].index = Top(t).cur.index
                THEN [call[c] EXCEPT !.at = "futex"] ELSE call[c]]
  /\ UNCHANGED <<workers, m_nodes, m_freeNodes, m_pendingJobCount, poolTasks, handle, state, deps>>

enqueueExecutionBatch(t) ==  \* to the pool at once; without workers, one after the other here
  LET f == Top(t) IN
  /\ At(t, "batch")
  /\ IF workers = {} /\ f.batch # <<>>
     THEN /\ stack' = [stack EXCEPT ![t] = Front(@) \o <<[f EXCEPT !.batch = Tail(@)],
                                                         Frame("take", Head(f.batch))>>]
          /\ UNCHANGED poolTasks
     ELSE /\ SetTop(t, [f EXCEPT !.at = "retire", !.batch = <<>>])
          /\ poolTasks' = poolTasks \o f.batch
  /\ UNCHANGED <<workers, m_nodes, m_freeNodes, m_pendingJobCount, call, handle, state, deps>>

Continue(t) ==               \* the inline continuation, or the end of execute()
  IF valid(Top(t).cont)
  THEN SetTop(t, [Frame("take", Top(t).cont) EXCEPT !.depth = Top(t).depth + 1])
  ELSE Pop(t)

completeRetire(t) ==         \* m_pendingJobCount.fetch_sub; the last one notifies
  /\ At(t, "retire")
  /\ m_pendingJobCount' = m_pendingJobCount - 1
  /\ IF m_pendingJobCount = 1
     THEN SetTop(t, [Top(t) EXCEPT !.at = "retireNotify"])
     ELSE Continue(t)
  /\ UNCHANGED <<workers, m_nodes, m_freeNodes, poolTasks, call, handle, state, deps>>

completeRetireNotify(t) ==
  /\ At(t, "retireNotify")
  /\ Continue(t)
  /\ call' = [c \in Clients |->
                IF call[c].at = "allAsleep" THEN [call[c] EXCEPT !.at = "allFutex"] ELSE call[c]]
  /\ UNCHANGED <<workers, m_nodes, m_freeNodes, m_pendingJobCount, poolTasks, handle, state, deps>>
-----------------------------------------------------------------------------
(* wait(handle), waitAll(): a load, a compare-and-sleep, a wake-up.        *)

SetCall(c, r) ==
  /\ call' = [call EXCEPT ![c] = r]
  /\ UNCHANGED <<workers, m_nodes, m_freeNodes, m_pendingJobCount, poolTasks, stack,
                 handle, state, deps>>

wait(c, j) ==
  /\ stack[c] = <<>> /\ call[c].at = "idle" /\ j \in submitted /\ Age(j) < GenerationLimit - 1
  /\ SetCall(c, [Idle EXCEPT !.at = "resolve", !.job = j])

waitAnySignal(c) ==          \* mutant: any earlier completion of the node ends the wait
  LET h == handle[call[c].job]
      completedGeneration == m_nodes[h.index].completedGeneration
  IN
  /\ call[c].at = "resolve"
  /\ SetCall(c, IF ~ Resolves(m_nodes, h) \/ completedGeneration # 0
                THEN Idle
                ELSE [call[c] EXCEPT !.at = "futex", !.seen = completedGeneration])

waitResolve(c) ==
  LET h == handle[call[c].job]
      completedGeneration == m_nodes[h.index].completedGeneration
  IN
  /\ call[c].at = "resolve"
  /\ SetCall(c, IF ~ Resolves(m_nodes, h) \/ completedGeneration = h.generation
                THEN Idle
                ELSE [call[c] EXCEPT !.at = "futex", !.seen = completedGeneration])

waitFutex(c) ==
  LET current == m_nodes[handle[call[c].job].index].completedGeneration IN
  /\ call[c].at = "futex"
  /\ SetCall(c, IF current = call[c].seen THEN [call[c] EXCEPT !.at = "asleep"]
                                          ELSE [call[c] EXCEPT !.at = "resolve", !.seen = 0])

waitAll(c) ==
  /\ stack[c] = <<>> /\ call[c].at = "idle"
  /\ SetCall(c, [Idle EXCEPT !.at = "allLoad", !.past = submitted])

waitAllLoad(c) ==
  /\ call[c].at = "allLoad"
  /\ SetCall(c, IF m_pendingJobCount = 0 THEN Idle
                ELSE [call[c] EXCEPT !.at = "allFutex", !.seen = m_pendingJobCount])

waitAllFutex(c) ==
  /\ call[c].at = "allFutex"
  /\ SetCall(c, IF m_pendingJobCount = call[c].seen THEN [call[c] EXCEPT !.at = "allAsleep"]
                ELSE [call[c] EXCEPT !.at = "allLoad", !.seen = 0])

(* isComplete(handle) as a caller may evaluate it at any time.             *)
isComplete(j) == ~ Resolves(m_nodes, handle[j])
-----------------------------------------------------------------------------
(* The order of a list plays no part, how often it names a job does.       *)
DependencyLists ==
  {list \in UNION {[1 .. n -> submitted] : n \in 0 .. MaxDeps} :
     \A i \in DOMAIN list : i > 1 => list[i - 1] <= list[i]}

Call(t) == \E list \in DependencyLists : submitWithDependencies(t, list)

Step(t) ==
  \/ enqueueExecution(t) \/ WorkerTake(t)
  \/ ExecuteTake(t) \/ ExecuteRun(t)
  \/ completeLocked(t) \/ completeNotify(t) \/ enqueueExecutionBatch(t)
  \/ completeRetire(t) \/ completeRetireNotify(t)

WaitStep(c) == waitResolve(c) \/ waitFutex(c) \/ waitAllLoad(c) \/ waitAllFutex(c)

Next ==
  \/ \E t \in Threads : Call(t) \/ Step(t)
  \/ \E c \in Waiters : waitAll(c) \/ WaitStep(c) \/ \E j \in Jobs : wait(c, j)

(* Every runnable thread runs; nothing is assumed of the calls made.       *)
Fairness ==
  /\ \A t \in Threads : WF_vars(Step(t))
  /\ \A c \in Waiters : WF_vars(WaitStep(c))

Spec == Init /\ [][Next]_vars
FairSpec == Spec /\ Fairness
-----------------------------------------------------------------------------
(* Properties.                                                             *)

HandleType == [index : 0 .. MaxJobs, generation : 0 .. GenerationLimit]

(* Type correctness of the node table, the counters and the frames.        *)
TypeOK ==
  /\ workers \in WorkerSets
  /\ \A i \in DOMAIN m_nodes :
       LET n == m_nodes[i] IN
       /\ n.func \in 0 .. MaxJobs /\ n.generation \in 1 .. GenerationLimit
       /\ n.remaining \in Nat /\ n.completed \in BOOLEAN /\ n.scheduled \in BOOLEAN
       /\ Range(n.dependents) \subseteq HandleType
       /\ n.completedGeneration \in 0 .. GenerationLimit
  /\ Range(m_freeNodes) \subseteq DOMAIN m_nodes
  /\ m_pendingJobCount \in 0 .. MaxJobs
  /\ Range(poolTasks) \subseteq HandleType
  /\ \A t \in Threads : \A k \in DOMAIN stack[t] :
       stack[t][k].cur \in HandleType /\ stack[t][k].depth \in 0 .. s_WorkFirstDepthLimit
  /\ handle \in [Jobs -> HandleType]

(* The job system implements JobGraph: every job is started once, after all
   the jobs it was submitted with have ended (submitWithDependencies,
   complete, execute).                                                     *)
ImplementsJobGraph == Graph!Spec

Occurrences(h, seq) == Cardinality({i \in DOMAIN seq : seq[i] = h})

(* The places where unfinished jobs list h: <<node, position>>.            *)
Listed(nodes, h) ==
  {p \in UNION {{<<d, q>> : q \in DOMAIN nodes[d].dependents} : d \in DOMAIN nodes} :
     ~ nodes[p[1]].completed /\ nodes[p[1]].dependents[p[2]] = h}

HandleOf(nodes, i) == [index |-> i, generation |-> nodes[i].generation]

(* remainingDependencies of an unfinished job is the number of times it is
   still listed by an unfinished job, duplicates included: the counter never
   underflows and reaches 0 exactly when the last dependency completes.    *)
RemainingExact ==
  \A i \in DOMAIN m_nodes : ~ m_nodes[i].completed =>
    LET h == HandleOf(m_nodes, i)
    IN  /\ m_nodes[i].remaining = Cardinality(Listed(m_nodes, h))
        /\ m_nodes[i].scheduled <=> m_nodes[i].remaining = 0

(* Where a scheduled handle is on its way to execute() or inside it: place
   -1 of a frame is the job it works on, 0 its continuation, the others its
   batch.                                                                  *)
Carries(f, q, h) ==
  \/ q = -1 /\ f.at \in {"enqueue", "take", "run", "complete"} /\ f.cur = h
  \/ q = 0 /\ valid(f.cont) /\ f.cont = h
  \/ q \in DOMAIN f.batch /\ f.batch[q] = h
Places(t) == UNION {{<<t, k, q>> : q \in -1 .. Len(stack[t][k].batch)} : k \in DOMAIN stack[t]}
Carriers(h) ==
  Occurrences(h, poolTasks)
    + Cardinality({p \in UNION {Places(t) : t \in Threads} : Carries(stack[p[1]][p[2]], p[3], h)})

(* A scheduled unfinished job is carried by exactly one pool task or one
   activation of execute(), and a free node by none: no job is run by two
   threads or dropped between complete() and the pool.                     *)
OneCarrier ==
  \A i \in DOMAIN m_nodes :
    LET n == m_nodes[i]
    IN  Carriers(HandleOf(m_nodes, i)) = (IF ~ n.completed /\ n.scheduled THEN 1 ELSE 0)

(* A node is on the free list once if its job is complete, and not at all
   otherwise: an index is never handed to two jobs.                        *)
FreeListExact ==
  \A i \in DOMAIN m_nodes : Occurrences(i, m_freeNodes) = (IF m_nodes[i].completed THEN 1 ELSE 0)

(* A handle reads as complete only when its job has ended, for as long as a
   caller may hold it (isComplete, and the early returns of wait).         *)
CompleteMeansEnded ==
  \A j \in submitted : Age(j) < GenerationLimit /\ isComplete(j) => state[j] = "ended"

(* wait(handle) returns only after the job has ended, waitAll() only after
   every job submitted before the call has.                                *)
WaitSeesEnd ==
  [][\A c \in Clients : call[c].at # "idle" /\ call'[c].at = "idle" =>
       \A j \in call[c].past \cup ({call[c].job} \ {0}) : state[j] = "ended"]_vars

(* Every submitted job ends.                                               *)
EveryJobEnds == \A j \in Jobs : state[j] = "pending" ~> state[j] = "ended"

(* Every wait()/waitAll() returns: no notify is lost between the load of the
   counter or signal and the sleep.                                        *)
EveryWaitReturns == \A c \in Clients : call[c].at # "idle" ~> call[c].at = "idle"
=============================================================================
