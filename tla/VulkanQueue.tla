----------------------------- MODULE VulkanQueue -----------------------------
(***************************************************************************)
(* Command-buffer recording and submission of the Vulkan backend:          *)
(* CommandList::open/close (commandlist.cpp), Queue (queue.cpp) and        *)
(* Device::executeCommandLists (device_queue.cpp).                         *)
(*                                                                         *)
(* A Queue owns a timeline semaphore: submission n signals value n.  It    *)
(* keeps the command buffers of accepted submissions until the timeline    *)
(* has passed them and then pools them for the next recording.  Direct     *)
(* recordings (worker 0) share one pool per queue; a worker lease has an   *)
(* arena of its own.  Each critical section of Queue::m_mutex or of a      *)
(* worker arena's mutex is one action.                                     *)
(*                                                                         *)
(* A recorder is a thread with one command list.  A TrackedCommandBuffer   *)
(* is known by its address, which the arena reuses after its destruction.  *)
(* Device loss ends every operation at its first line and is left out.     *)
(***************************************************************************)
EXTENDS Integers, Sequences, FiniteSets, SequencesExt

CONSTANTS
  Queues,           \* physical queues
  Recorders,        \* threads, each with one command list
  QueueOf,          \* recorder -> physicalQueue of its list
  WorkerOf,         \* recorder -> recordingWorkerIndex of its list, 0 for direct
  Buffers,          \* addresses of TrackedCommandBuffer objects
  NoBuffer,         \* nullptr
  WaitTokens,       \* the dependency tokens callers name, forged ones included
  SubmissionLimit   \* largest submission id: 2^64 - 1 in the code

Workers == {WorkerOf[r] : r \in Recorders} \cup {0}
Ids == 1 .. SubmissionLimit
Tokens == [queue : Queues, value : Ids]

ASSUME QueueAssumption ==
  /\ QueueOf \in [Recorders -> Queues] /\ WorkerOf \in [Recorders -> Nat]
  /\ IsFiniteSet(Buffers) /\ NoBuffer \notin Buffers
  /\ SubmissionLimit \in Nat /\ WaitTokens \subseteq Tokens
  /\ \A r, s \in Recorders :       \* a lease is held by one recorder of a queue
       r # s /\ QueueOf[r] = QueueOf[s] => WorkerOf[r] # WorkerOf[s] \/ WorkerOf[r] = 0

VARIABLES
  m_lastSubmittedID, m_lastFinishedID,  \* queue -> id
  m_commandBuffersInFlight,             \* queue -> sequence of buffers
  m_pool,             \* queue -> worker -> m_commandBuffersPool, or the arena's pool
  m_waitSemaphores,   \* queue -> waits the next submission takes along
  m_submissionID,     \* buffer -> id
  m_recordingWorkerIndex,               \* buffer -> worker
  m_currentCmdBuf,    \* recorder -> buffer of its list
  m_isRecording,      \* recorder -> between open() and close()
  exec,               \* recorder -> its call of executeCommandLists
  gpuQueue,           \* external: queue -> accepted submissions the GPU has not finished
  gpuDone             \* external: queue -> value of the timeline semaphore

queueVars == <<m_lastSubmittedID, m_lastFinishedID, m_commandBuffersInFlight, m_pool,
               m_waitSemaphores, m_submissionID, m_recordingWorkerIndex,
               m_currentCmdBuf, m_isRecording, exec, gpuQueue, gpuDone>>

NotExecuting == [at |-> "idle", waits |-> {}]

InFlight(q) == Range(m_commandBuffersInFlight[q])
Pooled(q) == UNION {Range(m_pool[q][w]) : w \in Workers}
Held == {m_currentCmdBuf[r] : r \in Recorders} \ {NoBuffer}

(* Addresses the arena may hand out.                                       *)
Unused == Buffers \ (Held \cup UNION {InFlight(q) \cup Pooled(q) : q \in Queues})

(* The buffers of the submissions the GPU has not finished.                *)
Executing == (UNION {{e.buffer : e \in Range(gpuQueue[q])} : q \in Queues}) \ {NoBuffer}

Init ==
  /\ m_lastSubmittedID = [q \in Queues |-> 0] /\ m_lastFinishedID = [q \in Queues |-> 0]
  /\ m_commandBuffersInFlight = [q \in Queues |-> <<>>]
  /\ m_pool = [q \in Queues |-> [w \in Workers |-> <<>>]]
  /\ m_waitSemaphores = [q \in Queues |-> {}]
  /\ m_submissionID = [b \in Buffers |-> 0]
  /\ m_recordingWorkerIndex = [b \in Buffers |-> 0]
  /\ m_currentCmdBuf = [r \in Recorders |-> NoBuffer]
  /\ m_isRecording = [r \in Recorders |-> FALSE]
  /\ exec = [r \in Recorders |-> NotExecuting]
  /\ gpuQueue = [q \in Queues |-> <<>>] /\ gpuDone = [q \in Queues |-> 0]
-----------------------------------------------------------------------------
(* updateLastFinishedID: the values it may leave in m_lastFinishedID.  The
   driver may report an old value, and the query may fail.                 *)
updateLastFinishedID(q) ==
  {IF v > m_lastFinishedID[q] THEN v ELSE m_lastFinishedID[q] : v \in 0 .. gpuDone[q]}

(* collectCompletedCommandBuffers: how many buffers it takes from the front
   of the queue once m_lastFinishedID is fin.                              *)
CompletedOffByOne(q, fin) ==        \* mutant: the submission being executed counts as completed
  Cardinality({i \in DOMAIN m_commandBuffersInFlight[q] :
                 \A k \in 1 .. i : m_submissionID[m_commandBuffersInFlight[q][k]] <= fin + 1})
CompletedCount(q, fin) ==
  Cardinality({i \in DOMAIN m_commandBuffersInFlight[q] :
                 \A k \in 1 .. i : m_submissionID[m_commandBuffersInFlight[q][k]] <= fin})
Completed(q, fin) == SubSeq(m_commandBuffersInFlight[q], 1, CompletedCount(q, fin))
StillInFlight(q, fin) ==
  SubSeq(m_commandBuffersInFlight[q], CompletedCount(q, fin) + 1, Len(m_commandBuffersInFlight[q]))

(* The elements of list that are in S, in order.                           *)
Only(list, S) ==
  LET taken[i \in 0 .. Len(list)] ==
        IF i = 0 THEN <<>>
        ELSE IF list[i] \in S THEN Append(taken[i - 1], list[i])
        ELSE taken[i - 1]
  IN  taken[Len(list)]

(* recycleCommandBuffer for each buffer of list, in order.                 *)
OfWorker(list, w) == Only(list, {b \in Buffers : m_recordingWorkerIndex[b] = w})
recycle(pools, list) == [w \in Workers |-> pools[w] \o OfWorker(list, w)]

(* createCommandBuffer and the reuse of a pooled buffer: pairs of a buffer
   and the pool that is left.  A buffer that cannot be reset is destroyed
   and a new one created; creating one may fail.                           *)
Created(pool) == {<<b, pool>> : b \in Unused \cup {NoBuffer}}
AcquireShared(pool) ==              \* mutant: the pool keeps the buffer it hands out
  IF pool = <<>> THEN Created(pool)
  ELSE {<<Head(pool), pool>>} \cup Created(Tail(pool))
Acquire(pool) ==
  IF pool = <<>> THEN Created(pool)
  ELSE {<<Head(pool), Tail(pool)>>} \cup Created(Tail(pool))

CanOpen(r) == exec[r].at = "idle"

(* discardUnsubmittedUploadChunks polls the queue if the list has a buffer. *)
DiscardPoll(r, fin) ==
  /\ fin \in IF m_currentCmdBuf[r] = NoBuffer THEN {m_lastFinishedID[QueueOf[r]]}
            ELSE updateLastFinishedID(QueueOf[r])
  /\ m_lastFinishedID' = [m_lastFinishedID EXCEPT ![QueueOf[r]] = fin]

(* The list gives up a buffer that is not submitted: the TrackedCommandBuffer
   is destroyed.                                                           *)
Drop(r, fin) ==
  /\ DiscardPoll(r, fin)
  /\ m_currentCmdBuf' = [m_currentCmdBuf EXCEPT ![r] = NoBuffer]
  /\ m_isRecording' = [m_isRecording EXCEPT ![r] = FALSE]
  /\ m_submissionID' = [b \in Buffers |-> IF b = m_currentCmdBuf[r] THEN 0 ELSE m_submissionID[b]]
  /\ m_recordingWorkerIndex' =
       [b \in Buffers |-> IF b = m_currentCmdBuf[r] THEN 0 ELSE m_recordingWorkerIndex[b]]
  /\ UNCHANGED <<m_lastSubmittedID, m_commandBuffersInFlight, m_pool, m_waitSemaphores,
                 gpuQueue, gpuDone>>

Goto(r, at) == exec' = [exec EXCEPT ![r] = [NotExecuting EXCEPT !.at = at]]

(* open(): drop what was recorded before.                                  *)
OpenDrop(r, fin) == CanOpen(r) /\ Drop(r, fin) /\ Goto(r, "open")

(* open(): getOrCreateCommandBuffer.                                       *)
Hold(r, b) ==
  /\ exec[r].at = "open"
  /\ m_currentCmdBuf' = [m_currentCmdBuf EXCEPT ![r] = b]
  /\ m_recordingWorkerIndex' =
       IF b = NoBuffer THEN m_recordingWorkerIndex
       ELSE [m_recordingWorkerIndex EXCEPT ![b] = WorkerOf[r]]
  /\ Goto(r, IF b = NoBuffer THEN "idle" ELSE "begin")
  /\ UNCHANGED <<m_lastSubmittedID, m_waitSemaphores, m_submissionID, m_isRecording,
                 gpuQueue, gpuDone>>

getOrCreateDirectCommandBuffer(r, fin, b) ==
  LET q == QueueOf[r]
      collected == recycle(m_pool[q], Completed(q, fin))
  IN
  /\ WorkerOf[r] = 0 /\ fin \in updateLastFinishedID(q)
  /\ Hold(r, b)
  /\ m_lastFinishedID' = [m_lastFinishedID EXCEPT ![q] = fin]
  /\ m_commandBuffersInFlight' = [m_commandBuffersInFlight EXCEPT ![q] = StillInFlight(q, fin)]
  /\ \E p \in Acquire(collected[0]) :
       /\ p[1] = b
       /\ m_pool' = [m_pool EXCEPT ![q] = [collected EXCEPT ![0] = p[2]]]

getOrCreateWorkerCommandBuffer(r, b) ==     \* takes no queue lock and polls nothing
  LET q == QueueOf[r] IN
  /\ WorkerOf[r] # 0
  /\ Hold(r, b)
  /\ \E p \in Acquire(m_pool[q][WorkerOf[r]]) :
       /\ p[1] = b
       /\ m_pool' = [m_pool EXCEPT ![q][WorkerOf[r]] = p[2]]
  /\ UNCHANGED <<m_lastFinishedID, m_commandBuffersInFlight>>

(* open(): vkBeginCommandBuffer and the import of the state handoff.       *)
OpenBegin(r) ==
  /\ exec[r].at = "begin"
  /\ m_isRecording' = [m_isRecording EXCEPT ![r] = TRUE]
  /\ Goto(r, "idle")
  /\ UNCHANGED <<m_lastSubmittedID, m_lastFinishedID, m_commandBuffersInFlight, m_pool,
                 m_waitSemaphores, m_submissionID, m_recordingWorkerIndex, m_currentCmdBuf,
                 gpuQueue, gpuDone>>

OpenFails(r, fin) == exec[r].at = "begin" /\ Drop(r, fin) /\ Goto(r, "idle")

Close(r) ==
  /\ m_isRecording[r] /\ exec[r].at = "idle"
  /\ m_isRecording' = [m_isRecording EXCEPT ![r] = FALSE]
  /\ UNCHANGED <<m_lastSubmittedID, m_lastFinishedID, m_commandBuffersInFlight, m_pool,
                 m_waitSemaphores, m_submissionID, m_recordingWorkerIndex, m_currentCmdBuf,
                 exec, gpuQueue, gpuDone>>

CloseFails(r, fin) ==                 \* vkEndCommandBuffer
  m_isRecording[r] /\ exec[r].at = "idle" /\ Drop(r, fin) /\ UNCHANGED exec
-----------------------------------------------------------------------------
(* executeCommandLists: validate the dependency tokens, then submit().     *)

AcceptAnyToken(token) == TRUE        \* mutant: fabricated tokens are not rejected
TokenSubmitted(token) == token.value <= m_lastSubmittedID[token.queue]

(* Same-queue tokens are dropped; of one producer's, the largest counts.   *)
LocalWaits(q, tokens) ==
  {t \in tokens : t.queue # q /\ \A u \in tokens : u.queue = t.queue => u.value <= t.value}

Execute(r, tokens) ==
  /\ exec[r].at = "idle" /\ ~ m_isRecording[r]
  /\ \A t \in tokens : TokenSubmitted(t)
  /\ exec' = [exec EXCEPT ![r] = [at |-> "submit", waits |-> LocalWaits(QueueOf[r], tokens)]]
  /\ UNCHANGED <<m_lastSubmittedID, m_lastFinishedID, m_commandBuffersInFlight, m_pool,
                 m_waitSemaphores, m_submissionID, m_recordingWorkerIndex,
                 m_currentCmdBuf, m_isRecording, gpuQueue, gpuDone>>

(* withList: the call names the recorder's list and not just semaphores.   *)
SubmittedBuffer(r, withList) == IF withList THEN m_currentCmdBuf[r] ELSE NoBuffer
Waits(r) == exec[r].waits \cup m_waitSemaphores[QueueOf[r]]

(* Arguments that fail a check (another queue's list, a null array), nothing
   to submit, or no id left: the list keeps its buffer, the pending waits
   are lost.                                                               *)
SubmitRefused(r, withList, valid, after) ==
  LET q == QueueOf[r] IN
  /\ exec[r].at = "submit"
  /\ \/ ~ valid
     \/ SubmittedBuffer(r, withList) = NoBuffer /\ Waits(r) = {}
     \/ m_lastSubmittedID[q] = SubmissionLimit /\ (withList \/ Waits(r) # {})
  /\ m_waitSemaphores' = [m_waitSemaphores EXCEPT ![q] = {}]
  /\ exec' = [exec EXCEPT ![r] = after]
  /\ UNCHANGED <<m_lastSubmittedID, m_lastFinishedID, m_commandBuffersInFlight, m_pool,
                 m_submissionID, m_recordingWorkerIndex, m_currentCmdBuf, m_isRecording,
                 gpuQueue, gpuDone>>

CanSubmitExhausted(r, withList) ==   \* mutant: the last id is not checked
  /\ exec[r].at = "submit"
  /\ SubmittedBuffer(r, withList) # NoBuffer \/ Waits(r) # {}
CanSubmit(r, withList) ==
  /\ exec[r].at = "submit"
  /\ SubmittedBuffer(r, withList) # NoBuffer \/ Waits(r) # {}
  /\ m_lastSubmittedID[QueueOf[r]] < SubmissionLimit

(* The buffer leaves the list, marked with the tentative id.               *)
Detach(r, withList) ==
  LET b == SubmittedBuffer(r, withList) IN
  /\ m_currentCmdBuf' = IF b = NoBuffer THEN m_currentCmdBuf
                        ELSE [m_currentCmdBuf EXCEPT ![r] = NoBuffer]
  /\ m_submissionID' = IF b = NoBuffer THEN m_submissionID
                       ELSE [m_submissionID EXCEPT ![b] = m_lastSubmittedID[QueueOf[r]] + 1]
  /\ m_waitSemaphores' = [m_waitSemaphores EXCEPT ![QueueOf[r]] = {}]

DetachedList(r, withList) ==
  IF SubmittedBuffer(r, withList) = NoBuffer THEN <<>> ELSE <<SubmittedBuffer(r, withList)>>

SubmitRejectedKeepsID(r, withList, after) ==   \* mutant: the tentative id is not rolled back
  LET q == QueueOf[r] IN
  /\ CanSubmit(r, withList)
  /\ Detach(r, withList)
  /\ m_lastSubmittedID' = [m_lastSubmittedID EXCEPT ![q] = @ + 1]
  /\ m_pool' = [m_pool EXCEPT ![q] = recycle(@, DetachedList(r, withList))]
  /\ exec' = [exec EXCEPT ![r] = after]
  /\ UNCHANGED <<m_lastFinishedID, m_commandBuffersInFlight,
                 m_recordingWorkerIndex, m_isRecording, gpuQueue, gpuDone>>

(* vkQueueSubmit2 fails: the id is rolled back, the buffer pooled at once. *)
SubmitRejected(r, withList, after) ==
  LET q == QueueOf[r] IN
  /\ CanSubmit(r, withList)
  /\ Detach(r, withList)
  /\ m_pool' = [m_pool EXCEPT ![q] = recycle(@, DetachedList(r, withList))]
  /\ exec' = [exec EXCEPT ![r] = after]
  /\ UNCHANGED <<m_lastSubmittedID, m_lastFinishedID, m_commandBuffersInFlight,
                 m_recordingWorkerIndex, m_isRecording, gpuQueue, gpuDone>>

SubmitAccepted(r, withList, after) ==
  LET q == QueueOf[r]
      id == m_lastSubmittedID[q] + 1
  IN
  /\ CanSubmit(r, withList)
  /\ Detach(r, withList)
  /\ m_lastSubmittedID' = [m_lastSubmittedID EXCEPT ![q] = id]
  /\ m_commandBuffersInFlight' = [m_commandBuffersInFlight EXCEPT ![q] = @ \o DetachedList(r, withList)]
  /\ gpuQueue' = [gpuQueue EXCEPT ![q] =
                    Append(@, [id |-> id, buffer |-> SubmittedBuffer(r, withList), waits |-> Waits(r)])]
  /\ exec' = [exec EXCEPT ![r] = after]
  /\ UNCHANGED <<m_lastFinishedID, m_pool, m_recordingWorkerIndex, m_isRecording, gpuDone>>

(* queueWaitForCommandList: callers name submissions they have made.       *)
AddWait(q, token) ==
  /\ token.value <= m_lastSubmittedID[token.queue] /\ token \notin m_waitSemaphores[q]
  /\ m_waitSemaphores' = [m_waitSemaphores EXCEPT ![q] = @ \cup {token}]
  /\ UNCHANGED <<m_lastSubmittedID, m_lastFinishedID, m_commandBuffersInFlight, m_pool,
                 m_submissionID, m_recordingWorkerIndex, m_currentCmdBuf, m_isRecording,
                 exec, gpuQueue, gpuDone>>
-----------------------------------------------------------------------------
(* Completion.                                                             *)

queueGetCompletedInstance(q, fin) ==
  /\ fin \in updateLastFinishedID(q)
  /\ m_lastFinishedID' = [m_lastFinishedID EXCEPT ![q] = fin]
  /\ UNCHANGED <<m_lastSubmittedID, m_commandBuffersInFlight, m_pool,
                 m_waitSemaphores, m_submissionID, m_recordingWorkerIndex,
                 m_currentCmdBuf, m_isRecording, exec, gpuQueue, gpuDone>>

Collect(q, fin) ==
  /\ m_lastFinishedID' = [m_lastFinishedID EXCEPT ![q] = fin]
  /\ m_commandBuffersInFlight' = [m_commandBuffersInFlight EXCEPT ![q] = StillInFlight(q, fin)]
  /\ m_pool' = [m_pool EXCEPT ![q] = recycle(@, Completed(q, fin))]
  /\ UNCHANGED <<m_lastSubmittedID, m_waitSemaphores, m_submissionID, m_recordingWorkerIndex,
                 m_currentCmdBuf, m_isRecording, exec, gpuQueue, gpuDone>>

runGarbageCollection(q, fin) == fin \in updateLastFinishedID(q) /\ Collect(q, fin)

waitForIdle(q, fin) ==               \* vkQueueWaitIdle returned
  gpuQueue[q] = <<>> /\ fin = m_lastSubmittedID[q] /\ Collect(q, fin)

(* external: the GPU runs a queue's submissions in order, each after the
   timeline values it waits for, and signals its id.                       *)
GpuFinish(q) ==
  /\ gpuQueue[q] # <<>>
  /\ \A t \in Head(gpuQueue[q]).waits : gpuDone[t.queue] >= t.value
  /\ gpuDone' = [gpuDone EXCEPT ![q] = Head(gpuQueue[q]).id]
  /\ gpuQueue' = [gpuQueue EXCEPT ![q] = Tail(@)]
  /\ UNCHANGED <<m_lastSubmittedID, m_lastFinishedID, m_commandBuffersInFlight, m_pool,
                 m_waitSemaphores, m_submissionID, m_recordingWorkerIndex,
                 m_currentCmdBuf, m_isRecording, exec>>
-----------------------------------------------------------------------------
SomeTokens == {{}} \cup {{t} : t \in WaitTokens}

Recording(r) ==
  LET q == QueueOf[r] IN
  \/ \E fin \in 0 .. SubmissionLimit : OpenDrop(r, fin) \/ OpenFails(r, fin) \/ CloseFails(r, fin)
  \/ \E fin \in updateLastFinishedID(q), b \in Buffers \cup {NoBuffer} :
       getOrCreateDirectCommandBuffer(r, fin, b)
  \/ \E b \in Buffers \cup {NoBuffer} : getOrCreateWorkerCommandBuffer(r, b)
  \/ OpenBegin(r) \/ Close(r)

Executes(r) == \E tokens \in SomeTokens : Execute(r, tokens)

Submit(r) ==
  \E withList \in BOOLEAN :
    \/ \E valid \in BOOLEAN : SubmitRefused(r, withList, valid, NotExecuting)
    \/ SubmitRejected(r, withList, NotExecuting) \/ SubmitAccepted(r, withList, NotExecuting)

Completion(q) ==
  \E fin \in 0 .. SubmissionLimit :
    queueGetCompletedInstance(q, fin) \/ runGarbageCollection(q, fin) \/ waitForIdle(q, fin)

Next ==
  \/ \E r \in Recorders : Recording(r) \/ Executes(r) \/ Submit(r)
  \/ \E q \in Queues : Completion(q) \/ GpuFinish(q) \/ \E token \in WaitTokens : AddWait(q, token)

Spec == Init /\ [][Next]_queueVars

(* The GPU makes progress on a queue whose first submission may start;
   nothing is assumed of the threads.                                      *)
Fairness == \A q \in Queues : WF_queueVars(GpuFinish(q))

FairSpec == Spec /\ Fairness
-----------------------------------------------------------------------------
(* The variables have the values their declarations and the code allow.    *)
TypeOK ==
  /\ m_lastSubmittedID \in [Queues -> 0 .. SubmissionLimit]
  /\ m_lastFinishedID \in [Queues -> 0 .. SubmissionLimit]
  /\ gpuDone \in [Queues -> 0 .. SubmissionLimit]
  /\ m_commandBuffersInFlight \in [Queues -> Seq(Buffers)]
  /\ m_pool \in [Queues -> [Workers -> Seq(Buffers)]]
  /\ m_waitSemaphores \in [Queues -> SUBSET Tokens]
  /\ m_submissionID \in [Buffers -> 0 .. SubmissionLimit]
  /\ m_recordingWorkerIndex \in [Buffers -> Workers]
  /\ m_currentCmdBuf \in [Recorders -> Buffers \cup {NoBuffer}]
  /\ m_isRecording \in [Recorders -> BOOLEAN]
  /\ exec \in [Recorders -> [at : {"idle", "open", "begin", "stage", "submit", "book"},
                             waits : SUBSET Tokens]]
  /\ \A q \in Queues : gpuQueue[q] \in
       Seq([id : Ids, buffer : Buffers \cup {NoBuffer}, waits : SUBSET Tokens])

(* A command buffer the GPU may still execute stays in m_commandBuffersInFlight
   under its submission's id: it is neither pooled, nor recorded into, nor
   destroyed.                                                              *)
ExecutingRetained ==
  \A q \in Queues : \A e \in Range(gpuQueue[q]) :
    e.buffer # NoBuffer => e.buffer \in InFlight(q) /\ m_submissionID[e.buffer] = e.id

(* A command buffer is in one place: a list, a queue's in-flight list or
   one pool, and there once.                                               *)
OneHolder ==
  \A b \in Buffers :
    Cardinality({r \in Recorders : m_currentCmdBuf[r] = b})
      + Cardinality({p \in Queues \X (1 .. Cardinality(Buffers)) :
                       /\ p[2] <= Len(m_commandBuffersInFlight[p[1]])
                       /\ m_commandBuffersInFlight[p[1]][p[2]] = b})
      + Cardinality({p \in Queues \X Workers \X (1 .. Cardinality(Buffers) + 1) :
                       p[3] <= Len(m_pool[p[1]][p[2]]) /\ m_pool[p[1]][p[2]][p[3]] = b}) <= 1

(* The ids handed out are the timeline values still to be signalled: a
   rejected submission leaves no gap that the next one would wait behind.  *)
TimelineExact ==
  \A q \in Queues :
    /\ m_lastFinishedID[q] <= gpuDone[q]
    /\ m_lastSubmittedID[q] = gpuDone[q] + Len(gpuQueue[q])
    /\ \A i \in DOMAIN gpuQueue[q] : gpuQueue[q][i].id = gpuDone[q] + i

(* Every accepted submission completes: the tokens and the waits of
   executeCommandLists never make queues wait for each other for ever.     *)
AcceptedCompletes ==
  \A q \in Queues, id \in Ids : m_lastSubmittedID[q] >= id ~> gpuDone[q] >= id
=============================================================================
