---------------------------- MODULE UploadManager ----------------------------
(***************************************************************************)
(* Staging memory of the Vulkan backend: UploadManager (upload.cpp), used  *)
(* by CommandList::prepareUploadStaging (buffer.cpp) and told by           *)
(* Device::executeCommandLists (device_queue.cpp) and by CommandList which *)
(* recordings were submitted or given up.                                  *)
(*                                                                         *)
(* A chunk is active while its owner, a command buffer known only by its   *)
(* address, records; it then waits in m_chunkPool for its version, the     *)
(* submission that reads it, to complete.  executeCommandLists tells the   *)
(* manager after Queue::submit has released the queue's lock.              *)
(*                                                                         *)
(* Requests are one slot of a chunk of ChunkSize slots.  The manager of    *)
(* uploads has no memory limit, so trimChunkPoolLocked returns at once.    *)
(***************************************************************************)
EXTENDS VulkanQueue

CONSTANTS
  Chunks,       \* staging buffers that may be created
  ChunkSize     \* slots of a chunk

ASSUME UploadAssumption == ChunkSize \in Nat \ {0}

VARIABLES
  m_activeChunks,   \* queue -> its active chunks, oldest first
  m_chunkPool,      \* chunks of every queue that nobody records into
  chunk,            \* chunk -> its fields owner, physicalQueue, allocated, version
  completedVersion, \* recorder -> what prepareUploadStaging read before it suballocates
  submitted,        \* recorder -> owner, id and outcome executeCommandLists got from submit
  reads             \* history: buffer -> slots its recorded copies read

uploadVars == <<m_activeChunks, m_chunkPool, chunk, completedVersion, submitted, reads>>
vars == <<queueVars, uploadVars>>

Slots == Chunks \X (0 .. ChunkSize - 1)
NotSubmitted == [owner |-> NoBuffer, id |-> 0, accepted |-> FALSE]

UploadInit ==
  /\ Init
  /\ m_activeChunks = [q \in Queues |-> <<>>] /\ m_chunkPool = <<>>
  /\ chunk = [c \in {} |-> 0]
  /\ completedVersion = [r \in Recorders |-> 0]
  /\ submitted = [r \in Recorders |-> NotSubmitted]
  /\ reads = [b \in Buffers |-> <<>>]
-----------------------------------------------------------------------------
(* recycleMatchingActiveChunks: the active chunks of owner go to the pool.  *)
Recycle(q, owner, version, resetAllocated) ==
  LET isOwned == {c \in DOMAIN chunk : chunk[c].owner = owner}
      owned == Only(m_activeChunks[q], isOwned)
  IN
  /\ m_activeChunks' = [m_activeChunks EXCEPT ![q] = Only(@, DOMAIN chunk \ isOwned)]
  /\ m_chunkPool' = m_chunkPool \o owned
  /\ chunk' = [c \in DOMAIN chunk |->
                 IF c \in Range(owned)
                 THEN [chunk[c] EXCEPT !.owner = NoBuffer, !.version = version,
                                       !.allocated = IF resetAllocated THEN 0 ELSE @]
                 ELSE chunk[c]]

KeepChunks == UNCHANGED <<m_activeChunks, m_chunkPool, chunk>>

discardNothing(q, owner, reusableVersion) == KeepChunks   \* mutant: the chunks stay active
discardChunks(q, owner, reusableVersion) ==
  IF owner = NoBuffer THEN KeepChunks ELSE Recycle(q, owner, reusableVersion, TRUE)

submitCompleted(q, owner, id) ==     \* mutant: the version is not the submission that reads
  Recycle(q, owner, m_lastFinishedID[q], FALSE)
submitChunks(q, owner, id) == Recycle(q, owner, id, FALSE)

(* Copies of b that are no longer to be executed read nothing.             *)
Forget(b) == reads' = IF b = NoBuffer THEN reads ELSE [reads EXCEPT ![b] = <<>>]
-----------------------------------------------------------------------------
(* CommandList: the steps of VulkanQueue and what they do to the chunks.    *)

Discards(r, fin) ==
  /\ discardChunks(QueueOf[r], m_currentCmdBuf[r], fin)
  /\ Forget(m_currentCmdBuf[r])
  /\ UNCHANGED <<completedVersion, submitted>>

Drops(r, fin) == (OpenDrop(r, fin) \/ OpenFails(r, fin) \/ CloseFails(r, fin)) /\ Discards(r, fin)

Opens(r) ==
  /\ \/ \E fin \in updateLastFinishedID(QueueOf[r]), b \in Buffers \cup {NoBuffer} :
          getOrCreateDirectCommandBuffer(r, fin, b)
     \/ \E b \in Buffers \cup {NoBuffer} : getOrCreateWorkerCommandBuffer(r, b)
     \/ OpenBegin(r) \/ Close(r)
  /\ UNCHANGED uploadVars

(* prepareUploadStaging: polls the queue, then suballocateBuffer.           *)
StagePoll(r, fin) ==
  /\ m_isRecording[r] /\ exec[r].at = "idle"
  /\ fin \in updateLastFinishedID(QueueOf[r])
  /\ m_lastFinishedID' = [m_lastFinishedID EXCEPT ![QueueOf[r]] = fin]
  /\ completedVersion' = [completedVersion EXCEPT ![r] = fin]
  /\ Goto(r, "stage")
  /\ UNCHANGED <<m_lastSubmittedID, m_commandBuffersInFlight, m_pool, m_waitSemaphores,
                 m_submissionID, m_recordingWorkerIndex, m_currentCmdBuf, m_isRecording,
                 gpuQueue, gpuDone, m_activeChunks, m_chunkPool, chunk, submitted, reads>>

(* Indices of the active chunks of r's buffer with a free slot, and of the
   pooled chunks of r's queue that may be reused.                          *)
OwnRoom(r) ==
  {i \in DOMAIN m_activeChunks[QueueOf[r]] :
     LET c == m_activeChunks[QueueOf[r]][i] IN
     chunk[c].owner = m_currentCmdBuf[r] /\ chunk[c].allocated < ChunkSize}
ReusableAlways(r) ==                 \* mutant: the version is not compared
  {i \in DOMAIN m_chunkPool : chunk[m_chunkPool[i]].physicalQueue = QueueOf[r]}
Reusable(r) ==
  {i \in DOMAIN m_chunkPool :
     /\ chunk[m_chunkPool[i]].physicalQueue = QueueOf[r]
     /\ chunk[m_chunkPool[i]].version <= completedVersion[r]}

(* The slot is written and a copy from it recorded.                        *)
Grant(r, c, offset) ==
  reads' = [reads EXCEPT ![m_currentCmdBuf[r]] = Append(@, <<c, offset>>)]

Activate(r, c) ==                    \* c becomes the newest active chunk, one slot taken
  /\ m_activeChunks' = [m_activeChunks EXCEPT ![QueueOf[r]] = Append(@, c)]
  /\ chunk' = [k \in DOMAIN chunk \cup {c} |->
                 IF k = c THEN [owner |-> m_currentCmdBuf[r], physicalQueue |-> QueueOf[r],
                                allocated |-> 1, version |-> completedVersion[r]]
                 ELSE chunk[k]]
  /\ Grant(r, c, 0)

SuballocateOwn(r) ==
  LET q == QueueOf[r]
      c == m_activeChunks[q][CHOOSE i \in OwnRoom(r) : \A j \in OwnRoom(r) : j <= i]
  IN
  /\ OwnRoom(r) # {}
  /\ chunk' = [chunk EXCEPT ![c].allocated = @ + 1]
  /\ Grant(r, c, chunk[c].allocated)
  /\ UNCHANGED <<m_activeChunks, m_chunkPool>>

SuballocatePooled(r) ==
  LET i == CHOOSE k \in Reusable(r) : \A j \in Reusable(r) : k <= j IN
  /\ OwnRoom(r) = {} /\ Reusable(r) # {}
  /\ Activate(r, m_chunkPool[i])
  /\ m_chunkPool' = RemoveAt(m_chunkPool, i)

SuballocateNew(r) ==
  /\ OwnRoom(r) = {} /\ Reusable(r) = {}
  /\ \E c \in Chunks \ DOMAIN chunk : Activate(r, c)
  /\ UNCHANGED m_chunkPool

SuballocateFails(r) ==               \* createBuffer
  OwnRoom(r) = {} /\ Reusable(r) = {} /\ KeepChunks /\ UNCHANGED reads

suballocateBuffer(r) ==
  /\ exec[r].at = "stage"
  /\ SuballocateOwn(r) \/ SuballocatePooled(r) \/ SuballocateNew(r) \/ SuballocateFails(r)
  /\ completedVersion' = [completedVersion EXCEPT ![r] = 0]
  /\ Goto(r, "idle")
  /\ UNCHANGED <<m_lastSubmittedID, m_lastFinishedID, m_commandBuffersInFlight, m_pool,
                 m_waitSemaphores, m_submissionID, m_recordingWorkerIndex, m_currentCmdBuf,
                 m_isRecording, gpuQueue, gpuDone, submitted>>
-----------------------------------------------------------------------------
(* executeCommandLists: submit(), then the bookkeeping of the chunks.       *)

After(r, withList) ==
  IF SubmittedBuffer(r, withList) = NoBuffer THEN NotExecuting
  ELSE [NotExecuting EXCEPT !.at = "book"]

Submitted(r, withList, accepted) ==
  /\ submitted' = IF SubmittedBuffer(r, withList) = NoBuffer THEN submitted
                  ELSE [submitted EXCEPT ![r] =
                          [owner |-> SubmittedBuffer(r, withList), accepted |-> accepted,
                           id |-> m_lastSubmittedID'[QueueOf[r]]]]
  /\ UNCHANGED <<m_activeChunks, m_chunkPool, chunk, completedVersion>>

Submits(r, withList) ==
  \/ /\ \E valid \in BOOLEAN : SubmitRefused(r, withList, valid, After(r, withList))
     /\ Submitted(r, withList, FALSE) /\ UNCHANGED reads
  \/ /\ SubmitRejected(r, withList, After(r, withList))
     /\ Submitted(r, withList, FALSE) /\ Forget(SubmittedBuffer(r, withList))
  \/ /\ SubmitAccepted(r, withList, After(r, withList))
     /\ Submitted(r, withList, TRUE) /\ UNCHANGED reads

Booked(r) ==
  /\ exec[r].at = "book"
  /\ submitted' = [submitted EXCEPT ![r] = NotSubmitted]
  /\ Goto(r, "idle")
  /\ UNCHANGED <<m_lastSubmittedID, m_commandBuffersInFlight, m_pool, m_waitSemaphores,
                 m_submissionID, m_recordingWorkerIndex, m_currentCmdBuf, m_isRecording,
                 gpuQueue, gpuDone, completedVersion, reads>>

BookAccepted(r) ==
  /\ submitted[r].accepted
  /\ submitChunks(QueueOf[r], submitted[r].owner, submitted[r].id)
  /\ Booked(r) /\ UNCHANGED m_lastFinishedID

(* A list that kept its buffer (ownerStillRecorded) keeps its chunks.       *)
BookRejected(r, fin) ==
  /\ ~ submitted[r].accepted
  /\ fin \in updateLastFinishedID(QueueOf[r])
  /\ m_lastFinishedID' = [m_lastFinishedID EXCEPT ![QueueOf[r]] = fin]
  /\ IF m_currentCmdBuf[r] = submitted[r].owner THEN KeepChunks
     ELSE discardChunks(QueueOf[r], submitted[r].owner, fin)
  /\ Booked(r)
-----------------------------------------------------------------------------
(* external: the copies of a finished submission have been made.           *)
Finishes(q) ==
  /\ GpuFinish(q)
  /\ Forget(Head(gpuQueue[q]).buffer)
  /\ UNCHANGED <<m_activeChunks, m_chunkPool, chunk, completedVersion, submitted>>

UploadNext ==
  \/ \E r \in Recorders :
       \/ \E fin \in 0 .. SubmissionLimit : Drops(r, fin) \/ StagePoll(r, fin) \/ BookRejected(r, fin)
       \/ Opens(r) \/ suballocateBuffer(r) \/ BookAccepted(r)
       \/ Executes(r) /\ UNCHANGED uploadVars
       \/ \E withList \in BOOLEAN : Submits(r, withList)
  \/ \E q \in Queues : Finishes(q) \/ (Completion(q) /\ UNCHANGED uploadVars)

UploadSpec == UploadInit /\ [][UploadNext]_vars
-----------------------------------------------------------------------------
(* Buffers whose copies are still to be made: recorded into, or submitted
   and not finished.                                                       *)
Live == Held \cup Executing

(* Staged data is kept until the GPU has read it: no slot is handed out a
   second time while a live command buffer has a copy that reads it.       *)
StagedDataKept ==
  /\ \A b \in Live : IsInjective(reads[b])
  /\ \A a, b \in Live : a # b => Range(reads[a]) \cap Range(reads[b]) = {}

(* A chunk is active or pooled and not both, and an active one belongs to a
   buffer some list holds or some executeCommandLists is about to book: no
   outcome of open, close or submit strands staging memory.                *)
NoChunkStranded ==
  /\ \A c \in DOMAIN chunk :
       Cardinality({q \in Queues : c \in Range(m_activeChunks[q])})
         + (IF c \in Range(m_chunkPool) THEN 1 ELSE 0) = 1
  /\ \A q \in Queues : \A c \in Range(m_activeChunks[q]) :
       \/ chunk[c].owner \in Held
       \/ \E r \in Recorders : exec[r].at = "book" /\ submitted[r].owner = chunk[c].owner
=============================================================================
