------------------------- MODULE UploadManagerProofs -------------------------
(***************************************************************************)
(* Proofs about UploadManager for every set of queues, recorders, command  *)
(* buffers and staging chunks, every chunk size and every largest          *)
(* submission id.                                                          *)
(*                                                                         *)
(* The manager takes the steps of the queue, so the invariant of           *)
(* VulkanQueueProofs (IInv) holds here too.  StoreInv says where chunks    *)
(* are and who claims them, and gives NoChunkStranded.  DataInv says what  *)
(* the recorded copies read and where a submitted buffer waits until its   *)
(* chunks are booked, and gives StagedDataKept.                            *)
(***************************************************************************)
EXTENDS UploadManager, VulkanQueueProofs

Fields == [owner : Buffers \cup {NoBuffer}, physicalQueue : Queues, allocated : 0 .. ChunkSize,
           version : 0 .. SubmissionLimit]
Outcomes == [owner : Buffers \cup {NoBuffer}, id : 0 .. SubmissionLimit, accepted : BOOLEAN]

(* The types of the manager's variables.                                   *)
UploadShape ==
  /\ m_activeChunks \in [Queues -> Seq(Chunks)] /\ m_chunkPool \in Seq(Chunks)
  /\ DOMAIN chunk \subseteq Chunks /\ chunk \in [DOMAIN chunk -> Fields]
  /\ completedVersion \in [Recorders -> 0 .. SubmissionLimit]
  /\ submitted \in [Recorders -> Outcomes]
  /\ reads \in [Buffers -> Seq(Slots)]

(* A chunk is in one place, once: among the active chunks of its queue,    *)
(* where it has an owner, or in the pool, where it has none.               *)
ChunksOK ==
  /\ \A q \in Queues : \A i \in DOMAIN m_activeChunks[q] :
       /\ m_activeChunks[q][i] \in DOMAIN chunk
       /\ chunk[m_activeChunks[q][i]].physicalQueue = q
       /\ chunk[m_activeChunks[q][i]].owner # NoBuffer
  /\ \A i \in DOMAIN m_chunkPool :
       m_chunkPool[i] \in DOMAIN chunk /\ chunk[m_chunkPool[i]].owner = NoBuffer
  /\ \A q \in Queues : \A i, j \in DOMAIN m_activeChunks[q] :
       m_activeChunks[q][i] = m_activeChunks[q][j] => i = j
  /\ \A i, j \in DOMAIN m_chunkPool : m_chunkPool[i] = m_chunkPool[j] => i = j
  /\ \A c \in DOMAIN chunk :
       \/ \E i \in DOMAIN m_activeChunks[chunk[c].physicalQueue] : m_activeChunks[chunk[c].physicalQueue][i] = c
       \/ \E i \in DOMAIN m_chunkPool : m_chunkPool[i] = c

(* The recorder's list holds the buffer, or its call is about to book what *)
(* became of it.                                                           *)
Claims(r, b) == m_currentCmdBuf[r] = b \/ (exec[r].at = "book" /\ submitted[r].owner = b)

(* An active chunk is claimed by a recorder of its queue.                  *)
OwnersOK ==
  \A c \in DOMAIN chunk : chunk[c].owner # NoBuffer =>
    \E r \in Recorders : QueueOf[r] = chunk[c].physicalQueue /\ Claims(r, chunk[c].owner)

(* A list that waits for its buffer has none, one that records has one,    *)
(* and a call books what became of some buffer.                            *)
CallOK(r) ==
  /\ exec[r].at = "open" => m_currentCmdBuf[r] = NoBuffer
  /\ exec[r].at \in {"open", "begin", "submit", "book"} => ~m_isRecording[r]
  /\ m_isRecording[r] \/ exec[r].at \in {"begin", "stage"} => m_currentCmdBuf[r] # NoBuffer
  /\ exec[r].at = "book" => submitted[r].owner # NoBuffer

CallsOK == \A r \in Recorders : CallOK(r)

StoreInv == UploadShape /\ ChunksOK /\ OwnersOK /\ CallsOK
-----------------------------------------------------------------------------
(* At most one recorder of a queue records directly: with the leases of    *)
(* the workers, no two recorders of a queue take buffers from one pool.    *)
OneDirectRecorder ==
  \A r, s \in Recorders : r # s /\ QueueOf[r] = QueueOf[s] => WorkerOf[r] # WorkerOf[s]

OnList(b) == \E r \in Recorders : m_currentCmdBuf[r] = b
Flying(b, q) == \E k \in DOMAIN m_commandBuffersInFlight[q] : m_commandBuffersInFlight[q][k] = b
InPool(b, q, w) == \E k \in DOMAIN m_pool[q][w] : m_pool[q][w][k] = b
Unread(b) == OnList(b) \/ \E q \in Queues : \E e \in Range(gpuQueue[q]) : e.buffer = b

(* The buffer is in flight on q or in the pool it came from.               *)
Parked(b, q, w) == (Flying(b, q) /\ m_recordingWorkerIndex[b] = w) \/ InPool(b, q, w)

(* Until its chunks are booked a submitted buffer is out of reach of the   *)
(* other recorders; a refused one is still the recorder's.                 *)
BookOf(r) ==
  exec[r].at = "book" =>
    /\ submitted[r].accepted => /\ Parked(submitted[r].owner, QueueOf[r], WorkerOf[r])
                                /\ m_submissionID[submitted[r].owner] = submitted[r].id
    /\ ~submitted[r].accepted => \/ m_currentCmdBuf[r] = submitted[r].owner
                                 \/ InPool(submitted[r].owner, QueueOf[r], WorkerOf[r])

BookOK == \A r \in Recorders : BookOf(r)

(* What a poll read is true, and a list's buffer bears its worker.         *)
PolledOf(r) ==
  /\ completedVersion[r] <= gpuDone[QueueOf[r]]
  /\ m_currentCmdBuf[r] # NoBuffer => m_recordingWorkerIndex[m_currentCmdBuf[r]] = WorkerOf[r]

PolledOK == \A r \in Recorders : PolledOf(r)

(* The slot is in an active chunk of the buffer, or in a pooled one that   *)
(* waits for the submission that reads it.                                 *)
Backed(b, c, o) ==
  /\ c \in DOMAIN chunk
  /\ \/ chunk[c].owner = b /\ o < chunk[c].allocated
     \/ /\ chunk[c].owner = NoBuffer
        /\ \E e \in Range(gpuQueue[chunk[c].physicalQueue]) : e.buffer = b /\ e.id <= chunk[c].version

(* The copies of two buffers read different chunks, those of one different *)
(* slots, and only buffers that are recorded or under way read any.        *)
ReadsOK ==
  /\ \A b \in Buffers : \A i, j \in DOMAIN reads[b] : reads[b][i] = reads[b][j] => i = j
  /\ \A a, b \in Buffers : \A i \in DOMAIN reads[a], j \in DOMAIN reads[b] :
       reads[a][i][1] = reads[b][j][1] => a = b
  /\ \A b \in Buffers : \A i \in DOMAIN reads[b] :
       /\ Backed(b, reads[b][i][1], reads[b][i][2])
       /\ Unread(b)

DataInv == BookOK /\ PolledOK /\ ReadsOK
-----------------------------------------------------------------------------
(* The operators of the model.                                             *)

(* What becomes of the active chunks of q that b owns when they are        *)
(* recycled: they are pooled with the version v, and every chunk is still  *)
(* in one place.                                                           *)
Settled(q, b, v) ==
  /\ m_activeChunks' \in [Queues -> Seq(Chunks)] /\ m_chunkPool' \in Seq(Chunks)
  /\ DOMAIN chunk' = DOMAIN chunk /\ chunk' \in [DOMAIN chunk -> Fields]
  /\ \A c \in DOMAIN chunk :
       /\ chunk'[c].physicalQueue = chunk[c].physicalQueue
       /\ IF chunk[c].owner = b /\ chunk[c].physicalQueue = q
          THEN chunk'[c].owner = NoBuffer /\ chunk'[c].version = v
          ELSE chunk'[c] = chunk[c]
  /\ ChunksOK'

(* recycleMatchingActiveChunks does this.                                  *)
LEMMA RecycleSettles ==
  ASSUME UploadShape, ChunksOK, NEW q \in Queues, NEW b \in Buffers, NEW v \in 0 .. SubmissionLimit,
         NEW reset \in BOOLEAN, Recycle(q, b, v, reset)
  PROVE  Settled(q, b, v)
<1>0. b # NoBuffer /\ ChunkSize \in Nat
  BY QueueAssumption, UploadAssumption
<1>1. PICK A \in Seq(Chunks) : A = m_activeChunks[q]
  BY DEF UploadShape
<1>2. PICK P \in Seq(Chunks) : P = m_chunkPool
  BY DEF UploadShape
<1>3. PICK D : D = DOMAIN chunk
  OBVIOUS
<1>4. PICK S : S = {c \in D : chunk[c].owner = b}
  OBVIOUS
<1>5. PICK T : T = D \ S
  OBVIOUS
<1>6. PICK out : out = Only(A, S)
  OBVIOUS
<1>7. PICK rest : rest = Only(A, T)
  OBVIOUS
<1>8. /\ m_activeChunks' = [m_activeChunks EXCEPT ![q] = rest]
      /\ m_chunkPool' = P \o out
      /\ chunk' = [c \in D |->
                    IF c \in Range(out)
                    THEN [chunk[c] EXCEPT !.owner = NoBuffer, !.version = v,
                                          !.allocated = IF reset THEN 0 ELSE @]
                    ELSE chunk[c]]
  BY <1>1, <1>2, <1>3, <1>4, <1>5, <1>6, <1>7 DEF Recycle
<1>9. \A i, j \in DOMAIN A : A[i] = A[j] => i = j
  BY <1>1 DEF ChunksOK
<1>10. /\ out \in Seq(Chunks)
       /\ \A i \in DOMAIN out : out[i] \in S /\ \E k \in DOMAIN A : out[i] = A[k]
       /\ \A k \in DOMAIN A : A[k] \in S => \E i \in DOMAIN out : out[i] = A[k]
       /\ \A j, k \in DOMAIN out : out[j] = out[k] => j = k
  <2>1. Only(A, S) \in Seq(Chunks)
    BY OnlyFacts
  <2>2. \A i \in DOMAIN Only(A, S) : Only(A, S)[i] \in S /\ \E k \in DOMAIN A : Only(A, S)[i] = A[k]
    BY OnlyFacts
  <2>3. \A k \in DOMAIN A : A[k] \in S => \E i \in DOMAIN Only(A, S) : Only(A, S)[i] = A[k]
    BY OnlyFacts
  <2>4. \A j, k \in DOMAIN Only(A, S) : Only(A, S)[j] = Only(A, S)[k] => j = k
    BY <1>9, OnlyFacts
  <2> QED BY <1>6, <2>1, <2>2, <2>3, <2>4
<1>11. /\ rest \in Seq(Chunks)
       /\ \A i \in DOMAIN rest : rest[i] \in T /\ \E k \in DOMAIN A : rest[i] = A[k]
       /\ \A k \in DOMAIN A : A[k] \in T => \E i \in DOMAIN rest : rest[i] = A[k]
       /\ \A j, k \in DOMAIN rest : rest[j] = rest[k] => j = k
  <2>1. Only(A, T) \in Seq(Chunks)
    BY OnlyFacts
  <2>2. \A i \in DOMAIN Only(A, T) : Only(A, T)[i] \in T /\ \E k \in DOMAIN A : Only(A, T)[i] = A[k]
    BY OnlyFacts
  <2>3. \A k \in DOMAIN A : A[k] \in T => \E i \in DOMAIN Only(A, T) : Only(A, T)[i] = A[k]
    BY OnlyFacts
  <2>4. \A j, k \in DOMAIN Only(A, T) : Only(A, T)[j] = Only(A, T)[k] => j = k
    BY <1>9, OnlyFacts
  <2> QED BY <1>7, <2>1, <2>2, <2>3, <2>4
<1>12. \A c \in D : chunk[c] \in Fields
  BY <1>3 DEF UploadShape
<1>13. \A k \in DOMAIN A : A[k] \in D /\ chunk[A[k]].physicalQueue = q
  BY <1>1, <1>3 DEF ChunksOK
<1>14. ASSUME NEW c \in D
       PROVE  c \in Range(out) <=> (chunk[c].owner = b /\ chunk[c].physicalQueue = q)
  <2>1. ASSUME c \in Range(out) PROVE chunk[c].owner = b /\ chunk[c].physicalQueue = q
    <3>1. PICK i \in DOMAIN out : out[i] = c
      BY <2>1 DEF Range
    <3> QED BY <1>4, <1>10, <1>13, <3>1
  <2>2. ASSUME chunk[c].owner = b, chunk[c].physicalQueue = q PROVE c \in Range(out)
    <3>1. PICK i \in DOMAIN A : A[i] = c
      BY <1>0, <1>1, <1>3, <2>2 DEF ChunksOK
    <3>2. \E j \in DOMAIN out : out[j] = c
      BY <1>4, <1>10, <2>2, <3>1
    <3> QED BY <3>2 DEF Range
  <2> QED BY <2>1, <2>2
<1>15. ASSUME NEW c \in D
       PROVE  /\ chunk'[c] \in Fields /\ chunk'[c].physicalQueue = chunk[c].physicalQueue
              /\ IF chunk[c].owner = b /\ chunk[c].physicalQueue = q
                 THEN chunk'[c].owner = NoBuffer /\ chunk'[c].version = v
                 ELSE chunk'[c] = chunk[c]
  <2>1. CASE c \in Range(out)
    <3>1. PICK n \in 0 .. ChunkSize : n = IF reset THEN 0 ELSE chunk[c].allocated
      BY <1>0, <1>12 DEF Fields
    <3>2. PICK mid : mid = [chunk[c] EXCEPT !.owner = NoBuffer]
      OBVIOUS
    <3>3. mid \in Fields /\ mid.owner = NoBuffer /\ mid.physicalQueue = chunk[c].physicalQueue
      BY <1>12, <3>2 DEF Fields
    <3>4. PICK low : low = [mid EXCEPT !.version = v]
      OBVIOUS
    <3>5. low \in Fields /\ low.owner = NoBuffer /\ low.version = v /\ low.physicalQueue = chunk[c].physicalQueue
      BY <3>3, <3>4 DEF Fields
    <3>6. PICK new : new = [low EXCEPT !.allocated = n]
      OBVIOUS
    <3>7. new \in Fields /\ new.owner = NoBuffer /\ new.version = v /\ new.physicalQueue = chunk[c].physicalQueue
      BY <3>1, <3>5, <3>6 DEF Fields
    <3>8. chunk'[c] = new
      BY <1>8, <1>12, <2>1, <3>1, <3>2, <3>4, <3>6 DEF Fields
    <3> QED BY <1>14, <2>1, <3>7, <3>8
  <2>2. CASE c \notin Range(out)
    BY <1>8, <1>12, <1>14, <2>2
  <2> QED BY <2>1, <2>2
<1>16. DOMAIN chunk' = D /\ chunk' \in [D -> Fields]
  <2>1. DOMAIN chunk' = D /\ chunk' = [c \in D |-> chunk'[c]]
    BY <1>8
  <2> QED BY <1>15, <2>1
<1>17. /\ m_activeChunks' \in [Queues -> Seq(Chunks)]
       /\ \A p \in Queues : m_activeChunks'[p] = IF p = q THEN rest ELSE m_activeChunks[p]
  BY <1>8, <1>11 DEF UploadShape
<1>18. PICK pool : pool = P \o out
  OBVIOUS
<1>19. /\ pool \in Seq(Chunks)
       /\ DOMAIN pool = 1 .. Len(P) + Len(out) /\ Len(P) \in Nat /\ Len(out) \in Nat
       /\ DOMAIN P = 1 .. Len(P) /\ DOMAIN out = 1 .. Len(out)
       /\ \A i \in 1 .. Len(P) + Len(out) : pool[i] = IF i <= Len(P) THEN P[i] ELSE out[i - Len(P)]
  BY <1>10, <1>18
<1>20. /\ \A i \in DOMAIN pool : \/ i \in DOMAIN P /\ pool[i] = P[i]
                                 \/ i \notin DOMAIN P /\ i - Len(P) \in DOMAIN out /\ pool[i] = out[i - Len(P)]
       /\ \A i \in DOMAIN P : i \in DOMAIN pool /\ pool[i] = P[i]
       /\ \A i \in DOMAIN out : i + Len(P) \in DOMAIN pool /\ pool[i + Len(P)] = out[i]
       /\ \A i, j \in DOMAIN pool : i - Len(P) = j - Len(P) => i = j
  BY <1>19
<1>21. \A i \in DOMAIN P : P[i] \in D /\ chunk[P[i]].owner = NoBuffer
  BY <1>2, <1>3 DEF ChunksOK
<1>22. m_chunkPool' = pool
  BY <1>8, <1>18
<1>23. ChunksOK'
  <2>1. ASSUME NEW p \in Queues, NEW i \in DOMAIN m_activeChunks'[p], NEW c, c = m_activeChunks'[p][i]
        PROVE  c \in DOMAIN chunk' /\ chunk'[c].physicalQueue = p /\ chunk'[c].owner # NoBuffer
    <3>1. CASE p = q
      <4>1. rest[i] = c /\ i \in DOMAIN rest
        BY <1>17, <2>1, <3>1
      <4>2. c \in T /\ \E k \in DOMAIN A : A[k] = c
        BY <1>11, <4>1
      <4>3. c \in D /\ chunk[c].physicalQueue = q /\ chunk[c].owner # NoBuffer /\ chunk[c].owner # b
        BY <1>1, <1>3, <1>4, <1>5, <4>2 DEF ChunksOK
      <4> QED BY <1>15, <1>16, <3>1, <4>3
    <3>2. CASE p # q
      <4>1. i \in DOMAIN m_activeChunks[p] /\ c = m_activeChunks[p][i]
        BY <1>17, <2>1, <3>2
      <4>2. c \in D /\ chunk[c].physicalQueue = p /\ chunk[c].owner # NoBuffer
        BY <1>3, <4>1 DEF ChunksOK
      <4> QED BY <1>15, <1>16, <3>2, <4>2
    <3> QED BY <3>1, <3>2
  <2>2. ASSUME NEW i \in DOMAIN pool PROVE pool[i] \in D /\ chunk'[pool[i]].owner = NoBuffer
    <3>1. CASE i \in DOMAIN P /\ pool[i] = P[i]
      BY <1>0, <1>15, <1>21, <3>1
    <3>2. CASE i - Len(P) \in DOMAIN out /\ pool[i] = out[i - Len(P)]
      <4>1. pool[i] \in Range(out) /\ pool[i] \in D
        BY <1>4, <1>10, <3>2 DEF Range
      <4> QED BY <1>14, <1>15, <4>1
    <3> QED BY <1>20, <3>1, <3>2
  <2>3. \A p \in Queues : \A i, j \in DOMAIN m_activeChunks'[p] :
          m_activeChunks'[p][i] = m_activeChunks'[p][j] => i = j
    BY <1>11, <1>17 DEF ChunksOK
  <2>4. ASSUME NEW i \in DOMAIN pool, NEW j \in DOMAIN pool, pool[i] = pool[j] PROVE i = j
    <3>1. \A k \in DOMAIN P, m \in DOMAIN out : P[k] # out[m]
      BY <1>0, <1>4, <1>10, <1>21
    <3>2. \A k, m \in DOMAIN P : P[k] = P[m] => k = m
      BY <1>2 DEF ChunksOK
    <3>3. CASE i \in DOMAIN P
      <4>1. pool[i] = P[i] /\ (j \in DOMAIN P => pool[j] = P[j])
        BY <1>20, <3>3
      <4>2. j \in DOMAIN P
        <5> SUFFICES ASSUME j \notin DOMAIN P PROVE FALSE
          OBVIOUS
        <5>1. j - Len(P) \in DOMAIN out /\ pool[j] = out[j - Len(P)]
          BY <1>20
        <5> QED BY <2>4, <3>1, <3>3, <4>1, <5>1
      <4> QED BY <2>4, <3>2, <3>3, <4>1, <4>2
    <3>4. CASE i \notin DOMAIN P
      <4>1. i - Len(P) \in DOMAIN out /\ pool[i] = out[i - Len(P)]
        BY <1>20, <3>4
      <4>2. j \notin DOMAIN P
        BY <1>20, <2>4, <3>1, <4>1
      <4>3. j - Len(P) \in DOMAIN out /\ pool[j] = out[j - Len(P)]
        BY <1>20, <4>2
      <4>4. i - Len(P) = j - Len(P)
        BY <1>10, <2>4, <4>1, <4>3
      <4> QED BY <1>20, <4>4
    <3> QED BY <3>3, <3>4
  <2>5. ASSUME NEW c \in D
        PROVE  \/ \E i \in DOMAIN m_activeChunks'[chunk'[c].physicalQueue] :
                    m_activeChunks'[chunk'[c].physicalQueue][i] = c
               \/ \E i \in DOMAIN pool : pool[i] = c
    <3>1. PICK p \in Queues : p = chunk[c].physicalQueue /\ p = chunk'[c].physicalQueue
      BY <1>12, <1>15 DEF Fields
    <3>2. CASE \E i \in DOMAIN P : P[i] = c
      BY <1>20, <3>2
    <3>3. CASE \E i \in DOMAIN m_activeChunks[p] : m_activeChunks[p][i] = c
      <4>1. CASE p = q
        <5>1. PICK i \in DOMAIN A : A[i] = c
          BY <1>1, <3>3, <4>1
        <5>2. CASE c \in S
          <6>1. PICK j \in DOMAIN out : out[j] = c
            BY <1>10, <5>1, <5>2
          <6> QED BY <1>20, <6>1
        <5>3. CASE c \in T
          <6>1. \E j \in DOMAIN rest : rest[j] = c
            BY <1>11, <5>1, <5>3
          <6> QED BY <1>17, <3>1, <4>1, <6>1
        <5> QED BY <1>5, <5>2, <5>3
      <4>2. CASE p # q
        BY <1>17, <3>1, <3>3, <4>2
      <4> QED BY <4>1, <4>2
    <3> QED BY <1>2, <1>3, <3>1, <3>2, <3>3 DEF ChunksOK
  <2>6. DOMAIN chunk' = D
    BY <1>16
  <2> QED BY <1>22, <2>1, <2>2, <2>3, <2>4, <2>5, <2>6 DEF ChunksOK
<1> QED BY <1>3, <1>15, <1>16, <1>17, <1>19, <1>22, <1>23 DEF Settled

(* RemoveAt takes one element out.                                         *)
LEMMA RemoveAtFacts ==
  ASSUME NEW B, NEW s \in Seq(B), NEW i \in DOMAIN s, NEW t, t = RemoveAt(s, i),
         \A j, k \in DOMAIN s : s[j] = s[k] => j = k
  PROVE  /\ t \in Seq(B)
         /\ \A k \in DOMAIN t : \E m \in DOMAIN s : m # i /\ t[k] = s[m]
         /\ \A m \in DOMAIN s : m # i => \E k \in DOMAIN t : t[k] = s[m]
         /\ \A j, k \in DOMAIN t : t[j] = t[k] => j = k
<1>1. PICK n \in Nat : n = Len(s)
  OBVIOUS
<1>2. DOMAIN s = 1 .. n /\ i \in 1 .. n
  BY <1>1
<1>3. PICK front : front = SubSeq(s, 1, i - 1)
  OBVIOUS
<1>4. PICK back : back = SubSeq(s, i + 1, n)
  OBVIOUS
<1>5. front \in Seq(B) /\ Len(front) = i - 1 /\ \A k \in 1 .. i - 1 : front[k] = s[k]
  <2>1. SubSeq(s, 1, i - 1) \in Seq(B) /\ DOMAIN SubSeq(s, 1, i - 1) = 1 .. i - 1
    BY <1>1, <1>2
  <2>2. \A k \in 1 .. i - 1 : SubSeq(s, 1, i - 1)[k] = s[k]
    BY <1>1, <1>2
  <2>3. i - 1 \in Nat
    BY <1>2
  <2> QED BY <1>3, <2>1, <2>2, <2>3
<1>6. back \in Seq(B) /\ Len(back) = n - i /\ \A k \in 1 .. n - i : back[k] = s[k + i]
  <2>1. SubSeq(s, i + 1, n) \in Seq(B) /\ DOMAIN SubSeq(s, i + 1, n) = 1 .. n - i
    BY <1>1, <1>2
  <2>2. \A k \in 1 .. n - i : SubSeq(s, i + 1, n)[k] = s[k + i]
    BY <1>1, <1>2
  <2>3. PICK m \in Nat : m = n - i
    BY <1>2
  <2>4. back \in Seq(B) /\ DOMAIN back = 1 .. m
    BY <1>4, <2>1, <2>3
  <2>5. Len(back) = m
    BY <2>4
  <2> QED BY <1>4, <2>2, <2>3, <2>4, <2>5
<1>7. t = front \o back
  BY <1>1, <1>3, <1>4 DEF RemoveAt
<1>8. t \in Seq(B) /\ Len(t) = n - 1 /\ DOMAIN t = 1 .. n - 1
  <2>1. t \in Seq(B) /\ Len(t) = Len(front) + Len(back)
    BY <1>5, <1>6, <1>7
  <2>2. Len(t) = n - 1
    BY <1>2, <1>5, <1>6, <2>1
  <2> QED BY <2>1, <2>2
<1>9. \A k \in 1 .. n - 1 : t[k] = IF k <= i - 1 THEN front[k] ELSE back[k - (i - 1)]
  BY <1>1, <1>2, <1>5, <1>6, <1>7
<1>10. ASSUME NEW k \in 1 .. n - 1 PROVE t[k] = IF k < i THEN s[k] ELSE s[k + 1]
  <2>1. CASE k < i
    <3>1. k \in 1 .. i - 1 /\ k <= i - 1
      BY <1>2, <2>1
    <3> QED BY <1>5, <1>9, <2>1, <3>1
  <2>2. CASE ~(k < i)
    <3>1. k - (i - 1) \in 1 .. n - i /\ (k - (i - 1)) + i = k + 1 /\ ~(k <= i - 1)
      BY <1>2, <2>2
    <3> QED BY <1>6, <1>9, <2>2, <3>1
  <2> QED BY <2>1, <2>2
<1>11. \A k \in DOMAIN t : \E m \in DOMAIN s : m # i /\ t[k] = s[m] /\ (k < i => m = k) /\ (~(k < i) => m = k + 1)
  <2> TAKE k \in DOMAIN t
  <2>1. CASE k < i
    BY <1>2, <1>8, <1>10, <2>1
  <2>2. CASE ~(k < i)
    <3>1. k + 1 \in DOMAIN s /\ k + 1 # i
      BY <1>2, <1>8, <2>2
    <3> QED BY <1>8, <1>10, <2>2, <3>1
  <2> QED BY <2>1, <2>2
<1>12. ASSUME NEW m \in DOMAIN s, m # i PROVE \E k \in DOMAIN t : t[k] = s[m]
  <2>1. CASE m < i
    <3>1. m \in 1 .. n - 1
      BY <1>2, <2>1
    <3> QED BY <1>8, <1>10, <2>1, <3>1
  <2>2. CASE ~(m < i)
    <3>1. m - 1 \in 1 .. n - 1 /\ ~(m - 1 < i) /\ (m - 1) + 1 = m
      BY <1>2, <1>12, <2>2
    <3> QED BY <1>8, <1>10, <3>1
  <2> QED BY <2>1, <2>2
<1>13. ASSUME NEW j \in DOMAIN t, NEW k \in DOMAIN t, t[j] = t[k]
       PROVE  j = k
  <2>1. PICK a \in DOMAIN s : a # i /\ t[j] = s[a] /\ (j < i => a = j) /\ (~(j < i) => a = j + 1)
    BY <1>11
  <2>2. PICK b \in DOMAIN s : b # i /\ t[k] = s[b] /\ (k < i => b = k) /\ (~(k < i) => b = k + 1)
    BY <1>11
  <2>3. a = b
    BY <1>13, <2>1, <2>2
  <2>4. j \in Nat /\ k \in Nat /\ i \in Nat
    BY <1>2, <1>8
  <2> QED BY <2>1, <2>2, <2>3, <2>4
<1> QED BY <1>8, <1>11, <1>12, <1>13

(* A set of places of a list has a last one.                               *)
LEMMA Largest ==
  ASSUME NEW n \in Nat, NEW S, S \subseteq 1 .. n, S # {}
  PROVE  \E x \in S : \A y \in S : y <= x
<1>1. PICK T : T = {n - x : x \in S}
  OBVIOUS
<1>2. T \in SUBSET Nat /\ T # {}
  <2>1. \A x \in S : n - x \in Nat
    OBVIOUS
  <2> QED BY <1>1, <2>1
<1>3. PICK z \in T : \A y \in T : z <= y
  BY <1>2, Smallest
<1>4. PICK x \in S : z = n - x
  BY <1>1
<1>5. ASSUME NEW y \in S PROVE y <= x
  <2>1. n - x <= n - y
    BY <1>1, <1>3, <1>4
  <2>2. x \in Nat /\ y \in Nat
    OBVIOUS
  <2> QED BY <2>1, <2>2
<1> QED BY <1>5
-----------------------------------------------------------------------------
(* What a suballocation does: slot n of chunk c goes to the recorder's     *)
(* buffer.  The chunk was the buffer's already, was pooled with a version  *)
(* that is complete, or is new.                                            *)
Granted(r, c, n) ==
  /\ m_activeChunks' \in [Queues -> Seq(Chunks)] /\ m_chunkPool' \in Seq(Chunks)
  /\ c \in Chunks /\ n \in 0 .. ChunkSize - 1
  /\ DOMAIN chunk' = DOMAIN chunk \cup {c} /\ chunk' \in [DOMAIN chunk \cup {c} -> Fields]
  /\ \A k \in DOMAIN chunk \ {c} : chunk'[k] = chunk[k]
  /\ chunk'[c].owner = m_currentCmdBuf[r] /\ chunk'[c].physicalQueue = QueueOf[r]
  /\ chunk'[c].allocated = n + 1
  /\ ChunksOK'
  /\ \/ /\ c \in DOMAIN chunk /\ chunk[c].owner = m_currentCmdBuf[r] /\ n = chunk[c].allocated
     \/ /\ c \in DOMAIN chunk /\ chunk[c].owner = NoBuffer /\ chunk[c].physicalQueue = QueueOf[r]
        /\ chunk[c].version <= completedVersion[r]
     \/ c \notin DOMAIN chunk
  /\ reads' = [reads EXCEPT ![m_currentCmdBuf[r]] = Append(@, <<c, n>>)]

(* A chunk that was nowhere among the active chunks becomes active.        *)
LEMMA ActivateGrants ==
  ASSUME UploadShape, ChunksOK, NEW r \in Recorders, m_currentCmdBuf[r] \in Buffers, NEW c \in Chunks,
         Activate(r, c), m_chunkPool' \in Seq(Chunks),
         \A i, j \in DOMAIN m_chunkPool' : m_chunkPool'[i] = m_chunkPool'[j] => i = j,
         \A i \in DOMAIN m_chunkPool' : m_chunkPool'[i] # c /\ \E m \in DOMAIN m_chunkPool : m_chunkPool'[i] = m_chunkPool[m],
         \A m \in DOMAIN m_chunkPool : m_chunkPool[m] # c => \E i \in DOMAIN m_chunkPool' : m_chunkPool'[i] = m_chunkPool[m],
         \/ c \in DOMAIN chunk /\ chunk[c].owner = NoBuffer /\ chunk[c].physicalQueue = QueueOf[r]
              /\ chunk[c].version <= completedVersion[r]
         \/ c \notin DOMAIN chunk
  PROVE  Granted(r, c, 0)
<1>0. NoBuffer \notin Buffers /\ ChunkSize \in Nat /\ ChunkSize >= 1
  BY QueueAssumption, UploadAssumption
<1>1. PICK q \in Queues : q = QueueOf[r]
  BY QueueAssumption
<1>2. PICK b \in Buffers : b = m_currentCmdBuf[r]
  OBVIOUS
<1>3. PICK D : D = DOMAIN chunk
  OBVIOUS
<1>4. PICK v \in 0 .. SubmissionLimit : v = completedVersion[r]
  BY DEF UploadShape
<1>5. PICK A \in Seq(Chunks) : A = m_activeChunks[q]
  BY DEF UploadShape
<1>6. PICK new : new = [owner |-> b, physicalQueue |-> q, allocated |-> 1, version |-> v]
  OBVIOUS
<1>7. new \in Fields /\ new.owner = b /\ new.physicalQueue = q /\ new.allocated = 0 + 1
  BY <1>0, <1>6 DEF Fields
<1>8. chunk' = [k \in D \cup {c} |-> IF k = c THEN new ELSE chunk[k]]
  BY <1>1, <1>2, <1>3, <1>4, <1>6 DEF Activate
<1>9. \A k \in D : chunk[k] \in Fields
  BY <1>3 DEF UploadShape
<1>10. DOMAIN chunk' = D \cup {c} /\ chunk'[c] = new /\ \A k \in D \ {c} : chunk'[k] = chunk[k]
  BY <1>8
<1>11. chunk' \in [D \cup {c} -> Fields]
  BY <1>7, <1>8, <1>9
<1>12. PICK A2 : A2 = Append(A, c)
  OBVIOUS
<1>13. /\ A2 \in Seq(Chunks) /\ DOMAIN A2 = DOMAIN A \cup {Len(A) + 1} /\ Len(A) + 1 \notin DOMAIN A
       /\ A2[Len(A) + 1] = c /\ \A i \in DOMAIN A : A2[i] = A[i]
  BY <1>12
<1>14. /\ m_activeChunks' \in [Queues -> Seq(Chunks)]
       /\ \A p \in Queues : m_activeChunks'[p] = IF p = q THEN A2 ELSE m_activeChunks[p]
  <2>1. m_activeChunks' = [m_activeChunks EXCEPT ![q] = A2]
    BY <1>1, <1>5, <1>12 DEF Activate
  <2> QED BY <1>13, <2>1 DEF UploadShape
<1>15. \A p \in Queues : \A i \in DOMAIN m_activeChunks[p] : m_activeChunks[p][i] # c
  BY DEF ChunksOK
<1>16. ChunksOK'
  <2>1. ASSUME NEW p \in Queues, NEW i \in DOMAIN m_activeChunks'[p], NEW k, k = m_activeChunks'[p][i]
        PROVE  k \in D \cup {c} /\ chunk'[k].physicalQueue = p /\ chunk'[k].owner # NoBuffer
    <3>1. CASE k = c
      <4>1. p = q
        <5> SUFFICES ASSUME p # q PROVE FALSE
          OBVIOUS
        <5>1. m_activeChunks'[p] = m_activeChunks[p]
          BY <1>14
        <5>2. i \in DOMAIN m_activeChunks[p] /\ m_activeChunks[p][i] = c
          BY <2>1, <3>1, <5>1
        <5> QED BY <1>15, <5>2
      <4> QED BY <1>0, <1>7, <1>10, <3>1, <4>1
    <3>2. CASE k # c
      <4>1. \E j \in DOMAIN m_activeChunks[p] : m_activeChunks[p][j] = k
        BY <1>5, <1>13, <1>14, <2>1, <3>2
      <4>2. k \in D /\ chunk[k].physicalQueue = p /\ chunk[k].owner # NoBuffer
        BY <1>3, <4>1 DEF ChunksOK
      <4> QED BY <1>10, <3>2, <4>2
    <3> QED BY <3>1, <3>2
  <2>2. ASSUME NEW i \in DOMAIN m_chunkPool', NEW k, k = m_chunkPool'[i]
        PROVE  k \in D \cup {c} /\ chunk'[k].owner = NoBuffer
    <3>1. k # c /\ \E m \in DOMAIN m_chunkPool : k = m_chunkPool[m]
      BY <2>2
    <3>2. k \in D /\ chunk[k].owner = NoBuffer
      BY <1>3, <3>1 DEF ChunksOK
    <3> QED BY <1>10, <3>1, <3>2
  <2>3. ASSUME NEW p \in Queues, NEW i \in DOMAIN m_activeChunks'[p], NEW j \in DOMAIN m_activeChunks'[p],
               m_activeChunks'[p][i] = m_activeChunks'[p][j]
        PROVE  i = j
    <3>1. \A k, m \in DOMAIN m_activeChunks[p] : m_activeChunks[p][k] = m_activeChunks[p][m] => k = m
      BY DEF ChunksOK
    <3>2. CASE p # q
      <4>1. m_activeChunks'[p] = m_activeChunks[p]
        BY <1>14, <3>2
      <4> QED BY <2>3, <3>1, <4>1
    <3>3. CASE p = q
      <4>1. m_activeChunks'[p] = A2 /\ m_activeChunks[p] = A
        BY <1>5, <1>14, <3>3
      <4>2. \A k \in DOMAIN A : A[k] # c
        BY <1>15, <4>1
      <4> QED BY <1>13, <2>3, <3>1, <4>1, <4>2
    <3> QED BY <3>2, <3>3
  <2>4. ASSUME NEW k \in D \cup {c}
        PROVE  \/ \E i \in DOMAIN m_activeChunks'[chunk'[k].physicalQueue] :
                    m_activeChunks'[chunk'[k].physicalQueue][i] = k
               \/ \E i \in DOMAIN m_chunkPool' : m_chunkPool'[i] = k
    <3>1. CASE k = c
      <4>1. chunk'[k].physicalQueue = q /\ m_activeChunks'[q] = A2
        BY <1>7, <1>10, <1>14, <3>1
      <4> QED BY <1>13, <3>1, <4>1
    <3>2. CASE k # c
      <4>1. k \in D /\ chunk'[k] = chunk[k]
        BY <1>10, <2>4, <3>2
      <4>2. PICK p \in Queues : p = chunk[k].physicalQueue
        BY <1>9, <4>1 DEF Fields
      <4>3. CASE \E i \in DOMAIN m_chunkPool : m_chunkPool[i] = k
        BY <3>2, <4>3
      <4>4. CASE \E i \in DOMAIN m_activeChunks[p] : m_activeChunks[p][i] = k
        <5>1. \E i \in DOMAIN m_activeChunks'[p] : m_activeChunks'[p][i] = k
          BY <1>5, <1>13, <1>14, <4>4
        <5> QED BY <4>1, <4>2, <5>1
      <4> QED BY <1>3, <4>1, <4>2, <4>3, <4>4 DEF ChunksOK
    <3> QED BY <3>1, <3>2
  <2>5. DOMAIN chunk' = D \cup {c}
    BY <1>10
  <2> QED BY <2>1, <2>2, <2>3, <2>4, <2>5 DEF ChunksOK
<1>17. 0 \in 0 .. ChunkSize - 1
  BY <1>0
<1>18. reads' = [reads EXCEPT ![m_currentCmdBuf[r]] = Append(@, <<c, 0>>)]
  BY DEF Activate, Grant
<1> QED BY <1>1, <1>2, <1>3, <1>7, <1>10, <1>11, <1>14, <1>16, <1>17, <1>18 DEF Granted

(* Whichever way suballocateBuffer finds a slot.                           *)
LEMMA SuballocateGrants ==
  ASSUME UploadShape, ChunksOK, NEW r \in Recorders, m_currentCmdBuf[r] \in Buffers,
         SuballocateOwn(r) \/ SuballocatePooled(r) \/ SuballocateNew(r)
  PROVE  \E c, n : Granted(r, c, n)
<1>0. NoBuffer \notin Buffers /\ ChunkSize \in Nat /\ ChunkSize >= 1
  BY QueueAssumption, UploadAssumption
<1>1. PICK q \in Queues : q = QueueOf[r]
  BY QueueAssumption
<1>2. CASE SuballocateOwn(r)
  <2>1. PICK S : S = OwnRoom(r)
    OBVIOUS
  <2>2. PICK A \in Seq(Chunks) : A = m_activeChunks[q]
    BY DEF UploadShape
  <2>3. S # {} /\ S \subseteq 1 .. Len(A) /\ Len(A) \in Nat
    <3>1. S # {}
      BY <1>2, <2>1 DEF SuballocateOwn
    <3>2. S \subseteq DOMAIN A
      BY <1>1, <2>1, <2>2 DEF OwnRoom
    <3> QED BY <3>1, <3>2
  <2>4. PICK i \in S : i = CHOOSE x \in S : \A y \in S : y <= x
    <3>1. \E x \in S : \A y \in S : y <= x
      BY <2>3, Largest
    <3> QED BY <3>1
  <2>5. PICK c : c = A[i]
    OBVIOUS
  <2>6. i \in DOMAIN A /\ chunk[c].owner = m_currentCmdBuf[r] /\ chunk[c].allocated < ChunkSize
    <3>1. i \in OwnRoom(r)
      BY <2>1
    <3> QED BY <1>1, <2>2, <2>5, <3>1 DEF OwnRoom
  <2>7. PICK n : n = chunk[c].allocated
    OBVIOUS
  <2>8. /\ chunk' = [chunk EXCEPT ![c].allocated = n + 1]
        /\ reads' = [reads EXCEPT ![m_currentCmdBuf[r]] = Append(@, <<c, n>>)]
        /\ UNCHANGED <<m_activeChunks, m_chunkPool>>
    <3>1. c = m_activeChunks[QueueOf[r]][CHOOSE x \in OwnRoom(r) : \A y \in OwnRoom(r) : y <= x]
      BY <1>1, <2>1, <2>2, <2>4, <2>5
    <3> QED BY <1>2, <2>7, <3>1 DEF SuballocateOwn, Grant
  <2>9. c \in Chunks /\ c \in DOMAIN chunk /\ chunk[c] \in Fields /\ chunk[c].physicalQueue = q
    BY <2>2, <2>5, <2>6 DEF ChunksOK, UploadShape
  <2>10. n \in 0 .. ChunkSize - 1 /\ n + 1 \in 0 .. ChunkSize
    BY <1>0, <2>6, <2>7, <2>9 DEF Fields
  <2>11. PICK new : new = [chunk[c] EXCEPT !.allocated = n + 1]
    OBVIOUS
  <2>12. new \in Fields /\ new.owner = chunk[c].owner /\ new.physicalQueue = q /\ new.allocated = n + 1
    BY <2>9, <2>10, <2>11 DEF Fields
  <2>13. chunk' = [chunk EXCEPT ![c] = new]
    BY <2>8, <2>11
  <2>14. /\ DOMAIN chunk' = DOMAIN chunk \cup {c} /\ DOMAIN chunk' = DOMAIN chunk
         /\ chunk' \in [DOMAIN chunk \cup {c} -> Fields]
         /\ chunk'[c] = new /\ \A k \in DOMAIN chunk \ {c} : chunk'[k] = chunk[k]
    BY <2>9, <2>12, <2>13 DEF UploadShape
  <2>15. \A k \in DOMAIN chunk : chunk'[k].owner = chunk[k].owner /\ chunk'[k].physicalQueue = chunk[k].physicalQueue
    BY <2>9, <2>12, <2>14
  <2>16. ChunksOK'
    BY <2>8, <2>14, <2>15 DEF ChunksOK
  <2>17. m_activeChunks' \in [Queues -> Seq(Chunks)] /\ m_chunkPool' \in Seq(Chunks)
    BY <2>8 DEF UploadShape
  <2> QED BY <1>1, <2>6, <2>7, <2>8, <2>9, <2>10, <2>12, <2>14, <2>16, <2>17 DEF Granted
<1>3. CASE SuballocatePooled(r)
  <2>1. PICK S : S = Reusable(r)
    OBVIOUS
  <2>2. PICK P \in Seq(Chunks) : P = m_chunkPool
    BY DEF UploadShape
  <2>3. S # {} /\ S \subseteq Nat
    BY <1>3, <2>1, <2>2 DEF SuballocatePooled, Reusable
  <2>4. PICK i \in S : i = CHOOSE x \in S : \A y \in S : x <= y
    <3>1. \E x \in S : \A y \in S : x <= y
      BY <2>3, Smallest
    <3> QED BY <3>1
  <2>5. PICK c : c = P[i]
    OBVIOUS
  <2>6. i \in DOMAIN P /\ chunk[c].physicalQueue = QueueOf[r] /\ chunk[c].version <= completedVersion[r]
    <3>1. i \in Reusable(r)
      BY <2>1
    <3> QED BY <2>2, <2>5, <3>1 DEF Reusable
  <2>7. PICK P2 : P2 = RemoveAt(P, i)
    OBVIOUS
  <2>8. Activate(r, c) /\ m_chunkPool' = P2
    BY <1>3, <2>1, <2>2, <2>4, <2>5, <2>7 DEF SuballocatePooled
  <2>9. \A j, k \in DOMAIN P : P[j] = P[k] => j = k
    BY <2>2 DEF ChunksOK
  <2>10. /\ P2 \in Seq(Chunks)
         /\ \A k \in DOMAIN P2 : \E m \in DOMAIN P : m # i /\ P2[k] = P[m]
         /\ \A m \in DOMAIN P : m # i => \E k \in DOMAIN P2 : P2[k] = P[m]
         /\ \A j, k \in DOMAIN P2 : P2[j] = P2[k] => j = k
    <3>1. i \in DOMAIN P
      BY <2>6
    <3>2. P2 \in Seq(Chunks)
      BY <2>7, <2>9, <3>1, RemoveAtFacts
    <3>3. \A k \in DOMAIN P2 : \E m \in DOMAIN P : m # i /\ P2[k] = P[m]
      BY <2>7, <2>9, <3>1, RemoveAtFacts
    <3>4. \A m \in DOMAIN P : m # i => \E k \in DOMAIN P2 : P2[k] = P[m]
      BY <2>7, <2>9, <3>1, RemoveAtFacts
    <3>5. \A j, k \in DOMAIN P2 : P2[j] = P2[k] => j = k
      BY <2>7, <2>9, <3>1, RemoveAtFacts
    <3> QED BY <3>2, <3>3, <3>4, <3>5
  <2>11. c \in Chunks /\ c \in DOMAIN chunk /\ chunk[c].owner = NoBuffer
    BY <2>2, <2>5, <2>6 DEF ChunksOK
  <2>12. \A k \in DOMAIN P2 : P2[k] # c /\ \E m \in DOMAIN P : P2[k] = P[m]
    BY <2>5, <2>6, <2>9, <2>10
  <2>13. \A m \in DOMAIN P : P[m] # c => \E k \in DOMAIN P2 : P2[k] = P[m]
    BY <2>5, <2>10
  <2>14. Granted(r, c, 0)
    BY <2>2, <2>6, <2>8, <2>10, <2>11, <2>12, <2>13, ActivateGrants
  <2> QED BY <2>14
<1>4. CASE SuballocateNew(r)
  <2>1. PICK c \in Chunks \ DOMAIN chunk : Activate(r, c)
    BY <1>4 DEF SuballocateNew
  <2>2. PICK P \in Seq(Chunks) : P = m_chunkPool
    BY DEF UploadShape
  <2>3. m_chunkPool' = P
    BY <1>4, <2>2 DEF SuballocateNew
  <2>4. \A j, k \in DOMAIN P : P[j] = P[k] => j = k
    BY <2>2 DEF ChunksOK
  <2>5. \A k \in DOMAIN P : P[k] # c
    BY <2>1, <2>2 DEF ChunksOK
  <2>6. Granted(r, c, 0)
    BY <2>1, <2>2, <2>3, <2>4, <2>5, ActivateGrants
  <2> QED BY <2>6
<1> QED BY <1>2, <1>3, <1>4
-----------------------------------------------------------------------------
(* Chunks and their owners.                                                *)

(* What a step of another recorder leaves to s.                            *)
Still(s) ==
  /\ exec'[s] = exec[s] /\ submitted'[s] = submitted[s] /\ m_currentCmdBuf'[s] = m_currentCmdBuf[s]
  /\ m_isRecording'[s] = m_isRecording[s] /\ completedVersion'[s] = completedVersion[s]

(* What the recorder claims after the step.                                *)
WillClaim(r, b) == m_currentCmdBuf'[r] = b \/ (exec'[r].at = "book" /\ submitted'[r].owner = b)

(* The chunk has its owner from r's step, or had it before and does not    *)
(* depend on what r gave up.                                               *)
ChunkKept(r, c) ==
  chunk'[c].owner # NoBuffer =>
    \/ chunk'[c].physicalQueue = QueueOf[r] /\ WillClaim(r, chunk'[c].owner)
    \/ /\ c \in DOMAIN chunk /\ chunk'[c].owner = chunk[c].owner
       /\ chunk'[c].physicalQueue = chunk[c].physicalQueue
       /\ ~(chunk[c].physicalQueue = QueueOf[r] /\ Claims(r, chunk[c].owner))

(* A recorder's step keeps the chunks in order if these hold.              *)
LEMMA StoreStep ==
  ASSUME StoreInv, UploadShape', ChunksOK', NEW r \in Recorders, \A s \in Recorders \ {r} : Still(s), CallOK(r)',
         \A c \in DOMAIN chunk' : ChunkKept(r, c)
  PROVE  StoreInv'
<1>1. CallsOK'
  <2>1. \A s \in Recorders \ {r} : CallOK(s)'
    BY DEF StoreInv, CallsOK, CallOK, Still
  <2> QED BY <2>1 DEF CallsOK
<1>2. ASSUME NEW c \in DOMAIN chunk', chunk'[c].owner # NoBuffer
      PROVE  \E s \in Recorders : QueueOf[s] = chunk'[c].physicalQueue /\ WillClaim(s, chunk'[c].owner)
  <2>1. CASE chunk'[c].physicalQueue = QueueOf[r] /\ WillClaim(r, chunk'[c].owner)
    BY <2>1
  <2>2. CASE ~(chunk'[c].physicalQueue = QueueOf[r] /\ WillClaim(r, chunk'[c].owner))
    <3>1. /\ c \in DOMAIN chunk /\ chunk'[c].owner = chunk[c].owner
          /\ chunk'[c].physicalQueue = chunk[c].physicalQueue
          /\ ~(chunk[c].physicalQueue = QueueOf[r] /\ Claims(r, chunk[c].owner))
      BY <1>2, <2>2 DEF ChunkKept
    <3>2. PICK s \in Recorders : QueueOf[s] = chunk[c].physicalQueue /\ Claims(s, chunk[c].owner)
      BY <1>2, <3>1 DEF StoreInv, OwnersOK
    <3>3. s # r
      BY <3>1, <3>2
    <3>4. WillClaim(s, chunk[c].owner)
      BY <3>2, <3>3 DEF Claims, WillClaim, Still
    <3> QED BY <3>1, <3>2, <3>4
  <2> QED BY <2>1, <2>2
<1>3. OwnersOK'
  BY <1>2 DEF OwnersOK, Claims, WillClaim
<1> QED BY <1>1, <1>3 DEF StoreInv

(* A step that leaves the chunks alone and gives up no claim.              *)
LEMMA StoreQuiet ==
  ASSUME StoreInv, NEW r \in Recorders, \A s \in Recorders \ {r} : Still(s), CallOK(r)',
         UNCHANGED <<m_activeChunks, m_chunkPool, chunk>>,
         completedVersion' \in [Recorders -> 0 .. SubmissionLimit],
         submitted' \in [Recorders -> Outcomes], reads' \in [Buffers -> Seq(Slots)],
         \A b \in Buffers : Claims(r, b) => WillClaim(r, b)
  PROVE  StoreInv'
<1>1. UploadShape'
  BY DEF StoreInv, UploadShape
<1>2. ChunksOK'
  BY DEF StoreInv, ChunksOK
<1>3. \A c \in DOMAIN chunk' : ChunkKept(r, c)
  <2> TAKE c \in DOMAIN chunk'
  <2> SUFFICES ASSUME chunk'[c].owner # NoBuffer
               PROVE  \/ chunk'[c].physicalQueue = QueueOf[r] /\ WillClaim(r, chunk'[c].owner)
                      \/ /\ c \in DOMAIN chunk /\ chunk'[c].owner = chunk[c].owner
                         /\ chunk'[c].physicalQueue = chunk[c].physicalQueue
                         /\ ~(chunk[c].physicalQueue = QueueOf[r] /\ Claims(r, chunk[c].owner))
    BY DEF ChunkKept
  <2>1. c \in DOMAIN chunk /\ chunk'[c] = chunk[c] /\ chunk[c] \in Fields
    BY DEF StoreInv, UploadShape
  <2>2. chunk[c].owner \in Buffers
    BY <2>1 DEF Fields
  <2> QED BY <2>1, <2>2
<1> QED BY <1>1, <1>2, <1>3, StoreStep

(* A step of the queue that touches no recorder.                           *)
LEMMA StoreSame ==
  ASSUME StoreInv, UNCHANGED <<m_activeChunks, m_chunkPool, chunk, completedVersion, submitted>>,
         UNCHANGED <<m_currentCmdBuf, m_isRecording, exec>>, reads' \in [Buffers -> Seq(Slots)]
  PROVE  StoreInv'
<1>1. UploadShape'
  BY DEF StoreInv, UploadShape
<1>2. ChunksOK' /\ OwnersOK'
  BY DEF StoreInv, ChunksOK, OwnersOK, Claims
<1>3. CallsOK'
  BY DEF StoreInv, CallsOK, CallOK
<1> QED BY <1>1, <1>2, <1>3 DEF StoreInv

(* Forgetting copies.                                                      *)
LEMMA ForgetShape ==
  ASSUME UploadShape, NEW b \in Buffers \cup {NoBuffer}, Forget(b)
  PROVE  /\ reads' \in [Buffers -> Seq(Slots)]
         /\ \A a \in Buffers : reads'[a] = IF a = b THEN <<>> ELSE reads[a]
<1>1. CASE b = NoBuffer
  BY <1>1, QueueAssumption DEF Forget, UploadShape
<1>2. CASE b \in Buffers
  <2>1. reads' = [reads EXCEPT ![b] = <<>>]
    BY <1>2, QueueAssumption DEF Forget
  <2>2. <<>> \in Seq(Slots)
    OBVIOUS
  <2> QED BY <1>2, <2>1, <2>2 DEF UploadShape
<1> QED BY <1>1, <1>2

(* Where Goto takes a call.                                                *)
LEMMA GotoStep ==
  ASSUME CallType, NEW r \in Recorders, NEW at, Goto(r, at)
  PROVE  exec'[r].at = at /\ \A s \in Recorders \ {r} : exec'[s] = exec[s]
BY DEF Goto, NotExecuting, CallType

(* discardChunks: what b owned is pooled, if there is a b.                 *)
LEMMA DiscardSettles ==
  ASSUME UploadShape, ChunksOK, NEW q \in Queues, NEW b \in Buffers \cup {NoBuffer},
         NEW v \in 0 .. SubmissionLimit, discardChunks(q, b, v)
  PROVE  (b # NoBuffer /\ Settled(q, b, v)) \/ (b = NoBuffer /\ KeepChunks)
<1>1. CASE b = NoBuffer
  BY <1>1 DEF discardChunks
<1>2. CASE b # NoBuffer
  <2>1. Recycle(q, b, v, TRUE) /\ b \in Buffers
    BY <1>2 DEF discardChunks
  <2> QED BY <1>2, <2>1, RecycleSettles
<1> QED BY <1>1, <1>2

(* Chunks that are settled leave the others to their owners.               *)
LEMMA SettledKept ==
  ASSUME UploadShape, NEW r \in Recorders, NEW b \in Buffers \cup {NoBuffer}, NEW v \in 0 .. SubmissionLimit,
         Settled(QueueOf[r], b, v) \/ (b = NoBuffer /\ KeepChunks),
         \A a \in Buffers : Claims(r, a) => a = b \/ WillClaim(r, a)
  PROVE  \A c \in DOMAIN chunk' : ChunkKept(r, c)
<1> SUFFICES ASSUME NEW c \in DOMAIN chunk', chunk'[c].owner # NoBuffer
             PROVE  \/ chunk'[c].physicalQueue = QueueOf[r] /\ WillClaim(r, chunk'[c].owner)
                    \/ /\ c \in DOMAIN chunk /\ chunk'[c].owner = chunk[c].owner
                       /\ chunk'[c].physicalQueue = chunk[c].physicalQueue
                       /\ ~(chunk[c].physicalQueue = QueueOf[r] /\ Claims(r, chunk[c].owner))
  BY DEF ChunkKept
<1>1. /\ c \in DOMAIN chunk /\ chunk'[c] = chunk[c]
      /\ ~(chunk[c].owner = b /\ chunk[c].physicalQueue = QueueOf[r])
  <2>1. CASE Settled(QueueOf[r], b, v)
    <3>1. c \in DOMAIN chunk
      BY <2>1 DEF Settled
    <3>2. IF chunk[c].owner = b /\ chunk[c].physicalQueue = QueueOf[r]
          THEN chunk'[c].owner = NoBuffer /\ chunk'[c].version = v
          ELSE chunk'[c] = chunk[c]
      BY <2>1, <3>1 DEF Settled
    <3> QED BY <3>1, <3>2
  <2>2. CASE b = NoBuffer /\ KeepChunks
    BY <2>2 DEF KeepChunks
  <2> QED BY <2>1, <2>2
<1>2. chunk[c] \in Fields
  BY <1>1 DEF UploadShape
<1>3. chunk[c].owner \in Buffers
  BY <1>1, <1>2 DEF Fields
<1> QED BY <1>1, <1>3

(* Their shape.                                                            *)
LEMMA SettledShape ==
  ASSUME UploadShape, ChunksOK, NEW q, NEW b, NEW v, Settled(q, b, v) \/ (b = NoBuffer /\ KeepChunks),
         completedVersion' \in [Recorders -> 0 .. SubmissionLimit],
         submitted' \in [Recorders -> Outcomes], reads' \in [Buffers -> Seq(Slots)]
  PROVE  UploadShape' /\ ChunksOK'
<1>1. CASE Settled(q, b, v)
  BY <1>1 DEF Settled, UploadShape
<1>2. CASE KeepChunks
  <2>1. UploadShape'
    BY <1>2 DEF KeepChunks, UploadShape
  <2>2. ChunksOK'
    BY <1>2 DEF KeepChunks, ChunksOK
  <2> QED BY <2>1, <2>2
<1> QED BY <1>1, <1>2
-----------------------------------------------------------------------------
(* The steps, for the chunks.                                              *)

(* A list gives up its buffer and its chunks.                              *)
LEMMA DropsStore ==
  ASSUME IInv, StoreInv, NEW r \in Recorders, NEW fin, Drops(r, fin)
  PROVE  StoreInv'
<1>0. Core /\ CallType /\ UploadShape /\ ChunksOK
  BY DEF IInv, StoreInv
<1>1. Drop(r, fin) /\ Discards(r, fin)
  BY DEF Drops, OpenDrop, OpenFails, CloseFails
<1>2. /\ exec[r].at # "book" /\ exec'[r].at \in {"open", "idle"}
      /\ \A s \in Recorders \ {r} : exec'[s] = exec[s]
  <2>1. CASE OpenDrop(r, fin)
    BY <1>0, <2>1, GotoStep DEF OpenDrop, CanOpen
  <2>2. CASE OpenFails(r, fin)
    BY <1>0, <2>2, GotoStep DEF OpenFails
  <2>3. CASE CloseFails(r, fin)
    BY <2>3 DEF CloseFails
  <2> QED BY <2>1, <2>2, <2>3 DEF Drops
<1>3. /\ \A s \in Recorders : m_currentCmdBuf'[s] = IF s = r THEN NoBuffer ELSE m_currentCmdBuf[s]
      /\ \A s \in Recorders : m_isRecording'[s] = IF s = r THEN FALSE ELSE m_isRecording[s]
  BY <1>0, <1>1 DEF Drop, Core, CoreType, CallType
<1>4. UNCHANGED <<completedVersion, submitted>>
  BY <1>1 DEF Discards
<1>5. \A s \in Recorders \ {r} : Still(s)
  BY <1>2, <1>3, <1>4 DEF Still
<1>6. PICK b \in Buffers \cup {NoBuffer} : b = m_currentCmdBuf[r]
  BY <1>0 DEF Core, CoreType
<1>7. PICK q \in Queues : q = QueueOf[r]
  BY QueueAssumption
<1>8. fin \in 0 .. SubmissionLimit
  <2>1. fin \in updateLastFinishedID(q) \/ fin = m_lastFinishedID[q]
    BY <1>1, <1>7 DEF Drop, DiscardPoll
  <2> QED BY <1>0, <2>1, PollValues DEF Core
<1>9. discardChunks(q, b, fin) /\ Forget(b)
  BY <1>1, <1>6, <1>7 DEF Discards
<1>10. Settled(q, b, fin) \/ (b = NoBuffer /\ KeepChunks)
  BY <1>0, <1>8, <1>9, DiscardSettles
<1>11. reads' \in [Buffers -> Seq(Slots)]
  BY <1>0, <1>9, ForgetShape
<1>12. UploadShape' /\ ChunksOK'
  <2>1. completedVersion' \in [Recorders -> 0 .. SubmissionLimit] /\ submitted' \in [Recorders -> Outcomes]
    BY <1>0, <1>4 DEF UploadShape
  <2> QED BY <1>0, <1>10, <1>11, <2>1, SettledShape
<1>13. \A c \in DOMAIN chunk' : ChunkKept(r, c)
  <2>1. \A a \in Buffers : Claims(r, a) => a = b \/ WillClaim(r, a)
    BY <1>2, <1>6 DEF Claims
  <2> QED BY <1>0, <1>7, <1>8, <1>10, <2>1, SettledKept
<1>14. CallOK(r)'
  BY <1>2, <1>3 DEF CallOK
<1> QED BY <1>5, <1>12, <1>13, <1>14, StoreStep

(* open() and close() otherwise.                                           *)
LEMMA OpensStore ==
  ASSUME IInv, StoreInv, NEW r \in Recorders, Opens(r)
  PROVE  StoreInv'
<1>0. Core /\ CallType /\ UploadShape /\ CallOK(r)
  BY DEF IInv, StoreInv, CallsOK
<1>1. UNCHANGED uploadVars
  BY DEF Opens
<1>2. /\ UNCHANGED <<m_activeChunks, m_chunkPool, chunk, completedVersion, submitted, reads>>
      /\ completedVersion' \in [Recorders -> 0 .. SubmissionLimit]
      /\ submitted' \in [Recorders -> Outcomes] /\ reads' \in [Buffers -> Seq(Slots)]
  BY <1>0, <1>1 DEF uploadVars, UploadShape
<1>3. ASSUME NEW b, Hold(r, b) PROVE StoreInv'
  <2>1. exec[r].at = "open" /\ m_currentCmdBuf[r] = NoBuffer /\ ~m_isRecording[r]
    BY <1>0, <1>3 DEF Hold, CallOK
  <2>2. \A s \in Recorders : m_currentCmdBuf'[s] = IF s = r THEN b ELSE m_currentCmdBuf[s]
    BY <1>0, <1>3 DEF Hold, Core, CoreType
  <2>3. m_isRecording' = m_isRecording
    BY <1>3 DEF Hold
  <2>4. PICK at : at = IF b = NoBuffer THEN "idle" ELSE "begin"
    OBVIOUS
  <2>5. exec'[r].at = at /\ \A s \in Recorders \ {r} : exec'[s] = exec[s]
    BY <1>0, <1>3, <2>4, GotoStep DEF Hold
  <2>6. \A s \in Recorders \ {r} : Still(s)
    BY <1>2, <2>2, <2>3, <2>5 DEF Still
  <2>7. CallOK(r)'
    BY <2>1, <2>2, <2>3, <2>4, <2>5 DEF CallOK
  <2>8. \A a \in Buffers : Claims(r, a) => WillClaim(r, a)
    BY <2>1, QueueAssumption DEF Claims
  <2> QED BY <1>2, <2>6, <2>7, <2>8, StoreQuiet
<1>4. CASE OpenBegin(r)
  <2>1. exec[r].at = "begin" /\ m_currentCmdBuf[r] # NoBuffer /\ m_currentCmdBuf' = m_currentCmdBuf
    BY <1>0, <1>4 DEF OpenBegin, CallOK
  <2>2. exec'[r].at = "idle" /\ \A s \in Recorders \ {r} : exec'[s] = exec[s]
    BY <1>0, <1>4, GotoStep DEF OpenBegin
  <2>3. \A s \in Recorders \ {r} : m_isRecording'[s] = m_isRecording[s]
    BY <1>0, <1>4 DEF OpenBegin, CallType
  <2>4. \A s \in Recorders \ {r} : Still(s)
    BY <1>2, <2>1, <2>2, <2>3 DEF Still
  <2>5. CallOK(r)'
    BY <2>1, <2>2 DEF CallOK
  <2>6. \A a \in Buffers : Claims(r, a) => WillClaim(r, a)
    BY <2>1 DEF Claims, WillClaim
  <2> QED BY <1>2, <2>4, <2>5, <2>6, StoreQuiet
<1>5. CASE Close(r)
  <2>1. exec[r].at = "idle" /\ UNCHANGED <<m_currentCmdBuf, exec>>
    BY <1>5 DEF Close
  <2>2. \A s \in Recorders : m_isRecording'[s] = IF s = r THEN FALSE ELSE m_isRecording[s]
    BY <1>0, <1>5 DEF Close, CallType
  <2>3. \A s \in Recorders \ {r} : Still(s)
    BY <1>2, <2>1, <2>2 DEF Still
  <2>4. CallOK(r)'
    BY <2>1, <2>2 DEF CallOK
  <2>5. \A a \in Buffers : Claims(r, a) => WillClaim(r, a)
    BY <2>1 DEF Claims, WillClaim
  <2> QED BY <1>2, <2>3, <2>4, <2>5, StoreQuiet
<1> QED BY <1>3, <1>4, <1>5 DEF Opens, getOrCreateDirectCommandBuffer, getOrCreateWorkerCommandBuffer

(* prepareUploadStaging polls.                                             *)
LEMMA StagePollStore ==
  ASSUME IInv, StoreInv, NEW r \in Recorders, NEW fin, StagePoll(r, fin)
  PROVE  StoreInv'
<1>0. Core /\ CallType /\ UploadShape /\ CallOK(r)
  BY DEF IInv, StoreInv, CallsOK
<1>1. /\ m_isRecording[r] /\ exec[r].at = "idle"
      /\ UNCHANGED <<m_currentCmdBuf, m_isRecording, m_activeChunks, m_chunkPool, chunk, submitted, reads>>
  BY DEF StagePoll
<1>2. PICK q \in Queues : q = QueueOf[r]
  BY QueueAssumption
<1>3. fin \in 0 .. SubmissionLimit
  <2>1. fin \in updateLastFinishedID(q)
    BY <1>2 DEF StagePoll
  <2> QED BY <1>0, <2>1, PollValues DEF Core
<1>4. exec'[r].at = "stage" /\ \A s \in Recorders \ {r} : exec'[s] = exec[s]
  BY <1>0, GotoStep DEF StagePoll
<1>5. /\ completedVersion' \in [Recorders -> 0 .. SubmissionLimit]
      /\ \A s \in Recorders \ {r} : completedVersion'[s] = completedVersion[s]
  BY <1>0, <1>3 DEF StagePoll, UploadShape
<1>6. \A s \in Recorders \ {r} : Still(s)
  BY <1>1, <1>4, <1>5 DEF Still
<1>7. CallOK(r)'
  BY <1>0, <1>1, <1>4 DEF CallOK
<1>8. \A a \in Buffers : Claims(r, a) => WillClaim(r, a)
  BY <1>1 DEF Claims, WillClaim
<1>9. submitted' \in [Recorders -> Outcomes] /\ reads' \in [Buffers -> Seq(Slots)]
  BY <1>0, <1>1 DEF UploadShape
<1> QED BY <1>1, <1>5, <1>6, <1>7, <1>8, <1>9, StoreQuiet

(* suballocateBuffer.                                                      *)
LEMMA SuballocateStore ==
  ASSUME IInv, StoreInv, NEW r \in Recorders, suballocateBuffer(r)
  PROVE  StoreInv'
<1>0. Core /\ CallType /\ UploadShape /\ ChunksOK /\ CallOK(r)
  BY DEF IInv, StoreInv, CallsOK
<1>1. exec[r].at = "stage" /\ UNCHANGED <<m_currentCmdBuf, m_isRecording, submitted>>
  BY DEF suballocateBuffer
<1>2. PICK b \in Buffers : b = m_currentCmdBuf[r]
  BY <1>0, <1>1 DEF CallOK, Core, CoreType
<1>3. exec'[r].at = "idle" /\ \A s \in Recorders \ {r} : exec'[s] = exec[s]
  BY <1>0, GotoStep DEF suballocateBuffer
<1>4. /\ completedVersion' \in [Recorders -> 0 .. SubmissionLimit]
      /\ \A s \in Recorders \ {r} : completedVersion'[s] = completedVersion[s]
  <2>1. 0 \in 0 .. SubmissionLimit
    BY QueueAssumption
  <2> QED BY <1>0, <2>1 DEF suballocateBuffer, UploadShape
<1>5. \A s \in Recorders \ {r} : Still(s)
  BY <1>1, <1>3, <1>4 DEF Still
<1>6. CallOK(r)'
  BY <1>1, <1>2, <1>3, QueueAssumption DEF CallOK
<1>7. \A a \in Buffers : Claims(r, a) => WillClaim(r, a)
  BY <1>1 DEF Claims, WillClaim
<1>8. submitted' \in [Recorders -> Outcomes]
  BY <1>0, <1>1 DEF UploadShape
<1>9. CASE SuballocateFails(r)
  <2>1. UNCHANGED <<m_activeChunks, m_chunkPool, chunk, reads>>
    BY <1>9 DEF SuballocateFails, KeepChunks
  <2>2. reads' \in [Buffers -> Seq(Slots)]
    BY <1>0, <2>1 DEF UploadShape
  <2> QED BY <1>4, <1>5, <1>6, <1>7, <1>8, <2>1, <2>2, StoreQuiet
<1>10. CASE SuballocateOwn(r) \/ SuballocatePooled(r) \/ SuballocateNew(r)
  <2>1. PICK c, n : Granted(r, c, n)
    BY <1>0, <1>2, <1>10, SuballocateGrants
  <2>2. /\ c \in Chunks /\ n \in 0 .. ChunkSize - 1
        /\ m_activeChunks' \in [Queues -> Seq(Chunks)] /\ m_chunkPool' \in Seq(Chunks)
        /\ DOMAIN chunk' = DOMAIN chunk \cup {c} /\ chunk' \in [DOMAIN chunk' -> Fields]
        /\ \A k \in DOMAIN chunk \ {c} : chunk'[k] = chunk[k]
        /\ chunk'[c].owner = b /\ chunk'[c].physicalQueue = QueueOf[r]
        /\ ChunksOK'
    BY <1>2, <2>1 DEF Granted
  <2>3. <<c, n>> \in Slots
    BY <2>2 DEF Slots
  <2>4. reads' \in [Buffers -> Seq(Slots)]
    <3>1. reads' = [reads EXCEPT ![b] = Append(@, <<c, n>>)]
      BY <1>2, <2>1 DEF Granted
    <3>2. Append(reads[b], <<c, n>>) \in Seq(Slots)
      BY <1>0, <2>3 DEF UploadShape
    <3> QED BY <1>0, <3>1, <3>2 DEF UploadShape
  <2>5. UploadShape'
    <3>1. DOMAIN chunk' \subseteq Chunks
      BY <1>0, <2>2 DEF UploadShape
    <3> QED BY <1>4, <1>8, <2>2, <2>4, <3>1 DEF UploadShape
  <2>6. ASSUME NEW k \in DOMAIN chunk' PROVE ChunkKept(r, k)
    <3>1. CASE k = c
      <4>1. WillClaim(r, b)
        BY <1>1, <1>2 DEF WillClaim
      <4> QED BY <2>2, <3>1, <4>1 DEF ChunkKept
    <3>2. CASE k # c
      <4>1. k \in DOMAIN chunk /\ chunk'[k] = chunk[k] /\ chunk[k] \in Fields
        BY <1>0, <2>2, <2>6, <3>2 DEF UploadShape
      <4>2. chunk[k].owner # NoBuffer => chunk[k].owner \in Buffers
        BY <4>1 DEF Fields
      <4>3. (chunk[k].owner # NoBuffer /\ Claims(r, chunk[k].owner)) => WillClaim(r, chunk[k].owner)
        BY <1>7, <4>2
      <4> QED BY <4>1, <4>3 DEF ChunkKept
    <3> QED BY <3>1, <3>2
  <2> QED BY <1>5, <1>6, <2>2, <2>5, <2>6, StoreStep
<1> QED BY <1>9, <1>10 DEF suballocateBuffer

(* executeCommandLists before the submission.                              *)
LEMMA ExecutesStore ==
  ASSUME IInv, StoreInv, NEW r \in Recorders, Executes(r), UNCHANGED uploadVars
  PROVE  StoreInv'
<1>0. Core /\ CallType /\ UploadShape /\ CallOK(r)
  BY DEF IInv, StoreInv, CallsOK
<1>1. PICK tokens \in SomeTokens : Execute(r, tokens)
  BY DEF Executes
<1>2. /\ UNCHANGED <<m_activeChunks, m_chunkPool, chunk, completedVersion, submitted, reads>>
      /\ completedVersion' \in [Recorders -> 0 .. SubmissionLimit]
      /\ submitted' \in [Recorders -> Outcomes] /\ reads' \in [Buffers -> Seq(Slots)]
  BY <1>0 DEF uploadVars, UploadShape
<1>3. exec[r].at = "idle" /\ ~m_isRecording[r] /\ UNCHANGED <<m_currentCmdBuf, m_isRecording>>
  BY <1>1 DEF Execute
<1>4. exec'[r].at = "submit" /\ \A s \in Recorders \ {r} : exec'[s] = exec[s]
  BY <1>0, <1>1 DEF Execute, CallType
<1>5. \A s \in Recorders \ {r} : Still(s)
  BY <1>2, <1>3, <1>4 DEF Still
<1>6. CallOK(r)'
  BY <1>3, <1>4 DEF CallOK
<1>7. \A a \in Buffers : Claims(r, a) => WillClaim(r, a)
  BY <1>3 DEF Claims, WillClaim
<1> QED BY <1>2, <1>5, <1>6, <1>7, StoreQuiet

(* What every outcome of submit() has in common: the buffer that the call  *)
(* names becomes the one to book, and leaves the list or not.              *)
Handed(r, b, new) ==
  /\ exec[r].at = "submit" /\ m_isRecording' = m_isRecording
  /\ \A s \in Recorders \ {r} : Still(s)
  /\ UNCHANGED <<m_activeChunks, m_chunkPool, chunk, completedVersion>>
  /\ b # NoBuffer => b = m_currentCmdBuf[r] /\ exec'[r].at = "book" /\ submitted'[r] = new
                       /\ new.owner = b /\ new \in Outcomes
  /\ b = NoBuffer => exec'[r].at = "idle" /\ submitted' = submitted /\ m_currentCmdBuf'[r] = m_currentCmdBuf[r]
  /\ m_currentCmdBuf'[r] \in {m_currentCmdBuf[r], NoBuffer}
  /\ submitted' \in [Recorders -> Outcomes]

(* Whatever submit() answers, it hands over the buffer this way.           *)
LEMMA SubmitHands ==
  ASSUME IInv, IInv', UploadShape, NEW r \in Recorders, NEW withList \in BOOLEAN, NEW accepted \in BOOLEAN,
         NEW after, after = After(r, withList), exec' = [exec EXCEPT ![r] = after], exec[r].at = "submit",
         m_isRecording' = m_isRecording, Detach(r, withList) \/ m_currentCmdBuf' = m_currentCmdBuf,
         Submitted(r, withList, accepted),
         NEW b, b = SubmittedBuffer(r, withList), NEW new,
         new = [owner |-> b, accepted |-> accepted, id |-> m_lastSubmittedID'[QueueOf[r]]]
  PROVE  Handed(r, b, new)
<1>0. Core /\ Core' /\ CallType
  BY DEF IInv
<1>1. PICK q \in Queues : q = QueueOf[r]
  BY QueueAssumption
<1>2. m_lastSubmittedID'[q] \in 0 .. SubmissionLimit
  BY <1>0 DEF Core, CoreType
<1>3. b \in Buffers \cup {NoBuffer} /\ (b # NoBuffer => b = m_currentCmdBuf[r])
  BY <1>0 DEF SubmittedBuffer, Core, CoreType
<1>4. new \in Outcomes /\ new.owner = b
  BY <1>1, <1>2, <1>3 DEF Outcomes
<1>5. /\ UNCHANGED <<m_activeChunks, m_chunkPool, chunk, completedVersion>>
      /\ submitted' = IF b = NoBuffer THEN submitted ELSE [submitted EXCEPT ![r] = new]
  BY DEF Submitted
<1>6. /\ submitted' \in [Recorders -> Outcomes]
      /\ b # NoBuffer => submitted'[r] = new
      /\ \A s \in Recorders \ {r} : submitted'[s] = submitted[s]
  BY <1>4, <1>5 DEF UploadShape
<1>7. exec'[r] = after /\ \A s \in Recorders \ {r} : exec'[s] = exec[s]
  BY <1>0 DEF CallType
<1>8. (b = NoBuffer => after.at = "idle") /\ (b # NoBuffer => after.at = "book")
  BY DEF After, NotExecuting
<1>9. /\ \A s \in Recorders \ {r} : m_currentCmdBuf'[s] = m_currentCmdBuf[s]
      /\ m_currentCmdBuf'[r] \in {m_currentCmdBuf[r], NoBuffer}
      /\ b = NoBuffer => m_currentCmdBuf'[r] = m_currentCmdBuf[r]
  <2>1. CASE Detach(r, withList)
    <3>1. m_currentCmdBuf' = IF b = NoBuffer THEN m_currentCmdBuf ELSE [m_currentCmdBuf EXCEPT ![r] = NoBuffer]
      BY <2>1 DEF Detach
    <3> QED BY <1>0, <3>1 DEF Core, CoreType
  <2>2. CASE m_currentCmdBuf' = m_currentCmdBuf
    BY <2>2
  <2> QED BY <2>1, <2>2
<1>10. \A s \in Recorders \ {r} : Still(s)
  BY <1>5, <1>6, <1>7, <1>9 DEF Still
<1> QED BY <1>3, <1>4, <1>5, <1>6, <1>7, <1>8, <1>9, <1>10 DEF Handed

(* A submission, whatever becomes of it.                                   *)
LEMMA SubmitsStore ==
  ASSUME IInv, IInv', StoreInv, NEW r \in Recorders, NEW withList \in BOOLEAN, Submits(r, withList)
  PROVE  StoreInv'
<1>0. Core /\ CallType /\ UploadShape /\ CallOK(r)
  BY DEF IInv, StoreInv, CallsOK
<1>1. PICK after : after = After(r, withList)
  OBVIOUS
<1>2. PICK accepted \in BOOLEAN :
        /\ Submitted(r, withList, accepted) /\ exec' = [exec EXCEPT ![r] = after] /\ exec[r].at = "submit"
        /\ m_isRecording' = m_isRecording /\ (Detach(r, withList) \/ m_currentCmdBuf' = m_currentCmdBuf)
        /\ UNCHANGED reads \/ Forget(SubmittedBuffer(r, withList))
  <2>1. ASSUME NEW valid \in BOOLEAN, SubmitRefused(r, withList, valid, after)
        PROVE  /\ exec' = [exec EXCEPT ![r] = after] /\ exec[r].at = "submit"
               /\ m_isRecording' = m_isRecording /\ m_currentCmdBuf' = m_currentCmdBuf
    BY <2>1 DEF SubmitRefused
  <2>2. ASSUME SubmitRejected(r, withList, after) \/ SubmitAccepted(r, withList, after)
        PROVE  /\ exec' = [exec EXCEPT ![r] = after] /\ exec[r].at = "submit"
               /\ m_isRecording' = m_isRecording /\ Detach(r, withList)
    BY <2>2 DEF SubmitRejected, SubmitAccepted, CanSubmit
  <2> QED BY <1>1, <2>1, <2>2 DEF Submits
<1>3. PICK b : b = SubmittedBuffer(r, withList)
  OBVIOUS
<1>4. PICK new : new = [owner |-> b, accepted |-> accepted, id |-> m_lastSubmittedID'[QueueOf[r]]]
  OBVIOUS
<1>5. Handed(r, b, new)
  BY <1>0, <1>1, <1>2, <1>3, <1>4, SubmitHands
<1>6. reads' \in [Buffers -> Seq(Slots)]
  <2>1. b \in Buffers \cup {NoBuffer}
    BY <1>0, <1>3 DEF SubmittedBuffer, Core, CoreType
  <2>2. CASE UNCHANGED reads
    BY <1>0, <2>2 DEF UploadShape
  <2>3. CASE Forget(b)
    BY <1>0, <2>1, <2>3, ForgetShape
  <2> QED BY <1>2, <1>3, <2>2, <2>3
<1>7. CallOK(r)'
  BY <1>0, <1>5 DEF CallOK, Handed
<1>8. \A a \in Buffers : Claims(r, a) => WillClaim(r, a)
  <2>1. exec[r].at # "book" /\ m_currentCmdBuf'[r] \in {m_currentCmdBuf[r], NoBuffer}
    BY <1>5 DEF Handed
  <2>2. CASE b = NoBuffer
    BY <1>5, <2>1, <2>2 DEF Claims, WillClaim, Handed
  <2>3. CASE b # NoBuffer
    BY <1>5, <2>1, <2>3 DEF Claims, WillClaim, Handed
  <2> QED BY <2>2, <2>3
<1>9. completedVersion' \in [Recorders -> 0 .. SubmissionLimit]
  BY <1>0, <1>5 DEF UploadShape, Handed
<1> QED BY <1>5, <1>6, <1>7, <1>8, <1>9, StoreQuiet DEF Handed

(* The bookkeeping after a submission pools what the submitted buffer      *)
(* owns, or leaves it to the list that kept the buffer.                    *)
Books(r, b, v) ==
  /\ b \in Buffers /\ b = submitted[r].owner /\ v \in 0 .. SubmissionLimit
  /\ \/ Settled(QueueOf[r], b, v)
     \/ KeepChunks /\ m_currentCmdBuf[r] = b /\ ~submitted[r].accepted
  /\ submitted[r].accepted => Settled(QueueOf[r], b, submitted[r].id)

(* Both ways of booking do this.                                           *)
LEMMA BooksFacts ==
  ASSUME IInv, StoreInv, NEW r \in Recorders,
         BookAccepted(r) \/ \E fin \in 0 .. SubmissionLimit : BookRejected(r, fin)
  PROVE  Booked(r) /\ \E b, v : Books(r, b, v)
<1>0. Core /\ CallType /\ UploadShape /\ ChunksOK /\ CallOK(r)
  BY DEF IInv, StoreInv, CallsOK
<1>1. Booked(r) /\ exec[r].at = "book"
  BY DEF BookAccepted, BookRejected, Booked
<1>2. submitted[r] \in Outcomes
  BY <1>0 DEF UploadShape
<1>3. PICK b \in Buffers : b = submitted[r].owner
  BY <1>0, <1>1, <1>2 DEF CallOK, Outcomes
<1>4. PICK q \in Queues : q = QueueOf[r]
  BY QueueAssumption
<1>5. CASE BookAccepted(r)
  <2>1. PICK v \in 0 .. SubmissionLimit : v = submitted[r].id
    BY <1>2 DEF Outcomes
  <2>2. Recycle(q, b, v, FALSE) /\ submitted[r].accepted
    BY <1>3, <1>4, <1>5, <2>1 DEF BookAccepted, submitChunks
  <2>3. Settled(q, b, v)
    BY <1>0, <2>2, RecycleSettles
  <2>4. Books(r, b, v)
    BY <1>3, <1>4, <2>1, <2>2, <2>3 DEF Books
  <2> QED BY <1>1, <2>4
<1>6. ASSUME NEW fin \in 0 .. SubmissionLimit, BookRejected(r, fin)
      PROVE  Books(r, b, fin)
  <2>1. ~submitted[r].accepted
    BY <1>6 DEF BookRejected
  <2>2. CASE m_currentCmdBuf[r] = b
    <3>1. KeepChunks
      BY <1>3, <1>6, <2>2 DEF BookRejected
    <3> QED BY <1>3, <2>1, <2>2, <3>1 DEF Books
  <2>3. CASE m_currentCmdBuf[r] # b
    <3>1. discardChunks(q, b, fin)
      BY <1>3, <1>4, <1>6, <2>3 DEF BookRejected
    <3>2. Settled(q, b, fin)
      BY <1>0, <3>1, DiscardSettles, QueueAssumption
    <3> QED BY <1>3, <1>4, <2>1, <3>2 DEF Books
  <2> QED BY <2>2, <2>3
<1> QED BY <1>1, <1>5, <1>6

(* The bookkeeping keeps the chunks in order.                              *)
LEMMA BooksStore ==
  ASSUME IInv, StoreInv, NEW r \in Recorders,
         BookAccepted(r) \/ \E fin \in 0 .. SubmissionLimit : BookRejected(r, fin)
  PROVE  StoreInv'
<1>0. Core /\ CallType /\ UploadShape /\ ChunksOK /\ CallOK(r)
  BY DEF IInv, StoreInv, CallsOK
<1>1. Booked(r)
  BY BooksFacts
<1>2. PICK b, v : Books(r, b, v)
  BY BooksFacts
<1>3. b \in Buffers /\ b = submitted[r].owner /\ v \in 0 .. SubmissionLimit
  BY <1>2 DEF Books
<1>4. PICK q \in Queues : q = QueueOf[r]
  BY QueueAssumption
<1>5. /\ exec[r].at = "book" /\ UNCHANGED <<m_currentCmdBuf, m_isRecording, completedVersion, reads>>
      /\ submitted' = [submitted EXCEPT ![r] = NotSubmitted]
  BY <1>1 DEF Booked
<1>6. exec'[r].at = "idle" /\ \A s \in Recorders \ {r} : exec'[s] = exec[s]
  BY <1>0, <1>1, GotoStep DEF Booked
<1>7. /\ submitted' \in [Recorders -> Outcomes]
      /\ \A s \in Recorders \ {r} : submitted'[s] = submitted[s]
  <2>1. NotSubmitted \in Outcomes
    BY QueueAssumption DEF NotSubmitted, Outcomes
  <2> QED BY <1>0, <1>5, <2>1 DEF UploadShape
<1>8. \A s \in Recorders \ {r} : Still(s)
  BY <1>5, <1>6, <1>7 DEF Still
<1>9. CallOK(r)'
  BY <1>0, <1>5, <1>6 DEF CallOK
<1>10. completedVersion' \in [Recorders -> 0 .. SubmissionLimit] /\ reads' \in [Buffers -> Seq(Slots)]
  BY <1>0, <1>5 DEF UploadShape
<1>11. CASE Settled(q, b, v)
  <2>1. UploadShape' /\ ChunksOK'
    BY <1>0, <1>7, <1>10, <1>11, SettledShape
  <2>2. \A a \in Buffers : Claims(r, a) => a = b \/ WillClaim(r, a)
    BY <1>3, <1>5 DEF Claims, WillClaim
  <2>3. \A c \in DOMAIN chunk' : ChunkKept(r, c)
    BY <1>0, <1>3, <1>4, <1>11, <2>2, SettledKept
  <2> QED BY <1>8, <1>9, <2>1, <2>3, StoreStep
<1>12. CASE KeepChunks /\ m_currentCmdBuf[r] = b
  <2>1. \A a \in Buffers : Claims(r, a) => WillClaim(r, a)
    BY <1>3, <1>5, <1>12 DEF Claims, WillClaim
  <2>2. UNCHANGED <<m_activeChunks, m_chunkPool, chunk>>
    BY <1>12 DEF KeepChunks
  <2> QED BY <1>7, <1>8, <1>9, <1>10, <2>1, <2>2, StoreQuiet
<1> QED BY <1>2, <1>4, <1>11, <1>12 DEF Books

(* The GPU finishes a submission.                                          *)
LEMMA FinishesStore ==
  ASSUME IInv, StoreInv, NEW q \in Queues, Finishes(q)
  PROVE  StoreInv'
<1>0. Core /\ UploadShape
  BY DEF IInv, StoreInv
<1>1. PICK queue \in Seq(Entries) : queue = gpuQueue[q]
  BY <1>0 DEF Core, CoreType
<1>2. queue # <<>>
  BY <1>1 DEF Finishes, GpuFinish
<1>3. Head(queue) \in Entries
  BY <1>2
<1>4. PICK b \in Buffers \cup {NoBuffer} : b = Head(queue).buffer
  BY <1>3 DEF Entries
<1>5. Forget(b)
  BY <1>1, <1>4 DEF Finishes
<1>6. reads' \in [Buffers -> Seq(Slots)]
  BY <1>0, <1>5, ForgetShape
<1>7. /\ UNCHANGED <<m_activeChunks, m_chunkPool, chunk, completedVersion, submitted>>
      /\ UNCHANGED <<m_currentCmdBuf, m_isRecording, exec>>
  BY DEF Finishes, GpuFinish
<1> QED BY <1>6, <1>7, StoreSame

(* Polls and collections of the queue.                                     *)
LEMMA CompletionStore ==
  ASSUME IInv, StoreInv, NEW q \in Queues, Completion(q), UNCHANGED uploadVars
  PROVE  StoreInv'
<1>0. UploadShape
  BY DEF StoreInv
<1>1. UNCHANGED <<m_currentCmdBuf, m_isRecording, exec>>
  BY DEF Completion, queueGetCompletedInstance, runGarbageCollection, waitForIdle, Collect
<1>2. UNCHANGED <<m_activeChunks, m_chunkPool, chunk, completedVersion, submitted, reads>>
  BY DEF uploadVars
<1>3. reads' \in [Buffers -> Seq(Slots)]
  BY <1>0, <1>2 DEF UploadShape
<1> QED BY <1>1, <1>2, <1>3, StoreSame
-----------------------------------------------------------------------------
(* The manager's steps keep the queue's invariant.                         *)
LEMMA QueueKept ==
  ASSUME IInv, UploadNext
  PROVE  IInv'
<1>0. Core /\ CallType
  BY DEF IInv
<1>1. ASSUME NEW r \in Recorders, NEW fin \in 0 .. SubmissionLimit, Drops(r, fin) PROVE IInv'
  <2>1. Recording(r)
    BY <1>1 DEF Drops, Recording
  <2> QED BY <1>0, <2>1, RecordingKeeps DEF IInv
<1>2. ASSUME NEW r \in Recorders, NEW fin, StagePoll(r, fin) PROVE IInv'
  <2>1. PICK q \in Queues : q = QueueOf[r]
    BY QueueAssumption
  <2>2. Core'
    BY <1>0, <1>2, <2>1, PollCore DEF StagePoll
  <2>3. [NotExecuting EXCEPT !.at = "stage"] \in Calls
    BY GotoCall
  <2>4. PICK call \in Calls : exec' = [exec EXCEPT ![r] = call]
    BY <1>2, <2>3 DEF StagePoll, Goto
  <2>5. m_isRecording' = m_isRecording /\ m_waitSemaphores' = m_waitSemaphores
    BY <1>2 DEF StagePoll
  <2>6. CallType'
    BY <1>0, <2>4, <2>5, CallStep
  <2> QED BY <2>2, <2>6 DEF IInv
<1>3. ASSUME NEW r \in Recorders, Booked(r), NEW fin,
             fin \in updateLastFinishedID(QueueOf[r]) \/ fin = m_lastFinishedID[QueueOf[r]],
             m_lastFinishedID' = [m_lastFinishedID EXCEPT ![QueueOf[r]] = fin]
      PROVE  IInv'
  <2>1. PICK q \in Queues : q = QueueOf[r]
    BY QueueAssumption
  <2>2. Core'
    BY <1>0, <1>3, <2>1, PollCore DEF Booked
  <2>3. [NotExecuting EXCEPT !.at = "idle"] \in Calls
    BY GotoCall
  <2>4. PICK call \in Calls : exec' = [exec EXCEPT ![r] = call]
    BY <1>3, <2>3 DEF Booked, Goto
  <2>5. m_isRecording' = m_isRecording /\ m_waitSemaphores' = m_waitSemaphores
    BY <1>3 DEF Booked
  <2>6. CallType'
    BY <1>0, <2>4, <2>5, CallStep
  <2> QED BY <2>2, <2>6 DEF IInv
<1>4. ASSUME NEW r \in Recorders, NEW fin, BookRejected(r, fin) PROVE IInv'
  BY <1>3, <1>4 DEF BookRejected
<1>5. ASSUME NEW r \in Recorders, BookAccepted(r) PROVE IInv'
  <2>1. m_lastFinishedID' = [m_lastFinishedID EXCEPT ![QueueOf[r]] = m_lastFinishedID[QueueOf[r]]]
    BY <1>0, <1>5 DEF BookAccepted, Core, CoreType
  <2> QED BY <1>3, <1>5, <2>1 DEF BookAccepted
<1>6. ASSUME NEW r \in Recorders, Opens(r) PROVE IInv'
  <2>1. Recording(r)
    BY <1>6 DEF Opens, Recording
  <2> QED BY <1>0, <2>1, RecordingKeeps DEF IInv
<1>7. ASSUME NEW r \in Recorders, suballocateBuffer(r) PROVE IInv'
  <2>1. Core'
    BY <1>0, <1>7, SameCore DEF suballocateBuffer
  <2>2. [NotExecuting EXCEPT !.at = "idle"] \in Calls
    BY GotoCall
  <2>3. PICK call \in Calls : exec' = [exec EXCEPT ![r] = call]
    BY <1>7, <2>2 DEF suballocateBuffer, Goto
  <2>4. m_isRecording' = m_isRecording /\ m_waitSemaphores' = m_waitSemaphores
    BY <1>7 DEF suballocateBuffer
  <2>5. CallType'
    BY <1>0, <2>3, <2>4, CallStep
  <2> QED BY <2>1, <2>5 DEF IInv
<1>8. ASSUME NEW r \in Recorders, Executes(r) PROVE IInv'
  BY <1>0, <1>8, ExecutesKeeps DEF IInv
<1>9. ASSUME NEW r \in Recorders, NEW withList \in BOOLEAN, Submits(r, withList) PROVE IInv'
  <2>1. PICK after \in Calls : after = After(r, withList)
    <3>1. NotExecuting \in Calls
      BY DEF NotExecuting, Calls
    <3>2. [NotExecuting EXCEPT !.at = "book"] \in Calls
      BY GotoCall
    <3> QED BY <3>1, <3>2 DEF After
  <2>2. \/ \E valid \in BOOLEAN : SubmitRefused(r, withList, valid, after)
        \/ SubmitRejected(r, withList, after)
        \/ SubmitAccepted(r, withList, after)
    BY <1>9, <2>1 DEF Submits
  <2> QED BY <1>0, <2>2, SubmitKeeps DEF IInv
<1>10. ASSUME NEW q \in Queues, Finishes(q) PROVE IInv'
  BY <1>0, <1>10, FinishKeeps DEF Finishes, IInv
<1>11. ASSUME NEW q \in Queues, Completion(q) PROVE IInv'
  BY <1>0, <1>11, CompletionKeeps DEF IInv
<1> QED BY <1>1, <1>2, <1>4, <1>5, <1>6, <1>7, <1>8, <1>9, <1>10, <1>11 DEF UploadNext

(* Every step keeps the chunks in order.                                   *)
LEMMA NextStore ==
  ASSUME IInv, IInv', StoreInv, UploadNext
  PROVE  StoreInv'
<1>1. ASSUME NEW r \in Recorders, NEW fin \in 0 .. SubmissionLimit,
             Drops(r, fin) \/ StagePoll(r, fin) \/ BookRejected(r, fin)
      PROVE  StoreInv'
  BY <1>1, DropsStore, StagePollStore, BooksStore
<1>2. ASSUME NEW r \in Recorders, Opens(r) \/ suballocateBuffer(r) \/ BookAccepted(r)
      PROVE  StoreInv'
  BY <1>2, OpensStore, SuballocateStore, BooksStore
<1>3. ASSUME NEW r \in Recorders, Executes(r), UNCHANGED uploadVars PROVE StoreInv'
  BY <1>3, ExecutesStore
<1>4. ASSUME NEW r \in Recorders, NEW withList \in BOOLEAN, Submits(r, withList) PROVE StoreInv'
  BY <1>4, SubmitsStore
<1>5. ASSUME NEW q \in Queues, Finishes(q) PROVE StoreInv'
  BY <1>5, FinishesStore
<1>6. ASSUME NEW q \in Queues, Completion(q), UNCHANGED uploadVars PROVE StoreInv'
  BY <1>6, CompletionStore
<1> QED BY <1>1, <1>2, <1>3, <1>4, <1>5, <1>6 DEF UploadNext

(* A step that changes nothing.                                            *)
LEMMA StoreStutters ==
  ASSUME IInv, StoreInv, UNCHANGED vars
  PROVE  IInv' /\ StoreInv'
<1>1. UNCHANGED queueVars
  BY DEF vars
<1>2. IInv'
  BY <1>1, NextIInv
<1>3. UNCHANGED <<m_activeChunks, m_chunkPool, chunk, completedVersion, submitted, reads>>
  BY DEF vars, uploadVars
<1>4. UNCHANGED <<m_currentCmdBuf, m_isRecording, exec>>
  BY <1>1 DEF queueVars
<1>5. reads' \in [Buffers -> Seq(Slots)]
  BY <1>3 DEF StoreInv, UploadShape
<1> QED BY <1>2, <1>3, <1>4, <1>5, StoreSame

(* There is no chunk yet.                                                  *)
LEMMA InitStore == UploadInit => IInv /\ StoreInv
<1> SUFFICES ASSUME UploadInit PROVE IInv /\ StoreInv
  OBVIOUS
<1>0. Init
  BY DEF UploadInit
<1>1. IInv
  BY <1>0, InitIInv
<1>2. /\ m_activeChunks = [q \in Queues |-> <<>>] /\ m_chunkPool = <<>>
      /\ chunk = [c \in {} |-> 0]
      /\ completedVersion = [r \in Recorders |-> 0]
      /\ submitted = [r \in Recorders |-> NotSubmitted]
      /\ reads = [b \in Buffers |-> <<>>]
  BY DEF UploadInit
<1>3. DOMAIN chunk = {}
  BY <1>2
<1>4. UploadShape
  <2>1. NotSubmitted \in Outcomes /\ 0 \in 0 .. SubmissionLimit
    BY QueueAssumption DEF NotSubmitted, Outcomes
  <2>2. chunk \in [DOMAIN chunk -> Fields]
    BY <1>2, <1>3
  <2>3. m_activeChunks \in [Queues -> Seq(Chunks)] /\ m_chunkPool \in Seq(Chunks) /\ reads \in [Buffers -> Seq(Slots)]
    BY <1>2
  <2>4. completedVersion \in [Recorders -> 0 .. SubmissionLimit] /\ submitted \in [Recorders -> Outcomes]
    BY <1>2, <2>1
  <2> QED BY <1>3, <2>2, <2>3, <2>4 DEF UploadShape
<1>5. ChunksOK
  <2>1. \A q \in Queues : DOMAIN m_activeChunks[q] = {}
    BY <1>2
  <2>2. DOMAIN m_chunkPool = {}
    BY <1>2
  <2> QED BY <1>3, <2>1, <2>2 DEF ChunksOK
<1>6. OwnersOK
  BY <1>3 DEF OwnersOK
<1>7. CallsOK
  <2>1. \A r \in Recorders : exec[r].at = "idle" /\ ~m_isRecording[r]
    BY <1>0 DEF Init, NotExecuting
  <2> QED BY <2>1 DEF CallsOK, CallOK
<1> QED BY <1>1, <1>4, <1>5, <1>6, <1>7 DEF StoreInv

(* The chunks are in order in every reachable state.                       *)
LEMMA StoreInductive == UploadSpec => [](IInv /\ StoreInv)
<1>1. ASSUME IInv, StoreInv, [UploadNext]_vars PROVE IInv' /\ StoreInv'
  <2>1. CASE UploadNext
    <3>1. IInv'
      BY <1>1, <2>1, QueueKept
    <3> QED BY <1>1, <2>1, <3>1, NextStore
  <2>2. CASE UNCHANGED vars
    BY <1>1, <2>2, StoreStutters
  <2> QED BY <1>1, <2>1, <2>2
<1> QED BY <1>1, InitStore, PTL DEF UploadSpec

(* A chunk is active or pooled and not both, and an active one belongs to  *)
(* a buffer some list holds or some executeCommandLists is about to book,  *)
(* however open, close, submit and the bookkeeping end and interleave.     *)
THEOREM ChunksNeverStranded == UploadSpec => []NoChunkStranded
<1>1. ASSUME IInv, StoreInv PROVE NoChunkStranded
  <2>0. UploadShape /\ ChunksOK /\ OwnersOK
    BY <1>1 DEF StoreInv
  <2>1. ASSUME NEW c \in DOMAIN chunk
        PROVE  Cardinality({q \in Queues : c \in Range(m_activeChunks[q])})
                 + (IF c \in Range(m_chunkPool) THEN 1 ELSE 0) = 1
    <3>1. PICK p \in Queues : p = chunk[c].physicalQueue
      <4>1. chunk[c] \in Fields
        BY <2>0 DEF UploadShape
      <4> QED BY <4>1 DEF Fields
    <3>2. \A q \in Queues : c \in Range(m_activeChunks[q]) => q = p /\ chunk[c].owner # NoBuffer
      BY <2>0, <3>1 DEF ChunksOK, Range
    <3>3. c \in Range(m_chunkPool) => chunk[c].owner = NoBuffer
      BY <2>0 DEF ChunksOK, Range
    <3>4. c \in Range(m_activeChunks[p]) \/ c \in Range(m_chunkPool)
      BY <2>0, <3>1 DEF ChunksOK, Range
    <3>5. CASE c \in Range(m_chunkPool)
      <4>1. {q \in Queues : c \in Range(m_activeChunks[q])} = {}
        BY <3>2, <3>3, <3>5
      <4> QED BY <3>5, <4>1, FS_EmptySet
    <3>6. CASE c \notin Range(m_chunkPool)
      <4>1. {q \in Queues : c \in Range(m_activeChunks[q])} = {p}
        BY <3>2, <3>4, <3>6
      <4>2. Cardinality({p}) = 1
        BY FS_Singleton
      <4> QED BY <3>6, <4>1, <4>2
    <3> QED BY <3>5, <3>6
  <2>2. ASSUME NEW q \in Queues, NEW c \in Range(m_activeChunks[q])
        PROVE  \/ chunk[c].owner \in Held
               \/ \E r \in Recorders : exec[r].at = "book" /\ submitted[r].owner = chunk[c].owner
    <3>1. c \in DOMAIN chunk /\ chunk[c].owner # NoBuffer
      BY <2>0 DEF ChunksOK, Range
    <3>2. PICK r \in Recorders : Claims(r, chunk[c].owner)
      BY <2>0, <3>1 DEF OwnersOK
    <3> QED BY <3>1, <3>2 DEF Claims, Held
  <2> QED BY <2>1, <2>2 DEF NoChunkStranded
<1> QED BY <1>1, StoreInductive, PTL
-----------------------------------------------------------------------------
(* Where a submitted buffer waits for its chunks to be booked.             *)

(* A buffer waiting in p for worker w is still there after the step.       *)
StaysParked(p, w) ==
  \A b \in Buffers :
    /\ Parked(b, p, w) => Parked(b, p, w)' /\ m_submissionID'[b] = m_submissionID[b]
    /\ InPool(b, p, w) => InPool(b, p, w)'

(* Such pools still have what p's pool of w had and what w recorded of the  *)
(* buffers in flight, or these are still in flight.                        *)
KeptIn(flight2, pool2, b, p, w) ==
  /\ InPool(b, p, w) => \E k \in DOMAIN pool2[p][w] : pool2[p][w][k] = b
  /\ (Flying(b, p) /\ m_recordingWorkerIndex[b] = w) =>
       \/ \E k \in DOMAIN flight2[p] : flight2[p][k] = b
       \/ \E k \in DOMAIN pool2[p][w] : pool2[p][w][k] = b

CollectedTo(q, fin, flight2, pool2) ==
  /\ flight2 = [m_commandBuffersInFlight EXCEPT ![q] = StillInFlight(q, fin)]
  /\ pool2 = [m_pool EXCEPT ![q] = recycle(m_pool[q], Completed(q, fin))]

(* Every buffer of the list that w recorded is in R.                       *)
AllOfWorker(list, w, R) ==
  \A k \in DOMAIN list : m_recordingWorkerIndex[list[k]] = w => \E i \in DOMAIN R : R[i] = list[k]

(* Recycling keeps what a pool has and adds what its worker recorded.      *)
LEMMA RecycleKeeps ==
  ASSUME NEW pools \in [Workers -> Seq(Buffers)], NEW list \in Seq(Buffers), NEW w \in Workers,
         NEW R, R = recycle(pools, list)[w]
  PROVE  /\ \A k \in DOMAIN pools[w] : \E i \in DOMAIN R : R[i] = pools[w][k]
         /\ AllOfWorker(list, w, R)
<1>1. PICK P \in Seq(Buffers) : P = pools[w]
  OBVIOUS
<1>2. PICK S : S = {b \in Buffers : m_recordingWorkerIndex[b] = w}
  OBVIOUS
<1>3. PICK t : t = Only(list, S)
  OBVIOUS
<1>4. t \in Seq(Buffers)
  BY <1>3, OnlyFacts
<1>5. \A k \in DOMAIN list : list[k] \in S => \E i \in DOMAIN t : t[i] = list[k]
  BY <1>3, OnlyFacts
<1>6. R = P \o t
  BY <1>1, <1>2, <1>3 DEF recycle, OfWorker
<1>7. /\ DOMAIN R = 1 .. Len(P) + Len(t) /\ Len(P) \in Nat /\ Len(t) \in Nat
      /\ DOMAIN P = 1 .. Len(P) /\ DOMAIN t = 1 .. Len(t)
      /\ \A i \in 1 .. Len(P) + Len(t) : R[i] = IF i <= Len(P) THEN P[i] ELSE t[i - Len(P)]
  BY <1>4, <1>6
<1>8. \A k \in DOMAIN P : k \in DOMAIN R /\ R[k] = P[k]
  BY <1>7
<1>9. \A k \in DOMAIN t : k + Len(P) \in DOMAIN R /\ R[k + Len(P)] = t[k]
  BY <1>7
<1>10. \A k \in DOMAIN list : m_recordingWorkerIndex[list[k]] = w => list[k] \in S
  BY <1>2
<1> QED BY <1>1, <1>5, <1>8, <1>9, <1>10 DEF AllOfWorker

(* A collection takes a buffer out of flight into the pool of its worker.  *)
LEMMA CollectParks ==
  ASSUME Core, NEW q \in Queues, NEW fin \in 0 .. SubmissionLimit,
         NEW flight2, NEW pool2, CollectedTo(q, fin, flight2, pool2),
         NEW b, NEW p \in Queues, NEW w \in Workers
  PROVE  KeptIn(flight2, pool2, b, p, w)
<1>1. CoreType
  BY DEF Core
<1>2. PICK list \in Seq(Buffers) : list = m_commandBuffersInFlight[q]
  BY <1>1 DEF CoreType
<1>3. PICK pools \in [Workers -> Seq(Buffers)] : pools = m_pool[q]
  BY <1>1 DEF CoreType
<1>4. PICK c, done, rest : c = CompletedCount(q, fin) /\ done = Completed(q, fin) /\ rest = StillInFlight(q, fin)
  OBVIOUS
<1>5. /\ c \in Nat /\ c <= Len(list) /\ done \in Seq(Buffers) /\ DOMAIN done = 1 .. c
      /\ \A k \in 1 .. c : done[k] = list[k]
      /\ DOMAIN rest = 1 .. Len(list) - c
      /\ \A k \in 1 .. Len(list) - c : rest[k] = list[k + c]
  BY <1>1, <1>2, <1>4, CollectedSequences
<1>6. PICK R : R = recycle(pools, done)[w]
  OBVIOUS
<1>7. /\ \A k \in DOMAIN pools[w] : \E i \in DOMAIN R : R[i] = pools[w][k]
      /\ \A k \in DOMAIN done : m_recordingWorkerIndex[done[k]] = w => \E i \in DOMAIN R : R[i] = done[k]
  <2>1. done \in Seq(Buffers)
    BY <1>5
  <2>2. \A k \in DOMAIN pools[w] : \E i \in DOMAIN R : R[i] = pools[w][k]
    BY <1>6, <2>1, RecycleKeeps
  <2>3. AllOfWorker(done, w, R)
    BY <1>6, <2>1, RecycleKeeps
  <2> QED BY <2>2, <2>3 DEF AllOfWorker
<1>8. flight2[p] = IF p = q THEN rest ELSE m_commandBuffersInFlight[p]
  BY <1>1, <1>4 DEF CoreType, CollectedTo
<1>9. pool2[p][w] = IF p = q THEN R ELSE m_pool[p][w]
  BY <1>1, <1>3, <1>4, <1>6 DEF CoreType, CollectedTo
<1>10. CASE p # q
  BY <1>8, <1>9, <1>10 DEF KeptIn, InPool, Flying
<1>11. CASE p = q
  <2>1. InPool(b, p, w) => \E k \in DOMAIN pool2[p][w] : pool2[p][w][k] = b
    BY <1>3, <1>7, <1>9, <1>11 DEF InPool
  <2>2. ASSUME Flying(b, p), m_recordingWorkerIndex[b] = w
        PROVE  \/ \E k \in DOMAIN flight2[p] : flight2[p][k] = b
               \/ \E k \in DOMAIN pool2[p][w] : pool2[p][w][k] = b
    <3>1. PICK k \in DOMAIN list : list[k] = b
      BY <1>2, <1>11, <2>2 DEF Flying
    <3>2. k \in 1 .. Len(list) /\ Len(list) \in Nat
      OBVIOUS
    <3>3. CASE k <= c
      <4>1. k \in DOMAIN done /\ done[k] = b
        BY <1>5, <3>1, <3>2, <3>3
      <4> QED BY <1>7, <1>9, <1>11, <2>2, <4>1
    <3>4. CASE ~(k <= c)
      <4>1. k - c \in 1 .. Len(list) - c /\ (k - c) + c = k
        BY <1>5, <3>2, <3>4
      <4>2. k - c \in DOMAIN rest /\ rest[k - c] = b
        BY <1>5, <3>1, <4>1
      <4> QED BY <1>8, <1>11, <4>2
    <3> QED BY <3>3, <3>4
  <2> QED BY <2>1, <2>2 DEF KeptIn
<1> QED BY <1>10, <1>11

(* A buffer in flight or in a pool is on no list.                          *)
LEMMA ParkedElsewhere ==
  ASSUME Core, NEW b \in Buffers, NEW p \in Queues, NEW w \in Workers, Parked(b, p, w), NEW s \in Recorders
  PROVE  m_currentCmdBuf[s] # b
BY DEF Core, Placed, OnePlace, Parked, Flying, InPool

(* The step leaves flight and pools alone and gives other buffers ids.     *)
LEMMA ParkedSame ==
  ASSUME Core, NEW p \in Queues, NEW w \in Workers, UNCHANGED <<m_commandBuffersInFlight, m_pool>>,
         \A b \in Buffers : Parked(b, p, w) => /\ m_submissionID'[b] = m_submissionID[b]
                                               /\ m_recordingWorkerIndex'[b] = m_recordingWorkerIndex[b]
  PROVE  StaysParked(p, w)
BY DEF StaysParked, Parked, Flying, InPool

(* A list gives up its buffer.                                             *)
LEMMA DropParked ==
  ASSUME Core, NEW s \in Recorders, NEW fin, Drop(s, fin), NEW p \in Queues, NEW w \in Workers
  PROVE  StaysParked(p, w)
<1>1. UNCHANGED <<m_commandBuffersInFlight, m_pool>>
  BY DEF Drop
<1>2. ASSUME NEW b \in Buffers, Parked(b, p, w)
      PROVE  m_submissionID'[b] = m_submissionID[b] /\ m_recordingWorkerIndex'[b] = m_recordingWorkerIndex[b]
  <2>1. m_currentCmdBuf[s] # b
    BY <1>2, ParkedElsewhere
  <2> QED BY <2>1 DEF Drop
<1> QED BY <1>1, <1>2, ParkedSame

(* A collection.                                                           *)
LEMMA CollectParked ==
  ASSUME Core, NEW q \in Queues, NEW fin \in 0 .. SubmissionLimit, Collect(q, fin),
         NEW p \in Queues, NEW w \in Workers
  PROVE  StaysParked(p, w)
<1>1. PICK flight2 : flight2 = [m_commandBuffersInFlight EXCEPT ![q] = StillInFlight(q, fin)]
  OBVIOUS
<1>2. PICK pool2 : pool2 = [m_pool EXCEPT ![q] = recycle(m_pool[q], Completed(q, fin))]
  OBVIOUS
<1>3. m_commandBuffersInFlight' = flight2 /\ m_pool' = pool2 /\ UNCHANGED <<m_submissionID, m_recordingWorkerIndex>>
  BY <1>1, <1>2 DEF Collect
<1>4. CollectedTo(q, fin, flight2, pool2)
  BY <1>1, <1>2 DEF CollectedTo
<1>5. \A b \in Buffers : KeptIn(flight2, pool2, b, p, w)
  BY <1>4, CollectParks
<1> QED BY <1>3, <1>5 DEF StaysParked, Parked, Flying, InPool, KeptIn

(* A recorder that takes its buffers from another pool takes one.          *)
LEMMA HoldParked ==
  ASSUME Core, Core', NEW s \in Recorders, NEW b, Hold(s, b), NEW p \in Queues, NEW w \in Workers,
         QueueOf[s] # p \/ WorkerOf[s] # w,
         NEW flight2, m_commandBuffersInFlight' = flight2,
         NEW pool2, pool2 \in [Queues -> [Workers -> Seq(Buffers)]],
         NEW v \in Workers, v = WorkerOf[s],
         NEW rest, m_pool' = [pool2 EXCEPT ![QueueOf[s]] = [pool2[QueueOf[s]] EXCEPT ![v] = rest]],
         \A a \in Buffers : KeptIn(flight2, pool2, a, p, w)
  PROVE  StaysParked(p, w)
<1>1. PICK q \in Queues : q = QueueOf[s]
  BY QueueAssumption
<1>2. m_pool'[p][w] = pool2[p][w]
  <2>1. CASE p # q
    BY <1>1, <2>1
  <2>2. CASE p = q
    <3>1. m_pool'[p] = [pool2[p] EXCEPT ![v] = rest]
      BY <1>1, <2>2
    <3>2. v # w
      BY <1>1, <2>2
    <3> QED BY <3>1, <3>2
  <2> QED BY <2>1, <2>2
<1>3. m_submissionID' = m_submissionID
  BY DEF Hold
<1>4. \A a \in Buffers : a # b => m_recordingWorkerIndex'[a] = m_recordingWorkerIndex[a]
  <2>1. CASE b = NoBuffer
    BY <2>1 DEF Hold
  <2>2. CASE b # NoBuffer
    <3>1. m_recordingWorkerIndex' = [m_recordingWorkerIndex EXCEPT ![b] = WorkerOf[s]]
      BY <2>2 DEF Hold
    <3> QED BY <3>1 DEF Core, CoreType
  <2> QED BY <2>1, <2>2
<1>5. m_currentCmdBuf'[s] = b
  BY DEF Hold, Core, CoreType
<1>6. \A k \in DOMAIN flight2[p] : flight2[p][k] # b
  <2>1. \A k \in DOMAIN m_commandBuffersInFlight'[p] : m_currentCmdBuf'[s] # m_commandBuffersInFlight'[p][k]
    BY DEF Core, Placed, OnePlace
  <2> QED BY <1>5, <2>1
<1>7. ASSUME NEW a \in Buffers
      PROVE  /\ Parked(a, p, w) => Parked(a, p, w)' /\ m_submissionID'[a] = m_submissionID[a]
             /\ InPool(a, p, w) => InPool(a, p, w)'
  <2>1. InPool(a, p, w) => InPool(a, p, w)'
    BY <1>2 DEF InPool, KeptIn
  <2>2. ASSUME Flying(a, p), m_recordingWorkerIndex[a] = w PROVE Parked(a, p, w)'
    <3>1. CASE \E k \in DOMAIN flight2[p] : flight2[p][k] = a
      <4>1. m_recordingWorkerIndex'[a] = w
        BY <1>4, <1>6, <2>2, <3>1
      <4> QED BY <3>1, <4>1 DEF Parked, Flying
    <3>2. CASE \E k \in DOMAIN pool2[p][w] : pool2[p][w][k] = a
      BY <1>2, <3>2 DEF Parked, InPool
    <3> QED BY <2>2, <3>1, <3>2 DEF KeptIn
  <2> QED BY <1>3, <2>1, <2>2 DEF Parked
<1> QED BY <1>7 DEF StaysParked

(* A direct recorder collects and takes a buffer.                          *)
LEMMA DirectParked ==
  ASSUME Core, Core', NEW s \in Recorders, NEW fin, NEW b, getOrCreateDirectCommandBuffer(s, fin, b),
         NEW p \in Queues, NEW w \in Workers, QueueOf[s] # p \/ WorkerOf[s] # w
  PROVE  StaysParked(p, w)
<1>1. PICK q \in Queues : q = QueueOf[s]
  BY QueueAssumption
<1>2. PICK v \in Workers : v = 0 /\ v = WorkerOf[s]
  BY DEF Workers, getOrCreateDirectCommandBuffer
<1>3. fin \in 0 .. SubmissionLimit /\ fin <= gpuDone[q]
  BY <1>1, PollValues DEF Core, getOrCreateDirectCommandBuffer
<1>4. PICK flight2 : flight2 = [m_commandBuffersInFlight EXCEPT ![q] = StillInFlight(q, fin)]
  OBVIOUS
<1>5. PICK pool2 : pool2 = [m_pool EXCEPT ![q] = recycle(m_pool[q], Completed(q, fin))]
  OBVIOUS
<1>6. pool2 \in [Queues -> [Workers -> Seq(Buffers)]]
  <2>1. Rearranged(flight2, pool2)
    BY <1>3, <1>4, <1>5, CollectPlaces
  <2> QED BY <2>1 DEF Rearranged
<1>7. PICK coll : coll = recycle(m_pool[q], Completed(q, fin))
  OBVIOUS
<1>8. PICK pair \in Acquire(coll[0]) : m_pool' = [m_pool EXCEPT ![q] = [coll EXCEPT ![0] = pair[2]]]
  BY <1>1, <1>7 DEF getOrCreateDirectCommandBuffer
<1>9. PICK rest : rest = pair[2]
  OBVIOUS
<1>10. pool2[q] = coll /\ m_pool \in [Queues -> [Workers -> Seq(Buffers)]]
  BY <1>5, <1>7 DEF Core, CoreType
<1>11. m_pool' = [pool2 EXCEPT ![q] = [pool2[q] EXCEPT ![v] = rest]]
  BY <1>2, <1>5, <1>7, <1>8, <1>9, <1>10
<1>12. m_commandBuffersInFlight' = flight2 /\ Hold(s, b)
  BY <1>1, <1>4 DEF getOrCreateDirectCommandBuffer
<1>13. \A a \in Buffers : KeptIn(flight2, pool2, a, p, w)
  <2>1. CollectedTo(q, fin, flight2, pool2)
    BY <1>4, <1>5 DEF CollectedTo
  <2> QED BY <1>3, <2>1, CollectParks
<1> QED BY <1>1, <1>2, <1>6, <1>11, <1>12, <1>13, HoldParked

(* A worker takes a buffer from its arena.                                 *)
LEMMA WorkerParked ==
  ASSUME Core, Core', NEW s \in Recorders, NEW b, getOrCreateWorkerCommandBuffer(s, b),
         NEW p \in Queues, NEW w \in Workers, QueueOf[s] # p \/ WorkerOf[s] # w
  PROVE  StaysParked(p, w)
<1>1. PICK q \in Queues : q = QueueOf[s]
  BY QueueAssumption
<1>2. PICK v \in Workers : v = WorkerOf[s]
  BY DEF Workers
<1>3. PICK flight2 : flight2 = m_commandBuffersInFlight
  OBVIOUS
<1>4. PICK pool2 \in [Queues -> [Workers -> Seq(Buffers)]] : pool2 = m_pool
  BY DEF Core, CoreType
<1>5. PICK pair \in Acquire(m_pool[q][v]) : m_pool' = [m_pool EXCEPT ![q][v] = pair[2]]
  BY <1>1, <1>2 DEF getOrCreateWorkerCommandBuffer
<1>6. PICK rest : rest = pair[2]
  OBVIOUS
<1>7. m_pool' = [pool2 EXCEPT ![q] = [pool2[q] EXCEPT ![v] = rest]]
  BY <1>4, <1>5, <1>6
<1>8. m_commandBuffersInFlight' = flight2 /\ Hold(s, b)
  BY <1>3 DEF getOrCreateWorkerCommandBuffer
<1>9. \A a \in Buffers : KeptIn(flight2, pool2, a, p, w)
  BY <1>3, <1>4 DEF KeptIn, Flying, InPool
<1> QED BY <1>1, <1>2, <1>7, <1>8, <1>9, HoldParked

(* Where a rejected or accepted submission leaves its buffer b, and what   *)
(* else it does.                                                           *)
Rejects(r, b) ==
  /\ m_commandBuffersInFlight' = m_commandBuffersInFlight /\ gpuQueue' = gpuQueue
  /\ \A p \in Queues, w \in Workers, a \in Buffers : InPool(a, p, w) => InPool(a, p, w)'
  /\ b # NoBuffer /\ m_recordingWorkerIndex[b] = WorkerOf[r] => InPool(b, QueueOf[r], WorkerOf[r])'

Accepts(r, b, entry) ==
  /\ m_pool' = m_pool /\ entry.buffer = b /\ entry.id = m_lastSubmittedID'[QueueOf[r]]
  /\ \A p \in Queues, a \in Buffers : Flying(a, p) => Flying(a, p)'
  /\ b # NoBuffer => /\ Flying(b, QueueOf[r])'
                     /\ m_submissionID'[b] = entry.id
  /\ \A p \in Queues : \A e \in Range(gpuQueue[p]) : e \in Range(gpuQueue'[p])
  /\ entry \in Range(gpuQueue'[QueueOf[r]])

(* The buffer of a rejected submission goes back to its pool.              *)
LEMMA SubmitRejects ==
  ASSUME Core, NEW r \in Recorders, NEW withList \in BOOLEAN, NEW after, SubmitRejected(r, withList, after),
         NEW b, b = SubmittedBuffer(r, withList)
  PROVE  Rejects(r, b)
<1>1. PICK q \in Queues : q = QueueOf[r]
  BY QueueAssumption
<1>2. /\ m_pool' = [m_pool EXCEPT ![q] = recycle(m_pool[q], DetachedList(r, withList))]
      /\ m_commandBuffersInFlight' = m_commandBuffersInFlight /\ gpuQueue' = gpuQueue
  BY <1>1 DEF SubmitRejected
<1>3. PICK list : list = DetachedList(r, withList)
  OBVIOUS
<1>4. b \in Buffers \cup {NoBuffer} /\ m_pool \in [Queues -> [Workers -> Seq(Buffers)]]
  BY DEF SubmittedBuffer, Core, CoreType
<1>5. list \in Seq(Buffers) /\ (b # NoBuffer => 1 \in DOMAIN list /\ list[1] = b)
  BY <1>3, <1>4 DEF DetachedList
<1>6. PICK pools \in [Workers -> Seq(Buffers)] : pools = m_pool[q]
  BY <1>4
<1>7. ASSUME NEW w \in Workers, NEW R, R = recycle(pools, list)[w]
      PROVE  /\ m_pool'[q][w] = R
             /\ \A k \in DOMAIN pools[w] : \E i \in DOMAIN R : R[i] = pools[w][k]
             /\ b # NoBuffer /\ m_recordingWorkerIndex[b] = w => \E i \in DOMAIN R : R[i] = b
  <2>1. m_pool'[q][w] = R
    BY <1>2, <1>3, <1>4, <1>6, <1>7
  <2>2. \A k \in DOMAIN pools[w] : \E i \in DOMAIN R : R[i] = pools[w][k]
    BY <1>5, <1>7, RecycleKeeps
  <2>3. AllOfWorker(list, w, R)
    BY <1>5, <1>7, RecycleKeeps
  <2> QED BY <1>5, <2>1, <2>2, <2>3 DEF AllOfWorker
<1>8. ASSUME NEW p \in Queues, NEW w \in Workers, NEW a \in Buffers, InPool(a, p, w) PROVE InPool(a, p, w)'
  <2>1. CASE p # q
    BY <1>2, <1>4, <1>8, <2>1 DEF InPool
  <2>2. CASE p = q
    <3>1. PICK R : R = recycle(pools, list)[w]
      OBVIOUS
    <3>2. m_pool'[q][w] = R /\ \A k \in DOMAIN pools[w] : \E i \in DOMAIN R : R[i] = pools[w][k]
      BY <1>7, <3>1
    <3> QED BY <1>6, <1>8, <2>2, <3>2 DEF InPool
  <2> QED BY <2>1, <2>2
<1>9. ASSUME b # NoBuffer, NEW w \in Workers, w = WorkerOf[r], m_recordingWorkerIndex[b] = w PROVE InPool(b, q, w)'
  <2>1. PICK R : R = recycle(pools, list)[w]
    OBVIOUS
  <2>2. m_pool'[q][w] = R /\ \E i \in DOMAIN R : R[i] = b
    BY <1>7, <1>9, <2>1
  <2> QED BY <2>2 DEF InPool
<1>10. WorkerOf[r] \in Workers
  BY DEF Workers
<1> QED BY <1>1, <1>2, <1>8, <1>9, <1>10 DEF Rejects

(* That of an accepted one is in flight under the submission's id.         *)
LEMMA SubmitAccepts ==
  ASSUME Core, NEW r \in Recorders, NEW withList \in BOOLEAN, NEW after, SubmitAccepted(r, withList, after),
         NEW b, b = SubmittedBuffer(r, withList)
  PROVE  \E entry : Accepts(r, b, entry)
<1>1. PICK q \in Queues : q = QueueOf[r]
  BY QueueAssumption
<1>2. PICK id : id = m_lastSubmittedID[q] + 1
  OBVIOUS
<1>3. PICK entry : entry = [id |-> id, buffer |-> b, waits |-> Waits(r)]
  OBVIOUS
<1>4. PICK list : list = DetachedList(r, withList)
  OBVIOUS
<1>5. /\ CanSubmit(r, withList) /\ Detach(r, withList)
      /\ m_lastSubmittedID' = [m_lastSubmittedID EXCEPT ![q] = id]
      /\ m_commandBuffersInFlight' = [m_commandBuffersInFlight EXCEPT ![q] = m_commandBuffersInFlight[q] \o list]
      /\ gpuQueue' = [gpuQueue EXCEPT ![q] = Append(gpuQueue[q], entry)]
      /\ m_pool' = m_pool
  BY <1>1, <1>2, <1>3, <1>4 DEF SubmitAccepted
<1>6. b \in Buffers \cup {NoBuffer} /\ \A c \in Buffers : c = b => m_submissionID'[c] = id
  BY <1>1, <1>2, <1>5, DetachFacts
<1>7. list \in Seq(Buffers) /\ (b # NoBuffer => 1 \in DOMAIN list /\ list[1] = b)
  BY <1>4, <1>6 DEF DetachedList
<1>8. PICK F \in Seq(Buffers) : F = m_commandBuffersInFlight[q]
  BY DEF Core, CoreType
<1>9. PICK F2 : F2 = F \o list
  OBVIOUS
<1>10. /\ \A k \in DOMAIN F : k \in DOMAIN F2 /\ F2[k] = F[k]
       /\ 1 \in DOMAIN list => Len(F) + 1 \in DOMAIN F2 /\ F2[Len(F) + 1] = list[1]
  BY <1>7, <1>9
<1>11. \A p \in Queues : m_commandBuffersInFlight'[p] = IF p = q THEN F2 ELSE m_commandBuffersInFlight[p]
  BY <1>5, <1>8, <1>9 DEF Core, CoreType
<1>12. \A p \in Queues, a \in Buffers : Flying(a, p) => Flying(a, p)'
  BY <1>8, <1>10, <1>11 DEF Flying
<1>13. b # NoBuffer => \E k \in DOMAIN F2 : F2[k] = b
  BY <1>7, <1>10
<1>14. PICK G \in Seq(Entries) : G = gpuQueue[q]
  BY DEF Core, CoreType
<1>15. PICK G2 : G2 = Append(G, entry)
  OBVIOUS
<1>16. /\ \A k \in DOMAIN G : k \in DOMAIN G2 /\ G2[k] = G[k]
       /\ Len(G) + 1 \in DOMAIN G2 /\ G2[Len(G) + 1] = entry
  BY <1>15
<1>17. \A p \in Queues : gpuQueue'[p] = IF p = q THEN G2 ELSE gpuQueue[p]
  BY <1>5, <1>14, <1>15 DEF Core, CoreType
<1>18. /\ \A p \in Queues : \A e \in Range(gpuQueue[p]) : e \in Range(gpuQueue'[p])
       /\ entry \in Range(gpuQueue'[q])
  BY <1>14, <1>16, <1>17 DEF Range
<1>19. entry.buffer = b /\ entry.id = id /\ m_lastSubmittedID'[q] = id
  BY <1>3, <1>5 DEF Core, CoreType
<1>20. b # NoBuffer => Flying(b, q)' /\ m_submissionID'[b] = id
  BY <1>6, <1>11, <1>13 DEF Flying
<1>21. Accepts(r, b, entry)
  BY <1>1, <1>5, <1>12, <1>18, <1>19, <1>20 DEF Accepts
<1> QED BY <1>21
-----------------------------------------------------------------------------
(* The steps of the manager, by who takes them.                            *)
RecorderStep(r) ==
  \/ \E fin \in 0 .. SubmissionLimit : Drops(r, fin) \/ StagePoll(r, fin) \/ BookRejected(r, fin)
  \/ Opens(r) \/ suballocateBuffer(r) \/ BookAccepted(r)
  \/ Executes(r) /\ UNCHANGED uploadVars
  \/ \E withList \in BOOLEAN : Submits(r, withList)

QueueStep(q) == Finishes(q) \/ (Completion(q) /\ UNCHANGED uploadVars)

(* What a recorder's step is to the other recorders, and when it may be    *)
(* about to book.                                                          *)
Alone(r) ==
  /\ \A s \in Recorders \ {r} : Still(s)
  /\ exec'[r].at = "book" => \E withList \in BOOLEAN : Submits(r, withList)

(* What a submission of b comes to: refused, rejected or accepted.         *)
SubmitEnds(r, withList, b, accepted, new) ==
  /\ new = [owner |-> b, accepted |-> accepted, id |-> m_lastSubmittedID'[QueueOf[r]]]
  /\ Handed(r, b, new)
  /\ \/ ~accepted /\ UNCHANGED <<reads, m_currentCmdBuf, m_commandBuffersInFlight, m_pool, m_submissionID,
                                 m_recordingWorkerIndex, gpuQueue, gpuDone>>
     \/ ~accepted /\ SubmitRejected(r, withList, After(r, withList)) /\ Forget(b)
     \/ accepted /\ SubmitAccepted(r, withList, After(r, withList)) /\ UNCHANGED reads

(* Every submission ends in one of these ways.                             *)
LEMMA SubmitsHanded ==
  ASSUME IInv, IInv', UploadShape, NEW r \in Recorders, NEW withList \in BOOLEAN, Submits(r, withList),
         NEW b, b = SubmittedBuffer(r, withList)
  PROVE  \E accepted, new : accepted \in BOOLEAN /\ SubmitEnds(r, withList, b, accepted, new)
<1>1. PICK after : after = After(r, withList)
  OBVIOUS
<1>2. ASSUME NEW accepted \in BOOLEAN, Submitted(r, withList, accepted), exec' = [exec EXCEPT ![r] = after],
             exec[r].at = "submit", m_isRecording' = m_isRecording,
             Detach(r, withList) \/ m_currentCmdBuf' = m_currentCmdBuf
      PROVE  \E new : /\ new = [owner |-> b, accepted |-> accepted, id |-> m_lastSubmittedID'[QueueOf[r]]]
                      /\ Handed(r, b, new)
  <2>1. PICK new : new = [owner |-> b, accepted |-> accepted, id |-> m_lastSubmittedID'[QueueOf[r]]]
    OBVIOUS
  <2> QED BY <1>1, <1>2, <2>1, SubmitHands
<1>3. CASE \E valid \in BOOLEAN : SubmitRefused(r, withList, valid, after) /\ Submitted(r, withList, FALSE) /\ UNCHANGED reads
  <2>1. /\ exec' = [exec EXCEPT ![r] = after] /\ exec[r].at = "submit" /\ m_isRecording' = m_isRecording
        /\ Submitted(r, withList, FALSE)
        /\ UNCHANGED <<reads, m_currentCmdBuf, m_commandBuffersInFlight, m_pool, m_submissionID,
                       m_recordingWorkerIndex, gpuQueue, gpuDone>>
    BY <1>3 DEF SubmitRefused
  <2>2. PICK new : /\ new = [owner |-> b, accepted |-> FALSE, id |-> m_lastSubmittedID'[QueueOf[r]]]
                   /\ Handed(r, b, new)
    BY <1>2, <2>1
  <2>3. PICK accepted \in BOOLEAN : accepted = FALSE
    OBVIOUS
  <2>4. SubmitEnds(r, withList, b, accepted, new)
    BY <2>3, <1>1, <1>3, <2>1, <2>2 DEF SubmitEnds
  <2> QED BY <2>4
<1>4. CASE SubmitRejected(r, withList, after) /\ Submitted(r, withList, FALSE) /\ Forget(b)
  <2>1. exec' = [exec EXCEPT ![r] = after] /\ exec[r].at = "submit" /\ m_isRecording' = m_isRecording /\ Detach(r, withList)
    BY <1>4 DEF SubmitRejected, CanSubmit
  <2>2. PICK new : /\ new = [owner |-> b, accepted |-> FALSE, id |-> m_lastSubmittedID'[QueueOf[r]]]
                   /\ Handed(r, b, new)
    BY <1>1, <1>2, <1>4, <2>1
  <2>3. PICK accepted \in BOOLEAN : accepted = FALSE
    OBVIOUS
  <2>4. SubmitEnds(r, withList, b, accepted, new)
    BY <2>3, <1>1, <1>4, <2>1, <2>2 DEF SubmitEnds
  <2> QED BY <2>4
<1>5. CASE SubmitAccepted(r, withList, after) /\ Submitted(r, withList, TRUE) /\ UNCHANGED reads
  <2>1. exec' = [exec EXCEPT ![r] = after] /\ exec[r].at = "submit" /\ m_isRecording' = m_isRecording /\ Detach(r, withList)
    BY <1>5 DEF SubmitAccepted, CanSubmit
  <2>2. PICK new : /\ new = [owner |-> b, accepted |-> TRUE, id |-> m_lastSubmittedID'[QueueOf[r]]]
                   /\ Handed(r, b, new)
    BY <1>1, <1>2, <1>5, <2>1
  <2>3. PICK accepted \in BOOLEAN : accepted = TRUE
    OBVIOUS
  <2>4. SubmitEnds(r, withList, b, accepted, new)
    BY <2>3, <1>1, <1>5, <2>1, <2>2 DEF SubmitEnds
  <2> QED BY <2>4
<1> QED BY <1>1, <1>3, <1>4, <1>5 DEF Submits

(* No recorder's step moves another recorder.                              *)
LEMMA StepsAlone ==
  ASSUME IInv, IInv', StoreInv, NEW r \in Recorders, RecorderStep(r)
  PROVE  Alone(r)
<1>0. Core /\ CallType /\ UploadShape
  BY DEF IInv, StoreInv
<1>1. ASSUME NEW fin, Drops(r, fin) PROVE Alone(r)
  <2>1. Drop(r, fin) /\ Discards(r, fin)
    BY <1>1 DEF Drops, OpenDrop, OpenFails, CloseFails
  <2>2. /\ exec'[r].at # "book" /\ \A s \in Recorders \ {r} : exec'[s] = exec[s]
    <3>1. CASE OpenDrop(r, fin)
      BY <1>0, <3>1, GotoStep DEF OpenDrop
    <3>2. CASE OpenFails(r, fin)
      BY <1>0, <3>2, GotoStep DEF OpenFails
    <3>3. CASE CloseFails(r, fin)
      BY <3>3 DEF CloseFails
    <3> QED BY <1>1, <3>1, <3>2, <3>3 DEF Drops
  <2>3. \A s \in Recorders \ {r} : m_currentCmdBuf'[s] = m_currentCmdBuf[s] /\ m_isRecording'[s] = m_isRecording[s]
    BY <1>0, <2>1 DEF Drop, Core, CoreType, CallType
  <2>4. UNCHANGED <<completedVersion, submitted>>
    BY <2>1 DEF Discards
  <2> QED BY <2>2, <2>3, <2>4 DEF Alone, Still
<1>2. ASSUME NEW fin, StagePoll(r, fin) PROVE Alone(r)
  <2>1. exec'[r].at = "stage" /\ \A s \in Recorders \ {r} : exec'[s] = exec[s]
    BY <1>0, <1>2, GotoStep DEF StagePoll
  <2>2. \A s \in Recorders \ {r} : completedVersion'[s] = completedVersion[s]
    BY <1>0, <1>2 DEF StagePoll, UploadShape
  <2>3. UNCHANGED <<m_currentCmdBuf, m_isRecording, submitted>>
    BY <1>2 DEF StagePoll
  <2> QED BY <2>1, <2>2, <2>3 DEF Alone, Still
<1>3. ASSUME Booked(r) PROVE Alone(r)
  <2>1. exec'[r].at = "idle" /\ \A s \in Recorders \ {r} : exec'[s] = exec[s]
    BY <1>0, <1>3, GotoStep DEF Booked
  <2>2. \A s \in Recorders \ {r} : submitted'[s] = submitted[s]
    BY <1>0, <1>3 DEF Booked, UploadShape
  <2>3. UNCHANGED <<m_currentCmdBuf, m_isRecording, completedVersion>>
    BY <1>3 DEF Booked
  <2> QED BY <2>1, <2>2, <2>3 DEF Alone, Still
<1>4. CASE Opens(r)
  <2>0. UNCHANGED <<completedVersion, submitted>>
    BY <1>4 DEF Opens, uploadVars
  <2>1. ASSUME NEW b, Hold(r, b) PROVE Alone(r)
    <3>1. PICK at : at = IF b = NoBuffer THEN "idle" ELSE "begin"
      OBVIOUS
    <3>2. exec'[r].at = at /\ \A s \in Recorders \ {r} : exec'[s] = exec[s]
      BY <1>0, <2>1, <3>1, GotoStep DEF Hold
    <3>3. \A s \in Recorders \ {r} : m_currentCmdBuf'[s] = m_currentCmdBuf[s]
      BY <1>0, <2>1 DEF Hold, Core, CoreType
    <3>4. m_isRecording' = m_isRecording
      BY <2>1 DEF Hold
    <3> QED BY <2>0, <3>1, <3>2, <3>3, <3>4 DEF Alone, Still
  <2>2. CASE OpenBegin(r)
    <3>1. exec'[r].at = "idle" /\ \A s \in Recorders \ {r} : exec'[s] = exec[s]
      BY <1>0, <2>2, GotoStep DEF OpenBegin
    <3>2. m_currentCmdBuf' = m_currentCmdBuf /\ \A s \in Recorders \ {r} : m_isRecording'[s] = m_isRecording[s]
      BY <1>0, <2>2 DEF OpenBegin, CallType
    <3> QED BY <2>0, <3>1, <3>2 DEF Alone, Still
  <2>3. CASE Close(r)
    <3>1. exec[r].at = "idle" /\ UNCHANGED <<m_currentCmdBuf, exec>>
      BY <2>3 DEF Close
    <3>2. \A s \in Recorders \ {r} : m_isRecording'[s] = m_isRecording[s]
      BY <1>0, <2>3 DEF Close, CallType
    <3> QED BY <2>0, <3>1, <3>2 DEF Alone, Still
  <2> QED BY <1>4, <2>1, <2>2, <2>3 DEF Opens, getOrCreateDirectCommandBuffer, getOrCreateWorkerCommandBuffer
<1>5. CASE suballocateBuffer(r)
  <2>1. exec'[r].at = "idle" /\ \A s \in Recorders \ {r} : exec'[s] = exec[s]
    BY <1>0, <1>5, GotoStep DEF suballocateBuffer
  <2>2. \A s \in Recorders \ {r} : completedVersion'[s] = completedVersion[s]
    BY <1>0, <1>5 DEF suballocateBuffer, UploadShape
  <2>3. UNCHANGED <<m_currentCmdBuf, m_isRecording, submitted>>
    BY <1>5 DEF suballocateBuffer
  <2> QED BY <2>1, <2>2, <2>3 DEF Alone, Still
<1>6. CASE Executes(r) /\ UNCHANGED uploadVars
  <2>1. PICK tokens \in SomeTokens : Execute(r, tokens)
    BY <1>6 DEF Executes
  <2>2. exec'[r].at = "submit" /\ \A s \in Recorders \ {r} : exec'[s] = exec[s]
    BY <1>0, <2>1 DEF Execute, CallType
  <2>3. UNCHANGED <<m_currentCmdBuf, m_isRecording, submitted, completedVersion>>
    BY <1>6, <2>1 DEF Execute, uploadVars
  <2> QED BY <2>2, <2>3 DEF Alone, Still
<1>7. ASSUME NEW withList \in BOOLEAN, Submits(r, withList) PROVE Alone(r)
  <2>1. PICK b : b = SubmittedBuffer(r, withList)
    OBVIOUS
  <2>2. \E new : Handed(r, b, new)
    BY <1>0, <1>7, <2>1, SubmitsHanded DEF SubmitEnds
  <2> QED BY <1>7, <2>2 DEF Handed, Alone
<1> QED BY <1>1, <1>2, <1>3, <1>4, <1>5, <1>6, <1>7 DEF RecorderStep, BookRejected, BookAccepted

(* No recorder's step takes a buffer from another's pool or from flight.   *)
LEMMA StepsPark ==
  ASSUME IInv, IInv', NEW r \in Recorders, RecorderStep(r), NEW p \in Queues, NEW w \in Workers,
         QueueOf[r] # p \/ WorkerOf[r] # w
  PROVE  StaysParked(p, w)
<1>0. Core /\ Core'
  BY DEF IInv
<1>1. ASSUME NEW fin, Drops(r, fin) PROVE StaysParked(p, w)
  BY <1>0, <1>1, DropParked DEF Drops, OpenDrop, OpenFails, CloseFails
<1>2. ASSUME UNCHANGED <<m_commandBuffersInFlight, m_pool, m_submissionID, m_recordingWorkerIndex>>
      PROVE  StaysParked(p, w)
  BY <1>0, <1>2, ParkedSame
<1>3. ASSUME NEW fin, StagePoll(r, fin) PROVE StaysParked(p, w)
  BY <1>2, <1>3 DEF StagePoll
<1>4. ASSUME Booked(r) PROVE StaysParked(p, w)
  BY <1>2, <1>4 DEF Booked
<1>5. CASE Opens(r)
  <2>1. ASSUME NEW fin, NEW b, getOrCreateDirectCommandBuffer(r, fin, b) PROVE StaysParked(p, w)
    BY <1>0, <2>1, DirectParked
  <2>2. ASSUME NEW b, getOrCreateWorkerCommandBuffer(r, b) PROVE StaysParked(p, w)
    BY <1>0, <2>2, WorkerParked
  <2>3. CASE OpenBegin(r) \/ Close(r)
    BY <1>2, <2>3 DEF OpenBegin, Close
  <2> QED BY <1>5, <2>1, <2>2, <2>3 DEF Opens
<1>6. CASE suballocateBuffer(r)
  BY <1>2, <1>6 DEF suballocateBuffer
<1>7. CASE Executes(r)
  BY <1>2, <1>7 DEF Executes, Execute
<1>8. ASSUME NEW withList \in BOOLEAN, Submits(r, withList) PROVE StaysParked(p, w)
  <2>1. PICK after : after = After(r, withList)
    OBVIOUS
  <2>2. PICK b : b = SubmittedBuffer(r, withList)
    OBVIOUS
  <2>3. ASSUME NEW valid, SubmitRefused(r, withList, valid, after) PROVE StaysParked(p, w)
    BY <1>2, <2>3 DEF SubmitRefused
  <2>4. ASSUME CanSubmit(r, withList), Detach(r, withList)
        PROVE  \A a \in Buffers : Parked(a, p, w) => m_submissionID'[a] = m_submissionID[a]
    <3>1. /\ b # NoBuffer => b = m_currentCmdBuf[r]
          /\ \A c \in Buffers : c # b => m_submissionID'[c] = m_submissionID[c]
      BY <1>0, <2>2, <2>4, DetachFacts
    <3>2. \A a \in Buffers : Parked(a, p, w) => m_currentCmdBuf[r] # a
      BY <1>0, ParkedElsewhere
    <3> QED BY <3>1, <3>2, QueueAssumption
  <2>5. CASE SubmitRejected(r, withList, after)
    <3>1. Rejects(r, b)
      BY <1>0, <2>2, <2>5, SubmitRejects
    <3>2. m_commandBuffersInFlight' = m_commandBuffersInFlight /\ \A a \in Buffers : InPool(a, p, w) => InPool(a, p, w)'
      BY <3>1 DEF Rejects
    <3>3. m_recordingWorkerIndex' = m_recordingWorkerIndex /\ CanSubmit(r, withList) /\ Detach(r, withList)
      BY <2>5 DEF SubmitRejected
    <3>4. \A a \in Buffers : Parked(a, p, w) => m_submissionID'[a] = m_submissionID[a]
      BY <2>4, <3>3
    <3>5. \A a \in Buffers : Flying(a, p) => Flying(a, p)'
      BY <3>2 DEF Flying
    <3> QED BY <3>2, <3>3, <3>4, <3>5 DEF StaysParked, Parked
  <2>6. CASE SubmitAccepted(r, withList, after)
    <3>1. PICK entry : Accepts(r, b, entry)
      BY <1>0, <2>2, <2>6, SubmitAccepts
    <3>2. m_pool' = m_pool /\ \A a \in Buffers : Flying(a, p) => Flying(a, p)'
      BY <3>1 DEF Accepts
    <3>3. m_recordingWorkerIndex' = m_recordingWorkerIndex /\ CanSubmit(r, withList) /\ Detach(r, withList)
      BY <2>6 DEF SubmitAccepted
    <3>4. \A a \in Buffers : Parked(a, p, w) => m_submissionID'[a] = m_submissionID[a]
      BY <2>4, <3>3
    <3>5. \A a \in Buffers : InPool(a, p, w) => InPool(a, p, w)'
      BY <3>2 DEF InPool
    <3> QED BY <3>2, <3>3, <3>4, <3>5 DEF StaysParked, Parked
  <2> QED BY <1>8, <2>1, <2>3, <2>5, <2>6 DEF Submits
<1> QED BY <1>1, <1>3, <1>4, <1>5, <1>6, <1>7, <1>8 DEF RecorderStep, BookRejected, BookAccepted

(* What BookOf says of the state after a step.                             *)
LEMMA WillBook ==
  ASSUME NEW s \in Recorders, NEW o, NEW b, NEW q, NEW w,
         exec'[s].at = "book" => /\ o = submitted'[s] /\ b = o.owner /\ q = QueueOf[s] /\ w = WorkerOf[s]
                                 /\ o.accepted => Parked(b, q, w)' /\ m_submissionID'[b] = o.id
                                 /\ ~o.accepted => m_currentCmdBuf'[s] = b \/ InPool(b, q, w)'
  PROVE  BookOf(s)'
BY DEF BookOf, Parked, InPool, Flying

(* Submitted buffers stay where they wait until they are booked.           *)
LEMMA RecorderBooks ==
  ASSUME OneDirectRecorder, IInv, IInv', StoreInv, BookOK, PolledOK, NEW r \in Recorders, RecorderStep(r)
  PROVE  BookOK'
<1>0. Core /\ CallType /\ UploadShape /\ CallsOK
  BY DEF IInv, StoreInv
<1>1. Alone(r)
  BY StepsAlone
<1>2. ASSUME NEW s \in Recorders, s # r PROVE BookOf(s)'
  <2>1. Still(s) /\ BookOf(s)
    BY <1>1, <1>2 DEF Alone, BookOK
  <2>2. SUFFICES ASSUME exec'[s].at = "book" PROVE BookOf(s)'
    BY DEF BookOf
  <2>3. PICK o \in Outcomes : o = submitted[s] /\ o = submitted'[s]
    BY <1>0, <2>1 DEF UploadShape, Still
  <2>4. PICK b \in Buffers : b = o.owner
    BY <1>0, <2>1, <2>2, <2>3 DEF CallsOK, CallOK, Still, Outcomes
  <2>5. PICK q \in Queues : q = QueueOf[s]
    BY QueueAssumption
  <2>6. PICK w \in Workers : w = WorkerOf[s]
    BY DEF Workers
  <2>7. StaysParked(q, w)
    BY <1>2, <2>5, <2>6, StepsPark DEF OneDirectRecorder
  <2>8. /\ Parked(b, q, w) => Parked(b, q, w)' /\ m_submissionID'[b] = m_submissionID[b]
        /\ InPool(b, q, w) => InPool(b, q, w)'
    BY <2>7 DEF StaysParked
  <2>9. /\ o.accepted => Parked(b, q, w) /\ m_submissionID[b] = o.id
        /\ ~o.accepted => m_currentCmdBuf[s] = b \/ InPool(b, q, w)
    BY <2>1, <2>2, <2>3, <2>4, <2>5, <2>6 DEF BookOf, Still
  <2>10. /\ o.accepted => Parked(b, q, w)' /\ m_submissionID'[b] = o.id
         /\ ~o.accepted => m_currentCmdBuf'[s] = b \/ InPool(b, q, w)'
    BY <2>1, <2>8, <2>9 DEF Still
  <2> QED BY <2>3, <2>4, <2>5, <2>6, <2>10, WillBook
<1>3. BookOf(r)'
  <2>1. SUFFICES ASSUME exec'[r].at = "book" PROVE BookOf(r)'
    BY DEF BookOf
  <2>2. PICK withList \in BOOLEAN : Submits(r, withList)
    BY <1>1, <2>1 DEF Alone
  <2>3. PICK b : b = SubmittedBuffer(r, withList)
    OBVIOUS
  <2>4. PICK accepted, new : accepted \in BOOLEAN /\ SubmitEnds(r, withList, b, accepted, new)
    BY <1>0, <2>2, <2>3, SubmitsHanded
  <2>5. b # NoBuffer /\ b = m_currentCmdBuf[r] /\ submitted'[r] = new
    BY <2>1, <2>4 DEF Handed, SubmitEnds
  <2>6. new.owner = b /\ new.accepted = accepted /\ new.id = m_lastSubmittedID'[QueueOf[r]]
    BY <2>4 DEF SubmitEnds
  <2>7. b \in Buffers /\ m_recordingWorkerIndex[b] = WorkerOf[r]
    BY <1>0, <2>5 DEF PolledOK, PolledOf, Core, CoreType
  <2>8. PICK after : after = After(r, withList)
    OBVIOUS
  <2>q. PICK q \in Queues : q = QueueOf[r]
    BY QueueAssumption
  <2>w. PICK w \in Workers : w = WorkerOf[r]
    BY DEF Workers
  <2>9. CASE ~accepted /\ UNCHANGED m_currentCmdBuf
    BY <2>5, <2>6, <2>9, <2>q, <2>w, WillBook
  <2>10. CASE ~accepted /\ SubmitRejected(r, withList, after)
    <3>1. Rejects(r, b)
      BY <1>0, <2>3, <2>10, SubmitRejects
    <3>2. InPool(b, q, w)'
      BY <2>5, <2>7, <2>q, <2>w, <3>1 DEF Rejects
    <3> QED BY <2>5, <2>6, <2>10, <2>q, <2>w, <3>2, WillBook
  <2>11. CASE accepted /\ SubmitAccepted(r, withList, after)
    <3>1. PICK entry : Accepts(r, b, entry)
      BY <1>0, <2>3, <2>11, SubmitAccepts
    <3>2. Flying(b, q)' /\ m_submissionID'[b] = new.id
      BY <2>5, <2>6, <2>q, <3>1 DEF Accepts
    <3>3. m_recordingWorkerIndex'[b] = w
      BY <2>7, <2>11, <2>w DEF SubmitAccepted
    <3>4. Parked(b, q, w)'
      BY <3>2, <3>3 DEF Parked
    <3> QED BY <2>5, <2>6, <2>11, <2>q, <2>w, <3>2, <3>4, WillBook
  <2> QED BY <2>4, <2>8, <2>9, <2>10, <2>11 DEF SubmitEnds
<1> QED BY <1>2, <1>3 DEF BookOK

(* So they do when the GPU finishes a submission or the queue collects.    *)
LEMMA QueueBooks ==
  ASSUME IInv, StoreInv, BookOK, NEW q \in Queues, QueueStep(q)
  PROVE  BookOK'
<1>0. Core /\ UploadShape /\ CallsOK
  BY DEF IInv, StoreInv
<1>1. UNCHANGED <<exec, submitted, m_currentCmdBuf>>
  BY DEF QueueStep, Finishes, GpuFinish, Completion, uploadVars, queueGetCompletedInstance,
         runGarbageCollection, waitForIdle, Collect
<1>2. ASSUME NEW p \in Queues, NEW w \in Workers PROVE StaysParked(p, w)
  <2>1. ASSUME UNCHANGED <<m_commandBuffersInFlight, m_pool, m_submissionID, m_recordingWorkerIndex>>
        PROVE  StaysParked(p, w)
    BY <1>0, <2>1, ParkedSame
  <2>2. ASSUME NEW fin \in 0 .. SubmissionLimit, Collect(q, fin) PROVE StaysParked(p, w)
    BY <1>0, <2>2, CollectParked
  <2>3. CASE Finishes(q)
    BY <2>1, <2>3 DEF Finishes, GpuFinish
  <2>4. CASE Completion(q)
    BY <2>1, <2>2, <2>4 DEF Completion, queueGetCompletedInstance, runGarbageCollection, waitForIdle
  <2> QED BY <2>3, <2>4 DEF QueueStep
<1>3. ASSUME NEW s \in Recorders PROVE BookOf(s)'
  <2>1. BookOf(s)
    BY DEF BookOK
  <2>2. SUFFICES ASSUME exec'[s].at = "book" PROVE BookOf(s)'
    BY DEF BookOf
  <2>3. PICK o \in Outcomes : o = submitted[s] /\ o = submitted'[s]
    BY <1>0, <1>1 DEF UploadShape
  <2>4. PICK b \in Buffers : b = o.owner
    BY <1>0, <1>1, <2>2, <2>3 DEF CallsOK, CallOK, Outcomes
  <2>5. PICK p \in Queues : p = QueueOf[s]
    BY QueueAssumption
  <2>6. PICK w \in Workers : w = WorkerOf[s]
    BY DEF Workers
  <2>7. StaysParked(p, w)
    BY <1>2
  <2>8. /\ Parked(b, p, w) => Parked(b, p, w)' /\ m_submissionID'[b] = m_submissionID[b]
        /\ InPool(b, p, w) => InPool(b, p, w)'
    BY <2>7 DEF StaysParked
  <2>9. /\ o.accepted => Parked(b, p, w) /\ m_submissionID[b] = o.id
        /\ ~o.accepted => m_currentCmdBuf[s] = b \/ InPool(b, p, w)
    BY <1>1, <2>1, <2>2, <2>3, <2>4, <2>5, <2>6 DEF BookOf
  <2>10. /\ o.accepted => Parked(b, p, w)' /\ m_submissionID'[b] = o.id
         /\ ~o.accepted => m_currentCmdBuf'[s] = b \/ InPool(b, p, w)'
    BY <1>1, <2>8, <2>9
  <2> QED BY <2>3, <2>4, <2>5, <2>6, <2>10, WillBook
<1> QED BY <1>3 DEF BookOK

(* A recorder's step marks at most the buffer it gives up or takes, and    *)
(* what its poll read is true.                                             *)
Marks(r) ==
  /\ gpuDone' = gpuDone
  /\ \A a \in Buffers : \/ m_recordingWorkerIndex'[a] = m_recordingWorkerIndex[a]
                        \/ a = m_currentCmdBuf[r] \/ a = m_currentCmdBuf'[r]
  /\ PolledOf(r)'

(* It does so if it leaves the marks, the recorder's buffer and the value  *)
(* it polled alone.                                                        *)
LEMMA SameMarks ==
  ASSUME PolledOK, NEW r \in Recorders, UNCHANGED <<m_recordingWorkerIndex, gpuDone>>,
         completedVersion'[r] = completedVersion[r], m_currentCmdBuf'[r] \in {m_currentCmdBuf[r], NoBuffer}
  PROVE  Marks(r)
BY DEF Marks, PolledOK, PolledOf

(* Every step of a recorder does so.                                       *)
LEMMA StepsMark ==
  ASSUME IInv, IInv', StoreInv, PolledOK, NEW r \in Recorders, RecorderStep(r)
  PROVE  Marks(r)
<1>0. Core /\ Core' /\ CallType /\ UploadShape
  BY DEF IInv, StoreInv
<1>1. PICK q \in Queues : q = QueueOf[r]
  BY QueueAssumption
<1>2. completedVersion[r] <= gpuDone[q] /\ gpuDone[q] \in 0 .. SubmissionLimit /\ SubmissionLimit \in Nat
  BY <1>0, <1>1, QueueAssumption DEF PolledOK, PolledOf, Core, CoreType
<1>3. ASSUME NEW fin, Drops(r, fin) PROVE Marks(r)
  <2>1. Drop(r, fin) /\ Discards(r, fin)
    BY <1>3 DEF Drops, OpenDrop, OpenFails, CloseFails
  <2>2. m_currentCmdBuf'[r] = NoBuffer
    BY <1>0, <2>1 DEF Drop, Core, CoreType
  <2>3. /\ gpuDone' = gpuDone /\ completedVersion' = completedVersion
        /\ \A a \in Buffers : a # m_currentCmdBuf[r] => m_recordingWorkerIndex'[a] = m_recordingWorkerIndex[a]
    BY <2>1 DEF Drop, Discards
  <2>4. PolledOf(r)'
    BY <1>1, <1>2, <2>2, <2>3 DEF PolledOf
  <2> QED BY <2>3, <2>4 DEF Marks
<1>4. ASSUME NEW fin, StagePoll(r, fin) PROVE Marks(r)
  <2>1. UNCHANGED <<m_currentCmdBuf, m_recordingWorkerIndex, gpuDone>> /\ fin \in updateLastFinishedID(q)
    BY <1>1, <1>4 DEF StagePoll
  <2>2. completedVersion'[r] = fin
    BY <1>0, <1>4 DEF StagePoll, UploadShape
  <2>3. fin <= gpuDone[q]
    BY <1>0, <2>1, PollValues DEF Core
  <2>4. PolledOf(r)'
    BY <1>1, <2>1, <2>2, <2>3 DEF PolledOK, PolledOf
  <2> QED BY <2>1, <2>4 DEF Marks
<1>5. ASSUME Booked(r) PROVE Marks(r)
  BY <1>5, SameMarks DEF Booked
<1>6. CASE Opens(r)
  <2>0. completedVersion' = completedVersion
    BY <1>6 DEF Opens, uploadVars
  <2>1. ASSUME NEW b \in Buffers \cup {NoBuffer}, Hold(r, b) PROVE Marks(r)
    <3>1. m_currentCmdBuf'[r] = b /\ gpuDone' = gpuDone
      BY <1>0, <2>1 DEF Hold, Core, CoreType
    <3>2. CASE b = NoBuffer
      <4>1. m_recordingWorkerIndex' = m_recordingWorkerIndex
        BY <2>1, <3>2 DEF Hold
      <4> QED BY <2>0, <3>1, <3>2, <4>1, SameMarks
    <3>3. CASE b # NoBuffer
      <4>1. m_recordingWorkerIndex' = [m_recordingWorkerIndex EXCEPT ![b] = WorkerOf[r]]
        BY <2>1, <3>3 DEF Hold
      <4>2. \A a \in Buffers : m_recordingWorkerIndex'[a] = IF a = b THEN WorkerOf[r] ELSE m_recordingWorkerIndex[a]
        BY <1>0, <4>1 DEF Core, CoreType
      <4>3. PolledOf(r)'
        BY <1>1, <1>2, <2>0, <2>1, <3>1, <3>3, <4>2 DEF PolledOf
      <4> QED BY <3>1, <4>2, <4>3 DEF Marks
    <3> QED BY <3>2, <3>3
  <2>2. CASE OpenBegin(r) \/ Close(r)
    BY <2>0, <2>2, SameMarks DEF OpenBegin, Close
  <2> QED BY <1>6, <2>1, <2>2 DEF Opens, getOrCreateDirectCommandBuffer, getOrCreateWorkerCommandBuffer
<1>7. CASE suballocateBuffer(r)
  <2>1. UNCHANGED <<m_currentCmdBuf, m_recordingWorkerIndex, gpuDone>>
    BY <1>7 DEF suballocateBuffer
  <2>2. completedVersion'[r] = 0
    BY <1>0, <1>7 DEF suballocateBuffer, UploadShape
  <2>3. 0 <= gpuDone[q]
    BY <1>2
  <2>4. PolledOf(r)'
    BY <1>1, <2>1, <2>2, <2>3 DEF PolledOK, PolledOf
  <2> QED BY <2>1, <2>4 DEF Marks
<1>8. CASE Executes(r) /\ UNCHANGED uploadVars
  BY <1>8, SameMarks DEF Executes, Execute, uploadVars
<1>9. ASSUME NEW withList \in BOOLEAN, Submits(r, withList) PROVE Marks(r)
  <2>1. PICK b : b = SubmittedBuffer(r, withList)
    OBVIOUS
  <2>2. \E new : Handed(r, b, new)
    BY <1>0, <1>9, <2>1, SubmitsHanded DEF SubmitEnds
  <2>3. m_currentCmdBuf'[r] \in {m_currentCmdBuf[r], NoBuffer} /\ completedVersion' = completedVersion
    BY <2>2 DEF Handed
  <2>4. UNCHANGED <<m_recordingWorkerIndex, gpuDone>>
    BY <1>9 DEF Submits, SubmitRefused, SubmitRejected, SubmitAccepted
  <2> QED BY <2>3, <2>4, SameMarks
<1> QED BY <1>3, <1>4, <1>5, <1>6, <1>7, <1>8, <1>9 DEF RecorderStep, BookRejected, BookAccepted

(* Polled values stay true, and the lists' buffers marked.                 *)
LEMMA RecorderPolls ==
  ASSUME IInv, IInv', StoreInv, PolledOK, NEW r \in Recorders, RecorderStep(r)
  PROVE  PolledOK'
<1>1. Marks(r) /\ Alone(r)
  BY StepsMark, StepsAlone
<1>2. ASSUME NEW s \in Recorders, s # r PROVE PolledOf(s)'
  <2>1. PolledOf(s) /\ Still(s)
    BY <1>1, <1>2 DEF PolledOK, Alone
  <2>2. completedVersion'[s] <= gpuDone'[QueueOf[s]]
    BY <1>1, <2>1 DEF PolledOf, Still, Marks
  <2>3. ASSUME NEW b, b = m_currentCmdBuf[s], b # NoBuffer PROVE m_recordingWorkerIndex'[b] = m_recordingWorkerIndex[b]
    <3>1. b \in Buffers
      BY <2>3 DEF IInv, Core, CoreType
    <3>2. b # m_currentCmdBuf[r]
      BY <1>2, <2>3 DEF IInv, Core, Placed, OnePlace
    <3>3. b # m_currentCmdBuf'[r]
      BY <1>2, <2>1, <2>3 DEF IInv, Core, Placed, OnePlace, Still
    <3> QED BY <1>1, <3>1, <3>2, <3>3 DEF Marks
  <2> QED BY <2>1, <2>2, <2>3 DEF PolledOf, Still
<1>3. PolledOf(r)'
  BY <1>1 DEF Marks
<1> QED BY <1>2, <1>3 DEF PolledOK

(* The timeline only grows.                                                *)
LEMMA QueuePolls ==
  ASSUME IInv, StoreInv, PolledOK, NEW q \in Queues, QueueStep(q)
  PROVE  PolledOK'
<1>0. Core /\ UploadShape
  BY DEF IInv, StoreInv
<1>1. UNCHANGED <<completedVersion, m_currentCmdBuf, m_recordingWorkerIndex>>
  BY DEF QueueStep, Finishes, GpuFinish, Completion, uploadVars, queueGetCompletedInstance,
         runGarbageCollection, waitForIdle, Collect
<1>2. \A p \in Queues : gpuDone[p] \in Nat /\ gpuDone'[p] \in Nat /\ gpuDone[p] <= gpuDone'[p]
  <2>0. \A p \in Queues : gpuDone[p] \in Nat
    BY <1>0, QueueAssumption DEF Core, CoreType
  <2>1. CASE Completion(q)
    <3>1. gpuDone' = gpuDone
      BY <2>1 DEF Completion, queueGetCompletedInstance, runGarbageCollection, waitForIdle, Collect
    <3> QED BY <2>0, <3>1
  <2>2. CASE Finishes(q)
    <3>1. PICK queue \in Seq(Entries) : queue = gpuQueue[q]
      BY <1>0 DEF Core, CoreType
    <3>2. PICK e : e = Head(queue)
      OBVIOUS
    <3>3. queue # <<>> /\ gpuDone' = [gpuDone EXCEPT ![q] = e.id]
      BY <2>2, <3>1, <3>2 DEF Finishes, GpuFinish
    <3>4. e \in Range(gpuQueue[q])
      BY <3>1, <3>2, <3>3 DEF Range
    <3>5. e.id \in Nat /\ e.id > gpuDone[q]
      BY <1>0, <3>4, EntryFacts
    <3>6. \A p \in Queues : gpuDone'[p] = IF p = q THEN e.id ELSE gpuDone[p]
      BY <1>0, <3>3 DEF Core, CoreType
    <3> QED BY <2>0, <3>5, <3>6
  <2> QED BY <2>1, <2>2 DEF QueueStep
<1>3. ASSUME NEW s \in Recorders PROVE PolledOf(s)'
  <2>1. PICK p \in Queues : p = QueueOf[s]
    BY QueueAssumption
  <2>2. completedVersion[s] \in 0 .. SubmissionLimit /\ SubmissionLimit \in Nat
    BY <1>0, QueueAssumption DEF UploadShape
  <2>3. completedVersion[s] <= gpuDone[p]
    BY <2>1 DEF PolledOK, PolledOf
  <2>4. completedVersion[s] <= gpuDone'[p]
    BY <1>2, <2>2, <2>3
  <2> QED BY <1>1, <2>1, <2>4 DEF PolledOK, PolledOf
<1> QED BY <1>3 DEF PolledOK
-----------------------------------------------------------------------------
(* What the copies read.                                                   *)

(* The buffer's copies are forgotten, or the same and what they read is    *)
(* still theirs.                                                           *)
ReadsKept(a) ==
  \/ reads'[a] = <<>>
  \/ /\ reads'[a] = reads[a] /\ (Unread(a) => Unread(a)')
     /\ \A c, o : Backed(a, c, o) => Backed(a, c, o)'

(* The submissions that execute the buffer are still under way.            *)
EntriesKept(a) ==
  \A p \in Queues : \A e \in Range(gpuQueue[p]) : e.buffer = a => e \in Range(gpuQueue'[p])

(* The copies are in order if those of every buffer are kept.              *)
LEMMA ReadsStep ==
  ASSUME ReadsOK, \A a \in Buffers : ReadsKept(a)
  PROVE  ReadsOK'
<1>1. ASSUME NEW a \in Buffers, NEW i \in DOMAIN reads'[a]
      PROVE  /\ reads'[a] = reads[a] /\ (Unread(a) => Unread(a)')
             /\ \A c, o : Backed(a, c, o) => Backed(a, c, o)'
  <2>1. reads'[a] # <<>>
    BY <1>1
  <2> QED BY <2>1 DEF ReadsKept
<1>2. \A b \in Buffers : \A i, j \in DOMAIN reads'[b] : reads'[b][i] = reads'[b][j] => i = j
  BY <1>1 DEF ReadsOK
<1>3. \A a, b \in Buffers : \A i \in DOMAIN reads'[a], j \in DOMAIN reads'[b] :
        reads'[a][i][1] = reads'[b][j][1] => a = b
  BY <1>1 DEF ReadsOK
<1>4. ASSUME NEW b \in Buffers, NEW i \in DOMAIN reads'[b],
             NEW c, c = reads'[b][i][1], NEW o, o = reads'[b][i][2]
      PROVE  Backed(b, c, o)' /\ Unread(b)'
  <2>1. reads'[b] = reads[b] /\ (Unread(b) => Unread(b)') /\ (Backed(b, c, o) => Backed(b, c, o)')
    BY <1>1, <1>4
  <2>2. Backed(b, c, o) /\ Unread(b)
    BY <1>4, <2>1 DEF ReadsOK
  <2> QED BY <2>1, <2>2
<1>5. ASSUME NEW b \in Buffers, NEW i \in DOMAIN reads'[b]
      PROVE  (Backed(b, reads[b][i][1], reads[b][i][2]) /\ Unread(b))'
  <2>1. PICK c, o : c = reads'[b][i][1] /\ o = reads'[b][i][2]
    OBVIOUS
  <2>2. Backed(b, c, o)' /\ Unread(b)'
    BY <1>4, <2>1
  <2> QED BY <2>1, <2>2 DEF Backed
<1> QED BY <1>2, <1>3, <1>5 DEF ReadsOK

(* They are if what backs them is left alone.                              *)
LEMMA KeepsReads ==
  ASSUME UploadShape, NEW a \in Buffers, reads'[a] = reads[a], OnList(a) => Unread(a)', EntriesKept(a),
         \A c \in DOMAIN chunk : chunk[c].owner \in {a, NoBuffer} => c \in DOMAIN chunk' /\ chunk'[c] = chunk[c]
  PROVE  ReadsKept(a)
<1>1. Unread(a) => Unread(a)'
  <2>1. ASSUME NEW p \in Queues, NEW e \in Range(gpuQueue[p]), e.buffer = a PROVE Unread(a)'
    BY <2>1 DEF EntriesKept, Unread
  <2> QED BY <2>1 DEF Unread
<1>2. ASSUME NEW c, NEW o, Backed(a, c, o) PROVE Backed(a, c, o)'
  <2>1. c \in DOMAIN chunk /\ chunk[c].owner \in {a, NoBuffer}
    BY <1>2 DEF Backed
  <2>2. c \in DOMAIN chunk' /\ chunk'[c] = chunk[c] /\ chunk[c] \in Fields
    BY <2>1 DEF UploadShape
  <2>3. chunk[c].physicalQueue \in Queues
    BY <2>2 DEF Fields
  <2>4. CASE chunk[c].owner = a /\ o < chunk[c].allocated
    BY <2>2, <2>4 DEF Backed
  <2>5. ASSUME chunk[c].owner = NoBuffer, NEW e \in Range(gpuQueue[chunk[c].physicalQueue]), e.buffer = a,
               e.id <= chunk[c].version
        PROVE  Backed(a, c, o)'
    <3>1. e \in Range(gpuQueue'[chunk[c].physicalQueue])
      BY <2>3, <2>5 DEF EntriesKept
    <3> QED BY <2>2, <2>5, <3>1 DEF Backed
  <2> QED BY <1>2, <2>4, <2>5 DEF Backed
<1> QED BY <1>1, <1>2 DEF ReadsKept

(* A step that leaves chunks, copies and submissions alone.                *)
LEMMA ReadsQuiet ==
  ASSUME UploadShape, ReadsOK, UNCHANGED <<chunk, reads, gpuQueue>>,
         \A a \in Buffers : OnList(a) => OnList(a)'
  PROVE  ReadsOK'
<1>1. ASSUME NEW a \in Buffers PROVE ReadsKept(a)
  <2>1. EntriesKept(a)
    BY DEF EntriesKept
  <2>2. OnList(a) => Unread(a)'
    BY DEF Unread
  <2> QED BY <2>1, <2>2, KeepsReads
<1> QED BY <1>1, ReadsStep

(* Chunks of b that are settled are none of another buffer's.              *)
LEMMA SettledOthers ==
  ASSUME UploadShape, NEW q, NEW b \in Buffers, NEW v, Settled(q, b, v), NEW a \in Buffers, a # b,
         NEW c \in DOMAIN chunk, chunk[c].owner \in {a, NoBuffer}
  PROVE  c \in DOMAIN chunk' /\ chunk'[c] = chunk[c]
<1>1. chunk[c].owner # b
  BY QueueAssumption
<1> QED BY <1>1 DEF Settled

(* A list gives up its buffer: its copies are forgotten.                   *)
LEMMA DropsReads ==
  ASSUME IInv, StoreInv, ReadsOK, NEW r \in Recorders, NEW fin, Drops(r, fin)
  PROVE  ReadsOK'
<1>0. Core /\ UploadShape /\ ChunksOK
  BY DEF IInv, StoreInv
<1>1. Drop(r, fin) /\ Discards(r, fin)
  BY DEF Drops, OpenDrop, OpenFails, CloseFails
<1>2. PICK b \in Buffers \cup {NoBuffer} : b = m_currentCmdBuf[r]
  BY <1>0 DEF Core, CoreType
<1>3. PICK q \in Queues : q = QueueOf[r]
  BY QueueAssumption
<1>4. fin \in 0 .. SubmissionLimit
  <2>1. fin \in updateLastFinishedID(q) \/ fin = m_lastFinishedID[q]
    BY <1>1, <1>3 DEF Drop, DiscardPoll
  <2> QED BY <1>0, <2>1, PollValues DEF Core
<1>5. discardChunks(q, b, fin) /\ Forget(b)
  BY <1>1, <1>2, <1>3 DEF Discards
<1>6. (b # NoBuffer /\ Settled(q, b, fin)) \/ (b = NoBuffer /\ KeepChunks)
  BY <1>0, <1>4, <1>5, DiscardSettles
<1>7. \A a \in Buffers : reads'[a] = IF a = b THEN <<>> ELSE reads[a]
  BY <1>0, <1>5, ForgetShape
<1>8. gpuQueue' = gpuQueue /\ \A s \in Recorders \ {r} : m_currentCmdBuf'[s] = m_currentCmdBuf[s]
  BY <1>0, <1>1 DEF Drop, Core, CoreType
<1>9. ASSUME NEW a \in Buffers, a # b PROVE ReadsKept(a)
  <2>1. EntriesKept(a)
    BY <1>8 DEF EntriesKept
  <2>2. OnList(a) => Unread(a)'
    BY <1>2, <1>8, <1>9 DEF OnList, Unread
  <2>3. \A c \in DOMAIN chunk : chunk[c].owner \in {a, NoBuffer} => c \in DOMAIN chunk' /\ chunk'[c] = chunk[c]
    <3>1. CASE b # NoBuffer /\ Settled(q, b, fin)
      BY <1>0, <1>9, <3>1, SettledOthers
    <3>2. CASE KeepChunks
      BY <3>2 DEF KeepChunks
    <3> QED BY <1>6, <3>1, <3>2
  <2> QED BY <1>0, <1>7, <1>9, <2>1, <2>2, <2>3, KeepsReads
<1>10. \A a \in Buffers : ReadsKept(a)
  BY <1>7, <1>9 DEF ReadsKept
<1> QED BY <1>10, ReadsStep

(* A submission: the copies of a rejected one are forgotten, those of an   *)
(* accepted one are to be made.                                            *)
LEMMA SubmitsReads ==
  ASSUME IInv, IInv', StoreInv, ReadsOK, NEW r \in Recorders, NEW withList \in BOOLEAN, Submits(r, withList)
  PROVE  ReadsOK'
<1>0. Core /\ UploadShape
  BY DEF IInv, StoreInv
<1>1. PICK b : b = SubmittedBuffer(r, withList)
  OBVIOUS
<1>2. PICK accepted, new : accepted \in BOOLEAN /\ SubmitEnds(r, withList, b, accepted, new)
  BY <1>0, <1>1, SubmitsHanded
<1>3. Handed(r, b, new)
  BY <1>2 DEF SubmitEnds
<1>4. chunk' = chunk /\ (\A s \in Recorders \ {r} : m_currentCmdBuf'[s] = m_currentCmdBuf[s])
      /\ (b # NoBuffer => b = m_currentCmdBuf[r]) /\ (b = NoBuffer => m_currentCmdBuf'[r] = m_currentCmdBuf[r])
  BY <1>3 DEF Handed, Still
<1>5. PICK after : after = After(r, withList)
  OBVIOUS
<1>6. \A a \in Buffers : a # b /\ OnList(a) => OnList(a)'
  BY <1>4 DEF OnList
<1>7. \A a \in Buffers, c \in DOMAIN chunk : c \in DOMAIN chunk' /\ chunk'[c] = chunk[c]
  BY <1>4
<1>8. CASE UNCHANGED <<reads, m_currentCmdBuf, gpuQueue>>
  <2>1. \A a \in Buffers : OnList(a) => OnList(a)'
    BY <1>8 DEF OnList
  <2> QED BY <1>0, <1>4, <1>8, <2>1, ReadsQuiet
<1>9. CASE SubmitRejected(r, withList, after) /\ Forget(b)
  <2>1. b \in Buffers \cup {NoBuffer} /\ gpuQueue' = gpuQueue
    BY <1>0, <1>1, <1>9 DEF SubmittedBuffer, Core, CoreType, SubmitRejected
  <2>2. \A a \in Buffers : reads'[a] = IF a = b THEN <<>> ELSE reads[a]
    BY <1>0, <1>9, <2>1, ForgetShape
  <2>3. ASSUME NEW a \in Buffers, a # b PROVE ReadsKept(a)
    <3>1. EntriesKept(a)
      BY <2>1 DEF EntriesKept
    <3>2. OnList(a) => Unread(a)'
      BY <1>6, <2>3 DEF Unread
    <3> QED BY <1>0, <1>7, <2>2, <2>3, <3>1, <3>2, KeepsReads
  <2>4. \A a \in Buffers : ReadsKept(a)
    BY <2>2, <2>3 DEF ReadsKept
  <2> QED BY <2>4, ReadsStep
<1>10. CASE SubmitAccepted(r, withList, after) /\ UNCHANGED reads
  <2>1. PICK entry : Accepts(r, b, entry)
    BY <1>0, <1>1, <1>10, SubmitAccepts
  <2>2. PICK q \in Queues : q = QueueOf[r]
    BY QueueAssumption
  <2>3. ASSUME NEW a \in Buffers PROVE ReadsKept(a)
    <3>1. EntriesKept(a)
      BY <2>1 DEF EntriesKept, Accepts
    <3>2. CASE a = b
      <4>1. Unread(a)'
        BY <2>1, <2>2, <3>2 DEF Unread, Accepts
      <4> QED BY <1>0, <1>7, <1>10, <3>1, <4>1, KeepsReads
    <3>3. CASE a # b
      <4>1. OnList(a) => Unread(a)'
        BY <1>6, <3>3 DEF Unread
      <4> QED BY <1>0, <1>7, <1>10, <3>1, <4>1, KeepsReads
    <3> QED BY <3>2, <3>3
  <2> QED BY <2>3, ReadsStep
<1> QED BY <1>2, <1>5, <1>8, <1>9, <1>10 DEF SubmitEnds

(* A submission is finished: its copies have been made.                    *)
LEMMA FinishesReads ==
  ASSUME IInv, StoreInv, ReadsOK, NEW q \in Queues, Finishes(q)
  PROVE  ReadsOK'
<1>0. Core /\ UploadShape
  BY DEF IInv, StoreInv
<1>1. PICK queue \in Seq(Entries) : queue = gpuQueue[q]
  BY <1>0 DEF Core, CoreType
<1>2. queue # <<>>
  BY <1>1 DEF Finishes, GpuFinish
<1>3. Head(queue) \in Entries /\ Head(queue) = queue[1]
  BY <1>2
<1>4. PICK b \in Buffers \cup {NoBuffer} : b = queue[1].buffer
  BY <1>3 DEF Entries
<1>5. Forget(b)
  BY <1>1, <1>3, <1>4 DEF Finishes
<1>6. \A a \in Buffers : reads'[a] = IF a = b THEN <<>> ELSE reads[a]
  BY <1>0, <1>5, ForgetShape
<1>7. PICK rest : rest = Tail(queue)
  OBVIOUS
<1>8. UNCHANGED <<chunk, m_currentCmdBuf>> /\ gpuQueue' = [gpuQueue EXCEPT ![q] = rest]
  BY <1>1, <1>7 DEF Finishes, GpuFinish
<1>9. \A i \in DOMAIN queue : i # 1 => i - 1 \in DOMAIN rest /\ rest[i - 1] = queue[i]
  BY <1>2, <1>7
<1>10. \A p \in Queues : gpuQueue'[p] = IF p = q THEN rest ELSE gpuQueue[p]
  BY <1>0, <1>8 DEF Core, CoreType
<1>11. ASSUME NEW a \in Buffers, a # b PROVE ReadsKept(a)
  <2>1. EntriesKept(a)
    <3>1. ASSUME NEW p \in Queues, NEW e \in Range(gpuQueue[p]), e.buffer = a PROVE e \in Range(gpuQueue'[p])
      <4>1. CASE p # q
        BY <1>10, <3>1, <4>1
      <4>2. CASE p = q
        <5>1. PICK i \in DOMAIN queue : e = queue[i]
          BY <1>1, <3>1, <4>2 DEF Range
        <5>2. i # 1
          BY <1>4, <1>11, <3>1, <5>1
        <5>3. i - 1 \in DOMAIN rest /\ rest[i - 1] = e
          BY <1>9, <5>1, <5>2
        <5> QED BY <1>10, <4>2, <5>3 DEF Range
      <4> QED BY <4>1, <4>2
    <3> QED BY <3>1 DEF EntriesKept
  <2>2. OnList(a) => Unread(a)'
    BY <1>8 DEF OnList, Unread
  <2> QED BY <1>0, <1>6, <1>8, <1>11, <2>1, <2>2, KeepsReads
<1>12. \A a \in Buffers : ReadsKept(a)
  BY <1>6, <1>11 DEF ReadsKept
<1> QED BY <1>12, ReadsStep

(* A pooled buffer has no copies, and one in flight only those of the      *)
(* submission that executes it.                                            *)
LEMMA ParkedReads ==
  ASSUME Core, ReadsOK, NEW b \in Buffers, NEW q \in Queues, NEW w \in Workers, Parked(b, q, w), reads[b] # <<>>,
         reads[b] \in Seq(Slots)
  PROVE  ~InPool(b, q, w) /\ \E e \in Range(gpuQueue[q]) : e.buffer = b /\ e.id = m_submissionID[b]
<1>1. 1 \in DOMAIN reads[b]
  OBVIOUS
<1>2. Unread(b)
  BY <1>1 DEF ReadsOK
<1>3. ~OnList(b)
  BY ParkedElsewhere DEF OnList
<1>4. PICK p \in Queues : \E e \in Range(gpuQueue[p]) : e.buffer = b
  BY <1>2, <1>3 DEF Unread
<1>5. PICK e \in Range(gpuQueue[p]) : e.buffer = b
  BY <1>4
<1>6. b # NoBuffer
  BY QueueAssumption
<1>7. /\ m_submissionID[e.buffer] = e.id
      /\ \E k \in DOMAIN m_commandBuffersInFlight[p] : m_commandBuffersInFlight[p][k] = e.buffer
  BY <1>5, <1>6, EntryFacts
<1>8. PICK k \in DOMAIN m_commandBuffersInFlight[p] : m_commandBuffersInFlight[p][k] = b
  BY <1>5, <1>7
<1>9. ~InPool(b, q, w)
  BY <1>8 DEF InPool, Core, Placed, OnePlace
<1>10. p = q
  <2>1. PICK j \in DOMAIN m_commandBuffersInFlight[q] : m_commandBuffersInFlight[q][j] = b
    BY <1>9 DEF Parked, Flying
  <2> QED BY <1>8, <2>1 DEF Core, Placed, OnePlace
<1> QED BY <1>5, <1>7, <1>9, <1>10

(* Booked chunks wait for the submission that reads them; those of a       *)
(* rejected one are read by nothing.                                       *)
LEMMA BooksReads ==
  ASSUME IInv, StoreInv, BookOK, ReadsOK, NEW r \in Recorders,
         BookAccepted(r) \/ \E fin \in 0 .. SubmissionLimit : BookRejected(r, fin)
  PROVE  ReadsOK'
<1>0. Core /\ UploadShape /\ BookOf(r)
  BY DEF IInv, StoreInv, BookOK
<1>1. Booked(r)
  BY BooksFacts
<1>2. PICK b, v : Books(r, b, v)
  BY BooksFacts
<1>3. b \in Buffers /\ b = submitted[r].owner /\ exec[r].at = "book"
  BY <1>1, <1>2 DEF Books, Booked
<1>4. UNCHANGED <<m_currentCmdBuf, gpuQueue, reads>>
  BY <1>1 DEF Booked
<1>5. PICK q \in Queues : q = QueueOf[r]
  BY QueueAssumption
<1>6. PICK w \in Workers : w = WorkerOf[r]
  BY DEF Workers
<1>7. \A a \in Buffers : EntriesKept(a) /\ (OnList(a) => Unread(a)')
  BY <1>4 DEF EntriesKept, OnList, Unread
<1>8. CASE KeepChunks
  <2>1. \A a \in Buffers : OnList(a) => OnList(a)'
    BY <1>4 DEF OnList
  <2> QED BY <1>0, <1>4, <1>8, <2>1, ReadsQuiet DEF KeepChunks
<1>9. ASSUME NEW n, Settled(q, b, n), NEW a \in Buffers, a # b PROVE ReadsKept(a)
  <2>1. \A c \in DOMAIN chunk : chunk[c].owner \in {a, NoBuffer} => c \in DOMAIN chunk' /\ chunk'[c] = chunk[c]
    BY <1>0, <1>3, <1>9, SettledOthers
  <2> QED BY <1>0, <1>4, <1>7, <2>1, KeepsReads
<1>10. reads[b] \in Seq(Slots)
  BY <1>0, <1>3 DEF UploadShape
<1>11. CASE submitted[r].accepted
  <2>1. PICK n : n = submitted[r].id
    OBVIOUS
  <2>2. Settled(q, b, n)
    BY <1>2, <1>5, <1>11, <2>1 DEF Books
  <2>3. Parked(b, q, w) /\ m_submissionID[b] = n
    BY <1>0, <1>3, <1>5, <1>6, <1>11, <2>1 DEF BookOf
  <2>4. ASSUME reads[b] # <<>> PROVE ReadsKept(b)
    <3>1. PICK e \in Range(gpuQueue[q]) : e.buffer = b /\ e.id = n
      BY <1>0, <1>3, <1>10, <2>3, <2>4, ParkedReads
    <3>2. e.id <= n
      <4>1. e.id \in Nat
        BY <1>0, <3>1, EntryFacts
      <4> QED BY <3>1, <4>1
    <3>3. ASSUME NEW c, NEW o, Backed(b, c, o) PROVE Backed(b, c, o)'
      <4>1. c \in DOMAIN chunk /\ c \in DOMAIN chunk' /\ chunk'[c].physicalQueue = chunk[c].physicalQueue
        BY <2>2, <3>3 DEF Backed, Settled
      <4>2. CASE chunk[c].owner = b /\ chunk[c].physicalQueue = q
        <5>1. chunk'[c].owner = NoBuffer /\ chunk'[c].version = n
          BY <2>2, <4>1, <4>2 DEF Settled
        <5> QED BY <1>4, <3>1, <3>2, <4>1, <4>2, <5>1 DEF Backed
      <4>3. CASE ~(chunk[c].owner = b /\ chunk[c].physicalQueue = q)
        <5>1. chunk'[c] = chunk[c]
          BY <2>2, <4>1, <4>3 DEF Settled
        <5> QED BY <1>4, <3>3, <4>1, <5>1 DEF Backed
      <4> QED BY <4>2, <4>3
    <3>4. Unread(b) => Unread(b)'
      BY <1>4 DEF Unread, OnList
    <3> QED BY <1>4, <3>3, <3>4 DEF ReadsKept
  <2>5. reads[b] = <<>> => ReadsKept(b)
    BY <1>4 DEF ReadsKept
  <2>6. \A a \in Buffers : ReadsKept(a)
    BY <1>9, <2>2, <2>4, <2>5
  <2> QED BY <2>6, ReadsStep
<1>12. CASE ~submitted[r].accepted /\ ~KeepChunks
  <2>1. Settled(q, b, v)
    BY <1>2, <1>5, <1>12 DEF Books
  <2>2. CASE InPool(b, q, w)
    <3>1. reads[b] = <<>>
      BY <1>0, <1>3, <1>10, <2>2, ParkedReads DEF Parked
    <3>2. ReadsKept(b)
      BY <1>4, <3>1 DEF ReadsKept
    <3>3. \A a \in Buffers : ReadsKept(a)
      BY <1>9, <2>1, <3>2
    <3> QED BY <3>3, ReadsStep
  <2>3. CASE m_currentCmdBuf[r] = b
    <3>1. ~BookAccepted(r)
      BY <1>12 DEF BookAccepted
    <3>2. PICK fin \in 0 .. SubmissionLimit : BookRejected(r, fin)
      BY <3>1
    <3>3. KeepChunks
      BY <1>3, <2>3, <3>2 DEF BookRejected
    <3> QED BY <1>12, <3>3
  <2> QED BY <1>0, <1>3, <1>5, <1>6, <1>12, <2>2, <2>3 DEF BookOf
<1> QED BY <1>8, <1>11, <1>12

(* A slot handed out is read by nothing else.                              *)
LEMMA GrantedReads ==
  ASSUME IInv, StoreInv, PolledOK, ReadsOK, NEW r \in Recorders, NEW b \in Buffers, b = m_currentCmdBuf[r],
         NEW c, NEW n, Granted(r, c, n), UNCHANGED <<m_currentCmdBuf, gpuQueue>>
  PROVE  ReadsOK'
<1>0. Core /\ UploadShape
  BY DEF IInv, StoreInv
<1>1. PICK q \in Queues : q = QueueOf[r]
  BY QueueAssumption
<1>2. /\ c \in Chunks /\ n \in 0 .. ChunkSize - 1 /\ n \in Nat
      /\ DOMAIN chunk' = DOMAIN chunk \cup {c}
      /\ \A k \in DOMAIN chunk \ {c} : chunk'[k] = chunk[k]
      /\ chunk'[c].owner = b /\ chunk'[c].allocated = n + 1
  BY DEF Granted
<1>3. \/ c \in DOMAIN chunk /\ chunk[c].owner = b /\ n = chunk[c].allocated
      \/ /\ c \in DOMAIN chunk /\ chunk[c].owner = NoBuffer /\ chunk[c].physicalQueue = q
         /\ chunk[c].version <= completedVersion[r]
      \/ c \notin DOMAIN chunk
  BY <1>1 DEF Granted
<1>4. ASSUME NEW a \in Buffers, NEW o, Backed(a, c, o)
      PROVE  a = b /\ o < n
  <2>1. c \in DOMAIN chunk
    BY <1>4 DEF Backed
  <2>2. CASE chunk[c].owner = b /\ n = chunk[c].allocated
    BY <1>4, <2>2, QueueAssumption DEF Backed
  <2>3. CASE chunk[c].owner = NoBuffer /\ chunk[c].physicalQueue = q /\ chunk[c].version <= completedVersion[r]
    <3>1. PICK e \in Range(gpuQueue[q]) : e.id <= chunk[c].version
      BY <1>4, <2>3, QueueAssumption DEF Backed
    <3>2. e.id > gpuDone[q] /\ e.id \in Nat /\ gpuDone[q] \in Nat
      <4>1. e.id > gpuDone[q] /\ e.id \in Nat
        BY <1>0, <3>1, EntryFacts
      <4> QED BY <1>0, <4>1, QueueAssumption DEF Core, CoreType
    <3>3. chunk[c] \in Fields /\ completedVersion[r] \in 0 .. SubmissionLimit /\ SubmissionLimit \in Nat
      BY <1>0, <2>1, QueueAssumption DEF UploadShape
    <3>4. chunk[c].version \in 0 .. SubmissionLimit
      BY <3>3 DEF Fields
    <3>5. completedVersion[r] <= gpuDone[q]
      BY <1>1 DEF PolledOK, PolledOf
    <3> QED BY <2>3, <3>1, <3>2, <3>3, <3>4, <3>5
  <2> QED BY <1>3, <2>1, <2>2, <2>3
<1>5. ASSUME NEW a \in Buffers, NEW k, NEW o, o \in Nat, Backed(a, k, o) PROVE Backed(a, k, o)'
  <2>1. CASE k # c
    <3>1. k \in DOMAIN chunk /\ k \in DOMAIN chunk' /\ chunk'[k] = chunk[k]
      BY <1>2, <1>5, <2>1 DEF Backed
    <3> QED BY <1>5, <3>1 DEF Backed
  <2>2. CASE k = c
    <3>1. a = b /\ o < n
      BY <1>4, <1>5, <2>2
    <3>2. o < n + 1
      BY <1>2, <1>5, <3>1
    <3> QED BY <1>2, <2>2, <3>1, <3>2 DEF Backed
  <2> QED BY <2>1, <2>2
<1>6. PICK R \in Seq(Slots) : R = reads[b]
  BY <1>0 DEF UploadShape
<1>7. PICK R2 : R2 = Append(R, <<c, n>>)
  OBVIOUS
<1>8. \A a \in Buffers : reads'[a] = IF a = b THEN R2 ELSE reads[a]
  BY <1>0, <1>6, <1>7 DEF Granted, UploadShape
<1>9. DOMAIN R2 = DOMAIN R \cup {Len(R) + 1} /\ Len(R) + 1 \notin DOMAIN R
  BY <1>6, <1>7
<1>10. R2[Len(R) + 1] = <<c, n>> /\ \A i \in DOMAIN R : R2[i] = R[i]
  BY <1>6, <1>7
<1>11. ASSUME NEW a \in Buffers, NEW i \in DOMAIN reads[a], NEW k, k = reads[a][i][1], NEW o, o = reads[a][i][2]
       PROVE  /\ reads[a][i] = <<k, o>> /\ o \in Nat /\ Backed(a, k, o)
              /\ Unread(a)' /\ Backed(a, k, o)' /\ (k = c => a = b /\ o # n)
  <2>1. reads[a] \in Seq(Slots)
    BY <1>0 DEF UploadShape
  <2>2. reads[a][i] \in Slots
    BY <2>1, <1>11
  <2>3. reads[a][i] = <<k, o>> /\ o \in Nat
    BY <1>11, <2>2, UploadAssumption DEF Slots
  <2>4. Backed(a, k, o) /\ Unread(a)
    BY <1>11 DEF ReadsOK
  <2>5. Unread(a)'
    BY <2>4 DEF Unread, OnList
  <2>6. Backed(a, k, o)'
    BY <1>5, <2>3, <2>4
  <2>7. k = c => a = b /\ o < n
    BY <1>4, <2>4
  <2> QED BY <1>2, <2>3, <2>4, <2>5, <2>6, <2>7
<1>12. ASSUME NEW a \in Buffers, NEW i \in DOMAIN reads[a]
       PROVE  (reads[a][i][1] = c => a = b) /\ reads[a][i] # <<c, n>>
  <2>1. PICK k, o : k = reads[a][i][1] /\ o = reads[a][i][2]
    OBVIOUS
  <2>2. reads[a][i] = <<k, o>> /\ (k = c => a = b /\ o # n)
    BY <1>11, <2>1
  <2> QED BY <2>1, <2>2
<1>13. ASSUME NEW a \in Buffers, NEW i \in DOMAIN reads'[a]
       PROVE  \/ i \in DOMAIN reads[a] /\ reads'[a][i] = reads[a][i] /\ (a = b => i # Len(R) + 1)
              \/ a = b /\ i = Len(R) + 1 /\ reads'[a][i] = <<c, n>>
  BY <1>6, <1>8, <1>9, <1>10, <1>13
<1>14. ASSUME NEW a \in Buffers, NEW i \in DOMAIN reads'[a], NEW j \in DOMAIN reads'[a], reads'[a][i] = reads'[a][j]
       PROVE  i = j
  BY <1>12, <1>13, <1>14 DEF ReadsOK
<1>15. ASSUME NEW a \in Buffers, NEW d \in Buffers, NEW i \in DOMAIN reads'[a], NEW j \in DOMAIN reads'[d],
              reads'[a][i][1] = reads'[d][j][1]
       PROVE  a = d
  <2>1. <<c, n>>[1] = c
    OBVIOUS
  <2>2. CASE reads'[a][i] = <<c, n>> /\ a = b
    <3>1. reads'[d][j][1] = c
      BY <1>15, <2>1, <2>2
    <3> QED BY <1>12, <1>13, <1>15, <2>2, <3>1
  <2>3. CASE reads'[d][j] = <<c, n>> /\ d = b
    <3>1. reads'[a][i][1] = c
      BY <1>15, <2>1, <2>3
    <3> QED BY <1>12, <1>13, <1>15, <2>3, <3>1
  <2>4. CASE /\ i \in DOMAIN reads[a] /\ reads'[a][i] = reads[a][i]
             /\ j \in DOMAIN reads[d] /\ reads'[d][j] = reads[d][j]
    BY <1>15, <2>4 DEF ReadsOK
  <2> QED BY <1>13, <1>15, <2>2, <2>3, <2>4
<1>16. ASSUME NEW a \in Buffers, NEW i \in DOMAIN reads'[a], NEW k, k = reads'[a][i][1], NEW o, o = reads'[a][i][2]
       PROVE  Backed(a, k, o)' /\ Unread(a)'
  <2>1. CASE i \in DOMAIN reads[a] /\ reads'[a][i] = reads[a][i]
    BY <1>11, <1>16, <2>1
  <2>2. CASE a = b /\ reads'[a][i] = <<c, n>>
    <3>1. k = c /\ o = n
      BY <1>16, <2>2
    <3>2. Backed(b, c, n)'
      BY <1>2 DEF Backed
    <3>3. Unread(b)'
      BY DEF Unread, OnList
    <3> QED BY <2>2, <3>1, <3>2, <3>3
  <2> QED BY <1>13, <1>16, <2>1, <2>2
<1>17. ASSUME NEW a \in Buffers, NEW i \in DOMAIN reads'[a]
       PROVE  (Backed(a, reads[a][i][1], reads[a][i][2]) /\ Unread(a))'
  <2>1. PICK k, o : k = reads'[a][i][1] /\ o = reads'[a][i][2]
    OBVIOUS
  <2>2. Backed(a, k, o)' /\ Unread(a)'
    BY <1>16, <2>1
  <2> QED BY <2>1, <2>2 DEF Backed
<1> QED BY <1>14, <1>15, <1>17 DEF ReadsOK

(* Every step of a recorder keeps the copies in order.                     *)
LEMMA RecorderReads ==
  ASSUME IInv, IInv', StoreInv, BookOK, PolledOK, ReadsOK, NEW r \in Recorders, RecorderStep(r)
  PROVE  ReadsOK'
<1>0. Core /\ CallType /\ UploadShape /\ ChunksOK /\ CallOK(r)
  BY DEF IInv, StoreInv, CallsOK
<1>1. ASSUME UNCHANGED <<chunk, reads, gpuQueue, m_currentCmdBuf>> PROVE ReadsOK'
  <2>1. \A a \in Buffers : OnList(a) => OnList(a)'
    BY <1>1 DEF OnList
  <2> QED BY <1>0, <1>1, <2>1, ReadsQuiet
<1>2. ASSUME NEW fin, Drops(r, fin) PROVE ReadsOK'
  BY <1>2, DropsReads
<1>3. ASSUME NEW fin, StagePoll(r, fin) PROVE ReadsOK'
  BY <1>1, <1>3 DEF StagePoll
<1>4. CASE BookAccepted(r) \/ \E fin \in 0 .. SubmissionLimit : BookRejected(r, fin)
  BY <1>4, BooksReads
<1>5. CASE Opens(r)
  <2>1. UNCHANGED <<chunk, reads>>
    BY <1>5 DEF Opens, uploadVars
  <2>2. ASSUME NEW b, Hold(r, b) PROVE ReadsOK'
    <3>1. m_currentCmdBuf[r] = NoBuffer /\ gpuQueue' = gpuQueue
      BY <1>0, <2>2 DEF Hold, CallOK
    <3>2. \A s \in Recorders \ {r} : m_currentCmdBuf'[s] = m_currentCmdBuf[s]
      BY <1>0, <2>2 DEF Hold, Core, CoreType
    <3>3. \A a \in Buffers : OnList(a) => OnList(a)'
      BY <3>1, <3>2, QueueAssumption DEF OnList
    <3> QED BY <1>0, <2>1, <3>1, <3>3, ReadsQuiet
  <2>3. CASE OpenBegin(r) \/ Close(r)
    BY <1>1, <2>1, <2>3 DEF OpenBegin, Close
  <2> QED BY <1>5, <2>2, <2>3 DEF Opens, getOrCreateDirectCommandBuffer, getOrCreateWorkerCommandBuffer
<1>6. CASE suballocateBuffer(r)
  <2>1. exec[r].at = "stage" /\ UNCHANGED <<m_currentCmdBuf, gpuQueue>>
    BY <1>6 DEF suballocateBuffer
  <2>2. CASE SuballocateFails(r)
    BY <1>1, <2>1, <2>2 DEF SuballocateFails, KeepChunks
  <2>3. CASE SuballocateOwn(r) \/ SuballocatePooled(r) \/ SuballocateNew(r)
    <3>1. PICK b \in Buffers : b = m_currentCmdBuf[r]
      BY <1>0, <2>1 DEF CallOK, Core, CoreType
    <3>2. PICK c, n : Granted(r, c, n)
      BY <1>0, <2>3, <3>1, SuballocateGrants
    <3> QED BY <2>1, <3>1, <3>2, GrantedReads
  <2> QED BY <1>6, <2>2, <2>3 DEF suballocateBuffer
<1>7. CASE Executes(r) /\ UNCHANGED uploadVars
  BY <1>1, <1>7 DEF Executes, Execute, uploadVars
<1>8. ASSUME NEW withList \in BOOLEAN, Submits(r, withList) PROVE ReadsOK'
  BY <1>8, SubmitsReads
<1> QED BY <1>2, <1>3, <1>4, <1>5, <1>6, <1>7, <1>8 DEF RecorderStep

(* So does every step of a queue.                                          *)
LEMMA QueueReads ==
  ASSUME IInv, StoreInv, ReadsOK, NEW q \in Queues, QueueStep(q)
  PROVE  ReadsOK'
<1>0. UploadShape
  BY DEF StoreInv
<1>1. CASE Finishes(q)
  BY <1>1, FinishesReads
<1>2. CASE Completion(q) /\ UNCHANGED uploadVars
  <2>1. UNCHANGED <<chunk, reads, gpuQueue, m_currentCmdBuf>>
    BY <1>2 DEF Completion, uploadVars, queueGetCompletedInstance, runGarbageCollection, waitForIdle, Collect
  <2>2. \A a \in Buffers : OnList(a) => OnList(a)'
    BY <2>1 DEF OnList
  <2> QED BY <1>0, <2>1, <2>2, ReadsQuiet
<1> QED BY <1>1, <1>2 DEF QueueStep

(* Every step keeps the data that is to be read.                           *)
LEMMA NextData ==
  ASSUME OneDirectRecorder, IInv, IInv', StoreInv, DataInv, UploadNext
  PROVE  DataInv'
<1>1. ASSUME NEW r \in Recorders, RecorderStep(r) PROVE DataInv'
  BY <1>1, RecorderBooks, RecorderPolls, RecorderReads DEF DataInv
<1>2. ASSUME NEW q \in Queues, QueueStep(q) PROVE DataInv'
  BY <1>2, QueueBooks, QueuePolls, QueueReads DEF DataInv
<1>3. (\E r \in Recorders : RecorderStep(r)) \/ (\E q \in Queues : QueueStep(q))
  BY DEF UploadNext, RecorderStep, QueueStep
<1> QED BY <1>1, <1>2, <1>3

(* A step that changes nothing.                                            *)
LEMMA DataStutters ==
  ASSUME StoreInv, DataInv, UNCHANGED vars
  PROVE  DataInv'
<1>1. UNCHANGED queueVars /\ UNCHANGED uploadVars
  BY DEF vars
<1>2. UNCHANGED <<m_commandBuffersInFlight, m_pool, m_submissionID, m_recordingWorkerIndex, m_currentCmdBuf, exec,
                  gpuQueue, gpuDone>>
  BY <1>1 DEF queueVars
<1>3. UNCHANGED <<chunk, completedVersion, submitted, reads>>
  BY <1>1 DEF uploadVars
<1>4. BookOK'
  BY <1>2, <1>3 DEF DataInv, BookOK, BookOf, Parked, Flying, InPool
<1>5. PolledOK'
  BY <1>2, <1>3 DEF DataInv, PolledOK, PolledOf
<1>6. ReadsOK'
  <2>1. \A a \in Buffers : OnList(a) => OnList(a)'
    BY <1>2 DEF OnList
  <2> QED BY <1>2, <1>3, <2>1, ReadsQuiet DEF StoreInv, DataInv
<1> QED BY <1>4, <1>5, <1>6 DEF DataInv

(* Nothing is staged yet.                                                  *)
LEMMA InitData == UploadInit => DataInv
<1> SUFFICES ASSUME UploadInit PROVE DataInv
  OBVIOUS
<1>1. /\ \A r \in Recorders : exec[r].at = "idle" /\ m_currentCmdBuf[r] = NoBuffer /\ completedVersion[r] = 0
      /\ \A q \in Queues : gpuDone[q] = 0
      /\ \A b \in Buffers : reads[b] = <<>>
  BY DEF UploadInit, Init, NotExecuting
<1>2. BookOK
  BY <1>1 DEF BookOK, BookOf
<1>3. PolledOK
  BY <1>1, QueueAssumption DEF PolledOK, PolledOf
<1>4. ReadsOK
  <2>1. \A b \in Buffers : DOMAIN reads[b] = {}
    BY <1>1
  <2> QED BY <2>1 DEF ReadsOK
<1> QED BY <1>2, <1>3, <1>4 DEF DataInv

(* What the invariant says of the copies is what StagedDataKept says.      *)
LEMMA DataKept ==
  ASSUME IInv, StoreInv, DataInv
  PROVE  StagedDataKept
<1>0. ReadsOK /\ Core
  BY DEF DataInv, IInv
<1>1. Live \subseteq Buffers
  <2>1. Held \subseteq Buffers
    BY <1>0 DEF Held, Core, CoreType
  <2>2. ASSUME NEW b \in Executing PROVE b \in Buffers
    <3>1. PICK q \in Queues : b # NoBuffer /\ \E e \in Range(gpuQueue[q]) : e.buffer = b
      BY <2>2 DEF Executing
    <3>2. PICK e \in Range(gpuQueue[q]) : e.buffer = b
      BY <3>1
    <3> QED BY <1>0, <3>1, <3>2, EntryFacts
  <2> QED BY <2>1, <2>2 DEF Live
<1>2. \A b \in Live : IsInjective(reads[b])
  BY <1>0, <1>1 DEF ReadsOK, IsInjective
<1>3. ASSUME NEW a \in Live, NEW b \in Live, a # b PROVE Range(reads[a]) \cap Range(reads[b]) = {}
  <2>1. SUFFICES ASSUME NEW x \in Range(reads[a]), x \in Range(reads[b]) PROVE FALSE
    OBVIOUS
  <2>2. PICK i \in DOMAIN reads[a] : x = reads[a][i]
    BY DEF Range
  <2>3. PICK j \in DOMAIN reads[b] : x = reads[b][j]
    BY <2>1 DEF Range
  <2>4. reads[a][i][1] = reads[b][j][1]
    BY <2>2, <2>3
  <2> QED BY <1>0, <1>1, <1>3, <2>4 DEF ReadsOK
<1> QED BY <1>2, <1>3 DEF StagedDataKept

(* Staged data is kept until the GPU has read it: no slot of a staging     *)
(* chunk is handed out a second time while a live command buffer has a     *)
(* copy that reads it, if at most one recorder of a queue records          *)
(* directly.  Without that, another thread may take a rejected buffer from *)
(* the pool before its chunks are booked.                                  *)
THEOREM StagedDataSafe == ASSUME OneDirectRecorder PROVE UploadSpec => []StagedDataKept
<1>1. ASSUME IInv, StoreInv, DataInv, [UploadNext]_vars PROVE IInv' /\ StoreInv' /\ DataInv'
  <2>1. CASE UploadNext
    <3>1. IInv'
      BY <1>1, <2>1, QueueKept
    <3>2. StoreInv' /\ DataInv'
      BY <1>1, <2>1, <3>1, NextStore, NextData
    <3> QED BY <3>1, <3>2
  <2>2. CASE UNCHANGED vars
    BY <1>1, <2>2, StoreStutters, DataStutters
  <2> QED BY <1>1, <2>1, <2>2
<1>2. IInv /\ StoreInv /\ DataInv => StagedDataKept
  BY DataKept
<1>3. UploadInit => IInv /\ StoreInv /\ DataInv
  BY InitStore, InitData
<1> QED BY <1>1, <1>2, <1>3, PTL DEF UploadSpec
=============================================================================
