---------------------- MODULE GpuDescriptorHeapProofs -----------------------
(***************************************************************************)
(* Proofs about GpuDescriptorHeap for every number of slots and of heap    *)
(* uses, every set of sweeping threads, and the queues, recorders and      *)
(* command buffers of VulkanQueueProofs.                                   *)
(*                                                                         *)
(* The heap's steps take the queue's, so the queue's invariant IInv holds  *)
(* throughout.  HeapInv says of the heap who still needs a slot: a buffer  *)
(* that indexes slots has one heap use, and every slot it indexes is live, *)
(* or was freed after that use was numbered.                               *)
(***************************************************************************)
EXTENDS GpuDescriptorHeap, VulkanQueueProofs

HeapUses == [commandBuffer : Buffers \cup {NoBuffer}, queue : Queues, token : 0 .. SubmissionLimit, id : Nat]
RetiredSlots == [slot : AllSlots, lastRequiredHeapUseID : Nat]

(* The types of the heap's variables.                                      *)
HeapShape ==
  /\ nextFresh \in 0 .. capacity /\ liveSlots \subseteq AllSlots
  /\ freeList \in Seq(AllSlots) /\ m_retired \in Seq(RetiredSlots)
  /\ m_heapUses \in Seq(HeapUses) /\ m_lastHeapUseID \in Nat
  /\ m_referencedDescriptorHeaps \in [Buffers -> BOOLEAN]
  /\ refs \in [Buffers -> SUBSET AllSlots]

(* Every slot handed out is live, retired or free, once.                   *)
SlotsOK ==
  /\ \A slot \in liveSlots : slot < nextFresh
  /\ \A i \in DOMAIN m_retired : m_retired[i].slot < nextFresh /\ m_retired[i].slot \notin liveSlots
  /\ \A i \in DOMAIN freeList : freeList[i] < nextFresh /\ freeList[i] \notin liveSlots
  /\ \A i, j \in DOMAIN m_retired : m_retired[i].slot = m_retired[j].slot => i = j
  /\ \A i, j \in DOMAIN freeList : freeList[i] = freeList[j] => i = j
  /\ \A i \in DOMAIN m_retired, j \in DOMAIN freeList : m_retired[i].slot # freeList[j]
  /\ \A slot \in AllSlots : slot < nextFresh =>
       \/ slot \in liveSlots
       \/ \E i \in DOMAIN m_retired : m_retired[i].slot = slot
       \/ \E i \in DOMAIN freeList : freeList[i] = slot

OnList(b) == \E r \in Recorders : m_currentCmdBuf[r] = b
Flying(b) == \E q \in Queues : \E k \in DOMAIN m_commandBuffersInFlight[q] : m_commandBuffersInFlight[q][k] = b

(* The uses are numbered; a buffer has one use at most, which waits for    *)
(* its token while a list of the use's queue holds the buffer.             *)
UseOK(u) ==
  /\ u.id <= m_lastHeapUseID /\ u.token <= m_lastSubmittedID[u.queue]
  /\ u.commandBuffer # NoBuffer =>
       /\ m_referencedDescriptorHeaps[u.commandBuffer]
       /\ u.token = NoToken => OnList(u.commandBuffer)
       /\ \A r \in Recorders : m_currentCmdBuf[r] = u.commandBuffer => u.queue = QueueOf[r]

UsesOK ==
  /\ \A i, j \in DOMAIN m_heapUses : m_heapUses[i].id = m_heapUses[j].id => i = j
  /\ \A i, j \in DOMAIN m_heapUses :
       (m_heapUses[i].commandBuffer = m_heapUses[j].commandBuffer /\ m_heapUses[i].commandBuffer # NoBuffer) => i = j
  /\ \A i \in DOMAIN m_heapUses : UseOK(m_heapUses[i])

(* The slot cannot be reused before the use with this number is complete.  *)
Kept(slot, id) ==
  \/ slot \in liveSlots
  \/ \E i \in DOMAIN m_retired : m_retired[i].slot = slot /\ m_retired[i].lastRequiredHeapUseID >= id

(* A use without a token keeps the slots the recorder's buffer indexes.    *)
HasUse(r) ==
  \E i \in DOMAIN m_heapUses :
    /\ m_heapUses[i].commandBuffer = m_currentCmdBuf[r] /\ m_heapUses[i].token = NoToken
    /\ \A slot \in refs[m_currentCmdBuf[r]] : Kept(slot, m_heapUses[i].id)

(* A use with the submission's token keeps the slots its buffer indexes.   *)
UseOf(q, e) ==
  \E i \in DOMAIN m_heapUses :
    /\ m_heapUses[i].queue = q /\ m_heapUses[i].token = e.id
    /\ \A slot \in refs[e.buffer] : Kept(slot, m_heapUses[i].id)

(* A buffer that indexes slots has a use, which keeps them: without a      *)
(* token while a list holds the buffer, with its submission's id from then *)
(* on.  Elsewhere a buffer indexes nothing.                                *)
RefsOK ==
  /\ \A b \in Buffers : ~m_referencedDescriptorHeaps[b] => refs[b] = {}
  /\ \A b \in Buffers : m_referencedDescriptorHeaps[b] => OnList(b) \/ Flying(b)
  /\ \A r \in Recorders : Tracked(r) => HasUse(r)
  /\ \A q \in Queues : \A e \in Range(gpuQueue[q]) : (e.buffer # NoBuffer /\ refs[e.buffer] # {}) => UseOf(q, e)

(* What a collection learned of a queue is true.                           *)
SweepOK ==
  /\ DOMAIN sweep = Sweepers
  /\ \A s \in Sweepers :
       /\ sweep[s] = [at |-> sweep[s].at, polled |-> sweep[s].polled, completions |-> sweep[s].completions]
       /\ \A q \in DOMAIN sweep[s].completions :
            q \in Queues => sweep[s].completions[q] \in Nat /\ sweep[s].completions[q] <= gpuDone[q]

(* A list that waits for its buffer holds none.                            *)
OpenEmpty == \A r \in Recorders : exec[r].at = "open" => m_currentCmdBuf[r] = NoBuffer

HeapInv == HeapShape /\ SlotsOK /\ UsesOK /\ RefsOK /\ SweepOK /\ OpenEmpty
-----------------------------------------------------------------------------
(* What discarding the uses of the buffers in S leaves.                    *)
Discarded(S) ==
  /\ m_heapUses' \in Seq(HeapUses) /\ DOMAIN m_heapUses' = DOMAIN m_heapUses
  /\ \A i \in DOMAIN m_heapUses :
       /\ m_heapUses'[i].id = m_heapUses[i].id /\ m_heapUses'[i].queue = m_heapUses[i].queue
       /\ m_heapUses'[i].token = m_heapUses[i].token
       /\ m_heapUses'[i].commandBuffer =
            IF m_heapUses[i].commandBuffer \in S THEN NoBuffer ELSE m_heapUses[i].commandBuffer
  /\ m_referencedDescriptorHeaps' \in [Buffers -> BOOLEAN]
  /\ \A b \in Buffers : m_referencedDescriptorHeaps'[b] = (b \notin S /\ m_referencedDescriptorHeaps[b])
  /\ refs' \in [Buffers -> SUBSET AllSlots]
  /\ \A b \in Buffers : refs'[b] \subseteq refs[b] /\ (b \in S => refs'[b] = {})
  /\ UNCHANGED slotVars /\ m_lastHeapUseID' = m_lastHeapUseID

(* What a step of the queue may do when the uses of S are discarded: no    *)
(* other buffer leaves its list or its queue's flight, and no list takes a *)
(* buffer from another list or from flight.                                *)
Settled(S) ==
  /\ \A r \in Recorders : m_currentCmdBuf[r] \in S \cup {NoBuffer} \/ m_currentCmdBuf'[r] = m_currentCmdBuf[r]
  /\ \A r \in Recorders :
       \/ m_currentCmdBuf'[r] = m_currentCmdBuf[r]
       \/ m_currentCmdBuf'[r] \in S \cup {NoBuffer}
       \/ ~OnList(m_currentCmdBuf'[r]) /\ ~Flying(m_currentCmdBuf'[r])
  /\ \A q \in Queues : \A k \in DOMAIN m_commandBuffersInFlight[q] :
       \/ m_commandBuffersInFlight[q][k] \in S
       \/ \E j \in DOMAIN m_commandBuffersInFlight'[q] : m_commandBuffersInFlight'[q][j] = m_commandBuffersInFlight[q][k]
  /\ \A q \in Queues : \A e \in Range(gpuQueue'[q]) : e \in Range(gpuQueue[q])
  /\ \A q \in Queues : m_lastSubmittedID[q] \in Nat /\ m_lastSubmittedID'[q] \in Nat /\ m_lastSubmittedID'[q] >= m_lastSubmittedID[q]

(* Such a step keeps every slot for the buffers that index it.             *)
LEMMA SettledKeeps ==
  ASSUME IInv, IInv', HeapInv, NEW S, Discarded(S), Settled(S)
  PROVE  HeapShape' /\ SlotsOK' /\ UsesOK' /\ RefsOK'
<1> USE DEF HeapInv, slotVars
<1>1. HeapShape'
  BY DEF Discarded, HeapShape
<1>2. SlotsOK'
  BY DEF Discarded, SlotsOK
<1>3. \A slot, id : Kept(slot, id)' <=> Kept(slot, id)
  BY DEF Discarded, Kept
<1>4. \A b \in Buffers : (b \notin S /\ OnList(b)) => OnList(b)'
  <2> TAKE b \in Buffers
  <2> HAVE b \notin S /\ OnList(b)
  <2>1. b # NoBuffer
    BY QueueAssumption
  <2>2. PICK r \in Recorders : m_currentCmdBuf[r] = b
    BY DEF OnList
  <2>3. m_currentCmdBuf'[r] = b
    BY <2>1, <2>2 DEF Settled
  <2> QED BY <2>3 DEF OnList
<1>5. \A b \in Buffers : (b \notin S /\ Flying(b)) => Flying(b)'
  BY DEF Settled, Flying
<1>6. ASSUME NEW r \in Recorders, m_currentCmdBuf'[r] # NoBuffer, m_referencedDescriptorHeaps'[m_currentCmdBuf'[r]]
      PROVE  /\ m_currentCmdBuf'[r] = m_currentCmdBuf[r] /\ m_currentCmdBuf[r] \in Buffers /\ m_currentCmdBuf[r] \notin S
             /\ m_referencedDescriptorHeaps[m_currentCmdBuf[r]]
  <2>1. PICK b : b = m_currentCmdBuf'[r]
    OBVIOUS
  <2>2. b \in Buffers /\ b # NoBuffer
    BY <1>6, <2>1 DEF IInv, Core, CoreType
  <2>3. b \notin S /\ m_referencedDescriptorHeaps[b]
    BY <1>6, <2>1, <2>2 DEF Discarded
  <2>4. OnList(b) \/ Flying(b)
    BY <2>2, <2>3 DEF RefsOK
  <2>5. b = m_currentCmdBuf[r]
    BY <2>1, <2>2, <2>3, <2>4 DEF Settled
  <2> QED BY <2>1, <2>2, <2>3, <2>5
<1>7. UsesOK'
  <2>1. \A i, j \in DOMAIN m_heapUses' : m_heapUses'[i].id = m_heapUses'[j].id => i = j
    BY DEF Discarded, UsesOK
  <2>2. \A i, j \in DOMAIN m_heapUses' :
          (m_heapUses'[i].commandBuffer = m_heapUses'[j].commandBuffer /\ m_heapUses'[i].commandBuffer # NoBuffer) => i = j
    BY DEF Discarded, UsesOK
  <2>3. ASSUME NEW i \in DOMAIN m_heapUses', NEW v, v = m_heapUses'[i]
        PROVE  UseOK(v)'
    <3>1. PICK u : u = m_heapUses[i]
      OBVIOUS
    <3>2. v = m_heapUses'[i]
      BY <2>3
    <3>3. /\ v.id = u.id /\ v.queue = u.queue /\ v.token = u.token
          /\ v.commandBuffer = IF u.commandBuffer \in S THEN NoBuffer ELSE u.commandBuffer
      BY <3>1, <3>2 DEF Discarded
    <3>4. UseOK(u) /\ u \in HeapUses
      BY <3>1 DEF UsesOK, Discarded, HeapShape
    <3>5. v.id <= m_lastHeapUseID' /\ v.token <= m_lastSubmittedID'[v.queue]
      <4>1. u.queue \in Queues /\ u.token \in Nat
        BY <3>4, QueueAssumption DEF HeapUses
      <4> QED BY <3>3, <3>4, <4>1 DEF UseOK, Discarded, Settled
    <3>6. ASSUME v.commandBuffer # NoBuffer
          PROVE  /\ m_referencedDescriptorHeaps'[v.commandBuffer]
                 /\ v.token = NoToken => OnList(v.commandBuffer)'
                 /\ \A r \in Recorders : m_currentCmdBuf'[r] = v.commandBuffer => v.queue = QueueOf[r]
      <4>1. PICK b : b = v.commandBuffer
        OBVIOUS
      <4>2. b = u.commandBuffer /\ b \notin S /\ b # NoBuffer /\ b \in Buffers
        BY <3>3, <3>4, <3>6, <4>1 DEF HeapUses
      <4>3. m_referencedDescriptorHeaps'[b]
        BY <3>4, <4>2 DEF UseOK, Discarded
      <4>4. v.token = NoToken => OnList(b)'
        BY <1>4, <3>3, <3>4, <4>2 DEF UseOK
      <4>5. \A r \in Recorders : m_currentCmdBuf'[r] = b => v.queue = QueueOf[r]
        BY <1>6, <3>3, <3>4, <4>2, <4>3 DEF UseOK
      <4> QED BY <4>1, <4>3, <4>4, <4>5
    <3> QED BY <3>5, <3>6 DEF UseOK
  <2>4. \A i \in DOMAIN m_heapUses' : UseOK(m_heapUses[i])'
    BY <2>3 DEF UseOK
  <2> QED BY <2>1, <2>2, <2>4 DEF UsesOK
<1>8. RefsOK'
  <2>1. \A b \in Buffers : ~m_referencedDescriptorHeaps'[b] => refs'[b] = {}
    BY DEF RefsOK, Discarded
  <2>2. \A b \in Buffers : m_referencedDescriptorHeaps'[b] => OnList(b)' \/ Flying(b)'
    BY <1>4, <1>5 DEF RefsOK, Discarded
  <2>3. ASSUME NEW r \in Recorders, Tracked(r)'
        PROVE  HasUse(r)'
    <3>1. PICK b : b = m_currentCmdBuf[r]
      OBVIOUS
    <3>2. m_currentCmdBuf'[r] = b /\ b \in Buffers /\ b \notin S /\ b # NoBuffer /\ m_referencedDescriptorHeaps[b]
      BY <1>6, <2>3, <3>1, QueueAssumption DEF Tracked
    <3>3. PICK i \in DOMAIN m_heapUses :
            /\ m_heapUses[i].commandBuffer = b /\ m_heapUses[i].token = NoToken
            /\ \A slot \in refs[b] : Kept(slot, m_heapUses[i].id)
      BY <3>1, <3>2 DEF RefsOK, Tracked, HasUse
    <3>4. PICK n : n = m_heapUses[i].id
      OBVIOUS
    <3>5. \A slot \in refs'[b] : Kept(slot, n)'
      BY <1>3, <3>2, <3>3, <3>4 DEF Discarded
    <3>6. /\ i \in DOMAIN m_heapUses' /\ m_heapUses'[i].commandBuffer = b /\ m_heapUses'[i].token = NoToken
          /\ m_heapUses'[i].id = n
      BY <3>2, <3>3, <3>4 DEF Discarded
    <3> QED BY <3>2, <3>5, <3>6 DEF HasUse, Kept
  <2>4. ASSUME NEW q \in Queues, NEW e \in Range(gpuQueue'[q]), e.buffer # NoBuffer, refs'[e.buffer] # {}
        PROVE  UseOf(q, e)'
    <3>1. e \in Range(gpuQueue[q])
      BY DEF Settled
    <3>2. PICK b \in Buffers : b = e.buffer
      BY <2>4, <3>1, EntryFacts DEF IInv
    <3>3. refs'[b] \subseteq refs[b]
      BY <3>2 DEF Discarded
    <3>4. PICK i \in DOMAIN m_heapUses :
            /\ m_heapUses[i].queue = q /\ m_heapUses[i].token = e.id
            /\ \A slot \in refs[b] : Kept(slot, m_heapUses[i].id)
      BY <2>4, <3>1, <3>2, <3>3 DEF RefsOK, UseOf
    <3>5. PICK n : n = m_heapUses[i].id
      OBVIOUS
    <3>6. \A slot \in refs'[b] : Kept(slot, n)'
      BY <1>3, <3>3, <3>4, <3>5
    <3>7. /\ i \in DOMAIN m_heapUses' /\ m_heapUses'[i].queue = q /\ m_heapUses'[i].token = e.id
          /\ m_heapUses'[i].id = n
      BY <3>4, <3>5 DEF Discarded
    <3> QED BY <3>2, <3>6, <3>7 DEF UseOf, Kept
  <2> QED BY <2>1, <2>2, <2>3, <2>4 DEF RefsOK
<1> QED BY <1>1, <1>2, <1>7, <1>8
(* Discarding the uses of S, and touching nothing else.                    *)
LEMMA ClearedDiscards ==
  ASSUME HeapShape, NEW S, Cleared(S)
  PROVE  Discarded(S)
<1> USE DEF Cleared, discardCommandBufferUses, Unread, KeepHeap
<1>1. PICK uses \in Seq(HeapUses) : uses = m_heapUses
  BY DEF HeapShape
<1>2. PICK kept : kept = [i \in DOMAIN uses |->
                            IF uses[i].commandBuffer \in S
                            THEN [uses[i] EXCEPT !.commandBuffer = NoBuffer] ELSE uses[i]]
  OBVIOUS
<1>3. ASSUME NEW i \in DOMAIN uses
      PROVE  /\ kept[i] \in HeapUses
             /\ kept[i].id = uses[i].id /\ kept[i].queue = uses[i].queue /\ kept[i].token = uses[i].token
             /\ kept[i].commandBuffer = IF uses[i].commandBuffer \in S THEN NoBuffer ELSE uses[i].commandBuffer
  <2>1. uses[i] \in HeapUses
    OBVIOUS
  <2>2. CASE uses[i].commandBuffer \in S
    <3>1. kept[i] = [uses[i] EXCEPT !.commandBuffer = NoBuffer]
      BY <1>2, <2>2
    <3> QED BY <2>1, <2>2, <3>1 DEF HeapUses
  <2>3. CASE uses[i].commandBuffer \notin S
    <3>1. kept[i] = uses[i]
      BY <1>2, <2>3
    <3> QED BY <2>1, <2>3, <3>1
  <2> QED BY <2>2, <2>3
<1>4. kept \in Seq(HeapUses) /\ DOMAIN kept = DOMAIN uses
  <2>1. DOMAIN kept = 1 .. Len(uses) /\ Len(uses) \in Nat
    BY <1>2
  <2>2. kept \in [1 .. Len(uses) -> HeapUses]
    BY <1>2, <1>3, <2>1
  <2> QED BY <1>2, <2>1, <2>2
<1>5. m_heapUses' = kept
  BY <1>1, <1>2
<1>6. \A b \in Buffers : m_referencedDescriptorHeaps'[b] = (b \notin S /\ m_referencedDescriptorHeaps[b])
  OBVIOUS
<1>7. m_referencedDescriptorHeaps' \in [Buffers -> BOOLEAN]
  OBVIOUS
<1>8. /\ refs' \in [Buffers -> SUBSET AllSlots]
      /\ \A b \in Buffers : refs'[b] \subseteq refs[b] /\ (b \in S => refs'[b] = {})
  BY DEF HeapShape
<1>9. UNCHANGED slotVars /\ m_lastHeapUseID' = m_lastHeapUseID
  OBVIOUS
<1> HIDE DEF Cleared, discardCommandBufferUses, Unread, KeepHeap
<1> QED BY <1>1, <1>3, <1>4, <1>5, <1>6, <1>7, <1>8, <1>9 DEF Discarded

(* Discarding no use; buffers may index fewer slots.                       *)
LEMMA NothingDiscarded ==
  ASSUME HeapShape, UNCHANGED <<freeList, nextFresh, liveSlots, m_retired, m_heapUses, m_lastHeapUseID,
                                m_referencedDescriptorHeaps>>,
         refs' \in [Buffers -> SUBSET AllSlots], \A b \in Buffers : refs'[b] \subseteq refs[b]
  PROVE  Discarded({})
BY DEF HeapShape, Discarded, slotVars

(* No buffer outside S leaves its queue's flight.                          *)
Flown(S) ==
  \A q \in Queues : \A k \in DOMAIN m_commandBuffersInFlight[q] :
    \/ m_commandBuffersInFlight[q][k] \in S
    \/ \E j \in DOMAIN m_commandBuffersInFlight'[q] : m_commandBuffersInFlight'[q][j] = m_commandBuffersInFlight[q][k]

(* The accepted submissions stay, and no id is taken back.                 *)
LEMMA SameSubmissions ==
  ASSUME Core, UNCHANGED <<m_lastSubmittedID, gpuQueue>>
  PROVE  /\ \A q \in Queues : \A e \in Range(gpuQueue'[q]) : e \in Range(gpuQueue[q])
         /\ \A q \in Queues : /\ m_lastSubmittedID[q] \in Nat /\ m_lastSubmittedID'[q] \in Nat
                              /\ m_lastSubmittedID'[q] >= m_lastSubmittedID[q]
<1>1. \A q \in Queues : m_lastSubmittedID[q] \in Nat
  BY QueueAssumption DEF Core, CoreType
<1> QED BY <1>1

(* A collection takes completed buffers out of flight and no others.       *)
LEMMA CollectFlown ==
  ASSUME Core, NEW q \in Queues, NEW fin \in 0 .. SubmissionLimit,
         m_commandBuffersInFlight' = [m_commandBuffersInFlight EXCEPT ![q] = StillInFlight(q, fin)]
  PROVE  Flown(Range(Completed(q, fin)))
<1>1. CoreType
  BY DEF Core
<1>2. PICK list \in Seq(Buffers) : list = m_commandBuffersInFlight[q]
  BY <1>1 DEF CoreType
<1>3. PICK c, done, rest : c = CompletedCount(q, fin) /\ done = Completed(q, fin) /\ rest = StillInFlight(q, fin)
  OBVIOUS
<1>4. /\ c \in Nat /\ c <= Len(list) /\ DOMAIN done = 1 .. c
      /\ \A k \in 1 .. c : done[k] = list[k]
      /\ DOMAIN rest = 1 .. Len(list) - c
      /\ \A k \in 1 .. Len(list) - c : rest[k] = list[k + c]
  BY <1>1, <1>2, <1>3, CollectedSequences
<1>5. Len(list) \in Nat /\ DOMAIN list = 1 .. Len(list)
  OBVIOUS
<1>6. \A p \in Queues : m_commandBuffersInFlight'[p] = IF p = q THEN rest ELSE m_commandBuffersInFlight[p]
  BY <1>1, <1>3 DEF CoreType
<1>7. ASSUME NEW k \in DOMAIN list
      PROVE  list[k] \in Range(done) \/ \E j \in DOMAIN rest : rest[j] = list[k]
  <2>1. CASE k <= c
    <3>1. k \in 1 .. c
      BY <1>5, <2>1
    <3> QED BY <1>4, <3>1 DEF Range
  <2>2. CASE ~(k <= c)
    <3>1. k - c \in 1 .. Len(list) - c /\ (k - c) + c = k
      BY <1>4, <1>5, <2>2
    <3> QED BY <1>4, <3>1
  <2> QED BY <2>1, <2>2
<1> QED BY <1>2, <1>3, <1>6, <1>7 DEF Flown

(* A list gives up its buffer.                                             *)
LEMMA DropSettled ==
  ASSUME Core, NEW r \in Recorders, NEW fin, Drop(r, fin)
  PROVE  Settled({m_currentCmdBuf[r]})
<1>1. \A s \in Recorders : m_currentCmdBuf'[s] = IF s = r THEN NoBuffer ELSE m_currentCmdBuf[s]
  BY DEF Drop, Core, CoreType
<1>2. UNCHANGED <<m_lastSubmittedID, m_commandBuffersInFlight, gpuQueue>>
  BY DEF Drop
<1> QED BY <1>1, <1>2, SameSubmissions DEF Settled

(* A list that has none takes a buffer.                                    *)
LEMMA HoldSettled ==
  ASSUME Core, Core', OpenEmpty, NEW S, Flown(S), NEW r \in Recorders, NEW b, Hold(r, b)
  PROVE  Settled(S)
<1>1. m_currentCmdBuf[r] = NoBuffer
  BY DEF Hold, OpenEmpty
<1>2. \A s \in Recorders : m_currentCmdBuf'[s] = IF s = r THEN b ELSE m_currentCmdBuf[s]
  BY DEF Hold, Core, CoreType
<1>3. UNCHANGED <<m_lastSubmittedID, gpuQueue>>
  BY DEF Hold
<1>4. b \in S \cup {NoBuffer} \/ (~OnList(b) /\ ~Flying(b))
  <2>1. SUFFICES ASSUME b \notin S, b # NoBuffer PROVE ~OnList(b) /\ ~Flying(b)
    OBVIOUS
  <2>2. ~OnList(b)
    <3> SUFFICES ASSUME NEW s \in Recorders, m_currentCmdBuf[s] = b PROVE FALSE
      BY DEF OnList
    <3>1. s # r /\ m_currentCmdBuf'[s] = b /\ m_currentCmdBuf'[r] = b
      BY <1>1, <1>2, <2>1
    <3>2. \A t, u \in Recorders : m_currentCmdBuf'[t] = m_currentCmdBuf'[u] /\ m_currentCmdBuf'[t] # NoBuffer => t = u
      BY DEF Core, Placed, OnePlace
    <3> QED BY <2>1, <3>1, <3>2
  <2>3. ~Flying(b)
    <3> SUFFICES ASSUME NEW q \in Queues, NEW k \in DOMAIN m_commandBuffersInFlight[q],
                        m_commandBuffersInFlight[q][k] = b
                 PROVE  FALSE
      BY DEF Flying
    <3>1. PICK j \in DOMAIN m_commandBuffersInFlight'[q] : m_commandBuffersInFlight'[q][j] = b
      BY <2>1 DEF Flown
    <3>2. m_currentCmdBuf'[r] = b
      BY <1>2
    <3>3. \A i \in DOMAIN m_commandBuffersInFlight'[q] : m_currentCmdBuf'[r] # m_commandBuffersInFlight'[q][i]
      BY DEF Core, Placed, OnePlace
    <3> QED BY <3>1, <3>2, <3>3
  <2> QED BY <2>2, <2>3
<1>5. \A s \in Recorders : m_currentCmdBuf[s] \in S \cup {NoBuffer} \/ m_currentCmdBuf'[s] = m_currentCmdBuf[s]
  BY <1>1, <1>2
<1>6. \A s \in Recorders :
        \/ m_currentCmdBuf'[s] = m_currentCmdBuf[s]
        \/ m_currentCmdBuf'[s] \in S \cup {NoBuffer}
        \/ ~OnList(m_currentCmdBuf'[s]) /\ ~Flying(m_currentCmdBuf'[s])
  BY <1>2, <1>4
<1> QED BY <1>3, <1>5, <1>6, SameSubmissions DEF Settled, Flown

(* The lists keep their buffers.                                           *)
LEMMA ListsSettled ==
  ASSUME Core, NEW S, Flown(S), m_currentCmdBuf' = m_currentCmdBuf, UNCHANGED <<m_lastSubmittedID, gpuQueue>>
  PROVE  Settled(S)
BY SameSubmissions DEF Settled, Flown

(* A rejected submission gives up the buffer that it named.                *)
LEMMA RejectedSettled ==
  ASSUME Core, NEW r \in Recorders, NEW withList \in BOOLEAN, NEW after, SubmitRejected(r, withList, after)
  PROVE  Settled({SubmittedBuffer(r, withList)} \ {NoBuffer})
<1>1. PICK b : b = SubmittedBuffer(r, withList)
  OBVIOUS
<1>2. /\ b # NoBuffer => b = m_currentCmdBuf[r]
      /\ \A s \in Recorders : m_currentCmdBuf'[s] = IF s = r /\ b # NoBuffer THEN NoBuffer ELSE m_currentCmdBuf[s]
  BY <1>1, DetachFacts DEF SubmitRejected
<1>3. UNCHANGED <<m_lastSubmittedID, m_commandBuffersInFlight, gpuQueue>>
  BY DEF SubmitRejected
<1>4. \A s \in Recorders : m_currentCmdBuf[s] \in ({b} \ {NoBuffer}) \cup {NoBuffer} \/ m_currentCmdBuf'[s] = m_currentCmdBuf[s]
  BY <1>2
<1>5. \A s \in Recorders : m_currentCmdBuf'[s] = m_currentCmdBuf[s] \/ m_currentCmdBuf'[s] = NoBuffer
  BY <1>2
<1> QED BY <1>1, <1>3, <1>4, <1>5, SameSubmissions DEF Settled
-----------------------------------------------------------------------------
(* The steps of the queue.                                                 *)

(* What a collection learned stays true while the timelines advance.       *)
LEMMA SweepKeeps ==
  ASSUME SweepOK, sweep' = sweep, \A q \in Queues : gpuDone[q] \in Nat /\ gpuDone'[q] \in Nat /\ gpuDone'[q] >= gpuDone[q]
  PROVE  SweepOK'
<1>1. ASSUME NEW s \in Sweepers, NEW q \in DOMAIN sweep[s].completions, q \in Queues
      PROVE  sweep[s].completions[q] \in Nat /\ sweep[s].completions[q] <= gpuDone'[q]
  <2>1. sweep[s].completions[q] \in Nat /\ sweep[s].completions[q] <= gpuDone[q]
    BY <1>1 DEF SweepOK
  <2>2. gpuDone[q] \in Nat /\ gpuDone'[q] \in Nat /\ gpuDone'[q] >= gpuDone[q]
    BY <1>1
  <2> QED BY <2>1, <2>2
<1> QED BY <1>1 DEF SweepOK

(* The same when they stand still.                                         *)
LEMMA SweepStays ==
  ASSUME Core, SweepOK, sweep' = sweep, gpuDone' = gpuDone
  PROVE  SweepOK'
<1>1. \A q \in Queues : gpuDone[q] \in Nat
  BY QueueAssumption DEF Core, CoreType
<1> QED BY <1>1, SweepKeeps

(* A recorder's call goes on and the other lists keep or lose their        *)
(* buffers.                                                                *)
LEMMA OpenStays ==
  ASSUME CallType, OpenEmpty, NEW r \in Recorders,
         \A s \in Recorders \ {r} : m_currentCmdBuf'[s] \in {m_currentCmdBuf[s], NoBuffer},
         \/ exec' = exec /\ m_currentCmdBuf'[r] \in {m_currentCmdBuf[r], NoBuffer}
         \/ \E call : exec' = [exec EXCEPT ![r] = call] /\ (call.at = "open" => m_currentCmdBuf'[r] = NoBuffer)
  PROVE  OpenEmpty'
<1>1. CASE exec' = exec /\ m_currentCmdBuf'[r] \in {m_currentCmdBuf[r], NoBuffer}
  BY <1>1 DEF OpenEmpty
<1>2. ASSUME NEW call, exec' = [exec EXCEPT ![r] = call], call.at = "open" => m_currentCmdBuf'[r] = NoBuffer
      PROVE  OpenEmpty'
  <2>1. \A s \in Recorders : exec'[s] = IF s = r THEN call ELSE exec[s]
    BY <1>2 DEF CallType
  <2> QED BY <1>2, <2>1 DEF OpenEmpty
<1> QED BY <1>1, <1>2

(* A call that Goto moves elsewhere than to "open".                        *)
LEMMA GotoAt ==
  ASSUME NEW at, NEW call, call = [NotExecuting EXCEPT !.at = at]
  PROVE  call.at = at
BY DEF NotExecuting

(* open() and close().                                                     *)
LEMMA OpensKeeps ==
  ASSUME IInv, IInv', HeapInv, NEW r \in Recorders, Opens(r)
  PROVE  HeapInv'
<1>0. Core /\ Core' /\ CallType /\ HeapShape /\ SweepOK /\ OpenEmpty
  BY DEF IInv, HeapInv
<1>1. ASSUME NEW fin, OpenDrop(r, fin) \/ OpenFails(r, fin) \/ CloseFails(r, fin), Cleared({m_currentCmdBuf[r]})
      PROVE  HeapInv'
  <2>1. Drop(r, fin) /\ (exec' = exec \/ \E at : Goto(r, at))
    BY <1>1 DEF OpenDrop, OpenFails, CloseFails
  <2>2. Discarded({m_currentCmdBuf[r]}) /\ Settled({m_currentCmdBuf[r]})
    BY <1>0, <1>1, <2>1, ClearedDiscards, DropSettled
  <2>3. HeapShape' /\ SlotsOK' /\ UsesOK' /\ RefsOK'
    BY <2>2, SettledKeeps
  <2>4. SweepOK'
    BY <1>0, <1>1, <2>1, SweepStays DEF Cleared, KeepHeap, Drop
  <2>5. OpenEmpty'
    <3>1. \A s \in Recorders : m_currentCmdBuf'[s] = IF s = r THEN NoBuffer ELSE m_currentCmdBuf[s]
      BY <1>0, <2>1 DEF Drop, Core, CoreType
    <3>2. exec' = exec \/ \E call : exec' = [exec EXCEPT ![r] = call]
      BY <2>1 DEF Goto
    <3> QED BY <1>0, <3>1, <3>2, OpenStays
  <2> QED BY <2>3, <2>4, <2>5 DEF HeapInv
<1>2. ASSUME NEW b, Hold(r, b) PROVE OpenEmpty'
  <2>1. \A s \in Recorders \ {r} : m_currentCmdBuf'[s] = m_currentCmdBuf[s]
    BY <1>0, <1>2 DEF Hold, Core, CoreType
  <2>2. PICK at \in {"idle", "begin"} : Goto(r, at)
    BY <1>2 DEF Hold
  <2>3. PICK call : call = [NotExecuting EXCEPT !.at = at]
    OBVIOUS
  <2>4. exec' = [exec EXCEPT ![r] = call] /\ call.at # "open"
    BY <2>2, <2>3, GotoAt DEF Goto
  <2> QED BY <1>0, <2>1, <2>4, OpenStays
<1>3. ASSUME NEW fin, NEW b, getOrCreateDirectCommandBuffer(r, fin, b), Cleared(Range(Completed(QueueOf[r], fin)))
      PROVE  HeapInv'
  <2>1. PICK q \in Queues : q = QueueOf[r]
    BY QueueAssumption
  <2>2. PICK S : S = Range(Completed(q, fin))
    OBVIOUS
  <2>3. /\ fin \in updateLastFinishedID(q) /\ Hold(r, b)
        /\ m_commandBuffersInFlight' = [m_commandBuffersInFlight EXCEPT ![q] = StillInFlight(q, fin)]
    BY <1>3, <2>1 DEF getOrCreateDirectCommandBuffer
  <2>4. fin \in 0 .. SubmissionLimit
    BY <1>0, <2>3, PollValues DEF Core
  <2>5. Flown(S)
    BY <1>0, <2>2, <2>3, <2>4, CollectFlown
  <2>6. Discarded(S) /\ Settled(S)
    BY <1>0, <1>3, <2>1, <2>2, <2>3, <2>5, ClearedDiscards, HoldSettled
  <2>7. HeapShape' /\ SlotsOK' /\ UsesOK' /\ RefsOK'
    BY <2>6, SettledKeeps
  <2>8. SweepOK'
    BY <1>0, <1>3, <2>3, SweepStays DEF Cleared, KeepHeap, Hold
  <2> QED BY <1>2, <2>3, <2>7, <2>8 DEF HeapInv
<1>4. ASSUME NEW b, getOrCreateWorkerCommandBuffer(r, b), UNCHANGED heapVars
      PROVE  HeapInv'
  <2>1. Hold(r, b) /\ m_commandBuffersInFlight' = m_commandBuffersInFlight
    BY <1>4 DEF getOrCreateWorkerCommandBuffer
  <2>2. Flown({})
    BY <2>1 DEF Flown
  <2>3. Discarded({})
    BY <1>0, <1>4, NothingDiscarded DEF heapVars, HeapShape
  <2>4. Settled({})
    BY <1>0, <2>1, <2>2, HoldSettled
  <2>5. HeapShape' /\ SlotsOK' /\ UsesOK' /\ RefsOK'
    BY <2>3, <2>4, SettledKeeps
  <2>6. SweepOK'
    BY <1>0, <1>4, <2>1, SweepStays DEF heapVars, Hold
  <2> QED BY <1>2, <2>1, <2>5, <2>6 DEF HeapInv
<1>5. ASSUME OpenBegin(r) \/ Close(r), UNCHANGED heapVars
      PROVE  HeapInv'
  <2>1. UNCHANGED <<m_currentCmdBuf, m_commandBuffersInFlight, m_lastSubmittedID, gpuQueue, gpuDone>>
    BY <1>5 DEF OpenBegin, Close
  <2>2. Discarded({})
    BY <1>0, <1>5, NothingDiscarded DEF heapVars, HeapShape
  <2>3. Settled({})
    BY <1>0, <2>1, ListsSettled DEF Flown
  <2>4. HeapShape' /\ SlotsOK' /\ UsesOK' /\ RefsOK'
    BY <2>2, <2>3, SettledKeeps
  <2>5. SweepOK'
    BY <1>0, <1>5, <2>1, SweepStays DEF heapVars
  <2>6. OpenEmpty'
    <3>1. PICK call : call = [NotExecuting EXCEPT !.at = "idle"]
      OBVIOUS
    <3>2. exec' = exec \/ (exec' = [exec EXCEPT ![r] = call] /\ call.at # "open")
      BY <1>5, <3>1, GotoAt DEF OpenBegin, Close, Goto
    <3> QED BY <1>0, <2>1, <3>2, OpenStays
  <2> QED BY <2>4, <2>5, <2>6 DEF HeapInv
<1> QED BY <1>1, <1>3, <1>4, <1>5 DEF Opens

(* Steps that move no buffer, discard no use and leave the lists alone.    *)
LEMMA IdleKeeps ==
  ASSUME IInv, IInv', HeapInv, UNCHANGED heapVars, NEW r \in Recorders, NEW call, call.at # "open",
         exec' = exec \/ exec' = [exec EXCEPT ![r] = call],
         UNCHANGED <<m_currentCmdBuf, m_commandBuffersInFlight, m_lastSubmittedID, gpuQueue, gpuDone>>
  PROVE  HeapInv'
<1>0. Core /\ CallType /\ HeapShape /\ SweepOK /\ OpenEmpty
  BY DEF IInv, HeapInv
<1>1. Discarded({})
  BY <1>0, NothingDiscarded DEF heapVars, HeapShape
<1>2. Settled({})
  BY <1>0, ListsSettled DEF Flown
<1>3. HeapShape' /\ SlotsOK' /\ UsesOK' /\ RefsOK'
  BY <1>1, <1>2, SettledKeeps
<1>4. SweepOK'
  BY <1>0, SweepStays DEF heapVars
<1>5. OpenEmpty'
  BY <1>0, OpenStays
<1> QED BY <1>3, <1>4, <1>5 DEF HeapInv

(* Validation of the tokens.                                               *)
LEMMA HeapExecutesKeeps ==
  ASSUME IInv, IInv', HeapInv, NEW r \in Recorders, Executes(r), UNCHANGED heapVars
  PROVE  HeapInv'
<1>1. PICK tokens : Execute(r, tokens)
  BY DEF Executes
<1>2. PICK call : call = [at |-> "submit", waits |-> LocalWaits(QueueOf[r], tokens)]
  OBVIOUS
<1>3. /\ exec' = [exec EXCEPT ![r] = call] /\ call.at # "open"
      /\ UNCHANGED <<m_currentCmdBuf, m_commandBuffersInFlight, m_lastSubmittedID, gpuQueue, gpuDone>>
  BY <1>1, <1>2 DEF Execute
<1> QED BY <1>3, IdleKeeps

(* Polls and collections.                                                  *)
LEMMA CollectsKeeps ==
  ASSUME IInv, IInv', HeapInv, NEW q \in Queues, Collects(q)
  PROVE  HeapInv'
<1>0. Core /\ CallType /\ HeapShape /\ SweepOK /\ OpenEmpty
  BY DEF IInv, HeapInv
<1>1. PICK fin \in 0 .. SubmissionLimit :
        \/ queueGetCompletedInstance(q, fin) /\ UNCHANGED heapVars
        \/ (runGarbageCollection(q, fin) \/ waitForIdle(q, fin)) /\ Cleared(Range(Completed(q, fin)))
  BY DEF Collects
<1>2. /\ UNCHANGED <<m_currentCmdBuf, m_lastSubmittedID, gpuQueue, gpuDone, exec>> /\ sweep' = sweep
  BY <1>1 DEF queueGetCompletedInstance, runGarbageCollection, waitForIdle, Collect, Cleared,
      KeepHeap, heapVars
<1>3. PICK S : Flown(S) /\ Discarded(S)
  <2>1. CASE queueGetCompletedInstance(q, fin) /\ UNCHANGED heapVars
    <3>1. Discarded({})
      BY <1>0, <2>1, NothingDiscarded DEF heapVars, HeapShape
    <3>2. Flown({})
      BY <2>1 DEF queueGetCompletedInstance, Flown
    <3> QED BY <3>1, <3>2
  <2>2. CASE (runGarbageCollection(q, fin) \/ waitForIdle(q, fin)) /\ Cleared(Range(Completed(q, fin)))
    <3>1. Discarded(Range(Completed(q, fin)))
      BY <1>0, <2>2, ClearedDiscards
    <3>2. Flown(Range(Completed(q, fin)))
      BY <1>0, <2>2, CollectFlown DEF runGarbageCollection, waitForIdle, Collect
    <3> QED BY <3>1, <3>2
  <2> QED BY <1>1, <2>1, <2>2
<1>4. Settled(S)
  BY <1>0, <1>2, <1>3, ListsSettled
<1>5. HeapShape' /\ SlotsOK' /\ UsesOK' /\ RefsOK'
  BY <1>3, <1>4, SettledKeeps
<1>6. SweepOK'
  BY <1>0, <1>2, SweepStays
<1>7. OpenEmpty'
  BY <1>0, <1>2 DEF OpenEmpty
<1> QED BY <1>5, <1>6, <1>7 DEF HeapInv

(* The GPU finishes a submission.                                          *)
LEMMA FinishesKeeps ==
  ASSUME IInv, IInv', HeapInv, NEW q \in Queues, Finishes(q)
  PROVE  HeapInv'
<1>0. Core /\ CallType /\ HeapShape /\ SweepOK /\ OpenEmpty
  BY DEF IInv, HeapInv
<1>1. /\ UNCHANGED <<m_currentCmdBuf, m_commandBuffersInFlight, m_lastSubmittedID, exec>>
      /\ UNCHANGED <<freeList, nextFresh, liveSlots, m_retired, m_heapUses, m_lastHeapUseID,
                     m_referencedDescriptorHeaps, sweep>>
  BY DEF Finishes, GpuFinish, KeepHeap, slotVars
<1>2. refs' \in [Buffers -> SUBSET AllSlots] /\ \A b \in Buffers : refs'[b] \subseteq refs[b]
  <2>1. PICK S : refs' = [b \in Buffers |-> IF b \in S THEN {} ELSE refs[b]]
    BY DEF Finishes, Unread
  <2> QED BY <1>0, <2>1 DEF HeapShape
<1>3. Discarded({})
  BY <1>0, <1>1, <1>2, NothingDiscarded
<1>4. PICK queue \in Seq(Entries) : queue = gpuQueue[q]
  BY <1>0 DEF Core, CoreType
<1>5. queue # <<>> /\ gpuDone' = [gpuDone EXCEPT ![q] = Head(queue).id] /\ gpuQueue' = [gpuQueue EXCEPT ![q] = Tail(queue)]
  BY <1>4 DEF Finishes, GpuFinish
<1>6. \A p \in Queues : \A e \in Range(gpuQueue'[p]) : e \in Range(gpuQueue[p])
  <2>1. Tail(queue) \in Seq(Entries) /\ \A i \in DOMAIN Tail(queue) : i + 1 \in DOMAIN queue /\ Tail(queue)[i] = queue[i + 1]
    BY <1>5
  <2>2. \A p \in Queues : gpuQueue'[p] = IF p = q THEN Tail(queue) ELSE gpuQueue[p]
    BY <1>0, <1>5 DEF Core, CoreType
  <2>3. \A e \in Range(Tail(queue)) : e \in Range(queue)
    BY <2>1 DEF Range
  <2> QED BY <1>4, <2>2, <2>3
<1>7. Settled({})
  <2>1. \A p \in Queues : m_lastSubmittedID[p] \in Nat /\ m_lastSubmittedID'[p] \in Nat /\ m_lastSubmittedID'[p] >= m_lastSubmittedID[p]
    BY <1>0, <1>1, QueueAssumption DEF Core, CoreType
  <2> QED BY <1>1, <1>6, <2>1 DEF Settled
<1>8. HeapShape' /\ SlotsOK' /\ UsesOK' /\ RefsOK'
  BY <1>3, <1>7, SettledKeeps
<1>9. SweepOK'
  <2>1. Head(queue) = queue[1] /\ 1 \in DOMAIN queue
    BY <1>5
  <2>2. Head(queue).id = gpuDone[q] + 1
    BY <1>0, <1>4, <2>1 DEF Core, TimelineExact
  <2>3. \A p \in Queues : gpuDone[p] \in Nat
    BY <1>0, QueueAssumption DEF Core, CoreType
  <2>4. \A p \in Queues : gpuDone'[p] = IF p = q THEN gpuDone[q] + 1 ELSE gpuDone[p]
    BY <1>0, <1>5, <2>2 DEF Core, CoreType
  <2>5. \A p \in Queues : gpuDone[p] \in Nat /\ gpuDone'[p] \in Nat /\ gpuDone'[p] >= gpuDone[p]
    BY <2>3, <2>4
  <2> QED BY <1>0, <1>1, <2>5, SweepKeeps
<1>10. OpenEmpty'
  BY <1>0, <1>1 DEF OpenEmpty
<1> QED BY <1>8, <1>9, <1>10 DEF HeapInv
(* A submission the driver accepts gives its id to the buffer's use.       *)
LEMMA AcceptedKeeps ==
  ASSUME IInv, IInv', HeapInv, NEW r \in Recorders, NEW withList \in BOOLEAN,
         SubmitAccepted(r, withList, NotExecuting),
         submitCommandBufferUse(SubmittedBuffer(r, withList), m_lastSubmittedID[QueueOf[r]] + 1),
         KeepHeap, UNCHANGED <<m_referencedDescriptorHeaps, refs>>
  PROVE  HeapInv'
<1>0. Core /\ Core' /\ CallType /\ HeapShape /\ UsesOK /\ RefsOK /\ SweepOK /\ OpenEmpty
  BY DEF IInv, HeapInv
<1>1. PICK q \in Queues : q = QueueOf[r]
  BY QueueAssumption
<1>2. PICK b : b = SubmittedBuffer(r, withList)
  OBVIOUS
<1>3. PICK id : id = m_lastSubmittedID[q] + 1
  OBVIOUS
<1>4. PICK entry : entry = [id |-> id, buffer |-> b, waits |-> Waits(r)]
  OBVIOUS
<1>5. /\ b \in Buffers \cup {NoBuffer}
      /\ b # NoBuffer => b = m_currentCmdBuf[r]
      /\ \A s \in Recorders : m_currentCmdBuf'[s] = IF s = r /\ b # NoBuffer THEN NoBuffer ELSE m_currentCmdBuf[s]
      /\ id \in Ids
      /\ \A p \in Queues : \A e \in Range(gpuQueue[p]) : e.buffer # NoBuffer => e.buffer # b
  BY <1>0, <1>1, <1>2, <1>3, DetachFacts DEF SubmitAccepted
<1>6. /\ m_lastSubmittedID' = [m_lastSubmittedID EXCEPT ![q] = id]
      /\ m_commandBuffersInFlight' =
           [m_commandBuffersInFlight EXCEPT ![q] = m_commandBuffersInFlight[q] \o DetachedList(r, withList)]
      /\ gpuQueue' = [gpuQueue EXCEPT ![q] = Append(gpuQueue[q], entry)]
      /\ exec' = [exec EXCEPT ![r] = NotExecuting] /\ gpuDone' = gpuDone
  BY <1>1, <1>2, <1>3, <1>4 DEF SubmitAccepted
<1>7. /\ UNCHANGED <<freeList, nextFresh, liveSlots, m_retired, m_lastHeapUseID, sweep,
                     m_referencedDescriptorHeaps, refs>>
      /\ id \in 0 .. SubmissionLimit /\ id # NoToken /\ id \in Nat
      /\ NoBuffer \notin Buffers
  <2>1. UNCHANGED <<freeList, nextFresh, liveSlots, m_retired, m_lastHeapUseID, sweep,
                    m_referencedDescriptorHeaps, refs>>
    BY DEF KeepHeap, slotVars
  <2>2. SubmissionLimit \in Nat /\ id \in 1 .. SubmissionLimit /\ NoBuffer \notin Buffers
    BY <1>5, QueueAssumption DEF Ids
  <2> QED BY <2>1, <2>2 DEF NoToken
<1>8. PICK uses \in Seq(HeapUses) : uses = m_heapUses
  BY <1>0 DEF HeapShape
<1>9. PICK uses2 : uses2 = m_heapUses'
  OBVIOUS
<1> DEFINE open == {i \in DOMAIN uses : uses[i].commandBuffer = b /\ uses[i].token = NoToken}
<1>10. uses2 = IF b = NoBuffer \/ ~ m_referencedDescriptorHeaps[b] \/ open = {} THEN uses
               ELSE [uses EXCEPT ![CHOOSE i \in open : \A j \in open : i <= j].token = id]
  BY <1>1, <1>2, <1>3, <1>8, <1>9 DEF submitCommandBufferUse
(* The use that gets the token is the only one of the buffer.              *)
<1>11. /\ uses2 \in Seq(HeapUses) /\ DOMAIN uses2 = DOMAIN uses
       /\ \A i \in DOMAIN uses :
            /\ uses2[i].id = uses[i].id /\ uses2[i].queue = uses[i].queue
            /\ uses2[i].commandBuffer = uses[i].commandBuffer
            /\ uses2[i].token = IF b # NoBuffer /\ uses[i].commandBuffer = b /\ uses[i].token = NoToken THEN id ELSE uses[i].token
  <2>1. CASE uses2 = uses
    <3>1. b = NoBuffer \/ ~ m_referencedDescriptorHeaps[b] \/ open = {}
      <4> SUFFICES ASSUME b # NoBuffer, m_referencedDescriptorHeaps[b], open # {} PROVE FALSE
        OBVIOUS
      <4>1. PICK n : n = CHOOSE i \in open : \A j \in open : i <= j
        OBVIOUS
      <4>2. n \in open
        <5>1. open \in SUBSET Nat
          OBVIOUS
        <5>2. \E i \in open : \A j \in open : i <= j
          <6> HIDE DEF open
          <6> QED BY <5>1, Smallest
        <5> HIDE DEF open
        <5> QED BY <4>1, <5>2
      <4>3. uses2 = [uses EXCEPT ![n].token = id] /\ uses[n] \in HeapUses /\ uses[n].token = NoToken
        BY <1>10, <4>1, <4>2
      <4>4. uses2[n].token = id
        BY <4>2, <4>3 DEF HeapUses
      <4> QED BY <1>7, <2>1, <4>3, <4>4
    <3>2. \A i \in DOMAIN uses : ~(b # NoBuffer /\ uses[i].commandBuffer = b /\ uses[i].token = NoToken)
      <4> TAKE i \in DOMAIN uses
      <4>1. CASE b # NoBuffer /\ ~ m_referencedDescriptorHeaps[b]
        BY <1>0, <1>8, <4>1 DEF UsesOK, UseOK
      <4> QED BY <3>1, <4>1
    <3> QED BY <2>1, <3>2
  <2>2. CASE b # NoBuffer /\ open # {} /\ uses2 = [uses EXCEPT ![CHOOSE i \in open : \A j \in open : i <= j].token = id]
    <3>1. PICK n : n = CHOOSE i \in open : \A j \in open : i <= j
      OBVIOUS
    <3>2. n \in open
      <4>1. open \in SUBSET Nat
        OBVIOUS
      <4>2. \E i \in open : \A j \in open : i <= j
        <5> HIDE DEF open
        <5> QED BY <2>2, <4>1, Smallest
      <4> HIDE DEF open
      <4> QED BY <3>1, <4>2
    <3>3. n \in DOMAIN uses /\ uses[n].commandBuffer = b /\ uses[n].token = NoToken /\ uses[n] \in HeapUses
      BY <3>2
    <3>4. uses2 = [uses EXCEPT ![n].token = id]
      BY <2>2, <3>1
    <3>5. \A i \in DOMAIN uses : uses[i].commandBuffer = b => i = n
      BY <1>0, <1>8, <2>2, <3>3 DEF UsesOK
    <3>6. DOMAIN uses2 = DOMAIN uses /\ \A i \in DOMAIN uses : i # n => uses2[i] = uses[i]
      BY <3>4
    <3>7. uses2[n] = [uses[n] EXCEPT !.token = id]
      BY <3>3, <3>4
    <3>8. /\ uses2[n] \in HeapUses /\ uses2[n].id = uses[n].id /\ uses2[n].queue = uses[n].queue
          /\ uses2[n].commandBuffer = uses[n].commandBuffer /\ uses2[n].token = id
      BY <1>7, <3>3, <3>7 DEF HeapUses
    <3>9. uses2 \in Seq(HeapUses)
      <4>1. \A i \in DOMAIN uses : uses2[i] \in HeapUses
        BY <3>6, <3>8
      <4>2. DOMAIN uses = 1 .. Len(uses) /\ Len(uses) \in Nat
        OBVIOUS
      <4>3. uses2 = [i \in 1 .. Len(uses) |-> uses2[i]]
        BY <3>4, <4>2
      <4> QED BY <4>1, <4>2, <4>3
    <3>10. \A i \in DOMAIN uses :
             /\ uses2[i].id = uses[i].id /\ uses2[i].queue = uses[i].queue
             /\ uses2[i].commandBuffer = uses[i].commandBuffer
      BY <3>6, <3>8
    <3>11. \A i \in DOMAIN uses :
             uses2[i].token = IF b # NoBuffer /\ uses[i].commandBuffer = b /\ uses[i].token = NoToken THEN id ELSE uses[i].token
      <4> TAKE i \in DOMAIN uses
      <4>1. CASE i = n
        BY <2>2, <3>3, <3>8, <4>1
      <4>2. CASE i # n
        <5>1. uses2[i] = uses[i] /\ uses[i].commandBuffer # b
          BY <3>5, <3>6, <4>2
        <5> QED BY <5>1
      <4> QED BY <4>1, <4>2
    <3> QED BY <3>6, <3>9, <3>10, <3>11
  <2> QED BY <1>10, <2>1, <2>2
<1> HIDE DEF open
<1>12. HeapShape'
  BY <1>0, <1>7, <1>9, <1>11 DEF HeapShape
<1>13. SlotsOK'
  BY <1>7 DEF HeapInv, SlotsOK
<1>14. \A slot, n : Kept(slot, n)' <=> Kept(slot, n)
  BY <1>7 DEF Kept
<1>15. \A p \in Queues : /\ m_lastSubmittedID[p] \in Nat /\ m_lastSubmittedID'[p] \in Nat /\ m_lastSubmittedID'[p] >= m_lastSubmittedID[p]
                         /\ p = q => m_lastSubmittedID'[p] = id
  <2>1. \A p \in Queues : m_lastSubmittedID[p] \in Nat
    BY <1>0, QueueAssumption DEF Core, CoreType
  <2>2. \A p \in Queues : m_lastSubmittedID'[p] = IF p = q THEN id ELSE m_lastSubmittedID[p]
    BY <1>0, <1>6 DEF Core, CoreType
  <2> QED BY <1>3, <1>7, <2>1, <2>2
<1>16. UsesOK'
  <2>1. \A i, j \in DOMAIN uses2 : uses2[i].id = uses2[j].id => i = j
    BY <1>0, <1>8, <1>11 DEF UsesOK
  <2>2. \A i, j \in DOMAIN uses2 :
          (uses2[i].commandBuffer = uses2[j].commandBuffer /\ uses2[i].commandBuffer # NoBuffer) => i = j
    BY <1>0, <1>8, <1>11 DEF UsesOK
  <2>3. ASSUME NEW i \in DOMAIN uses2, NEW v, v = uses2[i]
        PROVE  UseOK(v)'
    <3>1. PICK u : u = uses[i]
      OBVIOUS
    <3>2. /\ v.id = u.id /\ v.queue = u.queue /\ v.commandBuffer = u.commandBuffer
          /\ v.token = IF b # NoBuffer /\ u.commandBuffer = b /\ u.token = NoToken THEN id ELSE u.token
      BY <1>11, <2>3, <3>1
    <3>3. UseOK(u) /\ u \in HeapUses
      BY <1>0, <1>8, <1>11, <3>1 DEF UsesOK
    <3>4. v.id <= m_lastHeapUseID' /\ v.token <= m_lastSubmittedID'[v.queue]
      <4>1. u.queue \in Queues /\ u.token \in Nat /\ u.token <= m_lastSubmittedID[u.queue]
        BY <3>3, QueueAssumption DEF HeapUses, UseOK
      <4>2. u.commandBuffer = b /\ b # NoBuffer => u.queue = q
        BY <1>1, <1>5, <3>3 DEF UseOK
      <4>3. v.token <= m_lastSubmittedID'[v.queue]
        BY <1>7, <1>15, <3>2, <4>1, <4>2
      <4> QED BY <1>7, <3>2, <3>3, <4>3 DEF UseOK
    <3>5. ASSUME u.commandBuffer # NoBuffer
          PROVE  /\ m_referencedDescriptorHeaps[u.commandBuffer]
                 /\ v.token = NoToken => OnList(u.commandBuffer)'
                 /\ \A s \in Recorders : m_currentCmdBuf'[s] = u.commandBuffer => u.queue = QueueOf[s]
      <4>1. m_referencedDescriptorHeaps[u.commandBuffer]
        BY <3>3, <3>5 DEF UseOK
      <4>2. ASSUME v.token = NoToken
            PROVE  OnList(u.commandBuffer)'
        <5>1. u.token = NoToken /\ (u.commandBuffer # b \/ b = NoBuffer)
          BY <1>7, <3>2, <4>2
        <5>2. PICK s \in Recorders : m_currentCmdBuf[s] = u.commandBuffer
          BY <3>3, <3>5, <5>1 DEF UseOK, OnList
        <5>3. m_currentCmdBuf'[s] = u.commandBuffer
          BY <1>5, <5>1, <5>2
        <5>4. PICK c : c = u.commandBuffer
          OBVIOUS
        <5> QED BY <5>3, <5>4 DEF OnList
      <4>3. \A s \in Recorders : m_currentCmdBuf'[s] = u.commandBuffer => u.queue = QueueOf[s]
        BY <1>5, <3>3, <3>5 DEF UseOK
      <4> QED BY <4>1, <4>2, <4>3
    <3> QED BY <1>7, <3>2, <3>4, <3>5 DEF UseOK, OnList
  <2>4. \A i \in DOMAIN m_heapUses' : UseOK(m_heapUses[i])'
    BY <1>9, <2>3 DEF UseOK
  <2> QED BY <1>9, <2>1, <2>2, <2>4 DEF UsesOK
<1>17. PICK old \in Seq(Buffers) : old = m_commandBuffersInFlight[q]
  BY <1>0 DEF Core, CoreType
<1>18. PICK new \in Seq(Buffers) : /\ m_commandBuffersInFlight' = [m_commandBuffersInFlight EXCEPT ![q] = new]
                                   /\ \A k \in DOMAIN old : k \in DOMAIN new /\ new[k] = old[k]
                                   /\ b # NoBuffer => \E k \in DOMAIN new : new[k] = b
  <2>1. CASE b = NoBuffer
    <3>1. old \o DetachedList(r, withList) = old
      BY <1>2, <2>1 DEF DetachedList
    <3> QED BY <1>6, <1>17, <2>1, <3>1
  <2>2. CASE b # NoBuffer
    <3>1. DetachedList(r, withList) = <<b>> /\ b \in Buffers
      BY <1>2, <1>5, <2>2 DEF DetachedList
    <3>2. PICK n : n = old \o <<b>>
      OBVIOUS
    <3>3. /\ n \in Seq(Buffers) /\ \A k \in DOMAIN old : k \in DOMAIN n /\ n[k] = old[k]
          /\ Len(old) + 1 \in DOMAIN n /\ n[Len(old) + 1] = b
      BY <3>1, <3>2
    <3> QED BY <1>6, <1>17, <3>1, <3>2, <3>3
  <2> QED BY <2>1, <2>2
<1>19. \A p \in Queues : m_commandBuffersInFlight'[p] = IF p = q THEN new ELSE m_commandBuffersInFlight[p]
  BY <1>0, <1>18 DEF Core, CoreType
<1>20. RefsOK'
  <2>1. \A c \in Buffers : ~m_referencedDescriptorHeaps'[c] => refs'[c] = {}
    BY <1>0, <1>7 DEF RefsOK
  <2>2. ASSUME NEW c \in Buffers, m_referencedDescriptorHeaps[c] PROVE OnList(c)' \/ Flying(c)'
    <3>1. CASE c = b
      <4>1. Flying(c)'
        BY <1>7, <1>18, <1>19, <3>1 DEF Flying
      <4> QED BY <4>1
    <3>2. CASE c # b /\ OnList(c)
      <4>1. PICK s \in Recorders : m_currentCmdBuf[s] = c
        BY <3>2 DEF OnList
      <4>2. m_currentCmdBuf'[s] = c
        BY <1>5, <3>2, <4>1
      <4> QED BY <4>2 DEF OnList
    <3>3. CASE Flying(c)
      <4>1. PICK p \in Queues : \E k \in DOMAIN m_commandBuffersInFlight[p] : m_commandBuffersInFlight[p][k] = c
        BY <3>3 DEF Flying
      <4>2. \E k \in DOMAIN m_commandBuffersInFlight'[p] : m_commandBuffersInFlight'[p][k] = c
        BY <1>17, <1>18, <1>19, <4>1
      <4> QED BY <4>2 DEF Flying
    <3> QED BY <1>0, <2>2, <3>1, <3>2, <3>3 DEF RefsOK
  <2>3. ASSUME NEW s \in Recorders, Tracked(s)'
        PROVE  HasUse(s)'
    <3>1. PICK c : c = m_currentCmdBuf'[s]
      OBVIOUS
    <3>2. c # NoBuffer /\ m_referencedDescriptorHeaps[c] /\ m_currentCmdBuf[s] = c
      BY <1>5, <1>7, <2>3, <3>1 DEF Tracked
    <3>3. c # b
      <4> SUFFICES ASSUME c = b PROVE FALSE
        OBVIOUS
      <4>1. m_currentCmdBuf[r] = b /\ m_currentCmdBuf[s] = b /\ b # NoBuffer
        BY <1>5, <3>2
      <4>2. r = s
        BY <1>0, <4>1 DEF Core, Placed, OnePlace
      <4> QED BY <1>5, <3>1, <3>2, <4>1, <4>2
    <3>4. PICK i \in DOMAIN uses :
            /\ uses[i].commandBuffer = c /\ uses[i].token = NoToken
            /\ \A slot \in refs[c] : Kept(slot, uses[i].id)
      BY <1>0, <1>8, <3>2 DEF RefsOK, Tracked, HasUse
    <3>5. PICK n : n = uses[i].id
      OBVIOUS
    <3>6. \A slot \in refs'[c] : Kept(slot, n)'
      BY <1>7, <1>14, <3>4, <3>5
    <3>7. i \in DOMAIN uses2 /\ uses2[i].commandBuffer = c /\ uses2[i].token = NoToken /\ uses2[i].id = n
      BY <1>11, <3>3, <3>4, <3>5
    <3> QED BY <1>9, <3>1, <3>6, <3>7 DEF HasUse, Kept
  <2>4. ASSUME NEW p \in Queues, NEW e \in Range(gpuQueue'[p]), e.buffer # NoBuffer, refs'[e.buffer] # {}
        PROVE  UseOf(p, e)'
    <3>1. PICK c : c = e.buffer
      OBVIOUS
    <3>2. e \in Range(gpuQueue[p]) \/ (p = q /\ e = entry)
      <4>1. gpuQueue[q] \in Seq(Entries)
        BY <1>0 DEF Core, CoreType
      <4>2. \A s \in Queues : gpuQueue'[s] = IF s = q THEN Append(gpuQueue[q], entry) ELSE gpuQueue[s]
        BY <1>0, <1>6 DEF Core, CoreType
      <4>3. \A x \in Range(Append(gpuQueue[q], entry)) : x \in Range(gpuQueue[q]) \/ x = entry
        BY <4>1 DEF Range
      <4> QED BY <4>2, <4>3
    <3>3. PICK i \in DOMAIN uses : /\ uses2[i].queue = p /\ uses2[i].token = e.id
                                   /\ \A slot \in refs[c] : Kept(slot, uses[i].id)
      <4>1. CASE e \in Range(gpuQueue[p])
        <5>1. e.id # NoToken
          <6>1. e.id > gpuDone[p] /\ e.id \in Nat
            BY <1>0, <4>1, EntryFacts
          <6>2. gpuDone[p] \in Nat
            BY <1>0, QueueAssumption DEF Core, CoreType
          <6> QED BY <6>1, <6>2 DEF NoToken
        <5>2. PICK i \in DOMAIN uses : /\ uses[i].queue = p /\ uses[i].token = e.id
                                       /\ \A slot \in refs[c] : Kept(slot, uses[i].id)
          <6>1. UseOf(p, e)
            BY <1>0, <1>7, <2>4, <4>1 DEF RefsOK
          <6> QED BY <1>8, <3>1, <6>1 DEF UseOf
        <5>3. uses2[i].queue = p /\ uses2[i].token = e.id
          BY <1>11, <5>1, <5>2
        <5> QED BY <5>2, <5>3
      <4>2. CASE p = q /\ e = entry
        <5>1. c = b /\ e.id = id /\ b # NoBuffer /\ b = m_currentCmdBuf[r] /\ refs[b] # {} /\ b \in Buffers
          BY <1>4, <1>5, <1>7, <2>4, <3>1, <4>2
        <5>2. Tracked(r)
          BY <1>0, <5>1 DEF Tracked, RefsOK
        <5>3. PICK i \in DOMAIN uses :
                /\ uses[i].commandBuffer = b /\ uses[i].token = NoToken
                /\ \A slot \in refs[b] : Kept(slot, uses[i].id)
          BY <1>0, <1>8, <5>1, <5>2 DEF RefsOK, HasUse
        <5>4. uses[i].queue = q
          BY <1>0, <1>1, <1>8, <5>1, <5>3 DEF UsesOK, UseOK
        <5>5. uses2[i].queue = p /\ uses2[i].token = e.id
          BY <1>11, <4>2, <5>1, <5>3, <5>4
        <5> QED BY <5>1, <5>3, <5>5
      <4> QED BY <3>2, <4>1, <4>2
    <3>6. PICK n : n = uses[i].id
      OBVIOUS
    <3>4. \A slot \in refs'[c] : Kept(slot, n)'
      BY <1>7, <1>14, <3>3, <3>6
    <3>5. i \in DOMAIN uses2 /\ uses2[i].id = n
      BY <1>11, <3>3, <3>6
    <3> QED BY <1>9, <3>1, <3>3, <3>4, <3>5 DEF UseOf, Kept
  <2> QED BY <1>7, <2>1, <2>2, <2>3, <2>4 DEF RefsOK
<1>21. SweepOK'
  BY <1>0, <1>6, <1>7, SweepStays
<1>22. OpenEmpty'
  <2>1. PICK call : call = NotExecuting
    OBVIOUS
  <2>2. call.at # "open"
    BY <2>1 DEF NotExecuting
  <2>3. \A s \in Recorders : m_currentCmdBuf'[s] \in {m_currentCmdBuf[s], NoBuffer}
    BY <1>5
  <2> QED BY <1>0, <1>6, <2>1, <2>2, <2>3, OpenStays
<1> QED BY <1>12, <1>13, <1>16, <1>20, <1>21, <1>22 DEF HeapInv

(* A submission, whatever becomes of it.                                   *)
LEMMA SubmitsKeeps ==
  ASSUME IInv, IInv', HeapInv, NEW r \in Recorders, Submits(r)
  PROVE  HeapInv'
<1>0. Core /\ CallType /\ HeapShape /\ SweepOK /\ OpenEmpty
  BY DEF IInv, HeapInv
<1>1. PICK call : call = NotExecuting
  OBVIOUS
<1>2. call.at # "open"
  BY <1>1 DEF NotExecuting
<1>3. ASSUME NEW withList, NEW valid, SubmitRefused(r, withList, valid, NotExecuting), UNCHANGED heapVars
      PROVE  HeapInv'
  <2>1. /\ exec' = [exec EXCEPT ![r] = call]
        /\ UNCHANGED <<m_currentCmdBuf, m_commandBuffersInFlight, m_lastSubmittedID, gpuQueue, gpuDone>>
    BY <1>1, <1>3 DEF SubmitRefused
  <2> QED BY <1>2, <1>3, <2>1, IdleKeeps
<1>4. ASSUME NEW withList \in BOOLEAN, SubmitRejected(r, withList, NotExecuting),
             Cleared({SubmittedBuffer(r, withList)} \ {NoBuffer})
      PROVE  HeapInv'
  <2>1. PICK S : S = {SubmittedBuffer(r, withList)} \ {NoBuffer}
    OBVIOUS
  <2>2. Discarded(S) /\ Settled(S)
    BY <1>0, <1>4, <2>1, ClearedDiscards, RejectedSettled
  <2>3. HeapShape' /\ SlotsOK' /\ UsesOK' /\ RefsOK'
    BY <2>2, SettledKeeps
  <2>4. SweepOK'
    BY <1>0, <1>4, SweepStays DEF Cleared, KeepHeap, SubmitRejected
  <2>5. OpenEmpty'
    <3>1. \A s \in Recorders : m_currentCmdBuf'[s] \in {m_currentCmdBuf[s], NoBuffer}
      BY <1>0, <1>4, DetachFacts DEF SubmitRejected
    <3>2. exec' = [exec EXCEPT ![r] = call]
      BY <1>1, <1>4 DEF SubmitRejected
    <3> QED BY <1>0, <1>2, <3>1, <3>2, OpenStays
  <2> QED BY <2>3, <2>4, <2>5 DEF HeapInv
<1> QED BY <1>3, <1>4, AcceptedKeeps DEF Submits
-----------------------------------------------------------------------------
(* The steps of the heap.                                                  *)

(* Steps that leave the uses and what buffers index alone, and reuse no    *)
(* slot that is kept.                                                      *)
LEMMA SlotsStep ==
  ASSUME Core, UsesOK, RefsOK, OpenEmpty, UNCHANGED queueVars,
         UNCHANGED <<m_heapUses, m_lastHeapUseID, m_referencedDescriptorHeaps, refs>>,
         \A i \in DOMAIN m_heapUses : \A slot : Kept(slot, m_heapUses[i].id) => Kept(slot, m_heapUses[i].id)'
  PROVE  UsesOK' /\ RefsOK' /\ OpenEmpty'
<1>1. UsesOK'
  BY DEF UsesOK, UseOK, OnList, queueVars
<1>2. OpenEmpty'
  BY DEF OpenEmpty, queueVars
<1>3. ASSUME NEW r \in Recorders, Tracked(r)' PROVE HasUse(r)'
  <2>1. HasUse(r)
    BY <1>3 DEF RefsOK, Tracked, queueVars
  <2> QED BY <2>1 DEF HasUse, queueVars
<1>4. ASSUME NEW q \in Queues, NEW e \in Range(gpuQueue'[q]), e.buffer # NoBuffer, refs'[e.buffer] # {}
      PROVE  UseOf(q, e)'
  <2>1. UseOf(q, e)
    BY <1>4 DEF RefsOK, queueVars
  <2> QED BY <2>1 DEF UseOf
<1>5. /\ \A b \in Buffers : ~m_referencedDescriptorHeaps'[b] => refs'[b] = {}
      /\ \A b \in Buffers : m_referencedDescriptorHeaps'[b] => OnList(b)' \/ Flying(b)'
  BY DEF RefsOK, OnList, Flying, queueVars
<1> QED BY <1>1, <1>2, <1>3, <1>4, <1>5 DEF RefsOK

(* The newest free slot, or a fresh one, becomes live.                     *)
LEMMA AllocateKeeps ==
  ASSUME IInv, HeapInv, allocate
  PROVE  HeapInv'
<1>0. Core /\ HeapShape /\ SlotsOK /\ UsesOK /\ RefsOK /\ SweepOK /\ OpenEmpty
  BY DEF IInv, HeapInv
<1>1. PICK free0 \in Seq(AllSlots) : free0 = freeList
  BY <1>0 DEF HeapShape
<1>2. PICK slot : slot = IF free0 # <<>> THEN Last(free0) ELSE nextFresh
  OBVIOUS
<1>3. /\ free0 # <<>> \/ nextFresh < capacity
      /\ slot \notin liveSlots /\ liveSlots' = liveSlots \cup {slot}
      /\ freeList' = IF free0 # <<>> THEN Front(free0) ELSE free0
      /\ nextFresh' = IF free0 # <<>> THEN nextFresh ELSE nextFresh + 1
      /\ UNCHANGED <<m_retired, m_heapUses, m_lastHeapUseID, m_referencedDescriptorHeaps, sweep, refs>>
      /\ UNCHANGED queueVars
  BY <1>1, <1>2 DEF allocate
<1>4. capacity \in Nat /\ nextFresh \in 0 .. capacity /\ nextFresh \in Nat
  BY <1>0, HeapAssumption DEF HeapShape
<1>5. PICK free2 : free2 = freeList'
  OBVIOUS
(* The slots left free are the old ones without the new live one.          *)
<1>6. /\ free2 \in Seq(AllSlots) /\ slot \in AllSlots /\ nextFresh' \in 0 .. capacity
      /\ \A x \in AllSlots : x < nextFresh' => (x < nextFresh \/ x = slot)
      /\ nextFresh <= nextFresh' /\ slot < nextFresh'
      /\ \A i \in DOMAIN free2 : i \in DOMAIN free0 /\ free2[i] = free0[i] /\ free2[i] # slot
      /\ \A i \in DOMAIN free0 : free0[i] # slot => i \in DOMAIN free2
      /\ \A i \in DOMAIN m_retired : m_retired[i].slot # slot
  <2>1. CASE free0 # <<>>
    <3>1. PICK n \in Nat : n + 1 = Len(free0)
      <4>1. Len(free0) \in Nat /\ Len(free0) # 0
        BY <2>1
      <4>2. Len(free0) - 1 \in Nat /\ (Len(free0) - 1) + 1 = Len(free0)
        BY <4>1
      <4> QED BY <4>2
    <3>2. slot = free0[n + 1] /\ n + 1 \in DOMAIN free0 /\ DOMAIN free0 = 1 .. n + 1
      BY <1>2, <2>1, <3>1 DEF Last
    <3>3. free2 = SubSeq(free0, 1, n) /\ nextFresh' = nextFresh
      BY <1>3, <1>5, <2>1, <3>1 DEF Front
    <3>4. free2 \in Seq(AllSlots) /\ DOMAIN free2 = 1 .. n /\ \A i \in 1 .. n : free2[i] = free0[i]
      BY <3>1, <3>3
    <3>5. \A i \in 1 .. n : i \in DOMAIN free0 /\ i # n + 1 /\ free0[i] # slot
      BY <1>0, <1>1, <3>2 DEF SlotsOK
    <3>6. \A i \in DOMAIN free0 : i # n + 1 => i \in 1 .. n
      BY <3>2
    <3>7. \A i \in DOMAIN m_retired : m_retired[i].slot # slot
      BY <1>0, <1>1, <3>2 DEF SlotsOK
    <3>8. slot \in AllSlots /\ slot < nextFresh
      BY <1>0, <1>1, <3>2 DEF SlotsOK
    <3> QED BY <1>4, <3>2, <3>3, <3>4, <3>5, <3>6, <3>7, <3>8
  <2>2. CASE free0 = <<>>
    <3>1. slot = nextFresh /\ nextFresh < capacity /\ free2 = <<>> /\ nextFresh' = nextFresh + 1
      BY <1>2, <1>3, <1>5, <2>2
    <3>2. slot \in AllSlots /\ nextFresh' \in 0 .. capacity
      BY <1>4, <3>1 DEF AllSlots
    <3>3. \A x \in AllSlots : x < nextFresh' => (x < nextFresh \/ x = slot)
      BY <1>4, <3>1 DEF AllSlots
    <3>4. \A i \in DOMAIN m_retired : m_retired[i].slot # slot
      <4>1. \A i \in DOMAIN m_retired : m_retired[i].slot < nextFresh
        BY <1>0 DEF SlotsOK
      <4> QED BY <1>4, <3>1, <4>1
    <3>5. free2 \in Seq(AllSlots) /\ DOMAIN free2 = {} /\ DOMAIN free0 = {}
      BY <2>2, <3>1
    <3> QED BY <1>4, <3>1, <3>2, <3>3, <3>4, <3>5
  <2> QED BY <2>1, <2>2
<1>7. HeapShape'
  BY <1>0, <1>3, <1>5, <1>6 DEF HeapShape
<1>8. SlotsOK'
  <2>1. \A x \in liveSlots' : x < nextFresh'
    <3>1. \A x \in liveSlots : x < nextFresh /\ x \in Nat
      BY <1>0, <1>4 DEF SlotsOK, HeapShape, AllSlots
    <3>2. nextFresh' \in Nat
      BY <1>4, <1>6
    <3> QED BY <1>3, <1>4, <1>6, <3>1, <3>2
  <2>2. \A i \in DOMAIN m_retired' : m_retired'[i].slot < nextFresh' /\ m_retired'[i].slot \notin liveSlots'
    <3> TAKE i \in DOMAIN m_retired'
    <3>1. m_retired'[i] = m_retired[i] /\ m_retired[i] \in RetiredSlots
      BY <1>0, <1>3 DEF HeapShape
    <3>2. PICK x : x = m_retired[i].slot
      OBVIOUS
    <3>3. x < nextFresh /\ x \notin liveSlots /\ x # slot /\ x \in Nat
      BY <1>0, <1>3, <1>4, <1>6, <3>1, <3>2 DEF SlotsOK, RetiredSlots, AllSlots
    <3> QED BY <1>3, <1>4, <1>6, <3>1, <3>2, <3>3
  <2>3. \A i \in DOMAIN freeList' : freeList'[i] < nextFresh' /\ freeList'[i] \notin liveSlots'
    <3> TAKE i \in DOMAIN freeList'
    <3>1. PICK x : x = free2[i]
      OBVIOUS
    <3>2. x < nextFresh /\ x \notin liveSlots /\ x # slot /\ x \in Nat
      BY <1>0, <1>1, <1>4, <1>5, <1>6, <3>1 DEF SlotsOK, AllSlots
    <3> QED BY <1>3, <1>4, <1>5, <1>6, <3>1, <3>2
  <2>4. \A i, j \in DOMAIN m_retired' : m_retired'[i].slot = m_retired'[j].slot => i = j
    BY <1>0, <1>3 DEF SlotsOK
  <2>5. \A i, j \in DOMAIN freeList' : freeList'[i] = freeList'[j] => i = j
    BY <1>0, <1>1, <1>5, <1>6 DEF SlotsOK
  <2>6. \A i \in DOMAIN m_retired', j \in DOMAIN freeList' : m_retired'[i].slot # freeList'[j]
    BY <1>0, <1>1, <1>3, <1>5, <1>6 DEF SlotsOK
  <2>7. ASSUME NEW x \in AllSlots, x < nextFresh'
        PROVE  \/ x \in liveSlots'
               \/ \E i \in DOMAIN m_retired' : m_retired'[i].slot = x
               \/ \E i \in DOMAIN freeList' : freeList'[i] = x
    <3>1. x = slot \/ x < nextFresh
      BY <1>6, <2>7
    <3>2. x < nextFresh => \/ x \in liveSlots
                           \/ \E i \in DOMAIN m_retired : m_retired[i].slot = x
                           \/ \E i \in DOMAIN free0 : free0[i] = x
      BY <1>0, <1>1 DEF SlotsOK
    <3>3. ASSUME NEW i \in DOMAIN free0, free0[i] = x, x # slot
          PROVE  \E j \in DOMAIN freeList' : freeList'[j] = x
      BY <1>5, <1>6, <3>3
    <3> QED BY <1>3, <3>1, <3>2, <3>3
  <2> QED BY <2>1, <2>2, <2>3, <2>4, <2>5, <2>6, <2>7 DEF SlotsOK
<1>9. \A x, id : Kept(x, id) => Kept(x, id)'
  BY <1>3 DEF Kept
<1>10. \A i \in DOMAIN m_heapUses : \A x : Kept(x, m_heapUses[i].id) => Kept(x, m_heapUses[i].id)'
  BY <1>3, <1>9 DEF Kept
<1>11. UsesOK' /\ RefsOK' /\ OpenEmpty'
  BY <1>0, <1>3, <1>10, SlotsStep
<1>12. SweepOK'
  BY <1>0, <1>3, SweepStays DEF queueVars
<1> QED BY <1>7, <1>8, <1>11, <1>12 DEF HeapInv

(* A live slot is retired with the number of the last use.                 *)
LEMMA FreeKeeps ==
  ASSUME IInv, HeapInv, NEW s \in Sweepers, NEW slot \in AllSlots, free(s, slot)
  PROVE  HeapInv'
<1>0. Core /\ HeapShape /\ SlotsOK /\ UsesOK /\ RefsOK /\ SweepOK /\ OpenEmpty
  BY DEF IInv, HeapInv
<1>1. PICK old \in Seq(RetiredSlots) : old = m_retired
  BY <1>0 DEF HeapShape
<1>2. PICK x : x = [slot |-> slot, lastRequiredHeapUseID |-> m_lastHeapUseID]
  OBVIOUS
<1>3. /\ slot \in liveSlots /\ liveSlots' = liveSlots \ {slot}
      /\ m_retired' = Append(old, x)
      /\ sweep' = [sweep EXCEPT ![s].at = "snapshot"]
      /\ UNCHANGED <<freeList, nextFresh, m_heapUses, m_lastHeapUseID, m_referencedDescriptorHeaps, refs>>
      /\ UNCHANGED queueVars
  BY <1>1, <1>2 DEF free
<1>4. PICK L \in Nat : L = Len(old) + 1 /\ L \notin DOMAIN old
  OBVIOUS
<1>5. PICK new : new = m_retired'
  OBVIOUS
<1>6. x \in RetiredSlots /\ x.slot = slot /\ x.lastRequiredHeapUseID = m_lastHeapUseID
  BY <1>0, <1>2 DEF RetiredSlots, HeapShape
<1>7. /\ new \in Seq(RetiredSlots) /\ L \in DOMAIN new /\ new[L] = x
      /\ \A i \in DOMAIN old : i \in DOMAIN new /\ new[i] = old[i]
      /\ \A i \in DOMAIN new : i = L \/ (i \in DOMAIN old /\ new[i] = old[i])
  BY <1>3, <1>4, <1>5, <1>6
<1>8. HeapShape'
  BY <1>0, <1>3, <1>5, <1>7 DEF HeapShape
<1>9. SlotsOK'
  <2>1. \A y \in liveSlots' : y < nextFresh'
    BY <1>0, <1>3 DEF SlotsOK
  <2>2. \A i \in DOMAIN new : new[i].slot < nextFresh' /\ new[i].slot \notin liveSlots'
    BY <1>0, <1>1, <1>3, <1>6, <1>7 DEF SlotsOK
  <2>3. \A i \in DOMAIN freeList' : freeList'[i] < nextFresh' /\ freeList'[i] \notin liveSlots'
    BY <1>0, <1>3 DEF SlotsOK
  <2>4. \A i, j \in DOMAIN new : new[i].slot = new[j].slot => i = j
    BY <1>0, <1>1, <1>3, <1>6, <1>7 DEF SlotsOK
  <2>5. \A i, j \in DOMAIN freeList' : freeList'[i] = freeList'[j] => i = j
    BY <1>0, <1>3 DEF SlotsOK
  <2>6. \A i \in DOMAIN new, j \in DOMAIN freeList' : new[i].slot # freeList'[j]
    BY <1>0, <1>1, <1>3, <1>6, <1>7 DEF SlotsOK
  <2>7. ASSUME NEW y \in AllSlots, y < nextFresh'
        PROVE  \/ y \in liveSlots'
               \/ \E i \in DOMAIN new : new[i].slot = y
               \/ \E i \in DOMAIN freeList' : freeList'[i] = y
    <3>1. \/ y \in liveSlots
          \/ \E i \in DOMAIN old : old[i].slot = y
          \/ \E i \in DOMAIN freeList : freeList[i] = y
      BY <1>0, <1>1, <1>3, <2>7 DEF SlotsOK
    <3> QED BY <1>3, <1>6, <1>7, <3>1
  <2> QED BY <1>5, <2>1, <2>2, <2>3, <2>4, <2>5, <2>6, <2>7 DEF SlotsOK
<1>10. ASSUME NEW i \in DOMAIN m_heapUses, NEW y, NEW id, id = m_heapUses[i].id, Kept(y, id)
       PROVE  Kept(y, id)'
  <2>1. id <= m_lastHeapUseID
    BY <1>0, <1>10 DEF UsesOK, UseOK
  <2>2. CASE y = slot
    <3>1. new[L].slot = y /\ new[L].lastRequiredHeapUseID >= id
      <4>1. id \in Nat /\ m_lastHeapUseID \in Nat
        <5>1. m_heapUses[i] \in HeapUses /\ m_lastHeapUseID \in Nat
          BY <1>0 DEF HeapShape
        <5> QED BY <1>10, <5>1 DEF HeapUses
      <4> QED BY <1>6, <1>7, <2>1, <2>2, <4>1
    <3> QED BY <1>5, <1>7, <3>1 DEF Kept
  <2>3. CASE y # slot /\ y \in liveSlots
    BY <1>3, <2>3 DEF Kept
  <2>4. CASE \E k \in DOMAIN old : old[k].slot = y /\ old[k].lastRequiredHeapUseID >= id
    <3>1. PICK k \in DOMAIN old : old[k].slot = y /\ old[k].lastRequiredHeapUseID >= id
      BY <2>4
    <3>2. k \in DOMAIN new /\ new[k] = old[k]
      BY <1>7
    <3> QED BY <1>5, <3>1, <3>2 DEF Kept
  <2> QED BY <1>1, <1>10, <2>2, <2>3, <2>4 DEF Kept
<1>11. \A i \in DOMAIN m_heapUses : \A y : Kept(y, m_heapUses[i].id) => Kept(y, m_heapUses[i].id)'
  BY <1>3, <1>10 DEF Kept
<1>12. UsesOK' /\ RefsOK' /\ OpenEmpty'
  BY <1>0, <1>3, <1>11, SlotsStep
<1>13. SweepOK'
  <2>1. PICK w : w = sweep[s]
    OBVIOUS
  <2>2. w = [at |-> w.at, polled |-> w.polled, completions |-> w.completions]
    BY <1>0, <2>1 DEF SweepOK
  <2>3. PICK w2 : w2 = [w EXCEPT !.at = "snapshot"]
    OBVIOUS
  <2>4. w2 = [at |-> w2.at, polled |-> w2.polled, completions |-> w2.completions] /\ w2.completions = w.completions
    BY <2>2, <2>3
  <2>5. \A t \in Sweepers : sweep'[t] = IF t = s THEN w2 ELSE sweep[t]
    BY <1>0, <1>3, <2>1, <2>3 DEF SweepOK
  <2>6. DOMAIN sweep' = Sweepers
    BY <1>0, <1>3 DEF SweepOK
  <2>7. gpuDone' = gpuDone
    BY <1>3 DEF queueVars
  <2>8. ASSUME NEW t \in Sweepers
        PROVE  /\ sweep'[t] = [at |-> sweep'[t].at, polled |-> sweep'[t].polled, completions |-> sweep'[t].completions]
               /\ sweep'[t].completions = sweep[t].completions
    BY <1>0, <2>1, <2>4, <2>5 DEF SweepOK
  <2> QED BY <1>0, <2>6, <2>7, <2>8 DEF SweepOK
<1> QED BY <1>8, <1>9, <1>12, <1>13 DEF HeapInv
(* A recording that binds the heap gets a use.                             *)
LEMMA TrackKeeps ==
  ASSUME IInv, HeapInv, NEW r \in Recorders, trackCommandBufferUse(r)
  PROVE  HeapInv'
<1>0. Core /\ HeapShape /\ SlotsOK /\ UsesOK /\ RefsOK /\ SweepOK /\ OpenEmpty
  BY DEF IInv, HeapInv
<1>1. PICK b \in Buffers \cup {NoBuffer} : b = m_currentCmdBuf[r]
  BY <1>0 DEF Core, CoreType
<1>2. PICK uses \in Seq(HeapUses) : uses = m_heapUses
  BY <1>0 DEF HeapShape
<1>3. PICK id \in Nat : id = m_lastHeapUseID + 1 /\ m_lastHeapUseID \in Nat
  BY <1>0 DEF HeapShape
<1>4. PICK u : u = [commandBuffer |-> b, queue |-> QueueOf[r], token |-> NoToken, id |-> id]
  OBVIOUS
<1>5. /\ b = NoBuffer \/ ~m_referencedDescriptorHeaps[b]
      /\ m_referencedDescriptorHeaps' = [m_referencedDescriptorHeaps EXCEPT ![b] = TRUE]
      /\ m_lastHeapUseID' = id /\ m_heapUses' = Append(uses, u)
      /\ UNCHANGED slotVars /\ sweep' = sweep /\ refs' = refs /\ UNCHANGED queueVars
  BY <1>1, <1>2, <1>3, <1>4 DEF trackCommandBufferUse, Tracked
<1>6. NoBuffer \notin Buffers /\ QueueOf[r] \in Queues /\ SubmissionLimit \in Nat
  BY QueueAssumption
<1>7. /\ u \in HeapUses /\ u.commandBuffer = b /\ u.queue = QueueOf[r] /\ u.token = NoToken /\ u.id = id
  BY <1>1, <1>3, <1>4, <1>6 DEF HeapUses, NoToken
<1>8. PICK L \in Nat : L = Len(uses) + 1 /\ L \notin DOMAIN uses
  OBVIOUS
<1>9. PICK new : new = m_heapUses'
  OBVIOUS
<1>10. /\ new \in Seq(HeapUses) /\ L \in DOMAIN new /\ new[L] = u
       /\ \A i \in DOMAIN uses : i \in DOMAIN new /\ new[i] = uses[i]
       /\ \A i \in DOMAIN new : i = L \/ (i \in DOMAIN uses /\ new[i] = uses[i])
  BY <1>5, <1>7, <1>8, <1>9
<1>11. /\ \A c \in Buffers : m_referencedDescriptorHeaps'[c] = (c = b \/ m_referencedDescriptorHeaps[c])
       /\ m_referencedDescriptorHeaps' \in [Buffers -> BOOLEAN]
  BY <1>0, <1>5 DEF HeapShape
<1>12. UNCHANGED <<freeList, nextFresh, liveSlots, m_retired>>
  BY <1>5 DEF slotVars
<1>13. UNCHANGED <<m_lastSubmittedID, m_commandBuffersInFlight, m_currentCmdBuf, exec, gpuQueue, gpuDone>>
  BY <1>5 DEF queueVars
<1>14. HeapShape'
  BY <1>0, <1>5, <1>9, <1>10, <1>11, <1>12 DEF HeapShape
<1>15. SlotsOK'
  BY <1>0, <1>12 DEF SlotsOK
<1>16. \A slot, n : Kept(slot, n)' <=> Kept(slot, n)
  BY <1>12 DEF Kept
(* No earlier use has this number, or this buffer.                         *)
<1>17. ASSUME NEW i \in DOMAIN uses
       PROVE  /\ UseOK(uses[i]) /\ uses[i] \in HeapUses
              /\ uses[i].id # id /\ (b # NoBuffer => uses[i].commandBuffer # b)
  <2>1. UseOK(uses[i]) /\ uses[i] \in HeapUses
    BY <1>0, <1>2 DEF UsesOK
  <2>2. uses[i].id <= m_lastHeapUseID /\ uses[i].id \in Nat
    BY <2>1 DEF UseOK, HeapUses
  <2>3. b # NoBuffer => uses[i].commandBuffer # b
    BY <1>5, <2>1 DEF UseOK
  <2> QED BY <1>3, <2>1, <2>2, <2>3
<1>18. UsesOK'
  <2>1. \A i, j \in DOMAIN new : new[i].id = new[j].id => i = j
    BY <1>0, <1>2, <1>7, <1>10, <1>17 DEF UsesOK
  <2>2. \A i, j \in DOMAIN new :
          (new[i].commandBuffer = new[j].commandBuffer /\ new[i].commandBuffer # NoBuffer) => i = j
    BY <1>0, <1>2, <1>7, <1>10, <1>17 DEF UsesOK
  <2>3. ASSUME NEW i \in DOMAIN new, NEW v, v = new[i]
        PROVE  UseOK(v)'
    <3>1. CASE i = L
      <4>1. v = u
        BY <1>10, <2>3, <3>1
      <4>2. v.id <= m_lastHeapUseID' /\ v.token <= m_lastSubmittedID'[v.queue]
        <5>1. m_lastSubmittedID[QueueOf[r]] \in Nat
          BY <1>0, <1>6 DEF Core, CoreType
        <5> QED BY <1>3, <1>5, <1>7, <1>13, <4>1, <5>1 DEF NoToken
      <4>3. ASSUME b # NoBuffer
            PROVE  m_referencedDescriptorHeaps'[b] /\ OnList(b)' /\ \A s \in Recorders : m_currentCmdBuf'[s] = b => QueueOf[r] = QueueOf[s]
        <5>1. \A s \in Recorders : m_currentCmdBuf[s] = b => s = r
          BY <1>0, <1>1, <4>3 DEF Core, Placed, OnePlace
        <5>2. OnList(b)'
          BY <1>1, <1>13 DEF OnList
        <5>3. m_referencedDescriptorHeaps'[b]
          BY <1>1, <1>11, <4>3
        <5> QED BY <1>13, <5>1, <5>2, <5>3
      <4> QED BY <1>7, <4>1, <4>2, <4>3 DEF UseOK, OnList
    <3>2. CASE i # L
      <4>1. i \in DOMAIN uses /\ v = uses[i]
        BY <1>10, <2>3, <3>2
      <4>2. UseOK(v) /\ v \in HeapUses
        BY <1>17, <4>1
      <4>3. v.id <= m_lastHeapUseID'
        <5>1. v.id <= m_lastHeapUseID /\ v.id \in Nat
          BY <4>2 DEF UseOK, HeapUses
        <5> QED BY <1>3, <1>5, <5>1
      <4>4. v.commandBuffer # NoBuffer => m_referencedDescriptorHeaps'[v.commandBuffer]
        BY <1>11, <4>2 DEF UseOK, HeapUses
      <4> QED BY <1>13, <4>2, <4>3, <4>4 DEF UseOK, OnList
    <3> QED BY <3>1, <3>2
  <2>4. \A i \in DOMAIN m_heapUses' : UseOK(m_heapUses[i])'
    BY <1>9, <2>3 DEF UseOK
  <2> QED BY <1>9, <2>1, <2>2, <2>4 DEF UsesOK
<1>19. RefsOK'
  <2>1. \A c \in Buffers : ~m_referencedDescriptorHeaps'[c] => refs'[c] = {}
    BY <1>0, <1>5, <1>11 DEF RefsOK
  <2>2. \A c \in Buffers : m_referencedDescriptorHeaps'[c] => OnList(c)' \/ Flying(c)'
    BY <1>0, <1>1, <1>11, <1>13 DEF RefsOK, OnList, Flying
  <2>3. ASSUME NEW s \in Recorders, Tracked(s)'
        PROVE  HasUse(s)'
    <3>1. PICK c : c = m_currentCmdBuf[s]
      OBVIOUS
    <3>2. c # NoBuffer /\ c \in Buffers /\ (c = b \/ m_referencedDescriptorHeaps[c])
      <4>1. c # NoBuffer /\ m_referencedDescriptorHeaps'[c]
        BY <1>13, <2>3, <3>1 DEF Tracked
      <4>2. c \in Buffers
        BY <1>0, <3>1, <4>1 DEF Core, CoreType
      <4> QED BY <1>11, <4>1, <4>2
    <3>3. CASE c = b
      <4>1. refs'[c] = {}
        BY <1>0, <1>5, <3>2, <3>3 DEF RefsOK
      <4>2. L \in DOMAIN new /\ new[L].commandBuffer = c /\ new[L].token = NoToken
        BY <1>7, <1>10, <3>3
      <4> QED BY <1>9, <1>13, <3>1, <4>1, <4>2 DEF HasUse
    <3>4. CASE c # b
      <4>1. PICK i \in DOMAIN uses :
              /\ uses[i].commandBuffer = c /\ uses[i].token = NoToken
              /\ \A slot \in refs[c] : Kept(slot, uses[i].id)
        BY <1>0, <1>2, <3>1, <3>2, <3>4 DEF RefsOK, Tracked, HasUse
      <4>2. PICK n : n = uses[i].id
        OBVIOUS
      <4>3. \A slot \in refs'[c] : Kept(slot, n)'
        BY <1>5, <1>16, <4>1, <4>2
      <4>4. i \in DOMAIN new /\ new[i].commandBuffer = c /\ new[i].token = NoToken /\ new[i].id = n
        BY <1>10, <4>1, <4>2
      <4> QED BY <1>9, <1>13, <3>1, <4>3, <4>4 DEF HasUse, Kept
    <3> QED BY <3>3, <3>4
  <2>4. ASSUME NEW q \in Queues, NEW e \in Range(gpuQueue'[q]), e.buffer # NoBuffer, refs'[e.buffer] # {}
        PROVE  UseOf(q, e)'
    <3>1. UseOf(q, e)
      BY <1>0, <1>5, <1>13, <2>4 DEF RefsOK
    <3>2. PICK i \in DOMAIN uses : /\ uses[i].queue = q /\ uses[i].token = e.id
                                   /\ \A slot \in refs[e.buffer] : Kept(slot, uses[i].id)
      BY <1>2, <3>1 DEF UseOf
    <3>3. PICK n : n = uses[i].id
      OBVIOUS
    <3>4. \A slot \in refs'[e.buffer] : Kept(slot, n)'
      BY <1>5, <1>16, <3>2, <3>3
    <3>5. i \in DOMAIN new /\ new[i].queue = q /\ new[i].token = e.id /\ new[i].id = n
      BY <1>10, <3>2, <3>3
    <3> QED BY <1>9, <3>4, <3>5 DEF UseOf, Kept
  <2> QED BY <2>1, <2>2, <2>3, <2>4 DEF RefsOK
<1>20. SweepOK' /\ OpenEmpty'
  BY <1>0, <1>5, <1>13, SweepStays DEF OpenEmpty
<1> QED BY <1>14, <1>15, <1>18, <1>19, <1>20 DEF HeapInv

(* A command that indexes a live slot.                                     *)
LEMMA UseSlotKeeps ==
  ASSUME IInv, HeapInv, NEW r \in Recorders, NEW slot \in AllSlots, UseSlot(r, slot)
  PROVE  HeapInv'
<1>0. Core /\ HeapShape /\ SlotsOK /\ UsesOK /\ RefsOK /\ SweepOK /\ OpenEmpty
  BY DEF IInv, HeapInv
<1>1. PICK b : b = m_currentCmdBuf[r]
  OBVIOUS
<1>2. /\ b \in Buffers /\ b # NoBuffer /\ m_referencedDescriptorHeaps[b] /\ slot \in liveSlots
      /\ refs' = [refs EXCEPT ![b] = refs[b] \cup {slot}]
  BY <1>0, <1>1 DEF UseSlot, Tracked, Core, CoreType
<1>3. /\ UNCHANGED <<freeList, nextFresh, liveSlots, m_retired, m_heapUses, m_lastHeapUseID,
                     m_referencedDescriptorHeaps, sweep>>
      /\ UNCHANGED <<m_lastSubmittedID, m_commandBuffersInFlight, m_currentCmdBuf, exec, gpuQueue, gpuDone>>
  BY DEF UseSlot, slotVars, queueVars
<1>4. /\ \A c \in Buffers : refs'[c] = IF c = b THEN refs[b] \cup {slot} ELSE refs[c]
      /\ refs' \in [Buffers -> SUBSET AllSlots]
  BY <1>0, <1>2 DEF HeapShape
<1>5. HeapShape'
  BY <1>0, <1>3, <1>4 DEF HeapShape
<1>6. SlotsOK'
  BY <1>0, <1>3 DEF SlotsOK
<1>7. UsesOK'
  BY <1>0, <1>3 DEF UsesOK, UseOK, OnList
<1>8. (\A y, n : Kept(y, n)' <=> Kept(y, n)) /\ \A n : Kept(slot, n)
  BY <1>2, <1>3 DEF Kept
<1>9. RefsOK'
  <2>1. \A c \in Buffers : ~m_referencedDescriptorHeaps'[c] => refs'[c] = {}
    BY <1>0, <1>2, <1>3, <1>4 DEF RefsOK
  <2>2. \A c \in Buffers : m_referencedDescriptorHeaps'[c] => OnList(c)' \/ Flying(c)'
    BY <1>0, <1>3 DEF RefsOK, OnList, Flying
  <2>3. ASSUME NEW s \in Recorders, Tracked(s)'
        PROVE  HasUse(s)'
    <3>1. PICK c : c = m_currentCmdBuf[s]
      OBVIOUS
    <3>2. c \in Buffers /\ Tracked(s)
      BY <1>0, <1>3, <2>3, <3>1 DEF Tracked, Core, CoreType
    <3>3. PICK i \in DOMAIN m_heapUses :
            /\ m_heapUses[i].commandBuffer = c /\ m_heapUses[i].token = NoToken
            /\ \A y \in refs[c] : Kept(y, m_heapUses[i].id)
      BY <1>0, <3>1, <3>2 DEF RefsOK, HasUse
    <3>4. PICK n : n = m_heapUses[i].id
      OBVIOUS
    <3>5. \A y \in refs'[c] : Kept(y, n)'
      BY <1>4, <1>8, <3>2, <3>3, <3>4
    <3> QED BY <1>3, <3>1, <3>3, <3>4, <3>5 DEF HasUse, Kept
  <2>4. ASSUME NEW q \in Queues, NEW e \in Range(gpuQueue'[q]), e.buffer # NoBuffer, refs'[e.buffer] # {}
        PROVE  UseOf(q, e)'
    <3>1. e \in Range(gpuQueue[q])
      BY <1>3
    <3>2. PICK k \in DOMAIN m_commandBuffersInFlight[q] : m_commandBuffersInFlight[q][k] = e.buffer /\ e.buffer \in Buffers
      BY <1>0, <2>4, <3>1, EntryFacts
    <3>3. e.buffer # b
      BY <1>0, <1>1, <3>2 DEF Core, Placed, OnePlace
    <3>4. refs'[e.buffer] = refs[e.buffer]
      BY <1>4, <3>2, <3>3
    <3>5. UseOf(q, e)
      BY <1>0, <2>4, <3>1, <3>4 DEF RefsOK
    <3> QED BY <1>3, <3>4, <3>5 DEF UseOf, Kept
  <2> QED BY <2>1, <2>2, <2>3, <2>4 DEF RefsOK
<1>10. SweepOK' /\ OpenEmpty'
  BY <1>0, <1>3, SweepStays DEF OpenEmpty
<1> QED BY <1>5, <1>6, <1>7, <1>9, <1>10 DEF HeapInv

(* A collection begins, or has polled a queue.                             *)
LEMMA SweepingKeeps ==
  ASSUME IInv, IInv', HeapInv, NEW s \in Sweepers,
         CollectSnapshot(s) \/ \E q \in Queues, fin \in 0 .. SubmissionLimit : CollectPoll(s, q, fin)
  PROVE  HeapInv'
<1>0. Core /\ CallType /\ HeapShape /\ UsesOK /\ SweepOK /\ OpenEmpty
  BY DEF IInv, HeapInv
<1>1. /\ UNCHANGED <<freeList, nextFresh, liveSlots, m_retired, m_heapUses, m_lastHeapUseID,
                     m_referencedDescriptorHeaps, refs>>
      /\ UNCHANGED <<m_lastSubmittedID, m_commandBuffersInFlight, m_currentCmdBuf, exec, gpuQueue, gpuDone>>
  BY DEF CollectSnapshot, CollectPoll, queueGetCompletedInstance, slotVars, queueVars
<1>2. Discarded({}) /\ Settled({})
  BY <1>0, <1>1, NothingDiscarded, ListsSettled DEF HeapShape, Flown
<1>3. HeapShape' /\ SlotsOK' /\ UsesOK' /\ RefsOK'
  BY <1>2, SettledKeeps
<1>4. OpenEmpty'
  BY <1>0, <1>1 DEF OpenEmpty
<1>5. \A q \in Queues : gpuDone[q] \in Nat /\ gpuDone'[q] = gpuDone[q]
  BY <1>0, <1>1, QueueAssumption DEF Core, CoreType
<1>6. PICK old : old = sweep[s] /\ old = [at |-> old.at, polled |-> old.polled, completions |-> old.completions]
  BY <1>0 DEF SweepOK
<1>7. PICK new : /\ \A t \in Sweepers : sweep'[t] = IF t = s THEN new ELSE sweep[t]
                 /\ DOMAIN sweep' = Sweepers
                 /\ new = [at |-> new.at, polled |-> new.polled, completions |-> new.completions]
                 /\ \A q \in DOMAIN new.completions :
                      q \in Queues => new.completions[q] \in Nat /\ new.completions[q] <= gpuDone[q]
  <2>1. CASE CollectSnapshot(s)
    <3>1. PICK P : P = {u.queue : u \in {v \in Range(m_heapUses) : v.token # NoToken}}
      OBVIOUS
    <3>2. PICK none : none = [q \in {} |-> 0]
      OBVIOUS
    <3>3. sweep' = [sweep EXCEPT ![s] = [[at |-> "idle", polled |-> {}, completions |-> none] EXCEPT !.at = "poll", !.polled = P]]
      BY <2>1, <3>1, <3>2 DEF CollectSnapshot, NotSweeping
    <3>4. PICK new : new = [at |-> "poll", polled |-> P, completions |-> none]
      OBVIOUS
    <3>5. new = [[at |-> "idle", polled |-> {}, completions |-> none] EXCEPT !.at = "poll", !.polled = P]
      <4>1. PICK begun : begun = [[at |-> "idle", polled |-> {}, completions |-> none] EXCEPT !.at = "poll"]
        OBVIOUS
      <4>2. begun = [at |-> "poll", polled |-> {}, completions |-> none]
        BY <4>1
      <4>3. new = [begun EXCEPT !.polled = P]
        BY <3>4, <4>2
      <4> QED BY <4>1, <4>3
    <3>6. sweep' = [sweep EXCEPT ![s] = new]
      BY <3>3, <3>5
    <3>7. (\A t \in Sweepers : sweep'[t] = IF t = s THEN new ELSE sweep[t]) /\ DOMAIN sweep' = Sweepers
      BY <1>0, <3>6 DEF SweepOK
    <3>8. new = [at |-> new.at, polled |-> new.polled, completions |-> new.completions] /\ DOMAIN new.completions = {}
      BY <3>2, <3>4
    <3> QED BY <3>7, <3>8
  <2>2. ASSUME NEW q \in Queues, NEW fin, CollectPoll(s, q, fin)
        PROVE  \E new :
                 /\ \A t \in Sweepers : sweep'[t] = IF t = s THEN new ELSE sweep[t]
                 /\ DOMAIN sweep' = Sweepers
                 /\ new = [at |-> new.at, polled |-> new.polled, completions |-> new.completions]
                 /\ \A p \in DOMAIN new.completions :
                      p \in Queues => new.completions[p] \in Nat /\ new.completions[p] <= gpuDone[p]
    <3>1. PICK got : got = old.completions
      OBVIOUS
    <3>2. PICK more : more = [p \in DOMAIN got \cup {q} |-> IF p = q THEN fin ELSE got[p]]
      OBVIOUS
    <3>3. fin \in updateLastFinishedID(q) /\ sweep' = [sweep EXCEPT ![s].completions = more]
      BY <1>6, <2>2, <3>1, <3>2 DEF CollectPoll, queueGetCompletedInstance
    <3>4. fin \in Nat /\ fin <= gpuDone[q]
      BY <1>0, <3>3, PollValues DEF Core
    <3>5. PICK new : new = [old EXCEPT !.completions = more]
      OBVIOUS
    <3>6. new = [at |-> new.at, polled |-> new.polled, completions |-> new.completions] /\ new.completions = more
      BY <1>6, <3>5
    <3>7. (\A t \in Sweepers : sweep'[t] = IF t = s THEN new ELSE sweep[t]) /\ DOMAIN sweep' = Sweepers
      BY <1>0, <1>6, <3>3, <3>5 DEF SweepOK
    <3>8. \A p \in DOMAIN got : p \in Queues => got[p] \in Nat /\ got[p] <= gpuDone[p]
      BY <1>0, <1>6, <3>1 DEF SweepOK
    <3>9. \A p \in DOMAIN more : p \in Queues => more[p] \in Nat /\ more[p] <= gpuDone[p]
      BY <3>2, <3>4, <3>8
    <3> QED BY <3>6, <3>7, <3>9
  <2> QED BY <2>1, <2>2
<1>8. SweepOK'
  BY <1>0, <1>5, <1>7 DEF SweepOK
<1> QED BY <1>3, <1>4, <1>8 DEF HeapInv
(* A collection retires: what it found complete goes, and the slots whose  *)
(* uses have gone are free.                                                *)
LEMMA RetireKeeps ==
  ASSUME IInv, HeapInv, NEW s \in Sweepers, CollectRetire(s)
  PROVE  HeapInv'
<1>0. Core /\ HeapShape /\ SlotsOK /\ UsesOK /\ RefsOK /\ SweepOK /\ OpenEmpty
  BY DEF IInv, HeapInv
<1>1. PICK uses \in Seq(HeapUses) : uses = m_heapUses
  BY <1>0 DEF HeapShape
<1>2. PICK ret \in Seq(RetiredSlots) : ret = m_retired
  BY <1>0 DEF HeapShape
<1>3. PICK free0 \in Seq(AllSlots) : free0 = freeList
  BY <1>0 DEF HeapShape
<1>4. PICK got : got = sweep[s].completions
  OBVIOUS
<1>5. PICK done : done = {u \in Range(uses) : heapUseComplete(u, got)}
  OBVIOUS
<1>6. PICK retirable : retirable = {x \in Range(ret) : \A u \in Range(uses) : u.id <= x.lastRequiredHeapUseID => u \in done}
  OBVIOUS
<1>7. PICK gone : gone = Only(ret, retirable)
  OBVIOUS
<1>8. PICK slots : slots = [i \in DOMAIN gone |-> gone[i].slot]
  OBVIOUS
<1>9. PICK freed : freed = Only(slots, AllSlots \ liveSlots)
  OBVIOUS
<1>10. PICK free2, ret2, uses2 : free2 = freeList' /\ ret2 = m_retired' /\ uses2 = m_heapUses'
  OBVIOUS
<1>11. /\ free2 = free0 \o freed /\ ret2 = Only(ret, Range(ret) \ retirable) /\ uses2 = Only(uses, Range(uses) \ done)
       /\ sweep' = [sweep EXCEPT ![s] = NotSweeping]
       /\ UNCHANGED <<nextFresh, liveSlots, m_lastHeapUseID, m_referencedDescriptorHeaps, refs>>
       /\ UNCHANGED queueVars
  BY <1>1, <1>2, <1>3, <1>4, <1>5, <1>6, <1>7, <1>8, <1>9, <1>10 DEF CollectRetire
<1>12. UNCHANGED <<m_lastSubmittedID, m_commandBuffersInFlight, m_currentCmdBuf, exec, gpuQueue, gpuDone>>
  BY <1>11 DEF queueVars
(* The uses that stay.                                                     *)
<1>13. /\ uses2 \in Seq(HeapUses)
       /\ \A i \in DOMAIN uses2 : \E k \in DOMAIN uses : uses2[i] = uses[k]
       /\ \A k \in DOMAIN uses : ~heapUseComplete(uses[k], got) => \E i \in DOMAIN uses2 : uses2[i] = uses[k]
       /\ \A i, j \in DOMAIN uses2 : uses2[i] = uses2[j] => i = j
  <2>1. \A j, k \in DOMAIN uses : uses[j] = uses[k] => j = k
    BY <1>0, <1>1 DEF UsesOK
  <2>2. PICK T : T = Range(uses) \ done
    OBVIOUS
  <2>3. uses2 = Only(uses, T)
    BY <1>11, <2>2
  <2>4. /\ uses2 \in Seq(HeapUses)
        /\ \A i \in DOMAIN uses2 : \E k \in DOMAIN uses : uses2[i] = uses[k]
        /\ \A k \in DOMAIN uses : uses[k] \in T => \E i \in DOMAIN uses2 : uses2[i] = uses[k]
        /\ \A i, j \in DOMAIN uses2 : uses2[i] = uses2[j] => i = j
    BY <2>1, <2>3, OnlyFacts
  <2>5. \A k \in DOMAIN uses : ~heapUseComplete(uses[k], got) => uses[k] \in T
    BY <1>5, <2>2 DEF Range
  <2> QED BY <2>4, <2>5
(* The retired slots that stay, and those that go.                         *)
<1>14. \A j, k \in DOMAIN ret : ret[j].slot = ret[k].slot => j = k
  BY <1>0, <1>2 DEF SlotsOK
<1>15. /\ ret2 \in Seq(RetiredSlots)
       /\ \A i \in DOMAIN ret2 : ret2[i] \notin retirable /\ \E k \in DOMAIN ret : ret2[i] = ret[k]
       /\ \A k \in DOMAIN ret : ret[k] \notin retirable => \E i \in DOMAIN ret2 : ret2[i] = ret[k]
       /\ \A i, j \in DOMAIN ret2 : ret2[i] = ret2[j] => i = j
  <2>1. \A j, k \in DOMAIN ret : ret[j] = ret[k] => j = k
    BY <1>14
  <2>2. PICK T : T = Range(ret) \ retirable
    OBVIOUS
  <2>3. ret2 = Only(ret, T)
    BY <1>11, <2>2
  <2>4. /\ ret2 \in Seq(RetiredSlots)
        /\ \A i \in DOMAIN ret2 : ret2[i] \in T /\ \E k \in DOMAIN ret : ret2[i] = ret[k]
        /\ \A k \in DOMAIN ret : ret[k] \in T => \E i \in DOMAIN ret2 : ret2[i] = ret[k]
        /\ \A i, j \in DOMAIN ret2 : ret2[i] = ret2[j] => i = j
    BY <2>1, <2>3, OnlyFacts
  <2>5. \A k \in DOMAIN ret : ret[k] \notin retirable => ret[k] \in T
    BY <2>2 DEF Range
  <2> QED BY <2>2, <2>4, <2>5
<1>16. /\ gone \in Seq(RetiredSlots)
       /\ \A i \in DOMAIN gone : gone[i] \in retirable /\ \E k \in DOMAIN ret : gone[i] = ret[k]
       /\ \A k \in DOMAIN ret : ret[k] \in retirable => \E i \in DOMAIN gone : gone[i] = ret[k]
       /\ \A i, j \in DOMAIN gone : gone[i] = gone[j] => i = j
  <2>1. \A j, k \in DOMAIN ret : ret[j] = ret[k] => j = k
    BY <1>14
  <2> QED BY <1>7, <2>1, OnlyFacts
<1>17. /\ slots \in Seq(AllSlots) /\ DOMAIN slots = DOMAIN gone
       /\ \A i \in DOMAIN slots : slots[i] = gone[i].slot
       /\ \A i, j \in DOMAIN slots : slots[i] = slots[j] => i = j
  <2>1. \A i \in DOMAIN gone : gone[i].slot \in AllSlots
    <3>1. \A i \in DOMAIN gone : gone[i] \in RetiredSlots
      BY <1>16
    <3> QED BY <3>1 DEF RetiredSlots
  <2>2. DOMAIN gone = 1 .. Len(gone) /\ Len(gone) \in Nat
    BY <1>16
  <2>3. slots \in [1 .. Len(gone) -> AllSlots]
    BY <1>8, <2>1, <2>2
  <2>4. slots \in Seq(AllSlots) /\ DOMAIN slots = DOMAIN gone
    BY <2>2, <2>3
  <2>5. \A i \in DOMAIN slots : slots[i] = gone[i].slot
    BY <1>8
  <2>6. ASSUME NEW i \in DOMAIN slots, NEW j \in DOMAIN slots, slots[i] = slots[j]
        PROVE  i = j
    <3>1. PICK k \in DOMAIN ret : gone[i] = ret[k]
      BY <1>16, <2>4
    <3>2. PICK l \in DOMAIN ret : gone[j] = ret[l]
      BY <1>16, <2>4
    <3>3. k = l
      BY <1>14, <2>5, <2>6, <3>1, <3>2
    <3> QED BY <1>16, <2>4, <3>1, <3>2, <3>3
  <2> QED BY <2>4, <2>5, <2>6
<1>18. /\ freed \in Seq(AllSlots)
       /\ \A i \in DOMAIN freed : freed[i] \notin liveSlots /\ \E k \in DOMAIN slots : freed[i] = slots[k]
       /\ \A k \in DOMAIN slots : slots[k] \notin liveSlots => \E i \in DOMAIN freed : freed[i] = slots[k]
       /\ \A i, j \in DOMAIN freed : freed[i] = freed[j] => i = j
  <2>1. PICK T : T = AllSlots \ liveSlots
    OBVIOUS
  <2>2. freed = Only(slots, T)
    BY <1>9, <2>1
  <2>3. /\ freed \in Seq(AllSlots)
        /\ \A i \in DOMAIN freed : freed[i] \in T /\ \E k \in DOMAIN slots : freed[i] = slots[k]
        /\ \A k \in DOMAIN slots : slots[k] \in T => \E i \in DOMAIN freed : freed[i] = slots[k]
        /\ \A i, j \in DOMAIN freed : freed[i] = freed[j] => i = j
    BY <1>17, <2>2, OnlyFacts
  <2>4. \A k \in DOMAIN slots : slots[k] \in AllSlots
    BY <1>17
  <2> QED BY <2>1, <2>3, <2>4
(* A slot that becomes free was retired, and is retired no more.           *)
<1>19. ASSUME NEW i \in DOMAIN freed
       PROVE  /\ freed[i] \notin liveSlots
              /\ \E k \in DOMAIN ret : ret[k] \in retirable /\ ret[k].slot = freed[i]
  <2>1. PICK k \in DOMAIN gone : freed[i] = gone[k].slot
    BY <1>17, <1>18
  <2>2. PICK j \in DOMAIN ret : gone[k] = ret[j]
    BY <1>16
  <2> QED BY <1>16, <1>18, <2>1, <2>2
<1>20. /\ free2 \in Seq(AllSlots)
       /\ \A i \in DOMAIN free0 : i \in DOMAIN free2 /\ free2[i] = free0[i]
       /\ \A i \in DOMAIN freed : i + Len(free0) \in DOMAIN free2 /\ free2[i + Len(free0)] = freed[i]
       /\ \A i \in DOMAIN free2 : \/ i \in DOMAIN free0 /\ free2[i] = free0[i]
                                  \/ /\ i \notin DOMAIN free0
                                     /\ \E k \in DOMAIN freed : k + Len(free0) = i /\ free2[i] = freed[k]
  <2>1. Len(free0) \in Nat /\ Len(freed) \in Nat /\ DOMAIN free0 = 1 .. Len(free0) /\ DOMAIN freed = 1 .. Len(freed)
    BY <1>18
  <2>2. free2 \in Seq(AllSlots) /\ DOMAIN free2 = 1 .. Len(free0) + Len(freed)
    BY <1>11, <1>18
  <2>3. \A i \in 1 .. Len(free0) : free2[i] = free0[i]
    BY <1>11, <1>18
  <2>4. \A i \in 1 .. Len(freed) : i + Len(free0) \in DOMAIN free2 /\ free2[i + Len(free0)] = freed[i]
    BY <1>11, <1>18, <2>1, <2>2
  <2>5. ASSUME NEW i \in DOMAIN free2, i \notin DOMAIN free0
        PROVE  \E k \in DOMAIN freed : k + Len(free0) = i /\ free2[i] = freed[k]
    <3>1. i - Len(free0) \in 1 .. Len(freed) /\ (i - Len(free0)) + Len(free0) = i
      BY <2>1, <2>2, <2>5
    <3> QED BY <2>1, <2>4, <3>1
  <2> QED BY <2>1, <2>2, <2>3, <2>4, <2>5
<1>21. HeapShape'
  BY <1>0, <1>10, <1>11, <1>13, <1>15, <1>20 DEF HeapShape
<1>22. SlotsOK'
  <2>1. \A slot \in liveSlots' : slot < nextFresh'
    BY <1>0, <1>11 DEF SlotsOK
  <2>2. \A i \in DOMAIN ret2 : ret2[i].slot < nextFresh' /\ ret2[i].slot \notin liveSlots'
    <3> TAKE i \in DOMAIN ret2
    <3>1. PICK k \in DOMAIN ret : ret2[i] = ret[k]
      BY <1>15
    <3> QED BY <1>0, <1>2, <1>11, <3>1 DEF SlotsOK
  <2>3. \A i \in DOMAIN free2 : free2[i] < nextFresh' /\ free2[i] \notin liveSlots'
    <3> TAKE i \in DOMAIN free2
    <3>1. CASE i \in DOMAIN free0 /\ free2[i] = free0[i]
      BY <1>0, <1>3, <1>11, <3>1 DEF SlotsOK
    <3>2. CASE \E k \in DOMAIN freed : free2[i] = freed[k]
      BY <1>0, <1>2, <1>11, <1>19, <3>2 DEF SlotsOK
    <3> QED BY <1>20, <3>1, <3>2
  <2>4. ASSUME NEW i \in DOMAIN ret2, NEW j \in DOMAIN ret2, ret2[i].slot = ret2[j].slot
        PROVE  i = j
    <3>1. PICK k \in DOMAIN ret : ret2[i] = ret[k]
      BY <1>15
    <3>2. PICK l \in DOMAIN ret : ret2[j] = ret[l]
      BY <1>15
    <3>3. k = l
      BY <1>14, <2>4, <3>1, <3>2
    <3> QED BY <1>15, <3>1, <3>2, <3>3
  <2>5. ASSUME NEW i \in DOMAIN free2, NEW j \in DOMAIN free2, free2[i] = free2[j]
        PROVE  i = j
    <3>1. \A k \in DOMAIN free0, l \in DOMAIN freed : free0[k] # freed[l]
      BY <1>0, <1>2, <1>3, <1>19 DEF SlotsOK
    <3>2. CASE i \in DOMAIN free0 /\ j \in DOMAIN free0
      BY <1>0, <1>3, <1>20, <2>5, <3>2 DEF SlotsOK
    <3>3. CASE i \notin DOMAIN free0 /\ j \notin DOMAIN free0
      <4>1. PICK k \in DOMAIN freed : k + Len(free0) = i /\ free2[i] = freed[k]
        BY <1>20, <3>3
      <4>2. PICK l \in DOMAIN freed : l + Len(free0) = j /\ free2[j] = freed[l]
        BY <1>20, <3>3
      <4>3. k = l
        BY <1>18, <2>5, <4>1, <4>2
      <4> QED BY <4>1, <4>2, <4>3
    <3>4. (i \in DOMAIN free0) <=> (j \in DOMAIN free0)
      BY <1>20, <2>5, <3>1
    <3> QED BY <3>2, <3>3, <3>4
  <2>6. \A i \in DOMAIN ret2, j \in DOMAIN free2 : ret2[i].slot # free2[j]
    <3> TAKE i \in DOMAIN ret2, j \in DOMAIN free2
    <3>1. PICK k \in DOMAIN ret : ret2[i] = ret[k] /\ ret[k] \notin retirable
      BY <1>15
    <3>2. CASE j \in DOMAIN free0 /\ free2[j] = free0[j]
      BY <1>0, <1>2, <1>3, <3>1, <3>2 DEF SlotsOK
    <3>3. CASE \E l \in DOMAIN freed : free2[j] = freed[l]
      BY <1>14, <1>19, <3>1, <3>3
    <3> QED BY <1>20, <3>2, <3>3
  <2>7. ASSUME NEW slot \in AllSlots, slot < nextFresh'
        PROVE  \/ slot \in liveSlots'
               \/ \E i \in DOMAIN ret2 : ret2[i].slot = slot
               \/ \E i \in DOMAIN free2 : free2[i] = slot
    <3>1. \/ slot \in liveSlots
          \/ \E i \in DOMAIN ret : ret[i].slot = slot
          \/ \E i \in DOMAIN free0 : free0[i] = slot
      BY <1>0, <1>2, <1>3, <1>11, <2>7 DEF SlotsOK
    <3>2. ASSUME NEW k \in DOMAIN ret, ret[k].slot = slot, slot \notin liveSlots
          PROVE  (\E i \in DOMAIN ret2 : ret2[i].slot = slot) \/ \E i \in DOMAIN free2 : free2[i] = slot
      <4>1. CASE ret[k] \notin retirable
        BY <1>15, <3>2, <4>1
      <4>2. CASE ret[k] \in retirable
        <5>1. PICK i \in DOMAIN slots : slots[i] = slot
          BY <1>16, <1>17, <3>2, <4>2
        <5>2. PICK j \in DOMAIN freed : freed[j] = slot
          BY <1>18, <3>2, <5>1
        <5> QED BY <1>20, <5>2
      <4> QED BY <4>1, <4>2
    <3>3. ASSUME NEW k \in DOMAIN free0, free0[k] = slot
          PROVE  \E i \in DOMAIN free2 : free2[i] = slot
      BY <1>20, <3>3
    <3> QED BY <1>11, <3>1, <3>2, <3>3
  <2> QED BY <1>10, <2>1, <2>2, <2>3, <2>4, <2>5, <2>6, <2>7 DEF SlotsOK
<1>23. UsesOK'
  <2>1. \A i, j \in DOMAIN uses2 : uses2[i].id = uses2[j].id => i = j
    <3> TAKE i \in DOMAIN uses2, j \in DOMAIN uses2
    <3>1. PICK k \in DOMAIN uses : uses2[i] = uses[k]
      BY <1>13
    <3>2. PICK l \in DOMAIN uses : uses2[j] = uses[l]
      BY <1>13
    <3> QED BY <1>0, <1>1, <1>13, <3>1, <3>2 DEF UsesOK
  <2>2. \A i, j \in DOMAIN uses2 :
          (uses2[i].commandBuffer = uses2[j].commandBuffer /\ uses2[i].commandBuffer # NoBuffer) => i = j
    <3> TAKE i \in DOMAIN uses2, j \in DOMAIN uses2
    <3>1. PICK k \in DOMAIN uses : uses2[i] = uses[k]
      BY <1>13
    <3>2. PICK l \in DOMAIN uses : uses2[j] = uses[l]
      BY <1>13
    <3> QED BY <1>0, <1>1, <1>13, <3>1, <3>2 DEF UsesOK
  <2>3. ASSUME NEW i \in DOMAIN uses2, NEW v, v = uses2[i]
        PROVE  UseOK(v)'
    <3>1. UseOK(v)
      BY <1>0, <1>1, <1>13, <2>3 DEF UsesOK
    <3> QED BY <1>11, <1>12, <3>1 DEF UseOK, OnList
  <2>4. \A i \in DOMAIN m_heapUses' : UseOK(m_heapUses[i])'
    BY <1>10, <2>3 DEF UseOK
  <2> QED BY <1>10, <2>1, <2>2, <2>4 DEF UsesOK
(* The slots of a use that stays are kept.                                 *)
<1>24. ASSUME NEW k \in DOMAIN uses, ~heapUseComplete(uses[k], got), NEW slot, NEW id, id = uses[k].id, Kept(slot, id)
       PROVE  Kept(slot, id)'
  <2>1. CASE slot \in liveSlots
    BY <1>11, <2>1 DEF Kept
  <2>2. CASE \E j \in DOMAIN ret : ret[j].slot = slot /\ ret[j].lastRequiredHeapUseID >= id
    <3>1. PICK j \in DOMAIN ret : ret[j].slot = slot /\ ret[j].lastRequiredHeapUseID >= id
      BY <2>2
    <3>2. ret[j].lastRequiredHeapUseID \in Nat /\ id \in Nat
      <4>1. ret[j] \in RetiredSlots /\ uses[k] \in HeapUses
        OBVIOUS
      <4> QED BY <1>24, <4>1 DEF RetiredSlots, HeapUses
    <3>3. uses[k] \in Range(uses) /\ uses[k] \notin done /\ uses[k].id <= ret[j].lastRequiredHeapUseID
      BY <1>5, <1>24, <3>1, <3>2 DEF Range
    <3>4. ret[j] \notin retirable
      BY <1>6, <3>3
    <3>5. PICK i \in DOMAIN ret2 : ret2[i] = ret[j]
      BY <1>15, <3>4
    <3> QED BY <1>10, <3>1, <3>5 DEF Kept
  <2> QED BY <1>2, <1>24, <2>1, <2>2 DEF Kept
<1>25. RefsOK'
  <2>1. \A c \in Buffers : ~m_referencedDescriptorHeaps'[c] => refs'[c] = {}
    BY <1>0, <1>11 DEF RefsOK
  <2>2. \A c \in Buffers : m_referencedDescriptorHeaps'[c] => OnList(c)' \/ Flying(c)'
    BY <1>0, <1>11, <1>12 DEF RefsOK, OnList, Flying
  <2>3. ASSUME NEW r \in Recorders, Tracked(r)'
        PROVE  HasUse(r)'
    <3>1. Tracked(r) /\ HasUse(r)
      BY <1>0, <1>11, <1>12, <2>3 DEF RefsOK, Tracked
    <3>2. PICK k \in DOMAIN uses :
            /\ uses[k].commandBuffer = m_currentCmdBuf[r] /\ uses[k].token = NoToken
            /\ \A slot \in refs[m_currentCmdBuf[r]] : Kept(slot, uses[k].id)
      BY <1>1, <3>1 DEF HasUse
    <3>3. ~heapUseComplete(uses[k], got)
      BY <3>1, <3>2 DEF heapUseComplete, Tracked
    <3>4. PICK i \in DOMAIN uses2 : uses2[i] = uses[k]
      BY <1>13, <3>3
    <3>5. PICK n : n = uses[k].id
      OBVIOUS
    <3>6. \A slot \in refs[m_currentCmdBuf[r]] : Kept(slot, n)'
      BY <1>24, <3>2, <3>3, <3>5
    <3>7. refs'[m_currentCmdBuf'[r]] = refs[m_currentCmdBuf[r]] /\ m_currentCmdBuf'[r] = m_currentCmdBuf[r]
      BY <1>11, <1>12
    <3> QED BY <1>10, <3>2, <3>4, <3>5, <3>6, <3>7 DEF HasUse, Kept
  <2>4. ASSUME NEW q \in Queues, NEW e \in Range(gpuQueue'[q]), e.buffer # NoBuffer, refs'[e.buffer] # {}
        PROVE  UseOf(q, e)'
    <3>1. e \in Range(gpuQueue[q]) /\ UseOf(q, e)
      BY <1>0, <1>11, <1>12, <2>4 DEF RefsOK
    <3>2. PICK k \in DOMAIN uses : /\ uses[k].queue = q /\ uses[k].token = e.id
                                   /\ \A slot \in refs[e.buffer] : Kept(slot, uses[k].id)
      BY <1>1, <3>1 DEF UseOf
    <3>3. ~heapUseComplete(uses[k], got)
      <4>1. e.id > gpuDone[q] /\ e.id \in Nat
        BY <1>0, <3>1, EntryFacts
      <4>2. gpuDone[q] \in Nat
        BY <1>0, QueueAssumption DEF Core, CoreType
      <4>3. q \in DOMAIN got => got[q] \in Nat /\ got[q] <= gpuDone[q]
        BY <1>0, <1>4 DEF SweepOK
      <4> QED BY <3>2, <4>1, <4>2, <4>3 DEF heapUseComplete, NoToken
    <3>4. PICK i \in DOMAIN uses2 : uses2[i] = uses[k]
      BY <1>13, <3>3
    <3>5. PICK n : n = uses[k].id
      OBVIOUS
    <3>6. \A slot \in refs[e.buffer] : Kept(slot, n)'
      BY <1>24, <3>2, <3>3, <3>5
    <3>7. i \in DOMAIN uses2 /\ uses2[i].queue = q /\ uses2[i].token = e.id /\ uses2[i].id = n
      BY <3>2, <3>4, <3>5
    <3>8. refs' = refs
      BY <1>11
    <3> QED BY <1>10, <3>6, <3>7, <3>8 DEF UseOf, Kept
  <2> QED BY <2>1, <2>2, <2>3, <2>4 DEF RefsOK
<1>26. SweepOK'
  <2>1. \A t \in Sweepers : sweep'[t] = IF t = s THEN NotSweeping ELSE sweep[t]
    BY <1>0, <1>11 DEF SweepOK
  <2>2. DOMAIN sweep' = Sweepers
    BY <1>0, <1>11 DEF SweepOK
  <2>3. PICK new : new = NotSweeping
    OBVIOUS
  <2>4. new = [at |-> new.at, polled |-> new.polled, completions |-> new.completions] /\ DOMAIN new.completions = {}
    BY <2>3 DEF NotSweeping
  <2> QED BY <1>0, <1>12, <2>1, <2>2, <2>3, <2>4 DEF SweepOK
<1>27. OpenEmpty'
  BY <1>0, <1>12 DEF OpenEmpty
<1> QED BY <1>21, <1>22, <1>23, <1>25, <1>26, <1>27 DEF HeapInv
-----------------------------------------------------------------------------
(* The heap's steps take steps of the queue or leave it alone.             *)
LEMMA QueueSteps ==
  ASSUME HeapNext
  PROVE  [Next]_queueVars
<1>1. ASSUME allocate PROVE UNCHANGED queueVars
  BY <1>1 DEF allocate
<1>2. ASSUME NEW r \in Recorders, trackCommandBufferUse(r) \/ \E slot \in AllSlots : UseSlot(r, slot)
      PROVE  UNCHANGED queueVars
  BY <1>2 DEF trackCommandBufferUse, UseSlot
<1>3. ASSUME NEW r \in Recorders, Opens(r) PROVE Recording(r)
  BY <1>3 DEF Opens, Recording
<1>4. ASSUME NEW r \in Recorders, Submits(r) PROVE Submit(r)
  BY <1>4 DEF Submits, Submit
<1>5. ASSUME NEW q \in Queues, Collects(q) PROVE Completion(q)
  BY <1>5 DEF Collects, Completion
<1>6. ASSUME NEW q \in Queues, Finishes(q) PROVE GpuFinish(q)
  BY <1>6 DEF Finishes
<1>7. ASSUME NEW s \in Sweepers,
             (\E slot \in AllSlots : free(s, slot)) \/ CollectSnapshot(s) \/ CollectRetire(s)
      PROVE  UNCHANGED queueVars
  BY <1>7 DEF free, CollectSnapshot, CollectRetire
<1>8. ASSUME NEW s \in Sweepers, NEW q \in Queues, NEW fin \in 0 .. SubmissionLimit, CollectPoll(s, q, fin)
      PROVE  Completion(q)
  BY <1>8 DEF CollectPoll, Completion
<1> QED BY <1>1, <1>2, <1>3, <1>4, <1>5, <1>6, <1>7, <1>8 DEF HeapNext, Next

(* Nothing is allocated, tracked or swept yet.                             *)
LEMMA InitHeapInv == HeapInit => IInv /\ HeapInv
<1> SUFFICES ASSUME HeapInit PROVE IInv /\ HeapInv
  OBVIOUS
<1>1. /\ freeList = <<>> /\ nextFresh = 0 /\ liveSlots = {} /\ m_retired = <<>>
      /\ m_heapUses = <<>> /\ m_lastHeapUseID = 0
      /\ m_referencedDescriptorHeaps = [b \in Buffers |-> FALSE]
      /\ sweep = [s \in Sweepers |-> NotSweeping]
      /\ refs = [b \in Buffers |-> {}]
  BY DEF HeapInit
<1>2. /\ m_currentCmdBuf = [r \in Recorders |-> NoBuffer]
      /\ gpuQueue = [q \in Queues |-> <<>>]
      /\ exec = [r \in Recorders |-> NotExecuting]
  BY DEF HeapInit, Init
<1>3. IInv
  BY InitIInv DEF HeapInit
<1>4. HeapShape
  BY <1>1, HeapAssumption DEF HeapShape
<1>5. SlotsOK
  <2>1. \A slot \in AllSlots : ~(slot < 0)
    BY HeapAssumption DEF AllSlots
  <2> QED BY <1>1, <2>1 DEF SlotsOK
<1>6. UsesOK
  BY <1>1 DEF UsesOK
<1>7. RefsOK
  <2>1. \A r \in Recorders : ~Tracked(r)
    BY <1>2 DEF Tracked
  <2>2. \A q \in Queues : Range(gpuQueue[q]) = {}
    BY <1>2 DEF Range
  <2> QED BY <1>1, <2>1, <2>2 DEF RefsOK
<1>8. SweepOK
  <2>1. PICK new : new = NotSweeping
    OBVIOUS
  <2>2. new = [at |-> new.at, polled |-> new.polled, completions |-> new.completions] /\ DOMAIN new.completions = {}
    BY <2>1 DEF NotSweeping
  <2>3. \A s \in Sweepers : sweep[s] = new
    BY <1>1, <2>1
  <2> QED BY <1>1, <2>2, <2>3 DEF SweepOK
<1>9. OpenEmpty
  BY <1>2 DEF OpenEmpty
<1> QED BY <1>3, <1>4, <1>5, <1>6, <1>7, <1>8, <1>9 DEF HeapInv

(* Nothing changes.                                                        *)
LEMMA HeapStutters ==
  ASSUME IInv, HeapInv, UNCHANGED vars
  PROVE  HeapInv'
<1>0. Core /\ HeapShape /\ SlotsOK /\ UsesOK /\ RefsOK /\ SweepOK /\ OpenEmpty
  BY DEF IInv, HeapInv
<1>1. UNCHANGED queueVars /\ UNCHANGED <<freeList, nextFresh, liveSlots, m_retired, m_heapUses, m_lastHeapUseID,
                                         m_referencedDescriptorHeaps, sweep, refs>>
  BY DEF vars, heapVars
<1>2. UsesOK' /\ RefsOK' /\ OpenEmpty'
  <2>1. \A slot, id : Kept(slot, id) => Kept(slot, id)'
    BY <1>1 DEF Kept
  <2>2. \A i \in DOMAIN m_heapUses : \A slot : Kept(slot, m_heapUses[i].id) => Kept(slot, m_heapUses[i].id)'
    BY <1>1, <2>1 DEF Kept
  <2> QED BY <1>0, <1>1, <2>2, SlotsStep
<1>3. HeapShape' /\ SlotsOK'
  BY <1>0, <1>1 DEF HeapShape, SlotsOK
<1>4. SweepOK'
  BY <1>0, <1>1, SweepStays DEF queueVars
<1> QED BY <1>2, <1>3, <1>4 DEF HeapInv

(* Every step keeps the queue's invariant and the heap's.                  *)
LEMMA NextHeapInv ==
  ASSUME IInv, HeapInv, [HeapNext]_vars
  PROVE  IInv' /\ HeapInv'
<1>1. CASE UNCHANGED vars
  <2>1. IInv'
    BY <1>1, NextIInv DEF vars
  <2> QED BY <1>1, <2>1, HeapStutters
<1>2. CASE HeapNext
  <2>1. IInv'
    BY <1>2, QueueSteps, NextIInv
  <2>2. ASSUME NEW r \in Recorders,
               \/ trackCommandBufferUse(r) \/ (\E slot \in AllSlots : UseSlot(r, slot))
               \/ Opens(r) \/ Submits(r) \/ (Executes(r) /\ UNCHANGED heapVars)
        PROVE  HeapInv'
    BY <2>1, <2>2, TrackKeeps, UseSlotKeeps, OpensKeeps, SubmitsKeeps, HeapExecutesKeeps
  <2>3. ASSUME NEW q \in Queues, Collects(q) \/ Finishes(q)
        PROVE  HeapInv'
    BY <2>1, <2>3, CollectsKeeps, FinishesKeeps
  <2>4. ASSUME NEW s \in Sweepers,
               \/ (\E slot \in AllSlots : free(s, slot)) \/ CollectSnapshot(s)
               \/ (\E q \in Queues, fin \in 0 .. SubmissionLimit : CollectPoll(s, q, fin)) \/ CollectRetire(s)
        PROVE  HeapInv'
    BY <2>1, <2>4, FreeKeeps, SweepingKeeps, RetireKeeps
  <2> QED BY <1>2, <2>1, <2>2, <2>3, <2>4, AllocateKeeps DEF HeapNext
<1> QED BY <1>1, <1>2

(* The inductive invariant holds.                                          *)
LEMMA HeapInductive == HeapSpec => [](IInv /\ HeapInv)
BY InitHeapInv, NextHeapInv, PTL DEF HeapSpec
-----------------------------------------------------------------------------
(* A slot in one of the three places is counted once.                      *)
LEMMA CountedOnce ==
  ASSUME HeapShape, SlotsOK
  PROVE  SlotAccounting
<1> SUFFICES ASSUME NEW slot \in 0 .. nextFresh - 1
             PROVE  (IF slot \in liveSlots THEN 1 ELSE 0)
                      + Cardinality({i \in DOMAIN m_retired : m_retired[i].slot = slot})
                      + Cardinality({i \in DOMAIN freeList : freeList[i] = slot}) = 1
  BY DEF SlotAccounting
<1> DEFINE R == {i \in DOMAIN m_retired : m_retired[i].slot = slot}
           F == {i \in DOMAIN freeList : freeList[i] = slot}
<1>1. slot \in AllSlots /\ slot < nextFresh
  BY HeapAssumption DEF HeapShape, AllSlots
<1>2. slot \in liveSlots \/ R # {} \/ F # {}
  BY <1>1 DEF SlotsOK
<1>3. slot \in liveSlots => R = {} /\ F = {}
  BY DEF SlotsOK
<1>4. R = {} \/ F = {}
  BY DEF SlotsOK
<1>5. (\A x, y \in R : x = y) /\ (\A x, y \in F : x = y)
  BY DEF SlotsOK
<1> HIDE DEF R, F
<1>6. PICK k, l : k = Cardinality(R) /\ l = Cardinality(F)
  OBVIOUS
<1>7. /\ k \in {0, 1} /\ (R = {} => k = 0) /\ (R # {} => k = 1)
      /\ l \in {0, 1} /\ (F = {} => l = 0) /\ (F # {} => l = 1)
  <2>1. k \in {0, 1} /\ (R = {} => k = 0) /\ l \in {0, 1} /\ (F = {} => l = 0)
    BY <1>5, <1>6, AtMostOne
  <2>2. R # {} => k = 1
    <3> SUFFICES ASSUME R # {} PROVE k = 1
      OBVIOUS
    <3>1. PICK x : x \in R
      OBVIOUS
    <3>2. R = {x}
      BY <1>5, <3>1
    <3> QED BY <1>6, <3>2, FS_Singleton
  <2>3. F # {} => l = 1
    <3> SUFFICES ASSUME F # {} PROVE l = 1
      OBVIOUS
    <3>1. PICK x : x \in F
      OBVIOUS
    <3>2. F = {x}
      BY <1>5, <3>1
    <3> QED BY <1>6, <3>2, FS_Singleton
  <2> QED BY <2>1, <2>2, <2>3
<1>8. (IF slot \in liveSlots THEN 1 ELSE 0) + k + l = 1
  BY <1>2, <1>3, <1>4, <1>7
<1> QED BY <1>6, <1>8 DEF R, F

(* Whatever the order of free, allocate and concurrent collections, a slot *)
(* handed out is live, retired or free, once.                              *)
THEOREM SlotsAccounted == HeapSpec => []SlotAccounting
<1>1. HeapInv => SlotAccounting
  BY CountedOnce DEF HeapInv
<1> QED BY <1>1, HeapInductive, PTL

(* A slot on the free list is indexed by no command buffer that is being   *)
(* recorded or executed: collectRetired's completions may be old but never *)
(* wrong, and the id it compares with them was given in submission order.  *)
THEOREM DescriptorsRetained == HeapSpec => []DescriptorRetained
<1>1. ASSUME IInv, HeapInv PROVE DescriptorRetained
  <2>0. Core /\ HeapShape /\ SlotsOK /\ RefsOK
    BY <1>1 DEF IInv, HeapInv
  <2>1. ASSUME NEW slot, NEW id, Kept(slot, id) PROVE slot \notin Range(freeList)
    BY <2>0, <2>1 DEF Kept, SlotsOK, Range
  <2>2. ASSUME NEW b \in Held PROVE refs[b] \cap Range(freeList) = {}
    <3>1. PICK r \in Recorders : m_currentCmdBuf[r] = b /\ b # NoBuffer /\ b \in Buffers
      BY <2>0 DEF Held, Core, CoreType
    <3>2. CASE m_referencedDescriptorHeaps[b]
      <4>1. HasUse(r)
        BY <2>0, <3>1, <3>2 DEF RefsOK, Tracked
      <4> QED BY <2>1, <3>1, <4>1 DEF HasUse
    <3>3. CASE ~m_referencedDescriptorHeaps[b]
      BY <2>0, <3>1, <3>3 DEF RefsOK
    <3> QED BY <3>2, <3>3
  <2>3. ASSUME NEW b \in Executing PROVE refs[b] \cap Range(freeList) = {}
    <3>1. b \in UNION {{e.buffer : e \in Range(gpuQueue[q])} : q \in Queues} /\ b # NoBuffer
      BY DEF Executing
    <3>2. PICK q \in Queues : \E e \in Range(gpuQueue[q]) : e.buffer = b
      BY <3>1
    <3>3. PICK e \in Range(gpuQueue[q]) : e.buffer = b
      BY <3>2
    <3>4. CASE refs[b] # {}
      <4>1. UseOf(q, e)
        BY <2>0, <3>1, <3>3, <3>4 DEF RefsOK
      <4> QED BY <2>1, <3>3, <4>1 DEF UseOf
    <3> QED BY <3>4
  <2> QED BY <2>2, <2>3 DEF DescriptorRetained
<1> QED BY <1>1, HeapInductive, PTL

(* Every heap use can complete: its submission was accepted, its recording *)
(* was given up, or a list still holds its buffer and tracks it.           *)
THEOREM UsesComplete == HeapSpec => []UsesResolvable
<1>1. ASSUME IInv, HeapInv PROVE UsesResolvable
  <2>1. ASSUME NEW u \in Range(m_heapUses)
        PROVE  \/ u.token # NoToken /\ u.token <= m_lastSubmittedID[u.queue]
               \/ u.token = NoToken /\ u.commandBuffer = NoBuffer
               \/ u.token = NoToken /\ u.commandBuffer \in Held /\ m_referencedDescriptorHeaps[u.commandBuffer]
    <3>1. UseOK(u)
      BY <1>1 DEF HeapInv, UsesOK, Range
    <3> QED BY <3>1 DEF UseOK, OnList, Held
  <2> QED BY <2>1 DEF UsesResolvable
<1> QED BY <1>1, HeapInductive, PTL
=============================================================================
