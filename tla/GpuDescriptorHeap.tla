-------------------------- MODULE GpuDescriptorHeap --------------------------
(***************************************************************************)
(* The global descriptor heap of the Vulkan backend                        *)
(* (gpu_descriptor_heap.cpp): slots that shaders index, freed by the CPU   *)
(* while command buffers that may read them are recorded or executed.      *)
(*                                                                         *)
(* A command buffer that binds the heap gets a HeapUse, numbered in order; *)
(* a freed slot remembers the last number and is reusable once all uses up *)
(* to it are complete.  collectRetired runs on any thread, in three parts: *)
(* it notes the queues of the uses, polls each with the heap unlocked, and *)
(* retires with what it learned.  One slot namespace stands for the three  *)
(* (resources, samplers, acceleration structures), which do not interact.  *)
(***************************************************************************)
EXTENDS VulkanQueue

CONSTANTS
  Sweepers,     \* threads that free slots and collect
  capacity,     \* slots of the namespace
  MaxHeapUses   \* bound: heap uses ever tracked

ASSUME HeapAssumption == capacity \in Nat /\ MaxHeapUses \in Nat

VARIABLES
  freeList, nextFresh, liveSlots,   \* SlotAllocator
  m_retired,                        \* freed slots with lastRequiredHeapUseID
  m_heapUses, m_lastHeapUseID,
  m_referencedDescriptorHeaps,      \* buffer -> the heap is in its list
  sweep,                            \* sweeper -> its collectRetired
  refs                              \* history: buffer -> slots its commands index

heapVars == <<freeList, nextFresh, liveSlots, m_retired, m_heapUses, m_lastHeapUseID,
              m_referencedDescriptorHeaps, sweep, refs>>
slotVars == <<freeList, nextFresh, liveSlots, m_retired>>
vars == <<queueVars, heapVars>>

AllSlots == 0 .. capacity - 1
NoToken == 0                         \* a token of queue q is its value; 0 is not valid
NotSweeping == [at |-> "idle", polled |-> {}, completions |-> [q \in {} |-> 0]]

HeapInit ==
  /\ Init
  /\ freeList = <<>> /\ nextFresh = 0 /\ liveSlots = {} /\ m_retired = <<>>
  /\ m_heapUses = <<>> /\ m_lastHeapUseID = 0
  /\ m_referencedDescriptorHeaps = [b \in Buffers |-> FALSE]
  /\ sweep = [s \in Sweepers |-> NotSweeping]
  /\ refs = [b \in Buffers |-> {}]
-----------------------------------------------------------------------------
(* Slots.                                                                  *)

allocate ==                          \* the newest free slot, else a fresh one
  LET slot == IF freeList # <<>> THEN Last(freeList) ELSE nextFresh IN
  /\ freeList # <<>> \/ nextFresh < capacity
  /\ slot \notin liveSlots
  /\ freeList' = IF freeList # <<>> THEN Front(freeList) ELSE freeList
  /\ nextFresh' = IF freeList # <<>> THEN nextFresh ELSE nextFresh + 1
  /\ liveSlots' = liveSlots \cup {slot}
  /\ UNCHANGED <<m_retired, m_heapUses, m_lastHeapUseID, m_referencedDescriptorHeaps,
                 sweep, refs, queueVars>>

freeUnchecked(s, slot) ==            \* mutant: a slot that is already retired is retired again
  /\ sweep[s].at = "idle" /\ slot < nextFresh
  /\ Len(m_retired) <= capacity
  /\ liveSlots' = liveSlots \ {slot}
  /\ m_retired' = Append(m_retired, [slot |-> slot, lastRequiredHeapUseID |-> m_lastHeapUseID])
  /\ sweep' = [sweep EXCEPT ![s].at = "snapshot"]
  /\ UNCHANGED <<freeList, nextFresh, m_heapUses, m_lastHeapUseID,
                 m_referencedDescriptorHeaps, refs, queueVars>>

free(s, slot) ==                     \* retires the slot, then collects
  /\ sweep[s].at = "idle" /\ slot \in liveSlots
  /\ liveSlots' = liveSlots \ {slot}
  /\ m_retired' = Append(m_retired, [slot |-> slot, lastRequiredHeapUseID |-> m_lastHeapUseID])
  /\ sweep' = [sweep EXCEPT ![s].at = "snapshot"]
  /\ UNCHANGED <<freeList, nextFresh, m_heapUses, m_lastHeapUseID,
                 m_referencedDescriptorHeaps, refs, queueVars>>
-----------------------------------------------------------------------------
(* Uses of the heap by command buffers.                                    *)

Tracked(r) == m_currentCmdBuf[r] # NoBuffer /\ m_referencedDescriptorHeaps[m_currentCmdBuf[r]]
CanRecord(r) == m_isRecording[r] /\ exec[r].at = "idle"

trackCommandBufferUse(r) ==          \* a second bind of the same recording is found tracked
  LET b == m_currentCmdBuf[r] IN
  /\ CanRecord(r) /\ ~ Tracked(r) /\ m_lastHeapUseID < MaxHeapUses
  /\ m_referencedDescriptorHeaps' = [m_referencedDescriptorHeaps EXCEPT ![b] = TRUE]
  /\ m_lastHeapUseID' = m_lastHeapUseID + 1
  /\ m_heapUses' = Append(m_heapUses, [commandBuffer |-> b, queue |-> QueueOf[r], token |-> NoToken,
                                       id |-> m_lastHeapUseID + 1])
  /\ UNCHANGED <<slotVars, sweep, refs, queueVars>>

(* The caller records a command that indexes a live slot.                  *)
UseSlot(r, slot) ==
  /\ CanRecord(r) /\ Tracked(r)
  /\ slot \in liveSlots \ refs[m_currentCmdBuf[r]]
  /\ refs' = [refs EXCEPT ![m_currentCmdBuf[r]] = @ \cup {slot}]
  /\ UNCHANGED <<slotVars, m_heapUses, m_lastHeapUseID, m_referencedDescriptorHeaps, sweep,
                 queueVars>>

discardNone(S) == UNCHANGED <<m_heapUses, m_referencedDescriptorHeaps>>
                                     \* mutant: the uses keep pointing at the buffers

(* clearTrackedReferences and discardCommandBufferUse for the buffers in S. *)
discardCommandBufferUses(S) ==
  /\ m_heapUses' = [i \in DOMAIN m_heapUses |->
                      IF m_heapUses[i].commandBuffer \in S
                      THEN [m_heapUses[i] EXCEPT !.commandBuffer = NoBuffer] ELSE m_heapUses[i]]
  /\ m_referencedDescriptorHeaps' = [b \in Buffers |-> b \notin S /\ m_referencedDescriptorHeaps[b]]

(* submitCommandBufferUse: the first use of b without a token gets this one. *)
submitCommandBufferUse(b, value) ==
  LET open == {i \in DOMAIN m_heapUses :
                 m_heapUses[i].commandBuffer = b /\ m_heapUses[i].token = NoToken}
  IN  m_heapUses' =
        IF b = NoBuffer \/ ~ m_referencedDescriptorHeaps[b] \/ open = {} THEN m_heapUses
        ELSE [m_heapUses EXCEPT ![CHOOSE i \in open : \A j \in open : i <= j].token = value]

Unread(S) == refs' = [b \in Buffers |-> IF b \in S THEN {} ELSE refs[b]]
-----------------------------------------------------------------------------
(* The steps of VulkanQueue and what they do to the heap.                  *)

KeepHeap == UNCHANGED <<slotVars, m_lastHeapUseID, sweep>>

(* The buffers that leave m_commandBuffersInFlight or a list and are cleared. *)
Cleared(S) == discardCommandBufferUses(S) /\ Unread(S) /\ KeepHeap

Opens(r) ==
  \/ \E fin \in 0 .. SubmissionLimit :
       (OpenDrop(r, fin) \/ OpenFails(r, fin) \/ CloseFails(r, fin)) /\ Cleared({m_currentCmdBuf[r]})
  \/ \E fin \in updateLastFinishedID(QueueOf[r]), b \in Buffers \cup {NoBuffer} :
       /\ getOrCreateDirectCommandBuffer(r, fin, b)
       /\ Cleared(Range(Completed(QueueOf[r], fin)))
  \/ /\ \/ \E b \in Buffers \cup {NoBuffer} : getOrCreateWorkerCommandBuffer(r, b)
        \/ OpenBegin(r) \/ Close(r)
     /\ UNCHANGED heapVars

Submits(r) ==
  \/ /\ \E withList, valid \in BOOLEAN : SubmitRefused(r, withList, valid, NotExecuting)
     /\ UNCHANGED heapVars
  \/ \E withList \in BOOLEAN :
       /\ SubmitRejected(r, withList, NotExecuting)
       /\ Cleared({SubmittedBuffer(r, withList)} \ {NoBuffer})
  \/ \E withList \in BOOLEAN :
       /\ SubmitAccepted(r, withList, NotExecuting)
       /\ submitCommandBufferUse(SubmittedBuffer(r, withList), m_lastSubmittedID[QueueOf[r]] + 1)
       /\ KeepHeap /\ UNCHANGED <<m_referencedDescriptorHeaps, refs>>

Collects(q) ==
  \E fin \in 0 .. SubmissionLimit :
    \/ queueGetCompletedInstance(q, fin) /\ UNCHANGED heapVars
    \/ (runGarbageCollection(q, fin) \/ waitForIdle(q, fin)) /\ Cleared(Range(Completed(q, fin)))

(* external: the commands of a finished submission index nothing any more.  *)
Finishes(q) ==
  /\ GpuFinish(q) /\ Unread({Head(gpuQueue[q]).buffer})
  /\ KeepHeap /\ UNCHANGED <<m_heapUses, m_referencedDescriptorHeaps>>
-----------------------------------------------------------------------------
(* collectRetired, called by free, Device::runGarbageCollection and
   Device::waitForIdle.                                                    *)

CollectSnapshot(s) ==                \* the queues of the submitted uses
  /\ sweep[s].at \in {"idle", "snapshot"}
  /\ sweep' = [sweep EXCEPT ![s] =
       [NotSweeping EXCEPT !.at = "poll",
                           !.polled = {u.queue : u \in {v \in Range(m_heapUses) : v.token # NoToken}}]]
  /\ UNCHANGED <<slotVars, m_heapUses, m_lastHeapUseID, m_referencedDescriptorHeaps, refs, queueVars>>

CollectPoll(s, q, fin) ==            \* one queue after the other, the heap unlocked
  LET got == sweep[s].completions IN
  /\ sweep[s].at = "poll" /\ q \in sweep[s].polled \ DOMAIN got
  /\ queueGetCompletedInstance(q, fin)
  /\ sweep' = [sweep EXCEPT ![s].completions =
                 [p \in DOMAIN got \cup {q} |-> IF p = q THEN fin ELSE got[p]]]
  /\ UNCHANGED <<slotVars, m_heapUses, m_lastHeapUseID, m_referencedDescriptorHeaps, refs>>

completeUnlessPending(use, completions) ==   \* mutant: a queue that was not polled counts as complete
  IF use.token = NoToken THEN use.commandBuffer = NoBuffer
  ELSE use.queue \notin DOMAIN completions \/ completions[use.queue] >= use.token

heapUseComplete(use, completions) ==
  IF use.token = NoToken THEN use.commandBuffer = NoBuffer
  ELSE use.queue \in DOMAIN completions /\ completions[use.queue] >= use.token

CollectRetire(s) ==
  LET done == {u \in Range(m_heapUses) : heapUseComplete(u, sweep[s].completions)}
      retirable == {x \in Range(m_retired) :
                      \A u \in Range(m_heapUses) : u.id <= x.lastRequiredHeapUseID => u \in done}
      retired == Only(m_retired, retirable)
  IN
  /\ sweep[s].at = "poll" /\ DOMAIN sweep[s].completions = sweep[s].polled
  /\ freeList' = freeList \o Only([i \in DOMAIN retired |-> retired[i].slot], AllSlots \ liveSlots)
  /\ m_retired' = Only(m_retired, Range(m_retired) \ retirable)
  /\ m_heapUses' = Only(m_heapUses, Range(m_heapUses) \ done)
  /\ sweep' = [sweep EXCEPT ![s] = NotSweeping]
  /\ UNCHANGED <<nextFresh, liveSlots, m_lastHeapUseID, m_referencedDescriptorHeaps, refs, queueVars>>
-----------------------------------------------------------------------------
HeapNext ==
  \/ allocate
  \/ \E r \in Recorders :
       \/ trackCommandBufferUse(r) \/ (\E slot \in AllSlots : UseSlot(r, slot))
       \/ Opens(r) \/ Submits(r) \/ (Executes(r) /\ UNCHANGED heapVars)
  \/ \E q \in Queues : Collects(q) \/ Finishes(q)
  \/ \E s \in Sweepers :
       \/ (\E slot \in AllSlots : free(s, slot)) \/ CollectSnapshot(s)
       \/ (\E q \in Queues, fin \in 0 .. SubmissionLimit : CollectPoll(s, q, fin)) \/ CollectRetire(s)

HeapSpec == HeapInit /\ [][HeapNext]_vars
-----------------------------------------------------------------------------
(* A slot on the free list is indexed by no command buffer that is being
   recorded or that the GPU has not finished: its descriptor may be
   overwritten.                                                            *)
DescriptorRetained ==
  \A b \in Held \cup Executing : refs[b] \cap Range(freeList) = {}

(* A slot ever handed out is live, retired or free: once, and in one of the
   three, whatever the order of free, allocate and concurrent collections. *)
SlotAccounting ==
  \A slot \in 0 .. nextFresh - 1 :
    (IF slot \in liveSlots THEN 1 ELSE 0)
      + Cardinality({i \in DOMAIN m_retired : m_retired[i].slot = slot})
      + Cardinality({i \in DOMAIN freeList : freeList[i] = slot}) = 1

(* Every heap use can complete: it has the token of an accepted submission,
   its recording was given up, or a list still holds the tracked buffer.  A
   use that could not would keep freed slots retired for ever.             *)
UsesResolvable ==
  \A u \in Range(m_heapUses) :
    \/ u.token # NoToken /\ u.token <= m_lastSubmittedID[u.queue]
    \/ u.token = NoToken /\ u.commandBuffer = NoBuffer
    \/ u.token = NoToken /\ u.commandBuffer \in Held /\ m_referencedDescriptorHeaps[u.commandBuffer]
=============================================================================
