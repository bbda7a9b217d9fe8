---------------------------- MODULE MCVulkanQueue ----------------------------
(* MCVulkanQueue.cfg: two direct recorders share a queue's pool and a worker
   lease records for the same queue.  MCVulkanQueueLive.cfg: a direct
   recorder and a worker lease on two queues that wait for each other.     *)
EXTENDS VulkanQueue, TLC

CONSTANTS q1, q2, r1, r2, r3

OneQueue == r1 :> q1 @@ r2 :> q1 @@ r3 :> q1
OneQueueWorkers == r1 :> 0 @@ r2 :> 0 @@ r3 :> 1
BufferSymmetry == Permutations(Buffers)

TwoQueues == r1 :> q1 @@ r2 :> q2
TwoQueuesWorkers == r1 :> 0 @@ r2 :> 1
CrossTokens == {[queue |-> q1, value |-> 2], [queue |-> q2, value |-> 1]}
=============================================================================
