SPECIFICATION HeapSpec
CONSTANTS
  q1 = q1  r1 = r1
  Queues = {q1}
  Recorders = {r1}
  QueueOf <- MCQueueOf
  WorkerOf <- MCWorkerOf
  Buffers = {b1, b2}
  NoBuffer = NoBuffer
  WaitTokens = {}
  SubmissionLimit = 2
  Sweepers = {s1, s2}
  capacity = 1
  MaxHeapUses = 2
SYMMETRY Symmetry
INVARIANTS DescriptorRetained SlotAccounting UsesResolvable
