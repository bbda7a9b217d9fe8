SPECIFICATION Spec
CONSTANTS
  q1 = q1  q2 = q2  r1 = r1  r2 = r2  r3 = r3
  Queues = {q1}
  Recorders = {r1, r2, r3}
  QueueOf <- OneQueue
  WorkerOf <- OneQueueWorkers
  Buffers = {b1, b2, b3}
  NoBuffer = NoBuffer
  WaitTokens = {}
  SubmissionLimit = 3
SYMMETRY BufferSymmetry
INVARIANTS TypeOK ExecutingRetained OneHolder TimelineExact
