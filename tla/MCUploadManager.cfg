SPECIFICATION UploadSpec
CONSTANTS
  q1 = q1  r1 = r1  r2 = r2
  Queues = {q1}
  Recorders = {r1, r2}
  QueueOf <- OneQueue
  WorkerOf <- DirectAndWorker
  Buffers = {b1, b2}
  NoBuffer = NoBuffer
  WaitTokens = {}
  SubmissionLimit = 2
  Chunks = {c1, c2}
  ChunkSize = 2
SYMMETRY Symmetry
INVARIANTS StagedDataKept NoChunkStranded
