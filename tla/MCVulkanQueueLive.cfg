SPECIFICATION FairSpec
CONSTANTS
  q1 = q1  q2 = q2  r1 = r1  r2 = r2  r3 = r3
  Queues = {q1, q2}
  Recorders = {r1, r2}
  QueueOf <- TwoQueues
  WorkerOf <- TwoQueuesWorkers
  Buffers = {b1}
  NoBuffer = NoBuffer
  WaitTokens <- CrossTokens
  SubmissionLimit = 2
PROPERTY AcceptedCompletes
