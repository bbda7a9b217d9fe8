SPECIFICATION FairSpec
CONSTANTS
  w1 = w1
  w2 = w2
  c1 = c1
  NoThread = NoThread
  WorkerSets <- NoWorkersOrTwo
  Clients <- OneClient
  MaxTasks = 2
  MaxBatch = 2
  MaxLoops = 1
  Requests <- UnevenLoop
PROPERTIES
  EveryCallReturns
  EveryTaskRuns
