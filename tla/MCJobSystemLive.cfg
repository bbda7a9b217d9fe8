SPECIFICATION FairSpec
CONSTANTS
  w1 = w1
  w2 = w2
  c1 = c1
  WorkerSets <- TwoWorkers
  Clients <- OneClient
  Waiters <- OneClient
  MaxJobs = 3
  MaxDeps = 1
  GenerationLimit = 3
  s_WorkFirstDepthLimit = 1
PROPERTIES
  WaitSeesEnd
  EveryJobEnds
  EveryWaitReturns
