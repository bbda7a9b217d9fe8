SPECIFICATION Spec
CONSTANTS
  w1 = w1
  w2 = w2
  c1 = c1
  WorkerSets <- NoWorkersOrTwo
  Clients <- OneClient
  Waiters = {}
  MaxJobs = 4
  MaxDeps = 2
  GenerationLimit = 3
  s_WorkFirstDepthLimit = 1
SYMMETRY WorkerSymmetry
INVARIANTS
  TypeOK
  RemainingExact
  OneCarrier
  FreeListExact
  CompleteMeansEnded
PROPERTIES
  ImplementsJobGraph
CHECK_DEADLOCK FALSE
