SPECIFICATION Spec
CONSTANTS
  w1 = w1
  w2 = w2
  c1 = c1
  NoThread = NoThread
  WorkerSets <- NoWorkersOrTwo
  Clients <- OneClient
  MaxTasks = 2
  MaxBatch = 2
  MaxLoops = 2
  Requests <- UnevenLoop
SYMMETRY WorkerSymmetry
INVARIANTS
  TypeOK
  DescriptorOutlivesUse
  EachIndexOnce
  PendingExact
  ChunkNeverDispatches
  DestructionDrains
PROPERTIES
  WaitSeesAllDone
