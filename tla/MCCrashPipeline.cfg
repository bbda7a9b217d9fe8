SPECIFICATION Spec
CONSTANTS
  p1 = p1
  p2 = p2
  a = a
  b = b
  t1 = t1
  t2 = t2
  Absent = Absent
  Procs <- MCProcs
  Calls <- MCCalls
  Sites <- MCSites
  NameOrder <- MCNameOrder
  Limit <- MCLimit
  MaxFaults = 1
CHECK_DEADLOCK FALSE
INVARIANTS
  CrashTypeOK
  AckHonest
  NothingLost
  UploadedReceived
