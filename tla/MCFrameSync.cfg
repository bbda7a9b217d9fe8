SPECIFICATION Spec
CONSTANTS
  N <- MCN
  M <- MCM
  MaxFaults = 1
INVARIANTS
  FrameTypeOK
  SemaphoreDiscipline
  ImageExclusive
  FenceReusable
PROPERTY
  FrameProgress
CHECK_DEADLOCK FALSE
