SPECIFICATION Spec
CONSTANTS
  p1 = p1
  p2 = p2
  p3 = p3
  h1 = h1
  h2 = h2
  None = None
  Proc <- MCProc
  Host <- MCHost
  HostOf <- MCHostOf
  ForcePolicy = "alone"
CHECK_DEADLOCK FALSE
INVARIANTS
  TypeOK
  MutualExclusion
PROPERTIES
  OnlyOwnerFreesLiveLock
  StaleLockNeedsForce
  ExclusiveSpec
