SPECIFICATION Spec
CONSTANTS
  Trace = {t1, t2}
  Node = {n1, n2}
  Key = {k1}
  NoTrace = NoTrace
  NoNode = NoNode
  NoKey = NoKey
  LeaseTTL = 4
  DoneTTL = 1
  CacheTTL = 1
  WaitTimeout = 11
  ScanLimit = 1
  RedisFaults = TRUE
  MaxCrashes = 0
SYMMETRY Symmetry
CHECK_DEADLOCK FALSE
INVARIANTS
  TypeOK
  SentinelCovered
  CollapseTargetUnfinished
  LiveTaskQueued
  FinishedTaskLeavesQueue
  OneWorkerPerEnqueue
  CachedTaskStaysCompleted
  NoGhostTask
PROPERTIES
  ReclaimTakesLowLease
  LifecycleSpec
