SPECIFICATION Spec
CONSTANTS
  Trace = {t1, t2}
  Node = {n1, n2}
  Key = {k1}
  NoTrace = NoTrace
  NoNode = NoNode
  NoKey = NoKey
  LeaseTTL = 4
  DoneTTL = 2
  CacheTTL = 1
  WaitTimeout = 3
  ScanLimit = 2
  RedisFaults = FALSE
  MaxCrashes = 0

CHECK_DEADLOCK FALSE
INVARIANT
  SentinelNamesLiveTask
