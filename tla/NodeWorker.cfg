SPECIFICATION FairSpec
CONSTANTS
  Task = {t1, f1}
  FreeTier = {f1}
  Worker = {w1, w2}
  Poller = {p1}
  NoTask = NoTask
  TaskQueueSize = 1
  MaxGPCost = 3
  GPReserve = 1
  EstimatedGP = 1
  Price = 2
  StartGP = 4
  MaxUpsets = 2
CHECK_DEADLOCK FALSE
INVARIANTS TypeOK BudgetIsHonest ChargesWithinLimit
PROPERTIES NoOverspendAlone RoleSpec QueuedIsWorkedOff StopEnds
