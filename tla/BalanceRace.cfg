SPECIFICATION Spec
CONSTANTS
  Deposit = {d1, d2}
  Task = {t1}
  Reader = {g1}
  NoCall = NoCall
  NoAccount = NoAccount
  Reward = 3
  EstimatedGP = 2
  Connections = 2
  DbFaults = FALSE
CHECK_DEADLOCK FALSE
INVARIANT LedgerAddsUp
