SPECIFICATION FairSpec
CONSTANTS
  Deposit = {d1}
  Task = {t1, t2}
  Reader = {g1}
  NoCall = NoCall
  NoAccount = NoAccount
  Reward = 3
  EstimatedGP = 2
  Connections = 2
  DbFaults = TRUE
CHECK_DEADLOCK FALSE
INVARIANTS TypeOK LastEntryShowsBalance
PROPERTIES AccountSpec TransactionsEnd
