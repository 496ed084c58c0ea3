SPECIFICATION FairSpec
CONSTANTS
  Trace = {r1, r2}
  Node = {n1, n2}
  Key = {k1}
  NoTrace = NoTrace
  NoNode = NoNode
  NoKey = NoKey
  EstimatedGP = 2
  Reach = {{n1}, {n1, n2}}
  StartGP = 3
  ContextEnds = TRUE
  MaxFaults = 1
  MaxOffers = 2
CHECK_DEADLOCK FALSE
INVARIANTS
  TypeOK
  AccountMatchesLedger
  NeverOverdrawn
  PaidOnlyIfCompleted
  SuccessIsTrue
  NotifyNeverDrops
  ReservationClosed
PROPERTY EveryRequestReturns
