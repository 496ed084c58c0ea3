SPECIFICATION Spec
CONSTANTS
  Trace = {r1, r2}
  Node = {n1, n2}
  Key = {k1}
  NoTrace = NoTrace
  NoNode = NoNode
  NoKey = NoKey
  EstimatedGP = 2
  Reach = {{n1}, {n1, n2}}
  StartGP = 5
  ContextEnds = TRUE
  MaxFaults = 0
  MaxOffers = 2

CHECK_DEADLOCK FALSE
INVARIANTS
  FrozenOnlyInFlight
