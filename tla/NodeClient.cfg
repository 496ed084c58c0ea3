CONSTANTS
  Conn = {c1, c2, c3}
  NoConn = NoConn
  Click = {k1}
  Main = Main
  Msg = {m1}
  SendBuffer = 1
  MaxEvents = 2
SPECIFICATION FairSpec
CHECK_DEADLOCK FALSE
INVARIANTS OneLoop RegistryMatches NeverIdle
PROPERTIES BackOnlineAlone ClosesAtLast AcceptedIsDelivered
