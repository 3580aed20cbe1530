SPECIFICATION HSpec
CONSTANTS
  Sockets = {"s1", "s2"}
  Phones = {"p1", "p2"}
  PhonesOf <- FixedIdentity
  QueueCap = 2
  RateMax = 4
  RateWindow = 1
  MaxSeq = 3
  MaxPackets = 4
  MaxTime = 0
  NoConn = NoConn
INVARIANT
  StarvationIsVisible
CHECK_DEADLOCK FALSE
