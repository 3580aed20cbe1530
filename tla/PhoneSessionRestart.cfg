SPECIFICATION SessionSpec
CONSTANTS
  Sockets = {"s1"}
  Phones = {"p1"}
  PhonesOf <- SamePhone
  QueueCap = 2
  RateMax = 100
  RateWindow = 1
  MaxSeq = 2
  MaxPackets = 100
  MaxTime = 0
  NoConn = NoConn
  Kinds = {"audio"}
  Outbox = Outbox
  Coroutines = {"c1"}
  MaxStarts = 2
  MaxLaunches = 2
  MaxNumber = 2
INVARIANT
  RestartIsHeard
CHECK_DEADLOCK FALSE
