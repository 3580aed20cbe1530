SPECIFICATION SessionSpec
CONSTANTS
  Sockets = {s1, s2}
  Phones = {"p1"}
  PhonesOf <- SamePhone
  QueueCap = 2
  RateMax = 3
  RateWindow = 1
  MaxSeq = 2
  MaxPackets = 4
  MaxTime = 0
  NoConn = NoConn
  Kinds = {"audio", "heartbeat"}
  Outbox = Outbox
  Coroutines = {c1, c2}
  MaxStarts = 2
  MaxLaunches = 2
  MaxNumber = 2
SYMMETRY Symmetry
INVARIANTS
  SessionTypeOK
  OwnStreamHeard
  NumbersUnique
CHECK_DEADLOCK FALSE
