SPECIFICATION Spec
CONSTANTS
  Sockets = {"s1", "s2", "s3"}
  Phones = {"p1", "p2"}
  PhonesOf <- FixedIdentity
  QueueCap = 2
  RateMax = 2
  RateWindow = 1
  MaxSeq = 3
  MaxPackets = 4
  MaxTime = 2
  NoConn = NoConn
INVARIANTS
  TypeOK
  QueueInOrder
  GapsAccounted
  EveryPacketCounted
  RateBounded
  GaugeMatches
  SingleOwner
PROPERTY
  ImplementsStream
CHECK_DEADLOCK FALSE
