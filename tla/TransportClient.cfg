SPECIFICATION FairSpec
CONSTANTS
  Producers = {"capture", "heartbeat"}
  QueueCap = 2
  MaxBackoff = 2
  NoSocket = NoSocket
  MaxSends = 3
  MaxSockets = 2
INVARIANTS
  TypeOK
  SendOrderKept
  DropsCounted
  SingleLiveSocket
PROPERTY
  Drains
CHECK_DEADLOCK FALSE
