SPECIFICATION FairSpec
CONSTANTS
  Producers = {"capture", "heartbeat"}
  QueueCap = 1
  MaxBackoff = 2
  NoSocket = NoSocket
  MaxSends = 2
  MaxSockets = 2
PROPERTY
  Reconnects
CHECK_DEADLOCK FALSE
