SPECIFICATION DrillSpec
CONSTANTS
  Phones = {0, 1}
  Mortal = {1}
  QueueCap = 3
  MaxPop = 2
  Window = 2
  BufferCap = 4
  MaxKills = 2
INVARIANT
  TypeOK
PROPERTY
  KeepsGoing
CHECK_DEADLOCK FALSE
