SPECIFICATION Spec
CONSTANTS
  Phones = {0, 1}
  Startup <- TwoPhones
  Subscribers = {}
  FrameLen = 2
  HeartbeatLen = 1
  WindowFrames = 1
  QueueCap = 3
  BufferCap = 4
  MaxPop = 2
  SubscriberCap = 1
  NoMaster = NoMaster
  MaxFrames = 3
  MaxHeartbeats = 0
  MaxSteps = 3
  MaxChanges = 0
INVARIANT
  WindowsDisjoint
CHECK_DEADLOCK FALSE
