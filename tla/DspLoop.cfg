SPECIFICATION Spec
CONSTANTS
  Phones = {0, 1}
  Startup <- TwoPhones
  Subscribers = {"radar"}
  FrameLen = 2
  HeartbeatLen = 1
  WindowFrames = 1
  QueueCap = 3
  BufferCap = 3
  MaxPop = 2
  SubscriberCap = 2
  NoMaster = NoMaster
  MaxFrames = 3
  MaxHeartbeats = 1
  MaxSteps = 3
  MaxChanges = 2
INVARIANTS
  TypeOK
  BufferIsRun
  DroppedIsSilent
  WindowsPaidFor
  WindowsAdvance
  SubscriberInOrder
CHECK_DEADLOCK FALSE
