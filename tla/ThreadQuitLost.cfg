SPECIFICATION Spec
CONSTANTS
  LoopThread = LoopThread
  Main = Main
  WakeupChannel = WakeupChannel
  IoChannels = {io}
  MaxCalls = 1
  EventfdMax = 2
  OwnerQueuesEarly = TRUE
PROPERTIES
  JoinReturns
CHECK_DEADLOCK FALSE
