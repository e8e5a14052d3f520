SPECIFICATION Spec
CONSTANTS
  LoopThread = LoopThread
  Main = Main
  WakeupChannel = WakeupChannel
  IoChannels = {io}
  MaxCalls = 2
  EventfdMax = 2
  OwnerQueuesEarly = TRUE
INVARIANTS
  IInv NoLoopLeftBehind StartedLoopServes PublishedLoopAlive
PROPERTIES
  StartCompletes NoticedJoinReturns
CHECK_DEADLOCK FALSE
