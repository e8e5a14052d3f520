SPECIFICATION Spec
CONSTANTS
  LoopThread = owner
  Others = {t1, t2}
  WakeupChannel = wakeup
  IoChannels = {c1}
  MaxCalls = 2
  EventfdMax = 2
  OwnerQueuesEarly = FALSE
INVARIANTS
  NoLostWakeup QuitWakesPoll IInv OnceInv
PROPERTIES
  ImplementsQueue QuitStopsLoop
CHECK_DEADLOCK FALSE
