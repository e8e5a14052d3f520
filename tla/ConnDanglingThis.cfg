SPECIFICATION SafeSpec
CONSTANTS
  LoopThread = LoopThread
  Sharers = {user}
  MaxSends = 1
  Length = 2
  HighWaterMark = 0
  WriteCompleteSet = FALSE
  UsesSendFile = FALSE
  StringsChange = FALSE
  KeepsPointer = FALSE
  ServerStops = FALSE
  PeerResets = FALSE
INVARIANTS
  NoDanglingFunctor
CHECK_DEADLOCK FALSE
