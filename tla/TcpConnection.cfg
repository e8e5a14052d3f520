SPECIFICATION Spec
CONSTANTS
  LoopThread = LoopThread
  Sharers = {}
  MaxSends = 3
  Length = 3
  HighWaterMark = 4
  WriteCompleteSet = TRUE
  UsesSendFile = FALSE
  StringsChange = FALSE
  KeepsPointer = FALSE
  ServerStops = FALSE
  PeerResets = TRUE
INVARIANTS
  StreamInOrder PendingIsWatched FinAfterOutput PromiseKept
PROPERTIES
  PeerEndFrees ShutdownSendsFin
CHECK_DEADLOCK FALSE
