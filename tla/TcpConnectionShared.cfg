SPECIFICATION SafeSpec
CONSTANTS
  LoopThread = LoopThread
  Sharers = {user}
  MaxSends = 1
  Length = 2
  HighWaterMark = 2
  WriteCompleteSet = FALSE
  UsesSendFile = TRUE
  StringsChange = TRUE
  KeepsPointer = FALSE
  ServerStops = TRUE
  PeerResets = TRUE
INVARIANTS
  StreamInOrder FinAfterOutput NothingLost DownReportedOnce FreedWhenRemoved
CHECK_DEADLOCK FALSE
