SPECIFICATION Spec
CONSTANTS
  Channels = {c1, c2}
  Fds = {f1, f2}
  None = none
  InitListSize = 1
  MaxDropped = 1
INVARIANTS
  IInv PointersLive
PROPERTIES
  ReadyServed
CHECK_DEADLOCK FALSE
