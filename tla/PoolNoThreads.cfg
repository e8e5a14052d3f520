SPECIFICATION SafeSpec
CONSTANTS
  BaseThread = main
  Starters = {main}
  ThreadNums = {0}
  MaxThreads = 0
  MaxConns = 1
  MaxFds = 1
  Shared = {}
INVARIANTS
  BaseLoopServes
CHECK_DEADLOCK FALSE
