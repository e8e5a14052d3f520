SPECIFICATION Spec
CONSTANTS
  BaseThread = main
  Starters = {main, t1}
  ThreadNums = {2}
  MaxThreads = 2
  MaxConns = 3
  MaxFds = 2
  Shared = {1}
INVARIANTS
  TypeOK PoolBeforeListen TakenApartOnce
  ServerOutlivesCallbacks
PROPERTIES
  BacklogServed DestructorEnds ImplementsLife
CHECK_DEADLOCK FALSE
