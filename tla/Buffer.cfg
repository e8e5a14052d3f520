SPECIFICATION Spec
CONSTANTS
  Byte = {zero, a}
  Zero = zero
  kCheapPrepend = 1
  kInitialSize = 2
  ExtraSize = 2
  MaxReadable = 4
  MaxChunk = 3
INVARIANTS
  TypeOK
PROPERTIES
  GrowsOnlyWhenFull
  ImplementsQueue
