SPECIFICATION Spec
CONSTANTS
  Nodes = {a, b}
  Replicas = 2
  MaxHash = 2
  MaxAdds = 3
INVARIANTS
  IInv LookupIsSuccessor
PROPERTIES
  OnlyNewNodeGains
CHECK_DEADLOCK FALSE
