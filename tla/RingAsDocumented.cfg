SPECIFICATION Spec
CONSTANTS
  Nodes = {a, b}
  Replicas = 1
  MaxHash = 2
  MaxAdds = 2
INVARIANTS
  LookupAsDocumented
CHECK_DEADLOCK FALSE
