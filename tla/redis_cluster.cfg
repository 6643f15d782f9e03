SPECIFICATION Spec
CONSTANTS
  Node = {n1, n2}
  Item = {a, b}
  Length = 1
  MaxPush = 2
  MaxRemove = 1
  MaxEnd = 1
  FlakyRedis = TRUE
SYMMETRY Symmetric
CHECK_DEADLOCK FALSE
INVARIANTS
  StaleNeedsInterruption
  OwedIsKept
