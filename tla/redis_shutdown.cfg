SPECIFICATION Spec
CONSTANTS
  Node = {n1}
  Item = {a, b}
  Length = 2
  MaxPush = 3
  MaxRemove = 0
  MaxEnd = 1
  FlakyRedis = FALSE
CHECK_DEADLOCK FALSE
PROPERTIES
  PushedBack
