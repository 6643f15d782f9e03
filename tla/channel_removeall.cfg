SPECIFICATION LiveSpec
CONSTANTS
  Item = {a, b}
  Pusher = {p1}
  Length = 2
CHECK_DEADLOCK FALSE
PROPERTIES
  PushReturns
