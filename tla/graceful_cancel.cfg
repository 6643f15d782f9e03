SPECIFICATION LiveSpec
CONSTANTS
  Runner = {r1}
  Watcher = {web}
  Terminator = {}
  HammerTimer = TRUE
  Listener = web
  MaxConn = 0
CHECK_DEADLOCK FALSE
PROPERTIES
  CancelCalled
