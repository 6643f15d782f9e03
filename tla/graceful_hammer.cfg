SPECIFICATION LiveSpec
CONSTANTS
  Runner = {}
  Watcher = {web}
  Terminator = {}
  HammerTimer = TRUE
  Listener = web
  MaxConn = 1
CHECK_DEADLOCK FALSE
PROPERTIES
  HammeredServeReturns
