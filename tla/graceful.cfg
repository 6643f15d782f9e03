SPECIFICATION LiveSpec
CONSTANTS
  Runner = {r1}
  Watcher = {web}
  Terminator = {t1, t2}
  HammerTimer = TRUE
  Listener = web
  MaxConn = 1
CHECK_DEADLOCK FALSE
INVARIANTS
  OnlyLateServersOutlive
  DoneAfterTerminators
  ConnectionsServed
PROPERTIES
  ImplementsLifecycle
  ShutdownCompletes
