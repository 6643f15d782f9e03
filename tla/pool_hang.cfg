SPECIFICATION LiveSpec
CONSTANTS
  Item = {a}
  Worker = {w1}
  BaseLength = 1
  BatchLength = 1
  WorkerLimit = 1
  MaxFailures = 1
  MaxFlush = 1
PROPERTIES
  ShutdownInTime
