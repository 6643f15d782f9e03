SPECIFICATION Spec
CONSTANTS
  Item = {a, b, c, d}
  Worker = {w1}
  BaseLength = 1
  BatchLength = 1
  WorkerLimit = 1
  MaxFailures = 1
  MaxFlush = 0
PROPERTIES
  UnhandledReturned
