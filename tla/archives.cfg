SPECIFICATION LiveSpec
CONSTANTS
  Archive = {a1}
  Worker = {w1, w2}
  Request = {q1, q2}
  Cleanups = 2
  Disturbances = 1
  None = None
CHECK_DEADLOCK FALSE
INVARIANTS
  BrokenNeedsCleaner
  LeftoverNeedsInterruption
PROPERTIES
  AwaitEnds
