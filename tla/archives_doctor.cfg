SPECIFICATION Spec
CONSTANTS
  Archive = {a1}
  Worker = {w1}
  Request = {q1}
  Cleanups = 0
  Disturbances = 0
  None = None
CHECK_DEADLOCK FALSE
INVARIANTS
  AvatarKept
