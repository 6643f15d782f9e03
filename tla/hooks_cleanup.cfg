SPECIFICATION Spec
CONSTANTS
  h1 = h1
  w1 = w1
  w2 = w2
  MaxTask = 1
  Hook = {h1}
  Edited = {}
  Processes = 1
  Worker = {w1, w2}
  Home <- OneProcess
  Requester = {r1}
  BatchSize = 1
  NumberToKeep = 1
  Persistence = {FALSE}
  Disturbances = 1
  None = None
CHECK_DEADLOCK FALSE
INVARIANTS
  FlightsKept
