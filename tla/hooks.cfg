SPECIFICATION LiveSpec
CONSTANTS
  h1 = h1
  w1 = w1
  w2 = w2
  MaxTask = 1
  Hook = {h1}
  Edited = {h1}
  Processes = 2
  Worker = {w1, w2}
  Home <- TwoProcesses
  Requester = {r1}
  BatchSize = 1
  NumberToKeep = 0
  Persistence = {TRUE, FALSE}
  Disturbances = 2
  None = None
CHECK_DEADLOCK FALSE
PROPERTIES
  EventuallyDelivered
INVARIANTS
  SentAtMostOnce
  UndeliveredIsOwed
  DeliveredHasOutcome
