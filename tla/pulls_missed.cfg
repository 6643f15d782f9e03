SPECIFICATION Spec
CONSTANTS
  c1 = c1
  c2 = c2
  Commit = {c1, c2}
  Conflicts <- SomeConflicts
  Server = {s1, w1}
  Worker = {w1}
  Config <- TwoConfigs
  Interventions = 4
  Faults = 0
  None = None
CHECK_DEADLOCK FALSE
INVARIANT ScheduledMerges
