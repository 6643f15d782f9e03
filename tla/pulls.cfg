SPECIFICATION LiveSpec
CONSTANTS
  c1 = c1
  c2 = c2
  Commit = {c1, c2}
  Conflicts <- SomeConflicts
  Server = {s1, w1}
  Worker = {w1}
  Config <- TwoConfigs
  Interventions = 3
  Faults = 1
  None = None
CHECK_DEADLOCK FALSE
INVARIANTS
  StatusIsFresh
  LandedIsRecorded
PROPERTIES
  LandsChecked
  MergedIsFinal
  CheckingEnds
