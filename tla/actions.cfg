SPECIFICATION LiveSpec
CONSTANTS
  a = a
  b = b
  c = c
  d = d
  Job = {a, b}
  Needs <- Chain
  Task = {t1, t2}
  Server = {s1, s2}
  Worker = {s2}
  Result = {"success"}
  Interventions = 2
  None = None

CHECK_DEADLOCK FALSE
INVARIANTS
  RunAggregates
  BlockedIsOwed
PROPERTIES
  TasksBelong
  FinalIsFinal
  Released
