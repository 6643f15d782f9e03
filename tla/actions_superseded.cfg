SPECIFICATION Spec
CONSTANTS
  a = a
  b = b
  c = c
  d = d
  Job = {a, b}
  Needs <- Chain
  Task = {t1}
  Server = {s1, s2}
  Worker = {}
  Result = {"success"}
  Interventions = 1
  None = None
CHECK_DEADLOCK FALSE
INVARIANT RunFollowsJobs
