SPECIFICATION Spec
CONSTANTS
  a = a
  b = b
  c = c
  d = d
  Job = {a, b, c, d}
  Needs <- Deep
  Task = {t1, t2, t3}
  Server = {s1, s2}
  Worker = {s1, s2}
  Result = {"failure"}
  Interventions = 1
  None = None
CHECK_DEADLOCK FALSE
SYMMETRY Symmetric
INVARIANT DeepIsOwed
