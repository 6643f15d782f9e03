SPECIFICATION LiveSpec
CONSTANTS
  u1 = u1
  c1 = c1
  c2 = c2
  s1 = s1
  Uid = {u1}
  Client = {c1, c2}
  Session = {}
  Poster = {}
  UidOf <- Owner
  SessionOf <- NoSession
  None = None
CHECK_DEADLOCK FALSE
PROPERTIES
  LeaverCloses
