SPECIFICATION LiveSpec
CONSTANTS
  u1 = u1
  c1 = c1
  c2 = c2
  s1 = s1
  Uid = {u1}
  Client = {c1, c2}
  Session = {s1}
  Poster = {p1}
  UidOf <- Owner
  SessionOf <- FirstOfSession
  None = None
CHECK_DEADLOCK FALSE
INVARIANTS
  ChannelsOpen
  NoLostWakeup
  UnheardNeedsRace
PROPERTIES
  FreedButForSignOut
  ShutdownClears
