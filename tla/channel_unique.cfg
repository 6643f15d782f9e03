SPECIFICATION ChannelSpec
CONSTANTS
  Item = {a, b}
  Pusher = {p1, p2, p3}
  Length = 2
SYMMETRY Symmetric
CHECK_DEADLOCK FALSE
INVARIANTS
  StaleNeedsRace
