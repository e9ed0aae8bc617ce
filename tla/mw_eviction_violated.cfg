SPECIFICATION Spec
CONSTANTS
  w1 = w1
  w2 = w2
  p1 = p1
  p2 = p2
  None = None
  Workers = {w1, w2}
  Pids = {p1}
  PidOf <- ReusedPid
  SockCap = 2
  EventCap = 1
  Stuck = {}
PROPERTIES
  EvictsOnlyTheGone
CHECK_DEADLOCK FALSE
