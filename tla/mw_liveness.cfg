SPECIFICATION LiveSpec
CONSTANTS
  w1 = w1
  w2 = w2
  p1 = p1
  p2 = p2
  None = None
  Workers = {w1, w2}
  Pids = {p1, p2}
  PidOf <- OwnPids
  SockCap = 2
  EventCap = 1
  Stuck = {w2}
PROPERTIES
  MasterTerminates
  OrphansEnd
  StoppedWorkerEnds
  GoneIsEvicted
  AdmittedUnlessLoopDead
CHECK_DEADLOCK FALSE
