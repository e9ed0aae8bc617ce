SPECIFICATION FairSpec
CONSTANTS
  HookNames = {"before", "after", "stop"}
  Keys <- MCKeys
  Rank <- MCRank
  Drivers = {"master", "echo", "worker", "otel", "nats"}
  MaxCloseAll = 2
  Commands = {"master", "worker", "http", "message-broker", "all"}
  Requests = {r1}
CHECK_DEADLOCK FALSE
INVARIANTS
  OneManager
  ClosedInOrder
  StopHooksRun
  Configured
PROPERTY
  StopEnds
