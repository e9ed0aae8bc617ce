SPECIFICATION SagaSpec
CONSTANTS
  MaxMsgs = 1
  MaxFaults = 0
  Durable = {}
CHECK_DEADLOCK FALSE
INVARIANT HandledMeansReady
