SPECIFICATION Spec
CONSTANTS
  Drivers = {d1, d2}
  MaxCloseAll = 2
  Loggers = {g1, g2}
  BatchSize = 2
  MaxRecords = 5
  Groups = {"g", "h"}
  Attrs = {"a", "b"}
  AttrLists <- MCAttrLists
  MaxCalls = 4
  Aliases = {"default", "gorm"}
  MaxDatabases = 3
  Clients = {k1, k2}
  Operators = {o1, o2}
  EventBuffer = 1
  MaxLines = 2
  Messages = {m1, m2}
  MaxDeliver = 3
  MaxRestarts = 1
  MaxRows = 4
  SizeLimit = 3
  SizeDefault = 2
  Sizes <- MCSizes
  r1 = r1
  r2 = r2
  r3 = r3
  r4 = r4
  c1 = c1
  e1 = e1
  None = None
  Calls = {r1, r2, r3, r4}
  Customers = {c1}
  Events = {e1}
  CustomerOf <- OneCustomer
  EventOf <- TwoDeliveries
  ByEvent <- Deliveries
  Amount <- Amounts
CHECK_DEADLOCK FALSE
INVARIANTS
  ClosedOnceIfStarted
  EachRecordOnce
  DataAsCollected
  AliasResolves
  LeakNeedsSharing
  ErrorBodies
  OnlyLoggerAborts
  LinesInOrder
  DeliveryGuarantee
  EachProviderShutOnce
  WalkIsComplete
  AtMostOneSuccess
  NoPointsFromNowhere
  BalanceIsSum
  CreditedOnceUnlessFault
PROPERTY
  ImplementsLedger
