SPECIFICATION CreditSpec
CONSTANTS
  r1 = r1
  r2 = r2
  r3 = r3
  r4 = r4
  c1 = c1
  e1 = e1
  None = None
  Calls = {r1, r2, r3, r4}
  Customers = {c1}
  Events = {e1}
  CustomerOf <- OneCustomer
  EventOf <- TwoDeliveries
  ByEvent <- Deliveries
  Amount <- Amounts
CHECK_DEADLOCK FALSE
INVARIANT ReplayHasNoEffect
