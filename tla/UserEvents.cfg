CONSTANTS
  n1 = n1
  n2 = n2
  b1 = b1
  k1 = k1
  k2 = k2
  JobNotification = {n1, n2}
  BillingNotification = {b1}
  Conn = {k1, k2}
  StreamMaxlen = 2
  ReadCount = 1
  MaxFaults = 1
  MaxRuns = 3
SPECIFICATION Spec
INVARIANTS
  OneConnection
PROPERTIES
  ImplementsDelivery
  OwedEventsArrive
CHECK_DEADLOCK FALSE
