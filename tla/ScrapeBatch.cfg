CONSTANTS
  browser = browser
  apify = apify
  x = x
  y = y
  Batch = {browser, apify}
  Username = {x, y}
  Account = {a1, a2}
  NoAccount = NoAccount
  Request <- MCRequest
  ApifyBatch = {apify}
  MaxConcurrent = 2
  Credential = {c1}
  MaxLoginAttempts = 3
  MaxRenames = 1
  MaxFaults = 1
SPECIFICATION Spec
CONSTRAINT Bounded
SYMMETRY Symmetry
INVARIANTS
  CounterInv
  NeverStuck
PROPERTIES
  ReportedIsStored
  AloneNeverFails
CHECK_DEADLOCK FALSE
