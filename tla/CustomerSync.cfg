CONSTANTS
  p1 = p1
  p2 = p2
  ann = ann
  Ann = Ann
  bob = bob
  NoEmail = NoEmail
  Process = {p1, p2}
  Email = {ann, Ann, bob}
  Normalized <- MCNormalized
  MaxChanges = 2
  MaxFaults = 1
SPECIFICATION Spec
INVARIANTS
  EmailArrives
  AttemptInv
PROPERTIES
  TasksSettle
CHECK_DEADLOCK FALSE
