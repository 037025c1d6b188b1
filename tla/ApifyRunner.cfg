CONSTANTS
  j1 = j1
  r1 = r1
  u1 = u1
  u2 = u2
  s1 = s1
  s2 = s2
  w1 = w1
  Job = {j1, r1}
  InternalJob = {r1}
  Slot = {s1, s2}
  Worker = {w1}
  WorkerOf <- MCWorkerOf
  NoWorker = NoWorker
  NoJob = NoJob
  NoCall = NoCall
  Call = {}
  MaxAttempts = 2
  QueueMaxlen = 2
  ReclaimedCount = 1
  MaxFaults <- MCFaults
  Username = {u1, u2}
  BatchSize = 2
  Discovery <- MCDiscovery
SPECIFICATION Spec
INVARIANTS
  PermitInv
  OneTaskPerJob
  ScrapedOnce
  KeyMeansQueued
SYMMETRY Interchangeable
ACTION_CONSTRAINT OneFault
CHECK_DEADLOCK FALSE
