CONSTANTS
  Job = {j1, j2}
  InternalJob = {j2}
  Slot = {w1}
  Worker = {w1}
  WorkerOf <- MCWorkerOf
  NoWorker = NoWorker
  NoJob = NoJob
  NoCall = NoCall
  Call = {c1, c2}
  MaxAttempts = 1
  QueueMaxlen = 1
  ReclaimedCount = 2
  MaxFaults <- MCRecoverable
SPECIFICATION FairSpec
CONSTRAINT AtMostOneFault
PROPERTIES
  JobSettles
  AcceptedIsNotified
CHECK_DEADLOCK FALSE
