CONSTANTS
  Job = {j1}
  InternalJob = {}
  Slot = {w1, w2}
  Worker = {w1, w2}
  WorkerOf <- MCWorkerOf
  NoWorker = NoWorker
  NoJob = NoJob
  NoCall = NoCall
  Call = {c1, c2}
  MaxAttempts = 1
  QueueMaxlen = 2
  ReclaimedCount = 2
  MaxFaults <- MCHandler
SPECIFICATION FairSpec
PROPERTY AcceptedIsNotified
CHECK_DEADLOCK FALSE
