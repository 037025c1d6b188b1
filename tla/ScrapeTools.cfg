CONSTANTS
  u1 = u1
  u2 = u2
  Username = {u1, u2}
  Input <- MCInput
  Recommends <- MCRecommends
  Operator = {o1, o2}
  BatchSize = 1
  Limits <- MCLimits
  MaxExports = 1
  MaxFaults = 2
SPECIFICATION FairToolsSpec
INVARIANT ProgressIsTrue
PROPERTIES
  FinalStaysFinal
  EveryoneDecided
CONSTRAINT OverlapOnce
CHECK_DEADLOCK FALSE
