CONSTANTS
  s1 = s1
  h1 = h1
  h2 = h2
  Subscription = {s1}
  Handler = {h1, h2}
  NoHandler = NoHandler
  NoSubscription = NoSubscription
  a1 = a1
  a2 = a2
  Admin = {a1, a2}
  MaxRequests = 2
  MaxLost = 1
  OneByOne = FALSE
  MaxEvents = 3
  MaxPeriod = 2
  MaxAborts = 1
  MaxFetchFails = 1
SPECIFICATION MCSpec
INVARIANTS
  AccessInv
  RowFollowsStripe
  NoticesAreTrue
  ProfileHolds
  HandoverAgrees
PROPERTY RefundSticks
SYMMETRY Symmetry
ACTION_CONSTRAINT Bounded
CHECK_DEADLOCK FALSE
