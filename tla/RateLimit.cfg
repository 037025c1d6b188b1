CONSTANTS
  fast = fast
  slow = slow
  c1 = c1
  c2 = c2
  login = login
  stream = stream
  ip = ip
  ip_username = ip_username
  user_id = user_id
  x = x
  y = y
  Process = {fast, slow}
  Skew = 1
  Offset <- MCOffset
  Client = {c1, c2}
  Policy = {login, stream}
  Rule = {ip, ip_username, user_id}
  RulesOf <- MCRulesOf
  FailClosed = {login}
  TokenBucket = {user_id}
  SlidingWindow = {ip, ip_username}
  capacity <- MCCapacity
  refill_tokens <- MCRefillTokens
  refill_period_seconds <- MCRefillPeriod
  max_requests <- MCMaxRequests
  window_seconds <- MCWindowSeconds
  Subject = {x, y}
  NoSubject = NoSubject
  SubjectOf <- MCSubjectOf
  NoRequest = NoRequest
  NoRule = NoRule
  Second = 2
  Scale = 2
  Buffer = 1
  MaxTime = 7
  MaxRequests = 3
  MaxFailures = 1
SPECIFICATION Spec
INVARIANTS
  WindowHolds
  BucketHolds
  RetryAfterIsEnough
  PassedIsCharged
ACTION_CONSTRAINT OnePolicy
CHECK_DEADLOCK FALSE
