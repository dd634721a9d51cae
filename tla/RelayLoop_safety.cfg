SPECIFICATION MCFairSpec
CONSTANTS
  r1 = r1
  r2 = r2
  c1 = c1
  c2 = c2
  a = a
  b = b
  NoChan = NoChan
  Req = {r1, r2}
  Chan = {c1, c2}
  AutoGroups <- MCGroups
  ChannelsOf <- MCChannelsOf
  Priority <- MCPriority
  MaxConcurrent = 1
  RetryTimes = 1
  RateLimitRetryTimes = 1
INVARIANTS
  SlotsAreBalanced
  SessionsAreClosed
  AttemptsBounded
PROPERTIES
  NeverBackwards
  EveryRequestEnds
CHECK_DEADLOCK FALSE
