SPECIFICATION Spec
CONSTANTS
  r1 = r1
  r2 = r2
  c1 = c1
  c2 = c2
  a = a
  b = b
  NoChan = NoChan
  Req = {r1}
  Chan = {c1, c2}
  AutoGroups <- MCGroups
  ChannelsOf <- MCBothHaveTwo
  Priority <- MCPriority
  MaxConcurrent = 1
  RetryTimes = 3
  RateLimitRetryTimes = 2
INVARIANT ExhaustedGroupIsLeft
CHECK_DEADLOCK FALSE
