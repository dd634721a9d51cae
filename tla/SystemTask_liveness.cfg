SPECIFICATION FairSpec
CONSTANTS
  poll = poll
  cleanup = cleanup
  r1 = r1
  r2 = r2
  r3 = r3
  Nobody = Nobody
  Types = {poll}
  Scheduled = {}
  Runners = {r1, r2}
  TTL = 1
  Interval = 1
  ClaimStalls = FALSE
  MaxTasks = 2
  MaxClock = 2
  MaxFaults = 1
PROPERTY EveryTaskEnds
INVARIANT RunningIsLeased
