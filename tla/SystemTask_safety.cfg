SPECIFICATION Spec
CONSTANTS
  poll = poll
  cleanup = cleanup
  r1 = r1
  r2 = r2
  r3 = r3
  Nobody = Nobody
  Types = {poll}
  Scheduled = {poll}
  Runners = {r1, r2}
  TTL = 1
  Interval = 1
  ClaimStalls = TRUE
  MaxTasks = 2
  MaxClock = 4
  MaxFaults = 1
SYMMETRY RunnerSymmetry
INVARIANT OneActivePerType
INVARIANT OneExecutor
PROPERTY NoTaskRunsTwice
PROPERTY LeaseIsRespected
PROPERTY ImplementsJobQueue
