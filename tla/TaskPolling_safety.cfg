\* Tasks of every sort, overlapping passes, a user's queries, one fault.
SPECIFICATION FairSpec
CONSTANTS
  Poller = {p1, p2}
  Fetcher = {f1}
  Tasks <- AllTasks
  Quota = 2
  Actuals = {0, 1, 3}
  MaxFaults = 1
CHECK_DEADLOCK FALSE
INVARIANT NeverOverRefunded
INVARIANT BilledAsEnded
PROPERTY FinalIsFinal
PROPERTY EveryTaskEnds
