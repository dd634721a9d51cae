\* A window of three buckets; every kind of request, silent ends and removal; fair.
SPECIFICATION FairSpec
CONSTANTS
  Req = {r1, r2, r3}
  WindowSeconds = 6
  BucketSeconds = 2
  DefaultBucketSeconds = 4
  MinRequestCount = 2
  ThresholdNum = 1
  ThresholdDen = 2
  OpenTimeoutSeconds = 2
  HalfOpenMaxRequests = 2
  HalfOpenSuccessThreshold = 2
  DirectRequests = TRUE
  AdminActs = TRUE
  MaxLoad = 4
INVARIANTS TypeOK SlotsAreTrials
PROPERTY OpensOnWindow
PROPERTY AdmitsAfterTimeout
PROPERTY SelectableAgain
