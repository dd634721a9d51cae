\* Two handlers on one or two nodes; one failed statement or death.
SPECIFICATION FairSpec
CONSTANTS
  Handler = {k1, k2}
  Node = {n1, n2}
  Mutex = {m1, m2}
  None = None
  MaxDeliveries = 3
  MaxFaults = 1
INVARIANTS OrderLockIsSound CreditedOnce SuccessIsCredited
PROPERTIES SuccessIsFinal 
CHECK_DEADLOCK FALSE
