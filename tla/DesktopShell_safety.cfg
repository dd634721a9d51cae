SPECIFICATION FairSpec
CONSTANT
    MaxRetries = 3
INVARIANTS
    NoOrphanServer
    AttemptsBounded
PROPERTIES
    QuitExits
    StartSettles
    CrashIsTold
CHECK_DEADLOCK FALSE
