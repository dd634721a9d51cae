SPECIFICATION Spec
CONSTANTS
    MaxRequests = 2
    MaxLeaves = 1
    MaxStored = 2
    MaxLoaded = 2
INVARIANTS
    OneStreamPerVisit
    OwnReply
    GeneratingWhenBusy
    EndedWhenIdle
PROPERTY
    QuietAfterStop
CHECK_DEADLOCK FALSE
