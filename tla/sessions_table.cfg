SPECIFICATION FairSpec
CONSTANTS
    MaxProcs = 2
    SessionIds = {k}
    BoundId = k
    Launches = {"gc", "create"}
    MaxRequests = 3
INVARIANTS TypeOK NoLockIsOrphaned TableHoldsLocks CreatedOnce LogIsNeverReplaced
PROPERTIES ClosesEnd
CHECK_DEADLOCK FALSE
