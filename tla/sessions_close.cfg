SPECIFICATION Spec
CONSTANTS
    MaxProcs = 1
    SessionIds = {k}
    BoundId = k
    Launches = {"unbound", "gc"}
    MaxRequests = 3
INVARIANTS StoppedBeforeRelease
CHECK_DEADLOCK FALSE
