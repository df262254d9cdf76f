SPECIFICATION TextSpec
CONSTANTS
    MaxRequests = 2
    MaxAttempts = 2
    MaxPieces = 2
    MaxTextLag = 2
INVARIANTS LiveIsLogged
CHECK_DEADLOCK FALSE
