SPECIFICATION Spec
CONSTANTS
    MaxRequests = 2
    MaxAttempts = 2
    MaxPieces = 2
    MaxTextLag = 2
    Calls = {c1}
    OldCalls = {c0}
    MaxCallLag = 2
    MaxLoads = 1
    Unset = Unset
    Models = {m1, m2}
    Efforts = {e1}
    Offered = {m1}
    Setters = {s1, s2}
    MaxOpens = 3
INVARIANTS TextTypeOK SaidOnce LiveIsReplay CallTypeOK ToldFirst ReplayToldFirst EndsOnce NoFinalIsLost MetaTypeOK ChoicesAreStored ChoicesAreUsed
CHECK_DEADLOCK FALSE
