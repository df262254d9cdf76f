SPECIFICATION Spec
CONSTANTS
    None = None
    Prompts = {p1}
    Steers = {}
    Calls = {c1, c2}
    Inputs = {i1}
    Requests = {1, 2, 3}
    Cancels = {"SIGINT"}
    Verdicts = {"allow", "ask"}
    Failures = {TRUE, FALSE}
    MaxLag = 3
    Overlap = FALSE
INVARIANTS TypeOK WhatIsLeftIsParked CancelledOnlyByTheClient StoppedIsNeverAFailure NoneIsLeftHeld
PROPERTIES PolicyRefusesWhileCancelling
CHECK_DEADLOCK FALSE
