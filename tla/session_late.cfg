SPECIFICATION Spec
CONSTANTS
    None = None
    Prompts = {p1}
    Steers = {s1}
    Calls = {}
    Inputs = {i1, s1}
    Requests = {1, 2}
    Cancels = {"SIGINT"}
    Verdicts = {"allow", "ask"}
    Failures = {FALSE}
    MaxLag = 2
    Overlap = FALSE
PROPERTIES CancelReachesTheRequest
CHECK_DEADLOCK FALSE
