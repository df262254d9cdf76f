SPECIFICATION FairSpec
CONSTANTS
    None = None
    Prompts = {p1}
    Steers = {}
    Calls = {c1}
    Inputs = {i1}
    Requests = {1, 2}
    Cancels = {"session/cancel", "SIGINT"}
    Verdicts = {"allow", "ask"}
    Failures = {TRUE, FALSE}
    MaxLag = 9
    Overlap = FALSE
PROPERTIES CancelIsAnswered
CHECK_DEADLOCK FALSE
