SPECIFICATION Spec
CONSTANTS
    None = None
    Prompts = {p1, p2}
    Steers = {}
    Calls = {c1}
    Inputs = {i1, i2}
    Requests = {1, 2, 3}
    Cancels = {}
    Verdicts = {"allow", "ask"}
    Failures = {FALSE}
    MaxLag = 2
    Overlap = TRUE
SYMMETRY Symmetry
PROPERTIES NewPromptIsHeard
CHECK_DEADLOCK FALSE
