SPECIFICATION Spec
CONSTANTS
    None = None
    Prompts = {p1}
    Steers = {s1}
    Calls = {c1}
    Inputs = {i1, s1}
    Requests = {1, 2, 3}
    Cancels = {"SIGINT"}
    Verdicts = {"allow", "ask"}
    Failures = {FALSE}
    MaxLag = 2
    Overlap = FALSE
INVARIANTS SyncIsTheCoordinator ActorIsBehindByItsQueue EndTurnMeansAnswered InflightIsAtProvider
CHECK_DEADLOCK FALSE
