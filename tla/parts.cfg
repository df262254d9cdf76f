SPECIFICATION PartsSpec
CONSTANTS
    Ops = {x}
    Others = {a, b}
    Verdicts = {"allow", "ask", "deny"}
    MaxReAdds = 1
    Pushers = {g1, g2}
    MaxPushes = 5
    None = None
    Pids = {d1, d2, d3}
INVARIANTS TypeOK DecidedOnce NoLostWakeup NothingOwedIsLeft HandedOffAreSpared
PROPERTIES Approved CancelOfHeldEnds ImplementsSequence SweepEnds
CHECK_DEADLOCK FALSE
