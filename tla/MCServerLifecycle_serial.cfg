\* Two callers start and stop a server twice; a stop may overlap a start, a start no stop.
SPECIFICATION FairSpec
CONSTANTS
    c1 = c1
    c2 = c2
    w1 = w1
    Callers = {c1, c2}
    Workers = {w1}
    Configs <- MCConfigs
    OverlappingStart = FALSE
    MaxRuns = 2
    MaxFaults = 1
INVARIANTS RunningIsServed NoTaskLost 
PROPERTIES CancelledRunEnds
CHECK_DEADLOCK FALSE
