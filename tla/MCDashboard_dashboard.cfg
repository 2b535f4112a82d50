\* A call of start, a page with two sockets; a failure, or a storage that hangs.
SPECIFICATION FairSpec
CONSTANTS
    r1 = r1
    shutdown = shutdown
    Tokens = {shutdown}
    Calls = {r1}
    MaxSockets = 2
    RunConfigs <- MCConfigs
    RunRequests <- MCRequests
    BroadcastCapacity = 1
    MaxChanges = 1
    MaxFaults = 1
CHECK_DEADLOCK FALSE
INVARIANTS OnlyGuardedHandled  NoUpdateMissed PageKeepsTrying
PROPERTIES CancelledCallReturns PageCatchesUp
