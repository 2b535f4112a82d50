\* Two runs of servers on each backend and a job; one crashes, a storage call fails.
SPECIFICATION FairSpec
CONSTANTS
    s1 = s1
    s2 = s2
    j1 = j1
    StorageName = StorageName
    Servers = {s1, s2}
    Jobs = {j1}
    Backends = {"atomic", "redis"}
    Interval = 1
    DeadTimeout = 5
    MaxLag = 1
    MaxCrashes = 1
    MaxFaults = 1
INVARIANTS PromptServerStaysRegistered
PROPERTIES DeadPeersCollected
