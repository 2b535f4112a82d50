\* A server crashes while it runs a job; another one keeps running.
SPECIFICATION FairSpec
CONSTANTS
    s1 = s1
    s2 = s2
    j1 = j1
    StorageName = StorageName
    Servers = {s1, s2}
    Jobs = {j1}
    Backends = {"atomic"}
    Interval = 1
    DeadTimeout = 3
    MaxLag = 1
    MaxCrashes = 1
    MaxFaults = 0
PROPERTIES DeadPeerJobsReclaimed
