\* Three owners on each backend; the sweeping server is up to a tick ahead of the database.
SPECIFICATION FairSpec
CONSTANTS
    o1 = o1
    o2 = o2
    o3 = o3
    r1 = r1
    NoOwner = NoOwner
    Resources = {r1}
    Owners = {o1, o2, o3}
    Backends = {"memory", "postgres", "redis"}
    Ttls = {1, 3}
    MaxWait = 2
    Skew = 1
INVARIANTS MutualExclusion LeaseBacked
PROPERTIES ImplementsLockService ExpiredRowsCollected
