\* Two slow pollers and an operator on each backend; calls fail and pollers die.
SPECIFICATION CronSpec
CONSTANTS
    p1 = p1
    p2 = p2
    t1 = t1
    t2 = t2
    Pollers = {p1, p2}
    Templates = {t1}
    Backends = {"atomic", "redis"}
    Period = 2
    LastOccurrence = 6
    BatchSize = 1
    ParkFor = 20
    ClaimTtl = 5
    MaxTime = 7
    MaxLag = 2
    MaxEdits = 2
    MaxFaults = 1
INVARIANTS NoTickFiredTwice OneHolder
