\* Two templates, claimed one per tick, edited while they are claimed; nothing fails.
SPECIFICATION CronFairSpec
CONSTANTS
    p1 = p1
    p2 = p2
    t1 = t1
    t2 = t2
    Pollers = {p1, p2}
    Templates = {t1, t2}
    Backends = {"atomic"}
    Period = 2
    LastOccurrence = 99
    BatchSize = 1
    ParkFor = 20
    ClaimTtl = 3
    MaxTime = 4
    MaxLag = 1
    MaxEdits = 2
    MaxFaults = 0
 
PROPERTIES DueTemplateFires
