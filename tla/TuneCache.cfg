CONSTANTS
    Thread = {t1, t2, t3}
    Proc = {p1, p2}
    None = None
    Stale = {{"config"}}
    MaxTunes = 4
    MaxFaults = 1
    MaxCrashes = 1
    t1 = t1
    t2 = t2
    t3 = t3
    p1 = p1
    p2 = p2
SPECIFICATION MCSpec
INVARIANTS
    ResultsWhole
    NoStagingLeak
PROPERTIES
    CompleteStays
    Repaired
