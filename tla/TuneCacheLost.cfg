CONSTANTS
    Thread = {t1, t3}
    Proc = {p1, p2}
    None = None
    Stale = {{"config"}}
    MaxTunes = 3
    MaxFaults = 0
    MaxCrashes = 0
    t1 = t1
    t2 = t2
    t3 = t3
    p1 = p1
    p2 = p2
SPECIFICATION MCSpecShared
PROPERTY CompleteStays
