CONSTANTS
    PoolSize = 1
    Settings <- MCSettings
    Latency = {1, 2, 3}
    MaxLatency = 3
    Faults = TRUE
    Fatal = TRUE
    Interrupts = TRUE
    None = None
SPECIFICATION FairSpec
INVARIANTS
    Accounted
    BestIsFastest
    QuietBenchmarks
    StateReported
PROPERTIES
    RunEnds
CHECK_DEADLOCK FALSE
