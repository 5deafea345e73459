SPECIFICATION Spec
CONSTANTS
    NumThreads = 4
    Warp = 2
    kFirstUsedBarrier = 3
    Kernel <- MCKernel
INVARIANTS
    NoRace
    BarriersMeet
    AsyncSeesWrites
    TmemHandoff
CHECK_DEADLOCK FALSE
