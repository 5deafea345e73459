SPECIFICATION Spec
CONSTANTS
    NumThreads = 4
    Warp = 2
    kFirstUsedBarrier = 3
    Kernel <- MCUniformKernel
INVARIANT
    RaceFree
CHECK_DEADLOCK FALSE
