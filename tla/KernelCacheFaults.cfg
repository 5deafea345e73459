CONSTANTS
    Thread <- MCThread
    Proc <- MCProc
    ProcOf <- MCProcOf
    Key = {k1}
    None = None
    Backend = "tvm_ffi"
    Faults = TRUE
    SlowWriters = FALSE
    MaxCalls = 2
    MaxDirs = 4
    MaxCrashes = 1
    MaxClears = 1
    t1 = t1
    t3 = t3
    p1 = p1
    p2 = p2
SPECIFICATION Spec
INVARIANT NoTornKernel
INVARIANT PublishedComplete
INVARIANT NoStagingLeak
PROPERTY ImplementsStore
