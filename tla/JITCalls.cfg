CONSTANTS
    Thread <- MCThread
    Proc <- MCProc
    ProcOf <- MCProcOf
    Key = {k1, k2}
    None = None
    Backend = "tvm_ffi"
    Faults = FALSE
    SlowWriters = FALSE
    MaxCalls = 1
    MaxDirs = 4
    MaxCrashes = 0
    MaxClears = 0
    t1 = t1
    t2 = t2
    t3 = t3
    p1 = p1
    p2 = p2
    Phase1 <- MCPhase1
    Styles = {"returned", "builder"}
SPECIFICATION JITSpec
INVARIANT SameKernel
INVARIANT NotAllRaise
INVARIANT NoRedundantCompile
INVARIANT Persisted
PROPERTY CallsReturn
