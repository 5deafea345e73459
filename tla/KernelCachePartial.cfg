CONSTANTS
    Thread <- MCThread
    Proc <- MCProc
    ProcOf <- MCProcOf
    Key = {k1}
    None = None
    Backend = "tvm_ffi"
    Faults = FALSE
    SlowWriters = FALSE
    MaxCalls = 1
    MaxDirs = 4
    MaxCrashes = 0
    MaxClears = 1
    t1 = t1
    t3 = t3
    p1 = p1
    p2 = p2
SPECIFICATION Spec
PROPERTY RenamePublishesComplete
