--------------------------- MODULE MCKernelCache ---------------------------
(* Small instances of KernelCache: two processes of one thread each.       *)
EXTENDS KernelCache, TLC
CONSTANTS t1, t3, p1, p2

MCThread == {t1, t3}
MCProc == {p1, p2}
MCProcOf == (t1 :> p1) @@ (t3 :> p2)
============================================================================
