---------------------------- MODULE MCJITCalls ----------------------------
(* Small instances of JITCalls: two threads of one process and one of       *)
(* another; two shapes of the same tensors, which share a template.         *)
EXTENDS JITCalls, TLC
CONSTANTS t1, t2, t3, p1, p2

MCThread == {t1, t2, t3}
MCProc == {p1, p2}
MCProcOf == (t1 :> p1) @@ (t2 :> p1) @@ (t3 :> p2)
MCPhase1 == [k \in Key |-> "consts"]
===========================================================================
