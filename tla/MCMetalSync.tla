---------------------------- MODULE MCMetalSync ----------------------------
(* The Metal launches for TLC.  Domains are alike, so the first launch is   *)
(* made in the first one: every other behaviour is one of these with the    *)
(* two domains swapped.                                                     *)
EXTENDS MetalSync

FirstInA == Len(launches') = 1 => launches'[1].domain = "a"

MCSpec == Init /\ [][Next /\ FirstInA]_vars /\ \A d \in Domains : WF_vars(Run(d))
============================================================================
