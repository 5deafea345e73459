---------------------------- MODULE MCTuneCache ----------------------------
(***************************************************************************)
(* Instances of TuneCache.  Processes that share an incomplete entry do    *)
(* harm to each other (MCSpecShared); what holds is checked for a cache    *)
(* without one, and for an incomplete entry that one process meets.        *)
(***************************************************************************)
EXTENDS TuneCache
CONSTANTS t1, t2, t3, p1, p2

OneProcess == \A t \in Thread : proc[t] = p1
TwoProcesses == \A t \in Thread : proc[t] = IF t = t3 THEN p2 ELSE p1

MCInit == Init /\ IF entry = None THEN TwoProcesses ELSE OneProcess
MCSpec == MCInit /\ [][Next]_vars /\ Fairness
MCSpecShared == Init /\ TwoProcesses /\ [][Next]_vars
=============================================================================
