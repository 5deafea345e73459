---------------------------- MODULE KernelStore ----------------------------
(***************************************************************************)
(* What the kernel cache promises: a store that holds at most one kernel   *)
(* per key, written in one step and never replaced, and for each process a *)
(* copy of what it has fetched or compiled.  A stored kernel goes away     *)
(* only once someone has called clear_cache.                               *)
(***************************************************************************)
CONSTANTS Proc, Key, Dir, File, None
VARIABLES local, store, cleared
vars == <<local, store, cleared>>

\* The kernel all of whose files come from compilation d.
Whole(d) == [f \in File |-> d]

Init ==
    /\ local = [p \in Proc |-> [k \in Key |-> None]]
    /\ store = [k \in Key |-> None]
    /\ cleared = FALSE

\* A compiled kernel is published under a key that has none.
Publish(k, d) ==
    /\ store[k] = None
    /\ store' = [store EXCEPT ![k] = d]
    /\ UNCHANGED <<local, cleared>>

\* A process takes the stored kernel, or keeps one it compiled, which is the
\* stored one unless nothing could be stored.
Take(p, k, d) ==
    /\ local[p][k] = None
    /\ store[k] \in {None, d}
    /\ local' = [local EXCEPT ![p][k] = Whole(d)]
    /\ UNCHANGED <<store, cleared>>

\* A process ends or empties its memory.
Forget(p) ==
    /\ local' = [local EXCEPT ![p] = [k \in Key |-> None]]
    /\ UNCHANGED <<store, cleared>>

\* clear_cache is called, and takes kernels away from then on.
Clear ==
    /\ cleared' = TRUE
    /\ local' \in {local} \cup {[local EXCEPT ![p] = [k \in Key |-> None]] : p \in Proc}
    /\ UNCHANGED store

Evict(k) ==
    /\ cleared
    /\ store' = [store EXCEPT ![k] = None]
    /\ UNCHANGED <<local, cleared>>

Next ==
    \/ \E k \in Key, d \in Dir : Publish(k, d) \/ \E p \in Proc : Take(p, k, d)
    \/ \E p \in Proc : Forget(p)
    \/ Clear \/ \E k \in Key : Evict(k)

Spec == Init /\ [][Next]_vars
============================================================================
