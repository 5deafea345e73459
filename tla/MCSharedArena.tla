--------------------------- MODULE MCSharedArena ---------------------------
(***************************************************************************)
(* Instances of SharedArena: buffers numbered in the order in which they   *)
(* are placed, which loses nothing since their names are arbitrary.  The   *)
(* packing does not look at buffers of dynamic size, so that these may be  *)
(* the last ones.                                                          *)
(***************************************************************************)
EXTENDS SharedArena

CONSTANTS Times, Sizes, DynamicSizes, Aligns, MaxDynamic

MCInit ==
    /\ dynamic \in {{b \in Buffer : b > Cardinality(Buffer) - n} : n \in 0..MaxDynamic}
    /\ start \in {s \in [Buffer -> Times] : \A b, c \in Buffer : b < c => s[b] <= s[c]}
    /\ end \in {e \in [Buffer -> Times] : \A b \in Buffer : start[b] < e[b]}
    /\ size \in {s \in [Buffer -> Sizes \cup DynamicSizes] :
                    /\ \A b \in Buffer : s[b] \in IF b \in dynamic THEN DynamicSizes ELSE Sizes
                    /\ \A b, c \in Buffer \ dynamic : b < c /\ start[b] = start[c] => s[b] >= s[c]}
    /\ align \in [Buffer -> Aligns]
    /\ Input
    /\ Fresh

MCSpec == MCInit /\ [][Next]_vars
=============================================================================
