--------------------------- MODULE MCSharedMerge ---------------------------
(***************************************************************************)
(* Kernels of bounded length.  The buffers are allocated in the order of   *)
(* their numbers, which loses nothing but kernels that differ in names.    *)
(***************************************************************************)
EXTENDS SharedMerge

InOrder == \A b \in Buffer : allocLevel[b] > 0 => \A c \in Buffer : c < b => allocLevel[c] > 0

\* A leaf that reads and writes, or a condition that reads, counts twice.
IsCompound(c) == c.src # None /\ (c.dst # None \/ c.op # "leaf")
Small == Length + Cardinality({i \in DOMAIN code : IsCompound(code[i])}) <= MaxCode

MCSpec == Init /\ [][Next /\ (phase = "visit" => InOrder' /\ Small')]_vars
=============================================================================
