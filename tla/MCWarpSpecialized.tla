------------------------- MODULE MCWarpSpecialized -------------------------
(* Loops to be split, for TLC: ways in which one or two statements use the *)
(* tiles of four kinds of loop.                                            *)
EXTENDS WarpSpecialized

Uses(n, read, written) == [1..n -> [reads : SUBSET read, writes : SUBSET written]]
Upto(n, read, written) == UNION {Uses(m, read, written) : m \in 0..n}

Always == [k \in 0..(MaxRounds - 1) |-> TRUE]

ReadsIn(p, b) == {c \in DOMAIN p.uses : b \in p.uses[c].reads}
WritesIn(p, b) == {c \in DOMAIN p.uses : b \in p.uses[c].writes}

\* Two TMA copies.  The rounds are enough for a slot to be filled three times.
Pure ==
    UNION {[groups : {2}, async : {FALSE}, prelude : {FALSE}, stages : {s}, rounds : {2 * s + 1},
            guarded : {FALSE}, taken : {Always}, uses : Upto(3 - s, {0, 1}, {})] : s \in {1, 2}}

\* A TMA copy in the guarded loop and one before it.
Guarded ==
    [groups : {1}, async : {FALSE}, prelude : {TRUE}, stages : {1, 2}, rounds : {MaxRounds},
     guarded : {TRUE}, taken : [DOMAIN Always -> BOOLEAN],
     uses : {<<[reads |-> {0}, writes |-> {}], [reads |-> {Prelude}, writes |-> {}]>>}]

\* The statements also write the tile.
Written ==
    [groups : {1}, async : {FALSE}, prelude : {FALSE}, stages : {1, 2}, rounds : {MaxRounds},
     guarded : {FALSE}, taken : {Always}, uses : Upto(2, {0}, {0})]

\* A TMA copy beside copies by all producers.  With two stages the statements are fewer.
Mixed ==
    UNION {[groups : {1}, async : {TRUE}, prelude : {FALSE}, stages : {s}, rounds : {3},
            guarded : {FALSE}, taken : {Always}, uses : Uses(3 - s, {0, Async}, {})] :
           s \in {1, 2}}

\* Two TMA copies beside them; each tile is read once.
MixedTwo ==
    {p \in [groups : {2}, async : {TRUE}, prelude : {FALSE}, stages : {1}, rounds : {3},
            guarded : {FALSE}, taken : {Always}, uses : Uses(2, {0, 1, Async}, {})] :
        \A b \in 0..Async : Cardinality(ReadsIn(p, b)) = 1}

\* No statement writes a tile before one reads it.
ReadFirst(p) ==
    \A b \in 0..Prelude : \A c \in WritesIn(p, b) : \E d \in ReadsIn(p, b) : d <= c

\* The asynchronous tile is not read after the last use of the first TMA tile.
AsyncFirst(p) ==
    \A c \in ReadsIn(p, Async) : ReadsIn(p, 0) = {} \/ \E d \in ReadsIn(p, 0) : c <= d

MCProgram ==
    {p \in Pure \cup Guarded \cup Written \cup Mixed \cup MixedTwo :
        ReadFirst(p) /\ AsyncFirst(p)}

\* The asynchronous tile may be read last.
MCProgramAsync == Mixed

\* Statements may write a tile first.
MCProgramWritten == Written
=============================================================================
