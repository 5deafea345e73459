---------------------------- MODULE SharedArena ----------------------------
(***************************************************************************)
(* The packing of shared-memory buffers into one arena, from               *)
(* MergeSharedMemoryAllocations: LinearScanPack places the buffers of      *)
(* known size in the order in which they come alive, taking space from the *)
(* FreeList of what dead buffers have left; PlanMemory then appends the    *)
(* buffers whose size is known at run time only.                           *)
(*                                                                         *)
(* A buffer b is live in the statements start[b] .. end[b] - 1 and needs   *)
(* size[b] bytes at a multiple of align[b].  Those are fixed at the        *)
(* beginning; the numbers that stand for the buffers also stand for the    *)
(* order of their names.  blocks is the free list: it is sorted by offset, *)
(* so that the set of its blocks determines it.  One step is one turn of   *)
(* the loop in retire(), one placed interval, or one appended buffer.      *)
(***************************************************************************)
EXTENDS Integers, FiniteSets

CONSTANTS
    Buffer,      \* the shared allocations, numbered in the order of their names
    AlignBytes   \* align_bytes_, the least alignment

ASSUME ArenaAssumption == Buffer \subseteq Nat /\ AlignBytes \in Nat \ {0}

VARIABLES
    start, end, size, align,  \* of each buffer
    dynamic,                  \* the buffers of no constant size
    todo,                     \* the buffers that have no offset yet
    active,                   \* the queue of placed buffers that were not retired
    blocks,                   \* blocks_ of the free list
    top,                      \* arena_top
    offset,                   \* of each placed buffer
    cursor                    \* the end of the appended buffers

input == <<start, end, size, align, dynamic>>
vars == <<input, todo, active, blocks, top, offset, cursor>>

Block == [offset : Nat, size : Nat]

\* (mutation) Adds the remainder instead of what is missing.
AlignRemainder(v, a) == IF a = 0 THEN v ELSE v + (v % a)
AlignUpSize(v, a) == IF a = 0 \/ v % a = 0 THEN v ELSE v + (a - (v % a))

\* AlignPrimExpr, the same on expressions.
AlignPrimExpr(v, a) == IF a <= 1 THEN v ELSE ((v + (a - 1)) \div a) * a

Input ==
    /\ start \in [Buffer -> Nat]
    /\ end \in [Buffer -> Nat]
    /\ size \in [Buffer -> Nat]
    /\ align \in [Buffer -> Nat \ {0}]
    /\ dynamic \subseteq Buffer
    /\ \A b \in Buffer : start[b] < end[b] /\ AlignBytes <= align[b]

\* Before any interval is placed.
Fresh ==
    /\ todo = Buffer
    /\ active = {}
    /\ blocks = {}
    /\ top = 0
    /\ offset = [b \in Buffer |-> 0]
    /\ cursor = 0

Init == Input /\ Fresh
----------------------------------------------------------------------------
(* FreeList *)

\* (mutation) The block is put beside its neighbours and merged with none.
InsertUnmerged(B, o, s) == B \cup {[offset |-> o, size |-> s]}

Later(x, y) == IF x >= y THEN x ELSE y

\* InsertBlock: the new block is merged with the next one and with the previous
\* one when it reaches them.
InsertBlock(B, o, s) ==
    LET next == {b \in B : /\ o <= b.offset /\ b.offset <= o + s
                           /\ \A c \in B : o <= c.offset => b.offset <= c.offset}
        prev == {b \in B : /\ b.offset < o /\ o <= b.offset + b.size
                           /\ \A c \in B : c.offset < o => c.offset <= b.offset}
        n == CHOOSE b \in next : TRUE
        p == CHOOSE b \in prev : TRUE
        reach == IF next = {} THEN o + s ELSE Later(o + s, n.offset + n.size)
        lo == IF prev = {} THEN o ELSE p.offset
        hi == IF prev = {} THEN reach ELSE Later(p.offset + p.size, reach)
    IN  (B \ (prev \cup next)) \cup {[offset |-> lo, size |-> hi - lo]}

Insert(B, o, s) == IF s = 0 THEN B ELSE InsertBlock(B, o, s)

\* Where Allocate looks: the padding and the size must fit.
Fits(blk, b) ==
    AlignUpSize(blk.offset, align[b]) + size[b] <= blk.offset + blk.size

\* The block that wastes the least, the first of those in the list.
BestFit(blk, b) ==
    /\ Fits(blk, b)
    /\ \A c \in blocks : Fits(c, b) =>
          \/ blk.size < c.size
          \/ blk.size = c.size /\ blk.offset <= c.offset

\* CarveBlock: what is left over behind and in front goes back to the list.
CarveBlock(blk, b) ==
    LET aligned == AlignUpSize(blk.offset, align[b])
        rest == aligned + size[b]
    IN Insert(Insert(blocks \ {blk}, rest, (blk.offset + blk.size) - rest),
              blk.offset, aligned - blk.offset)

\* AllocateFromTail: the last block, when it ends where the arena ends.
AtTop(blk, b) ==
    /\ blk.offset + blk.size = top
    /\ \A c \in blocks : c.offset <= blk.offset
    /\ AlignUpSize(blk.offset, align[b]) < top
----------------------------------------------------------------------------
(* LinearScanPack *)

\* The order of the intervals.
Before(b, c) ==
    \/ start[b] < start[c]
    \/ start[b] = start[c] /\ size[b] > size[c]
    \/ start[b] = start[c] /\ size[b] = size[c] /\ b <= c

Upcoming(b) == b \in todo \ dynamic /\ \A c \in todo \ dynamic : Before(b, c)

\* (mutation) A buffer is retired one statement early.
RetireEarly(a, b) ==
    /\ Upcoming(b) /\ a \in active /\ end[a] <= start[b] + 1
    /\ \A c \in active : end[a] <= end[c]
    /\ active' = active \ {a}
    /\ blocks' = Insert(blocks, offset[a], size[a])
    /\ UNCHANGED <<input, todo, top, offset, cursor>>

\* retire(): before b is placed, the buffers dead by then are freed.
Retire(a, b) ==
    /\ Upcoming(b) /\ a \in active /\ end[a] <= start[b]
    /\ \A c \in active : end[a] <= end[c]
    /\ active' = active \ {a}
    /\ blocks' = Insert(blocks, offset[a], size[a])
    /\ UNCHANGED <<input, todo, top, offset, cursor>>

Settle(b, o) ==
    /\ offset' = [offset EXCEPT ![b] = o]
    /\ active' = active \cup {b}
    /\ todo' = todo \ {b}
    /\ UNCHANGED <<input, cursor>>

Ready(b) == Upcoming(b) /\ \A a \in active : start[b] < end[a]

Reuse(b, blk) ==
    /\ Ready(b) /\ BestFit(blk, b)
    /\ Settle(b, AlignUpSize(blk.offset, align[b]))
    /\ blocks' = CarveBlock(blk, b)
    /\ UNCHANGED top

Extend(b, blk) ==
    LET o == AlignUpSize(blk.offset, align[b]) IN
    /\ Ready(b) /\ ~(\E c \in blocks : Fits(c, b)) /\ AtTop(blk, b)
    /\ Settle(b, o)
    /\ blocks' = Insert(blocks \ {blk}, blk.offset, o - blk.offset)
    /\ top' = o + size[b]

\* (mutation) The space lost to alignment is not given to the free list.
BumpLeaks(b) ==
    LET o == AlignUpSize(top, align[b]) IN
    /\ Ready(b) /\ ~(\E c \in blocks : Fits(c, b) \/ AtTop(c, b))
    /\ Settle(b, o)
    /\ top' = o + size[b]
    /\ UNCHANGED blocks

Bump(b) ==
    LET o == AlignUpSize(top, align[b]) IN
    /\ Ready(b) /\ ~(\E c \in blocks : Fits(c, b) \/ AtTop(c, b))
    /\ Settle(b, o)
    /\ blocks' = Insert(blocks, top, o - top)
    /\ top' = o + size[b]

\* PlanMemory, once the arena is packed: the buffers of dynamic size follow it
\* one after the other, in the order of start, end and name.
Follows(c, b) ==
    \/ start[b] < start[c]
    \/ start[b] = start[c] /\ end[b] < end[c]
    \/ start[b] = start[c] /\ end[b] = end[c] /\ b <= c

Append(b) ==
    LET from == IF dynamic \subseteq todo THEN AlignPrimExpr(top, AlignBytes) ELSE cursor
        o == AlignPrimExpr(from, align[b])
    IN
    /\ todo \subseteq dynamic /\ b \in todo /\ \A c \in todo : Follows(c, b)
    /\ offset' = [offset EXCEPT ![b] = o]
    /\ cursor' = o + size[b]
    /\ todo' = todo \ {b}
    /\ UNCHANGED <<input, active, blocks, top>>

Done == todo = {} /\ UNCHANGED vars

Next ==
    \/ \E b \in Buffer :
          \/ Bump(b) \/ Append(b)
          \/ \E a \in Buffer : Retire(a, b)
          \/ \E blk \in blocks : Reuse(b, blk) \/ Extend(b, blk)
    \/ Done

Spec == Init /\ [][Next]_vars
----------------------------------------------------------------------------
(* Properties *)

In(x, o, s) == o <= x /\ x < o + s
Free(x) == \E blk \in blocks : In(x, blk.offset, blk.size)
Used(x) == \E a \in active : In(x, offset[a], size[a])
Coexist(a, b) == start[a] < end[b] /\ start[b] < end[a]
Apart(a, b) == offset[a] + size[a] <= offset[b] \/ offset[b] + size[b] <= offset[a]

\* The variables have the types the code gives them.
TypeOK ==
    /\ Input
    /\ todo \subseteq Buffer
    /\ active \subseteq Buffer \ todo
    /\ blocks \subseteq Block
    /\ top \in Nat
    /\ offset \in [Buffer -> Nat]
    /\ cursor \in Nat

\* Two buffers that are live at the same time never share a byte, so that the
\* overlap check of PlanMemory never has to fall back to a layout without reuse.
LiveApart ==
    \A a, b \in Buffer \ todo :
        a # b /\ Coexist(a, b) /\ size[a] > 0 /\ size[b] > 0 => Apart(a, b)

\* Every buffer is aligned as the intrinsics that use it require.
Aligned == \A b \in Buffer \ todo : offset[b] % align[b] = 0

\* LinearScanPack loses no space: every byte below arena_top is either on the
\* free list, in one block of it, or belongs to one buffer that is still active.
Partition ==
    \A x \in 0..(top - 1) :
        Cardinality({blk \in blocks : In(x, blk.offset, blk.size)})
          + Cardinality({a \in active : In(x, offset[a], size[a])}) = 1

\* The comment on InsertBlock: the list stays sorted and coalesced, that is,
\* two free blocks never touch, and none is empty or beyond the arena.
Coalesced ==
    \A b \in blocks :
        /\ b.size > 0 /\ b.offset + b.size <= top
        /\ \A c \in blocks : b # c => b.offset + b.size < c.offset \/ c.offset + c.size < b.offset

\* Buffers of dynamic size share with nobody, whatever their lifetimes.
DynamicApart ==
    \A a \in dynamic \ todo, b \in Buffer \ todo :
        a # b => Apart(a, b)
=============================================================================
