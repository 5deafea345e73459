------------------------- MODULE SharedArenaProofs -------------------------
(***************************************************************************)
(* The plan of the arena is sound for any set of buffers, any lifetimes,   *)
(* sizes and alignments.  The argument is about the free list: its blocks  *)
(* stay apart from each other and from the buffers that are active, which  *)
(* InsertBlock preserves as long as it is given space that is not free.    *)
(***************************************************************************)
EXTENDS SharedArena, FiniteSetTheorems, TLAPS

\* Rounding up does not go below the value and gives a multiple.
LEMMA AlignUp ==
    ASSUME NEW v \in Nat, NEW a \in Nat \ {0}
    PROVE  /\ AlignUpSize(v, a) \in Nat
           /\ v <= AlignUpSize(v, a)
           /\ AlignUpSize(v, a) % a = 0
<1>1. v % a \in 0..(a - 1) /\ v = a * (v \div a) + (v % a) /\ v \div a \in Nat
    BY SMTT(30)
<1>2. CASE v % a = 0
    BY <1>1, <1>2, SMTT(30) DEF AlignUpSize
<1>3. CASE v % a # 0
  <2>1. AlignUpSize(v, a) = a * (v \div a) + a
    BY <1>1, <1>3, SMTT(30) DEF AlignUpSize
  <2>2. \A q \in Nat : (a * q + a) % a = 0
    BY SMTT(30)
  <2>. QED
    BY <1>1, <1>3, <2>1, <2>2, SMTT(90) DEF AlignUpSize
<1>. QED
    BY <1>2, <1>3, ZenonT(40)

\* AlignPrimExpr rounds up as well, for the buffers appended behind the arena.
LEMMA AlignExpr ==
    ASSUME NEW v \in Nat, NEW a \in Nat \ {0}
    PROVE  /\ AlignPrimExpr(v, a) \in Nat
           /\ v <= AlignPrimExpr(v, a)
           /\ AlignPrimExpr(v, a) % a = 0
<1> DEFINE w == v + (a - 1)
<1>1. w \in Nat /\ w % a \in 0..(a - 1) /\ w = a * (w \div a) + (w % a) /\ w \div a \in Nat
    BY SMTT(30)
<1>2. \A q \in Nat : (q * a) % a = 0 /\ q * a \in Nat /\ q * a = a * q
    BY SMTT(30)
<1>. QED
    BY <1>1, <1>2, SMTT(30) DEF AlignPrimExpr

\* A set of free blocks as it has to be, and space that is not free.
Blocks(B) ==
    /\ B \subseteq Block
    /\ \A b \in B : b.size > 0
    /\ \A b, c \in B : b # c => b.offset + b.size < c.offset \/ c.offset + c.size < b.offset
NotFree(B, o, s) == \A b \in B : b.offset + b.size <= o \/ o + s <= b.offset

\* l..h-1 is the new space together with the blocks of M, and reaches no others.
Merges(B, o, s, M, l, h) ==
    /\ InsertBlock(B, o, s) = (B \ M) \cup {[offset |-> l, size |-> h - l]}
    /\ l <= o /\ o + s <= h
    /\ \A b \in M : l <= b.offset /\ b.offset + b.size <= h
    /\ \A b \in B \ M : b.offset + b.size < l \/ h < b.offset
    /\ \A x \in Nat : l <= x /\ x < h =>
          (o <= x /\ x < o + s) \/ \E b \in M : b.offset <= x /\ x < b.offset + b.size

\* InsertBlock replaces the neighbours it reaches by one block that spans them
\* and the new space, and nothing else.
LEMMA InsertMerges ==
    ASSUME NEW B, Blocks(B), NEW o \in Nat, NEW s \in Nat \ {0}, NotFree(B, o, s)
    PROVE  \E M \in SUBSET B, l \in Nat, h \in Nat : Merges(B, o, s, M, l, h)
<1> DEFINE next == {b \in B : /\ o <= b.offset /\ b.offset <= o + s
                              /\ \A c \in B : o <= c.offset => b.offset <= c.offset}
           prev == {b \in B : /\ b.offset < o /\ o <= b.offset + b.size
                              /\ \A c \in B : c.offset < o => c.offset <= b.offset}
           n == CHOOSE b \in next : TRUE
           p == CHOOSE b \in prev : TRUE
           l == IF prev = {} THEN o ELSE p.offset
           h == IF next = {} THEN o + s ELSE n.offset + n.size
           M == prev \cup next
<1>0. \A b \in B : b.offset \in Nat /\ b.size \in Nat /\ b.size > 0
    BY ZenonT(40) DEF Blocks, Block
<1>1. \A b \in prev : b.offset + b.size = o /\ b.offset < o
    BY <1>0, SMTT(30) DEF NotFree
<1>2. \A b \in next : b.offset = o + s
    BY <1>0, SMTT(30) DEF NotFree
<1>3. \A b \in B : b.offset + b.size = o => b \in prev
  <2>1. SUFFICES ASSUME NEW b \in B, b.offset + b.size = o, NEW c \in B, c.offset < o
                 PROVE  c.offset <= b.offset
    BY <1>0, SMTT(30)
  <2>. QED
    BY <1>0, <2>1, SMTT(30) DEF Blocks
<1>4. \A b \in B : b.offset = o + s => b \in next
  <2>1. SUFFICES ASSUME NEW b \in B, b.offset = o + s, NEW c \in B, o <= c.offset
                 PROVE  b.offset <= c.offset
    BY <1>0, SMTT(30)
  <2>. QED
    BY <1>0, <2>1, SMTT(30) DEF NotFree
<1>5. \A b, c \in prev : b = c
    BY <1>0, <1>1, SMTT(30) DEF Blocks
<1>6. \A b, c \in next : b = c
    BY <1>0, <1>2, SMTT(30) DEF Blocks
<1>7. prev # {} => p \in prev /\ prev = {p}
    BY <1>5, ZenonT(40)
<1>8. next # {} => n \in next /\ next = {n}
    BY <1>6, ZenonT(40)
<1>9. l \in Nat /\ h \in Nat /\ l <= o /\ o + s <= h
    BY <1>0, <1>1, <1>2, <1>7, <1>8, SMTT(30)
<1>10. InsertBlock(B, o, s) = (B \ M) \cup {[offset |-> l, size |-> h - l]}
  <2> DEFINE reach == IF next = {} THEN o + s ELSE Later(o + s, n.offset + n.size)
             hi == IF prev = {} THEN reach ELSE Later(p.offset + p.size, reach)
  <2>1. reach = h
    BY <1>0, <1>2, <1>8, SMTT(30) DEF Later
  <2>2. ASSUME prev = {} PROVE hi = h
    BY <2>1, <2>2, ZenonT(40)
  <2>3. ASSUME prev # {} PROVE hi = h
    <3>1. p \in prev
      <4> HIDE DEF p, prev
      <4>. QED
        BY <1>7, <2>3, ZenonT(40)
    <3>2. p.offset + p.size = o
      BY <1>1, <3>1, ZenonT(40)
    <3>3. o <= h /\ h \in Nat
      BY <1>9, SMTT(30)
    <3>4. Later(o, h) = h
      <4> HIDE DEF h
      <4>. QED
        BY <3>3, SMTT(30) DEF Later
    <3>5. hi = Later(o, h)
      <4> HIDE DEF h, p
      <4>. QED
        BY <2>1, <2>3, <3>2, SMTT(30)
    <3>. QED
      <4> HIDE DEF hi, h
      <4>. QED
        BY <3>4, <3>5, ZenonT(40)
  <2>4. hi = h
    <3> HIDE DEF hi, h, prev
    <3>. QED
      BY <2>2, <2>3, ZenonT(40)
  <2>. QED
    BY <2>4, ZenonT(40) DEF InsertBlock
<1>11. \A b \in M : l <= b.offset /\ b.offset + b.size <= h
  <2>1. ASSUME NEW b \in prev PROVE l = b.offset /\ b.offset + b.size <= h
    <3>1. prev # {} /\ b = p
      BY <1>7, Zenon
    <3>2. l = b.offset
      BY <3>1, ZenonT(40)
    <3>. QED
      BY <1>1, <1>9, <3>2, SMTT(30)
  <2>2. ASSUME NEW b \in next PROVE l <= b.offset /\ b.offset + b.size = h
    <3>1. next # {} /\ b = n
      BY <1>8, Zenon
    <3>2. b.offset + b.size = h
      BY <3>1, SMTT(30)
    <3>. QED
      BY <1>2, <1>9, <3>2, SMTT(30)
  <2>. QED
    BY <1>0, <1>9, <2>1, <2>2, SMTT(90)
<1>12. \A b \in B \ M : b.offset + b.size < l \/ h < b.offset
  <2>1. SUFFICES ASSUME NEW b \in B, b \notin prev, b \notin next
                 PROVE  b.offset + b.size < l \/ h < b.offset
    BY ZenonT(40)
  <2>2. b.offset + b.size < o \/ o + s < b.offset
    BY <1>0, <1>3, <1>4, <2>1, SMTT(30) DEF NotFree
  <2>3. ASSUME b.offset + b.size < o PROVE b.offset + b.size < l
    BY <1>0, <1>1, <1>7, <2>1, <2>3, SMTT(30) DEF Blocks
  <2>4. ASSUME o + s < b.offset PROVE h < b.offset
    BY <1>0, <1>2, <1>8, <2>1, <2>4, SMTT(30) DEF Blocks
  <2>. QED
    BY <2>2, <2>3, <2>4, ZenonT(40)
<1>13. \A x \in Nat : l <= x /\ x < h =>
          (o <= x /\ x < o + s) \/ \E b \in M : b.offset <= x /\ x < b.offset + b.size
    BY <1>0, <1>1, <1>2, <1>7, <1>8, SMTT(30)
<1>14. M \in SUBSET B
    BY ZenonT(40)
<1>15. Merges(B, o, s, M, l, h)
    BY <1>9, <1>10, <1>11, <1>12, <1>13, Zenon DEF Merges
<1> HIDE DEF l, h, M
<1>. QED
    BY <1>9, <1>14, <1>15, ZenonT(40)

Cover(B, x) == \E b \in B : b.offset <= x /\ x < b.offset + b.size

\* What an insertion preserves: the blocks stay apart, space that was not free
\* and is not given back stays so, the bound holds, and the blocks then cover
\* what they covered before and the new space.
Inserted(B, o, s, R) ==
    /\ Blocks(R)
    /\ \A u \in Nat, v \in Nat \ {0} :
          NotFree(B, u, v) /\ (o + s <= u \/ u + v <= o) => NotFree(R, u, v)
    /\ \A t \in Nat : o + s <= t /\ (\A b \in B : b.offset + b.size <= t)
                        => \A b \in R : b.offset + b.size <= t
    /\ \A x \in Nat : Cover(R, x) <=> Cover(B, x) \/ (o <= x /\ x < o + s)

\* InsertBlock adds exactly the bytes of the new block to the free list and keeps
\* it coalesced, if they were not on it.
LEMMA InsertSound ==
    ASSUME NEW B, Blocks(B), NEW o \in Nat, NEW s \in Nat, s > 0 => NotFree(B, o, s)
    PROVE  Inserted(B, o, s, Insert(B, o, s))
<1>0. \A b \in B : b.offset \in Nat /\ b.size \in Nat /\ b.size > 0
    BY ZenonT(40) DEF Blocks, Block
<1>1. CASE s = 0
    BY <1>0, <1>1, SMTT(30) DEF Insert, Inserted
<1>2. CASE s # 0
  <2>0. PICK M \in SUBSET B, l \in Nat, h \in Nat : Merges(B, o, s, M, l, h)
    <3>1. s \in Nat \ {0}
      BY <1>2, ZenonT(40)
    <3>. QED
      BY <3>1, InsertMerges, SMTT(30)
  <2>1. /\ InsertBlock(B, o, s) = (B \ M) \cup {[offset |-> l, size |-> h - l]}
        /\ l <= o /\ o + s <= h
        /\ \A b \in M : l <= b.offset /\ b.offset + b.size <= h
        /\ \A b \in B \ M : b.offset + b.size < l \/ h < b.offset
        /\ \A x \in Nat : l <= x /\ x < h =>
              (o <= x /\ x < o + s) \/ \E b \in M : b.offset <= x /\ x < b.offset + b.size
    BY <2>0, Zenon DEF Merges
  <2> DEFINE R == Insert(B, o, s)
             m == [offset |-> l, size |-> h - l]
  <2>2. R = (B \ M) \cup {m}
    BY <1>2, <2>1, ZenonT(40) DEF Insert
  <2>3. m.offset = l /\ m.size = h - l /\ m \in Block /\ l < h
    BY <1>2, <2>1, SMTT(30) DEF Block
  <2> HIDE DEF R, m
  <2>4. Blocks(R)
    <3>1. R \subseteq Block /\ \A b \in R : b.size > 0
      BY <1>0, <2>2, <2>3, SMTT(30) DEF Blocks
    <3>2. \A b \in B \ M : b.offset + b.size < m.offset \/ m.offset + m.size < b.offset
      BY <1>0, <2>1, <2>3, SMTT(30)
    <3>. QED
      BY <2>2, <3>1, <3>2, ZenonT(40) DEF Blocks
  <2>5. ASSUME NEW u \in Nat, NEW v \in Nat \ {0}, NotFree(B, u, v), o + s <= u \/ u + v <= o
        PROVE  NotFree(R, u, v)
    <3>1. \A b \in B : b.offset + b.size <= u \/ u + v <= b.offset
      BY <2>5, ZenonT(40) DEF NotFree
    <3>2. ASSUME ~(h <= u \/ u + v <= l) PROVE FALSE
      <4>1. PICK x \in Nat : u <= x /\ x < u + v /\ l <= x /\ x < h
        <5>1. CASE u <= l
          BY <2>3, <3>2, <5>1, SMTT(30)
        <5>2. CASE l < u
          BY <2>3, <3>2, <5>2, SMTT(30)
        <5>. QED
          BY <5>1, <5>2, SMTT(30)
      <4>2. (o <= x /\ x < o + s) \/ \E b \in M : b.offset <= x /\ x < b.offset + b.size
        BY <2>1, <4>1, ZenonT(40)
      <4>3. ~(o <= x /\ x < o + s)
        BY <2>5, <4>1, SMTT(30)
      <4>4. \A b \in M : ~(b.offset <= x /\ x < b.offset + b.size)
        BY <1>0, <3>1, <4>1, SMTT(30)
      <4>. QED
        BY <4>2, <4>3, <4>4, ZenonT(40)
    <3>3. m.offset + m.size <= u \/ u + v <= m.offset
      BY <2>3, <3>2, SMTT(30)
    <3>. QED
      BY <2>2, <3>1, <3>3, ZenonT(40) DEF NotFree
  <2>6. ASSUME NEW t \in Nat, o + s <= t, \A b \in B : b.offset + b.size <= t
        PROVE  \A b \in R : b.offset + b.size <= t
    <3>1. h <= t
      <4>1. SUFFICES ASSUME t < h PROVE FALSE
        BY SMTT(30)
      <4>2. l <= h - 1 /\ h - 1 < h /\ h - 1 \in Nat
        BY <2>3, SMTT(30)
      <4>3. (o <= h - 1 /\ h - 1 < o + s) \/ \E b \in M : b.offset <= h - 1 /\ h - 1 < b.offset + b.size
        BY <2>1, <4>2, ZenonT(40)
      <4>. QED
        BY <1>0, <2>6, <4>1, <4>3, SMTT(30)
    <3>. QED
      BY <2>2, <2>3, <2>6, <3>1, SMTT(30)
  <2>7. ASSUME NEW x \in Nat
        PROVE  Cover(R, x) <=> Cover(B, x) \/ (o <= x /\ x < o + s)
    <3>1. l <= x /\ x < h => Cover(B, x) \/ (o <= x /\ x < o + s)
      BY <2>1, ZenonT(40) DEF Cover
    <3>2. (o <= x /\ x < o + s) => l <= x /\ x < h
      BY <2>1, SMTT(30)
    <3>3. \A b \in M : b.offset <= x /\ x < b.offset + b.size => l <= x /\ x < h
      BY <1>0, <2>1, SMTT(30)
    <3>4. Cover(R, x) <=> Cover(B \ M, x) \/ (l <= x /\ x < h)
      BY <2>2, <2>3, SMTT(30) DEF Cover
    <3>. QED
      BY <3>1, <3>2, <3>3, <3>4, ZenonT(40) DEF Cover
  <2>. QED
    BY <2>4, <2>5, <2>6, <2>7, Zenon DEF R, Inserted
<1>. QED
    BY <1>1, <1>2, ZenonT(40)

\* CarveBlock: n bytes at o are taken out of the blocks, and nothing else.
Carved(B, o, n, R) ==
    /\ Blocks(R)
    /\ n > 0 => NotFree(R, o, n)
    /\ \A u \in Nat, v \in Nat \ {0} : NotFree(B, u, v) => NotFree(R, u, v)
    /\ \A t \in Nat : (\A b \in B : b.offset + b.size <= t)
                        => \A b \in R : b.offset + b.size <= t
    /\ \A x \in Nat : Cover(B, x) => Cover(R, x) \/ (o <= x /\ x < o + n)

\* CarveBlock takes exactly the bytes of the placed buffer off the free list.
LEMMA CarveSound ==
    ASSUME NEW B, Blocks(B), NEW blk \in B, NEW o \in Nat, NEW n \in Nat,
           blk.offset <= o, o + n <= blk.offset + blk.size
    PROVE  Carved(B, o, n,
                  Insert(Insert(B \ {blk}, o + n, (blk.offset + blk.size) - (o + n)),
                         blk.offset, o - blk.offset))
<1> DEFINE B0 == B \ {blk}
           e == blk.offset + blk.size
           B1 == Insert(B0, o + n, e - (o + n))
           R == Insert(B1, blk.offset, o - blk.offset)
<1>0. \A b \in B : b.offset \in Nat /\ b.size \in Nat /\ b.size > 0
    BY ZenonT(40) DEF Blocks, Block
<1>1. Blocks(B0) /\ e \in Nat /\ e - (o + n) \in Nat /\ o - blk.offset \in Nat
    BY <1>0, SMTT(30) DEF Blocks
<1>2. \A u, v \in Nat : blk.offset <= u /\ u + v <= e => NotFree(B0, u, v)
    BY <1>0, SMTT(30) DEF NotFree, Blocks
<1>3. NotFree(B0, o + n, e - (o + n))
  <2>1. o + n \in Nat /\ blk.offset <= o + n /\ (o + n) + (e - (o + n)) <= e
    BY <1>0, <1>1, SMTT(30)
  <2>. QED
    BY <1>1, <1>2, <2>1, ZenonT(40)
<1>12. Inserted(B0, o + n, e - (o + n), B1)
    BY <1>1, <1>3, InsertSound, SMTT(30)
<1> HIDE DEF B0, B1
<1>4. /\ Blocks(B1)
      /\ \A u \in Nat, v \in Nat \ {0} :
            NotFree(B0, u, v) /\ (e <= u \/ u + v <= o + n) => NotFree(B1, u, v)
      /\ \A t \in Nat : e <= t /\ (\A b \in B0 : b.offset + b.size <= t)
                          => \A b \in B1 : b.offset + b.size <= t
      /\ \A x \in Nat : Cover(B1, x) <=> Cover(B0, x) \/ (o + n <= x /\ x < e)
  <2>1. (o + n) + (e - (o + n)) = e
    BY <1>0, SMTT(30)
  <2>. QED
    BY <1>12, <2>1, ZenonT(40) DEF Inserted
<1>5. o - blk.offset > 0 => NotFree(B1, blk.offset, o - blk.offset)
    BY <1>0, <1>1, <1>2, <1>4, SMTT(30)
<1>6. Inserted(B1, blk.offset, o - blk.offset, R)
    BY <1>0, <1>1, <1>4, <1>5, InsertSound, ZenonT(40)
<1> HIDE DEF R
<1>7. /\ Blocks(R)
      /\ \A u \in Nat, v \in Nat \ {0} :
            NotFree(B1, u, v) /\ (o <= u \/ u + v <= blk.offset) => NotFree(R, u, v)
      /\ \A t \in Nat : o <= t /\ (\A b \in B1 : b.offset + b.size <= t)
                          => \A b \in R : b.offset + b.size <= t
      /\ \A x \in Nat : Cover(R, x) <=> Cover(B1, x) \/ (blk.offset <= x /\ x < o)
  <2>1. blk.offset + (o - blk.offset) = o /\ blk.offset \in Nat
    BY <1>0, SMTT(30)
  <2>. QED
    BY <1>6, <2>1, ZenonT(40) DEF Inserted
<1>8. n > 0 => NotFree(R, o, n)
  <2>1. SUFFICES ASSUME n > 0 PROVE NotFree(R, o, n)
    BY ZenonT(40)
  <2>2. NotFree(B1, o, n)
    BY <1>2, <1>4, <2>1, SMTT(30)
  <2>. QED
    BY <1>7, <2>1, <2>2, SMTT(30)
<1>9. ASSUME NEW u \in Nat, NEW v \in Nat \ {0}, NotFree(B, u, v) PROVE NotFree(R, u, v)
  <2>1. NotFree(B0, u, v) /\ (e <= u \/ u + v <= blk.offset)
    BY <1>9, ZenonT(40) DEF NotFree, B0
  <2>2. NotFree(B1, u, v)
    BY <1>0, <1>4, <2>1, SMTT(30)
  <2>. QED
    BY <1>0, <1>7, <2>1, <2>2, SMTT(30)
<1>10. ASSUME NEW t \in Nat, \A b \in B : b.offset + b.size <= t
       PROVE  \A b \in R : b.offset + b.size <= t
  <2>1. e <= t /\ o <= t /\ \A b \in B0 : b.offset + b.size <= t
    BY <1>0, <1>10, SMTT(30) DEF B0
  <2>. QED
    BY <1>4, <1>7, <2>1, ZenonT(40)
<1>11. ASSUME NEW x \in Nat, Cover(B, x) PROVE Cover(R, x) \/ (o <= x /\ x < o + n)
  <2>1. Cover(B0, x) \/ (blk.offset <= x /\ x < e)
    BY <1>11, ZenonT(40) DEF Cover, B0
  <2>. QED
    BY <1>0, <1>4, <1>7, <2>1, SMTT(30)
<1>13. Carved(B, o, n, R)
    BY <1>7, <1>8, <1>9, <1>10, <1>11, ZenonT(40) DEF Carved
<1>. QED
    BY <1>13, Zenon DEF R, B1, B0
----------------------------------------------------------------------------
(* The inductive invariant *)

\* The free list, and the bytes of the active buffers outside of it.
Packed ==
    /\ Blocks(blocks)
    /\ \A blk \in blocks : blk.offset + blk.size <= top
    /\ active \cap dynamic = {}
    /\ \A a \in active : size[a] > 0 => NotFree(blocks, offset[a], size[a])
    /\ \A a, b \in active : a # b /\ size[a] > 0 /\ size[b] > 0 => Apart(a, b)

\* No byte is lost.
Covered ==
    \A x \in Nat : x < top => Cover(blocks, x) \/ \E a \in active : In(x, offset[a], size[a])

\* The intervals are placed in the order of their starts, and retired only when
\* everything that is still to come starts after their end.
Ordered ==
    \A a \in Buffer \ (todo \cup dynamic), b \in todo \ dynamic :
        /\ start[a] <= start[b]
        /\ a \notin active => end[a] <= start[b]

\* The packed buffers lie below arena_top, the appended ones above it.
Stacked ==
    /\ \A a \in Buffer \ (todo \cup dynamic) : offset[a] + size[a] <= top
    /\ ~(dynamic \subseteq todo) => todo \subseteq dynamic /\ top <= cursor
    /\ \A a \in dynamic \ todo : top <= offset[a] /\ offset[a] + size[a] <= cursor
    /\ \A a, b \in dynamic \ todo : a # b => Apart(a, b)

PackedApart ==
    \A a, b \in Buffer \ (todo \cup dynamic) :
        a # b /\ Coexist(a, b) /\ size[a] > 0 /\ size[b] > 0 => Apart(a, b)

IInv == TypeOK /\ Packed /\ Covered /\ Ordered /\ Stacked /\ PackedApart /\ Aligned

\* The conditions under which b may be put at o, R being the free list and t
\* the end of the arena then.
Placeable(b, o, R, t) ==
    /\ o \in Nat /\ t \in Nat /\ top <= t /\ o + size[b] <= t
    /\ o % align[b] = 0
    /\ Blocks(R)
    /\ \A blk \in R : blk.offset + blk.size <= t
    /\ size[b] > 0 => NotFree(R, o, size[b])
    /\ \A a \in active : size[a] > 0 =>
          /\ NotFree(R, offset[a], size[a])
          /\ size[b] > 0 => offset[a] + size[a] <= o \/ o + size[b] <= offset[a]
    /\ \A x \in Nat : x < t =>
          \/ Cover(R, x) \/ In(x, o, size[b])
          \/ \E a \in active : In(x, offset[a], size[a])

\* Placing a buffer of known size keeps the invariant, if its bytes were free or
\* above the arena and the free list has lost just those.
LEMMA PlaceStep ==
    ASSUME IInv, NEW b \in Buffer, NEW o, NEW R, NEW t, Ready(b), Placeable(b, o, R, t),
           Settle(b, o), blocks' = R, top' = t
    PROVE  IInv'
<1>1. /\ b \in todo /\ b \notin dynamic
      /\ \A c \in todo \ dynamic : start[b] <= start[c]
      /\ \A a \in active : start[b] < end[a]
  <2>1. /\ b \in todo /\ b \notin dynamic
        /\ \A c \in todo \ dynamic : Before(b, c)
        /\ \A a \in active : start[b] < end[a]
    BY ZenonT(40) DEF Ready, Upcoming
  <2>2. start \in [Buffer -> Nat] /\ todo \subseteq Buffer
    BY ZenonT(40) DEF IInv, TypeOK, Input
  <2>. QED
    BY <2>1, <2>2, SMTT(30) DEF Before
<1>2. /\ offset' = [offset EXCEPT ![b] = o] /\ active' = active \cup {b}
      /\ todo' = todo \ {b} /\ cursor' = cursor
      /\ start' = start /\ end' = end /\ size' = size /\ align' = align /\ dynamic' = dynamic
    BY ZenonT(40) DEF Settle, input
<1>3. /\ offset \in [Buffer -> Nat] /\ size \in [Buffer -> Nat] /\ todo \subseteq Buffer
      /\ active \subseteq Buffer \ todo /\ cursor \in Nat /\ top \in Nat
      /\ start \in [Buffer -> Nat] /\ end \in [Buffer -> Nat] /\ align \in [Buffer -> Nat \ {0}]
    BY ZenonT(40) DEF IInv, TypeOK, Input
<1>4. b \notin active /\ offset'[b] = o /\ \A a \in Buffer : a # b => offset'[a] = offset[a]
    BY <1>1, <1>2, <1>3, ZenonT(40)
<1>5. /\ o \in Nat /\ t \in Nat /\ top <= t /\ o + size[b] <= t /\ o % align[b] = 0
      /\ Blocks(R) /\ \A blk \in R : blk.offset + blk.size <= t
      /\ size[b] > 0 => NotFree(R, o, size[b])
    BY ZenonT(40) DEF Placeable
<1>6. \A a \in active : size[a] > 0 =>
          /\ NotFree(R, offset[a], size[a])
          /\ size[b] > 0 => offset[a] + size[a] <= o \/ o + size[b] <= offset[a]
    BY ZenonT(40) DEF Placeable
<1>7. TypeOK'
  <2>1. offset' \in [Buffer -> Nat] /\ todo' \subseteq Buffer /\ active' \subseteq Buffer \ todo'
    BY <1>2, <1>3, <1>5, ZenonT(40)
  <2>2. Input'
    BY <1>2, ZenonT(40) DEF IInv, TypeOK, Input
  <2>3. blocks' \subseteq Block
    BY <1>5, ZenonT(40) DEF Blocks
  <2>. QED
    BY <1>2, <1>3, <1>5, <2>1, <2>2, <2>3, ZenonT(40) DEF TypeOK
<1>8. Packed'
  <2>1. \A a \in active' : size'[a] > 0 => NotFree(R, offset'[a], size'[a])
    BY <1>2, <1>3, <1>4, <1>5, <1>6, ZenonT(40)
  <2>2. \A a, c \in active' : a # c /\ size'[a] > 0 /\ size'[c] > 0 => Apart(a, c)'
    BY <1>2, <1>3, <1>4, <1>6, SMTT(30) DEF IInv, Packed, Apart
  <2>3. active' \cap dynamic' = {}
    BY <1>1, <1>2, ZenonT(40) DEF IInv, Packed
  <2>. QED
    BY <1>5, <2>1, <2>2, <2>3, ZenonT(40) DEF Packed
<1>9. Covered'
  <2>1. ASSUME NEW x \in Nat, x < t PROVE Cover(R, x) \/ \E a \in active' : In(x, offset'[a], size'[a])
    <3>1. \/ Cover(R, x) \/ In(x, o, size[b])
          \/ \E a \in active : In(x, offset[a], size[a])
      BY <2>1, ZenonT(40) DEF Placeable
    <3>. QED
      BY <1>2, <1>3, <1>4, <3>1, ZenonT(40)
  <2>. QED
    BY <2>1, <1>5, ZenonT(40) DEF Covered
<1>10. Ordered'
    BY <1>1, <1>2, <1>3, ZenonT(40) DEF IInv, Ordered
<1>11. Stacked'
  <2>1. \A a \in Buffer \ (todo' \cup dynamic') : offset'[a] + size'[a] <= top'
    BY <1>2, <1>3, <1>4, <1>5, SMTT(30) DEF IInv, Stacked
  <2>2. dynamic \subseteq todo /\ dynamic' \subseteq todo'
    BY <1>1, <1>2, ZenonT(40) DEF IInv, Stacked
  <2>. QED
    BY <2>1, <2>2, ZenonT(40) DEF Stacked
<1>12. PackedApart'
  <2>1. \A a \in Buffer \ (todo \cup dynamic) : Coexist(a, b) => a \in active
    BY <1>1, <1>3, SMTT(30) DEF IInv, Ordered, Coexist
  <2>2. ASSUME NEW a \in Buffer \ (todo \cup dynamic), Coexist(a, b), size[a] > 0, size[b] > 0
        PROVE  offset[a] + size[a] <= o \/ o + size[b] <= offset[a]
    BY <1>6, <2>1, <2>2, ZenonT(40)
  <2>3. SUFFICES ASSUME NEW a \in Buffer, NEW c \in Buffer, a \notin todo' \cup dynamic',
                        c \notin todo' \cup dynamic', a # c, Coexist(a, c)', size'[a] > 0, size'[c] > 0
                 PROVE  Apart(a, c)'
    BY ZenonT(40) DEF PackedApart
  <2>4. Coexist(a, c) /\ Coexist(c, a) /\ size[a] > 0 /\ size[c] > 0
    BY <1>2, <2>3, ZenonT(40) DEF Coexist
  <2>5. CASE a # b /\ c # b
    <3>1. Apart(a, c)
      BY <1>2, <2>3, <2>4, <2>5, ZenonT(40) DEF IInv, PackedApart
    <3>. QED
      BY <1>2, <1>4, <2>5, <3>1, ZenonT(40) DEF Apart
  <2>6. CASE a = b
    <3>1. offset[c] + size[c] <= o \/ o + size[b] <= offset[c]
      BY <1>2, <2>2, <2>3, <2>4, <2>6, ZenonT(40)
    <3>. QED
      BY <1>2, <1>4, <2>3, <2>6, <3>1, ZenonT(40) DEF Apart
  <2>7. CASE c = b
    <3>1. offset[a] + size[a] <= o \/ o + size[b] <= offset[a]
      BY <1>2, <2>2, <2>3, <2>4, <2>7, ZenonT(40)
    <3>. QED
      BY <1>2, <1>4, <2>3, <2>7, <3>1, ZenonT(40) DEF Apart
  <2>. QED
    BY <2>5, <2>6, <2>7, ZenonT(40)
<1>13. Aligned'
    BY <1>2, <1>3, <1>4, <1>5, ZenonT(40) DEF IInv, Aligned
<1>. QED
    BY <1>7, <1>8, <1>9, <1>10, <1>11, <1>12, <1>13, ZenonT(40) DEF IInv

\* The facts on types that the steps need.
LEMMA Shapes ==
    ASSUME IInv
    PROVE  /\ offset \in [Buffer -> Nat] /\ size \in [Buffer -> Nat]
           /\ start \in [Buffer -> Nat] /\ end \in [Buffer -> Nat]
           /\ align \in [Buffer -> Nat \ {0}]
           /\ todo \subseteq Buffer /\ active \subseteq Buffer \ todo
           /\ top \in Nat /\ cursor \in Nat
           /\ \A blk \in blocks : blk.offset \in Nat /\ blk.size \in Nat /\ blk.size > 0
           /\ \A a \in active : offset[a] + size[a] <= top
<1>1. /\ offset \in [Buffer -> Nat] /\ size \in [Buffer -> Nat]
      /\ start \in [Buffer -> Nat] /\ end \in [Buffer -> Nat]
      /\ align \in [Buffer -> Nat \ {0}]
      /\ todo \subseteq Buffer /\ active \subseteq Buffer \ todo
      /\ top \in Nat /\ cursor \in Nat
    BY ZenonT(40) DEF IInv, TypeOK, Input
<1>2. \A blk \in blocks : blk.offset \in Nat /\ blk.size \in Nat /\ blk.size > 0
    BY ZenonT(40) DEF IInv, Packed, Blocks, Block
<1>3. \A a \in active : a \in Buffer \ (todo \cup dynamic)
    BY <1>1, ZenonT(40) DEF IInv, Packed
<1>. QED
    BY <1>1, <1>2, <1>3, ZenonT(40) DEF IInv, Stacked

\* Reuse, the best-fit branch of LinearScanPack, keeps the invariant.
LEMMA ReuseStep ==
    ASSUME IInv, NEW b \in Buffer, NEW blk \in blocks, Reuse(b, blk)
    PROVE  IInv'
<1> DEFINE o == AlignUpSize(blk.offset, align[b])
           R == CarveBlock(blk, b)
<1>1. /\ align[b] \in Nat \ {0} /\ size[b] \in Nat /\ top \in Nat
      /\ blk.offset \in Nat /\ blk.size \in Nat
      /\ active \subseteq Buffer /\ offset \in [Buffer -> Nat] /\ size \in [Buffer -> Nat]
    BY Shapes, ZenonT(40)
<1>2. o \in Nat /\ blk.offset <= o /\ o % align[b] = 0
    BY <1>1, AlignUp, ZenonT(40)
<1>3. o + size[b] <= blk.offset + blk.size
    BY ZenonT(40) DEF Reuse, BestFit, Fits
<1>4. Blocks(blocks) /\ \A c \in blocks : c.offset + c.size <= top
    BY ZenonT(40) DEF IInv, Packed
<1>5. Carved(blocks, o, size[b], R)
    BY <1>1, <1>2, <1>3, <1>4, CarveSound, ZenonT(40) DEF CarveBlock
<1> HIDE DEF o, R
<1>6. Placeable(b, o, R, top)
  <2>1. Blocks(R) /\ (size[b] > 0 => NotFree(R, o, size[b]))
    BY <1>5, ZenonT(40) DEF Carved
  <2>2. \A c \in R : c.offset + c.size <= top
    BY <1>1, <1>4, <1>5, ZenonT(40) DEF Carved
  <2>3. \A a \in active : size[a] > 0 => NotFree(R, offset[a], size[a])
    BY <1>1, <1>5, SMTT(30) DEF Carved, IInv, Packed
  <2>4. o + size[b] <= top
    BY <1>1, <1>2, <1>3, <1>4, SMTT(30)
  <2>5. ASSUME NEW a \in active, size[a] > 0, size[b] > 0
        PROVE  offset[a] + size[a] <= o \/ o + size[b] <= offset[a]
    <3>1. NotFree(blocks, offset[a], size[a])
      BY <2>5, ZenonT(40) DEF IInv, Packed
    <3>. QED
      BY <1>1, <1>2, <1>3, <3>1, SMTT(30) DEF NotFree
  <2>6. ASSUME NEW x \in Nat, x < top
        PROVE  \/ Cover(R, x) \/ In(x, o, size[b])
               \/ \E a \in active : In(x, offset[a], size[a])
    BY <1>5, <2>6, ZenonT(40) DEF Carved, IInv, Covered, In
  <2>. QED
    BY <1>1, <1>2, <2>1, <2>2, <2>3, <2>4, <2>5, <2>6, SMTT(30) DEF Placeable
<1>7. Ready(b) /\ Settle(b, o) /\ blocks' = R /\ top' = top
    BY ZenonT(40) DEF Reuse, o, R
<1>. QED
    BY <1>6, <1>7, PlaceStep, ZenonT(40)

\* Extend, AllocateFromTail, keeps the invariant.
LEMMA ExtendStep ==
    ASSUME IInv, NEW b \in Buffer, NEW blk \in blocks, Extend(b, blk)
    PROVE  IInv'
<1> DEFINE o == AlignUpSize(blk.offset, align[b])
           B0 == blocks \ {blk}
           R == Insert(B0, blk.offset, o - blk.offset)
           t == o + size[b]
<1>1. /\ align[b] \in Nat \ {0} /\ size[b] \in Nat /\ top \in Nat
      /\ blk.offset \in Nat /\ blk.size \in Nat /\ blk.size > 0
      /\ active \subseteq Buffer /\ offset \in [Buffer -> Nat] /\ size \in [Buffer -> Nat]
      /\ \A c \in blocks : c.offset \in Nat /\ c.size \in Nat /\ c.size > 0
      /\ \A a \in active : offset[a] + size[a] <= top
    BY Shapes, ZenonT(40)
<1>2. o \in Nat /\ blk.offset <= o /\ o % align[b] = 0
    BY <1>1, AlignUp, ZenonT(40)
<1>3. blk.offset + blk.size = top /\ o < top /\ top < t
    BY <1>1, <1>2, SMTT(30) DEF Extend, AtTop, Fits
<1>4. Blocks(blocks) /\ \A c \in blocks : c.offset + c.size <= top
    BY DEF IInv, Packed
<1>5. Blocks(B0)
    BY <1>4, ZenonT(40) DEF Blocks
<1>6. \A c \in B0 : c.offset + c.size < blk.offset
    BY <1>1, <1>3, <1>4, SMTT(30) DEF Blocks
<1>7. Inserted(B0, blk.offset, o - blk.offset, R)
  <2>1. NotFree(B0, blk.offset, o - blk.offset)
    BY <1>6, <1>1, <1>2, SMTT(30) DEF NotFree
  <2>. QED
    BY <1>1, <1>2, <1>5, <2>1, InsertSound, SMTT(30)
<1> HIDE DEF o, R, t
<1>8. Placeable(b, o, R, t)
  <2>0. t \in Nat /\ t = o + size[b] /\ size[b] > 0
    BY <1>1, <1>2, <1>3, SMTT(30) DEF t
  <2>1. Blocks(R)
    BY <1>7, ZenonT(40) DEF Inserted
  <2>2. \A c \in R : c.offset + c.size <= t
    <3>1. blk.offset + (o - blk.offset) <= t /\ \A c \in B0 : c.offset + c.size <= t
      BY <1>1, <1>2, <1>3, <1>6, <2>0, SMTT(30)
    <3>. QED
      BY <2>0, <3>1, <1>7, ZenonT(40) DEF Inserted
  <2>3. NotFree(R, o, size[b])
    <3>1. NotFree(B0, o, size[b]) /\ blk.offset + (o - blk.offset) <= o
      BY <1>1, <1>2, <1>6, SMTT(30) DEF NotFree
    <3>2. o \in Nat /\ size[b] \in Nat \ {0}
      BY <1>1, <1>2, <2>0, SMTT(30)
    <3>3. \A u \in Nat, v \in Nat \ {0} :
             NotFree(B0, u, v) /\ (blk.offset + (o - blk.offset) <= u \/ u + v <= blk.offset)
               => NotFree(R, u, v)
      BY <1>7, ZenonT(40) DEF Inserted
    <3>. QED
      BY <3>1, <3>2, <3>3, ZenonT(40)
  <2>4. ASSUME NEW a \in active, size[a] > 0
        PROVE  NotFree(R, offset[a], size[a]) /\ offset[a] + size[a] <= o
    <3>1. NotFree(blocks, offset[a], size[a])
      BY <2>4, ZenonT(40) DEF IInv, Packed
    <3>2. offset[a] + size[a] <= blk.offset
      BY <1>1, <1>3, <2>4, <3>1, SMTT(30) DEF NotFree
    <3>3. NotFree(B0, offset[a], size[a])
      BY <3>1, ZenonT(40) DEF NotFree
    <3>. QED
      BY <1>1, <1>2, <1>7, <2>4, <3>2, <3>3, SMTT(30) DEF Inserted
  <2>5. ASSUME NEW x \in Nat, x < t
        PROVE  \/ Cover(R, x) \/ In(x, o, size[b])
               \/ \E a \in active : In(x, offset[a], size[a])
    <3>1. CASE x >= o
      BY <2>0, <2>5, <3>1, ZenonT(40) DEF In
    <3>2. CASE x < o
      <4>1. CASE x >= blk.offset
        BY <1>1, <1>2, <1>7, <3>2, <4>1, SMTT(30) DEF Inserted
      <4>2. CASE x < blk.offset
        <5>1. Cover(blocks, x) \/ \E a \in active : In(x, offset[a], size[a])
          BY <1>1, <1>2, <1>3, <3>2, SMTT(30) DEF IInv, Covered
        <5>2. Cover(blocks, x) => Cover(B0, x)
          BY <1>1, <4>2, SMTT(30) DEF Cover
        <5>. QED
          BY <5>1, <5>2, <1>7, ZenonT(40) DEF Inserted
      <4>. QED
        BY <1>1, <4>1, <4>2, SMTT(30)
    <3>. QED
      BY <1>2, <3>1, <3>2, SMTT(30)
  <2>. QED
    BY <1>1, <1>2, <1>3, <2>0, <2>1, <2>2, <2>3, <2>4, <2>5, SMTT(30) DEF Placeable
<1>9. Ready(b) /\ Settle(b, o) /\ blocks' = R /\ top' = t
    BY ZenonT(40) DEF Extend, o, R, t
<1>. QED
    BY <1>8, <1>9, PlaceStep, ZenonT(40)

\* Bump, which grows the arena, keeps the invariant.
LEMMA BumpStep ==
    ASSUME IInv, NEW b \in Buffer, Bump(b)
    PROVE  IInv'
<1> DEFINE o == AlignUpSize(top, align[b])
           R == Insert(blocks, top, o - top)
           t == o + size[b]
<1>1. /\ align[b] \in Nat \ {0} /\ size[b] \in Nat /\ top \in Nat
      /\ active \subseteq Buffer /\ offset \in [Buffer -> Nat] /\ size \in [Buffer -> Nat]
      /\ \A c \in blocks : c.offset \in Nat /\ c.size \in Nat /\ c.size > 0
      /\ \A a \in active : offset[a] + size[a] <= top
    BY Shapes, ZenonT(40)
<1>2. o \in Nat /\ top <= o /\ o % align[b] = 0
    BY <1>1, AlignUp, ZenonT(40)
<1>3. Blocks(blocks) /\ \A c \in blocks : c.offset + c.size <= top
    BY ZenonT(40) DEF IInv, Packed
<1>4. Inserted(blocks, top, o - top, R)
  <2>1. NotFree(blocks, top, o - top)
    BY <1>3, ZenonT(40) DEF NotFree
  <2>. QED
    BY <1>1, <1>2, <1>3, <2>1, InsertSound, SMTT(30)
<1> HIDE DEF o, R, t
<1>5. Placeable(b, o, R, t)
  <2>0. t \in Nat /\ t = o + size[b] /\ top <= t /\ top + (o - top) = o
    BY <1>1, <1>2, SMTT(30) DEF t
  <2>1. Blocks(R)
    BY <1>4, ZenonT(40) DEF Inserted
  <2>2. \A c \in R : c.offset + c.size <= t
    <3>1. top + (o - top) <= t /\ \A c \in blocks : c.offset + c.size <= t
      BY <1>1, <1>2, <1>3, <2>0, SMTT(30)
    <3>. QED
      BY <2>0, <3>1, <1>4, ZenonT(40) DEF Inserted
  <2>3. ASSUME size[b] > 0 PROVE NotFree(R, o, size[b])
    <3>1. NotFree(blocks, o, size[b]) /\ top + (o - top) <= o
      BY <1>1, <1>2, <1>3, SMTT(30) DEF NotFree
    <3>2. o \in Nat /\ size[b] \in Nat \ {0}
      BY <1>1, <1>2, <2>3, SMTT(30)
    <3>3. \A u \in Nat, v \in Nat \ {0} :
             NotFree(blocks, u, v) /\ (top + (o - top) <= u \/ u + v <= top) => NotFree(R, u, v)
      BY <1>4, ZenonT(40) DEF Inserted
    <3>. QED
      BY <3>1, <3>2, <3>3, ZenonT(40)
  <2>4. ASSUME NEW a \in active, size[a] > 0
        PROVE  NotFree(R, offset[a], size[a]) /\ offset[a] + size[a] <= o
    <3>1. NotFree(blocks, offset[a], size[a])
      BY <2>4, ZenonT(40) DEF IInv, Packed
    <3>. QED
      BY <1>1, <1>2, <1>4, <2>4, <3>1, SMTT(30) DEF Inserted
  <2>5. ASSUME NEW x \in Nat, x < t
        PROVE  \/ Cover(R, x) \/ In(x, o, size[b])
               \/ \E a \in active : In(x, offset[a], size[a])
    <3>1. CASE x >= o
      BY <2>0, <2>5, <3>1, ZenonT(40) DEF In
    <3>2. CASE x < o /\ x >= top
      BY <1>1, <1>2, <1>4, <2>0, <3>2, ZenonT(40) DEF Inserted
    <3>3. CASE x < top
      <4>1. Cover(blocks, x) \/ \E a \in active : In(x, offset[a], size[a])
        BY <3>3, ZenonT(40) DEF IInv, Covered
      <4>. QED
        BY <4>1, <1>4, ZenonT(40) DEF Inserted
    <3>. QED
      BY <1>1, <1>2, <3>1, <3>2, <3>3, SMTT(30)
  <2>. QED
    BY <1>1, <1>2, <2>0, <2>1, <2>2, <2>3, <2>4, <2>5, SMTT(30) DEF Placeable
<1>6. Ready(b) /\ Settle(b, o) /\ blocks' = R /\ top' = t
    BY ZenonT(40) DEF Bump, o, R, t
<1>. QED
    BY <1>5, <1>6, PlaceStep, ZenonT(40)

\* Retire, which frees a dead buffer, keeps the invariant.
LEMMA RetireStep ==
    ASSUME IInv, NEW a \in Buffer, NEW b \in Buffer, Retire(a, b)
    PROVE  IInv'
<1>1. /\ a \in active /\ end[a] <= start[b] /\ b \in todo \ dynamic
      /\ \A c \in todo \ dynamic : Before(b, c)
      /\ active' = active \ {a} /\ blocks' = Insert(blocks, offset[a], size[a])
      /\ todo' = todo /\ top' = top /\ offset' = offset /\ cursor' = cursor
      /\ start' = start /\ end' = end /\ size' = size /\ align' = align /\ dynamic' = dynamic
    BY ZenonT(40) DEF Retire, Upcoming, input
<1>2. /\ offset \in [Buffer -> Nat] /\ size \in [Buffer -> Nat]
      /\ start \in [Buffer -> Nat] /\ end \in [Buffer -> Nat]
      /\ todo \subseteq Buffer /\ active \subseteq Buffer \ todo /\ top \in Nat
      /\ \A c \in active : offset[c] + size[c] <= top
    BY Shapes, ZenonT(40)
<1>3. /\ Blocks(blocks)
      /\ \A c \in blocks : c.offset + c.size <= top
      /\ active \cap dynamic = {}
      /\ \A c \in active : size[c] > 0 => NotFree(blocks, offset[c], size[c])
      /\ \A c, d \in active : c # d /\ size[c] > 0 /\ size[d] > 0 => Apart(c, d)
    BY ZenonT(40) DEF IInv, Packed
<1>4. Inserted(blocks, offset[a], size[a], blocks')
  <2>1. size[a] > 0 => NotFree(blocks, offset[a], size[a])
    BY <1>1, <1>3, ZenonT(40)
  <2>2. offset[a] \in Nat /\ size[a] \in Nat
    BY <1>2, ZenonT(40)
  <2>. QED
    BY <1>1, <1>3, <2>1, <2>2, InsertSound, ZenonT(40)
<1>5. TypeOK'
  <2>1. Input'
    BY <1>1, ZenonT(40) DEF IInv, TypeOK, Input
  <2>2. blocks' \subseteq Block
    BY <1>4, ZenonT(40) DEF Inserted, Blocks
  <2>. QED
    BY <1>1, <2>1, <2>2, ZenonT(40) DEF IInv, TypeOK
<1>6. Packed'
  <2>1. Blocks(blocks') /\ \A blk \in blocks' : blk.offset + blk.size <= top
    BY <1>1, <1>2, <1>3, <1>4, ZenonT(40) DEF Inserted
  <2>2. ASSUME NEW c \in active', size[c] > 0 PROVE NotFree(blocks', offset[c], size[c])
    <3>1. c # a /\ c \in active /\ NotFree(blocks, offset[c], size[c])
      BY <1>1, <1>3, <2>2, ZenonT(40)
    <3>2. CASE size[a] = 0
      BY <1>1, <3>1, <3>2, ZenonT(40) DEF Insert
    <3>3. CASE size[a] # 0
      <4>1. Apart(a, c)
        BY <1>1, <1>2, <1>3, <2>2, <3>1, <3>3, SMTT(30)
      <4>. QED
        BY <1>1, <1>2, <1>4, <2>2, <3>1, <4>1, SMTT(30) DEF Inserted, Apart
    <3>. QED
      BY <3>2, <3>3, ZenonT(40)
  <2>3. \A c, d \in active' : c # d /\ size'[c] > 0 /\ size'[d] > 0 => Apart(c, d)'
    <3>1. \A c \in active' : c \in active
      BY <1>1, ZenonT(40)
    <3>. QED
      BY <1>1, <1>3, <3>1, ZenonT(40) DEF Apart
  <2>4. active' \cap dynamic' = {}
    BY <1>1, <1>3, ZenonT(40)
  <2>. QED
    BY <1>1, <2>1, <2>2, <2>3, <2>4, ZenonT(40) DEF Packed
<1>7. Covered'
  <2>1. ASSUME NEW x \in Nat, x < top
        PROVE  Cover(blocks', x) \/ \E c \in active' : In(x, offset[c], size[c])
    <3>1. Cover(blocks, x) \/ \E c \in active : In(x, offset[c], size[c])
      BY <2>1, ZenonT(40) DEF IInv, Covered
    <3>. QED
      BY <1>1, <1>4, <3>1, ZenonT(40) DEF Inserted, In
  <2>. QED
    BY <1>1, <2>1, ZenonT(40) DEF Covered
<1>8. Ordered'
  <2>1. \A c \in todo \ dynamic : start[b] <= start[c]
    BY <1>1, <1>2, SMTT(30) DEF Before
  <2>. QED
    BY <1>1, <1>2, <2>1, SMTT(30) DEF IInv, Ordered
<1>9. Stacked' /\ PackedApart' /\ Aligned'
    BY <1>1, ZenonT(40) DEF IInv, Stacked, PackedApart, Aligned, Apart, Coexist
<1>. QED
    BY <1>5, <1>6, <1>7, <1>8, <1>9, ZenonT(40) DEF IInv

\* Append, the dynamic part of PlanMemory, keeps the invariant.
LEMMA AppendStep ==
    ASSUME IInv, NEW b \in Buffer, Append(b)
    PROVE  IInv'
<1> DEFINE from == IF dynamic \subseteq todo THEN AlignPrimExpr(top, AlignBytes) ELSE cursor
           o == AlignPrimExpr(from, align[b])
<1>1. /\ todo \subseteq dynamic /\ b \in todo
      /\ offset' = [offset EXCEPT ![b] = o] /\ cursor' = o + size[b] /\ todo' = todo \ {b}
      /\ active' = active /\ blocks' = blocks /\ top' = top
      /\ start' = start /\ end' = end /\ size' = size /\ align' = align /\ dynamic' = dynamic
    BY ZenonT(40) DEF Append, input
<1>2. /\ offset \in [Buffer -> Nat] /\ size \in [Buffer -> Nat]
      /\ align \in [Buffer -> Nat \ {0}]
      /\ todo \subseteq Buffer /\ active \subseteq Buffer \ todo
      /\ top \in Nat /\ cursor \in Nat
    BY Shapes, ZenonT(40)
<1>3. from \in Nat /\ top <= from
    BY <1>2, AlignExpr, ArenaAssumption, ZenonT(40) DEF IInv, Stacked
<1>4. o \in Nat /\ from <= o /\ o % align[b] = 0
    BY <1>2, <1>3, AlignExpr, ZenonT(40)
<1>5. \A a \in dynamic \ todo : offset[a] + size[a] <= from
    BY ZenonT(40) DEF IInv, Stacked
<1> HIDE DEF from, o
<1>6. offset'[b] = o /\ \A a \in Buffer : a # b => offset'[a] = offset[a]
    BY <1>1, <1>2, ZenonT(40)
<1>7. TypeOK'
  <2>1. offset' \in [Buffer -> Nat] /\ cursor' \in Nat /\ todo' \subseteq Buffer
    BY <1>1, <1>2, <1>4, SMTT(30)
  <2>2. Input'
    BY <1>1, Zenon DEF IInv, TypeOK, Input
  <2>. QED
    BY <1>1, <1>2, <2>1, <2>2, ZenonT(40) DEF IInv, TypeOK
<1>8. \A a \in active : a # b
    BY <1>1, <1>2, ZenonT(40)
<1>9. Packed' /\ Covered'
  <2>1. \A a \in active : offset'[a] = offset[a]
    BY <1>2, <1>6, <1>8, ZenonT(40)
  <2>. QED
    BY <1>1, <2>1, ZenonT(40) DEF IInv, Packed, Covered, Apart
<1>10. Ordered'
    BY <1>1, Zenon DEF IInv, Ordered
<1>11. \A a \in Buffer \ (todo' \cup dynamic') : a # b /\ a \in Buffer \ (todo \cup dynamic)
    BY <1>1, ZenonT(40)
<1>12. Stacked'
  <2>1. \A a \in Buffer \ (todo' \cup dynamic') : offset'[a] + size'[a] <= top'
    BY <1>1, <1>6, <1>11, ZenonT(40) DEF IInv, Stacked
  <2>2. todo' \subseteq dynamic' /\ top' <= cursor'
    BY <1>1, <1>2, <1>3, <1>4, SMTT(30)
  <2>3. \A a \in dynamic' \ todo' : a = b \/ (a # b /\ a \in dynamic \ todo)
    BY <1>1, ZenonT(40)
  <2>4. \A a \in dynamic : a \in Buffer
    BY ZenonT(40) DEF IInv, TypeOK, Input
  <2>5. \A a \in dynamic' \ todo' : top' <= offset'[a] /\ offset'[a] + size'[a] <= cursor'
    BY <1>1, <1>2, <1>3, <1>4, <1>5, <1>6, <2>3, <2>4, SMTT(30) DEF IInv, Stacked
  <2>6. \A a, c \in dynamic' \ todo' : a # c => Apart(a, c)'
    BY <1>1, <1>2, <1>3, <1>4, <1>5, <1>6, <2>3, <2>4, SMTT(30) DEF IInv, Stacked, Apart
  <2>. QED
    BY <2>1, <2>2, <2>5, <2>6, ZenonT(40) DEF Stacked
<1>13. PackedApart'
    BY <1>1, <1>6, <1>11, SMTT(30) DEF IInv, PackedApart, Apart, Coexist
<1>14. Aligned'
    BY <1>1, <1>2, <1>4, <1>6, ZenonT(40) DEF IInv, Aligned
<1>. QED
    BY <1>7, <1>9, <1>10, <1>12, <1>13, <1>14, Zenon DEF IInv
----------------------------------------------------------------------------
(* The theorems *)

\* LinearScanPack and PlanMemory preserve the inductive invariant.
THEOREM ArenaInvariant == Spec => []IInv
<1>1. Init => IInv
  <2> SUFFICES ASSUME Init PROVE IInv
    BY ZenonT(40)
  <2>1. TypeOK
    BY ZenonT(40) DEF Init, Fresh, TypeOK
  <2>2. Packed /\ Covered /\ Ordered /\ PackedApart /\ Aligned
    BY SMTT(30) DEF Init, Fresh, Packed, Covered, Ordered, PackedApart, Aligned, Blocks
  <2>3. Stacked
    BY ZenonT(40) DEF Init, Input, Fresh, Stacked
  <2>. QED
    BY <2>1, <2>2, <2>3, ZenonT(40) DEF IInv
<1>2. IInv /\ [Next]_vars => IInv'
  <2> SUFFICES ASSUME IInv, [Next]_vars PROVE IInv'
    BY ZenonT(40)
  <2>1. CASE UNCHANGED vars
    BY <2>1, ZenonT(40) DEF vars, input, IInv, TypeOK, Input, Packed, Covered, Ordered, Stacked,
       PackedApart, Aligned, Apart, Coexist
  <2>2. CASE Next
    BY <2>1, <2>2, ReuseStep, ExtendStep, BumpStep, RetireStep, AppendStep, Zenon DEF Next, Done
  <2>. QED
    BY <2>1, <2>2, ZenonT(40)
<1>. QED
    BY <1>1, <1>2, PTL DEF Spec

\* The variables of the packing always have the types the code gives them.
THEOREM ArenaTypes == Spec => []TypeOK
BY ArenaInvariant, PTL DEF IInv

\* Whatever the buffers, two that are live at the same time share no byte: the
\* overlap check of PlanMemory cannot fail on a plan of LinearScanPack.
THEOREM LiveBuffersAreApart == Spec => []LiveApart
<1>1. IInv => LiveApart
  <2> SUFFICES ASSUME IInv, NEW a \in Buffer \ todo, NEW b \in Buffer \ todo,
                      a # b, Coexist(a, b), size[a] > 0, size[b] > 0
               PROVE  Apart(a, b)
    BY ZenonT(40) DEF LiveApart
  <2>1. CASE a \notin dynamic /\ b \notin dynamic
    BY <2>1, ZenonT(40) DEF IInv, PackedApart
  <2>2. CASE a \in dynamic /\ b \in dynamic
    BY <2>2, ZenonT(40) DEF IInv, Stacked
  <2>3. offset[a] \in Nat /\ offset[b] \in Nat /\ size[a] \in Nat /\ size[b] \in Nat /\ top \in Nat
    BY Shapes, ZenonT(40)
  <2>4. CASE a \in dynamic <=> b \notin dynamic
    BY <2>3, <2>4, SMTT(30) DEF IInv, Stacked, Apart
  <2>. QED
    BY <2>1, <2>2, <2>4, ZenonT(40)
<1>. QED
    BY <1>1, ArenaInvariant, PTL

\* Buffers of dynamic size are appended to space that nobody else has.
THEOREM DynamicBuffersAreApart == Spec => []DynamicApart
<1>1. IInv => DynamicApart
  <2> SUFFICES ASSUME IInv, NEW a \in dynamic \ todo, NEW b \in Buffer \ todo, a # b
               PROVE  Apart(a, b)
    BY ZenonT(40) DEF DynamicApart
  <2>1. CASE b \in dynamic
    BY <2>1, ZenonT(40) DEF IInv, Stacked
  <2>2. a \in Buffer
    BY ZenonT(40) DEF IInv, TypeOK, Input
  <2>3. offset[a] \in Nat /\ offset[b] \in Nat /\ size[a] \in Nat /\ size[b] \in Nat /\ top \in Nat
    BY <2>2, Shapes, ZenonT(40)
  <2>4. CASE b \notin dynamic
    BY <2>3, <2>4, SMTT(30) DEF IInv, Stacked, Apart
  <2>. QED
    BY <2>1, <2>4, ZenonT(40)
<1>. QED
    BY <1>1, ArenaInvariant, PTL

\* Every buffer gets the alignment it asked for.
THEOREM BuffersAreAligned == Spec => []Aligned
    BY ArenaInvariant, PTL DEF IInv

\* The free list stays sorted and coalesced.
THEOREM FreeListIsCoalesced == Spec => []Coalesced
<1>1. IInv => Coalesced
    BY ZenonT(40) DEF IInv, Packed, Blocks, Coalesced
<1>. QED
    BY <1>1, ArenaInvariant, PTL

\* The packing loses no byte of the arena and gives none to two buffers.
THEOREM NoByteIsLost == Spec => []Partition
<1>1. IInv => Partition
  <2> SUFFICES ASSUME IInv, NEW x \in 0..(top - 1)
               PROVE  Cardinality({blk \in blocks : In(x, blk.offset, blk.size)})
                        + Cardinality({a \in active : In(x, offset[a], size[a])}) = 1
    BY ZenonT(40) DEF Partition
  <2> DEFINE F == {blk \in blocks : In(x, blk.offset, blk.size)}
             U == {a \in active : In(x, offset[a], size[a])}
  <2>0. /\ top \in Nat /\ x \in Nat /\ x < top /\ active \subseteq Buffer
        /\ offset \in [Buffer -> Nat] /\ size \in [Buffer -> Nat]
        /\ \A blk \in blocks : blk.offset \in Nat /\ blk.size \in Nat
    BY Shapes, SMTT(30)
  <2>1. F # {} \/ U # {}
    BY <2>0, ZenonT(40) DEF IInv, Covered, Cover, In
  <2>2. \A b, c \in F : b = c
    BY <2>0, SMTT(30) DEF IInv, Packed, Blocks, In
  <2>3. \A a, c \in U : a = c
    BY <2>0, SMTT(30) DEF IInv, Packed, Apart, In
  <2>4. \A a \in U, blk \in F : FALSE
    BY <2>0, SMTT(30) DEF IInv, Packed, NotFree, In
  <2> HIDE DEF F, U
  <2>5. CASE F # {}
    <3>1. PICK blk \in F : TRUE
      BY <2>5, ZenonT(40)
    <3>2. F = {blk} /\ U = {}
      BY <2>2, <2>4, <3>1, ZenonT(40)
    <3>3. Cardinality(F) = 1 /\ Cardinality(U) = 0
      BY <3>2, FS_Singleton, FS_EmptySet, ZenonT(40)
    <3>. QED
      BY <3>3, SMTT(30) DEF F, U
  <2>6. CASE F = {}
    <3>1. PICK a \in U : TRUE
      BY <2>1, <2>6, ZenonT(40)
    <3>2. U = {a}
      BY <2>3, <3>1, ZenonT(40)
    <3>3. Cardinality(F) = 0 /\ Cardinality(U) = 1
      BY <2>6, <3>2, FS_Singleton, FS_EmptySet, Zenon
    <3>. QED
      BY <3>3, SMTT(30) DEF F, U
  <2>. QED
    BY <2>5, <2>6, ZenonT(40)
<1>. QED
    BY <1>1, ArenaInvariant, PTL
=============================================================================
