--------------------------- MODULE MCPipelineRun ---------------------------
(* Families of loop bodies for PipelineRun.  Buffer 1 has two halves, 2 and  *)
(* 3 are shared tiles, 4 is the accumulator, 5 guards a conditional copy.    *)
EXTENDS PipelineRun

Cells(buf) == IF buf = 1 THEN {<<1, 1>>, <<1, 2>>} ELSE {<<buf, 1>>}
S(kind, reads, writes) == [kind |-> kind, reads |-> reads, writes |-> writes, n |-> 0]
Copy(kind, buf) == S(kind, {}, Cells(buf))
Half(h) == S("copy", {}, {<<1, h>>})
Use(reads) == S("op", reads \cup Cells(4), Cells(4))
WaitFor(n) == [S("wait", {}, {}) EXCEPT !.n = n]

UseA == Use(Cells(1))
UseB == Use(Cells(2))
UseAB == Use(Cells(1) \cup Cells(2))

Copies1 == {Copy("copy", 1), Copy("copy", 2), Half(1), Half(2)}
Uses == {UseA, UseB, UseAB, Use({<<1, 1>>}), Use({<<1, 2>>}), S("op", Cells(1), Cells(1))}
Others ==
  {Copy("scopy", 2), Copy("tma", 1), Copy("tma", 2),
   S("op", {}, Cells(5)), S("scopy", Cells(5), Cells(3)), Use(Cells(3) \cup Cells(5)), Use(Cells(3))}
Explicit ==
  {Copy("cp", 1), Copy("cp", 2), S("commit", {}, {}), WaitFor(0), WaitFor(1), UseA, UseB, UseAB, Use({})}

-----------------------------------------------------------------------------
(* Bodies that are correct as a plain loop: a tile is written, and a cp.async *)
(* waited for, before it is read.                                            *)

Ready(b, c) ==
  \E i \in Idx(b) :
    /\ c \in b[i].writes
    /\ b[i].kind = "cp" => \E w \in Waits(b) : CommitsBefore(b, w) - b[w].n >= Group(b, i)

Follows(b, x) ==
  /\ x.kind \in {"commit", "wait"} \/ x \notin ToSet(b)
  /\ x.kind = "commit" => b # << >> /\ Last(b).kind = "cp"
  /\ x.kind = "wait" => b # << >> /\ Last(b).kind # "wait" /\ CommitsBefore(b, Len(b) + 1) > x.n
  /\ \A c \in x.reads : c[1] = 4 \/ Ready(b, c)

Longer(bodies, alphabet) == UNION {{Append(b, x) : x \in {y \in alphabet : Follows(b, y)}} : b \in bodies}

\* All bodies of length n, least first.
Bodies(alphabet, n) ==
  LET b1 == Longer({<< >>}, alphabet)
      b2 == Longer(b1, alphabet)
      b3 == Longer(b2, alphabet)
      b4 == Longer(b3, alphabet)
  IN CASE n = 2 -> b2 [] n = 3 -> b3 [] n = 4 -> b4 [] n = 6 -> Longer(Longer(b4, alphabet), alphabet)

\* Every tile that is written is read later; TMA copies are last used in the
\* order they are issued.
Useful(b) ==
  /\ \A i \in Idx(b) : \A c \in b[i].writes : c[1] = 4 \/ \E j \in i + 1 .. Len(b) : c \in b[j].reads
  /\ \A i, j \in Idx(b) :
       i < j /\ b[i].kind = "tma" /\ b[j].kind = "tma" => LastUse(b, i) <= LastUse(b, j)

Loop(b, ns) == [body |-> b, ns |-> ns, order |-> << >>, stage |-> << >>]

\* User-given stages: the copies at stage 0, the rest k stages later, in order.
Given(b, k) ==
  [body |-> b, ns |-> k + 1, order |-> [i \in Idx(b) |-> i],
   stage |-> [i \in Idx(b) |-> IF IsCopy(b, i) THEN 0 ELSE k]]

Family(alphabet, n, depths) ==
  {Loop(b, ns) : b \in {x \in Bodies(alphabet, n) : Useful(x)}, ns \in depths}

MCLoops ==
  Family(Copies1 \cup Uses \cup Others, 2, 1 .. 3)
  \cup Family(Copies1 \cup Uses \cup Others, 3, 1 .. 3)
  \cup Family(Copies1 \cup Uses, 4, {2})
  \cup Family(Explicit, 6, {2})
  \cup {Given(b, k) : b \in {<<Copy("copy", 1), Copy("copy", 2), UseAB>>,
                             <<Copy("copy", 1), Copy("copy", 2), UseB, UseA>>}, k \in 1 .. 2}

\* A tile that is read before it is refilled in the same iteration.
CarriedLoops == {Loop(<<UseB, Copy(kind, 2), UseB>>, 2) : kind \in {"copy", "scopy"}}
=============================================================================
