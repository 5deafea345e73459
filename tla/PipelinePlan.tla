---------------------------- MODULE PipelinePlan ----------------------------
(***************************************************************************)
(* PipelinePlanning (src/transform/pipeline_planning.cc): which statement  *)
(* of a T.Pipelined body runs in which stage and in which order.           *)
(*                                                                         *)
(* A body is a sequence of statements.  A statement has a kind, the cells  *)
(* it reads and writes, and the n of its wait_group(n).  A cell is         *)
(* <<buffer, part>>, so that two regions of one buffer may be disjoint.    *)
(*   copy    a tile copy from global to shared memory, cp.async eligible   *)
(*   scopy   such a copy that stays synchronous (conditional, or a target  *)
(*           without cp.async)                                             *)
(*   tma     a copy that lowers to a bulk load signalling an mbarrier      *)
(*   cp, commit, wait   the explicit cp.async intrinsics                   *)
(*   op      anything else                                                 *)
(***************************************************************************)
EXTENDS Integers, Sequences, FiniteSets, SequencesExt, FiniteSetsExt

Bufs(cells) == {c[1] : c \in cells}
Idx(b) == 1 .. Len(b)
Ascending(S) == SetToSortSeq(S, <)

\* PipelineStageInfo::copy_stage: the statement only moves global data in.
IsCopy(b, i) == b[i].kind \in {"copy", "scopy", "tma", "cp"}

IsAsyncProducerCandidate(b, i) == b[i].kind \in {"copy", "cp"}

-----------------------------------------------------------------------------
(* The cp.async groups of the body: group := cp_async* ; commit.           *)

CommitsBefore(b, i) == Cardinality({j \in 1 .. i - 1 : b[j].kind = "commit"})
Group(b, i) == IF b[i].kind \in {"cp", "commit"} THEN CommitsBefore(b, i) + 1 ELSE 0
Groups(b) == {Group(b, i) : i \in Idx(b)} \ {0}
CpStmts(b, g) == {i \in Idx(b) : b[i].kind = "cp" /\ Group(b, i) = g}
CommitStmts(b, g) == {i \in Idx(b) : b[i].kind = "commit" /\ Group(b, i) = g}
GroupWrites(b, G) == UNION {Bufs(b[i].writes) : i \in UNION {CpStmts(b, g) : g \in G}}

\* What one wait_group(n) must see finished: the committed groups but the last
\* n; a full drain is bound to the first later consumer no wait was bound to.
BindWait(b, acc, w) ==
  LET c == CommitsBefore(b, w)
      required == 1 .. Max({0, c - b[w].n})
      from == Max({w, acc.last}) + 1
      users == {j \in from .. Len(b) : /\ ~IsCopy(b, j)
                                       /\ Bufs(b[j].reads) \cap GroupWrites(b, Groups(b)) # {}}
  IN IF b[w].n # 0 \/ users = {}
     THEN [acc EXCEPT !.req = @ @@ (w :> required)]
     ELSE [last |-> Min(users),
           req |-> acc.req @@ (w :> {g \in Groups(b) :
                     Bufs(b[Min(users)].reads) \cap GroupWrites(b, {g}) # {}})]

Waits(b) == {i \in Idx(b) : b[i].kind = "wait"}
RequiredGroups(b) ==
  FoldLeft(LAMBDA acc, w : BindWait(b, acc, w), [last |-> 0, req |-> << >>],
           Ascending(Waits(b))).req

-----------------------------------------------------------------------------
(* First-stage statements and the last use of what they write.             *)

\* The buffers the copies depend on, closed over the statements before the
\* last copy that write one of them.
CopyDeps(b) ==
  LET last == Max({0} \cup {i \in Idx(b) : IsCopy(b, i)})
      grow(D) == D \cup UNION {Bufs(b[i].reads) : i \in
                   {j \in 1 .. last - 1 : ~IsCopy(b, j) /\ Bufs(b[j].writes) \cap D # {}}}
      reads == UNION {Bufs(b[i].reads) : i \in {j \in Idx(b) : IsCopy(b, j)}}
  IN FoldLeft(LAMBDA D, k : grow(D), reads, b)

\* (mutation) Only cp.async copies have producers.
ProducerForAsyncCopy(b, i) ==
  /\ ~IsCopy(b, i)
  /\ \E j \in Idx(b) : j > i /\ IsAsyncProducerCandidate(b, j)
  /\ Bufs(b[i].writes) \cap CopyDeps(b) # {}

IsProducerForCopy(b, i) ==
  /\ ~IsCopy(b, i)
  /\ \E j \in Idx(b) : j > i /\ IsCopy(b, j)
  /\ Bufs(b[i].writes) \cap CopyDeps(b) # {}

IsCommitStage(b, i) == b[i].kind = "commit" /\ CpStmts(b, Group(b, i)) # {}

IsFirstStage(b, i) == IsCopy(b, i) \/ IsProducerForCopy(b, i) \/ IsCommitStage(b, i)

Part(cells, buf) == {c \in cells : c[1] = buf}

\* A later read-modify-write of what copy i wrote consumes the copy.
DependentRMW(b, i, j) ==
  /\ ~IsCopy(b, j)
  /\ b[j].writes # {}
  /\ b[j].writes \subseteq b[i].writes
  /\ \A buf \in Bufs(b[j].writes) : Part(b[j].reads, buf) = Part(b[j].writes, buf)

\* "Multiple writes to overlapping buffer regions": planning gives up.
MultipleWrites(b) ==
  \E i, j \in Idx(b) :
    /\ i < j
    /\ IsCopy(b, i)
    /\ Group(b, i) = 0 \/ Group(b, i) # Group(b, j)
    /\ b[i].writes \cap b[j].writes # {}
    /\ ~DependentRMW(b, i, j)

ReadLast(b, i) == Max({0} \cup {j \in Idx(b) : j > i /\ b[j].reads \cap b[i].writes # {}})

\* last_use_stmt_index; 0 stands for -1.  A cp.async group shares one.
LastUse(b, i) ==
  LET cps == CpStmts(b, Group(b, i))
      used == Max({0} \cup {ReadLast(b, j) : j \in cps})
  IN IF Group(b, i) # 0 /\ cps # {} THEN (IF used = 0 THEN Max(cps) ELSE used)
     ELSE IF IsCopy(b, i) \/ IsProducerForCopy(b, i) THEN ReadLast(b, i) ELSE 0

-----------------------------------------------------------------------------
(* Stages and orders.                                                      *)

\* PipelineStageInfo of every statement: is it in the first stage, where is
\* what it writes used last.
Infos(b) == [i \in Idx(b) |-> [first |-> IsFirstStage(b, i), last |-> LastUse(b, i)]]

Main(info) == {i \in DOMAIN info : ~info[i].first \/ info[i].last = 0}

\* Every main statement, each followed by the first-stage statements whose
\* data it is the last to use.
Scheduled(info) ==
  FlattenSeq([k \in 1 .. Cardinality(Main(info)) |->
    LET i == Ascending(Main(info))[k] IN
    <<i>> \o Ascending({j \in DOMAIN info : info[j].first /\ info[j].last = i})])

At(seq, i) == CHOOSE k \in 1 .. Len(seq) : seq[k] = i

\* All first-stage statements come last: they move to the front.
CopiesAtEnd(info, seq) ==
  \A i, j \in DOMAIN info : info[i].first /\ ~info[j].first => At(seq, i) > At(seq, j)

Rotates(info, ns, seq) ==
  /\ ns >= 2
  /\ \E i \in DOMAIN info : info[i].first
  /\ CopiesAtEnd(info, seq)

\* The order and the stages before those of commits and waits are fixed.
Assigned(info, ns, seq) ==
  LET k == Cardinality({i \in DOMAIN info : ~info[i].first})
      rotates == Rotates(info, ns, seq)
  IN [rank |-> IF rotates THEN SubSeq(seq, k + 1, Len(seq)) \o SubSeq(seq, 1, k) ELSE seq,
      stage |-> [i \in DOMAIN info |->
                   IF i \notin Main(info) THEN 0
                   ELSE IF rotates /\ ~info[i].first THEN ns - 1 ELSE ns]]

\* A commit shares the stage of the first cp.async of its group.
CommitStage(b, a, g) ==
  a.stage[IF CpStmts(b, g) # {} THEN Min(CpStmts(b, g)) ELSE Min(CommitStmts(b, g))]

\* A commit is ordered before a cp.async of its group in the same stage.
EarlyCommit(b, a) ==
  \E g \in Groups(b) : \E c \in CommitStmts(b, g), i \in CpStmts(b, g) :
    a.stage[i] = CommitStage(b, a, g) /\ At(a.rank, c) < At(a.rank, i)

\* A wait moves to the stage of the first consumer of the groups it is for.
WaitStage(b, info, a, w, req) ==
  LET least == Max({a.stage[w]} \cup {CommitStage(b, a, g) : g \in req})
      users == {j \in Idx(b) : /\ j > w
                               /\ ~info[j].first
                               /\ Bufs(b[j].reads) \cap GroupWrites(b, req) # {}}
  IN IF req = {} THEN [ok |-> TRUE, stage |-> a.stage[w]]
     ELSE IF users = {} THEN [ok |-> TRUE, stage |-> least]
     ELSE [ok |-> a.stage[Min(users)] >= least, stage |-> a.stage[Min(users)]]

StageOf(b, info, a, req, i) ==
  CASE b[i].kind = "commit" -> CommitStage(b, a, Group(b, i))
    [] b[i].kind = "wait" -> WaitStage(b, info, a, i, req[i]).stage
    [] OTHER -> a.stage[i]

-----------------------------------------------------------------------------
(* The control dependences of explicit cp.async, and the stable            *)
(* topological sort that enforces them.                                    *)

GroupEdges(b, rank, stage) ==
  LET key(g) == Min({At(rank, i) : i \in CpStmts(b, g) \cup CommitStmts(b, g)})
      next(g, h) == /\ key(g) < key(h)
                    /\ ~\E k \in Groups(b) : key(g) < key(k) /\ key(k) < key(h)
  IN {e \in Idx(b) \X Idx(b) :
        /\ stage[e[1]] = stage[e[2]]
        /\ \E g, h \in Groups(b) :
             \/ g = h /\ e[1] \in CpStmts(b, g) /\ e[2] \in CommitStmts(b, g)
             \/ next(g, h) /\ e[1] \in CommitStmts(b, g) /\ e[2] \in CpStmts(b, h)}

\* The edges of one wait: after the commits it needs, before the same-stage
\* consumers of what it waits for, and behind independent work between.
WaitEdges(b, stage, w, req) ==
  LET bufs == GroupWrites(b, req)
      here == {j \in Idx(b) : stage[j] = stage[w]}
      users == {j \in here : j > w /\ Bufs(b[j].reads) \cap bufs # {}}
      stops == {j \in here : /\ j > w
                             /\ \/ b[j].reads \cup b[j].writes = {}
                                \/ b[j].kind \in {"cp", "commit", "wait"}}
      limit == Min(users \cup stops)
      delays == {j \in here : /\ w < j
                              /\ j < limit
                              /\ Bufs(b[j].reads \cup b[j].writes) \cap bufs = {}}
  IN {<<c, w>> : c \in here \cap UNION {CommitStmts(b, g) : g \in req}}
     \cup {<<w, j>> : j \in users}
     \cup (IF users = {} THEN {} ELSE {<<j, w>> : j \in delays})

ControlEdges(b, rank, stage, req) ==
  GroupEdges(b, rank, stage) \cup UNION {WaitEdges(b, stage, w, req[w]) : w \in Waits(b)}

TopoSort(rank, edges) ==
  LET step(done) ==
        LET rest == ToSet(rank) \ ToSet(done)
            ready == {i \in rest : ~\E j \in rest : <<j, i>> \in edges}
        IN IF ready = {} THEN done
           ELSE Append(done, rank[Min({At(rank, i) : i \in ready})])
  IN FoldLeft(LAMBDA done, k : step(done), << >>, rank)

\* The implicit cp.async group of a copy: one per stage and last use.
AsyncGroup(info, stage) == [i \in DOMAIN info |-> <<stage[i], info[i].last>>]

Failed(err) == [err |-> err]
Plan(info, stage, order) ==
  [err |-> "none", order |-> order, stage |-> stage, group |-> AsyncGroup(info, stage)]

Ordered(b, info, stage, order) ==
  IF Len(order) # Len(b) THEN Failed("cycle") ELSE Plan(info, stage, order)

\* Stages and orders of a body whose statements are all scheduled.
Staged(b, info, a, req) ==
  LET stage == [i \in Idx(b) |-> StageOf(b, info, a, req, i)]
  IN IF EarlyCommit(b, a) THEN Failed("commit order")
     ELSE IF \E w \in Waits(b) : ~WaitStage(b, info, a, w, req[w]).ok THEN Failed("wait stage")
     ELSE Ordered(b, info, stage, TopoSort(a.rank, ControlEdges(b, a.rank, stage, req)))

\* The plan, or the check of the planner that fails.
PlanOf(b, ns, info) ==
  LET seq == Scheduled(info)
  IN IF MultipleWrites(b) THEN Failed("multiple writes")
     ELSE IF Len(seq) # Len(b) THEN Failed("unscheduled")
     ELSE Staged(b, info, Assigned(info, ns, seq), RequiredGroups(b))

PipelinePlanning(b, ns) == PlanOf(b, ns, Infos(b))

\* A loop with user-given order and stage: only the async groups are planned.
Annotated(b, order, stage) ==
  IF MultipleWrites(b) THEN Failed("multiple writes") ELSE Plan(Infos(b), stage, order)
=============================================================================
