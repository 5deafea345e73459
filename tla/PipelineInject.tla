--------------------------- MODULE PipelineInject ---------------------------
(***************************************************************************)
(* InjectSoftwarePipeline (src/transform/inject_pipeline.cc): the plan of  *)
(* PipelinePlan turned into a prologue, a loop and an epilogue, with       *)
(* multi-versioned buffers, commit and wait of the cp.async groups, their  *)
(* relaxation, and the mbarrier of the TMA copies.                         *)
(*                                                                         *)
(* The result is the straight-line instruction stream one thread executes  *)
(* for a loop of e iterations: records with op "stmt" (statement s of      *)
(* iteration i), "commit", "wait" (wait_group(n)) and "mbar" (wait for the *)
(* barrier phase of iteration i).  p is a plan, ns its num_stages.         *)
(***************************************************************************)
EXTENDS PipelinePlan

MaxStage(p) == Max(Range(p.stage))

\* The dependences the pass validates: a write before a read, in body order.
ValidatePipelineBody(b, p) ==
  \A i, j \in Idx(b) :
    (i < j /\ Bufs(b[i].writes) \cap Bufs(b[j].reads) # {}) =>
      \/ p.stage[i] < p.stage[j]
      \/ p.stage[i] = p.stage[j] /\ At(p.order, i) < At(p.order, j)

HasOverlappableStages(p) == Cardinality(Range(p.stage)) > 1

\* The copies the pass makes asynchronous: explicit cp.async keeps its own.
IsAsync(b, i) == IsAsyncProducerCandidate(b, i) /\ b[i].kind # "cp"

-----------------------------------------------------------------------------
(* Buffer versions.                                                        *)

\* use - def + 1 versions, one less when no earlier-stage writer comes before
\* a reader of the same cells in the emitted order.
ComputeBufferVersionsTight(b, p, buf) ==
  LET writers == {i \in Idx(b) : buf \in Bufs(b[i].writes)}
      readers == {i \in Idx(b) : buf \in Bufs(b[i].reads)}
  IN IF writers = {} \/ readers = {} THEN 1
     ELSE Max({1, Max({p.stage[i] : i \in readers}) - Min({p.stage[i] : i \in writers})})

ComputeBufferVersions(b, p, buf) ==
  LET writers == {i \in Idx(b) : buf \in Bufs(b[i].writes)}
      readers == {i \in Idx(b) : buf \in Bufs(b[i].reads)}
      span == Max({p.stage[i] : i \in readers}) - Min({p.stage[i] : i \in writers}) + 1
      need == \E w \in writers, r \in readers :
                /\ At(p.order, w) < At(p.order, r)
                /\ p.stage[w] < p.stage[r]
                /\ Part(b[w].writes, buf) \cap Part(b[r].reads, buf) # {}
  IN IF writers = {} \/ readers = {} THEN 1
     ELSE IF span >= 2 /\ ~need THEN span - 1 ELSE Max({span, 1})

-----------------------------------------------------------------------------
(* One emission: the statements of loop position pos, commits and waits.   *)

\* part is "prologue", "loop" or "epilogue"; the loop has no bound check.
EmittedUnbounded(b, p, e, part, pos) ==
  SelectSeq(p.order, LAMBDA i : part = "loop" \/ pos - p.stage[i] >= 0)
Emitted(b, p, e, part, pos) ==
  SelectSeq(p.order, LAMBDA i : part = "loop" \/ pos - p.stage[i] \in 0 .. e - 1)

\* The stages whose asynchronous copies statement i waits for.
ProducerStages(b, p, pos, i) ==
  {st \in 0 .. p.stage[i] :
     \E a \in Idx(b) : /\ IsAsync(b, a) /\ p.stage[a] = st /\ st <= pos
                       /\ Bufs(b[a].writes) \cap Bufs(b[i].reads) # {}}

\* The commit group of a buffer: that of the last copy of stage st into it.
CommitGroup(b, p, us, st, buf) ==
  LET k == Max({j \in 1 .. Len(us) : /\ IsAsync(b, us[j]) /\ p.stage[us[j]] = st
                                     /\ buf \in Bufs(b[us[j]].writes)})
  IN p.group[us[k]]

\* How many groups may stay in flight when us[k] reads the buffers bufs that
\* stage st copied; group is the commit group of each.
GroupCounts(b, p, part, pos, us, st, k, group) ==
  LET base == IF part = "loop" THEN MaxStage(p) ELSE pos
      index == pos - p.stage[us[k]]
      first(g) == Min({x \in DOMAIN group : group[x] = g})
      seen(g) == \E j \in 1 .. k - 1 : /\ IsAsync(b, us[j]) /\ p.stage[us[j]] = st
                                        /\ first(g) \in Bufs(b[us[j]].writes)
      head(n, g) == n - st - (IF seen(g) THEN 0 ELSE 1)
  IN [groups |-> Range(group),
      n |-> IF \E g \in Range(group) : head(base, g) < 0 THEN 0
            ELSE MapThenSumSet(LAMBDA g : head(pos, g) - index, Range(group))]

WaitCount(b, p, e, part, pos, us, st, k) ==
  LET copied(S) == {x \in Bufs(b[us[k]].reads) : \E a \in S :
                      IsAsync(b, a) /\ p.stage[a] = st /\ x \in Bufs(b[a].writes)}
      made == \E a \in ToSet(us) : IsAsync(b, a) /\ p.stage[a] = st
      known == part = "prologue" \/ st > 0 \/ e - MaxStage(p) = 1
  IN IF ~made THEN [groups |-> {<< >>}, n |-> IF known THEN e - 1 - (pos - p.stage[us[k]]) ELSE 0]
     ELSE GroupCounts(b, p, part, pos, us, st, k,
                      [x \in copied(Idx(b)) |-> CommitGroup(b, p, us, st, x)])

\* Per commit group of a stage the first consumer and the least count over the
\* consumers; count says what each use <<consumer, stage>> waits for.
PendingWaits(count) ==
  LET cons(st, g) == {u \in DOMAIN count : u[2] = st /\ g \in count[u].groups}
  IN {[at |-> Min({u[1] : u \in cons(w[1], w[2])}), st |-> w[1],
       n |-> Min({count[u].n : u \in cons(w[1], w[2])})]
      : w \in UNION {{u[2]} \X count[u].groups : u \in DOMAIN count}}

\* The waits in front of each of n statements, merged per stage.
MergedWaits(n, pending) ==
  LET at(k) == {w \in pending : w.at = k}
      stages(k) == Ascending({w.st : w \in at(k)})
  IN [k \in 1 .. n |->
       [j \in DOMAIN stages(k) |->
         [op |-> "wait", n |-> Min({w.n : w \in {v \in at(k) : v.st = stages(k)[j]}})]]]

\* The waits of one emission.
PopulateWaitCounts(b, p, e, part, pos, us) ==
  LET uses == {<<k, st>> \in (1 .. Len(us)) \X (0 .. MaxStage(p)) :
                 ~IsAsync(b, us[k]) /\ st \in ProducerStages(b, p, pos, us[k])}
  IN MergedWaits(Len(us), PendingWaits(
       [u \in uses |-> WaitCount(b, p, e, part, pos, us, u[2], u[1])]))

\* The pipeline barrier: the wait goes into the first statement of the body
\* that is not in stage 0.
TmaWaiter(b, p) ==
  IF \E i \in Idx(b) : b[i].kind = "tma"
  THEN Min({i \in Idx(b) : p.stage[i] # 0}) ELSE 0

\* The emitted statements with their waits, and a commit behind each run of
\* copies of one group.
WithSync(b, p, pos, us, waits) ==
  LET tag(k) == IF IsAsync(b, us[k]) THEN p.group[us[k]] ELSE << >>
      ends(k) == tag(k) # << >> /\ (k = Len(us) \/ tag(k + 1) # tag(k))
      inst(op, k) == [op |-> op, s |-> us[k], i |-> pos - p.stage[us[k]]]
  IN FlattenSeq([k \in 1 .. Len(us) |->
       waits[k]
       \o (IF us[k] = TmaWaiter(b, p) THEN <<inst("mbar", k)>> ELSE << >>)
       \o <<inst("stmt", k)>>
       \o (IF ends(k) THEN <<[op |-> "commit"]>> ELSE << >>)])

CompletePipelineLoopStatements(b, p, e, part, pos) ==
  LET us == Emitted(b, p, e, part, pos)
  IN WithSync(b, p, pos, us, PopulateWaitCounts(b, p, e, part, pos, us))

-----------------------------------------------------------------------------
(* The relaxation of the waits the pass inserted.                          *)

MaxWait == 7

PipelinedRetainGroups(ns) == Max({0, ns - 1})

Commits(prog) == Cardinality({k \in DOMAIN prog : prog[k].op = "commit"})
HasWait(prog) == \E k \in DOMAIN prog : prog[k].op = "wait"

\* The groups known to be outstanding when the prologue is over.
OutstandingLb(prologue) ==
  FoldLeft(LAMBDA lb, unit : IF HasWait(unit) THEN 0 ELSE lb + Commits(unit), 0, prologue)

\* The commits after position k before the next wait.
GuaranteedNewGroupsBeforeNextWait(prog, k) ==
  LET stop == Min({Len(prog) + 1} \cup {j \in k + 1 .. Len(prog) : prog[j].op = "wait"})
  IN Commits(SubSeq(prog, k + 1, stop - 1))

\* One instruction of the loop body, as the relaxer walks over it.
RelaxStep(prog, retain, acc, k) ==
  LET fallback == acc.since = 0 /\ ~acc.seen
      candidate == Min({retain * (IF fallback THEN 1 ELSE acc.since), MaxWait})
      relaxes == /\ prog[k].n = 0
                 /\ candidate > 0
                 /\ fallback => /\ acc.lb >= candidate + 1
                                /\ GuaranteedNewGroupsBeforeNextWait(prog, k) > 0
      n == IF relaxes THEN candidate ELSE prog[k].n
  IN CASE prog[k].op = "commit" ->
            [acc EXCEPT !.lb = @ + 1, !.since = @ + 1, !.out = Append(@, prog[k])]
       [] prog[k].op = "wait" ->
            [lb |-> Min({acc.lb, n}), since |-> 0, seen |-> TRUE,
             out |-> Append(acc.out, [prog[k] EXCEPT !.n = n])]
       [] OTHER -> [acc EXCEPT !.out = Append(@, prog[k])]

MaybeRelaxLoopWaits(prog, lb, ns) ==
  IF PipelinedRetainGroups(ns) = 0 THEN prog
  ELSE FoldLeft(LAMBDA acc, k : RelaxStep(prog, PipelinedRetainGroups(ns), acc, k),
                [lb |-> lb, since |-> 0, seen |-> FALSE, out |-> << >>],
                [k \in 1 .. Len(prog) |-> k]).out

\* A unit whose first async synchronisation is a full drain.
DrainsAll(unit) ==
  /\ Commits(unit) = 0
  /\ HasWait(unit)
  /\ unit[Min({k \in DOMAIN unit : unit[k].op = "wait"})].n = 0

\* The last units drain one after the other: ..., wait(2), wait(1), wait(0).
RelaxTrailingConsumerWaits(units, ns) ==
  LET u == Len(units)
      suffix == {k \in 1 .. u : \A j \in k .. u : DrainsAll(units[j])}
      relax(k) == LET w == Min({j \in DOMAIN units[k] : units[k][j].op = "wait"}) IN
                  [units[k] EXCEPT ![w].n = Min({PipelinedRetainGroups(ns), u - k})]
  IN IF PipelinedRetainGroups(ns) = 0 THEN units
     ELSE [k \in 1 .. u |-> IF k \in suffix THEN relax(k) ELSE units[k]]

-----------------------------------------------------------------------------
(* The whole stream.                                                       *)

Sequential(b, e) ==
  FlattenSeq([k \in 1 .. e |-> [s \in 1 .. Len(b) |-> [op |-> "stmt", s |-> s, i |-> k - 1]]])

\* The iterations of the loop; lb groups are outstanding in front of it.
LoopUnits(units, lb, ns) ==
  IF Len(units) = 1 THEN units
  ELSE [k \in DOMAIN units |-> MaybeRelaxLoopWaits(units[k], lb, ns)]

Joined(prologue, units, epilogue, ns) ==
  FlattenSeq(prologue \o LoopUnits(units, OutstandingLb(prologue), ns)
             \o RelaxTrailingConsumerWaits(epilogue, ns))

BuildPipeline(b, p, e, ns) ==
  LET ms == MaxStage(p)
      units(part, from, n) ==
        [k \in 1 .. n |-> CompletePipelineLoopStatements(b, p, e, part, from + k - 1)]
  IN Joined(units("prologue", 0, ms), units("loop", ms, Max({0, e - ms})),
            units("epilogue", e, ms), ns)

\* The stream of a body, or the check that rejects it.
PipelineInjector(b, p, e, ns) ==
  IF p.err # "none" THEN [err |-> p.err, prog |-> << >>]
  ELSE IF ~ValidatePipelineBody(b, p) THEN [err |-> "dependence", prog |-> << >>]
  ELSE IF ~HasOverlappableStages(p) THEN [err |-> "none", prog |-> Sequential(b, e)]
  ELSE IF \E i \in Idx(b) : /\ ~IsAsync(b, i)
                            /\ Cardinality(ProducerStages(b, p, MaxStage(p), i)) > 1
       THEN [err |-> "async stages", prog |-> << >>]
  ELSE [err |-> "none", prog |-> BuildPipeline(b, p, e, ns)]
=============================================================================
