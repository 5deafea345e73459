---------------------------- MODULE PipelineRun ----------------------------
(***************************************************************************)
(* The execution of a software-pipelined loop: PipelinePlanning and        *)
(* InjectSoftwarePipeline compile a body, and one thread runs the stream   *)
(* they produce against copies that land when they like.                   *)
(*                                                                         *)
(* A copy in flight is a record: the versioned cell it fills, the tile     *)
(* <<statement, iteration>> it brings, the cp.async group it belongs to (0 *)
(* for TMA) and the mbarrier slot it reports to.  mem holds the tile of    *)
(* every versioned cell, bars the mbarrier slots: phases done, the bytes   *)
(* of the current phase still expected, and whether its arrival happened.  *)
(***************************************************************************)
EXTENDS PipelineInject

CONSTANTS
  Loops,      \* the loops compiled: records with body, ns, order, stage
  MaxExtent   \* the largest trip count

ASSUME MaxExtentAssumption == MaxExtent \in Nat \ {0}

VARIABLES phase, loop, extent, plan, prog, vers, pc, mem, inflight, commits, bars

compiled == <<loop, extent, plan, prog, vers>>
machine == <<pc, mem, inflight, commits, bars>>
vars == <<phase, compiled, machine>>

Nothing == <<0, 0>>

AllCells(b) == UNION {b[i].reads \cup b[i].writes : i \in Idx(b)}

Init ==
  /\ phase = "plan"
  /\ loop \in Loops
  /\ extent \in 1 .. MaxExtent
  /\ plan = [err |-> "none"]
  /\ prog = << >> /\ vers = << >> /\ mem = << >>
  /\ pc = 1
  /\ inflight = {}
  /\ commits = 0
  /\ bars = [k \in 0 .. loop.ns - 1 |-> [done |-> 0, tx |-> 0, arrived |-> FALSE]]

\* The PipelinePlanning pass.
PlanPass ==
  /\ phase = "plan"
  /\ plan' = IF loop.order = << >> THEN PipelinePlanning(loop.body, loop.ns)
             ELSE Annotated(loop.body, loop.order, loop.stage)
  /\ phase' = IF plan'.err = "none" THEN "inject" ELSE "rejected"
  /\ UNCHANGED <<loop, extent, prog, vers, machine>>

\* The InjectSoftwarePipeline pass; the versioned buffers start out empty.
InjectPass ==
  /\ phase = "inject"
  /\ \E out \in {PipelineInjector(loop.body, plan, extent, loop.ns)} :
       /\ prog' = out.prog
       /\ plan' = [plan EXCEPT !.err = out.err]
       /\ phase' = IF out.err = "none" THEN "run" ELSE "rejected"
  /\ vers' = [c \in AllCells(loop.body) |->
                IF HasOverlappableStages(plan)
                THEN ComputeBufferVersions(loop.body, plan, c[1]) ELSE 1]
  /\ mem' = [c \in DOMAIN vers' |-> [v \in 0 .. vers'[c] - 1 |-> Nothing]]
  /\ UNCHANGED <<loop, extent, pc, inflight, commits, bars>>

-----------------------------------------------------------------------------
Running == phase = "run" /\ pc <= Len(prog)
Now == prog[pc]
Stmt(k) == loop.body[prog[k].s]
Tile(k) == <<prog[k].s, prog[k].i>>

\* The versioned cell of iteration i: floormod(loop_var - min, versions).
Version(c, i) == i % vers[c]

Advance == pc' = pc + 1 /\ UNCHANGED <<phase, compiled>>

\* A statement that is done when it is issued.
Sync == \/ Stmt(pc).kind \in {"op", "scopy"}
        \/ Stmt(pc).kind \in {"copy", "tma"} /\ ~HasOverlappableStages(plan)

Execute ==
  /\ Running /\ Now.op = "stmt" /\ Sync
  /\ mem' = [c \in DOMAIN mem |->
               IF c \in Stmt(pc).writes THEN [mem[c] EXCEPT ![Version(c, Now.i)] = Tile(pc)]
                                        ELSE mem[c]]
  /\ Advance
  /\ UNCHANGED <<inflight, commits, bars>>

Copies(group, slot) ==
  {[cell |-> c, ver |-> Version(c, Now.i), tile |-> Tile(pc), group |-> group, slot |-> slot]
     : c \in Stmt(pc).writes}

IssueAsync ==
  /\ Running /\ Now.op = "stmt" /\ ~Sync /\ Stmt(pc).kind \in {"copy", "cp"}
  /\ inflight' = inflight \cup Copies(commits + 1, 0)
  /\ Advance
  /\ UNCHANGED <<mem, commits, bars>>

\* A slot whose arrival happened and whose bytes are in starts a new phase.
Settle(bar) == IF bar.arrived /\ bar.tx = 0
               THEN [done |-> bar.done + 1, tx |-> 0, arrived |-> FALSE] ELSE bar

\* expect_tx, the bulk load, and the arrival of the last TMA copy of the body.
LastCopy(b) == Max({i \in Idx(b) : IsCopy(b, i)})
LastTma(b) == Max({i \in Idx(b) : b[i].kind = "tma"})
IssueTma ==
  /\ Running /\ Now.op = "stmt" /\ ~Sync /\ Stmt(pc).kind = "tma"
  /\ LET k == Now.i % loop.ns IN
     /\ inflight' = inflight \cup Copies(0, k)
     /\ bars' = [bars EXCEPT ![k] =
                   [@ EXCEPT !.tx = @ + Cardinality(Stmt(pc).writes),
                             !.arrived = @ \/ Now.s = LastTma(loop.body)]]
  /\ Advance
  /\ UNCHANGED <<mem, commits>>

\* cp.async.commit_group, of the pass or of the body.
Commit ==
  /\ Running
  /\ Now.op = "commit" \/ (Now.op = "stmt" /\ Stmt(pc).kind = "commit")
  /\ commits' = commits + 1
  /\ Advance
  /\ UNCHANGED <<mem, inflight, bars>>

\* cp.async.wait_group(n): all groups but the last n committed have landed.
Landed(n) == \A r \in inflight : r.group > 0 => r.group > commits - n
WaitGroup ==
  /\ Running
  /\ \/ Now.op = "wait" /\ Landed(Now.n)
     \/ Now.op = "stmt" /\ Stmt(pc).kind = "wait" /\ Landed(Stmt(pc).n)
  /\ Advance
  /\ UNCHANGED <<mem, inflight, commits, bars>>

\* mbarrier_wait_parity: the phase of that parity is over.
WaitBarrier ==
  /\ Running /\ Now.op = "mbar"
  /\ bars[Now.i % loop.ns].done % 2 # (Now.i \div loop.ns) % 2
  /\ Advance
  /\ UNCHANGED <<mem, inflight, commits, bars>>

\* The memory system finishes a copy.
Land(r) ==
  /\ inflight' = inflight \ {r}
  /\ mem' = [mem EXCEPT ![r.cell][r.ver] = r.tile]
  /\ bars' = IF r.group > 0 THEN bars
             ELSE [bars EXCEPT ![r.slot] = Settle([@ EXCEPT !.tx = @ - 1])]
  /\ UNCHANGED <<phase, compiled, pc, commits>>

Step == Execute \/ IssueAsync \/ IssueTma \/ Commit \/ WaitGroup \/ WaitBarrier
Next == PlanPass \/ InjectPass \/ Step \/ \E r \in inflight : Land(r)

Spec == Init /\ [][Next]_vars /\ WF_vars(Step) /\ WF_vars(\E r \in inflight : Land(r))

-----------------------------------------------------------------------------
(* What the loop means: its iterations one after the other.                *)

\* The tile statement s of iteration i reads in cell c.
Expected(b, c, s, i) ==
  LET before == {w \in 1 .. s - 1 : c \in b[w].writes}
      writers == {w \in Idx(b) : c \in b[w].writes}
  IN IF before # {} THEN <<Max(before), i>>
     ELSE IF writers # {} /\ i > 0 THEN <<Max(writers), i - 1>> ELSE Nothing

\* The machine is well formed: copies name existing versions and slots, and a
\* slot expects exactly the bytes of its copies still in flight (expect_tx).
TypeOK ==
  /\ pc \in 1 .. Len(prog) + 1
  /\ \A r \in inflight : r.ver \in DOMAIN mem[r.cell] /\ r.slot \in DOMAIN bars
  /\ commits \in 0 .. Len(prog)
  /\ \A k \in DOMAIN bars : bars[k].tx = Cardinality({r \in inflight : r.group = 0 /\ r.slot = k})

\* A statement of the pipelined loop reads, in every cell, exactly the tile it
\* would read if the iterations ran one after the other: neither a copy still
\* in flight, nor a version overwritten by a later iteration
\* (ComputeBufferVersions, PopulateWaitCounts and the wait relaxation).
ReadsSequential ==
  (Running /\ Now.op = "stmt") =>
    \A c \in Stmt(pc).reads :
      mem[c][Version(c, Now.i)] = Expected(loop.body, c, Now.s, Now.i)

\* Every statement of every iteration runs exactly once, and nothing outside
\* the iteration space does: the prologue, the loop and the epilogue of
\* BuildPipeline partition it, also when the loop is shorter than the pipeline.
RunsOnce ==
  phase = "run" =>
    LET stmts == {k \in DOMAIN prog : prog[k].op = "stmt"}
    IN /\ {Tile(k) : k \in stmts} = Idx(loop.body) \X (0 .. extent - 1)
       /\ Cardinality(stmts) = Len(loop.body) * extent

\* What the planner plans, the injector accepts: ValidatePipelineBody and the
\* one-producer-stage check of the async waits never reject a finished plan.
PlansValid == phase = "rejected" => plan.err \in {"multiple writes", "unscheduled", "wait stage", "cycle"}

\* The stream runs to its end: no wait for a phase or a group that never comes.
Finishes == phase = "run" ~> pc > Len(prog)
=============================================================================
