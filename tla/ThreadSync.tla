----------------------------- MODULE ThreadSync -----------------------------
(***************************************************************************)
(* The pass ThreadSync: it inserts the barriers that order the accesses of *)
(* different threads to shared memory (TileLangThreadSyncPlanner and       *)
(* ThreadSyncInserter), a barrier after each ptx_wait_group                *)
(* (ThreadSyncAfterWaitGroupInserter), and turns the barriers of branches  *)
(* that only some threads take into named barriers                         *)
(* (ThreadPartialSyncRewriter).  A statement is known by its path.         *)
(*                                                                         *)
(* opt.prover says whether the analyzers prove what is true or nothing at  *)
(* all; opt.count whether Z3 can enumerate the threads of a branch;        *)
(* opt.metal and opt.minimize are the target and the proof hook that let   *)
(* barriers within a simdgroup go; opt.dyn are the buffers whose scope is  *)
(* shared.dyn.                                                             *)
(***************************************************************************)
EXTENDS TileIR

CONSTANT
    kFirstUsedBarrier   \* first named barrier that is not reserved

VARIABLE opt
----------------------------------------------------------------------------
(* Constraints under which a statement runs (constr_stack_): the threads,  *)
(* the conditions that depend on loads, the loops around it.               *)

NoConstr(dyn) == [who |-> Thread, loads |-> {}, loop |-> <<>>, ext |-> 1, dyn |-> dyn]
Under(cs, cond) ==
    [cs EXCEPT !.who = @ \cap cond.who, !.loads = IF cond.runtime THEN @ \cup {cond} ELSE @]
Unless(cs, cond) ==
    IF cond.runtime THEN [cs EXCEPT !.loads = @ \cup {[cond EXCEPT !.lo = -1]}]
    ELSE [cs EXCEPT !.who = @ \ cond.who]
Inside(cs, path, ext) == [cs EXCEPT !.loop = path, !.ext = ext]

\* Z3 proves that the same threads execute both accesses.
Equivalent(p, c, loop) ==
    opt.prover /\ p.who = c.who /\ p.loads = c.loads /\ (loop # <<>> \/ p.loop = c.loop)

\* The pairs of iterations in which two accesses meet: the same iteration when they
\* share the loop, successive ones when loop is the loop that carries the conflict.
Meet(p, c, loop) ==
    {ij \in (0..(p.ext - 1)) \X (0..(c.ext - 1)) :
        p.loop = c.loop => ij[2] = ij[1] + (IF loop # <<>> /\ loop = p.loop THEN 1 ELSE 0)}

\* The regions never overlap: one lies below the other, whichever threads.
PointerAccessIsDisjoint(p, c) ==
    LET Low(sign) == \A t \in p.cs.who, u \in c.cs.who, ij \in Meet(p.cs, c.cs, <<>>) :
                       \A m \in Cells(p, t, ij[1]), n \in Cells(c, u, ij[2]) : sign * (n - m) > 0
    IN  opt.prover /\ (Low(1) \/ Low(-1))

\* The two accesses touch different elements.  Accesses of the same kind are
\* compared for one thread, a read and a write for two different threads.
ProvablyDisjoint(p, c, loop) ==
    opt.prover /\ \A t \in p.cs.who, u \in c.cs.who, ij \in Meet(p.cs, c.cs, loop) :
        (IF p.ty = c.ty THEN t = u ELSE t # u) => Cells(p, t, ij[1]) \cap Cells(c, u, ij[2]) = {}

\* Every two threads that make the accesses are in the same simdgroup.
ProveIntraWarpRAW(p, c) ==
    /\ opt.metal /\ opt.minimize /\ p.ty # c.ty
    /\ \/ NumThreads <= Warp
       \/ opt.prover /\ \A t \in p.cs.who, u \in c.cs.who : t \div Warp = u \div Warp

SameIndex(p, c, loop) == p.thr = c.thr /\ p.slot = c.slot /\ (loop # <<>> => p.slot = "none")

\* Whether access c, made after p (in the next iteration of loop, unless it is <<>>),
\* needs a barrier in between.
FindConflict(p, c, loop) ==
    /\ ~(p.ty = "W" /\ c.ty = "W" /\ p.async /\ c.async)
    /\ p.buf = c.buf
    /\ ~(p.atomic /\ c.atomic)
    /\ CASE p.ptr # c.ptr          -> TRUE
         [] p.ptr                  -> ~PointerAccessIsDisjoint(p, c)
         [] SameIndex(p, c, loop)  -> ~Equivalent(p.cs, c.cs, loop)
         [] OTHER                  -> ~ProvablyDisjoint(p, c, loop) /\ ~ProveIntraWarpRAW(p, c)
----------------------------------------------------------------------------
(* Summarize.  An entry is a statement and the accesses it exposes; an     *)
(* access of type "S" is a barrier.  syncs is syncs_inserted_.             *)

esync == [ty |-> "S"]

\* Does an access of the entry conflict with what is pending?
Scan(pending, entry, loop) ==
    LET Step(st, a) ==
          IF st.hit THEN st
          ELSE IF a.ty = "S" THEN [rd |-> {}, wr |-> {}, hit |-> FALSE]
          ELSE [st EXCEPT !.hit = \E p \in st.wr \cup (IF a.ty = "W" THEN st.rd ELSE {}) :
                                      FindConflict(p, a, loop)]
    IN  FoldLeft(Step, [rd |-> pending.rd, wr |-> pending.wr, hit |-> FALSE], entry.access)

\* The accesses that are pending after the entry.
AddAccesses(pending, entry) ==
    LET Step(st, a) ==
          CASE a.ty = "S" -> [rd |-> {}, wr |-> {}]
            [] a.ty = "R" -> [st EXCEPT !.rd = @ \cup {a}]
            [] a.ty = "W" -> [st EXCEPT !.wr = @ \cup {a}]
    IN  FoldLeft(Step, pending, entry.access)

Nothing == [rd |-> {}, wr |-> {}]

\* One pass over the entries in order: a barrier before each entry that conflicts.
PlanEntries(entries, syncs) ==
    LET Scanned(st, e, sc) ==
          LET need == e.path \in st.syncs \/ sc.hit
          IN  [pending |-> AddAccesses(IF need THEN Nothing ELSE [rd |-> sc.rd, wr |-> sc.wr], e),
               syncs   |-> IF need THEN st.syncs \cup {e.path} ELSE st.syncs]
        Step(st, e) == Scanned(st, e, Scan(IF e.path \in st.syncs THEN Nothing ELSE st.pending, e, <<>>))
    IN  FoldLeft(Step, [pending |-> Nothing, syncs |-> syncs], entries)

\* Conflicts of one iteration of the loop with the next: a barrier before the first
\* entry that conflicts with what the end of the body leaves pending, or before the
\* loop if nothing in it reads.
PlanCarried(entries, loop, plan) ==
    LET reads == \E k \in DOMAIN entries : \E j \in DOMAIN entries[k].access :
                    entries[k].access[j].ty = "R"
        Scanned(st, e, sc) ==
          [pending |-> [rd |-> sc.rd, wr |-> sc.wr], done |-> sc.hit,
           syncs |-> IF sc.hit THEN st.syncs \cup {IF reads THEN e.path ELSE loop} ELSE st.syncs]
        Step(st, e) ==
          IF st.done \/ e.path \in st.syncs \/ st.pending = Nothing
          THEN [st EXCEPT !.done = TRUE]
          ELSE Scanned(st, e, Scan(st.pending, e, loop))
    IN  FoldLeft(Step, [pending |-> plan.pending, syncs |-> plan.syncs, done |-> FALSE], entries).syncs

\* What the statements expose to their surroundings: the accesses before the first
\* barrier, the barrier, and the accesses after the last one.
Exposed(marked) ==
    LET bars == {k \in DOMAIN marked : marked[k].ty = "S"}
    IN  IF bars = {} THEN marked
        ELSE SubSeq(marked, 1, Min(bars)) \o SubSeq(marked, Max(bars) + 1, Len(marked))

Summary(entries, syncs) ==
    [access |-> Exposed(FlattenSeq([k \in DOMAIN entries |->
                  (IF entries[k].path \in syncs THEN <<esync>> ELSE <<>>) \o entries[k].access])),
     syncs  |-> syncs]

Redirect(entries) ==
    [k \in DOMAIN entries |-> [entries[k] EXCEPT !.access =
        [j \in DOMAIN @ |-> IF @[j].ty # "S" /\ @[j].buf \in opt.dyn
                            THEN [@[j] EXCEPT !.buf = "shared_dyn_buf"] ELSE @[j]]]]

\* (mutation) without the conflicts that a loop carries.
SummarizeOnce(seq, loop, syncs) == Summary(Redirect(seq), PlanEntries(Redirect(seq), syncs).syncs)

Summarize(seq, loop, syncs) ==
    LET entries == Redirect(seq)
        plan == PlanEntries(entries, syncs)
    IN  Summary(entries, IF loop = <<>> THEN plan.syncs ELSE PlanCarried(entries, loop, plan))
----------------------------------------------------------------------------
(* The visit of the body.  Visit(seq, path, cs, syncs) returns the entries *)
(* of the statements and the barriers planned so far.                      *)

\* The threads under the condition form runs of at least min_consecutive threads.
RunsOf(who, min_consecutive) ==
    \A t \in who : \E k \in who :
        /\ k <= t /\ t < k + min_consecutive
        /\ \A j \in k..(k + min_consecutive - 1) : j \in who

\* (mutation) the threads of a block always agree.
MustHoistRuns(cs, cond) == ~RunsOf(cs.who \cap cond.who, Warp)

\* Barriers inside a branch are not safe: the threads of a block may disagree on a
\* loaded value, and partial barriers are made of whole warps.
MustHoist(cs, cond) ==
    \/ cond.runtime /\ ~cond.block_uniform
    \/ ~opt.count
    \/ ~RunsOf(cs.who \cap cond.who, Warp)

\* The accesses to buffers of the scope that is being planned, under the constraints cs.
Enabled(acc, cs) ==
    LET own == SelectSeq(acc, LAMBDA a : (a.buf \in opt.dyn) = cs.dyn)
    IN  [j \in DOMAIN own |-> [cs |-> cs] @@ own[j]]

\* The entry of a statement and the barriers planned, from the summary of its body.
StmtEntry(path, access) == IF access = <<>> THEN <<>> ELSE <<[path |-> path, access |-> access]>>
BodyEntry(path, cond, body) == [entries |-> StmtEntry(path, cond \o body.access), syncs |-> body.syncs]
IfEntry(path, cond, then, els, syncs, hoist) ==
    [entries |-> <<[path |-> path, access |-> cond \o then.access \o els.access]>>,
     syncs |-> IF els.syncs # syncs /\ hoist THEN syncs \cup {path} ELSE els.syncs]

RECURSIVE Visit(_, _, _, _), VisitStmt(_, _, _, _)
Visit(seq, path, cs, syncs) ==
    LET Join(st, r) == [entries |-> st.entries \o r.entries, syncs |-> r.syncs]
        Step(st, k) == Join(st, VisitStmt(seq[k], Append(path, k), cs, st.syncs))
    IN  FoldLeft(Step, [entries |-> <<>>, syncs |-> syncs], [k \in DOMAIN seq |-> k])

\* The condition of a branch or loop is visited under itself, and its accesses come
\* first in the entry of the statement.
VisitStmt(s, path, cs, syncs) ==
    LET Visited(r, loop) == Summarize(r.entries, loop, r.syncs)
        Of(seq, tag, c, loop, sy) == Visited(Visit(seq, Append(path, tag), c, sy), loop)
        Reads == Enabled(s.cond.acc, Under(cs, s.cond))
        WithElse(then) ==
            IfEntry(path, Reads, then, Of(s.els, 2, Unless(cs, s.cond), <<>>, then.syncs), syncs, MustHoist(cs, s.cond))
    IN  CASE Is(s, "sync") -> [entries |-> StmtEntry(path, <<esync>>), syncs |-> syncs]
          [] s.op = "leaf" ->
               [entries |-> StmtEntry(path, Enabled(s.acc, cs)), syncs |-> syncs]
          [] s.op = "for"   -> BodyEntry(path, <<>>, Of(s.body, 1, Inside(cs, path, s.ext), path, syncs))
          [] s.op = "while" -> BodyEntry(path, Reads, Of(s.body, 1, Under(cs, s.cond), <<>>, syncs))
          [] s.op = "if"    -> WithElse(Of(s.then, 1, Under(cs, s.cond), <<>>, syncs))
----------------------------------------------------------------------------
(* The rewriters. *)

RECURSIVE Insert(_, _, _)
\* ThreadSyncInserter: a barrier before every statement in syncs.
Insert(seq, path, syncs) ==
    LET Child(s, p) ==
          CASE s.op = "leaf" -> s
            [] s.op = "if"   -> [s EXCEPT !.then = Insert(@, Append(p, 1), syncs),
                                          !.els = Insert(@, Append(p, 2), syncs)]
            [] OTHER         -> [s EXCEPT !.body = Insert(@, Append(p, 1), syncs)]
        At(k) == LET p == Append(path, k)
                 IN  (IF p \in syncs THEN <<Sync>> ELSE <<>>) \o <<Child(seq[k], p)>>
    IN  FlattenSeq([k \in DOMAIN seq |-> At(k)])

RECURSIVE IsOnly(_, _)
\* IsWaitGroupStmt, IsStorageSyncStmt: the call, also as all there is in a branch.
IsOnly(s, call) ==
    \/ Is(s, call)
    \/ s.op = "if" /\ s.els = <<>> /\ Len(s.then) = 1 /\ IsOnly(s.then[1], call)

RECURSIVE AfterWaitGroup(_)
\* ThreadSyncAfterWaitGroupInserter: a barrier after every ptx_wait_group that none
\* follows.  A body of one statement is no SeqStmt.
AfterWaitGroup(seq) ==
    LET Child(s) ==
          CASE s.op = "leaf" -> s
            [] s.op = "if"   -> [s EXCEPT !.then = AfterWaitGroup(@), !.els = AfterWaitGroup(@)]
            [] OTHER         -> [s EXCEPT !.body = AfterWaitGroup(@)]
        At(k) == <<Child(seq[k])>> \o
                 (IF Len(seq) > 1 /\ IsOnly(seq[k], "wait_group") /\ ~(k < Len(seq) /\ IsOnly(seq[k + 1], "sync"))
                  THEN <<Sync>> ELSE <<>>)
    IN  FlattenSeq([k \in DOMAIN seq |-> At(k)])

\* GetOrCreateBarrier: barriers are kept by the range of threads; ids holds, for each
\* range, the number of threads counted when the barrier was made: the width of the
\* range when Z3 counts none (CalculateThreadExtent).
GetOrCreateBarrier(range, who, ids) ==
    LET known == {k \in DOMAIN ids : ids[k].range = range}
        count == IF opt.count /\ who # {} THEN Cardinality(who) ELSE range[2] - range[1] + 1
        new == Append(ids, [range |-> range, cnt |-> count])
        all == IF known = {} THEN new ELSE ids
        id == CHOOSE k \in DOMAIN all : all[k].range = range
    IN  [sync |-> SyncAt(id - 1 + kFirstUsedBarrier, all[id].cnt), ids |-> all]

RECURSIVE Partial(_, _, _)
\* ThreadPartialSyncRewriter: a barrier under conditions that narrow the range of
\* threads becomes a named barrier.  cs holds the range and the threads.
Partial(seq, cs, ids) ==
    LET Narrow(cond, neg) ==
          LET who == IF cond.runtime THEN Thread ELSE IF neg THEN Thread \ cond.who ELSE cond.who
              range == IF neg THEN <<IF who = (cond.hi + 1)..(NumThreads - 1) THEN cond.hi + 1 ELSE 0,
                                     NumThreads - 1>>
                       ELSE <<cond.lo, cond.hi>>
          IN  [lo |-> Max({cs.lo, range[1]}), hi |-> Min({cs.hi, range[2]}), who |-> cs.who \cap who]
        Barrier(b) == [stmt |-> b.sync, ids |-> b.ids]
        Branch(s, th, el) == [stmt |-> [s EXCEPT !.then = th.seq, !.els = el.seq], ids |-> el.ids]
        WithElse(s, th) == Branch(s, th, Partial(s.els, Narrow(s.cond, TRUE), th.ids))
        Body(s, b) == [stmt |-> [s EXCEPT !.body = b.seq], ids |-> b.ids]
        Child(s, m) ==
          CASE Is(s, "sync") /\ s.bar = 0 /\ (cs.lo # 0 \/ cs.hi # NumThreads - 1) ->
                 Barrier(GetOrCreateBarrier(<<cs.lo, cs.hi>>, cs.who, m))
            [] s.op = "leaf" -> [stmt |-> s, ids |-> m]
            [] s.op = "if"   -> WithElse(s, Partial(s.then, Narrow(s.cond, FALSE), m))
            [] OTHER         -> Body(s, Partial(s.body, cs, m))
        Join(st, c) == [seq |-> Append(st.seq, c.stmt), ids |-> c.ids]
        Step(st, s) == Join(st, Child(s, st.ids))
    IN  FoldLeft(Step, [seq |-> <<>>, ids |-> ids], seq)

\* TileLangThreadSync, for the scope shared or shared.dyn.
TileLangThreadSync(body, dyn) ==
    LET Planned(seq, plan) == Insert(seq, <<>>, Summarize(plan.entries, <<>>, plan.syncs).syncs)
        Synced(seq) == Planned(seq, Visit(seq, <<>>, NoConstr(dyn), {}))
    IN  Partial(Synced(IF dyn THEN body ELSE AfterWaitGroup(body)),
                [lo |-> 0, hi |-> NumThreads - 1, who |-> Thread], <<>>).seq
=============================================================================
