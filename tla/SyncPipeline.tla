---------------------------- MODULE SyncPipeline ----------------------------
(***************************************************************************)
(* The end of OptimizeForTarget, from InjectFenceProxy to                  *)
(* InjectTcgen05Fence, and a block of threads that executes the result.    *)
(* Each pass is a step that rewrites the body of the kernel.  At the       *)
(* launch every thread gets its trace, the events it will go through;      *)
(* between barriers threads do not wait for each other, so a step takes    *)
(* them all to their next barrier.  Vector clocks say which accesses the   *)
(* barriers order.                                                         *)
(***************************************************************************)
EXTENDS ThreadSync, SyncFences

CONSTANT
    Kernel        \* pairs of options and the body of a kernel

VARIABLES
    body,         \* the body of the kernel
    pass,         \* the pass that is next, or "run"
    env,          \* what is decided at run time
    trace,        \* the events of each thread
    pc,           \* how far it has got
    clock,        \* its vector clock
    log           \* the accesses and fences so far

vars == <<opt, body, pass, env, trace, pc, clock, log>>

Init ==
    /\ \E k \in Kernel : opt = k.opt /\ body = k.body
    /\ pass = "fence_proxy"
    /\ env = [threads |-> {}, block |-> TRUE, trips |-> 0]
    /\ trace = [t \in Thread |-> <<>>]
    /\ pc = [t \in Thread |-> 1]
    /\ clock = [t \in Thread |-> [u \in Thread |-> IF u = t THEN 1 ELSE 0]]
    /\ log = {}
----------------------------------------------------------------------------
(* The passes, in the order of the pipeline. *)

Rewrite(this, next, new) ==
    /\ pass = this
    /\ pass' = next
    /\ body' = new
    /\ UNCHANGED <<opt, env, trace, pc, clock, log>>

FenceProxyPass == Rewrite("fence_proxy", "sync_shared", IF opt.metal THEN body ELSE InjectFenceProxy(body))
SyncShared == Rewrite("sync_shared", "sync_dyn", TileLangThreadSync(body, FALSE))
SyncDyn == Rewrite("sync_dyn", "merge_round", TileLangThreadSync(body, TRUE))
MergeRoundPass ==
    Rewrite("merge_round", "tcgen05",
            IF opt.metal /\ opt.minimize THEN MetalMergeRoundBarrierCleanup(body) ELSE body)
Tcgen05Pass == Rewrite("tcgen05", "launch", IF opt.metal THEN body ELSE InjectTcgen05Fence(body))
----------------------------------------------------------------------------
(* The execution.  env holds what is decided at run time: the threads for  *)
(* which a condition holds on which they may disagree, whether one on      *)
(* which they agree holds, and how often loops of unknown extent run.      *)
(* place says where an event is in the execution of its thread: the        *)
(* position in the body, then in the body of that statement.  In between   *)
(* stands the branch, or the iteration of the loop, those of a while       *)
(* downwards; the evaluation of a condition is at position 0.              *)

Holds(cond, t) ==
    IF ~cond.runtime THEN t \in cond.who ELSE IF cond.agree THEN env'.block ELSE t \in env'.threads

Event(s, t, i, place) ==
    [call |-> s.call, place |-> place, proxy |-> ProxyEvent(s), bar |-> IF s.call = "sync" THEN s.bar ELSE -1, cnt |-> IF s.call = "sync" THEN s.cnt ELSE 0,
     acc |-> {[buf |-> a.buf, ty |-> a.ty, cells |-> Cells(a, t, i), atomic |-> a.atomic] : a \in ToSet(s.acc)}]

\* The accesses of a condition.
Evaluated(cond, t, i, place) ==
    IF cond.acc = <<>> THEN <<>> ELSE <<Event(Leaf("condition", cond.acc), t, i, Append(place, 0))>>

RECURSIVE Trace(_, _, _, _)
Trace(seq, t, i, at) ==
    LET Branch(s, p) ==
            Evaluated(s.cond, t, i, p)
              \o (IF Holds(s.cond, t) THEN Trace(s.then, t, i, Append(p, 1)) ELSE Trace(s.els, t, i, Append(p, 2)))
        Times(s, n, p) == FlattenSeq([k \in 1..n |-> Trace(s.body, t, k - 1, Append(p, k))])
        Again(s, n, p) ==
            FlattenSeq([k \in 1..n |-> Evaluated(s.cond, t, i, Append(p, -k)) \o Trace(s.body, t, k - 1, Append(p, -k))])
              \o Evaluated(s.cond, t, i, Append(p, -n - 1))
        At(s, p) == CASE s.op = "leaf"  -> <<Event(s, t, i, p)>>
                      [] s.op = "if"    -> Branch(s, p)
                      [] s.op = "for"   -> Times(s, IF s.dyn THEN env'.trips ELSE s.ext, p)
                      [] s.op = "while" -> Again(s, IF s.cond.agree \/ Holds(s.cond, t) THEN env'.trips ELSE 0, p)
    IN  FlattenSeq([k \in DOMAIN seq |-> At(seq[k], Append(at, k))])

\* The statements of the body, to one level of nesting.
Stmts == ToSet(body) \cup UNION {ToSet(body[k].body) : k \in {j \in DOMAIN body : body[j].op \in {"for", "while"}}}
Conds == {s.cond : s \in {r \in Stmts : r.op \in {"if", "while"}}}

Launch ==
    /\ pass = "launch"
    /\ env' \in [threads : IF \E c \in Conds : c.runtime /\ ~c.agree THEN SUBSET Thread ELSE {{}},
                 block : IF \E c \in Conds : c.runtime /\ c.agree THEN BOOLEAN ELSE {TRUE},
                 trips : IF \E s \in Stmts : s.op = "while" \/ (s.op = "for" /\ s.dyn) THEN {0, 3} ELSE {0}]
    /\ trace' = [t \in Thread |-> Trace(body, t, 0, <<>>)]
    /\ pass' = "run"
    /\ UNCHANGED <<opt, body, pc, clock, log>>

\* The last event of thread t before the next barrier.
Stop(t) ==
    CHOOSE k \in (pc[t] - 1)..Len(trace[t]) :
        /\ \A j \in pc[t]..k : trace[t][j].call # "sync"
        /\ k = Len(trace[t]) \/ trace[t][k + 1].call = "sync"

Waits(t, k) == \E j \in k..Stop(t) : trace[t][j].call = "wait_group"

\* An access starts at a point of the clocks and ends in a phase of its thread.  That
\* of a copy by cp.async ends (0: not yet) at the ptx_wait_group that follows it.
Entry(t, k) ==
    [t |-> t, pos |-> k, call |-> trace[t][k].call, proxy |-> trace[t][k].proxy, acc |-> trace[t][k].acc, at |-> clock[t],
     end |-> IF trace[t][k].call = "cp_async" /\ ~Waits(t, k) THEN 0 ELSE clock[t][t]]
Close(e) == IF e.end = 0 /\ Waits(e.t, pc[e.t]) THEN [e EXCEPT !.end = clock[e.t][e.t]] ELSE e

Segment ==
    /\ pass = "run"
    /\ \E t \in Thread : Stop(t) >= pc[t]
    /\ log' = {Close(e) : e \in log} \cup UNION {{Entry(t, k) : k \in pc[t]..Stop(t)} : t \in Thread}
    /\ pc' = [t \in Thread |-> Stop(t) + 1]
    /\ UNCHANGED <<opt, body, pass, env, trace, clock>>

\* As many threads as the barrier counts have arrived at it.
Complete(group) ==
    /\ group # {}
    /\ \A t \in group : Stop(t) < pc[t] /\ pc[t] <= Len(trace[t])
    /\ \A t, u \in group : trace[t][pc[t]].bar = trace[u][pc[u]].bar
    /\ \A t \in group : trace[t][pc[t]].cnt = Cardinality(group)

Release(group) ==
    /\ pass = "run"
    /\ \A t \in Thread : Stop(t) < pc[t]
    /\ Complete(group)
    /\ pc' = [t \in Thread |-> IF t \in group THEN pc[t] + 1 ELSE pc[t]]
    /\ LET joined == [u \in Thread |-> Max({clock[t][u] : t \in group})]
       IN  clock' = [t \in Thread |-> IF t \in group THEN [joined EXCEPT ![t] = @ + 1] ELSE clock[t]]
    /\ UNCHANGED <<opt, body, pass, env, trace, log>>

Next ==
    \/ FenceProxyPass \/ SyncShared \/ SyncDyn \/ MergeRoundPass \/ Tcgen05Pass
    \/ Launch \/ Segment
    \/ \E group \in SUBSET Thread : Release(group)

Spec == Init /\ [][Next]_vars
----------------------------------------------------------------------------
(* Properties. *)

\* Types; a barrier counts whole warps (ThreadPartialSyncRewriter) and has an id that the
\* hardware has.
TypeOK ==
    /\ \A k \in DOMAIN body : \A s \in Leaves(body[k]) : Is(s, "sync") => s.bar \in 0..15 /\ s.cnt > 0 /\ s.cnt % Warp = 0
    /\ opt.prover \in BOOLEAN /\ opt.count \in BOOLEAN /\ opt.metal \in BOOLEAN /\ opt.minimize \in BOOLEAN
    /\ pass \in {"fence_proxy", "sync_shared", "sync_dyn", "merge_round", "tcgen05", "launch", "run"}
    /\ \A t \in Thread : pc[t] \in 1..(Len(trace[t]) + 1)
    /\ clock \in [Thread -> [Thread -> Nat]]
    /\ \A e \in log : e.t \in Thread /\ e.pos \in DOMAIN trace[e.t]

\* a is over before b starts: in the same thread, or across a barrier.
Precedes(a, b) ==
    IF a.t = b.t THEN a.pos < b.pos ELSE a.end # 0 /\ b.at[a.t] >= a.end

\* On Metal the threads of a simdgroup run in lockstep.
Lockstep(a, b) == opt.metal /\ opt.minimize /\ a.t \div Warp = b.t \div Warp

Conflicting(a, b) ==
    \E x \in a.acc, y \in b.acc :
        x.buf = y.buf /\ x.cells \cap y.cells # {} /\ x.ty # y.ty /\ ~(x.atomic /\ y.atomic)

\* Some barrier stands in code that may be skipped: a branch, or a loop that may run no iteration.
SkippedBarrier ==
    \E s \in Stmts : (s.op \in {"if", "while"} \/ (s.op = "for" /\ s.dyn)) /\ \E l \in Leaves(s) : Is(l, "sync")

\* The first place where the ways to two events part is the condition of a statement and
\* its body, or two iterations of a while.
Unplanned(a, b) ==
    LET p == trace[a.t][a.pos].place
        q == trace[b.t][b.pos].place
    IN  \E n \in DOMAIN p \cap DOMAIN q :
            (\A m \in 1..(n - 1) : p[m] = q[m]) /\ p[n] # q[n] /\ (p[n] <= 0 \/ q[n] <= 0)

Ordered(a, b) == Precedes(a, b) \/ Precedes(b, a) \/ Lockstep(a, b)

\* Every read of shared memory is ordered with every write of another thread to the
\* same element, in every kernel and in every execution.
RaceFree == \A a, b \in log : a.t # b.t /\ Conflicting(a, b) => Ordered(a, b)

\* The barriers that the passes leave in the kernel (ThreadSync, the cleanup of merge
\* rounds) order every read of shared memory with every write of another thread to the
\* same element: within an iteration, across the iterations of a loop, across branches,
\* for the reads of conditions and with copies in flight, whatever the prover manages to
\* prove.  There are two exceptions.  Summarize takes a barrier in code that may be
\* skipped for one that is always met.  And the planner never compares the accesses of a
\* condition with those of the body that depends on it, nor two iterations of a while.
NoRace ==
    ~SkippedBarrier =>
        \A a, b \in log : a.t # b.t /\ Conflicting(a, b) /\ ~Unplanned(a, b) => Ordered(a, b)

Finished(t) == pc[t] > Len(trace[t])

\* Nobody waits at a barrier for ever: when every thread is at a barrier or done, some
\* barrier has all the threads it counts, or all are done.
AllMeet ==
    pass = "run" /\ (\A t \in Thread : Stop(t) < pc[t])
    => (\A t \in Thread : Finished(t)) \/ \E group \in SUBSET Thread : Complete(group)

\* Threads go separate ways at a statement with a barrier in it, and the pass does not
\* know that they may: the condition is a fragment's element, which counts as block
\* uniform, or that of a while, which is not looked at.
UnseenSplit ==
    /\ env.threads \notin {{}, Thread}
    /\ \E s \in Stmts :
          /\ s.op = "while" \/ (s.op = "if" /\ s.cond.block_uniform)
          /\ s.cond.runtime /\ ~s.cond.agree
          /\ \E l \in Leaves(s) : Is(l, "sync")

\* Nobody waits at a barrier for ever, unless the threads take separate ways where the
\* pass cannot see it.  ThreadSync moves barriers out of the branches on which it knows
\* that threads disagree, or names them and counts their threads.
BarriersMeet == UnseenSplit \/ AllMeet

\* An instruction of the async proxy that reads what a generic store wrote earlier is
\* separated from the store by a fence.proxy.async, also around the back edge of a loop
\* and after branches that only some executions take (inject_fence_proxy.cc).
AsyncSeesWrites ==
    \A w, r \in log :
        /\ r.proxy = "async" /\ w.proxy = "generic"
        /\ Precedes(w, r) /\ \E x \in w.acc, y \in r.acc : x.buf = y.buf /\ x.cells \cap y.cells # {}
        => \E f \in log : f.call = "fence_proxy_async" /\ Precedes(w, f) /\ Precedes(f, r)

\* Events i < k of a thread are a use of tensor memory and the next boundary, an arrival
\* or a barrier, or such a boundary, a wait or a barrier, and the next use.
Releases(e, i, k) == e[i].call \in Tcgen05Calls /\ e[k].call \in {"sync", "ptx_arrive_barrier"}
Acquires(e, i, k) == e[i].call \in {"sync", "mbarrier_wait_parity"} /\ e[k].call \in Tcgen05Calls

\* Between the two events of every such pair satisfying Seen there is the fence.
Fenced(Seen(_, _, _)) ==
    \A t \in Thread : \A i, k \in DOMAIN trace[t] :
        LET e == trace[t]
            Between(calls) == \E j \in (i + 1)..(k - 1) : e[j].call \in calls
            next == i < k /\ ~Between({"sync", "mbarrier_wait_parity", "ptx_arrive_barrier", "tcgen05_mma_arrive"})
        IN  /\ next /\ Releases(e, i, k) /\ Seen(e, k, i) => Between({"tcgen05_before_thread_sync"})
            /\ next /\ Acquires(e, i, k) /\ Seen(e, i, k) => Between({"tcgen05_after_thread_sync"})

\* In every kernel and every execution.
AllFenced == ~opt.metal => Fenced(LAMBDA e, b, u : TRUE)

\* The body that holds boundary b in this execution holds use u, maybe deeper.
SameRegion(e, b, u) == IsPrefix(Front(e[b].place), e[u].place)

\* A barrier that is not alone in its body.
InSequence(e, b) ==
    \E j \in DOMAIN e : j # b /\ Len(e[j].place) = Len(e[b].place) /\ SameRegion(e, b, j)

\* Tensor memory is handed over only between the two fences.  From the last use of it to
\* a barrier or an arrival there is a before_thread_sync, from a barrier or a wait to the
\* next use an after_thread_sync (inject_tcgen05_fence.cc).  For an arrival or a wait that
\* holds for the uses in the same pass through the statements around it ("the subsequent
\* linear region"), which may be inside loops and branches there; a use before or after
\* the loop or branch that the boundary stands in, or in its next iteration, is not seen.
\* For a barrier it holds for every use, unless the barrier is the only statement of a
\* loop or branch.
TmemHandoff ==
    ~opt.metal =>
        Fenced(LAMBDA e, b, u : IF e[b].call = "sync" THEN InSequence(e, b) ELSE SameRegion(e, b, u))
=============================================================================
