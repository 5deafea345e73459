----------------------------- MODULE SyncFences -----------------------------
(***************************************************************************)
(* The passes around ThreadSync that place fences or drop barriers:        *)
(* InjectFenceProxy puts fence.proxy.async between a generic write to      *)
(* shared memory and an instruction of the async proxy; InjectTcgen05Fence *)
(* brackets synchronization with the fences that tensor memory needs;      *)
(* MetalMergeRoundBarrierCleanup joins the two branches of a merge round.  *)
(***************************************************************************)
EXTENDS TileIR

----------------------------------------------------------------------------
(* InjectFenceProxy.  A proxy state is the set of proxies that the last    *)
(* relevant operation may have used.                                       *)

\* ClassifyCallProxyEvent, and stores to shared memory.
ProxyEvent(s) ==
    CASE s.call = "fence_proxy_async"                  -> "neutral"
      [] s.call \in {"tma_store", "wgmma"}             -> "async"
      [] \E k \in DOMAIN s.acc : s.acc[k].ty = "W"     -> "generic"
      [] OTHER                                         -> "none"

HasEvent(seq, event) == \E k \in DOMAIN seq : \E s \in Leaves(seq[k]) : ProxyEvent(s) = event

\* SummarizeProxyEvents: the statements use the async proxy and not the generic one.
PureAsync(seq) == HasEvent(seq, "async") /\ ~HasEvent(seq, "generic")

ProxyFence == <<Call("fence_proxy_async")>>

\* (mutation) a fence only where the generic proxy must have been used last.
ApplyProxyEventMust(s, state) ==
    LET event == ProxyEvent(s)
    IN  CASE event = "none"    -> [seq |-> <<s>>, out |-> state]
          [] event = "neutral" -> [seq |-> <<s>>, out |-> {"none"}]
          [] event = "generic" -> [seq |-> <<s>>, out |-> {"generic"}]
          [] event = "async"   -> [seq |-> (IF state = {"generic"} THEN ProxyFence ELSE <<>>) \o <<s>>,
                                   out |-> {"async"}]

\* ApplyProxyEvent, InjectFenceIfNeededAndUpdateState.
ApplyProxyEvent(s, state) ==
    LET event == ProxyEvent(s)
    IN  CASE event = "none"    -> [seq |-> <<s>>, out |-> state]
          [] event = "neutral" -> [seq |-> <<s>>, out |-> {"none"}]
          [] event = "generic" -> [seq |-> <<s>>, out |-> {"generic"}]
          [] event = "async"   -> [seq |-> (IF "generic" \in state THEN ProxyFence ELSE <<>>) \o <<s>>,
                                   out |-> {"async"}]

RECURSIVE RewriteWithState(_, _), RewriteStmt(_, _), RewriteLoopBodyFixpoint(_, _, _, _)
RewriteWithState(seq, state) ==
    LET Step(st, s) == LET r == RewriteStmt(s, st.out)
                       IN  [seq |-> st.seq \o r.seq, out |-> r.out]
    IN  FoldLeft(Step, [seq |-> <<>>, out |-> state], seq)

\* At most iter rounds towards a state at the head of the loop that covers its entry
\* and its back edge.
RewriteLoopBodyFixpoint(body, entry, header, iter) ==
    LET r == RewriteWithState(body, header)
        next == entry \cup r.out
    IN  IF next = header \/ iter = 1 THEN r ELSE RewriteLoopBodyFixpoint(body, entry, next, iter - 1)

RewriteStmt(s, entry) ==
    LET Loop(pre, state, mayBeZero) ==
          LET r == RewriteLoopBodyFixpoint(s.body, state, state, 8)
          IN  [seq |-> pre \o <<[s EXCEPT !.body = r.seq]>>,
               out |-> IF mayBeZero THEN state \cup r.out ELSE r.out]
        Branch(pre, state) ==
          LET then == RewriteWithState(s.then, state)
              els == RewriteWithState(s.els, state)
          IN  [seq |-> pre \o <<[s EXCEPT !.then = then.seq, !.els = els.seq]>>,
               out |-> then.out \cup els.out]
        hoist == /\ "generic" \in entry
                 /\ IF s.op = "if" THEN PureAsync(s.then) /\ PureAsync(s.els) ELSE PureAsync(s.body)
        pre == IF hoist THEN ProxyFence ELSE <<>>
        state == IF hoist THEN {"none"} ELSE entry
    IN  CASE s.op = "leaf"  -> ApplyProxyEvent(s, entry)
          [] s.op = "if"    -> Branch(pre, state)
          [] s.op = "for"   -> Loop(pre, state, s.dyn \/ s.ext = 0)
          [] s.op = "while" -> Loop(pre, state, TRUE)

InjectFenceProxy(body) == RewriteWithState(body, {"none"}).seq
----------------------------------------------------------------------------
(* InjectTcgen05Fence. *)

Tcgen05Calls == {"tcgen05_mma", "tcgen05_ld", "tcgen05_mma_arrive"}
Boundary(s) == s.op = "leaf" /\ s.call \in {"sync", "mbarrier_wait_parity", "ptx_arrive_barrier", "tcgen05_mma_arrive"}
UsesTmem(s) == \E l \in Leaves(s) : l.call \in Tcgen05Calls
Before == Call("tcgen05_before_thread_sync")
After == Call("tcgen05_after_thread_sync")

\* HasUpcomingTcgen05Use: following i, tensor memory is used before the next boundary.
HasUpcomingTcgen05Use(seq, i) ==
    \E k \in (i + 1)..Len(seq) :
        /\ UsesTmem(seq[k])
        /\ \A j \in (i + 1)..(k - 1) : ~Boundary(seq[j]) /\ seq[j] \notin {Before, After}

\* (mutation) only calls in the same sequence count as uses.
HasPriorTcgen05Call(seq, i) ==
    \E k \in 1..(i - 1) :
        /\ seq[k].op = "leaf" /\ UsesTmem(seq[k])
        /\ \A j \in (k + 1)..(i - 1) : ~Boundary(seq[j]) /\ seq[j] \notin {Before, After}

\* HasPriorTcgen05Use: ahead of i, it was used after the previous boundary.
HasPriorTcgen05Use(seq, i) ==
    \E k \in 1..(i - 1) :
        /\ UsesTmem(seq[k])
        /\ \A j \in (k + 1)..(i - 1) : ~Boundary(seq[j]) /\ seq[j] \notin {Before, After}

RECURSIVE Tcgen05FenceRewriter(_, _)
\* A body of one statement is no SeqStmt: it gets no scan, and a barrier that is alone in
\* it gets its fences only when no SeqStmt is around (in_seq_rewrite_).
Tcgen05FenceRewriter(body, inSeq) ==
    LET single == Len(body) = 1
        Inner(b) == Tcgen05FenceRewriter(b, inSeq \/ ~single)
        Child(s) ==
          CASE s.op = "leaf" -> s
            [] s.op = "if"   -> [s EXCEPT !.then = Inner(@), !.els = Inner(@)]
            [] OTHER         -> [s EXCEPT !.body = Inner(@)]
        seq == [k \in DOMAIN body |-> Child(body[k])]
        NeedBefore(k) ==
            /\ Is(seq[k], "sync") \/ (Is(seq[k], "ptx_arrive_barrier") /\ HasPriorTcgen05Use(seq, k))
            /\ ~(k > 1 /\ seq[k - 1] = Before)
        NeedAfter(k) ==
            /\ Is(seq[k], "sync") \/ (Is(seq[k], "mbarrier_wait_parity") /\ HasUpcomingTcgen05Use(seq, k))
            /\ ~(k < Len(seq) /\ seq[k + 1] = After)
        At(k) == (IF NeedBefore(k) THEN <<Before>> ELSE <<>>) \o <<seq[k]>>
                     \o (IF NeedAfter(k) THEN <<After>> ELSE <<>>)
    IN  IF single /\ inSeq THEN seq ELSE FlattenSeq([k \in DOMAIN seq |-> At(k)])

InjectTcgen05Fence(body) ==
    IF \E k \in DOMAIN body : UsesTmem(body[k]) THEN Tcgen05FenceRewriter(body, FALSE) ELSE body
----------------------------------------------------------------------------
(* MetalMergeRoundBarrierCleanup. *)

ReadBy(seq) == {a.buf : a \in {b \in UNION {ToSet(s.acc) : s \in UNION {Leaves(seq[k]) : k \in DOMAIN seq}} : b.ty = "R"}}
WrittenBy(seq) == {a.buf : a \in {b \in UNION {ToSet(s.acc) : s \in UNION {Leaves(seq[k]) : k \in DOMAIN seq}} : b.ty = "W"}}
HasSync(seq) == \E k \in DOMAIN seq : \E s \in Leaves(seq[k]) : Is(s, "sync")

\* _can_fuse: the same threads (t % n = 0 for some n) first read shared memory, then
\* write buffers that they read.  The first branch stores what it reads in the local
\* buffer that the second one takes it from.
CanFuse(a, b) ==
    /\ a.op = "if" /\ b.op = "if" /\ a.els = <<>> /\ b.els = <<>>
    /\ a.cond = b.cond /\ \E n \in 2..NumThreads : n % 2 = 0 /\ a.cond = EveryNth(n)
    /\ ~HasSync(a.then) /\ ReadBy(a.then) # {} /\ WrittenBy(a.then) = {}
    /\ ~HasSync(b.then) /\ WrittenBy(b.then) # {} /\ ReadBy(b.then) = {}
    /\ WrittenBy(b.then) \subseteq ReadBy(a.then)

RECURSIVE RewriteSeq(_)
\* _rewrite_seq: a branch, a barrier, the branch that writes back, a barrier.
RewriteSeq(seq) ==
    IF Len(seq) < 4 THEN seq
    ELSE IF CanFuse(seq[1], seq[3]) /\ seq[2] = Sync /\ seq[4] = Sync
         THEN <<[seq[1] EXCEPT !.then = @ \o seq[3].then], seq[4]>> \o RewriteSeq(SubSeq(seq, 5, Len(seq)))
         ELSE <<seq[1]>> \o RewriteSeq(Tail(seq))

RECURSIVE MetalMergeRoundBarrierCleanup(_)
MetalMergeRoundBarrierCleanup(body) ==
    LET Child(s) ==
          CASE s.op = "leaf" -> s
            [] s.op = "if"   -> [s EXCEPT !.then = MetalMergeRoundBarrierCleanup(@),
                                          !.els = MetalMergeRoundBarrierCleanup(@)]
            [] OTHER         -> [s EXCEPT !.body = MetalMergeRoundBarrierCleanup(@)]
    IN  RewriteSeq([k \in DOMAIN body |-> Child(body[k])])
=============================================================================
