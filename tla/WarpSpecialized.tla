-------------------------- MODULE WarpSpecialized --------------------------
(***************************************************************************)
(* Warp specialization (ProducerConsumerWarpSpecialized): a pipelined loop *)
(* is split into a producer loop, which copies the tiles of an iteration   *)
(* into shared memory, and a consumer loop, which computes with them.  The *)
(* two meet at the mbarriers that the pass inserts: a forward barrier      *)
(* tells the consumers that a tile is loaded, a back-pressure barrier      *)
(* tells the producers that its slot may be overwritten.                   *)
(*                                                                         *)
(* The first half of the module is the pass: from the loop, prog, it       *)
(* builds the bodies of the two loops, code.  The second half runs them:   *)
(* threads, mbarriers, and the copies that the hardware has in flight.     *)
(*                                                                         *)
(* Tile g < prog.groups is loaded by the g-th TMA copy of the loop, Async  *)
(* by SIMT or cp.async copies of all producer threads, each its part, and  *)
(* Prelude by a TMA copy before the loop.  A thread stands for a warp: all *)
(* warps of the producer partition run the producer loop, whether they     *)
(* have copies to make or not.                                             *)
(***************************************************************************)
EXTENDS Integers, Sequences, FiniteSets, SequencesExt

CONSTANTS
    Producer, Consumer,  \* threads of the two partitions
    Leader,              \* the producer that is elected to issue TMA copies
    MaxGroups,           \* bound on the TMA copies of a loop
    MaxRounds,           \* bound on the extent of a loop
    Program              \* the loops to be split

ASSUME LeaderAssumption == Leader \in Producer

VARIABLES
    prog,      \* the loop
    code,      \* the bodies of the producer and the consumer loop
    th,        \* where each thread is: the iteration, the place in its body
               \* and its phase counter
    bar,       \* the mbarriers: completed phases, arrivals and bytes awaited
    tile,      \* what each part of each slot of each tile holds
    inflight   \* copies, and arrivals tied to copies, that are under way

vars == <<prog, code, th, bar, tile, inflight>>

Async == MaxGroups
Prelude == MaxGroups + 1
Group == 0..(prog.groups - 1)
Slot == 0..(prog.stages - 1)
Thread == Producer \cup Consumer
----------------------------------------------------------------------------
(* The pass.  prog.uses is consumer_compute_stmts: for each statement the  *)
(* tiles it reads and the tiles it writes.                                 *)

Stmts == DOMAIN prog.uses
Reads(b) == {c \in Stmts : b \in prog.uses[c].reads}
Accesses(b) == {c \in Stmts : b \in prog.uses[c].reads \cup prog.uses[c].writes}

\* FindFirstAsyncProducerConsumerRead looks for the least of these.
AsyncReads == IF prog.async THEN Reads(Async) ELSE {}

\* (mutation) Asynchronous copies do not pull the waits forward.
WaitTmaOnly(g) == IF Reads(g) = {} THEN 1 ELSE Min(Reads(g))

\* wait_insert_pos: the statement in front of which the consumers wait for group
\* g, pulled forward to the first read of a tile that is copied asynchronously.
WaitBefore(g) ==
    LET own == IF Reads(g) = {} THEN 1 ELSE Min(Reads(g))
    IN  Min({own} \cup AsyncReads)

\* (mutation) The tile is released after its first use.
ArriveAfterFirst(g) == IF Accesses(g) = {} THEN Len(prog.uses) ELSE Min(Accesses(g))

\* arrive_insert_pos: the statement after which they release group g.
ArriveAfter(g) == IF Accesses(g) = {} THEN Len(prog.uses) ELSE Max(Accesses(g))

\* can_merge_tma_barriers
Merged ==
    /\ prog.groups > 1 /\ ~prog.async
    /\ \A g \in Group : WaitBefore(g) = WaitBefore(0) /\ ArriveAfter(g) = ArriveAfter(0)

Instr(op, arg) == <<[op |-> op, arg |-> arg]>>
When(cond, instrs) == IF cond THEN instrs ELSE <<>>
ForEach(F(_), n) == FlattenSeq([i \in 1..n |-> F(i - 1)])

\* The copy with its barrier; only the last of those that share one arrives on it.
TmaInstr(g) ==
    <<[op |-> "tma_copy", arg |-> g, group |-> IF Merged THEN 0 ELSE g,
       emit_arrive |-> ~prog.async /\ (~Merged \/ g = prog.groups - 1)]>>

\* producer_stmts.  commit_group only marks the copies issued so far.
ProducerBody ==
    LET load(g) ==
            When(~Merged \/ g = 0, Instr("bp_wait", g))
              \o When(prog.async /\ g = 0, Instr("cp_async", Async))
              \o TmaInstr(g)
        tie(g) == Instr("barrier_noinc", g)
    IN  ForEach(load, prog.groups) \o When(prog.async, ForEach(tie, prog.groups))

\* consumer_stmts.
ConsumerBody ==
    LET groups == IF Merged THEN 1 ELSE prog.groups
        stmt(i) ==
            LET c == i + 1
                wait(g) == When(WaitBefore(g) = c, Instr("fwd_wait", g))
                release(g) == When(ArriveAfter(g) = c, Instr("bp_arrive", g))
            IN  When(prog.prelude /\ Reads(Prelude) # {} /\ c = Min(Reads(Prelude)),
                     Instr("prelude_wait", 0))
                  \o ForEach(wait, groups) \o Instr("compute", c) \o ForEach(release, groups)
        all(op) == [i \in 1..groups |-> [op |-> op, arg |-> i - 1]]
    IN  ForEach(stmt, Len(prog.uses))
          \o When(Stmts = {}, all("fwd_wait") \o all("bp_arrive"))

Barrier == ({"fwd", "bp"} \X Group \X Slot) \cup {<<"prelude", 0, 0>>}

\* arrive_counts
ArriveCount(b) ==
    CASE b[1] = "fwd" -> IF prog.async THEN Cardinality(Producer) ELSE 1
      [] b[1] = "bp" -> Cardinality(Consumer)
      [] OTHER -> 1
----------------------------------------------------------------------------
(* The emitted loops. *)

Body(t) == IF t \in Producer THEN code.producer ELSE code.consumer
Running(t) == th[t].round < prog.rounds
At(t, op) == Running(t) /\ Body(t)[th[t].at].op = op
Arg(t) == Body(t)[th[t].at].arg

\* (mutation) Guarded loops number their barriers by the loop variable.
RoundIndex(t) == th[t].round

\* linear_idx, or the phase counter when the body of the loop is guarded.
Index(t) == IF prog.guarded THEN th[t].count ELSE th[t].round
SlotOf(t) == Index(t) % prog.stages
Parity(t) == (Index(t) \div prog.stages) % 2

\* The next iteration whose guard holds.
Taken(from) == Min({k \in from..(prog.rounds - 1) : prog.taken[k]} \cup {prog.rounds})

Step(t) ==
    th' = [th EXCEPT ![t] =
             IF @.at < Len(Body(t)) THEN [@ EXCEPT !.at = @ + 1]
             ELSE [round |-> Taken(@.round + 1), at |-> 1, count |-> @.count + 1]]

(* An mbarrier. *)

Passed(b, parity) == bar[b].done % 2 # parity

Settle(b, m) ==
    IF m.pending = 0 /\ m.tx = 0
    THEN [done |-> m.done + 1, pending |-> ArriveCount(b), tx |-> 0] ELSE m

Arrive(b) == bar' = [bar EXCEPT ![b] = Settle(b, [@ EXCEPT !.pending = @ - 1])]

Parts(b) == IF b = Async THEN Producer ELSE {Leader}
Loaded(k) == [round |-> k, edits |-> {}]

PreludeCopy == [kind |-> "tma", tile |-> Prelude, slot |-> 0, index |-> 0, round |-> 0,
                thread |-> Leader, bar |-> <<"prelude", 0, 0>>]

Init ==
    /\ prog \in Program
    /\ code = [producer |-> ProducerBody, consumer |-> ConsumerBody]
    /\ th = [t \in Thread |-> [round |-> Taken(0), at |-> 1, count |-> 0]]
    /\ bar = [b \in Barrier |->
                [done |-> 0, tx |-> IF b[1] = "prelude" /\ prog.prelude THEN 1 ELSE 0,
                 pending |-> IF b[1] = "prelude" /\ prog.prelude THEN 0 ELSE ArriveCount(b)]]
    /\ tile = [p \in {<<b, s, q>> \in (0..Prelude) \X Slot \X Producer : q \in Parts(b)} |->
                 Loaded(-1)]
    /\ inflight = IF prog.prelude THEN {PreludeCopy} ELSE {}

\* (mutation) The producers wait for the phase the consumers have to complete.
BpWaitPhase(t) ==
    /\ At(t, "bp_wait")
    /\ Passed(<<"bp", Arg(t), SlotOf(t)>>, Parity(t))
    /\ Step(t)
    /\ UNCHANGED <<prog, code, bar, tile, inflight>>

\* The parity is flipped, so that the first wait on a fresh slot passes.
BpWait(t) ==
    /\ At(t, "bp_wait")
    /\ Passed(<<"bp", Arg(t), SlotOf(t)>>, 1 - Parity(t))
    /\ Step(t)
    /\ UNCHANGED <<prog, code, bar, tile, inflight>>

FwdWait(t) ==
    /\ At(t, "fwd_wait")
    /\ Passed(<<"fwd", Arg(t), SlotOf(t)>>, Parity(t))
    /\ Step(t)
    /\ UNCHANGED <<prog, code, bar, tile, inflight>>

\* prelude_wait_guard: only the first iteration waits.
PreludeWait(t) ==
    /\ At(t, "prelude_wait")
    /\ Index(t) = 0 => Passed(<<"prelude", 0, 0>>, 0)
    /\ Step(t)
    /\ UNCHANGED <<prog, code, bar, tile, inflight>>

CopyOf(t, kind, b, g) ==
    [kind |-> kind, tile |-> b, slot |-> SlotOf(t), index |-> Index(t),
     round |-> th[t].round, thread |-> t, bar |-> <<"fwd", g, SlotOf(t)>>]

\* The leader announces the bytes and starts the copy.
TmaCopy(t) ==
    LET copy == Body(t)[th[t].at]
        b == <<"fwd", copy.group, SlotOf(t)>>
        expect == [bar[b] EXCEPT !.tx = @ + 1, !.pending = IF copy.emit_arrive THEN @ - 1 ELSE @]
    IN
    /\ At(t, "tma_copy")
    /\ Step(t)
    /\ IF t = Leader
       THEN /\ bar' = [bar EXCEPT ![b] = expect]
            /\ inflight' = inflight \cup {CopyOf(t, "tma", copy.arg, copy.group)}
       ELSE UNCHANGED <<bar, inflight>>
    /\ UNCHANGED <<prog, code, tile>>

CpAsync(t) ==
    /\ At(t, "cp_async")
    /\ Step(t)
    /\ inflight' = inflight \cup {CopyOf(t, "cp", Async, 0)}
    /\ UNCHANGED <<prog, code, bar, tile>>

\* The thread's arrival is left to the hardware, after its copies.
BarrierNoinc(t) ==
    /\ At(t, "barrier_noinc")
    /\ Step(t)
    /\ inflight' = inflight \cup {CopyOf(t, "arrive", Async, Arg(t))}
    /\ UNCHANGED <<prog, code, bar, tile>>

\* The version of a tile that an iteration uses; Prelude has one only.
Where(t, b) == IF b = Prelude THEN 0 ELSE SlotOf(t)

Compute(t) ==
    /\ At(t, "compute")
    /\ tile' = [p \in DOMAIN tile |->
                  IF p[1] \in prog.uses[Arg(t)].writes /\ p[2] = Where(t, p[1])
                  THEN [tile[p] EXCEPT !.edits = @ \cup {<<t, Arg(t)>>}] ELSE tile[p]]
    /\ Step(t)
    /\ UNCHANGED <<prog, code, bar, inflight>>

BpArrive(t) ==
    /\ At(t, "bp_arrive")
    /\ Arrive(<<"bp", Arg(t), SlotOf(t)>>)
    /\ Step(t)
    /\ UNCHANGED <<prog, code, tile, inflight>>

\* The hardware finishes one of the transfers.
LandTma(w) ==
    /\ w.kind = "tma"
    /\ tile' = [tile EXCEPT ![<<w.tile, w.slot, w.thread>>] = Loaded(w.round)]
    /\ bar' = [bar EXCEPT ![w.bar] = Settle(w.bar, [@ EXCEPT !.tx = @ - 1])]
    /\ inflight' = inflight \ {w}
    /\ UNCHANGED <<prog, code, th>>

LandCp(w) ==
    /\ w.kind = "cp"
    /\ tile' = [tile EXCEPT ![<<w.tile, w.slot, w.thread>>] = Loaded(w.round)]
    /\ inflight' = inflight \ {w}
    /\ UNCHANGED <<prog, code, th, bar>>

LandArrive(w) ==
    /\ w.kind = "arrive"
    /\ ~\E c \in inflight : c.kind = "cp" /\ c.thread = w.thread /\ c.index <= w.index
    /\ Arrive(w.bar)
    /\ inflight' = inflight \ {w}
    /\ UNCHANGED <<prog, code, th, tile>>

ThreadStep(t) ==
    \/ BpWait(t) \/ TmaCopy(t) \/ CpAsync(t) \/ BarrierNoinc(t)
    \/ FwdWait(t) \/ PreludeWait(t) \/ Compute(t) \/ BpArrive(t)

Land == \E w \in inflight : LandTma(w) \/ LandCp(w) \/ LandArrive(w)

Next == Land \/ \E t \in Thread : ThreadStep(t)

\* Every warp is scheduled and every copy ends.
Fairness == WF_vars(Land) /\ \A t \in Thread : WF_vars(ThreadStep(t))

Spec == Init /\ [][Next]_vars /\ Fairness
----------------------------------------------------------------------------
(* Properties *)

\* The variables have their types; arrivals and bytes of an mbarrier stay in range.
TypeOK ==
    /\ prog \in Program
    /\ th \in [Thread ->
                 [round : 0..MaxRounds, at : 1..(Len(code.producer) + Len(code.consumer)),
                  count : 0..MaxRounds]]
    /\ \A b \in Barrier :
          /\ bar[b].done \in 0..MaxRounds /\ bar[b].tx \in 0..prog.groups
          /\ bar[b].pending \in 0..ArriveCount(b)
    /\ \A p \in DOMAIN tile :
          tile[p].round \in -1..(MaxRounds - 1) /\ tile[p].edits \subseteq Consumer \X Stmts

\* While a consumer is at a statement, every part of every tile it reads is the
\* one of its own iteration, and has the thread's own earlier writes to it.
ReadsOwnTile ==
    \A t \in Consumer : At(t, "compute") =>
        \A p \in DOMAIN tile :
            p[1] \in prog.uses[Arg(t)].reads /\ p[2] = Where(t, p[1]) =>
                /\ tile[p].round = IF p[1] = Prelude THEN 0 ELSE th[t].round
                /\ \A c \in Accesses(p[1]) : c < Arg(t) /\ p[1] \in prog.uses[c].writes =>
                      <<t, c>> \in tile[p].edits

Needs(t, b) ==
    /\ Running(t)
    /\ \E i \in th[t].at..Len(Body(t)) :
          Body(t)[i].op = "compute" /\ Body(t)[i].arg \in Accesses(b)

\* No copy into a slot starts before every consumer is done with what it holds.
NoOverwrite ==
    \A w \in inflight, t \in Consumer :
        w.kind # "arrive" /\ w.tile # Prelude /\ Accesses(w.tile) # {} =>
            LET last == w.index - prog.stages
            IN  Index(t) > last \/ (Index(t) = last /\ ~Needs(t, w.tile))

\* A warp that only follows: it has no copies to make, and nothing waits for it.
Follows(t) == t \in Producer \ {Leader} /\ ~prog.async

\* A thread waits for the phase after k of a barrier.  One bit of parity tells the phases
\* k and k + 1 apart: with the barrier elsewhere, the wait mistakes one phase for another.
\* That never happens to the leader, to a consumer, or to a producer that copies.  A warp
\* that only follows is not behind the barrier, but it can be overtaken.
ParityUnambiguous ==
    \A t \in Thread :
        LET k == Index(t) \div prog.stages IN
        /\ At(t, "bp_wait") =>
              LET done == bar[<<"bp", Arg(t), SlotOf(t)>>].done
              IN  done >= k - 1 /\ (done <= k \/ Follows(t))
        /\ At(t, "fwd_wait") => bar[<<"fwd", Arg(t), SlotOf(t)>>].done \in {k, k + 1}

\* The barrier that t waits for is past the phase t waits for, and by then in another.
Overtaken(t) ==
    /\ Follows(t) /\ At(t, "bp_wait")
    /\ bar[<<"bp", Arg(t), SlotOf(t)>>].done > Index(t) \div prog.stages

\* The producers that copy and the consumers never wait for each other forever: their
\* loops end.  So do those of the other producer warps, except where the barrier has
\* overtaken them.
Finishes == <>(\A t \in Thread : Running(t) => Overtaken(t))

\* The loop of every warp ends.  The code does not see to it.
AllFinish == <>(\A t \in Thread : ~Running(t))
=============================================================================
