------------------------------- MODULE TileIR -------------------------------
(***************************************************************************)
(* Bodies of device kernels, as the late passes of OptimizeForTarget see   *)
(* them: sequences of statements that a block of threads executes.  A leaf *)
(* is a store or a call with the accesses it makes to shared memory; the   *)
(* other statements are branches and loops.  Arithmetic is gone: the index *)
(* of an access is one of a few functions of the thread and the iteration. *)
(***************************************************************************)
EXTENDS Integers, Sequences, FiniteSets, SequencesExt

CONSTANTS
    NumThreads,   \* extent of threadIdx.x
    Warp          \* thread_warp_size of the target

Thread == 0..(NumThreads - 1)
----------------------------------------------------------------------------
(* Accesses.  A pointer access (tvm_access_ptr) names a region, the others *)
(* one element.  slot is the part of a buffer with two versions.           *)

SlotOf(slot, i) ==
    CASE slot = "none" -> 0
      [] slot = "cur"  -> i % 2
      [] slot = "prev" -> (i + 1) % 2

\* The elements that thread t touches in iteration i of the loop around it.
Cells(a, t, i) ==
    LET base == NumThreads * SlotOf(a.slot, i)
    IN  CASE a.thr = "own"  -> {base + t}
          [] a.thr = "next" -> {base + ((t + 1) % NumThreads)}
          [] a.thr = "first" -> {base}
          [] a.thr = "all"  -> base..(base + NumThreads - 1)

Access(buf, ty, thr, slot) ==
    [buf |-> buf, ty |-> ty, thr |-> thr, slot |-> slot, ptr |-> FALSE, async |-> FALSE, atomic |-> FALSE]
Pointer(buf, ty, thr, slot, async, atomic) ==
    [Access(buf, ty, thr, slot) EXCEPT !.ptr = TRUE, !.async = async, !.atomic = atomic]
----------------------------------------------------------------------------
(* Statements.  What is loaded goes to a local buffer of the thread, what  *)
(* is stored comes from it.                                                *)

Leaf(call, acc) == [op |-> "leaf", call |-> call, acc |-> acc]
Call(call) == Leaf(call, <<>>)
If(cond, then, els) == [op |-> "if", cond |-> cond, then |-> then, els |-> els]
\* A loop of known extent, or (dyn) of an extent that is a parameter of the kernel.
For(ext, dyn, body) == [op |-> "for", ext |-> ext, dyn |-> dyn, body |-> body]
While(cond, body) == [op |-> "while", cond |-> cond, body |-> body]

\* tvm_storage_sync: all threads of the block meet at barrier 0, or cnt threads at
\* the named barrier bar.
SyncAt(bar, cnt) == [op |-> "leaf", call |-> "sync", acc |-> <<>>, bar |-> bar, cnt |-> cnt]
Sync == SyncAt(0, NumThreads)

Is(s, call) == s.op = "leaf" /\ s.call = call

RECURSIVE Leaves(_)
\* The leaves of a statement (PostOrderVisit).
Leaves(s) ==
    LET Of(seq) == UNION {Leaves(seq[k]) : k \in DOMAIN seq}
    IN  CASE s.op = "leaf" -> {s}
          [] s.op = "if"   -> Of(s.then) \cup Of(s.els)
          [] OTHER         -> Of(s.body)
----------------------------------------------------------------------------
(* Conditions: the threads that may take the branch as far as the prover   *)
(* knows, the range of threadIdx.x that const_int_bound derives from it,   *)
(* whether it depends on a load, whether it is block uniform for           *)
(* ConditionThreadPropertyChecker, whether all threads do agree on it, and *)
(* the accesses to shared memory that it makes.                            *)

Cond(who, lo, hi) ==
    [who |-> who, lo |-> lo, hi |-> hi, runtime |-> FALSE, block_uniform |-> who = Thread,
     agree |-> who = Thread, acc |-> <<>>]
Below(n) == Cond({t \in Thread : t < n}, 0, n - 1)
EveryNth(n) == Cond({t \in Thread : t % n = 0}, 0, NumThreads - 1)

\* The index of the load is that of the thread, or the same for all threads.
LoadedByThread == [Cond(Thread, 0, NumThreads - 1) EXCEPT !.runtime = TRUE, !.block_uniform = FALSE, !.agree = FALSE]
LoadedByBlock == [Cond(Thread, 0, NumThreads - 1) EXCEPT !.runtime = TRUE]
\* The same index in a fragment, of which each thread has its own.
LoadedFragment == [LoadedByBlock EXCEPT !.agree = FALSE]

\* The load is from shared memory.
Flag(cond, buf, thr) == [cond EXCEPT !.acc = <<Access(buf, "R", thr, "none")>>]
=============================================================================
