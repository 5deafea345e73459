----------------------------- MODULE MetalSync -----------------------------
(***************************************************************************)
(* Device-event planning for the Metal launches TileLang places in an MLX  *)
(* graph: the producer registry and the planner (analysis/                 *)
(* metal_graph_sync.py, metal_sync_proof.py), the calls that use them      *)
(* (jit/adapter/_mlx_tvm_ffi.py) and the waits and signals the native      *)
(* bridge encodes (contrib/mlx_tvm_ffi/mlx_tvm_ffi_ext.cpp).               *)
(*                                                                         *)
(* A launch adds a node to MLX's lazy graph: planning happens when Python  *)
(* makes the call, encoding when MLX evaluates the node, running when the  *)
(* GPU reaches its command buffer.  Command buffers of one domain run in   *)
(* the order they were encoded; two domains are ordered only by events.    *)
(* An edge <<p, c>> is the event launch p signals and launch c waits for.  *)
(***************************************************************************)
EXTENDS Integers, Sequences, FiniteSets, Functions

CONSTANTS
  Ids,          \* the values id() can return, numbers
  Domains,      \* command-buffer domains
  MaxArrays,    \* bound: MLX arrays Python creates
  MaxEvals      \* bound: evaluations of one node (mx.compile replays its nodes)

ASSUME MetalAssumption == MaxArrays \in Nat /\ MaxEvals \in Nat \ {0}

VARIABLES
  arrays,       \* Python's MLX arrays: [id, launch (0: a plain array), alive]
  producers,    \* _PRODUCERS: the array whose record is under each id, 0 if none
  finalizers,   \* dead arrays whose weakref callback has not run
  launches,     \* the graph nodes: [domain, inputs, waits, late, signals, evals, done]
  queues,       \* per domain, the encoded launches: [launch, waits, signals]
  events        \* the edges whose event has reached its value

vars == <<arrays, producers, finalizers, launches, queues, events>>

Init ==
  /\ arrays = <<>> /\ launches = <<>>
  /\ producers = [i \in Ids |-> 0] /\ finalizers = {}
  /\ queues = [d \in Domains |-> <<>>] /\ events = {}

Alive == {n \in DOMAIN arrays : arrays[n].alive}

\* CPython gives a new object any id no live object has; of the ids never used, which
\* are alike, the least.
FreeIds ==
  LET used == {arrays[n].id : n \in DOMAIN arrays}
  IN {i \in Ids : /\ \A n \in Alive : arrays[n].id # i
                  /\ i \in used \/ \A j \in Ids \ used : i <= j}

(* The registry. An entry is one _remember_producer call; its generation   *)
(* is the array it was called for, which is registered once.               *)

\* (mutation) no identity guard, whatever is under the id is the array's record.
LookupById(n) ==
  IF producers[arrays[n].id] = 0 THEN 0 ELSE arrays[producers[arrays[n].id]].launch

\* The record of array n, the launch that writes it; 0 when it has none.
_lookup_producer(n) ==
  IF producers[arrays[n].id] = n THEN arrays[n].launch ELSE 0

\* What looking the arrays ns up evicts: the slots of their ids whose array is dead.
EvictStale(ns) ==
  [i \in Ids |-> IF i \in {arrays[n].id : n \in ns} /\ producers[i] \notin Alive
                 THEN 0 ELSE producers[i]]

\* (mutation) the callback pops its key whoever holds it.
removeAny(n) == [producers EXCEPT ![arrays[n].id] = 0]

\* The registry after the weakref callback of array n.
remove(n) ==
  IF producers[arrays[n].id] = n
  THEN [producers EXCEPT ![arrays[n].id] = 0] ELSE producers

(* The planner. *)

\* proved: Z3 is installed, not disabled, and answers within its timeout.
plan_metal_buffer_sync(producer, domain, proved) ==
  IF launches[producer].domain # domain THEN "device_event"
  ELSE IF proved THEN "none" ELSE "reorder_or_fail"

\* (mutation) an array that is already evaluated is borrowed without a look at the registry.
BorrowEvaluated(ins) ==
  \A n \in ins : arrays[n].launch = 0 \/ launches[arrays[n].launch].evals > 0

_can_use_borrowed_no_wait(ins) == \A n \in ins : _lookup_producer(n) = 0

\* The producers of the arrays ins, each once however many of its outputs are read.
_planned_launch_dependencies(ins) ==
  IF _can_use_borrowed_no_wait(ins) THEN {} ELSE {_lookup_producer(n) : n \in ins} \ {0}

\* (mutation) the consumer waits, the producer's state does not learn of the edge.
KeepEdge(ps, c) == launches

\* launches with the edges to consumer c added to the states of the producers ps.
add_signal_edge(ps, c) ==
  [l \in DOMAIN launches |->
     IF l \in ps THEN [launches[l] EXCEPT !.signals = @ \cup {<<l, c>>}] ELSE launches[l]]

\* History, which no step reads: the edges to consumer c whose producers, among ps, were
\* encoded before the edge was there.  The commands they were encoded in signal no such
\* edge, and nothing checks for it.
LateEdges(ps, c) == {<<p, c>> : p \in {q \in ps : launches[q].evals > 0}}

----------------------------------------------------------------------------
(* Python: plain arrays, launches, and arrays that die. *)

NewArray(i) ==
  /\ Len(arrays) < MaxArrays /\ i \in FreeIds
  /\ arrays' = Append(arrays, [id |-> i, launch |-> 0, alive |-> TRUE])
  /\ UNCHANGED <<producers, finalizers, launches, queues, events>>

\* prepared_metal_call: plan, create the node, register its output under id i.
Launch(ins, domain, i) ==
  LET deps == _planned_launch_dependencies(ins)
      cross == {p \in deps : plan_metal_buffer_sync(p, domain, TRUE) = "device_event"}
      c == Len(launches) + 1
  IN /\ Len(arrays) < MaxArrays /\ i \in FreeIds
     /\ launches' = Append(add_signal_edge(cross, c),
                           [domain |-> domain,
                            inputs |-> {arrays[n].launch : n \in ins} \ {0},
                            waits |-> {<<p, c>> : p \in cross}, late |-> LateEdges(cross, c),
                            signals |-> {}, evals |-> 0, done |-> 0])
     /\ arrays' = Append(arrays, [id |-> i, launch |-> c, alive |-> TRUE])
     /\ producers' = [EvictStale(ins) EXCEPT ![i] = Len(arrays) + 1]
     /\ UNCHANGED <<finalizers, queues, events>>

\* A dependency has no plan: RuntimeError. The edges to the producers planned before
\* it (any of the others, as the order of the inputs decides) stay in their states.
LaunchFails(ins, domain) ==
  LET deps == _planned_launch_dependencies(ins)
      failing == {p \in deps : plan_metal_buffer_sync(p, domain, FALSE) = "reorder_or_fail"}
  IN /\ failing # {}
     /\ \E before \in SUBSET (deps \ failing) : launches' = add_signal_edge(before, 0)
     /\ producers' = EvictStale(ins)
     /\ UNCHANGED <<arrays, finalizers, queues, events>>

\* The last reference to array n goes: its weakref is dead, its callback still to run.
Drop(n) ==
  /\ n \in Alive
  /\ arrays' = [arrays EXCEPT ![n].alive = FALSE]
  /\ finalizers' = IF arrays[n].launch # 0 THEN finalizers \cup {n} ELSE finalizers
  /\ UNCHANGED <<producers, launches, queues, events>>

Finalize(n) ==
  /\ n \in finalizers
  /\ finalizers' = finalizers \ {n}
  /\ producers' = remove(n)
  /\ UNCHANGED <<arrays, launches, queues, events>>

(* MLX evaluates a node after its inputs; the GPU runs what was encoded. *)

\* TVMFFIMetalCall::eval_gpu: the signal edges are read once, here.
eval_gpu(l) ==
  /\ launches[l].evals < MaxEvals
  /\ \A p \in launches[l].inputs : launches[p].evals > launches[l].evals
  /\ launches' = [launches EXCEPT ![l].evals = @ + 1]
  /\ queues' = [queues EXCEPT ![launches[l].domain] =
                  Append(@, [launch |-> l, waits |-> launches[l].waits,
                             signals |-> launches[l].signals])]
  /\ UNCHANGED <<arrays, producers, finalizers, events>>

\* The first command of a domain runs once its waits are satisfied. A MetalSyncEdge
\* always waits for and signals the value 1: once signalled it stays so.
Run(d) ==
  LET cmd == Head(queues[d])
  IN /\ queues[d] # <<>> /\ cmd.waits \subseteq events
     /\ queues' = [queues EXCEPT ![d] = Tail(@)]
     /\ launches' = [launches EXCEPT ![cmd.launch].done = @ + 1]
     /\ events' = events \cup cmd.signals
     /\ UNCHANGED <<arrays, producers, finalizers>>

Next ==
  \/ \E i \in Ids : NewArray(i)
  \/ \E ins \in SUBSET Alive, d \in Domains :
        \/ \E i \in Ids : Launch(ins, d, i)
        \/ LaunchFails(ins, d)
  \/ \E n \in DOMAIN arrays : Drop(n) \/ Finalize(n)
  \/ \E l \in DOMAIN launches : eval_gpu(l)
  \/ \E d \in Domains : Run(d)

\* The GPU runs committed command buffers whose waits are satisfied; nothing makes
\* Python launch, drop or evaluate.
Spec == Init /\ [][Next]_vars /\ \A d \in Domains : WF_vars(Run(d))

----------------------------------------------------------------------------
Edge == Nat \X Nat
Array == [id : Ids, launch : Nat, alive : BOOLEAN]
Node == [domain : Domains, inputs : SUBSET Nat, waits : SUBSET Edge, late : SUBSET Edge,
         signals : SUBSET Edge, evals : Nat, done : Nat]
Command == [launch : Nat, waits : SUBSET Edge, signals : SUBSET Edge]

\* Every variable keeps its shape.
TypeOK ==
  /\ arrays \in Seq(Array) /\ launches \in Seq(Node)
  /\ producers \in [Ids -> Nat] /\ finalizers \subseteq Nat
  /\ queues \in [Domains -> Seq(Command)] /\ events \subseteq Edge

\* "the consumer kernel reads the buffer before the producer kernel has finished" never
\* happens: no launch has run more often than one whose output it reads, whatever
\* domains the two are in, which ids their arrays took over, and how late the weakref
\* callbacks of earlier arrays ran.
ReadsFinished ==
  \A c \in DOMAIN launches : \A p \in launches[c].inputs :
    launches[p].done >= launches[c].done

\* A stale finalizer or a lookup never takes a live producer's record, and the registry
\* does not leak: every live output is found in it, and a slot whose array is dead has a
\* callback still to run (_lookup_producer's and remove's generation checks).
RegistryExact ==
  /\ \A n \in Alive : arrays[n].launch # 0 => producers[arrays[n].id] = n
  /\ \A i \in Ids : producers[i] \in Alive \cup finalizers \cup {0}

\* An array that took a dead producer's id is not given its record: a launch waits only
\* for launches whose outputs it reads (the identity guard of _lookup_producer).
WaitsAreInputs ==
  \A c \in DOMAIN launches :
    launches[c].waits \subseteq {<<p, c>> : p \in launches[c].inputs}

\* A wait is matched by a signal: when a launch is encoded, so is the signal of every
\* edge it waits for (plan_mlx_tvm_ffi_launch adds the edge to both ends), except for the
\* edges that were added after their producer had been encoded.
WaitsSignalled ==
  \A d \in Domains : \A k \in DOMAIN queues[d] :
    queues[d][k].waits \ launches[queues[d][k].launch].late \subseteq
      events \cup UNION {UNION {cmd.signals : cmd \in Range(queues[e])} : e \in Domains}

\* The launches that are encoded and have not run.
Outstanding == {l \in DOMAIN launches : launches[l].done < launches[l].evals}

\* Launch l is held up: it waits for a late edge that nothing has signalled, for an edge
\* of a launch that is held up, or behind one in its queue (the least such set).
HeldUp(l) ==
  LET Held(c, S) ==
        \E d \in Domains : \E k \in DOMAIN queues[d] :
          /\ queues[d][k].launch = c
          /\ \/ \E e \in queues[d][k].waits \ events : e \in launches[c].late \/ e[1] \in S
             \/ \E j \in 1..(k - 1) : queues[d][j].launch \in S
  IN \A S \in SUBSET Outstanding : (\A c \in Outstanding : Held(c, S) => c \in S) => l \in S

\* Every evaluated launch runs: no domain waits for ever for an event of another, and no
\* two domains for each other.  The one exception is named: a launch that reads across
\* domains what was encoded before it, and what stands behind that launch or waits for it.
EvaluatedRuns == Outstanding # {} ~> \A l \in Outstanding : HeldUp(l)

\* No launch is ever held up.  The code does not promise it.
NeverHeldUp == \A l \in Outstanding : ~HeldUp(l)
============================================================================
