# Formal models of TileLang

TileLang compiles tile programs, written in Python, into GPU kernels. A program
goes through a language front end (`src/tilelang/language`), a list of TVM passes
(`src/src/transform`, in the order of `src/tilelang/backend/cuda/pipeline.py`, on Metal
of `src/tilelang/engine/phase.py`) and a code generator; the result is kept in a two-level cache
(`src/tilelang/cache/kernel_cache.py`) and may be chosen among many by an
auto-tuner (`src/tilelang/autotuner`).

This directory models the parts of that system where correctness depends on an
order of events: caches that several processes share, a tuner with threads and
timeouts, launches on several GPU queues, and passes whose output runs
concurrently or reuses memory. The models
are TLA+, checked with TLC on small instances, and for six of the components proved
with TLAPS for instances of any size.

1. [Inventory](#1-inventory)
2. [Modules](#2-modules)
3. [Runs](#3-runs)
4. [Fairness](#4-fairness)
5. [Proofs](#5-proofs)
6. [Where code and comments disagree](#6-where-code-and-comments-disagree)
7. [What is not modelled](#7-what-is-not-modelled)
8. [Plan](#8-plan)

`PROJECT.json` lists the components, the runs, the source lines behind each
definition, and the hazards with the properties that guard against them.

## 1. Inventory

| Component | State | Operations | What is hard about it | Module |
|---|---|---|---|---|
| Kernel cache (`cache/kernel_cache.py`) | memory cache and lock of each process; file lock, entry directory and staging directories on disk | `cached`, load, save, repair, rename, `clear_cache`, stale sweep | processes race, crash between two steps and clear the disk under each other; writes fail | `KernelCache`, `KernelStore` |
| Shared-memory packing (`merge_shared_memory_allocations.cc`, `FreeList`, `LinearScanPack`, `PlanMemory`) | free list, active intervals, arena top, offsets | retire, best fit, extend at the tail, bump, append dynamic buffers | splitting and coalescing at boundaries, alignment padding, zero sizes | `SharedArena` |
| Shared-memory liveness (same file) | scope stack, `linear_seq_`, levels, live ranges | one visitor method per statement, `LivenessAnalysis`, the rewritten kernel | kill points that are moved out of or within loops; branches; nested loops | `SharedMerge`, with `SharedArena` |
| Auto-tuner (`autotuner/tuner.py`) | futures, task queues, result queue, workers, call threads, tallies | submit, hand over, benchmark, time out, collect, interrupt, shut down | late answers, lost results, hanging benchmarks, failing units | `AutoTuner` |
| Tuning-result cache (`tuner.py`, `param.py`) | memory cache and lock of each process, entry, staging directories | lookup, load, save, repair, rename, store | no lock between processes; crashes; check-then-remove | `TuneCache` |
| Warp specialisation (`producer_consumer_ws.cc`) | the loop, the emitted producer and consumer bodies, mbarriers, tiles, copies in flight | placement of waits and releases, merging of barriers, phase counters; the emitted instructions | parity of phases, reuse of slots, asynchronous copies that land late, guarded iterations | `WarpSpecialized` |
| JIT front end (`jit/__init__.py`, `language/eager/builder.py`) | mode, templates and `_kernel_cache` of each process, without a lock | infer the mode, parse arguments, look up, trace, compile, keep | threads that call the same function for the first time | `JITCalls`, with `KernelCache` |
| Software pipelining (`pipeline_planning.cc`, `inject_pipeline.cc`) | stages, order, buffer versions, commit and wait groups | plan, rewrite into prologue, body and epilogue; the emitted instructions | versions against distance of stages, wait counts at the borders, short loops | `PipelinePlan`, `PipelineInject`, `PipelineRun` |
| Thread synchronisation (`thread_storage_sync.cc`, `inject_fence_proxy.cc`, `inject_tcgen05_fence.cc`, `transform/metal_merge_round.py`) | access summaries of a scope, planned barriers, named barriers, proxy states | one pass after the other; the threads of a block | loop-carried conflicts, divergent branches, copies in flight, provers that give up | `TileIR`, `ThreadSync`, `SyncFences`, `SyncPipeline` |
| Metal graph synchronisation (`analysis/metal_graph_sync.py`, `metal_sync_proof.py`, `jit/adapter/_mlx_tvm_ffi.py`, `contrib/mlx_tvm_ffi`) | registry of producers keyed by object id, edges of launches, queues, events | plan a launch, register its outputs, finalise, encode, run | ids that are reused before a late finaliser runs; two queues ordered by events only | `MetalSync` |
| Storage rewriting, `autodd.py`, `engine/fusion.py`, `auto_double_buffer.cc` | | | | planned |
| Layout inference, tile operators, expression passes, code generators, language front end, static plans and legality checks, carver, profiler, adapters | | | see section 7 | not modelled |

How the parts interact: the tuner compiles through the kernel cache, and its own
result cache lies above it; both caches use the same staging-and-rename scheme,
but only the kernel cache locks between processes. Warp specialisation runs
before the merging of shared memory, so the tiles it versions are the buffers
that `SharedArena` packs. `SharedMerge` is composed with `SharedArena`: the live
ranges it computes are the input of the packing, and the plan is what the
rewritten kernel runs on. `JITCalls` is composed with `KernelCache`: a call that
misses its own table goes through `cached()`, step by step. `SyncPipeline`
composes four passes in the order of `src/tilelang/backend/cuda/pipeline.py:204-219` and
runs what the last one leaves; the cleanup of merge rounds stands where
`src/tilelang/engine/phase.py:531` has it for Metal, and does nothing elsewhere.

What correctness means for them: nobody sees a partial or a mixed artefact; work
is not lost, not done twice, and ends; buffers that are live together do not
overlap; a consumer computes with the tile of its own iteration; conflicting
accesses are ordered, and nobody waits for ever.

## 2. Modules

Definitions keep the names of the code where they can. Definitions marked
`(mutation)` are deliberate faults of the definition that follows them; no
specification uses them. Each property that a run checks has one that violates it.

### KernelCache

A thread has a label `pc` that stands for its place in `cached()`; each action is
what it does between two points where others may interfere: a lock, a file
operation, the compilation.

| Actions | Code |
|---|---|
| `Call`, `CheckMemory`, `CreateDirs`, `LockKey`, `Recheck` | `cached`: the first look under `_lock`, the file lock, the second look under both locks |
| `ReadSource`, `ReadParams`, `BuildKernel` | `_load_kernel_from_disk`, `_build_kernel`; every open resolves the path again |
| `Compile`, `CompileRaises` | `JITKernel(...)` under the file lock only |
| `BeginSave`, `WriteSource`, `WriteLib`, `WriteParams`, `CheckStaging`, `Repair`, `Rename`, `AbandonSave` | `_save_kernel_to_disk` and its `except` clauses |
| `Store` | `_memory_cache[key] = kernel`, both locks released |
| `BeginClear`, `SweepOpen`, `SweepFile`, `SweepClose`, `SweepEnd` | `clear_cache` and `_cleanup_stale_staging_dirs`, with `rmtree` file by file |
| `ClearMemory`, `Crash` | interpreter exit, and death at any step |

A compilation is a number. All files that a save writes carry it, so that "the
kernel mixes two compilations" is a predicate on the memory cache. `KernelStore`
is the abstract promise: a store that is written once per key in one step, and
whose kernels go away only after `clear_cache`. `ImplementsStore` maps a complete
directory to the stored kernel and an incomplete one to nothing.

### JITCalls

The calls of a function decorated with `@tilelang.jit`, above the kernel cache. A
call has a label `jpc`: `TestMode`, `InferMode` and `SetMode` are the three steps in
which the first call finds out whether the function is lazy or eager (`self.mode`
is tested, written, and copied to `self.func.mode`), `ParseArgs` is
`JITFunc.parse_args`, `Lookup` and `Keep` read and write `_kernel_cache`, `GetTir`
enters `cached()` with `Call` of `KernelCache`, and `InCached` is a step of it. Nothing
of this is locked, so each access of an attribute that another thread may write is a
step. Arguments are named by the cache key of the `PrimFunc` they lead to; `Phase1` says
which of them share a template.

### SharedArena and SharedMerge

`SharedArena` is the packing. A step is one turn of `retire()`, one placed
interval (`Reuse` from the best-fitting free block, `Extend` of the last block at
the top, `Bump` above the top) or one appended dynamic buffer (`Append`). The
free list is a set of blocks: the code keeps it sorted by offset, so the set
determines it. `InsertBlock` and `CarveBlock` are the methods of `FreeList`.

`SharedMerge` puts the pass around it. The kernel is not an input: each visitor
method (`VisitAlloc`, `VisitLeaf`, `VisitScope`, `VisitElse`, `LeaveScope`) is an
action that chooses the next statement and does what the visitor does with it, so
that every kernel of bounded length is explored. `Analyse` is
`LivenessAnalysis` with the moved kill points, `Plan` takes the steps of
`SharedArena`, and `RunAlloc` ... `RunEnd` run the kernel on a memory in which a
byte knows the buffer it was last written for.

### AutoTuner

One `run()` that missed its caches: the pool (`StartUnit`, `CompileUnit`,
`FailUnit`), the main thread (`Wait`, `HandleFuture`, `Enqueue`, `EndBatch`,
`Process`, `Drained`, `Close`, `Collected`, `Interrupt`, `Finally`, `Leave`,
`Raise`) and the workers of `_benchmark_worker_loop` (`Begin`, `Poll`, `Joined`,
`Expire` and, without a timeout, the benchmark in the worker itself). With a
timeout a benchmark runs in a thread of its own (a *call*), which may answer at
any time after its worker stopped waiting (`Answer`), never answer, or end
without an answer (`Vanish`). Time is not modelled: a call may expire whenever it
runs. What a benchmark measures is an outcome chosen from a small set.

### TuneCache

The lookup, load and save around a tuning, for one key. The lock of the process
is held while the disk is read or written, and released while tuning; nothing is
locked between processes. `Repair` is the check of `_remove_incomplete_result_dir`,
`SweepOpen`, `SweepFile` and `SweepClose` the `rmtree` after it, `Abandon` the
handler of every error inside the `try` of the save. `MakedirsFails` is an error before it:
`os.makedirs` of the parent of the path comes after that of the staging directory
(`param.py:389-391`), and if it fails nothing removes the staging directory.

### WarpSpecialized

The first half of the module is the pass, as operators from the loop (`prog`) to
the emitted bodies (`code`): `WaitBefore` and `ArriveAfter` are the positions of
the waits and releases, `Merged` decides whether TMA copies share a barrier,
`TmaInstr` places the arrival on the last copy that shares one, `ProducerBody` and
`ConsumerBody` are the statements in emission order, `ArriveCount` the counts that
the barriers are initialised with. The second half runs the bodies: one action
per instruction, and `LandTma`, `LandCp`, `LandArrive` for the hardware that ends
a copy some time after it was issued. An mbarrier has a count of completed phases,
pending arrivals and bytes awaited; a thread sees only the parity of the phase. Every warp
of the producer partition runs the producer loop; the TMA copies in it are those of the
elected one (`Leader`), and without other copies the rest only wait (`Follows`).

### PipelinePlan, PipelineInject and PipelineRun

`PipelinePlan` are the operators of `PipelinePlanning`, from a body of statements with
the cells they read and write to a stage and an order: which statements are copies,
which producers of a copy move with it, the last use that decides the order, the
explicit `cp.async` groups, and the plans that are refused. `PipelineInject` turns a
plan into the stream of instructions that a thread executes for a number of
iterations: `ComputeBufferVersions`, the prologue, loop and epilogue with their
skipped iterations, commits, the wait counts and their relaxation, and the mbarrier of
TMA copies. In `PipelineRun` the two passes are the first two steps (`PlanPass`,
`InjectPass`), and then the stream runs: `Execute`, `IssueAsync`, `IssueTma`, `Commit`,
`WaitGroup`, `WaitBarrier`, with `Land` for a copy that arrives at any time after its
issue. `Expected` is the reference: what the statement would read if the iterations
ran one after the other.

### TileIR, ThreadSync, SyncFences and SyncPipeline

`TileIR` is the kernel as the late passes see it: leaves with their accesses to
shared memory, branches and loops. An index is one of a few functions of thread and
iteration. A condition has the threads it holds for, or is loaded at run time; then it has
what `ConditionThreadPropertyChecker` makes of it (`block_uniform`), whether the threads
really agree (`agree`), and its own accesses to shared memory. The two differ for an element
of a fragment (`LoadedFragment`), of which every thread has its own. `ThreadSync` is the
planner (`Summarize` of a sequence, of a loop with the accesses carried around its back
edge, of branches), the hoisting of barriers out of branches on which threads disagree,
the barrier after `ptx_wait_group`, and the rewriting into named barriers with counted
threads. The option `prover` makes every proof succeed that is true, or none.
`SyncFences` has `InjectFenceProxy`, `InjectTcgen05Fence` and
`MetalMergeRoundBarrierCleanup`.

`SyncPipeline` takes a kernel through the passes, one action each, and launches it.
Threads wait for each other at barriers only, so a step (`Segment`) takes all of them
to their next barrier and `Release` opens one that has all the threads it counts;
vector clocks tell which accesses are ordered, so that no interleaving inside a
segment is lost. The launch chooses what the conditions come to (`env`): one value for the
block, a set of threads for the conditions on which threads differ, the iterations of
`while` and dynamic loops. An event knows its place in the kernel, which is how the
properties tell the exceptions they make from the rest.

### MetalSync

Python makes a launch (`Launch`, `LaunchFails`): the inputs are looked up by id and
checked for identity, stale records evicted, the plan adds an edge from each producer
in another domain, and the output is registered. An array dies (`Drop`), its id may be
used again at once, and its finaliser runs later (`Finalize`). MLX evaluates a node
when it likes, which encodes its waits and signals (`eval_gpu`), and the GPU runs the queues of the
domains side by side (`Run`).

## 3. Runs

State counts are distinct states.

| Run | Instance | Shows |
|---|---|---|
| `kernel_cache_threads` | `JITCalls` over `KernelCache`: 3 threads in 2 processes, 2 keys that share a template, functions that return a `PrimFunc` or build one (138 thousand) | a call returns the kernel of its own arguments, the same one for all calls of a process; the race on the mode never fails all calls; a key is compiled only if no complete entry exists; every compiled kernel is persisted; every call ends |
| `kernel_cache_faults` | 2 processes, 1 key, 2 calls each, failing writes and compilations, one crash, one `clear_cache` (677 thousand) | no kernel mixes compilations; what is visible before a clear is complete; a failed save leaves no staging directory; the cache implements `KernelStore` |
| `shared_arena` | 4 buffers, up to 2 of dynamic size, lifetimes in 0..3, sizes 1..3, alignments 1 and 4 (2.2 million) | live buffers are disjoint, aligned; the free list is coalesced and no byte is lost |
| `shared_merge` | every kernel of at most 7 statements over 2 buffers with `for`, `while`, `if`/`else` and `let`; a leaf that reads and writes, or a condition that reads, counts twice (255 thousand) | a read finds what was written to its buffer; live ranges hold every access |
| `shared_merge_aggressive` | 8 statements, `for` only, aggressive merging | violation, see section 6 |
| `autotuner` | 3 configurations in 2 units, 1 or 2 workers, with and without timeout and pipelining, with interrupts (300 thousand) | tasks are counted right; everything that compiled is considered and the result is the fastest; no benchmark runs beside a compilation unless pipelined; a call that timed out leaves no state; `run()` ends and workers exit |
| `tune_cache` | 3 threads, 4 tunings, one fault, one crash; 2 processes on an empty cache or 1 process with an incomplete entry (412 thousand) | no half-read and no mixed result, complete entries stay, saves that fail inside the `try` clean up, incomplete entries are repaired |
| `tune_cache_lost` | 2 processes with an incomplete entry | violation, see section 6 |
| `warp_specialized` | 2 producer and 2 consumer threads, 1 or 2 TMA copies, asynchronous copies, a prelude copy, guarded loops, 1 or 2 stages, up to 5 iterations (366 thousand) | consumers read their own tile; no copy overwrites a tile in use; parity is never ambiguous to a thread that copies or computes, and their loops end |
| `pipeline` | bodies of 2 to 4 statements over synchronous, `cp.async` and TMA copies, of 6 with explicit groups, planned or user-given stages, 1 to 3 stages (151 thousand) | every statement reads what it would read in the plain loop; every statement of every iteration runs once; what the planner plans the injector accepts; no wait is for ever |
| `sync_pipeline` | families of kernels: loops, branches, `cp.async`, async proxy, tensor memory, Metal merge rounds; 4 threads in 2 warps, proving and non-proving analyzers (168 thousand) | conflicting accesses are ordered; barriers meet; generic writes are fenced from the async proxy; tensor memory is handed over between fences; each with the exceptions below |
| `metal_sync` | 3 arrays over 3 ids, 2 domains, any order of deaths, finalisers, evaluations and runs; the first launch is in domain `a`, as the domains are alike (492 thousand) | no launch runs before one whose output it reads; the registry knows every live output and leaks nothing; a launch waits for its inputs only; what is evaluated runs, unless a late edge holds it up |

Every module states its types in one invariant (`TypeOK`, `JITTypeOK`), which its
configurations do not repeat: `INVARIANT TypeOK` in a configuration checks it on that
instance. Those of `KernelCache` and `SharedArena` are proved, as are `DynamicApart` and
`MemoryStable`, which no configuration repeats either.

Six more configurations are kept beside the runs. Each shows a behaviour of section 6,
and TLC ends each with a violation of the one property it names:
`KernelCachePartial.cfg`, `WarpSpecializedAsync.cfg`, `PipelineCarried.cfg`,
`SyncUniform.cfg`, `MetalSyncLate.cfg` and `MetalSyncReplay.cfg`.

Why the bounds are enough:

- **Kernel cache.** Two processes of which one has two threads contain every pair
  of actors that share something (the memory lock, the file lock, the disk). One
  crash or clear is enough to strike between any two steps of the other process,
  and the second call of each thread meets what it left behind.
- **JIT calls.** Two threads of one process can be at any two steps of a first call;
  the third thread is in a process of its own and meets them on the disk. Two keys
  with one template are what a confusion of the two phases of the key takes. A
  function with an inner `prim_func` differs only in how the mode is found, and is left
  out.
- **Packing.** Four buffers give two holes to choose from, a block that merges on
  both sides, and padding in front of a block. The proofs make the bound
  irrelevant for the properties they cover.
- **Merging.** Seven statements are two allocations and five more: a loop around
  two accesses, followed or preceded by another. Two buffers are what an overlap
  takes. One jump back makes an access of a second iteration. With `MaxCode = 8` the
  run has 1.9 million states and takes several minutes; it finds nothing either.
- **Tuner.** Three configurations in units of two give a full and a partial unit,
  and one worker with two tasks.
- **Warp specialisation.** With two stages and five iterations each barrier is
  used for three phases, one more than parity tells apart. The loops with
  asynchronous copies have three iterations, enough to use a slot again. Both producer
  warps run in every family. `ParityUnambiguous` and `Finishes` make one exception, a
  warp that issues no copy (`Follows`) and that the barrier has overtaken (`Overtaken`).
  Statements do not write a tile before one reads it (`ReadFirst`), nor read the
  asynchronous tile after the last use of the first TMA tile (`AsyncFirst`); section 6 says
  what happens otherwise in all three cases.
- **Pipelining.** Three stages and one to four iterations give loops that are shorter than,
  as long as, and longer than the pipeline, so that every border of prologue, loop and
  epilogue occurs. The bodies are correct as plain loops: a tile is written before it is read,
  every written tile is read, and two TMA copies are last used in the order they are
  issued; section 6 says what happens otherwise.
- **Synchronisation.** Four threads in two warps are the least in which a branch takes
  part of a warp, a whole warp or every second thread. Two statements before, in and
  after a loop or a branch make every pair of accesses that a barrier must separate.
  Three iterations use each of two slots again. The properties name what they leave out,
  and section 6 says why. `NoRace`: kernels with a barrier in code that may be skipped
  (`SkippedBarrier`), and accesses that the planner never compares (`Unplanned`).
  `BarriersMeet`: threads that part at a condition which the pass takes for uniform or does
  not look at (`UnseenSplit`). `TmemHandoff`: an arrival or wait with a use outside the body
  it stands in, and a barrier alone in its body.
- **Metal.** Three arrays are a producer, an array that takes over its id, and a
  consumer. Nodes are evaluated once; section 6 says what happens otherwise. A launch may
  read an output of another domain that is already encoded: the history field `late` of a
  launch holds such edges, and `EvaluatedRuns` exempts the launches that they hold up
  (`HeldUp`) and no other.

Deadlock is not checked where the system may stop: `autotuner` (without a timeout, a
benchmark that ends the thread of its worker leaves `run()` waiting for ever), and
`warp_specialized`, `pipeline`, `sync_pipeline` and `metal_sync` (a kernel ends, or nothing
is left to launch). That a kernel does not stop before its end is what `Finishes`,
`BarriersMeet` and `EvaluatedRuns` demand.

## 4. Fairness

- `KernelCache` and `JITCalls`: weak fairness for each thread inside a call and for a
  sweep in progress. Nobody has to call, clear or crash. In the run each thread calls once,
  so a thread that waits for a lock is not starved by weak fairness alone; `flock`
  and `threading.Lock` promise no more.
- `AutoTuner`: weak fairness for the pool, the main thread and each worker. A call
  need not answer; that a worker stops waiting is `join(timeout)`.
- `TuneCache`: weak fairness for each thread, whose calls go on until the bound on
  tunings: `Repaired` is about a cache that is used again.
- `WarpSpecialized`: weak fairness for each warp, which the GPU schedules
  independently, and for copies in flight, which the hardware completes.
- `PipelineRun`: weak fairness for the running thread and for copies in flight.
- `MetalSync`: weak fairness for the GPU, which runs a committed command buffer once its
  waits are satisfied. Nothing makes Python launch, drop or evaluate.
- `SyncPipeline` states no fairness: `BarriersMeet` is a predicate on the states in which
  all threads have stopped.

## 5. Proofs

Six components have theorems, for all values of the constants. The named assumptions
of the modules (`CacheAssumption`, `ArenaAssumption`, `MetalAssumption`, ...) only say that
the constants have their types and that `None` is none of the values; where a theorem
needs more, it says so in an `ASSUME` of its own, listed below with what the code does
otherwise. Each theorem rests on an inductive invariant, which TLC checked as an
invariant of the small instance before it was proved.

**KernelCacheLocks, KernelCacheProofs.** `TypeCorrect`, `KernelsAreWhole`,
`CompilationsAreNeeded` and `MemoryIsStable`, from `CacheInvariant`. The invariant
`IInv` adds to the types:

- `KeyHeld`: a thread between the second look and the store holds the file lock of
  its key;
- `OwnDirs`: two threads never save into the same directory;
- `EntriesSettled`: a directory at a cache path has left staging, and its save is
  over;
- `SourceRead`, `ParamsRead`: what a load has read is what the entry of its key
  is, or the entry is gone, and a file it missed means that the entry is not
  complete;
- `MissedMemory`, `MissedDisk`: a thread that went on to compile found nothing, and
  there still is nothing.

They are needed because `NoTornKernel` looks at the end of a load only. The key
lemma is `HeldEntryLoses`: while a thread holds the file lock of its key, the entry
can only lose files or vanish, whoever takes a step, `clear_cache` and crashes
included, since only a rename by the holder puts a directory there. Two reads
that both succeed have therefore read the same directory.

**KernelStoreProofs.** `SavesCleanUp` (`NoStagingLeak`) needs nothing but the types.
`EntriesAreComplete` (`PublishedComplete`) and the refinement `CacheImplementsStore`
(`ImplementsStore`) come from `StoreInv`, which adds to `IInv` that

- a staging directory is that of a save in progress or of nobody (`StagingInUse`), and two
  keys never have the same directory (`EntriesDistinct`);
- while nobody has called `clear_cache`, a sweep holds only directories of writers that are
  gone (`SweepsDead`);
- a save that has checked its staging directory still finds it complete
  (`CheckedComplete`), and one that goes on after the check found no complete entry
  (`MissedSave`).

They assume `SlowWriters = FALSE`: the stale sweep goes by age, and when a live writer
pauses for an hour a sweep that holds its directory open goes on removing files after the
writer has renamed it. The refinement is proved step by step: the rename maps to the write
of the abstract store if it publishes a complete directory, a clear or the loss of a file
to its removal, every other step to stuttering. `SavesPersist` (`Persisted`) also assumes
that nothing fails, that nobody clears, and a back end other than `cutedsl` (section 6);
its invariant `PersistInv` says which files are written at each label of a save.

**JITCallsProofs.** `CallsUseTheCache` shows that `JITSpec` implements the specification of
the cache, so that what is proved of the cache holds under concurrent calls. From `JITInv`
follow `CallsAgree` (`SameKernel`: a result is a kernel of the memory cache, which
`MemoryStable` keeps), `SomeCallSucceeds` (`NotAllRaise`: whoever set the mode, or a call
that comes after, is still on its way to a kernel or has left one: `ModeOnItsWay`,
`KernelOnItsWay`) and `CallsPersist`. `JITCalls` has no action for an exception out of
`cached()`; the theorems assume `Faults = FALSE`, `SlowWriters = FALSE`, and prove that
`cached()` then always comes back with a kernel (`LoadsReady`).

**SharedArenaProofs.** `ArenaTypes`, `LiveBuffersAreApart`,
`DynamicBuffersAreApart`, `BuffersAreAligned`, `FreeListIsCoalesced` and
`NoByteIsLost`, from `ArenaInvariant`. The lemmas `AlignUp` and `AlignExpr` are
about rounding; `InsertMerges` and `InsertSound` say that `InsertBlock` adds exactly
the new bytes and keeps the list coalesced; `CarveSound` that `CarveBlock` removes
exactly the bytes of the buffer. The invariant says that free blocks and active
buffers are apart and together cover the arena (`Packed`, `Covered`), that
intervals are placed in the order of their beginning (`Ordered`), that appended
buffers lie above everything before them (`Stacked`), and that placed buffers which
coexist are apart (`PackedApart`). `Ordered` is what makes retirement safe: a buffer
retired before `b` is placed is dead for all that follow.

**MetalSyncProofs.** `RegistryIsExact` and `WaitsAreForInputs` hold however often nodes are
evaluated and whichever outputs are read late. Their invariant `RegistryInv` says that no
two live arrays have the same id, that a record lies under the id of its array
(`Records`), and that a launch waits for every input of another domain (`CrossWaits`).
`ReadsAreFinished` (`ReadsFinished`) assumes `MaxEvals = 1`, which section 6 justifies: an
evaluated launch is in a queue exactly until it runs (`Once`), behind those of its inputs
that are in the same queue (`InOrder`); an input of another domain has run because the
wait was satisfied, and only its own run signals the event (`EventsRan`).
`WaitsAreSignalled` (`WaitsSignalled`, the safety half of `EvaluatedRuns`) assumes nothing
about the order of launches and evaluations: what a queued command waits for is signalled,
or signalled by a queued command, unless the edge was added after its producer was encoded.
Its invariant `EdgeInv` says that an edge that is waited for is an edge of its producer, and
that once the producer is encoded its event is signalled, or in a queue, or the edge is late
(`EdgesSignalled`). `MetalSyncLate.cfg` shows that the exception
is needed.

**TuneCacheProofs.** `StagingIsRemoved` (`NoStagingLeak`) holds in every case, with
`MakedirsFails` and crashes among the steps: they alone put a directory into `orphans`.
`ResultsAreWhole` and the action property `CompleteEntriesStay` hold of behaviours that
begin `Apart`: with no entry, a complete one, or all threads in one process.
`tune_cache_lost` shows that two processes that begin with an incomplete entry break
both. Between the check and the removal of `_remove_incomplete_result_dir` there
is no lock between processes; the invariant shows why that is harmless otherwise. An entry
is then complete from the rename on (`EntryOK`), so that only the initial incomplete one is
ever removed, by the one process there is, under its lock (`Locks`, `Guarded`).

**AutoTunerProofs.** `TasksAreAccounted`, `BestIsTheFastest`, `BenchmarksAreQuiet` and
`StatesAreReported`, without further assumptions, from `TunerInvariant`. Its parts are that
a task is in the queue of its worker (`TasksRouted`), that a unit is handed over after
its compilation, once (`UnitsHandled`, `HandedOver`), that the main thread leaves its loops
only when everything expected is recorded (`AllRecorded`), that the best so far is the
first of the fastest in the log (`BestSoFar`), and that workers start after the last
compilation unless the stages are pipelined (`StartsLate`). `Accounted` counts occurrences;
the lemmas about `Occurs`, `Times` and `Hand` say how appending to, taking from and
assigning in a queue changes a count.

**Only model-checked.**

- Liveness (`CallsReturn`, `RunEnds`, `Repaired`, `Finishes`, `EvaluatedRuns`): the prover
  does not handle fairness and `ENABLED`.
- `NoRace`, `BarriersMeet`, `AsyncSeesWrites`, `TmemHandoff`: `ThreadSync`, `SyncFences` and
  what they use are recursive over statements.
- `ReadsSequential`, `RunsOnce`, `PlansValid`: the plan of a pipeline comes from folds
  over the statements of a body, and what a fold computes for every input needs induction
  over data.
- `RangesHoldTouches`, `ReadsOwn`: the events of `linear_seq_` are selected by a recursive
  function.
- `ReadsOwnTile`, `NoOverwrite`, `ParityUnambiguous`: the bodies of the two loops are
  flattened from the instructions of each statement, which is again a recursion over data.

## 6. Where code and comments disagree

The first two have a run that shows the behaviour, the next six a configuration that is
kept beside the runs (`tlc -config <file> <module>`).

1. `shared_merge_aggressive`: with aggressive merging a buffer read in a loop can be
   killed inside the loop, where another buffer takes its bytes; the second
   iteration reads the wrong data. The comment at
   `src/src/transform/merge_shared_memory_allocations.cc:1441` argues from where
   buffers are allocated, the code from where they are first touched.
2. `tune_cache_lost`: `_remove_incomplete_result_dir`
   (`src/tilelang/autotuner/param.py:570`) checks an entry and then removes what is
   at the path, which may by then be a complete entry of another process.
3. `KernelCachePartial.cfg` (`MCKernelCache`, `RenamePublishesComplete`): a comment says
   that other processes "never observe an incomplete cache entry"
   (`src/tilelang/cache/kernel_cache.py:480`), but `clear_cache` takes no key lock and may
   empty a staging directory between its check and its rename. The next save repairs
   the entry, and no kernel is torn by it (`NoTornKernel` holds with clears).
4. `WarpSpecializedAsync.cfg` (`MCWarpSpecialized`, `NoOverwrite`): SIMT and cp.async copies
   are issued after the back-pressure wait of the first TMA group, which consumers
   release after the last use of the TMA tile. A later read of the asynchronous tile
   races with its refill (`src/src/transform/producer_consumer_ws.cc:1645`).
5. `PipelineCarried.cfg` (`MCPipelineRun`, `ReadsSequential`): a body that uses a tile, refills
   it and uses it again. The first use should see the tile of the iteration before;
   it sees the one of its own iteration, since the read before the write is no edge of
   the dependence graph (`src/src/transform/inject_pipeline.cc:2393`). The comment at line
   2948 names as a condition that "Reordering of statements doesn't break buffer access
   dependencies."
6. `SyncUniform.cfg` (`MCSyncPipeline`, `RaceFree`): a barrier planned inside a branch on a
   value that the whole block shares counts as a barrier for what precedes the branch
   (`src/src/transform/thread_storage_sync.cc:1505`). In
   `A[tx] = ..; if (c) { B[tx] = ..; .. = B[tx+1]; } .. = A[tx+1]` there is then no barrier
   between the accesses to `A` when `c` is false. The comment at line 1066 calls such
   conditions "safe to keep in-place", which they are as far as deadlock goes. This is
   why `NoRace` excludes barriers in code that may be skipped; a loop that may run no
   iteration, and a `while`, behave the same way.
7. `MetalSyncLate.cfg` (`MetalSync`, `NeverHeldUp`): a launch in another domain that reads
   an output whose producer is already encoded waits for an edge that nobody
   signals, as the signal edges are read once, when the producer is encoded
   (`src/src/contrib/mlx_tvm_ffi/mlx_tvm_ffi_ext.cpp:1565`).
8. `MetalSyncReplay.cfg` (`MetalSync`, `ReadsFinished`): an event always has the value 1,
   so that in a second evaluation of the same nodes the wait is satisfied by the
   signal of the first.

The following are seen by changing one line of a configuration:

- `INVARIANT ModeSetBeforeParse` in `JITCalls.cfg` is violated: a thread that calls between
  the assignment of `self.mode` and `self.func.set_mode` of another thread's first call
  raises "Invalid jit mode", although `src/tilelang/language/eager/builder.py:1198` says that
  "mode should be set by JITImpl before calling parse_args".
- `Backend = "cutedsl"` in `kernel_cache_threads` violates `Persisted`: the save hook
  in `src/tilelang/jit/adapter/cutedsl/kernel_cache.py:19` lacks the fourth parameter
  that `src/tilelang/cache/kernel_cache.py:510` passes; the error is swallowed and
  nothing is kept on disk.
- `Vias = {"access", "address_of"}` in `shared_merge` violates `ReadsOwn`: the analysis
  skips the argument of `address_of`
  (`src/src/transform/merge_shared_memory_allocations.cc:367`).
- `SPECIFICATION MCSpecShared` in `tune_cache` violates `ResultsWhole`: while a
  process loads an entry that another one replaces, it can meet half an entry, or
  take the configuration of one tuning and the kernel of another (`src/tilelang/autotuner/param.py:499`).
- `Stale = {{"kernel"}}` in `tune_cache` violates `Repaired`: an entry without its
  configuration makes each load raise (`src/tilelang/autotuner/param.py:474`), and
  nobody repairs it.
- `Program <- MCProgramWritten` in `warp_specialized` violates `ReadsOwnTile`: the
  wait is placed in front of the first read
  (`src/src/transform/producer_consumer_ws.cc:1394`), so that a statement that writes
  the tile before is not ordered with the copy that lands in it.
- `PROPERTY AllFinish` in place of `Finishes` in `warp_specialized` is violated: in a loop of
  TMA copies only the elected warp works; the other warps of the producer partition
  only wait on the back-pressure barriers, nobody waits for them, and one that is
  overtaken by a whole phase sees the wrong parity for ever
  (`src/src/transform/producer_consumer_ws.cc:1639`).
- `INVARIANT AllMeet` in `sync_pipeline` is violated in two ways. A branch on an element of a
  fragment counts as block uniform when its index is
  (`src/src/transform/thread_storage_sync.cc:673`: fragments "commonly hold block-uniform
  data"), so a barrier stays in it; where the threads hold different values, some never come.
  And a barrier planned in the body of a `while` is never moved, whatever the condition.
- `INVARIANT AllFenced` in `sync_pipeline` is violated: the scans of `InjectTcgen05Fence`
  stay in the sequence of the boundary. A wait that is the last statement of a loop, with
  the tensor memory read after the loop, gets no fence (the shape of
  `examples/gemm_sm100/gemm_tcgen5mma.py:40-46`), nor does a barrier alone in its body
  (`src/src/transform/inject_tcgen05_fence.cc:212`: only a `SeqStmt` is rewritten).
- `INVARIANT RaceFree` in `sync_pipeline` is violated, beside the case of item 6, by accesses
  that `ThreadSync` does not compare. The reads of a condition are put in front of the
  summary of its statement after the body was summarised
  (`src/src/transform/thread_storage_sync.cc:1006-1028`), so `if (F[0]) F[tx] = ..` gets no
  barrier between a thread that tests and one that has written. Two iterations of a `while`
  are not compared either.

These were met while modelling and are in no configuration. In the pipelining passes:
two TMA copies whose last uses are in the reverse order of the body are issued so that
the arriving one is first; with three or more distinct user-given stages and fewer
iterations than stages, statements of a middle stage run twice; the relaxation of loop
waits may relax a `wait(0)` of the user that is needed; an asynchronous copy without a
consumer stays in flight; a producer of a copy whose buffer only copies read is never
scheduled, which an `ICHECK` reports. In `ThreadSync`: a named barrier for part of the
block counts as a full one for what precedes its branch; a `while` gets no loop-carried
analysis; carried conflicts are looked for at distance one; writes of two threads to
the same element are not conflicts by design; named-barrier ids start again at the
first free one in the second of its two passes. In the JIT front end: a first call
whose arguments do not bind leaves a lazy function without an inner `prim_func` in eager
mode; the keys of `_kernel_cache`, `p1_cache` and `_tuner_cache` do not hold the target. On
Metal: outputs the caller owns are written again without a wait for their readers, and
a timeout of the solver makes a launch in the same domain fail.

## 7. What is not modelled

Most of the repository is outside these models, by size the larger part by far: it is
rewriting of expressions, one translation rule per operator and target, device code and
examples, where nothing depends on an order of events and TLC has nothing to add to a
test. The definitions stand for about 8,730 lines, 2,160 of Python and 6,580 of C++;
`src/tilelang` has 82 thousand lines of Python and `src/src` 136 thousand of C++, so that
the models cover some four per cent of them.

- Kernel cache: keys and their hashing; the bytes of files; calls with the cache disabled,
  which compile at once (`kernel_cache.py:346-358`); Windows, where the file lock is none
  (`kernel_cache.py:35-37`). Device source and host source, which a load reads one after the
  other, are one file, and the `rmtree` of a failed save, which ignores errors, is taken to
  succeed.
- JIT: `par_compile`, calls whose arguments do not bind, a target that changes between
  calls. A lazy function called with tensors has a template without a matcher and
  hence the key of the first phase and `()`; the models have lazy functions without tensor
  arguments only.
- Tuning: `load_from_disk` opens four files before the kernel's (`param.py:474-497`), which
  are one file `config` and one step. A worker copies the state of a call that answered and
  puts its result in one step (`tuner.py:541-544`); nobody else reads that state.
- `merge_shared_memory_allocations.cc`: the alignment planner; regions of
  warp-specialised kernels, whose branches the analysis flattens (line 528); the
  division of byte sizes by the size of an element (line 1015).
- `producer_consumer_ws.cc`: the statements that move into the producer loop, the analysis
  of local variables around the loop, statements after the loop, outer loops, register
  reallocation, and the wait for a prelude tile when no iteration runs (line 1585).
- Pipelining: statements that fuse cp.async with its commit or wait, dynamic trip and
  wait counts, `let` and `if` around the body, the annotations of warp-specialised loops,
  nested pipelines, layouts, reads of indices, the older annotation of async stages.
- Synchronisation: barriers in the global scope, conditions and indices beyond the few
  functions of `TileIR`.
- Metal: outputs that the caller owns, and arrays that MLX derives from an output.
- Layout algebra and layout inference, and the expression-level passes: index
  arithmetic on symbolic expressions with TVM's analyzer, which is a matter for a
  solver.
- Tile operators, code generators, device templates, the language front end: rules
  that translate one construct at a time and keep no state between them.
- Static plans and legality checks of `src/tilelang/analysis`: pure functions of one
  program, some of which ask an SMT solver.
- Carver and profiler: heuristics and measurement. Adapters and interoperability:
  calls into external libraries. Examples and proofs of concept.

## 8. Plan

Done: the caches and the JIT calls above them, the tuner and its result cache, the packing,
the synchronisation of Metal launches, all with proofs; the merging composed with the
packing, warp specialisation, software pipelining, thread synchronisation with its fences.

Next, in this order:

1. Proofs: `RangesHoldTouches` for `SharedMerge`, from an invariant about the nesting of
   `linear_seq_`; `ParityUnambiguous` and `NoOverwrite` for `WarpSpecialized`, from one that
   relates the phases of the two barriers of a slot and from what flattening does to the
   instructions of a body.
2. `auto_double_buffer.cc` in front of `PipelinePlan`; storage rewriting, whose liveness
   is a sibling of the one in `SharedMerge`; the reduction loop of `autodd.py`; the grouping
   of `engine/fusion.py`.
3. `TileChannel`, an abstract bounded channel of tiles, implemented by `WarpSpecialized`
   and by `PipelineRun`; `SharedMerge` composed with `WarpSpecialized`, for buffers that are
   live in one partition only.
