----------------------------- MODULE AutoTuner -----------------------------
(***************************************************************************)
(* One AutoTuner.run() that found nothing in its caches, from              *)
(* tilelang/autotuner/tuner.py: a pool compiles the configurations, the    *)
(* main thread hands each kernel to the benchmark worker of a device, the  *)
(* workers benchmark and send back results, and the main thread keeps the  *)
(* fastest.                                                                *)
(*                                                                         *)
(* With a timeout, a worker runs every benchmark in a daemon thread of its *)
(* own (a call, which has the number of its configuration) and stops       *)
(* waiting for it when time is up; the call may go on, answer late or      *)
(* hang.  Time itself is not modelled: a call may time out as long as it   *)
(* runs.  Data kept: configurations are their indices, a kernel is the     *)
(* index it was compiled for, a _BenchmarkWorkerState (input tensors and   *)
(* reference latency) is the configuration whose benchmark left it.        *)
(***************************************************************************)
EXTENDS Naturals, Sequences, FiniteSets, Functions

CONSTANTS
    PoolSize,        \* num_workers of the compile pool
    Settings,        \* how run() may be called, of
                     \* [configs, group, workers, timeout, pipeline]:
                     \* len(config_args), configurations per compile unit,
                     \* len(benchmark_worker_devices), timeout > 0, use_pipeline
    Latency,         \* the latencies a benchmark may measure
    MaxLatency,      \* 1e8, what best_latency begins with
    Faults,          \* may compilations and benchmarks fail?
    Fatal,           \* may a benchmark end its thread with no Exception?
    Interrupts,      \* may the main thread be interrupted?
    None

ASSUME TunerAssumption ==
    /\ {PoolSize, MaxLatency} \subseteq Nat \ {0}
    /\ Settings \subseteq [configs : Nat \ {0}, group : Nat \ {0}, workers : Nat \ {0},
                           timeout : BOOLEAN, pipeline : BOOLEAN]
    /\ Latency \subseteq Nat
    /\ None \notin Nat
    /\ {Faults, Fatal, Interrupts} \subseteq BOOLEAN

VARIABLES
    setting,             \* of this run()
    future,              \* of each unit
    kernels,             \* the configurations that compiled
    pc,                  \* of the main thread
    pending, batch, items,   \* futures to wait for, finished ones to handle,
                             \* kernels to hand over
    expected, processed, best,
    started,             \* benchmark_start_event
    tasks, results,      \* the task queue of each worker, the result queue
    wpc, item, state,    \* of each worker: label, task in hand, worker_state
    call, answer,        \* of each call: its thread, call_result_queue
    kept,                \* the tuner's own copy of the benchmark state
    log                  \* the results processed so far

pool == <<future, kernels>>
loop == <<pending, batch, items>>
tally == <<expected, processed, best, log>>
workers == <<wpc, item, state>>
calls == <<call, answer>>
vars == <<setting, pool, pc, loop, tally, started, tasks, results, workers, calls, kept>>

Config == 0..(setting.configs - 1)
Unit == 0..((setting.configs - 1) \div setting.group)
Items(u) == {i \in Config : i \div setting.group = u}

NumWorkers == setting.workers
Timeout == setting.timeout      \* a benchmark has a thread of its own
Pipeline == setting.pipeline    \* benchmark while compiling
Worker == 0..(NumWorkers - 1)

Result == [idx : Config, status : {"ok", "timeout", "error"}, latency : Latency \cup {None}]
Ok(i, l) == [idx |-> i, status |-> "ok", latency |-> l]
Failed(i, s) == [idx |-> i, status |-> s, latency |-> None]

\* What benchmark_target may come to.
Outcomes(i) ==
    {Ok(i, l) : l \in Latency}
      \cup (IF Faults THEN {Failed(i, "timeout"), Failed(i, "error")} ELSE {})

Init ==
    /\ setting \in Settings
    /\ future = [u \in Unit |-> "queued"]
    /\ kernels = {}
    /\ pc = "wait"
    /\ pending = Unit /\ batch = {} /\ items = {}
    /\ expected = 0 /\ processed = 0 /\ log = <<>>
    /\ best = [idx |-> None, latency |-> MaxLatency]
    /\ started = Pipeline
    /\ tasks = [w \in Worker |-> <<>>]
    /\ results = <<>>
    /\ wpc = [w \in Worker |-> "start"]
    /\ item = [w \in Worker |-> None]
    /\ state = [w \in Worker |-> None]
    /\ call = [i \in Config |-> "none"]
    /\ answer = [i \in Config |-> None]
    /\ kept = None
----------------------------------------------------------------------------
(* The compile pool *)

Running == {u \in Unit : future[u] = "running"}
Finished(u) == future[u] \in {"done", "failed"}

\* The pool takes the units in the order in which they were submitted.
StartUnit(u) ==
    /\ future[u] = "queued" /\ \A v \in Unit : v < u => future[v] # "queued"
    /\ Cardinality(Running) < PoolSize
    /\ future' = [future EXCEPT ![u] = "running"]
    /\ UNCHANGED <<setting, kernels, pc, loop, tally, started, tasks, results, workers, calls, kept>>

\* compile_unit, compile_grouped_unit_tvm_ffi: errors are caught for each
\* configuration.
CompileUnit(u, ok) ==
    /\ future[u] = "running"
    /\ Faults \/ ok = Items(u)
    /\ future' = [future EXCEPT ![u] = "done"]
    /\ kernels' = kernels \cup ok
    /\ UNCHANGED <<setting, pc, loop, tally, started, tasks, results, workers, calls, kept>>

\* An error outside those handlers is kept in the future.
FailUnit(u) ==
    /\ Faults /\ future[u] = "running"
    /\ future' = [future EXCEPT ![u] = "failed"]
    /\ UNCHANGED <<setting, kernels, pc, loop, tally, started, tasks, results, workers, calls, kept>>
----------------------------------------------------------------------------
(* The main thread *)

\* concurrent.futures.wait(FIRST_COMPLETED)
Wait ==
    LET done == {u \in pending : Finished(u)} IN
    /\ pc = "wait" /\ done # {}
    /\ batch' = done /\ pending' = pending \ done
    /\ pc' = "batch"
    /\ UNCHANGED <<setting, pool, items, tally, started, tasks, results, workers, calls, kept>>

\* The futures of the batch are a set: they come in any order.
HandleFuture(u) ==
    /\ pc = "batch" /\ items = {} /\ u \in batch
    /\ batch' = batch \ {u}
    /\ items' = Items(u) \cap kernels
    /\ UNCHANGED <<setting, pool, pc, pending, tally, started, tasks, results, workers, calls, kept>>

\* _enqueue_benchmark_task, in the order of the configurations.
Enqueue(i) ==
    /\ pc = "batch" /\ i \in items /\ \A j \in items : i <= j
    /\ tasks' = [tasks EXCEPT ![i % NumWorkers] = Append(@, i)]
    /\ expected' = expected + 1
    /\ items' = items \ {i}
    /\ UNCHANGED <<setting, pool, pc, pending, batch, processed, best, log, started, results, workers, calls, kept>>

EndBatch ==
    /\ pc = "batch" /\ items = {} /\ batch = {}
    /\ pc' = "drain"
    /\ UNCHANGED <<setting, pool, loop, tally, started, tasks, results, workers, calls, kept>>

\* _record_benchmark_result
Faster(r) == r.status = "ok" /\ r.latency < best.latency

\* One turn of _drain_benchmark_results.
Process ==
    /\ pc \in {"drain", "collect"} /\ processed < expected /\ results # <<>>
    /\ LET r == Head(results) IN
       /\ best' = IF Faster(r) THEN [idx |-> r.idx, latency |-> r.latency] ELSE best
       /\ log' = Append(log, r)
    /\ processed' = processed + 1
    /\ results' = Tail(results)
    /\ UNCHANGED <<setting, pool, pc, loop, expected, started, tasks, workers, calls, kept>>

\* block=False: an empty queue ends the loop.
Drained ==
    /\ pc = "drain" /\ (processed = expected \/ results = <<>>)
    /\ pc' = "wait"
    /\ UNCHANGED <<setting, pool, loop, tally, started, tasks, results, workers, calls, kept>>

PutNone == tasks' = [w \in Worker |-> Append(tasks[w], None)]

\* All units are done: the workers may begin, and will find no more tasks.
Close ==
    /\ pc = "wait" /\ pending = {}
    /\ started' = TRUE /\ PutNone
    /\ pc' = "collect"
    /\ UNCHANGED <<setting, pool, loop, tally, results, workers, calls, kept>>

\* (mutation) Leaves when the result queue is empty.
CollectedEarly ==
    /\ pc = "collect" /\ (processed = expected \/ results = <<>>)
    /\ pc' = "finally"
    /\ UNCHANGED <<setting, pool, loop, tally, started, tasks, results, workers, calls, kept>>

Collected ==
    /\ pc = "collect" /\ processed = expected
    /\ pc' = "finally"
    /\ UNCHANGED <<setting, pool, loop, tally, started, tasks, results, workers, calls, kept>>

\* A KeyboardInterrupt inside the try statement.
Interrupt ==
    /\ Interrupts /\ pc \in {"wait", "batch", "drain", "collect"}
    /\ pc' = "finally!"
    /\ UNCHANGED <<setting, pool, loop, tally, started, tasks, results, workers, calls, kept>>

\* (mutation) The finally clause only waits for the pool.
FinallyForgets ==
    /\ pc \in {"finally", "finally!"}
    /\ pc' = IF pc = "finally" THEN "shutdown" ELSE "shutdown!"
    /\ UNCHANGED <<setting, pool, loop, tally, started, tasks, results, workers, calls, kept>>

\* The finally clause; it joins each worker for a second at most.
Finally ==
    /\ pc \in {"finally", "finally!"}
    /\ started' = TRUE /\ PutNone
    /\ pc' = IF pc = "finally" THEN "shutdown" ELSE "shutdown!"
    /\ UNCHANGED <<setting, pool, loop, tally, results, workers, calls, kept>>

\* pool.shutdown() waits for every unit; then the benchmark state is kept, if
\* the worker shared the main thread's, and the result is made.
Leave ==
    /\ pc = "shutdown" /\ \A u \in Unit : Finished(u)
    /\ kept' = IF NumWorkers = 1 THEN state[0] ELSE kept
    /\ pc' = IF best.idx = None THEN "failed" ELSE "returned"
    /\ UNCHANGED <<setting, pool, loop, tally, started, tasks, results, workers, calls>>

Raise ==
    /\ pc = "shutdown!" /\ \A u \in Unit : Finished(u)
    /\ pc' = "raised"
    /\ UNCHANGED <<setting, pool, loop, tally, started, tasks, results, workers, calls, kept>>
----------------------------------------------------------------------------
(* _benchmark_worker_loop *)

\* (mutation) The start event is not waited for.
BeginEarly(w) ==
    /\ wpc[w] = "start"
    /\ wpc' = [wpc EXCEPT ![w] = "poll"]
    /\ UNCHANGED <<setting, pool, pc, loop, tally, started, tasks, results, item, state, calls, kept>>

Begin(w) ==
    /\ wpc[w] = "start" /\ started
    /\ wpc' = [wpc EXCEPT ![w] = "poll"]
    /\ UNCHANGED <<setting, pool, pc, loop, tally, started, tasks, results, item, state, calls, kept>>

Poll(w) ==
    /\ wpc[w] = "poll" /\ tasks[w] # <<>>
    /\ LET i == Head(tasks[w]) IN
       /\ wpc' = [wpc EXCEPT ![w] = IF i = None THEN "exit" ELSE "bench"]
       /\ item' = [item EXCEPT ![w] = i]
       /\ call' = IF Timeout /\ i # None THEN [call EXCEPT ![i] = "running"] ELSE call
    /\ tasks' = [tasks EXCEPT ![w] = Tail(@)]
    /\ UNCHANGED <<setting, pool, pc, loop, tally, started, results, state, answer, kept>>

Report(w, r) ==
    /\ results' = Append(results, r)
    /\ wpc' = [wpc EXCEPT ![w] = "poll"]
    /\ item' = [item EXCEPT ![w] = None]

\* (mutation) The call works on the worker's own state.
AnswerShared(i, r) ==
    /\ call[i] = "running"
    /\ call' = [call EXCEPT ![i] = "over"]
    /\ answer' = [answer EXCEPT ![i] = r]
    /\ state' = IF r.status = "ok" THEN [state EXCEPT ![i % NumWorkers] = i] ELSE state
    /\ UNCHANGED <<setting, pool, pc, loop, tally, started, tasks, results, wpc, item, kept>>

\* The call of i comes to an end, in time or not.
Answer(i, r) ==
    /\ call[i] = "running"
    /\ call' = [call EXCEPT ![i] = "over"]
    /\ answer' = [answer EXCEPT ![i] = r]
    /\ UNCHANGED <<setting, pool, pc, loop, tally, started, tasks, results, workers, kept>>

\* Its thread ends without an answer.
Vanish(i) ==
    /\ Fatal /\ call[i] = "running"
    /\ call' = [call EXCEPT ![i] = "over"]
    /\ UNCHANGED <<setting, pool, pc, loop, tally, started, tasks, results, workers, answer, kept>>

\* join(timeout) found the call over.
Joined(w) ==
    LET i == item[w]
        r == IF answer[i] = None THEN Failed(i, "error") ELSE answer[i] IN
    /\ Timeout /\ wpc[w] = "bench" /\ call[i] = "over"
    /\ Report(w, r)
    /\ state' = IF r.status = "ok" THEN [state EXCEPT ![w] = i] ELSE state
    /\ UNCHANGED <<setting, pool, pc, loop, tally, started, tasks, calls, kept>>

\* (mutation) After a timeout the worker goes on as if the call were over.
ExpireTwice(w) ==
    /\ Timeout /\ wpc[w] = "bench" /\ call[item[w]] = "running"
    /\ results' = results \o <<Failed(item[w], "timeout"), Failed(item[w], "error")>>
    /\ wpc' = [wpc EXCEPT ![w] = "poll"]
    /\ item' = [item EXCEPT ![w] = None]
    /\ UNCHANGED <<setting, pool, pc, loop, tally, started, tasks, state, calls, kept>>

\* It is still alive: the worker goes on without it.
Expire(w) ==
    /\ Timeout /\ wpc[w] = "bench" /\ call[item[w]] = "running"
    /\ Report(w, Failed(item[w], "timeout"))
    /\ UNCHANGED <<setting, pool, pc, loop, tally, started, tasks, state, calls, kept>>

\* Without a timeout the worker runs the benchmark itself.
Bench(w, r) ==
    /\ ~Timeout /\ wpc[w] = "bench" /\ r.idx = item[w]
    /\ Report(w, r)
    /\ state' = IF r.status = "ok" THEN [state EXCEPT ![w] = r.idx] ELSE state
    /\ UNCHANGED <<setting, pool, pc, loop, tally, started, tasks, calls, kept>>

\* And ends with it, the task in hand.
Die(w) ==
    /\ Fatal /\ ~Timeout /\ wpc[w] = "bench"
    /\ wpc' = [wpc EXCEPT ![w] = "exit"]
    /\ UNCHANGED <<setting, pool, pc, loop, tally, started, tasks, results, item, state, calls, kept>>
----------------------------------------------------------------------------
Ended == pc \in {"returned", "failed", "raised"}
Gone(w) == wpc[w] = "exit"

\* Calls that hang may be left over.
Over == Ended /\ UNCHANGED vars

Compile(u) == StartUnit(u) \/ FailUnit(u) \/ \E ok \in SUBSET Items(u) : CompileUnit(u, ok)

Main ==
    \/ Wait \/ (\E u \in Unit : HandleFuture(u)) \/ (\E i \in Config : Enqueue(i)) \/ EndBatch
    \/ Process \/ Drained \/ Close \/ Collected \/ Finally \/ Leave \/ Raise

Work(w) ==
    \/ Begin(w) \/ Poll(w) \/ Joined(w) \/ Expire(w)
    \/ \E i \in Config : \E r \in Outcomes(i) : Bench(w, r)

Next ==
    \/ \E u \in Unit : Compile(u)
    \/ Main \/ Interrupt
    \/ \E w \in Worker : Work(w) \/ Die(w)
    \/ \E i \in Config : Vanish(i) \/ \E r \in Outcomes(i) : Answer(i, r)
    \/ Over

Spec == Init /\ [][Next]_vars

\* Compilations end, the main thread and the workers are scheduled, and join
\* returns.  Nothing is assumed of the calls: a benchmark may hang.
Fair ==
    /\ WF_vars(Main)
    /\ \A u \in UNION {0..(s.configs - 1) : s \in Settings} : WF_vars(u \in Unit /\ Compile(u))
    /\ \A w \in UNION {0..(s.workers - 1) : s \in Settings} : WF_vars(w \in Worker /\ Work(w))

FairSpec == Spec /\ Fair
----------------------------------------------------------------------------
(* Properties *)

\* The variables have the types the code gives them.
TypeOK ==
    /\ setting \in Settings
    /\ future \in [Unit -> {"queued", "running", "done", "failed"}]
    /\ kernels \subseteq Config
    /\ pc \in {"wait", "batch", "drain", "collect", "finally", "finally!", "shutdown",
               "shutdown!", "returned", "failed", "raised"}
    /\ pending \subseteq Unit /\ batch \subseteq Unit /\ items \subseteq Config
    /\ expected \in Nat /\ processed \in 0..expected
    /\ best \in [idx : Config \cup {None}, latency : Latency \cup {MaxLatency}]
    /\ started \in BOOLEAN
    /\ tasks \in [Worker -> Seq(Config \cup {None})]
    /\ results \in Seq(Result)
    /\ wpc \in [Worker -> {"start", "poll", "bench", "exit"}]
    /\ item \in [Worker -> Config \cup {None}]
    /\ state \in [Worker -> Config \cup {None}]
    /\ call \in [Config -> {"none", "running", "over"}]
    /\ answer \in [Config -> Result \cup {None}]
    /\ kept \in Config \cup {None}
    /\ log \in Seq(Result)

Times(i, s) == Cardinality({n \in DOMAIN s : s[n].idx = i})
Queued(i, w) == Cardinality({n \in DOMAIN tasks[w] : tasks[w][n] = i})
InHand(i) == Cardinality({w \in Worker : item[w] = i})

\* Where task i is: queued, in a worker's hand, in the result queue or recorded.
Places(i) == Queued(i, i % NumWorkers) + InHand(i) + Times(i, results) + Times(i, log)

\* benchmark_expected_results and benchmark_processed_results count right: a task
\* that was handed over is in one place, whatever calls time out or answer late,
\* and no configuration is there twice.
Accounted ==
    /\ \A i \in Config : Places(i) <= 1
    /\ expected = Cardinality({i \in Config : Places(i) = 1})
    /\ processed = Len(log)

Within(n) == log[n].status = "ok" /\ log[n].latency < MaxLatency
Fastest(n) ==
    /\ Within(n)
    /\ \A m \in DOMAIN log : Within(m) =>
          log[n].latency < log[m].latency \/ (log[n].latency = log[m].latency /\ n <= m)

\* What run() returns is the fastest of all the configurations that compiled: the
\* best is the fastest of the benchmarks recorded so far, the first of those as
\* fast, there is none only if nothing ran within the 1e8 that best_latency begins
\* with, and run() neither returns nor gives up before all have been recorded.
BestIsFastest ==
    /\ \/ best.idx = None /\ \A n \in DOMAIN log : ~Within(n)
       \/ \E n \in DOMAIN log : Fastest(n) /\ best = [idx |-> log[n].idx, latency |-> log[n].latency]
    /\ pc \in {"returned", "failed"} => \A i \in kernels : Times(i, log) = 1

\* Unless the stages are pipelined or the main thread is interrupted, nothing is
\* benchmarked while a unit is compiled: a compilation disturbs no measurement.
QuietBenchmarks ==
    (\E w \in Worker : wpc[w] = "bench") /\ ~Pipeline /\ pc \notin {"finally!", "shutdown!", "raised"}
        => \A u \in Unit : Finished(u)

\* The benchmark state of a worker, and the one the tuner keeps, was left by a
\* benchmark whose success was reported: a call that timed out changes nothing.
StateReported ==
    \A i \in ({state[w] : w \in Worker} \cup {kept}) \ {None} :
        \E r \in Range(results) \cup Range(log) : r.idx = i /\ r.status = "ok"

\* If there is a timeout, run() returns or raises even when a benchmark hangs, and
\* no worker is left over however it ends: the None that Close and the finally
\* clause put reaches each of them.
RunEnds == Timeout => <>(Ended /\ \A w \in Worker : Gone(w))
=============================================================================
