-------------------------- MODULE AutoTunerProofs --------------------------
(***************************************************************************)
(* Proofs about AutoTuner, for every number of configurations, compile     *)
(* units, devices and latencies.                                           *)
(***************************************************************************)
EXTENDS AutoTuner, FiniteSetTheorems, TLAPS

(* The inductive invariant *)

Whole(r) == r.status = "ok" => r.latency \in Latency

\* A success comes with a latency, and a call answers for its own configuration.
ResultsSound ==
    /\ \A n \in DOMAIN results : Whole(results[n])
    /\ \A n \in DOMAIN log : Whole(log[n])
    /\ \A i \in Config : answer[i] # None => answer[i].idx = i /\ Whole(answer[i])

\* A task is in the queue of the worker its index says, and a worker has one in
\* hand while it benchmarks, none before.
TasksRouted ==
    \A w \in Worker :
        /\ \A n \in DOMAIN tasks[w] : tasks[w][n] # None => tasks[w][n] % NumWorkers = w
        /\ wpc[w] \in {"start", "poll"} => item[w] = None
        /\ wpc[w] = "bench" => item[w] # None

UnitOf(i) == i \div setting.group

\* A unit is waited for, being handled or handled, and handled means finished.
UnitsHandled ==
    /\ pending \cap batch = {}
    /\ \A u \in Unit : ~Finished(u) => u \in pending
    /\ \A i \in items : UnitOf(i) \notin pending \cup batch
    /\ pc \notin {"batch", "finally!", "shutdown!", "raised"} => batch = {} /\ items = {}
    /\ pc \in {"collect", "finally", "shutdown", "returned", "failed"} => pending = {}

\* A configuration is handed over once its unit is handled, and if it compiled.
HandedOver ==
    /\ \A i \in Config : Places(i) # 0 => UnitOf(i) \notin pending \cup batch /\ i \notin items
    /\ \A i \in kernels : Places(i) # 0 \/ i \in items \/ UnitOf(i) \in pending \cup batch

\* The main thread leaves the loop when all results are in.
AllRecorded == pc \in {"finally", "shutdown", "returned", "failed"} => processed = expected

\* best is what _record_benchmark_result makes of the log.
BestSoFar ==
    \/ best.idx = None /\ best.latency = MaxLatency /\ \A n \in DOMAIN log : ~Within(n)
    \/ \E n \in DOMAIN log : Fastest(n) /\ best = [idx |-> log[n].idx, latency |-> log[n].latency]

\* No worker begins before the event, which is set last if stages are not pipelined.
StartsLate ==
    /\ \A w \in Worker : wpc[w] # "start" => started
    /\ started /\ ~Pipeline => pc \notin {"wait", "batch", "drain"}

TunerInv ==
    /\ TypeOK /\ ResultsSound /\ TasksRouted /\ UnitsHandled /\ HandedOver
    /\ Accounted /\ AllRecorded /\ BestSoFar /\ StartsLate /\ StateReported
----------------------------------------------------------------------------
(* Counting positions of a sequence *)

\* A set of positions of a sequence is finite, and a number counts it.
LEMMA PositionsFinite ==
    ASSUME NEW S, NEW s \in Seq(S), NEW P \in SUBSET DOMAIN s
    PROVE  IsFiniteSet(P) /\ Cardinality(P) \in Nat
  <1>1. DOMAIN s = 1..Len(s) /\ Len(s) \in Nat
    BY SMTT(30)
  <1>2. IsFiniteSet(1..Len(s))
    BY <1>1, FS_Interval, SMTT(30)
  <1> QED
    BY <1>1, <1>2, FS_Subset, FS_CardinalityType, Zenon

\* When a queue loses its head, every other position moves down by one.
LEMMA ShiftedPositions ==
    ASSUME NEW P \in SUBSET (Nat \ {0}), IsFiniteSet(P),
           NEW Q \in SUBSET (Nat \ {0}), \A n \in Nat \ {0} : n \in Q <=> n + 1 \in P
    PROVE  Cardinality(Q) = IF 1 \in P THEN Cardinality(P) - 1 ELSE Cardinality(P)
  <1> DEFINE R == P \ {1}
             f == [n \in R |-> n - 1]
  <1>1. IsFiniteSet(R) /\ Cardinality(R) = IF 1 \in P THEN Cardinality(P) - 1 ELSE Cardinality(P)
    BY FS_RemoveElement, Zenon
  <1>2. f \in [R -> Q]
    <2> SUFFICES ASSUME NEW n \in R PROVE n - 1 \in Q
      BY ZenonT(40)
    <2>1. n \in Nat /\ n # 0 /\ n # 1 /\ n \in P
      BY ZenonT(40)
    <2>2. n - 1 \in Nat \ {0} /\ (n - 1) + 1 = n
      BY <2>1, SMTT(30)
    <2> QED
      BY <2>1, <2>2, Zenon
  <1>3. \A m, n \in R : f[m] = f[n] => m = n
    <2> SUFFICES ASSUME NEW m \in R, NEW n \in R, m - 1 = n - 1 PROVE m = n
      BY ZenonT(40)
    <2>1. m \in Nat /\ n \in Nat
      BY ZenonT(40)
    <2> QED
      BY <2>1, SMTT(30)
  <1>4. \A q \in Q : \E n \in R : f[n] = q
    <2> SUFFICES ASSUME NEW q \in Q PROVE \E n \in R : f[n] = q
      BY ZenonT(40)
    <2>1. q + 1 \in R /\ (q + 1) - 1 = q
      BY SMTT(30)
    <2> QED
      BY <2>1, Zenon
  <1>5. f \in Bijection(R, Q)
    BY <1>2, <1>3, <1>4, Zenon DEF Bijection, Injection, Surjection, IsInjective
  <1>6. Cardinality(Q) = Cardinality(R)
    BY <1>1, <1>5, FS_Bijection, SMTT(30) DEF ExistsBijection
  <1> QED
    BY <1>1, <1>6, Zenon

\* What Append does to the positions of a sequence.
LEMMA AppendFacts ==
    ASSUME NEW S, NEW s \in Seq(S), NEW x \in S
    PROVE  /\ Append(s, x) \in Seq(S) /\ Len(s) \in Nat /\ Len(Append(s, x)) = Len(s) + 1
           /\ DOMAIN Append(s, x) = DOMAIN s \cup {Len(s) + 1}
           /\ Append(s, x)[Len(s) + 1] = x
           /\ \A n \in DOMAIN s : Append(s, x)[n] = s[n] /\ n \in Nat /\ n < Len(s) + 1
  BY SMTT(30)

\* What taking the head does.
LEMMA TailFacts ==
    ASSUME NEW S, NEW s \in Seq(S), s # <<>>
    PROVE  /\ Head(s) \in S /\ Head(s) = s[1] /\ 1 \in DOMAIN s /\ Tail(s) \in Seq(S)
           /\ \A n \in DOMAIN Tail(s) : n + 1 \in DOMAIN s /\ Tail(s)[n] = s[n + 1]
           /\ \A n \in DOMAIN s : n # 1 => n - 1 \in DOMAIN Tail(s) /\ Tail(s)[n - 1] = s[n]
  BY SMTT(30)

Bit(b) == IF b THEN 1 ELSE 0

Occurs(x, s) == Cardinality({n \in DOMAIN s : s[n] = x})

\* Append adds one to the count of what it appends.
LEMMA OccursAppend ==
    ASSUME NEW S, NEW s \in Seq(S), NEW x \in S, NEW y
    PROVE  Occurs(y, Append(s, x)) = Occurs(y, s) + Bit(x = y)
  <1> DEFINE P == {n \in DOMAIN s : s[n] = y}
             N == Len(s) + 1
  <1>1. IsFiniteSet(P) /\ Cardinality(P) \in Nat /\ N \notin P
    BY PositionsFinite, SMTT(30)
  <1>2. {n \in DOMAIN Append(s, x) : Append(s, x)[n] = y} = IF x = y THEN P \cup {N} ELSE P
    BY SMTT(30)
  <1>3. Cardinality(P \cup {N}) = Cardinality(P) + 1
    BY <1>1, FS_AddElement, Zenon
  <1>4. Occurs(y, s) = Cardinality(P)
    BY Zenon DEF Occurs
  <1>5. Occurs(y, Append(s, x)) = Cardinality(IF x = y THEN P \cup {N} ELSE P)
    BY <1>2, Zenon DEF Occurs
  <1> HIDE DEF P, N
  <1> QED
    BY <1>1, <1>3, <1>4, <1>5, SMTT(30) DEF Bit

\* Tail takes one from the count of the head.
LEMMA OccursTail ==
    ASSUME NEW S, NEW s \in Seq(S), s # <<>>, NEW y
    PROVE  Occurs(y, Tail(s)) = Occurs(y, s) - Bit(Head(s) = y)
  <1> DEFINE P == {n \in DOMAIN s : s[n] = y}
             Q == {n \in DOMAIN Tail(s) : Tail(s)[n] = y}
  <1>1. IsFiniteSet(P) /\ Cardinality(P) \in Nat
    BY PositionsFinite, Zenon
  <1>2. P \in SUBSET (Nat \ {0}) /\ Q \in SUBSET (Nat \ {0})
    BY SMTT(30)
  <1>3. \A n \in Nat \ {0} : n \in Q <=> n + 1 \in P
    BY SMTT(30)
  <1>4. 1 \in P <=> Head(s) = y
    BY SMTT(30)
  <1>5. Occurs(y, s) = Cardinality(P) /\ Occurs(y, Tail(s)) = Cardinality(Q)
    BY Zenon DEF Occurs
  <1> HIDE DEF P, Q
  <1>6. Cardinality(Q) = IF 1 \in P THEN Cardinality(P) - 1 ELSE Cardinality(P)
    BY <1>1, <1>2, <1>3, ShiftedPositions, ZenonT(40)
  <1> QED
    BY <1>1, <1>4, <1>5, <1>6, SMTT(30) DEF Bit

\* The same for the results of a configuration: Append adds its own.
LEMMA TimesAppend ==
    ASSUME NEW S, NEW s \in Seq(S), NEW r \in S, NEW i
    PROVE  Times(i, Append(s, r)) = Times(i, s) + Bit(r.idx = i)
  <1> DEFINE P == {n \in DOMAIN s : s[n].idx = i}
             N == Len(s) + 1
  <1>1. IsFiniteSet(P) /\ Cardinality(P) \in Nat /\ N \notin P
    BY PositionsFinite, SMTT(30)
  <1>2. {n \in DOMAIN Append(s, r) : Append(s, r)[n].idx = i} = IF r.idx = i THEN P \cup {N} ELSE P
    BY SMTT(30)
  <1>3. Cardinality(P \cup {N}) = Cardinality(P) + 1
    BY <1>1, FS_AddElement, Zenon
  <1>4. Times(i, s) = Cardinality(P)
    BY Zenon DEF Times
  <1>5. Times(i, Append(s, r)) = Cardinality(IF r.idx = i THEN P \cup {N} ELSE P)
    BY <1>2, Zenon DEF Times
  <1> HIDE DEF P, N
  <1> QED
    BY <1>1, <1>3, <1>4, <1>5, SMTT(30) DEF Bit

\* Tail takes that of the head away.
LEMMA TimesTail ==
    ASSUME NEW S, NEW s \in Seq(S), s # <<>>, NEW i
    PROVE  Times(i, Tail(s)) = Times(i, s) - Bit(Head(s).idx = i)
  <1> DEFINE P == {n \in DOMAIN s : s[n].idx = i}
             Q == {n \in DOMAIN Tail(s) : Tail(s)[n].idx = i}
  <1>1. IsFiniteSet(P) /\ Cardinality(P) \in Nat
    BY PositionsFinite, Zenon
  <1>2. P \in SUBSET (Nat \ {0}) /\ Q \in SUBSET (Nat \ {0})
    BY SMTT(30)
  <1>3. \A n \in Nat \ {0} : n \in Q <=> n + 1 \in P
    BY SMTT(30)
  <1>4. 1 \in P <=> Head(s).idx = i
    BY SMTT(30)
  <1>5. Times(i, s) = Cardinality(P) /\ Times(i, Tail(s)) = Cardinality(Q)
    BY ZenonT(40) DEF Times
  <1> HIDE DEF P, Q
  <1>6. Cardinality(Q) = IF 1 \in P THEN Cardinality(P) - 1 ELSE Cardinality(P)
    BY <1>1, <1>2, <1>3, ShiftedPositions, Zenon
  <1> QED
    BY <1>1, <1>4, <1>5, <1>6, SMTT(30) DEF Bit

Hand(i, f, W) == Cardinality({w \in W : f[w] = i})

\* A worker that takes or drops a task changes what it has in hand and no other.
LEMMA HandChange ==
    ASSUME NEW W, IsFiniteSet(W), NEW w \in W, NEW f, NEW g, \A v \in W \ {w} : g[v] = f[v], NEW i
    PROVE  /\ Hand(i, f, W) \in Nat
           /\ f[w] = i /\ g[w] # i => Hand(i, g, W) = Hand(i, f, W) - 1
           /\ f[w] # i /\ g[w] = i => Hand(i, g, W) = Hand(i, f, W) + 1
           /\ f[w] # i /\ g[w] # i => Hand(i, g, W) = Hand(i, f, W)
  <1> DEFINE P == {v \in W : f[v] = i}
             Q == {v \in W : g[v] = i}
  <1>1. IsFiniteSet(P) /\ Cardinality(P) \in Nat
    BY FS_Subset, FS_CardinalityType, Zenon
  <1>2. Q = IF g[w] = i THEN P \cup {w} ELSE P \ {w}
    BY ZenonT(40)
  <1>3. /\ Cardinality(P \cup {w}) = IF w \in P THEN Cardinality(P) ELSE Cardinality(P) + 1
        /\ Cardinality(P \ {w}) = IF w \in P THEN Cardinality(P) - 1 ELSE Cardinality(P)
    BY <1>1, FS_AddElement, FS_RemoveElement, ZenonT(40)
  <1>4. w \in P <=> f[w] = i
    BY ZenonT(40)
  <1>5. Hand(i, f, W) = Cardinality(P) /\ Hand(i, g, W) = Cardinality(Q)
    BY Zenon DEF Hand
  <1> HIDE DEF P, Q
  <1> QED
    BY <1>1, <1>2, <1>3, <1>4, <1>5, ZenonT(40)
----------------------------------------------------------------------------
(* The run's parameters *)

\* run() has at least one configuration and one worker, and finitely many.
LEMMA SettingFacts ==
    ASSUME setting \in Settings
    PROVE  /\ Config \subseteq Nat /\ IsFiniteSet(Config)
           /\ Unit \subseteq Nat /\ IsFiniteSet(Unit)
           /\ Worker \subseteq Nat /\ IsFiniteSet(Worker) /\ 0 \in Worker
           /\ \A i \in Config : i # None /\ i % NumWorkers \in Worker
           /\ Pipeline \in BOOLEAN /\ Timeout \in BOOLEAN
           /\ None \notin Nat /\ Latency \subseteq Nat /\ MaxLatency \in Nat
  <1>1. /\ setting.configs \in Nat \ {0} /\ setting.group \in Nat \ {0}
        /\ setting.workers \in Nat \ {0}
        /\ setting.timeout \in BOOLEAN /\ setting.pipeline \in BOOLEAN
    BY TunerAssumption, Zenon
  <1>2. setting.configs - 1 \in Nat /\ setting.workers - 1 \in Nat
        /\ (setting.configs - 1) \div setting.group \in Int
    BY <1>1, SMTT(30)
  <1>3. IsFiniteSet(Config) /\ IsFiniteSet(Unit) /\ IsFiniteSet(Worker)
    <2>1. ASSUME NEW b \in Int PROVE IsFiniteSet(0..b)
      BY FS_Interval, SMTT(30)
    <2> QED
      BY <1>2, <2>1, SMTT(30) DEF Config, Unit, Worker, NumWorkers
  <1>4. Config \subseteq Nat /\ Unit \subseteq Nat /\ Worker \subseteq Nat /\ 0 \in Worker
    BY <1>1, <1>2, SMTT(30) DEF Config, Unit, Worker, NumWorkers
  <1>5. \A i \in Config : i # None /\ i % NumWorkers \in Worker
    BY <1>1, <1>4, TunerAssumption, SMTT(30) DEF Worker, NumWorkers
  <1> QED
    BY <1>1, <1>3, <1>4, <1>5, TunerAssumption, ZenonT(40) DEF Pipeline, Timeout

\* They stay as they are.
LEMMA SettingStays ==
    ASSUME [Next]_vars
    PROVE  /\ setting' = setting /\ Config' = Config /\ Unit' = Unit /\ Worker' = Worker
           /\ NumWorkers' = NumWorkers /\ Pipeline' = Pipeline /\ Timeout' = Timeout
           /\ Result' = Result
           /\ \A i : UnitOf(i)' = UnitOf(i)
  <1>1. setting' = setting
    BY ZenonT(40) DEF Next, vars, Main, Work, Compile, StartUnit, CompileUnit, FailUnit, Wait, HandleFuture,
           Enqueue, EndBatch, Process, Drained, Close, Collected, Interrupt, Finally, Leave, Raise,
           Begin, Poll, Answer, Vanish, Joined, Expire, Bench, Die, Over
  <1> QED
    BY <1>1, Zenon DEF Config, Unit, Worker, NumWorkers, Pipeline, Timeout, Result, UnitOf

----------------------------------------------------------------------------
(* The steps *)

\* What Joined, Expire and Bench have in common: the worker reports a result for
\* the task in hand, and takes over the state if it is a success.
Reports(w, r) ==
    /\ wpc[w] = "bench" /\ item[w] \in Config
    /\ r \in Result /\ Whole(r) /\ r.idx = item[w]
    /\ Report(w, r)
    /\ state' = IF r.status = "ok" THEN [state EXCEPT ![w] = r.idx] ELSE state
    /\ UNCHANGED <<setting, pool, pc, loop, tally, started, tasks, calls, kept>>

\* What a benchmark comes to is a result for its configuration.
LEMMA OutcomesSound ==
    ASSUME setting \in Settings, NEW i \in Config, NEW r \in Outcomes(i)
    PROVE  r \in Result /\ r.idx = i /\ Whole(r)
  <1>1. Latency \subseteq Nat /\ None \notin Nat
    BY SettingFacts, Zenon
  <1> QED
    BY <1>1, SMTT(30) DEF Outcomes, Ok, Failed, Result, Whole

\* A worker that is done with a task, one way or another, reports for that task.
LEMMA WorkerReports ==
    ASSUME TypeOK, ResultsSound, TasksRouted, NEW w \in Worker,
           \/ Joined(w) \/ Expire(w)
           \/ \E i \in Config : \E r \in Outcomes(i) : Bench(w, r)
    PROVE  \E r : Reports(w, r)
  <1>0. setting \in Settings /\ item[w] \in Config \cup {None}
    BY Zenon DEF TypeOK
  <1>1. wpc[w] = "bench" /\ item[w] \in Config
    BY <1>0, Zenon DEF TasksRouted, Joined, Expire, Bench
  <1>2. CASE Joined(w)
    <2> DEFINE i == item[w]
               r == IF answer[i] = None THEN Failed(i, "error") ELSE answer[i]
    <2>1. r \in Result /\ Whole(r) /\ r.idx = i
      <3>1. CASE answer[i] = None
        BY <1>1, <3>1, Zenon DEF Failed, Result, Whole
      <3>2. CASE answer[i] # None
        BY <1>1, <3>2, Zenon DEF TypeOK, ResultsSound
      <3> QED
        BY <3>1, <3>2, Zenon
    <2>2. Reports(w, r)
      BY <1>1, <1>2, <2>1, Zenon DEF Joined, Reports
    <2> QED
      BY <2>2, Zenon
  <1>3. CASE Expire(w)
    <2> DEFINE r == Failed(item[w], "timeout")
    <2>1. r \in Result /\ Whole(r) /\ r.idx = item[w] /\ r.status # "ok"
      BY <1>1, Zenon DEF Failed, Result, Whole
    <2>2. Reports(w, r)
      BY <1>1, <1>3, <2>1, Zenon DEF Expire, Reports
    <2> QED
      BY <2>2, Zenon
  <1>4. CASE \E i \in Config : \E r \in Outcomes(i) : Bench(w, r)
    <2>0. PICK i \in Config : \E r \in Outcomes(i) : Bench(w, r)
      BY <1>4, Zenon
    <2>1. PICK r \in Outcomes(i) : Bench(w, r)
      BY <2>0, Zenon
    <2>2. r \in Result /\ Whole(r)
      BY <1>0, OutcomesSound, Zenon
    <2>3. Reports(w, r)
      BY <1>1, <2>1, <2>2, ZenonT(40) DEF Bench, Reports
    <2> QED
      BY <2>3, Zenon
  <1> QED
    BY <1>2, <1>3, <1>4, Zenon

\* The result that Process takes off the queue goes to the end of the log.
LEMMA ProcessEffect ==
    ASSUME TypeOK, ResultsSound, Process
    PROVE  \E r \in Result, N \in Nat :
              /\ Whole(r) /\ (r.status = "ok" => r.latency \in Nat)
              /\ 1 \in DOMAIN results /\ r = results[1] /\ results' \in Seq(Result)
              /\ \A n \in DOMAIN results' : n + 1 \in DOMAIN results /\ results'[n] = results[n + 1]
              /\ \A n \in DOMAIN results : n # 1 => n - 1 \in DOMAIN results' /\ results'[n - 1] = results[n]
              /\ log' \in Seq(Result) /\ Len(log') = Len(log) + 1
              /\ DOMAIN log' = DOMAIN log \cup {N} /\ log'[N] = r
              /\ \A n \in DOMAIN log : log'[n] = log[n] /\ n \in Nat /\ n < N
              /\ processed < expected /\ processed' = processed + 1
              /\ Faster(r) => best' = [idx |-> r.idx, latency |-> r.latency]
              /\ ~Faster(r) => best' = best
              /\ UNCHANGED <<setting, pool, pc, loop, expected, started, tasks, workers, calls, kept>>
  <1>1. results \in Seq(Result) /\ log \in Seq(Result)
    BY Zenon DEF TypeOK
  <1>2. /\ results # <<>> /\ results' = Tail(results) /\ log' = Append(log, Head(results))
        /\ processed < expected /\ processed' = processed + 1
        /\ best' = IF Faster(Head(results))
                   THEN [idx |-> Head(results).idx, latency |-> Head(results).latency] ELSE best
        /\ UNCHANGED <<setting, pool, pc, loop, expected, started, tasks, workers, calls, kept>>
    BY Zenon DEF Process
  <1>3. PICK r \in Result : r = Head(results)
    BY <1>1, <1>2, TailFacts, Zenon
  <1>4. /\ 1 \in DOMAIN results /\ r = results[1] /\ results' \in Seq(Result)
        /\ \A n \in DOMAIN results' : n + 1 \in DOMAIN results /\ results'[n] = results[n + 1]
        /\ \A n \in DOMAIN results : n # 1 => n - 1 \in DOMAIN results' /\ results'[n - 1] = results[n]
    BY <1>1, <1>2, <1>3, TailFacts, ZenonT(40)
  <1>5. PICK N \in Nat : N = Len(log) + 1
    BY <1>1, AppendFacts, SMTT(30)
  <1>6. /\ log' \in Seq(Result) /\ Len(log') = Len(log) + 1
        /\ DOMAIN log' = DOMAIN log \cup {N} /\ log'[N] = r
        /\ \A n \in DOMAIN log : log'[n] = log[n] /\ n \in Nat /\ n < N
    BY <1>1, <1>2, <1>3, <1>5, AppendFacts, SMTT(30)
  <1>7. Whole(r)
    BY <1>4, Zenon DEF ResultsSound
  <1>8. r.status = "ok" => r.latency \in Nat
    BY <1>7, TunerAssumption, Zenon DEF Whole
  <1>9. /\ Faster(r) => best' = [idx |-> r.idx, latency |-> r.latency]
        /\ ~Faster(r) => best' = best
    BY <1>2, <1>3, Zenon
  <1> QED
    BY <1>2, <1>4, <1>6, <1>7, <1>8, <1>9, ZenonT(40)

\* The steps of the system.
LEMMA StepCases ==
    ASSUME TypeOK, ResultsSound, TasksRouted, [Next]_vars
    PROVE  \/ \E u \in Unit : StartUnit(u)
           \/ \E u \in Unit : FailUnit(u)
           \/ \E u \in Unit : \E ok \in SUBSET Items(u) : CompileUnit(u, ok)
           \/ Wait
           \/ \E u \in Unit : HandleFuture(u)
           \/ \E i \in Config : Enqueue(i)
           \/ EndBatch
           \/ Process
           \/ Drained
           \/ Close
           \/ Collected
           \/ Finally
           \/ Leave
           \/ Raise
           \/ Interrupt
           \/ \E w \in Worker : Begin(w)
           \/ \E w \in Worker : Poll(w)
           \/ \E w \in Worker : \E r : Reports(w, r)
           \/ \E w \in Worker : Die(w)
           \/ \E i \in Config : Vanish(i)
           \/ \E i \in Config : \E r \in Outcomes(i) : Answer(i, r)
           \/ UNCHANGED vars
  <1>1. ASSUME NEW w \in Worker, Joined(w) \/ Expire(w) \/ \E i \in Config : \E r \in Outcomes(i) : Bench(w, r)
        PROVE  \E v \in Worker : \E r : Reports(v, r)
    BY <1>1, WorkerReports, ZenonT(40)
  <1> QED
    BY <1>1, Zenon DEF Next, Main, Work, Compile, Over

----------------------------------------------------------------------------
(* Types *)

\* Every step keeps the types.
LEMMA TypeStep ==
    ASSUME TypeOK, ResultsSound, TasksRouted, [Next]_vars
    PROVE  TypeOK'
  <1>s. /\ setting' = setting /\ Config' = Config /\ Unit' = Unit /\ Worker' = Worker
        /\ NumWorkers' = NumWorkers /\ Pipeline' = Pipeline /\ Result' = Result
    BY SettingStays, Zenon
  <1>f. /\ Config \subseteq Nat /\ None \notin Nat /\ Latency \subseteq Nat /\ MaxLatency \in Nat
        /\ \A i \in Config : i # None /\ i % NumWorkers \in Worker
        /\ 0 \in Worker
    BY SettingFacts, Zenon DEF TypeOK
  <1>1. ASSUME NEW u \in Unit, StartUnit(u) PROVE TypeOK'
    BY <1>1, <1>s, <1>f, ZenonT(40) DEF TypeOK, StartUnit, pool, loop, tally, workers, calls
  <1>2. ASSUME NEW u \in Unit, FailUnit(u) PROVE TypeOK'
    BY <1>2, <1>s, <1>f, ZenonT(40) DEF TypeOK, FailUnit, pool, loop, tally, workers, calls
  <1>3. ASSUME NEW u \in Unit, NEW ok \in SUBSET Items(u), CompileUnit(u, ok) PROVE TypeOK'
    <2>1. ok \subseteq Config
      BY Zenon DEF Items
    <2> QED
      BY <1>3, <2>1, <1>s, ZenonT(40) DEF TypeOK, CompileUnit, pool, loop, tally, workers, calls
  <1>4. ASSUME Wait PROVE TypeOK'
    BY <1>4, <1>s, <1>f, ZenonT(40) DEF TypeOK, Wait, pool, loop, tally, workers, calls
  <1>5. ASSUME NEW u \in Unit, HandleFuture(u) PROVE TypeOK'
    BY <1>5, <1>s, <1>f, ZenonT(40) DEF TypeOK, HandleFuture, pool, loop, tally, workers, calls
  <1>6. ASSUME NEW i \in Config, Enqueue(i) PROVE TypeOK'
    BY <1>6, <1>s, <1>f, SMTT(90) DEF TypeOK, Enqueue, pool, loop, tally, workers, calls
  <1>7. ASSUME EndBatch PROVE TypeOK'
    BY <1>7, <1>s, <1>f, Zenon DEF TypeOK, EndBatch, pool, loop, tally, workers, calls
  <1>8. ASSUME Process PROVE TypeOK'
    <2>1. PICK r \in Result :
             /\ Whole(r) /\ results' \in Seq(Result) /\ log' \in Seq(Result)
             /\ processed < expected /\ processed' = processed + 1
             /\ Faster(r) => best' = [idx |-> r.idx, latency |-> r.latency]
             /\ ~Faster(r) => best' = best
             /\ UNCHANGED <<setting, pool, pc, loop, expected, started, tasks, workers, calls, kept>>
      BY <1>8, ProcessEffect, ZenonT(40)
    <2>2. best' \in [idx : Config \cup {None}, latency : Latency \cup {MaxLatency}]
      BY <2>1, SMTT(30) DEF TypeOK, Faster, Whole, Result
    <2>3. processed' \in 0..expected'
      BY <2>1, SMTT(30) DEF TypeOK
    <2> QED
      BY <2>1, <2>2, <2>3, <1>s, ZenonT(40) DEF TypeOK, pool, loop, tally, workers, calls
  <1>9. ASSUME Drained PROVE TypeOK'
    BY <1>9, <1>s, <1>f, ZenonT(40) DEF TypeOK, Drained, pool, loop, tally, workers, calls
  <1>10. ASSUME Close PROVE TypeOK'
    BY <1>10, <1>s, <1>f, SMTT(90) DEF TypeOK, Close, PutNone, pool, loop, tally, workers, calls
  <1>11. ASSUME Collected PROVE TypeOK'
    BY <1>11, <1>s, <1>f, ZenonT(40) DEF TypeOK, Collected, pool, loop, tally, workers, calls
  <1>12. ASSUME Finally PROVE TypeOK'
    BY <1>12, <1>s, <1>f, SMTT(30) DEF TypeOK, Finally, PutNone, pool, loop, tally, workers, calls
  <1>13. ASSUME Leave PROVE TypeOK'
    BY <1>13, <1>s, <1>f, ZenonT(40) DEF TypeOK, Leave, pool, loop, tally, workers, calls
  <1>14. ASSUME Raise PROVE TypeOK'
    BY <1>14, <1>s, <1>f, ZenonT(40) DEF TypeOK, Raise, pool, loop, tally, workers, calls
  <1>15. ASSUME Interrupt PROVE TypeOK'
    BY <1>15, <1>s, <1>f, ZenonT(40) DEF TypeOK, Interrupt, pool, loop, tally, workers, calls
  <1>16. ASSUME NEW w \in Worker, Begin(w) PROVE TypeOK'
    BY <1>16, <1>s, <1>f, ZenonT(40) DEF TypeOK, Begin, pool, loop, tally, workers, calls
  <1>17. ASSUME NEW w \in Worker, Poll(w) PROVE TypeOK'
    <2> DEFINE i == Head(tasks[w])
    <2>1. /\ tasks[w] \in Seq(Config \cup {None}) /\ tasks[w] # <<>>
          /\ i \in Config \cup {None} /\ Tail(tasks[w]) \in Seq(Config \cup {None})
      BY <1>17, SMTT(30) DEF Poll, TypeOK
    <2> HIDE DEF i
    <2>2. call' \in [Config -> {"none", "running", "over"}]
      BY <1>17, <2>1, ZenonT(40) DEF Poll, TypeOK, i
    <2> QED
      BY <1>17, <2>1, <2>2, <1>s, ZenonT(40) DEF TypeOK, Poll, i, pool, loop, tally, workers, calls
  <1>18. ASSUME NEW w \in Worker, NEW r, Reports(w, r) PROVE TypeOK'
    <2>1. Append(results, r) \in Seq(Result) /\ r.idx \in Config
      BY <1>18, SMTT(30) DEF TypeOK, Reports
    <2> QED
      BY <1>18, <2>1, <1>s, ZenonT(40) DEF TypeOK, Reports, Report, pool, loop, tally, workers, calls
  <1>19. ASSUME NEW w \in Worker, Die(w) PROVE TypeOK'
    BY <1>19, <1>s, <1>f, ZenonT(40) DEF TypeOK, Die, pool, loop, tally, workers, calls
  <1>20. ASSUME NEW i \in Config, Vanish(i) PROVE TypeOK'
    BY <1>20, <1>s, <1>f, ZenonT(40) DEF TypeOK, Vanish, pool, loop, tally, workers, calls
  <1>21. ASSUME NEW i \in Config, NEW r \in Outcomes(i), Answer(i, r) PROVE TypeOK'
    <2>1. r \in Result
      BY OutcomesSound, ZenonT(40) DEF TypeOK
    <2> QED
      BY <1>21, <2>1, <1>s, <1>f, ZenonT(40) DEF TypeOK, Answer, pool, loop, tally, workers, calls
  <1>22. ASSUME UNCHANGED vars PROVE TypeOK'
    BY <1>22, <1>s, <1>f, ZenonT(120) DEF TypeOK, vars, pool, loop, tally, workers, calls
  <1> QED
    BY <1>1, <1>2, <1>3, <1>4, <1>5, <1>6, <1>7, <1>8, <1>9, <1>10, <1>11, <1>12, <1>13, <1>14, <1>15, <1>16, <1>17, <1>18, <1>19, <1>20, <1>21, <1>22, StepCases, ZenonT(40)

----------------------------------------------------------------------------
(* Results, tasks and units *)

\* Results stay sound: a late answer is still the one of its own call.
LEMMA ResultsStep ==
    ASSUME TypeOK, ResultsSound, TasksRouted, [Next]_vars
    PROVE  ResultsSound'
  <1>s. /\ setting' = setting /\ Config' = Config /\ Unit' = Unit /\ Worker' = Worker
        /\ NumWorkers' = NumWorkers /\ Pipeline' = Pipeline /\ Result' = Result
    BY SettingStays, Zenon
  <1>f. /\ Config \subseteq Nat /\ None \notin Nat /\ Latency \subseteq Nat /\ MaxLatency \in Nat
        /\ \A i \in Config : i # None /\ i % NumWorkers \in Worker
        /\ 0 \in Worker
    BY SettingFacts, Zenon DEF TypeOK
  <1>c. \/ UNCHANGED <<results, log, answer>>
        \/ Process
        \/ \E w \in Worker : \E r : Reports(w, r)
        \/ \E i \in Config : \E r \in Outcomes(i) : Answer(i, r)
    BY StepCases, Zenon DEF StartUnit, FailUnit, CompileUnit, Wait, HandleFuture, Enqueue, EndBatch,
           Drained, Close, Collected, Finally, Leave, Raise, Interrupt, Begin, Poll, Die, Vanish,
           vars, tally, calls
  <1>1. ASSUME Process PROVE ResultsSound'
    <2>1. PICK r \in Result, N \in Nat :
             /\ Whole(r) /\ UNCHANGED calls
             /\ \A n \in DOMAIN results' : n + 1 \in DOMAIN results /\ results'[n] = results[n + 1]
             /\ DOMAIN log' = DOMAIN log \cup {N} /\ log'[N] = r
             /\ \A n \in DOMAIN log : log'[n] = log[n]
      BY <1>1, ProcessEffect, Zenon
    <2>2. \A n \in DOMAIN results' : Whole(results'[n])
      BY <2>1, Zenon DEF ResultsSound
    <2>3. \A n \in DOMAIN log' : Whole(log'[n])
      BY <2>1, Zenon DEF ResultsSound
    <2>4. answer' = answer
      BY <2>1, Zenon DEF calls
    <2> QED
      BY <2>2, <2>3, <2>4, <1>s, ZenonT(40) DEF ResultsSound, Whole
  <1>2. ASSUME NEW w \in Worker, NEW r, Reports(w, r) PROVE ResultsSound'
    <2>1. /\ results \in Seq(Result) /\ r \in Result /\ results' = Append(results, r) /\ Whole(r)
          /\ UNCHANGED <<log, answer>>
      BY <1>2, ZenonT(40) DEF Reports, Report, TypeOK, tally, calls
    <2>2. \A n \in DOMAIN results' : Whole(results'[n])
      BY <2>1, SMTT(30) DEF ResultsSound
    <2> QED
      BY <2>1, <2>2, <1>s, ZenonT(40) DEF ResultsSound, Whole
  <1>3. ASSUME NEW i \in Config, NEW r \in Outcomes(i), Answer(i, r) PROVE ResultsSound'
    <2>1. r \in Result /\ r.idx = i /\ Whole(r)
      BY OutcomesSound, Zenon DEF TypeOK
    <2>2. /\ answer \in [Config -> Result \cup {None}] /\ answer' = [answer EXCEPT ![i] = r]
          /\ UNCHANGED <<results, log>>
      BY <1>3, Zenon DEF Answer, TypeOK, tally
    <2> QED
      BY <2>1, <2>2, <1>s, ZenonT(40) DEF ResultsSound, Whole
  <1>4. CASE UNCHANGED <<results, log, answer>>
    BY <1>4, <1>s, Zenon DEF ResultsSound, Whole
  <1> QED
    BY <1>c, <1>1, <1>2, <1>3, <1>4, Zenon

\* A task goes to the queue of its own worker, which takes one at a time.
LEMMA TasksStep ==
    ASSUME TypeOK, ResultsSound, TasksRouted, [Next]_vars
    PROVE  TasksRouted'
  <1>s. /\ setting' = setting /\ Config' = Config /\ Unit' = Unit /\ Worker' = Worker
        /\ NumWorkers' = NumWorkers /\ Pipeline' = Pipeline /\ Result' = Result
    BY SettingStays, Zenon
  <1>f. /\ Config \subseteq Nat /\ None \notin Nat /\ Latency \subseteq Nat /\ MaxLatency \in Nat
        /\ \A i \in Config : i # None /\ i % NumWorkers \in Worker
        /\ 0 \in Worker
    BY SettingFacts, Zenon DEF TypeOK
  <1>c. \/ UNCHANGED <<tasks, wpc, item>>
        \/ \E i \in Config : Enqueue(i)
        \/ Close
        \/ Finally
        \/ \E w \in Worker : Begin(w)
        \/ \E w \in Worker : Poll(w)
        \/ \E w \in Worker : \E r : Reports(w, r)
        \/ \E w \in Worker : Die(w)
    BY StepCases, ZenonT(40) DEF StartUnit, FailUnit, CompileUnit, Wait, HandleFuture, EndBatch, Process,
           Drained, Collected, Leave, Raise, Interrupt, Vanish, Answer, vars, workers
  <1>1. ASSUME NEW i \in Config, Enqueue(i) PROVE TasksRouted'
    <2> DEFINE v == i % NumWorkers
    <2>1. /\ tasks \in [Worker -> Seq(Config \cup {None})] /\ v \in Worker
          /\ tasks' = [tasks EXCEPT ![v] = Append(@, i)] /\ UNCHANGED <<wpc, item>>
      BY <1>1, <1>f, ZenonT(40) DEF Enqueue, TypeOK, workers
    <2> HIDE DEF v
    <2>2. ASSUME NEW w \in Worker, NEW n \in DOMAIN tasks'[w], tasks'[w][n] # None
          PROVE  tasks'[w][n] % NumWorkers = w
      <3>1. CASE w = v
        <4>1. tasks[w] \in Seq(Config \cup {None}) /\ tasks'[w] = Append(tasks[w], i)
          BY <2>1, <3>1, ZenonT(40)
        <4>2. CASE n = Len(tasks[w]) + 1
          BY <4>1, <4>2, <3>1, SMTT(30) DEF v
        <4>3. CASE n # Len(tasks[w]) + 1
          <5>1. n \in DOMAIN tasks[w] /\ tasks'[w][n] = tasks[w][n]
            BY <4>1, <4>3, SMTT(30)
          <5> QED
            BY <5>1, <2>2, ZenonT(40) DEF TasksRouted
        <4> QED
          BY <4>2, <4>3, Zenon
      <3>2. CASE w # v
        BY <2>1, <2>2, <3>2, ZenonT(40) DEF TasksRouted
      <3> QED
        BY <3>1, <3>2, Zenon
    <2> QED
      BY <2>1, <2>2, <1>s, ZenonT(40) DEF TasksRouted
  <1>2. ASSUME Close PROVE TasksRouted'
    <2>1. /\ tasks \in [Worker -> Seq(Config \cup {None})]
          /\ tasks' = [w \in Worker |-> Append(tasks[w], None)] /\ UNCHANGED <<wpc, item>>
      BY <1>2, ZenonT(40) DEF Close, PutNone, TypeOK, workers
    <2> SUFFICES ASSUME NEW w \in Worker, NEW n \in DOMAIN tasks'[w], tasks'[w][n] # None
                 PROVE  n \in DOMAIN tasks[w] /\ tasks'[w][n] = tasks[w][n]
      BY <2>1, <1>s, SMTT(30) DEF TasksRouted
    <2>2. tasks[w] \in Seq(Config \cup {None}) /\ tasks'[w] = Append(tasks[w], None)
      BY <2>1, ZenonT(40)
    <2> QED
      BY <2>2, SMTT(30)
  <1>3. ASSUME Finally PROVE TasksRouted'
    <2>1. /\ tasks \in [Worker -> Seq(Config \cup {None})]
          /\ tasks' = [w \in Worker |-> Append(tasks[w], None)] /\ UNCHANGED <<wpc, item>>
      BY <1>3, ZenonT(40) DEF Finally, PutNone, TypeOK, workers
    <2> SUFFICES ASSUME NEW w \in Worker, NEW n \in DOMAIN tasks'[w], tasks'[w][n] # None
                 PROVE  n \in DOMAIN tasks[w] /\ tasks'[w][n] = tasks[w][n]
      BY <2>1, <1>s DEF TasksRouted
    <2>2. tasks[w] \in Seq(Config \cup {None}) /\ tasks'[w] = Append(tasks[w], None)
      BY <2>1, Zenon
    <2> QED
      BY <2>2
  <1>4. ASSUME NEW w \in Worker, Begin(w) PROVE TasksRouted'
    BY <1>4, <1>s, ZenonT(120) DEF TasksRouted, Begin, TypeOK
  <1>5. ASSUME NEW w \in Worker, Poll(w) PROVE TasksRouted'
    <2> DEFINE i == Head(tasks[w])
    <2>1. /\ tasks \in [Worker -> Seq(Config \cup {None})] /\ tasks[w] # <<>>
          /\ wpc \in [Worker -> {"start", "poll", "bench", "exit"}]
          /\ item \in [Worker -> Config \cup {None}]
          /\ tasks' = [tasks EXCEPT ![w] = Tail(@)]
          /\ wpc' = [wpc EXCEPT ![w] = IF i = None THEN "exit" ELSE "bench"]
          /\ item' = [item EXCEPT ![w] = i]
      BY <1>5, Zenon DEF Poll, TypeOK
    <2>2. ASSUME NEW v \in Worker, NEW n \in DOMAIN tasks'[v], tasks'[v][n] # None
          PROVE  tasks'[v][n] % NumWorkers = v
      <3>1. CASE v = w
        <4>1. tasks[v] \in Seq(Config \cup {None}) /\ tasks[v] # <<>> /\ tasks'[v] = Tail(tasks[v])
          BY <2>1, <3>1, Zenon
        <4>2. n + 1 \in DOMAIN tasks[v] /\ tasks'[v][n] = tasks[v][n + 1]
          BY <4>1, SMTT(30)
        <4> QED
          BY <4>2, <2>2, Zenon DEF TasksRouted
      <3>2. CASE v # w
        BY <2>1, <2>2, <3>2, Zenon DEF TasksRouted
      <3> QED
        BY <3>1, <3>2, Zenon
    <2> HIDE DEF i
    <2>3. ASSUME NEW v \in Worker
          PROVE  /\ wpc'[v] \in {"start", "poll"} => item'[v] = None
                 /\ wpc'[v] = "bench" => item'[v] # None
      BY <2>1, ZenonT(40) DEF TasksRouted
    <2> QED
      BY <2>2, <2>3, <1>s, Zenon DEF TasksRouted
  <1>6. ASSUME NEW w \in Worker, NEW r, Reports(w, r) PROVE TasksRouted'
    BY <1>6, <1>s, SMTT(30) DEF TasksRouted, Reports, Report, TypeOK
  <1>7. ASSUME NEW w \in Worker, Die(w) PROVE TasksRouted'
    BY <1>7, <1>s, SMTT(30) DEF TasksRouted, Die, TypeOK
  <1>8. CASE UNCHANGED <<tasks, wpc, item>>
    BY <1>8, <1>s, Zenon DEF TasksRouted
  <1> QED
    BY <1>c, <1>1, <1>2, <1>3, <1>4, <1>5, <1>6, <1>7, <1>8, ZenonT(40)

\* Every unit is handled after it finished, and before the main thread closes the queues.
LEMMA UnitsStep ==
    ASSUME TypeOK, ResultsSound, TasksRouted, UnitsHandled, [Next]_vars
    PROVE  UnitsHandled'
  <1>s. /\ setting' = setting /\ Config' = Config /\ Unit' = Unit /\ Worker' = Worker
        /\ NumWorkers' = NumWorkers /\ Pipeline' = Pipeline /\ Result' = Result
    BY SettingStays, Zenon
  <1>f. /\ Config \subseteq Nat /\ None \notin Nat /\ Latency \subseteq Nat /\ MaxLatency \in Nat
        /\ \A i \in Config : i # None /\ i % NumWorkers \in Worker
        /\ 0 \in Worker
    BY SettingFacts, ZenonT(40) DEF TypeOK
  <1>c. \/ UNCHANGED <<future, pending, batch, items, pc, setting>>
        \/ \E u \in Unit : StartUnit(u)
        \/ \E u \in Unit : FailUnit(u)
        \/ \E u \in Unit : \E ok \in SUBSET Items(u) : CompileUnit(u, ok)
        \/ Wait
        \/ \E u \in Unit : HandleFuture(u)
        \/ \E i \in Config : Enqueue(i)
        \/ EndBatch
        \/ Drained
        \/ Close
        \/ Collected
        \/ Finally
        \/ Leave
        \/ Raise
        \/ Interrupt
    BY StepCases, Zenon DEF Process, Begin, Poll, Reports, Die, Vanish, Answer, vars, pool, loop
  <1>1. ASSUME NEW u \in Unit, StartUnit(u) PROVE UnitsHandled'
    BY <1>1, <1>s, ZenonT(40) DEF UnitsHandled, Finished, StartUnit, TypeOK, loop, UnitOf
  <1>2. ASSUME NEW u \in Unit, FailUnit(u) PROVE UnitsHandled'
    BY <1>2, <1>s, ZenonT(40) DEF UnitsHandled, Finished, FailUnit, TypeOK, loop, UnitOf
  <1>3. ASSUME NEW u \in Unit, NEW ok \in SUBSET Items(u), CompileUnit(u, ok) PROVE UnitsHandled'
    BY <1>3, <1>s, ZenonT(40) DEF UnitsHandled, Finished, CompileUnit, TypeOK, loop, UnitOf
  <1>4. ASSUME Wait PROVE UnitsHandled'
    <2> DEFINE done == {u \in pending : Finished(u)}
    <2>1. pc = "wait" /\ batch' = done /\ pending' = pending \ done /\ pc' = "batch" /\ UNCHANGED <<future, items, setting>>
      BY <1>4, Zenon DEF Wait, pool
    <2> QED
      BY <2>1, <1>s, ZenonT(40) DEF UnitsHandled, Finished, TypeOK, UnitOf
  <1>5. ASSUME NEW u \in Unit, HandleFuture(u) PROVE UnitsHandled'
    <2>1. /\ pc = "batch" /\ u \in batch /\ batch' = batch \ {u} /\ items' = Items(u) \cap kernels
          /\ UNCHANGED <<future, pending, pc, setting>>
      BY <1>5, Zenon DEF HandleFuture, pool
    <2>2. \A i \in items' : UnitOf(i) = u
      BY <2>1, Zenon DEF Items, UnitOf
    <2> QED
      BY <2>1, <2>2, <1>s, ZenonT(120) DEF UnitsHandled, Finished, TypeOK, UnitOf
  <1>6. ASSUME NEW i \in Config, Enqueue(i) PROVE UnitsHandled'
    BY <1>6, <1>s, Zenon DEF UnitsHandled, Finished, Enqueue, TypeOK, pool, loop, UnitOf
  <1>7. ASSUME EndBatch PROVE UnitsHandled'
    BY <1>7, <1>s, Zenon DEF UnitsHandled, Finished, EndBatch, TypeOK, pool, loop, UnitOf
  <1>8. ASSUME Drained PROVE UnitsHandled'
    BY <1>8, <1>s, Zenon DEF UnitsHandled, Finished, Drained, TypeOK, pool, loop, UnitOf
  <1>9. ASSUME Close PROVE UnitsHandled'
    BY <1>9, <1>s, Zenon DEF UnitsHandled, Finished, Close, TypeOK, pool, loop, UnitOf
  <1>10. ASSUME Collected PROVE UnitsHandled'
    BY <1>10, <1>s, ZenonT(40) DEF UnitsHandled, Finished, Collected, TypeOK, pool, loop, UnitOf
  <1>11. ASSUME Finally PROVE UnitsHandled'
    BY <1>11, <1>s, ZenonT(40) DEF UnitsHandled, Finished, Finally, TypeOK, pool, loop, UnitOf
  <1>12. ASSUME Leave PROVE UnitsHandled'
    BY <1>12, <1>s, ZenonT(40) DEF UnitsHandled, Finished, Leave, TypeOK, pool, loop, UnitOf
  <1>13. ASSUME Raise PROVE UnitsHandled'
    BY <1>13, <1>s, ZenonT(40) DEF UnitsHandled, Finished, Raise, TypeOK, pool, loop, UnitOf
  <1>14. ASSUME Interrupt PROVE UnitsHandled'
    BY <1>14, <1>s, ZenonT(40) DEF UnitsHandled, Finished, Interrupt, TypeOK, pool, loop, UnitOf
  <1>15. CASE UNCHANGED <<future, pending, batch, items, pc, setting>>
    BY <1>15, <1>s, ZenonT(40) DEF UnitsHandled, Finished, UnitOf
  <1> QED
    BY <1>c, <1>1, <1>2, <1>3, <1>4, <1>5, <1>6, <1>7, <1>8, <1>9, <1>10, <1>11, <1>12, <1>13, <1>14, <1>15, ZenonT(40)

----------------------------------------------------------------------------
(* Where the tasks are *)

\* Places adds up four counts.
LEMMA PlacesNow ==
    ASSUME TypeOK, NEW i \in Config
    PROVE  /\ Places(i) = Occurs(i, tasks[i % NumWorkers]) + Hand(i, item, Worker)
                            + Times(i, results) + Times(i, log)
           /\ Occurs(i, tasks[i % NumWorkers]) \in Nat /\ Hand(i, item, Worker) \in Nat
           /\ Times(i, results) \in Nat /\ Times(i, log) \in Nat
  <1>1. i % NumWorkers \in Worker /\ IsFiniteSet(Worker)
    BY SettingFacts, ZenonT(40) DEF TypeOK
  <1>2. tasks[i % NumWorkers] \in Seq(Config \cup {None}) /\ results \in Seq(Result) /\ log \in Seq(Result)
    BY <1>1, ZenonT(40) DEF TypeOK
  <1>3. Occurs(i, tasks[i % NumWorkers]) \in Nat
    BY <1>2, PositionsFinite, ZenonT(40) DEF Occurs
  <1>4. Times(i, results) \in Nat /\ Times(i, log) \in Nat
    BY <1>2, PositionsFinite, ZenonT(40) DEF Times
  <1>5. Hand(i, item, Worker) \in Nat
    BY <1>1, FS_Subset, FS_CardinalityType, Zenon DEF Hand
  <1>6. Places(i) = Occurs(i, tasks[i % NumWorkers]) + Hand(i, item, Worker)
                      + Times(i, results) + Times(i, log)
    BY Zenon DEF Places, Queued, InHand, Occurs, Hand
  <1> QED
    BY <1>3, <1>4, <1>5, <1>6, ZenonT(40)

\* The same after a step.
LEMMA PlacesSum ==
    ASSUME TypeOK, [Next]_vars, NEW i \in Config
    PROVE  /\ Places(i) = Occurs(i, tasks[i % NumWorkers]) + Hand(i, item, Worker)
                            + Times(i, results) + Times(i, log)
           /\ Places(i)' = Occurs(i, tasks'[i % NumWorkers]) + Hand(i, item', Worker)
                             + Times(i, results') + Times(i, log')
           /\ Occurs(i, tasks[i % NumWorkers]) \in Nat /\ Hand(i, item, Worker) \in Nat
           /\ Times(i, results) \in Nat /\ Times(i, log) \in Nat
  <1>1. NumWorkers' = NumWorkers /\ Worker' = Worker
    BY SettingStays, Zenon
  <1>2. Places(i)' = Occurs(i, tasks'[i % NumWorkers]) + Hand(i, item', Worker)
                       + Times(i, results') + Times(i, log')
    BY <1>1, ZenonT(40) DEF Places, Queued, InHand, Occurs, Hand, Times
  <1> QED
    BY <1>2, PlacesNow, ZenonT(40)

\* Enqueue puts the task in one more place, and no other task.
LEMMA EnqueuePlaces ==
    ASSUME TypeOK, [Next]_vars, NEW i \in Config, Enqueue(i), NEW j \in Config
    PROVE  Places(j)' = Places(j) + Bit(i = j)
  <1>1. i % NumWorkers \in Worker /\ j % NumWorkers \in Worker
    BY SettingFacts, Zenon DEF TypeOK
  <1>2. /\ tasks \in [Worker -> Seq(Config \cup {None})]
        /\ tasks' = [tasks EXCEPT ![i % NumWorkers] = Append(@, i)]
        /\ UNCHANGED <<item, results, log>>
    BY Zenon DEF Enqueue, TypeOK, workers
  <1>3. Occurs(j, tasks'[j % NumWorkers]) = Occurs(j, tasks[j % NumWorkers]) + Bit(i = j)
    <2>1. CASE i % NumWorkers = j % NumWorkers
      <3> DEFINE s == tasks[j % NumWorkers]
      <3>1. s \in Seq(Config \cup {None}) /\ tasks'[j % NumWorkers] = Append(s, i)
        BY <1>1, <1>2, <2>1, ZenonT(40)
      <3> HIDE DEF s
      <3>2. Occurs(j, Append(s, i)) = Occurs(j, s) + Bit(i = j)
        BY <3>1, OccursAppend, SMTT(30)
      <3> QED
        BY <3>1, <3>2, ZenonT(40) DEF s
    <2>2. CASE i % NumWorkers # j % NumWorkers
      <3>1. tasks'[j % NumWorkers] = tasks[j % NumWorkers] /\ i # j
        BY <1>1, <1>2, <2>2, ZenonT(40)
      <3>2. Occurs(j, tasks[j % NumWorkers]) \in Nat
        BY PlacesSum, Zenon
      <3> QED
        BY <3>1, <3>2, SMTT(30) DEF Bit
    <2> QED
      BY <2>1, <2>2, ZenonT(40)
  <1>4. Bit(i = j) \in Nat
    BY Zenon DEF Bit
  <1> QED
    BY <1>2, <1>3, <1>4, PlacesSum, SMTT(90)

\* Every other step moves a task from one place to another, or none.
LEMMA OtherPlaces ==
    ASSUME TypeOK, ResultsSound, TasksRouted, [Next]_vars
    PROVE  (\E i \in Config : Enqueue(i)) \/ \A j \in Config : Places(j)' = Places(j)
  <1> DEFINE Stay == \A j \in Config : Places(j)' = Places(j)
             Goal == (\E i \in Config : Enqueue(i)) \/ Stay
  <1> SUFFICES Goal
    BY ZenonT(40)
  <1>s. /\ setting' = setting /\ Config' = Config /\ Unit' = Unit /\ Worker' = Worker
        /\ NumWorkers' = NumWorkers /\ Pipeline' = Pipeline /\ Result' = Result
    BY SettingStays, Zenon
  <1>f. /\ Config \subseteq Nat /\ None \notin Nat /\ Latency \subseteq Nat /\ MaxLatency \in Nat
        /\ \A i \in Config : i # None /\ i % NumWorkers \in Worker
        /\ 0 \in Worker
    BY SettingFacts, Zenon DEF TypeOK
  <1>c. \/ UNCHANGED <<tasks, item, results, log>>
        \/ \E i \in Config : Enqueue(i)
        \/ Process
        \/ Close
        \/ Finally
        \/ \E w \in Worker : Poll(w)
        \/ \E w \in Worker : \E r : Reports(w, r)
    BY StepCases, ZenonT(40) DEF StartUnit, FailUnit, CompileUnit, Wait, HandleFuture, EndBatch, Drained,
           Collected, Leave, Raise, Interrupt, Begin, Die, Vanish, Answer, vars, workers, tally
  <1>1. ASSUME NEW i \in Config, Enqueue(i) PROVE Goal
    BY <1>1, ZenonT(40)
  <1>2. ASSUME Process PROVE Goal
    <2> DEFINE r == Head(results)
    <2>1. /\ results \in Seq(Result) /\ log \in Seq(Result) /\ results # <<>> /\ r \in Result
          /\ results' = Tail(results) /\ log' = Append(log, r) /\ UNCHANGED <<tasks, item>>
      BY <1>2, SMTT(30) DEF Process, TypeOK, workers
    <2>2. SUFFICES ASSUME NEW j \in Config PROVE Places(j)' = Places(j)
      BY Zenon
    <2>3. Times(j, results') = Times(j, results) - Bit(r.idx = j)
      BY <2>1, TimesTail, ZenonT(40)
    <2>4. Times(j, log') = Times(j, log) + Bit(r.idx = j)
      BY <2>1, TimesAppend, SMTT(30)
    <2>5. Bit(r.idx = j) \in Nat
      BY Zenon DEF Bit
    <2> HIDE DEF r
    <2> QED
      BY <2>1, <2>3, <2>4, <2>5, PlacesSum, SMTT(30)
  <1>3. ASSUME Close PROVE Goal
    <2>1. /\ tasks \in [Worker -> Seq(Config \cup {None})] /\ UNCHANGED <<item, results, log>>
          /\ tasks' = [w \in Worker |-> Append(tasks[w], None)]
      BY <1>3, ZenonT(40) DEF Close, PutNone, TypeOK, workers, tally
    <2>2. SUFFICES ASSUME NEW j \in Config PROVE Places(j)' = Places(j)
      BY Zenon
    <2> DEFINE s == tasks[j % NumWorkers]
    <2>3. s \in Seq(Config \cup {None}) /\ tasks'[j % NumWorkers] = Append(s, None) /\ j # None
      BY <2>1, <1>f, ZenonT(40)
    <2> HIDE DEF s
    <2>4. Occurs(j, Append(s, None)) = Occurs(j, s) + Bit(None = j)
      BY <2>3, OccursAppend, SMTT(30)
    <2>5. Occurs(j, tasks'[j % NumWorkers]) = Occurs(j, tasks[j % NumWorkers])
      <3>1. Occurs(j, s) \in Nat
        BY PlacesSum, ZenonT(40) DEF s
      <3> QED
        BY <2>3, <2>4, <3>1, SMTT(30) DEF s, Bit
    <2> QED
      BY <2>1, <2>5, PlacesSum, ZenonT(40)
  <1>4. ASSUME Finally PROVE Goal
    <2>1. /\ tasks \in [Worker -> Seq(Config \cup {None})] /\ UNCHANGED <<item, results, log>>
          /\ tasks' = [w \in Worker |-> Append(tasks[w], None)]
      BY <1>4, ZenonT(40) DEF Finally, PutNone, TypeOK, workers, tally
    <2>2. SUFFICES ASSUME NEW j \in Config PROVE Places(j)' = Places(j)
      BY Zenon
    <2> DEFINE s == tasks[j % NumWorkers]
    <2>3. s \in Seq(Config \cup {None}) /\ tasks'[j % NumWorkers] = Append(s, None) /\ j # None
      BY <2>1, <1>f, Zenon
    <2> HIDE DEF s
    <2>4. Occurs(j, Append(s, None)) = Occurs(j, s) + Bit(None = j)
      BY <2>3, OccursAppend
    <2>5. Occurs(j, tasks'[j % NumWorkers]) = Occurs(j, tasks[j % NumWorkers])
      <3>1. Occurs(j, s) \in Nat
        BY PlacesSum, Zenon DEF s
      <3> QED
        BY <2>3, <2>4, <3>1 DEF s, Bit
    <2> QED
      BY <2>1, <2>5, PlacesSum, Zenon
  <1>5. ASSUME NEW w \in Worker, Poll(w) PROVE Goal
    <2> DEFINE i == Head(tasks[w])
    <2>1. /\ tasks \in [Worker -> Seq(Config \cup {None})] /\ tasks[w] # <<>> /\ item[w] = None
          /\ item \in [Worker -> Config \cup {None}] /\ item' = [item EXCEPT ![w] = i]
          /\ tasks' = [tasks EXCEPT ![w] = Tail(@)] /\ UNCHANGED <<results, log>>
      BY <1>5, ZenonT(40) DEF Poll, TypeOK, tally, TasksRouted
    <2>2. i \in Config \cup {None} /\ (i # None => i % NumWorkers = w)
      BY <2>1, SMTT(30) DEF TasksRouted
    <2>3. SUFFICES ASSUME NEW j \in Config PROVE Places(j)' = Places(j)
      BY Zenon
    <2>4. Hand(j, item', Worker) = Hand(j, item, Worker) + Bit(i = j)
      <3>1. IsFiniteSet(Worker)
        BY SettingFacts, ZenonT(40) DEF TypeOK
      <3>2. (\A v \in Worker \ {w} : item'[v] = item[v]) /\ item'[w] = i /\ item[w] # j
        BY <2>1, <1>f, ZenonT(40)
      <3>3. /\ Hand(j, item, Worker) \in Nat
            /\ item'[w] = j => Hand(j, item', Worker) = Hand(j, item, Worker) + 1
            /\ item'[w] # j => Hand(j, item', Worker) = Hand(j, item, Worker)
        BY <3>1, <3>2, HandChange, SMTT(30)
      <3> HIDE DEF i
      <3> QED
        BY <3>2, <3>3, SMTT(30) DEF Bit
    <2>5. Bit(i = j) \in Nat
      BY Zenon DEF Bit
    <2>6. Occurs(j, tasks'[j % NumWorkers]) = Occurs(j, tasks[j % NumWorkers]) - Bit(i = j)
      <3>1. CASE j % NumWorkers = w
        <4> DEFINE s == tasks[w]
        <4>1. s \in Seq(Config \cup {None}) /\ s # <<>> /\ tasks'[j % NumWorkers] = Tail(s)
          BY <2>1, <3>1, ZenonT(40)
        <4> HIDE DEF s
        <4>2. Occurs(j, Tail(s)) = Occurs(j, s) - Bit(Head(s) = j)
          BY <4>1, OccursTail, ZenonT(40)
        <4> QED
          BY <4>1, <4>2, <3>1, ZenonT(40) DEF s
      <3>2. CASE j % NumWorkers # w
        <4>1. tasks'[j % NumWorkers] = tasks[j % NumWorkers] /\ i # j
          BY <1>f, <2>1, <2>2, <3>2, ZenonT(40)
        <4>2. Occurs(j, tasks[j % NumWorkers]) \in Nat
          BY PlacesSum, Zenon
        <4> QED
          BY <4>1, <4>2, SMTT(30) DEF Bit
      <3> QED
        BY <3>1, <3>2, ZenonT(40)
    <2>7. Times(j, results') = Times(j, results) /\ Times(j, log') = Times(j, log)
      BY <2>1, ZenonT(40)
    <2> HIDE DEF i
    <2> QED
      BY <2>4, <2>5, <2>6, <2>7, PlacesSum, SMTT(30)
  <1>6. ASSUME NEW w \in Worker, NEW r, Reports(w, r) PROVE Goal
    <2>1. /\ results \in Seq(Result) /\ r \in Result /\ results' = Append(results, r) /\ r.idx = item[w]
          /\ item \in [Worker -> Config \cup {None}] /\ item' = [item EXCEPT ![w] = None]
          /\ UNCHANGED <<tasks, log>>
      BY <1>6, ZenonT(40) DEF Reports, Report, TypeOK, tally
    <2>2. SUFFICES ASSUME NEW j \in Config PROVE Places(j)' = Places(j)
      BY Zenon
    <2>3. Times(j, results') = Times(j, results) + Bit(r.idx = j)
      BY <2>1, TimesAppend, SMTT(30)
    <2>4. Hand(j, item', Worker) = Hand(j, item, Worker) - Bit(r.idx = j)
      <3>1. IsFiniteSet(Worker)
        BY SettingFacts, Zenon DEF TypeOK
      <3>2. (\A v \in Worker \ {w} : item'[v] = item[v]) /\ item'[w] = None /\ None # j
        BY <2>1, <1>f, ZenonT(40)
      <3>3. /\ Hand(j, item, Worker) \in Nat
            /\ item[w] = j => Hand(j, item', Worker) = Hand(j, item, Worker) - 1
            /\ item[w] # j => Hand(j, item', Worker) = Hand(j, item, Worker)
        BY <3>1, <3>2, HandChange, SMTT(30)
      <3> QED
        BY <2>1, <3>3, SMTT(30) DEF Bit
    <2>5. Bit(r.idx = j) \in Nat
      BY Zenon DEF Bit
    <2>6. tasks' = tasks /\ Times(j, log') = Times(j, log)
      BY <2>1, Zenon
    <2> QED
      BY <2>3, <2>4, <2>5, <2>6, PlacesSum, SMTT(30)
  <1>7. CASE UNCHANGED <<tasks, item, results, log>>
    BY <1>7, PlacesSum, ZenonT(40)
  <1> QED
    BY <1>c, <1>1, <1>2, <1>3, <1>4, <1>5, <1>6, <1>7, ZenonT(40)

\* The number of places is a number.
LEMMA PlacesNat ==
    ASSUME TypeOK, [Next]_vars, NEW i \in Config
    PROVE  Places(i) \in Nat
  BY PlacesSum, SMTT(30)

\* A step that moves no task to a new place is no Enqueue.
LEMMA NotEnqueue ==
    ASSUME TypeOK, [Next]_vars, \A j \in Config : Places(j)' = Places(j), NEW i \in Config, Enqueue(i)
    PROVE  FALSE
  <1>1. Places(i)' = Places(i) + 1
    BY EnqueuePlaces, Zenon DEF Bit
  <1> QED
    BY <1>1, PlacesNat, SMTT(30)

\* A configuration whose task does not move stays where it belongs.
LEMMA HandedStay ==
    ASSUME TypeOK, ResultsSound, TasksRouted, UnitsHandled, HandedOver, [Next]_vars,
           \A j \in Config : Places(j)' = Places(j)
    PROVE  HandedOver'
  <1>s. /\ setting' = setting /\ Config' = Config /\ Unit' = Unit /\ Worker' = Worker
        /\ NumWorkers' = NumWorkers /\ Pipeline' = Pipeline /\ Result' = Result
    BY SettingStays, ZenonT(40)
  <1>k. kernels \subseteq Config
    BY Zenon DEF TypeOK
  <1>u. \A i : UnitOf(i)' = UnitOf(i)
    BY SettingStays, ZenonT(40)
  <1>c. \/ UNCHANGED <<pending, batch, items, kernels>>
        \/ \E u \in Unit : \E ok \in SUBSET Items(u) : CompileUnit(u, ok)
        \/ Wait
        \/ \E u \in Unit : HandleFuture(u)
        \/ \E i \in Config : Enqueue(i)
    BY StepCases, ZenonT(40) DEF StartUnit, FailUnit, EndBatch, Process, Drained, Close, Collected, Finally,
           Leave, Raise, Interrupt, Begin, Poll, Reports, Die, Vanish, Answer, vars, pool, loop
  <1>1. ASSUME NEW u \in Unit, NEW ok \in SUBSET Items(u), CompileUnit(u, ok) PROVE HandedOver'
    <2>1. kernels' = kernels \cup ok /\ UNCHANGED <<pending, batch, items>>
      BY <1>1, Zenon DEF CompileUnit, loop
    <2>2. \A i \in ok : UnitOf(i) = u
      BY Zenon DEF Items, UnitOf
    <2>3. u \in pending
      BY <1>1, Zenon DEF CompileUnit, UnitsHandled, Finished
    <2>4. kernels \cup ok \subseteq Config
      BY Zenon DEF Items, TypeOK
    <2> QED
      BY <2>1, <2>2, <2>3, <2>4, <1>s, <1>u, Zenon DEF HandedOver
  <1>2. ASSUME Wait PROVE HandedOver'
    <2>1. kernels' = kernels /\ items' = items /\ pending' \cup batch' = pending /\ batch = {}
      BY <1>2, Zenon DEF Wait, UnitsHandled, pool
    <2> QED
      BY <2>1, <1>s, <1>u, <1>k, ZenonT(40) DEF HandedOver
  <1>3. ASSUME NEW u \in Unit, HandleFuture(u) PROVE HandedOver'
    <2>1. /\ kernels' = kernels /\ items = {} /\ items' = Items(u) \cap kernels
          /\ u \in batch /\ batch' = batch \ {u} /\ pending' = pending
      BY <1>3, Zenon DEF HandleFuture, pool
    <2>2. \A i \in Config : i \in Items(u) <=> UnitOf(i) = u
      BY Zenon DEF Items, UnitOf
    <2>3. kernels \subseteq Config
      BY Zenon DEF TypeOK
    <2> QED
      BY <2>1, <2>2, <2>3, <1>s, <1>u, ZenonT(40) DEF HandedOver
  <1>4. ASSUME NEW i \in Config, Enqueue(i) PROVE HandedOver'
    BY <1>4, NotEnqueue, Zenon
  <1>5. CASE UNCHANGED <<pending, batch, items, kernels>>
    BY <1>5, <1>s, <1>u, <1>k, ZenonT(40) DEF HandedOver
  <1> QED
    BY <1>c, <1>1, <1>2, <1>3, <1>4, <1>5, ZenonT(40)

\* A configuration is handed over at most once.
LEMMA HandedStep ==
    ASSUME TypeOK, ResultsSound, TasksRouted, UnitsHandled, HandedOver, [Next]_vars
    PROVE  HandedOver'
  <1>1. CASE \A j \in Config : Places(j)' = Places(j)
    BY <1>1, HandedStay, ZenonT(40)
  <1>2. ASSUME NEW i \in Config, Enqueue(i) PROVE HandedOver'
    <2>1. i \in items /\ items' = items \ {i} /\ UNCHANGED <<pending, batch, kernels>>
      BY <1>2, Zenon DEF Enqueue, pool
    <2>a. Places(i)' = Places(i) + 1
      BY <1>2, EnqueuePlaces, ZenonT(40) DEF Bit
    <2>2. ASSUME NEW j \in Config \ {i} PROVE Places(j)' = Places(j)
      <3>1. Places(j)' = Places(j) + Bit(i = j) /\ Places(j) \in Nat /\ i # j
        BY <1>2, EnqueuePlaces, PlacesNat, SMTT(30)
      <3> QED
        BY <3>1, SMTT(30) DEF Bit
    <2>3. Places(i) = 0 /\ Places(i)' = 1 /\ UnitOf(i) \notin pending \cup batch
      BY <2>1, <2>a, PlacesNat, SMTT(30) DEF HandedOver, UnitsHandled
    <2>4. kernels \subseteq Config
      BY Zenon DEF TypeOK
    <2>5. Config' = Config /\ \A j : UnitOf(j)' = UnitOf(j)
      BY SettingStays, Zenon
    <2> QED
      BY <2>1, <2>2, <2>3, <2>4, <2>5, SMTT(30) DEF HandedOver
  <1> QED
    BY <1>1, <1>2, OtherPlaces, ZenonT(40)

\* Only Enqueue changes the count of tasks, and a result that is recorded is counted.
LEMMA CountsStay ==
    ASSUME TypeOK, ResultsSound, TasksRouted, Accounted, [Next]_vars,
           \A j \in Config : Places(j)' = Places(j)
    PROVE  expected' = expected /\ processed' = Len(log')
  <1> DEFINE Goal == expected' = expected /\ processed' = Len(log')
  <1> SUFFICES Goal
    BY ZenonT(40)
  <1>c. \/ UNCHANGED <<expected, processed, log>>
        \/ \E i \in Config : Enqueue(i)
        \/ Process
    BY StepCases, ZenonT(40) DEF StartUnit, FailUnit, CompileUnit, Wait, HandleFuture, EndBatch, Drained,
           Close, Collected, Finally, Leave, Raise, Interrupt, Begin, Poll, Reports, Die, Vanish,
           Answer, vars, tally
  <1>1. ASSUME NEW i \in Config, Enqueue(i) PROVE Goal
    BY <1>1, NotEnqueue, Zenon
  <1>2. ASSUME Process PROVE Goal
    <2>1. processed' = processed + 1 /\ Len(log') = Len(log) + 1 /\ expected' = expected
      BY <1>2, ProcessEffect, Zenon
    <2> QED
      BY <2>1, Zenon DEF Accounted
  <1>3. CASE UNCHANGED <<expected, processed, log>>
    BY <1>3, Zenon DEF Accounted
  <1> QED
    BY <1>c, <1>1, <1>2, <1>3, ZenonT(40)

\* The counters stay right.
LEMMA AccountedStep ==
    ASSUME TypeOK, ResultsSound, TasksRouted, UnitsHandled, HandedOver, Accounted, [Next]_vars
    PROVE  Accounted'
  <1> DEFINE Handed == {j \in Config : Places(j) = 1}
  <1>0. Config' = Config /\ IsFiniteSet(Config)
    BY SettingStays, SettingFacts, ZenonT(40) DEF TypeOK
  <1>1. CASE \A j \in Config : Places(j)' = Places(j)
    <2>1. expected' = expected /\ processed' = Len(log')
      BY <1>1, CountsStay, ZenonT(40)
    <2>2. Handed' = Handed
      BY <1>0, <1>1, Zenon
    <2> QED
      BY <1>0, <1>1, <2>1, <2>2, ZenonT(40) DEF Accounted
  <1>2. ASSUME NEW i \in Config, Enqueue(i) PROVE Accounted'
    <2>1. i \in items /\ expected' = expected + 1 /\ UNCHANGED <<processed, log>>
      BY <1>2, ZenonT(40) DEF Enqueue
    <2>a. Places(i)' = Places(i) + 1
      BY <1>2, EnqueuePlaces, ZenonT(40) DEF Bit
    <2>2. ASSUME NEW j \in Config \ {i} PROVE Places(j)' = Places(j)
      <3>1. Places(j)' = Places(j) + Bit(i = j) /\ Places(j) \in Nat /\ i # j
        BY <1>2, EnqueuePlaces, PlacesNat, ZenonT(120)
      <3> QED
        BY <3>1, SMTT(30) DEF Bit
    <2>3. Places(i) = 0 /\ Places(i)' = 1
      BY <2>1, <2>a, PlacesNat, SMTT(30) DEF HandedOver
    <2>4. Handed' = Handed \cup {i} /\ i \notin Handed
      BY <1>0, <2>2, <2>3, SMTT(30)
    <2>5. IsFiniteSet(Handed)
      BY <1>0, FS_Subset, Zenon
    <2>6. Cardinality(Handed \cup {i}) = Cardinality(Handed) + 1
      BY <2>4, <2>5, FS_AddElement, Zenon
    <2>7. \A j \in Config : Places(j)' <= 1
      BY <2>2, <2>3, SMTT(30) DEF Accounted
    <2> QED
      BY <1>0, <2>1, <2>4, <2>6, <2>7, ZenonT(40) DEF Accounted
  <1> QED
    BY <1>1, <1>2, OtherPlaces, ZenonT(40)

----------------------------------------------------------------------------
(* The best result, the start event and the benchmark state *)

\* The main thread leaves the loop with all results, and takes no more.
LEMMA RecordedStep ==
    ASSUME TypeOK, ResultsSound, TasksRouted, AllRecorded, [Next]_vars
    PROVE  AllRecorded'
  <1>s. /\ setting' = setting /\ Config' = Config /\ Unit' = Unit /\ Worker' = Worker
        /\ NumWorkers' = NumWorkers /\ Pipeline' = Pipeline /\ Result' = Result
    BY SettingStays, SMTT(30)
  <1>c. \/ UNCHANGED <<pc, expected, processed>>
        \/ Wait
        \/ \E i \in Config : Enqueue(i)
        \/ EndBatch
        \/ Process
        \/ Drained
        \/ Close
        \/ Collected
        \/ Finally
        \/ Leave
        \/ Raise
        \/ Interrupt
    BY StepCases, ZenonT(40) DEF StartUnit, FailUnit, CompileUnit, HandleFuture, Begin, Poll, Reports, Die,
           Vanish, Answer, vars, tally
  <1>1. ASSUME Wait PROVE AllRecorded'
    BY <1>1, <1>s, ZenonT(40) DEF AllRecorded, Wait, tally
  <1>2. ASSUME NEW i \in Config, Enqueue(i) PROVE AllRecorded'
    BY <1>2, <1>s, ZenonT(40) DEF AllRecorded, Enqueue, tally
  <1>3. ASSUME EndBatch PROVE AllRecorded'
    BY <1>3, <1>s, ZenonT(40) DEF AllRecorded, EndBatch, tally
  <1>4. ASSUME Process PROVE AllRecorded'
    BY <1>4, <1>s, ZenonT(40) DEF AllRecorded, Process, tally
  <1>5. ASSUME Drained PROVE AllRecorded'
    BY <1>5, <1>s, ZenonT(40) DEF AllRecorded, Drained, tally
  <1>6. ASSUME Close PROVE AllRecorded'
    BY <1>6, <1>s, ZenonT(40) DEF AllRecorded, Close, PutNone, tally
  <1>7. ASSUME Collected PROVE AllRecorded'
    BY <1>7, <1>s, ZenonT(40) DEF AllRecorded, Collected, tally
  <1>8. ASSUME Finally PROVE AllRecorded'
    BY <1>8, <1>s, ZenonT(40) DEF AllRecorded, Finally, PutNone, tally
  <1>9. ASSUME Leave PROVE AllRecorded'
    BY <1>9, <1>s, ZenonT(40) DEF AllRecorded, Leave, tally
  <1>10. ASSUME Raise PROVE AllRecorded'
    BY <1>10, <1>s, ZenonT(40) DEF AllRecorded, Raise, tally
  <1>11. ASSUME Interrupt PROVE AllRecorded'
    BY <1>11, <1>s, Zenon DEF AllRecorded, Interrupt, tally
  <1>12. CASE UNCHANGED <<pc, expected, processed>>
    BY <1>12, Zenon DEF AllRecorded
  <1> QED
    BY <1>c, <1>1, <1>2, <1>3, <1>4, <1>5, <1>6, <1>7, <1>8, <1>9, <1>10, <1>11, <1>12, ZenonT(40)

\* The event is set when all units are handled.
LEMMA StartStep ==
    ASSUME TypeOK, ResultsSound, TasksRouted, StartsLate, [Next]_vars
    PROVE  StartsLate'
  <1>s. /\ setting' = setting /\ Config' = Config /\ Unit' = Unit /\ Worker' = Worker
        /\ NumWorkers' = NumWorkers /\ Pipeline' = Pipeline /\ Result' = Result
    BY SettingStays
  <1>c. \/ UNCHANGED <<pc, started, wpc>>
        \/ Wait
        \/ \E i \in Config : Enqueue(i)
        \/ EndBatch
        \/ Process
        \/ Drained
        \/ Close
        \/ Collected
        \/ Finally
        \/ Leave
        \/ Raise
        \/ Interrupt
        \/ \E w \in Worker : Begin(w)
        \/ \E w \in Worker : Poll(w)
        \/ \E w \in Worker : \E r : Reports(w, r)
        \/ \E w \in Worker : Die(w)
    BY StepCases, ZenonT(40) DEF StartUnit, FailUnit, CompileUnit, HandleFuture, Vanish, Answer, vars,
           workers
  <1>1. ASSUME Wait PROVE StartsLate'
    BY <1>1, <1>s, ZenonT(40) DEF StartsLate, Wait, workers, TypeOK
  <1>2. ASSUME NEW i \in Config, Enqueue(i) PROVE StartsLate'
    BY <1>2, <1>s, ZenonT(40) DEF StartsLate, Enqueue, workers, TypeOK
  <1>3. ASSUME EndBatch PROVE StartsLate'
    BY <1>3, <1>s, ZenonT(40) DEF StartsLate, EndBatch, workers, TypeOK
  <1>4. ASSUME Process PROVE StartsLate'
    BY <1>4, <1>s, ZenonT(40) DEF StartsLate, Process, workers, TypeOK
  <1>5. ASSUME Drained PROVE StartsLate'
    BY <1>5, <1>s, ZenonT(40) DEF StartsLate, Drained, workers, TypeOK
  <1>6. ASSUME Close PROVE StartsLate'
    BY <1>6, <1>s, ZenonT(40) DEF StartsLate, Close, PutNone, workers, TypeOK
  <1>7. ASSUME Collected PROVE StartsLate'
    BY <1>7, <1>s, ZenonT(40) DEF StartsLate, Collected, workers, TypeOK
  <1>8. ASSUME Finally PROVE StartsLate'
    BY <1>8, <1>s, ZenonT(40) DEF StartsLate, Finally, PutNone, workers, TypeOK
  <1>9. ASSUME Leave PROVE StartsLate'
    BY <1>9, <1>s, ZenonT(40) DEF StartsLate, Leave, workers, TypeOK
  <1>10. ASSUME Raise PROVE StartsLate'
    BY <1>10, <1>s, ZenonT(40) DEF StartsLate, Raise, workers, TypeOK
  <1>11. ASSUME Interrupt PROVE StartsLate'
    BY <1>11, <1>s, ZenonT(40) DEF StartsLate, Interrupt, workers, TypeOK
  <1>12. ASSUME NEW w \in Worker, Begin(w) PROVE StartsLate'
    BY <1>12, <1>s, ZenonT(40) DEF StartsLate, Begin, workers, TypeOK
  <1>13. ASSUME NEW w \in Worker, Poll(w) PROVE StartsLate'
    BY <1>13, <1>s, ZenonT(40) DEF StartsLate, Poll, workers, TypeOK
  <1>14. ASSUME NEW w \in Worker, NEW r, Reports(w, r) PROVE StartsLate'
    BY <1>14, <1>s, ZenonT(40) DEF StartsLate, Reports, Report, workers, TypeOK
  <1>15. ASSUME NEW w \in Worker, Die(w) PROVE StartsLate'
    BY <1>15, <1>s, ZenonT(40) DEF StartsLate, Die, workers, TypeOK
  <1>16. CASE UNCHANGED <<pc, started, wpc>>
    BY <1>16, <1>s, ZenonT(40) DEF StartsLate
  <1> QED
    BY <1>c, <1>1, <1>2, <1>3, <1>4, <1>5, <1>6, <1>7, <1>8, <1>9, <1>10, <1>11, <1>12, <1>13, <1>14, <1>15, <1>16, ZenonT(40)

\* A result that is recorded becomes the best if and only if it is the fastest so far.
LEMMA BestStep ==
    ASSUME TypeOK, ResultsSound, TasksRouted, BestSoFar, [Next]_vars
    PROVE  BestSoFar'
  <1>s. /\ setting' = setting /\ Config' = Config /\ Unit' = Unit /\ Worker' = Worker
        /\ NumWorkers' = NumWorkers /\ Pipeline' = Pipeline /\ Result' = Result
    BY SettingStays, Zenon
  <1>f. /\ Config \subseteq Nat /\ None \notin Nat /\ Latency \subseteq Nat /\ MaxLatency \in Nat
        /\ \A i \in Config : i # None /\ i % NumWorkers \in Worker
        /\ 0 \in Worker
    BY SettingFacts, Zenon DEF TypeOK
  <1>c. \/ UNCHANGED <<best, log>>
        \/ Process
    BY StepCases, Zenon DEF StartUnit, FailUnit, CompileUnit, Wait, HandleFuture, Enqueue, EndBatch,
           Drained, Close, Collected, Finally, Leave, Raise, Interrupt, Begin, Poll, Reports,
           Die, Vanish, Answer, vars, tally
  <1>1. ASSUME Process PROVE BestSoFar'
    <2>1. PICK r \in Result, N \in Nat :
             /\ r.status = "ok" => r.latency \in Nat
             /\ DOMAIN log' = DOMAIN log \cup {N} /\ log'[N] = r
             /\ \A n \in DOMAIN log : log'[n] = log[n] /\ n \in Nat /\ n < N
             /\ Faster(r) => best' = [idx |-> r.idx, latency |-> r.latency]
             /\ ~Faster(r) => best' = best
      BY <1>1, ProcessEffect, ZenonT(40)
    <2>2. /\ DOMAIN log' = DOMAIN log \cup {N} /\ log'[N] = r /\ N \in Nat
          /\ \A n \in DOMAIN log : log'[n] = log[n] /\ n \in Nat /\ n < N
      BY <2>1, Zenon
    <2>3. \A n \in DOMAIN log : Within(n) => log[n].latency \in Nat
      BY <1>f, ZenonT(40) DEF ResultsSound, Whole, Within
    <2>4. r.status = "ok" => r.latency \in Nat
      BY <2>1, Zenon
    <2>5. \A n \in DOMAIN log : Within(n)' <=> Within(n)
      BY <2>2, Zenon DEF Within
    <2>6. Within(N)' <=> r.status = "ok" /\ r.latency < MaxLatency
      BY <2>2, ZenonT(40) DEF Within
    <2>7. ASSUME Faster(r) PROVE BestSoFar'
      <3>1. best' = [idx |-> r.idx, latency |-> r.latency] /\ r.status = "ok" /\ r.latency < best.latency
        BY <2>1, <2>7, ZenonT(40) DEF Faster
      <3>2. /\ best.latency \in Nat /\ best.latency <= MaxLatency
            /\ \A m \in DOMAIN log : Within(m) => best.latency <= log[m].latency
        <4>1. CASE best.latency = MaxLatency /\ \A n \in DOMAIN log : ~Within(n)
          BY <1>f, <4>1, SMTT(30)
        <4>2. CASE \E n \in DOMAIN log : Fastest(n) /\ best = [idx |-> log[n].idx, latency |-> log[n].latency]
          <5>1. PICK n \in DOMAIN log : Fastest(n) /\ best = [idx |-> log[n].idx, latency |-> log[n].latency]
            BY <4>2, ZenonT(40)
          <5>2. best.latency = log[n].latency /\ best.latency \in Nat /\ log[n].latency < MaxLatency
            BY <2>3, <5>1, ZenonT(40) DEF Fastest, Within
          <5>3. ASSUME NEW m \in DOMAIN log, Within(m) PROVE best.latency <= log[m].latency
            <6>1. log[n].latency < log[m].latency \/ log[n].latency = log[m].latency
              BY <5>1, <5>3, ZenonT(40) DEF Fastest
            <6>2. log[m].latency \in Nat
              BY <2>3, <5>3, ZenonT(40)
            <6> QED
              BY <5>2, <6>1, <6>2, SMTT(30)
          <5> QED
            BY <1>f, <5>2, <5>3, SMTT(30)
        <4> QED
          BY <4>1, <4>2, ZenonT(40) DEF BestSoFar
      <3>3. Within(N)'
        BY <1>f, <2>4, <2>6, <3>1, <3>2, SMTT(30)
      <3>4. ASSUME NEW m \in DOMAIN log', Within(m)'
            PROVE  \/ log'[N].latency < log'[m].latency
                   \/ log'[N].latency = log'[m].latency /\ N <= m
        <4>1. CASE m = N
          BY <2>2, <4>1, SMTT(30)
        <4>2. CASE m \in DOMAIN log
          BY <2>2, <2>3, <2>4, <2>5, <3>1, <3>2, <3>4, <4>2, SMTT(30)
        <4> QED
          BY <2>2, <4>1, <4>2, ZenonT(40)
      <3>5. Fastest(N)'
        BY <3>3, <3>4, ZenonT(40) DEF Fastest
      <3> QED
        BY <2>2, <3>1, <3>5, ZenonT(40) DEF BestSoFar
    <2>8. ASSUME ~Faster(r) PROVE BestSoFar'
      <3>1. best' = best /\ (r.status = "ok" => ~(r.latency < best.latency))
        BY <2>1, <2>8, Zenon DEF Faster
      <3>2. CASE best.idx = None /\ best.latency = MaxLatency /\ \A n \in DOMAIN log : ~Within(n)
        BY <2>2, <2>5, <2>6, <3>1, <3>2, ZenonT(40) DEF BestSoFar
      <3>3. ASSUME NEW n \in DOMAIN log, Fastest(n), best = [idx |-> log[n].idx, latency |-> log[n].latency]
            PROVE  BestSoFar'
        <4>1. Within(n)' /\ log[n].latency \in Nat /\ best.latency = log[n].latency
          BY <2>3, <2>5, <3>3, ZenonT(40) DEF Fastest
        <4>2. ASSUME NEW m \in DOMAIN log', Within(m)'
              PROVE  \/ log'[n].latency < log'[m].latency
                     \/ log'[n].latency = log'[m].latency /\ n <= m
          <5>1. CASE m = N
            <6>1. r.status = "ok" /\ r.latency \in Nat /\ ~(r.latency < log[n].latency)
              BY <2>4, <2>6, <3>1, <4>1, <4>2, <5>1, ZenonT(40)
            <6> QED
              BY <2>2, <4>1, <5>1, <6>1, SMTT(30)
          <5>2. CASE m \in DOMAIN log
            BY <2>2, <2>5, <3>3, <4>2, <5>2, ZenonT(40) DEF Fastest
          <5> QED
            BY <2>2, <5>1, <5>2, ZenonT(40)
        <4>3. Fastest(n)'
          BY <4>1, <4>2, ZenonT(40) DEF Fastest
        <4>4. n \in DOMAIN log' /\ best' = [idx |-> log'[n].idx, latency |-> log'[n].latency]
          BY <2>2, <3>1, <3>3, ZenonT(40)
        <4> QED
          BY <4>3, <4>4, ZenonT(40) DEF BestSoFar
      <3> QED
        BY <3>2, <3>3, ZenonT(40) DEF BestSoFar
    <2> QED
      BY <2>7, <2>8, ZenonT(40)
  <1>2. CASE UNCHANGED <<best, log>>
    BY <1>2, Zenon DEF BestSoFar, Fastest, Within
  <1> QED
    BY <1>c, <1>1, <1>2, ZenonT(40)

\* A worker, and the tuner after it, takes over a state only with its success.
LEMMA StateStep ==
    ASSUME TypeOK, ResultsSound, TasksRouted, StateReported, [Next]_vars
    PROVE  StateReported'
  <1>s. /\ setting' = setting /\ Config' = Config /\ Unit' = Unit /\ Worker' = Worker
        /\ NumWorkers' = NumWorkers /\ Pipeline' = Pipeline /\ Result' = Result
    BY SettingStays, Zenon
  <1>f. /\ Config \subseteq Nat /\ None \notin Nat /\ Latency \subseteq Nat /\ MaxLatency \in Nat
        /\ \A i \in Config : i # None /\ i % NumWorkers \in Worker
        /\ 0 \in Worker
    BY SettingFacts, ZenonT(40) DEF TypeOK
  <1>c. \/ UNCHANGED <<state, kept, results, log>>
        \/ Process
        \/ Leave
        \/ \E w \in Worker : \E r : Reports(w, r)
    BY StepCases, ZenonT(40) DEF StartUnit, FailUnit, CompileUnit, Wait, HandleFuture, Enqueue, EndBatch,
           Drained, Close, Collected, Finally, Raise, Interrupt, Begin, Poll, Die, Vanish,
           Answer, vars, tally, workers
  <1>1. ASSUME Process PROVE StateReported'
    <2>1. PICK r \in Result, N \in Nat :
             /\ 1 \in DOMAIN results /\ r = results[1]
             /\ \A n \in DOMAIN results : n # 1 => n - 1 \in DOMAIN results' /\ results'[n - 1] = results[n]
             /\ DOMAIN log' = DOMAIN log \cup {N} /\ log'[N] = r
             /\ \A n \in DOMAIN log : log'[n] = log[n]
             /\ UNCHANGED <<workers, kept>>
      BY <1>1, ProcessEffect, Zenon
    <2>2. Range(results) \subseteq Range(results') \cup Range(log')
      <3> SUFFICES ASSUME NEW n \in DOMAIN results PROVE results[n] \in Range(results') \cup Range(log')
        BY Zenon DEF Range
      <3>1. CASE n = 1
        BY <2>1, <3>1, ZenonT(40) DEF Range
      <3>2. CASE n # 1
        <4>1. n - 1 \in DOMAIN results' /\ results'[n - 1] = results[n]
          BY <2>1, <3>2, Zenon
        <4> QED
          BY <4>1, Zenon DEF Range
      <3> QED
        BY <3>1, <3>2, Zenon
    <2>3. Range(log) \subseteq Range(log')
      <3> SUFFICES ASSUME NEW n \in DOMAIN log PROVE log[n] \in Range(log')
        BY Zenon DEF Range
      <3> QED
        BY <2>1, Zenon DEF Range
    <2>4. state' = state /\ kept' = kept
      BY <2>1, Zenon DEF workers
    <2> QED
      BY <2>2, <2>3, <2>4, <1>s, SMTT(30) DEF StateReported
  <1>2. ASSUME Leave PROVE StateReported'
    <2>1. UNCHANGED <<state, results, log>> /\ kept' \in {state[0], kept}
      BY <1>2, Zenon DEF Leave, tally, workers
    <2>2. ({state'[w] : w \in Worker'} \cup {kept'}) \subseteq ({state[w] : w \in Worker} \cup {kept})
      BY <2>1, <1>s, <1>f, ZenonT(40)
    <2> QED
      BY <2>1, <2>2, Zenon DEF StateReported
  <1>3. ASSUME NEW w \in Worker, NEW r, Reports(w, r) PROVE StateReported'
    <2>1. /\ results \in Seq(Result) /\ r \in Result /\ results' = Append(results, r)
          /\ state \in [Worker -> Config \cup {None}]
          /\ state' = (IF r.status = "ok" THEN [state EXCEPT ![w] = r.idx] ELSE state)
          /\ UNCHANGED <<log, kept>>
      BY <1>3, ZenonT(40) DEF Reports, Report, TypeOK, tally
    <2>2. Range(results) \subseteq Range(results') /\ r \in Range(results')
      <3>1. \A n \in DOMAIN results : n \in DOMAIN results' /\ results'[n] = results[n]
        BY <2>1, SMTT(30)
      <3>2. Len(results) + 1 \in DOMAIN results' /\ results'[Len(results) + 1] = r
        BY <2>1, SMTT(30)
      <3> QED
        BY <3>1, <3>2, ZenonT(40) DEF Range
    <2>3. ASSUME NEW i \in ({state'[v] : v \in Worker} \cup {kept'}) \ {None}
          PROVE  \E q \in Range(results') \cup Range(log') : q.idx = i /\ q.status = "ok"
      <3>1. CASE i \in {state[v] : v \in Worker} \cup {kept}
        <4>1. PICK q \in Range(results) \cup Range(log) : q.idx = i /\ q.status = "ok"
          BY <3>1, <2>3, ZenonT(40) DEF StateReported
        <4> QED
          BY <2>1, <2>2, <4>1, ZenonT(40)
      <3>2. CASE i \notin {state[v] : v \in Worker} \cup {kept}
        <4>1. r.status = "ok" /\ i = r.idx
          BY <2>1, <2>3, <3>2, ZenonT(40)
        <4> QED
          BY <2>2, <4>1, ZenonT(40)
      <3> QED
        BY <3>1, <3>2, ZenonT(40)
    <2> QED
      BY <2>3, <1>s, ZenonT(40) DEF StateReported
  <1>4. CASE UNCHANGED <<state, kept, results, log>>
    BY <1>4, <1>s, SMTT(30) DEF StateReported
  <1> QED
    BY <1>c, <1>1, <1>2, <1>3, <1>4, ZenonT(40)

----------------------------------------------------------------------------
(* The theorems *)

\* A configuration that has a result in the log has been recorded, and if it has
\* two they are counted twice.
LEMMA LogCounts ==
    ASSUME TypeOK, NEW m \in DOMAIN log, NEW n \in DOMAIN log, NEW i, log[m].idx = i, log[n].idx = i
    PROVE  Times(i, log) \in Nat /\ Times(i, log) >= 1 /\ (m # n => Times(i, log) >= 2)
  <1> DEFINE P == {k \in DOMAIN log : log[k].idx = i}
  <1>1. IsFiniteSet(P) /\ Cardinality(P) \in Nat /\ m \in P /\ n \in P
    BY PositionsFinite, ZenonT(40) DEF TypeOK
  <1>2. Times(i, log) = Cardinality(P)
    BY Zenon DEF Times
  <1> HIDE DEF P
  <1>3. Cardinality(P) # 0
    BY <1>1, FS_EmptySet, ZenonT(40)
  <1>4. ASSUME m # n PROVE Cardinality(P) >= 2
    <2>1. IsFiniteSet({m}) /\ Cardinality({m}) = 1
      BY FS_Singleton, ZenonT(40)
    <2>2. IsFiniteSet({m} \cup {n}) /\ Cardinality({m} \cup {n}) = 2
      BY <1>4, <2>1, FS_AddElement, SMTT(30)
    <2>3. {m} \cup {n} \in SUBSET P
      BY <1>1, Zenon
    <2>4. Cardinality({m} \cup {n}) <= Cardinality(P)
      BY <1>1, <2>3, FS_Subset, ZenonT(40)
    <2> QED
      BY <1>1, <2>2, <2>4, ZenonT(40)
  <1> QED
    BY <1>1, <1>2, <1>3, <1>4, SMTT(30)

\* If as many results are in the log as tasks were handed over, each task is there.
LEMMA AllInLog ==
    ASSUME TypeOK, Accounted, processed = expected, NEW i \in Config, Places(i) # 0
    PROVE  Times(i, log) = 1
  <1> DEFINE Handed == {j \in Config : Places(j) = 1}
             f == [n \in 1..Len(log) |-> log[n].idx]
  <1>1. log \in Seq(Result) /\ Len(log) \in Nat /\ DOMAIN log = 1..Len(log)
    BY SMTT(30) DEF TypeOK
  <1>2. ASSUME NEW j \in Config PROVE Places(j) \in Nat /\ Times(j, log) \in Nat /\ Times(j, log) <= Places(j)
    BY PlacesNow, SMTT(30)
  <1>3. IsFiniteSet(Config)
    BY SettingFacts, ZenonT(40) DEF TypeOK
  <1>4. IsFiniteSet(Handed)
    BY <1>3, FS_Subset, ZenonT(40)
  <1>5. i \in Handed
    BY <1>2, SMTT(30) DEF Accounted
  <1>6. Cardinality(1..Len(log)) = Cardinality(Handed)
    <2>1. Cardinality(1..Len(log)) = Len(log)
      BY <1>1, FS_Interval, SMTT(90)
    <2> QED
      BY <2>1, Zenon DEF Accounted
  <1>7. f \in [1..Len(log) -> Handed]
    <2> SUFFICES ASSUME NEW n \in 1..Len(log) PROVE log[n].idx \in Handed
      BY ZenonT(40)
    <2>a. log[n] \in Result
      BY <1>1, SMTT(30)
    <2>1. PICK j \in Config : j = log[n].idx
      BY <2>a, Zenon DEF Result
    <2>2. Times(j, log) >= 1
      BY <1>1, <2>1, LogCounts, ZenonT(40)
    <2> QED
      BY <1>2, <2>1, <2>2, SMTT(30) DEF Accounted
  <1>8. \A m, n \in 1..Len(log) : f[m] = f[n] => m = n
    <2> SUFFICES ASSUME NEW m \in 1..Len(log), NEW n \in 1..Len(log), log[m].idx = log[n].idx, m # n
                 PROVE  FALSE
      BY ZenonT(40)
    <2>a. log[n] \in Result
      BY <1>1, SMTT(30)
    <2>1. PICK j \in Config : j = log[n].idx
      BY <2>a, Zenon DEF Result
    <2>2. Times(j, log) >= 2
      BY <1>1, <2>1, LogCounts, ZenonT(40)
    <2> QED
      BY <1>2, <2>2, SMTT(30) DEF Accounted
  <1>9. f \in Injection(1..Len(log), Handed)
    BY <1>7, <1>8, ZenonT(40) DEF Injection, IsInjective
  <1>10. f \in Surjection(1..Len(log), Handed)
    BY <1>4, <1>6, <1>9, FS_Injection, ZenonT(40)
  <1>11. PICK n \in 1..Len(log) : f[n] = i
    BY <1>5, <1>10, ZenonT(40) DEF Surjection
  <1>12. Times(i, log) >= 1
    BY <1>1, <1>11, LogCounts, ZenonT(40)
  <1> QED
    BY <1>2, <1>12, SMTT(30) DEF Accounted

\* run() begins with nothing handed over.
LEMMA TunerInit == Init => TunerInv
  <1> SUFFICES ASSUME Init PROVE TunerInv
    BY ZenonT(40)
  <1>0. setting \in Settings
    BY Zenon DEF Init
  <1>f. /\ Config \subseteq Nat /\ None \notin Nat /\ Latency \subseteq Nat /\ MaxLatency \in Nat
        /\ \A i \in Config : i # None /\ i % NumWorkers \in Worker
        /\ 0 \in Worker /\ Pipeline \in BOOLEAN /\ IsFiniteSet(Config)
    BY <1>0, SettingFacts, ZenonT(40)
  <1>1. TypeOK
    BY <1>0, <1>f, SMTT(30) DEF Init, TypeOK
  <1>2. ResultsSound /\ AllRecorded /\ StartsLate /\ StateReported
    BY <1>f, SMTT(30) DEF Init, ResultsSound, AllRecorded, StartsLate, StateReported
  <1>3. TasksRouted
    BY SMTT(30) DEF Init, TasksRouted
  <1>4. UnitsHandled
    BY Zenon DEF Init, UnitsHandled, Finished
  <1>5. BestSoFar
    <2>1. best.idx = None /\ best.latency = MaxLatency /\ log = <<>>
      BY Zenon DEF Init
    <2>2. \A n : n \notin DOMAIN <<>>
      BY SMTT(30)
    <2> QED
      BY <2>1, <2>2, ZenonT(40) DEF BestSoFar
  <1>6. ASSUME NEW i \in Config PROVE Places(i) = 0
    <2>1. \A n : n \notin DOMAIN <<>>
      BY SMTT(30)
    <2>2. Occurs(i, <<>>) = 0 /\ Times(i, <<>>) = 0
      BY <2>1, FS_EmptySet, ZenonT(40) DEF Occurs, Times
    <2>3. {w \in Worker : item[w] = i} = {}
      BY <1>f, Zenon DEF Init
    <2>4. Hand(i, item, Worker) = 0
      BY <2>3, FS_EmptySet, Zenon DEF Hand
    <2>5. tasks[i % NumWorkers] = <<>> /\ results = <<>> /\ log = <<>>
      BY <1>f, Zenon DEF Init
    <2> QED
      BY <1>1, <2>2, <2>4, <2>5, PlacesNow, SMTT(30)
  <1>7. HandedOver
    BY <1>6, Zenon DEF Init, HandedOver
  <1>8. Accounted
    <2>1. {i \in Config : Places(i) = 1} = {}
      BY <1>6, SMTT(30)
    <2>2. expected = 0 /\ processed = Len(log)
      BY Zenon DEF Init
    <2>3. \A i \in Config : Places(i) <= 1
      BY <1>6, SMTT(30)
    <2>4. expected = Cardinality({i \in Config : Places(i) = 1})
      BY <2>1, <2>2, FS_EmptySet, ZenonT(40)
    <2> QED
      BY <2>2, <2>3, <2>4, ZenonT(40) DEF Accounted
  <1> QED
    BY <1>1, <1>2, <1>3, <1>4, <1>5, <1>7, <1>8, ZenonT(40) DEF TunerInv

\* TunerInv is inductive: whatever times out, fails, answers late or is interrupted.
THEOREM TunerInvariant == Spec => []TunerInv
  <1>1. TunerInv /\ [Next]_vars => TunerInv'
    <2> SUFFICES ASSUME TunerInv, [Next]_vars PROVE TunerInv'
      BY ZenonT(40)
    <2>1. TypeOK' /\ ResultsSound' /\ TasksRouted'
      BY TypeStep, ResultsStep, TasksStep, ZenonT(40) DEF TunerInv
    <2>2. UnitsHandled' /\ HandedOver' /\ Accounted'
      BY UnitsStep, HandedStep, AccountedStep, ZenonT(40) DEF TunerInv
    <2>3. AllRecorded' /\ BestSoFar' /\ StartsLate' /\ StateReported'
      BY RecordedStep, BestStep, StartStep, StateStep, ZenonT(40) DEF TunerInv
    <2> QED
      BY <2>1, <2>2, <2>3, ZenonT(40) DEF TunerInv
  <1> QED
    BY <1>1, TunerInit, PTL DEF Spec

\* The counters of results expected and processed are right, and every task handed
\* over is in one place, for all timeouts and late answers.
THEOREM TasksAreAccounted == Spec => []Accounted
  <1>1. TunerInv => Accounted
    BY ZenonT(40) DEF TunerInv
  <1> QED
    BY <1>1, TunerInvariant, PTL

\* What run() returns is the fastest of all the configurations that compiled.
THEOREM BestIsTheFastest == Spec => []BestIsFastest
  <1>1. TunerInv => BestIsFastest
    <2> SUFFICES ASSUME TunerInv PROVE BestIsFastest
      BY ZenonT(40)
    <2>1. ASSUME pc \in {"returned", "failed"}, NEW i \in kernels PROVE Times(i, log) = 1
      <3>1. i \in Config /\ Places(i) # 0
        BY <2>1, ZenonT(40) DEF TunerInv, TypeOK, UnitsHandled, HandedOver
      <3>2. processed = expected
        BY <2>1, ZenonT(40) DEF TunerInv, AllRecorded
      <3> QED
        BY <3>1, <3>2, AllInLog, ZenonT(40) DEF TunerInv
    <2> QED
      BY <2>1, ZenonT(40) DEF TunerInv, BestSoFar, BestIsFastest
  <1> QED
    BY <1>1, TunerInvariant, PTL

\* Without pipelining no benchmark runs while a unit is compiled.
THEOREM BenchmarksAreQuiet == Spec => []QuietBenchmarks
  <1>1. TunerInv => QuietBenchmarks
    BY ZenonT(40) DEF TunerInv, TypeOK, UnitsHandled, StartsLate, QuietBenchmarks
  <1> QED
    BY <1>1, TunerInvariant, PTL

\* The benchmark state that is kept was left by a benchmark that was reported.
THEOREM StatesAreReported == Spec => []StateReported
  <1>1. TunerInv => StateReported
    BY Zenon DEF TunerInv
  <1> QED
    BY <1>1, TunerInvariant, PTL
=============================================================================
