-------------------------- MODULE MetalSyncProofs --------------------------
(***************************************************************************)
(* What the Metal event planning guarantees for any number of arrays, ids, *)
(* launches and domains.                                                   *)
(***************************************************************************)
EXTENDS MetalSync, TLAPS

\* What refers to an array or a launch refers to one there is, a launch reads the
\* outputs of earlier ones only, and only dead arrays are finalized.
Refs ==
  /\ \A n \in DOMAIN arrays : arrays[n].launch \in 0..Len(launches)
  /\ \A l \in DOMAIN launches : launches[l].inputs \subseteq 1..(l - 1)
  /\ finalizers \subseteq DOMAIN arrays \ Alive

\* No two live objects have the same id.
OneLivePerId == \A m, n \in Alive : arrays[m].id = arrays[n].id => m = n

\* A record is stored under the id of its array, and only launches make records.
Records ==
  \A i \in Ids : producers[i] # 0 =>
    /\ producers[i] \in DOMAIN arrays
    /\ arrays[producers[i]].id = i /\ arrays[producers[i]].launch # 0

\* A launch waits for every launch of another domain whose output it reads.
CrossWaits ==
  \A c \in DOMAIN launches : \A p \in launches[c].inputs :
    launches[p].domain = launches[c].domain \/ <<p, c>> \in launches[c].waits

\* A launch signals edges of its own only.
SignalsOwn ==
  \A l \in DOMAIN launches : launches[l].signals \subseteq {l} \X Nat

RegistryInv == TypeOK /\ Refs /\ OneLivePerId /\ Records /\ RegistryExact
               /\ WaitsAreInputs /\ CrossWaits /\ SignalsOwn

\* What is encoded: in the queue of its domain, with the waits and signals of its node,
\* after its inputs.
QueuesOK ==
  \A d \in Domains : \A k \in DOMAIN queues[d] :
    LET cmd == queues[d][k] IN
    /\ cmd.launch \in DOMAIN launches
    /\ launches[cmd.launch].domain = d /\ launches[cmd.launch].evals > 0
    /\ cmd.waits = launches[cmd.launch].waits
    /\ cmd.signals \subseteq {cmd.launch} \X Nat

InputsFirst ==
  \A c \in DOMAIN launches : \A p \in launches[c].inputs : launches[c].evals <= launches[p].evals

\* An event that has been signalled was signalled by a launch that ran.
EventsRan == \A e \in events : e[1] \in DOMAIN launches /\ launches[e[1]].done > 0

\* The inductive invariant that holds however often a node is evaluated.
FlowInv == RegistryInv /\ QueuesOK /\ InputsFirst /\ EventsRan

\* A launch that is evaluated once is in a queue until it runs, once, ...
Pending(l) == launches[l].evals = 1 /\ launches[l].done = 0
Counted == \A l \in DOMAIN launches : launches[l].evals <= 1 /\ launches[l].done <= launches[l].evals
PendingQueued ==
  \A l \in DOMAIN launches : Pending(l) =>
    \E k \in DOMAIN queues[launches[l].domain] : queues[launches[l].domain][k].launch = l
QueuedPending == \A d \in Domains : \A k \in DOMAIN queues[d] : Pending(queues[d][k].launch)
QueuedOnce ==
  \A d \in Domains : \A j, k \in DOMAIN queues[d] :
    queues[d][j].launch = queues[d][k].launch => j = k
Once == Counted /\ PendingQueued /\ QueuedPending /\ QueuedOnce

\* ... and behind the launches of its domain whose outputs it reads.
InOrder ==
  \A d \in Domains : \A k \in DOMAIN queues[d] :
    \A p \in launches[queues[d][k].launch].inputs :
      launches[p].domain = d /\ launches[p].done = 0 =>
        \E j \in 1..(k - 1) : queues[d][j].launch = p

\* The inductive invariant when every node is evaluated once.
OnceInv == FlowInv /\ Once /\ InOrder /\ ReadsFinished

\* Every edge a launch waits for is in its producer's state, and encoded with it unless it
\* came late.
Queued(e) == \E d \in Domains : \E k \in DOMAIN queues[d] : e \in queues[d][k].signals
EdgesSignalled ==
  \A c \in DOMAIN launches : \A p \in launches[c].inputs :
    <<p, c>> \in launches[c].waits =>
      /\ <<p, c>> \in launches[p].signals
      /\ launches[p].evals > 0 =>
           <<p, c>> \in events \/ Queued(<<p, c>>) \/ <<p, c>> \in launches[c].late

\* The inductive invariant about the edges.
EdgeInv == FlowInv /\ EdgesSignalled
----------------------------------------------------------------------------
(* What the operators and the actions do to the variables. *)

\* A new live array is one more, and the others stay.
LEMMA AddArray ==
  ASSUME arrays \in Seq(Array), NEW a \in Array, a.alive, arrays' = Append(arrays, a)
  PROVE  /\ arrays' \in Seq(Array)
         /\ Len(arrays') = Len(arrays) + 1 /\ DOMAIN arrays' = 1..(Len(arrays) + 1)
         /\ \A n \in DOMAIN arrays : n \in DOMAIN arrays' /\ arrays'[n] = arrays[n]
         /\ arrays'[Len(arrays) + 1] = a
         /\ Alive' = Alive \cup {Len(arrays) + 1} /\ Len(arrays) + 1 \notin Alive
<1>1. /\ arrays' \in Seq(Array)
      /\ Len(arrays') = Len(arrays) + 1 /\ DOMAIN arrays' = 1..(Len(arrays) + 1)
      /\ \A n \in DOMAIN arrays : n \in DOMAIN arrays' /\ arrays'[n] = arrays[n]
      /\ arrays'[Len(arrays) + 1] = a
      /\ DOMAIN arrays = 1..Len(arrays) /\ Len(arrays) \in Nat
    BY SMTT(30)
<1>. QED
    BY <1>1, SMTT(30) DEF Alive

\* The fields of the arrays have their types.
LEMMA ArrayFields ==
  ASSUME arrays \in Seq(Array)
  PROVE  /\ DOMAIN arrays = 1..Len(arrays) /\ Alive \subseteq DOMAIN arrays
         /\ \A n \in DOMAIN arrays :
              arrays[n] \in Array /\ arrays[n].id \in Ids /\ arrays[n].launch \in Nat
<1>1. DOMAIN arrays = 1..Len(arrays) /\ \A n \in DOMAIN arrays : arrays[n] \in Array
    BY SMTT(30)
<1>2. \A a \in Array : a.id \in Ids /\ a.launch \in Nat
    BY Zenon DEF Array
<1>. QED
    BY <1>1, <1>2, Zenon DEF Alive

\* An array that dies keeps its id and its launch.
LEMMA KillArray ==
  ASSUME arrays \in Seq(Array), NEW n \in DOMAIN arrays,
         arrays' = [arrays EXCEPT ![n].alive = FALSE]
  PROVE  /\ arrays' \in Seq(Array) /\ DOMAIN arrays' = DOMAIN arrays
         /\ \A m \in DOMAIN arrays :
              arrays'[m].id = arrays[m].id /\ arrays'[m].launch = arrays[m].launch
         /\ Alive' = Alive \ {n}
<1>1. arrays \in [1..Len(arrays) -> Array] /\ DOMAIN arrays = 1..Len(arrays) /\ Len(arrays) \in Nat
    BY SMTT(30)
<1>2. ASSUME NEW a \in Array
      PROVE  LET b == [a EXCEPT !.alive = FALSE] IN
             b \in Array /\ b.id = a.id /\ b.launch = a.launch /\ b.alive = FALSE
    BY Zenon DEF Array
<1>3. arrays' = [arrays EXCEPT ![n] = [arrays[n] EXCEPT !.alive = FALSE]]
    BY ZenonT(40)
<1>4. arrays' \in [1..Len(arrays) -> Array]
    BY <1>1, <1>2, <1>3, ZenonT(40)
<1>5. arrays' \in Seq(Array) /\ DOMAIN arrays' = DOMAIN arrays
    BY <1>1, <1>4, SMTT(30)
<1>6. \A m \in DOMAIN arrays : m # n => arrays'[m] = arrays[m]
    BY <1>1, <1>3, Zenon
<1>7. /\ arrays'[n].id = arrays[n].id /\ arrays'[n].launch = arrays[n].launch
      /\ arrays'[n].alive = FALSE
  <2>1. arrays'[n] = [arrays[n] EXCEPT !.alive = FALSE] /\ arrays[n] \in Array
      BY <1>1, <1>3, Zenon
  <2>. QED
      BY <1>2, <2>1, Zenon
<1>8. Alive' = Alive \ {n}
    BY <1>5, <1>6, <1>7, Zenon DEF Alive
<1>. QED
    BY <1>5, <1>6, <1>7, <1>8, Zenon

\* What a lookup finds is what wrote the array.
LEMMA Lookup ==
  ASSUME NEW n PROVE _lookup_producer(n) \in {0, arrays[n].launch}
BY Zenon DEF _lookup_producer

\* The dependencies of a launch are launches that wrote its inputs.
LEMMA Dependencies ==
  ASSUME NEW ins
  PROVE  _planned_launch_dependencies(ins) \subseteq {arrays[n].launch : n \in ins} \ {0}
BY Lookup, Zenon DEF _planned_launch_dependencies

\* One more signal edge on a launch.
LEMMA AddSignal ==
  ASSUME NEW r \in Node, NEW e \in Edge
  PROVE  LET s == [r EXCEPT !.signals = @ \cup {e}] IN
         /\ s \in Node /\ s.domain = r.domain /\ s.inputs = r.inputs /\ s.waits = r.waits
         /\ s.late = r.late
         /\ s.evals = r.evals /\ s.done = r.done /\ s.signals = r.signals \cup {e}
BY Zenon DEF Node

\* Signal edges are added to the launches ps, and nothing else changes in them.
LEMMA SignalEdges ==
  ASSUME launches \in Seq(Node), NEW ps, NEW c \in Nat
  PROVE  LET new == add_signal_edge(ps, c) IN
         /\ new \in Seq(Node) /\ Len(new) = Len(launches) /\ DOMAIN new = DOMAIN launches
         /\ \A l \in DOMAIN launches :
              /\ new[l].domain = launches[l].domain /\ new[l].inputs = launches[l].inputs
              /\ new[l].waits = launches[l].waits /\ new[l].late = launches[l].late
              /\ new[l].evals = launches[l].evals /\ new[l].done = launches[l].done
              /\ new[l].signals = launches[l].signals \cup (IF l \in ps THEN {<<l, c>>} ELSE {})
<1> DEFINE new == add_signal_edge(ps, c)
           node(l) == IF l \in ps THEN [launches[l] EXCEPT !.signals = @ \cup {<<l, c>>}] ELSE launches[l]
<1>1. launches \in [1..Len(launches) -> Node] /\ Len(launches) \in Nat /\ DOMAIN launches = 1..Len(launches)
    BY SMTT(30)
<1>2. new = [l \in 1..Len(launches) |-> node(l)]
    BY <1>1, Zenon DEF add_signal_edge
<1>3. ASSUME NEW l \in 1..Len(launches)
      PROVE  /\ node(l) \in Node
             /\ node(l).domain = launches[l].domain /\ node(l).inputs = launches[l].inputs
             /\ node(l).waits = launches[l].waits /\ node(l).late = launches[l].late
             /\ node(l).evals = launches[l].evals /\ node(l).done = launches[l].done
             /\ node(l).signals = launches[l].signals \cup (IF l \in ps THEN {<<l, c>>} ELSE {})
  <2>1. launches[l] \in Node /\ <<l, c>> \in Edge
      BY <1>1, SMTT(30) DEF Edge
  <2>2. CASE l \in ps
      BY <2>1, <2>2, AddSignal, Zenon
  <2>3. CASE l \notin ps
      BY <2>1, <2>3, Zenon
  <2>. QED
      BY <2>2, <2>3, Zenon
<1>4. new \in Seq(Node) /\ Len(new) = Len(launches) /\ DOMAIN new = DOMAIN launches
    BY <1>1, <1>2, <1>3, SMTT(30)
<1>. QED
    BY <1>1, <1>2, <1>3, <1>4, Zenon

\* The launches of other domains a launch of d that reads ins has to wait for.
Cross(ins, d) == {p \in _planned_launch_dependencies(ins) : launches[p].domain # d}

\* The fields of launch l that only its own creation sets.
Keeps(l) ==
  /\ l \in DOMAIN launches' /\ launches'[l].domain = launches[l].domain
  /\ launches'[l].inputs = launches[l].inputs /\ launches'[l].waits = launches[l].waits
  /\ launches'[l].late = launches[l].late

\* Launch adds one node that waits for every producer in another domain, and tells each.
LEMMA LaunchNodes ==
  ASSUME TypeOK, NEW ins \in SUBSET Alive, NEW d \in Domains, NEW i \in Ids, Launch(ins, d, i)
  PROVE  LET c == Len(launches) + 1 IN
         /\ launches' \in Seq(Node) /\ Len(launches') = c
         /\ DOMAIN launches = 1..Len(launches) /\ DOMAIN launches' = 1..c
         /\ \A l \in DOMAIN launches :
              /\ Keeps(l)
              /\ launches'[l].evals = launches[l].evals /\ launches'[l].done = launches[l].done
              /\ launches'[l].signals =
                   launches[l].signals \cup (IF l \in Cross(ins, d) THEN {<<l, c>>} ELSE {})
         /\ launches'[c] = [domain |-> d, inputs |-> {arrays[n].launch : n \in ins} \ {0},
                            waits |-> {<<p, c>> : p \in Cross(ins, d)}, late |-> LateEdges(Cross(ins, d), c),
                            signals |-> {}, evals |-> 0, done |-> 0]
<1> DEFINE c == Len(launches) + 1
           old == add_signal_edge(Cross(ins, d), c)
           node == [domain |-> d, inputs |-> {arrays[n].launch : n \in ins} \ {0},
                    waits |-> {<<p, c>> : p \in Cross(ins, d)}, late |-> LateEdges(Cross(ins, d), c),
                    signals |-> {}, evals |-> 0, done |-> 0]
<1>1. launches' = Append(old, node)
  <2>1. Cross(ins, d) = {p \in _planned_launch_dependencies(ins) :
                           plan_metal_buffer_sync(p, d, TRUE) = "device_event"}
      BY Zenon DEF Cross, plan_metal_buffer_sync
  <2>. QED
      BY <2>1, Zenon DEF Launch
<1>2. launches \in Seq(Node) /\ c \in Nat /\ DOMAIN launches = 1..Len(launches)
    BY SMTT(30) DEF TypeOK
<1>3. node \in Node
  <2>1. \A n \in ins : arrays[n].launch \in Nat
      BY ArrayFields, Zenon DEF TypeOK
  <2>2. Cross(ins, d) \subseteq Nat
      BY <2>1, Dependencies, SMTT(30) DEF Cross
  <2>3. {<<p, c>> : p \in Cross(ins, d)} \subseteq Edge
      BY <1>2, <2>2, SMTT(30) DEF Edge
  <2>4. {arrays[n].launch : n \in ins} \ {0} \subseteq Nat
      BY <2>1, Zenon
  <2>5. LateEdges(Cross(ins, d), c) \subseteq Edge
      BY <1>2, <2>2, SMTT(30) DEF Edge, LateEdges
  <2>. QED
      BY <2>3, <2>4, <2>5, Zenon DEF Node
<1>4. /\ old \in Seq(Node) /\ Len(old) = Len(launches) /\ DOMAIN old = DOMAIN launches
      /\ \A l \in DOMAIN launches :
           /\ old[l].domain = launches[l].domain /\ old[l].inputs = launches[l].inputs
           /\ old[l].waits = launches[l].waits /\ old[l].late = launches[l].late
           /\ old[l].evals = launches[l].evals /\ old[l].done = launches[l].done
           /\ old[l].signals = launches[l].signals \cup (IF l \in Cross(ins, d) THEN {<<l, c>>} ELSE {})
    BY <1>2, SignalEdges, SMTT(30)
<1> HIDE DEF old, node
<1>5. /\ launches' \in Seq(Node) /\ Len(launches') = Len(old) + 1
      /\ DOMAIN launches' = 1..(Len(old) + 1)
      /\ \A l \in 1..Len(old) : launches'[l] = old[l]
      /\ launches'[Len(old) + 1] = node
    BY <1>1, <1>3, <1>4, SMTT(30)
<1>6. \A l \in DOMAIN launches : l \in DOMAIN launches' /\ launches'[l] = old[l]
    BY <1>2, <1>4, <1>5, SMTT(30)
<1>7. launches'[c] = node /\ Len(launches') = c /\ DOMAIN launches' = 1..c
    BY <1>4, <1>5, Zenon
<1>. QED
    BY <1>2, <1>4, <1>5, <1>6, <1>7, ZenonT(120) DEF Keeps, node

\* A launch that fails only leaves signal edges to no consumer.
LEMMA FailNodes ==
  ASSUME TypeOK, NEW ins \in SUBSET Alive, NEW d \in Domains, LaunchFails(ins, d)
  PROVE  /\ launches' \in Seq(Node) /\ Len(launches') = Len(launches)
         /\ DOMAIN launches' = DOMAIN launches /\ DOMAIN launches = 1..Len(launches)
         /\ \A l \in DOMAIN launches :
              /\ Keeps(l)
              /\ launches'[l].evals = launches[l].evals /\ launches'[l].done = launches[l].done
              /\ launches[l].signals \subseteq launches'[l].signals
              /\ launches'[l].signals \subseteq launches[l].signals \cup {<<l, 0>>}
<1>1. PICK ps : launches' = add_signal_edge(ps, 0)
    BY Zenon DEF LaunchFails
<1>2. launches \in Seq(Node) /\ 0 \in Nat /\ DOMAIN launches = 1..Len(launches)
    BY SMTT(30) DEF TypeOK
<1>. QED
    BY <1>1, <1>2, SignalEdges, SMTT(30) DEF Keeps

\* One more evaluation or one more run of a launch.
LEMMA Counts ==
  ASSUME NEW r \in Node
  PROVE  /\ [r EXCEPT !.evals = @ + 1] \in Node
         /\ [r EXCEPT !.done = @ + 1] \in Node
         /\ r.evals \in Nat /\ r.done \in Nat /\ r.domain \in Domains
         /\ r.inputs \subseteq Nat /\ r.waits \subseteq Edge /\ r.signals \subseteq Edge /\ r.late \subseteq Edge
BY SMTT(30) DEF Node

\* What an evaluation does to the nodes: it counts, and nothing else.
LEMMA EvalNodes ==
  ASSUME TypeOK, NEW l \in DOMAIN launches, eval_gpu(l)
  PROVE  /\ launches' \in Seq(Node) /\ Len(launches') = Len(launches)
         /\ DOMAIN launches' = DOMAIN launches /\ DOMAIN launches = 1..Len(launches)
         /\ \A m \in DOMAIN launches :
              /\ Keeps(m) /\ launches'[m].done = launches[m].done
              /\ launches'[m].signals = launches[m].signals
              /\ launches'[m].evals = launches[m].evals + (IF m = l THEN 1 ELSE 0)
<1>1. launches \in [1..Len(launches) -> Node] /\ DOMAIN launches = 1..Len(launches)
      /\ Len(launches) \in Nat
    BY SMTT(30) DEF TypeOK
<1>2. launches' = [launches EXCEPT ![l] = [launches[l] EXCEPT !.evals = @ + 1]]
    BY Zenon DEF eval_gpu
<1>3. launches[l] \in Node
    BY <1>1, Zenon
<1>4. [launches[l] EXCEPT !.evals = @ + 1] \in Node
    BY <1>3, Counts, Zenon
<1>5. launches' \in [1..Len(launches) -> Node]
    BY <1>1, <1>2, <1>4, Zenon
<1>6. launches' \in Seq(Node) /\ Len(launches') = Len(launches) /\ DOMAIN launches' = DOMAIN launches
    BY <1>1, <1>5, SMTT(30)
<1>7. ASSUME NEW m \in DOMAIN launches
      PROVE  /\ Keeps(m) /\ launches'[m].done = launches[m].done
             /\ launches'[m].signals = launches[m].signals
             /\ launches'[m].evals = launches[m].evals + (IF m = l THEN 1 ELSE 0)
  <2>1. CASE m = l
      BY <1>1, <1>2, <1>3, <1>6, <2>1, Zenon DEF Node, Keeps
  <2>2. CASE m # l
    <3>1. launches'[m] = launches[m] /\ launches[m].evals \in Nat
        BY <1>1, <1>2, <2>2, Counts, Zenon
    <3>. QED
        BY <1>6, <2>2, <3>1, SMTT(30) DEF Keeps
  <2>. QED
      BY <2>1, <2>2, Zenon
<1>. QED
    BY <1>1, <1>6, <1>7, Zenon

\* The command at the head of a queue runs.
LEMMA RunNodes ==
  ASSUME TypeOK, NEW d \in Domains, Run(d), Head(queues[d]).launch \in DOMAIN launches
  PROVE  /\ launches' \in Seq(Node) /\ Len(launches') = Len(launches)
         /\ DOMAIN launches' = DOMAIN launches /\ DOMAIN launches = 1..Len(launches)
         /\ \A m \in DOMAIN launches :
              /\ Keeps(m) /\ launches'[m].evals = launches[m].evals
              /\ launches'[m].signals = launches[m].signals
              /\ launches'[m].done = launches[m].done + (IF m = Head(queues[d]).launch THEN 1 ELSE 0)
<1> DEFINE l == Head(queues[d]).launch
<1>1. launches \in [1..Len(launches) -> Node] /\ DOMAIN launches = 1..Len(launches)
      /\ Len(launches) \in Nat
    BY SMTT(30) DEF TypeOK
<1>2. launches' = [launches EXCEPT ![l] = [launches[l] EXCEPT !.done = @ + 1]]
    BY Zenon DEF Run
<1> HIDE DEF l
<1>3. launches[l] \in Node
    BY <1>1, Zenon DEF l
<1>4. [launches[l] EXCEPT !.done = @ + 1] \in Node
    BY <1>3, Counts, Zenon
<1>5. launches' \in [1..Len(launches) -> Node]
    BY <1>1, <1>2, <1>4, Zenon
<1>6. launches' \in Seq(Node) /\ Len(launches') = Len(launches) /\ DOMAIN launches' = DOMAIN launches
    BY <1>1, <1>5, SMTT(30)
<1>7. ASSUME NEW m \in DOMAIN launches
      PROVE  /\ Keeps(m) /\ launches'[m].evals = launches[m].evals
             /\ launches'[m].signals = launches[m].signals
             /\ launches'[m].done = launches[m].done + (IF m = l THEN 1 ELSE 0)
  <2>1. CASE m = l
      BY <1>1, <1>2, <1>3, <1>6, <2>1, Zenon DEF Node, Keeps
  <2>2. CASE m # l
    <3>1. launches'[m] = launches[m] /\ launches[m].done \in Nat
        BY <1>1, <1>2, <2>2, Counts, Zenon
    <3>. QED
        BY <1>6, <2>2, <3>1, SMTT(30) DEF Keeps
  <2>. QED
      BY <2>1, <2>2, Zenon
<1>. QED
    BY <1>1, <1>6, <1>7, Zenon DEF l

\* The queue of the domain loses its first command, the others stay.
LEMMA RunQueues ==
  ASSUME TypeOK, NEW d \in Domains, Run(d)
  PROVE  /\ queues' \in [Domains -> Seq(Command)]
         /\ queues[d] \in Seq(Command) /\ Len(queues[d]) > 0 /\ Head(queues[d]) = queues[d][1]
         /\ 1 \in DOMAIN queues[d] /\ DOMAIN queues[d] = 1..Len(queues[d])
         /\ \A e \in Domains \ {d} : queues'[e] = queues[e]
         /\ queues'[d] = Tail(queues[d]) /\ DOMAIN queues'[d] = 1..(Len(queues[d]) - 1)
         /\ \A k \in DOMAIN queues'[d] :
              k + 1 \in DOMAIN queues[d] /\ queues'[d][k] = queues[d][k + 1]
<1>1. queues \in [Domains -> Seq(Command)] /\ queues[d] \in Seq(Command) /\ queues[d] # <<>>
    BY Zenon DEF TypeOK, Run
<1>2. queues' = [queues EXCEPT ![d] = Tail(queues[d])]
    BY Zenon DEF Run
<1>3. /\ Tail(queues[d]) \in Seq(Command) /\ Len(queues[d]) > 0 /\ Len(queues[d]) \in Nat
      /\ Head(queues[d]) = queues[d][1]
      /\ 1 \in DOMAIN queues[d] /\ DOMAIN queues[d] = 1..Len(queues[d])
      /\ DOMAIN Tail(queues[d]) = 1..(Len(queues[d]) - 1)
      /\ \A k \in 1..(Len(queues[d]) - 1) :
           k + 1 \in DOMAIN queues[d] /\ Tail(queues[d])[k] = queues[d][k + 1]
    BY <1>1, SMTT(30)
<1>4. /\ queues' \in [Domains -> Seq(Command)] /\ queues'[d] = Tail(queues[d])
      /\ \A e \in Domains \ {d} : queues'[e] = queues[e]
    BY <1>1, <1>2, <1>3, Zenon
<1>. QED
    BY <1>1, <1>3, <1>4, Zenon

\* Evaluation appends the launch's command to the queue of its domain.
LEMMA EvalQueues ==
  ASSUME TypeOK, NEW l \in DOMAIN launches, eval_gpu(l)
  PROVE  LET d == launches[l].domain
             cmd == [launch |-> l, waits |-> launches[l].waits, signals |-> launches[l].signals] IN
         /\ queues' \in [Domains -> Seq(Command)] /\ d \in Domains
         /\ \A e \in Domains \ {d} : queues'[e] = queues[e]
         /\ queues[d] \in Seq(Command) /\ DOMAIN queues[d] = 1..Len(queues[d])
         /\ DOMAIN queues'[d] = 1..(Len(queues[d]) + 1)
         /\ \A k \in DOMAIN queues[d] : k \in DOMAIN queues'[d] /\ queues'[d][k] = queues[d][k]
         /\ queues'[d][Len(queues[d]) + 1] = cmd
<1> DEFINE d == launches[l].domain
           cmd == [launch |-> l, waits |-> launches[l].waits, signals |-> launches[l].signals]
<1>1. launches[l] \in Node /\ l \in Nat
    BY SMTT(30) DEF TypeOK
<1>2. d \in Domains /\ cmd \in Command
    BY <1>1, Counts, Zenon DEF Command
<1>3. queues \in [Domains -> Seq(Command)]
    BY Zenon DEF TypeOK
<1>4. queues' = [queues EXCEPT ![d] = Append(queues[d], cmd)]
    BY Zenon DEF eval_gpu
<1> HIDE DEF d, cmd
<1>5. queues[d] \in Seq(Command)
    BY <1>2, <1>3, Zenon
<1>6. /\ Append(queues[d], cmd) \in Seq(Command) /\ DOMAIN queues[d] = 1..Len(queues[d])
      /\ DOMAIN Append(queues[d], cmd) = 1..(Len(queues[d]) + 1)
      /\ \A k \in DOMAIN queues[d] :
           k \in 1..(Len(queues[d]) + 1) /\ Append(queues[d], cmd)[k] = queues[d][k]
      /\ Append(queues[d], cmd)[Len(queues[d]) + 1] = cmd
    BY <1>2, <1>5, SMTT(30)
<1>7. /\ queues' \in [Domains -> Seq(Command)] /\ queues'[d] = Append(queues[d], cmd)
      /\ \A e \in Domains \ {d} : queues'[e] = queues[e]
    BY <1>2, <1>3, <1>4, <1>6, Zenon
<1>. QED
    BY <1>2, <1>5, <1>6, <1>7, Zenon DEF d, cmd

\* A lookup evicts records of dead arrays only.
LEMMA Evictions ==
  ASSUME producers \in [Ids -> Nat], NEW ns
  PROVE  /\ EvictStale(ns) \in [Ids -> Nat]
         /\ \A i \in Ids : EvictStale(ns)[i] \in {0, producers[i]}
         /\ \A i \in Ids : producers[i] \in Alive => EvictStale(ns)[i] = producers[i]
BY Zenon DEF EvictStale

\* A live output is found: what reads it in another domain depends on it.
LEMMA InputsFound ==
  ASSUME TypeOK, RegistryExact, NEW ins \in SUBSET Alive, NEW d,
         NEW p \in {arrays[n].launch : n \in ins} \ {0}, launches[p].domain # d
  PROVE  p \in Cross(ins, d)
<1>1. PICK n \in ins : p = arrays[n].launch /\ p # 0
    BY ZenonT(40)
<1>2. _lookup_producer(n) = p
    BY <1>1, Zenon DEF RegistryExact, _lookup_producer
<1>3. ~ _can_use_borrowed_no_wait(ins)
    BY <1>1, <1>2, Zenon DEF _can_use_borrowed_no_wait
<1>. QED
    BY <1>1, <1>2, <1>3, Zenon DEF Cross, _planned_launch_dependencies
----------------------------------------------------------------------------
(* The registry and the waits. *)

\* Nothing is registered at first.
LEMMA RegistryInit == Init => RegistryInv
<1> SUFFICES ASSUME Init PROVE RegistryInv
    BY ZenonT(40)
<1>1. TypeOK
    BY SMTT(30) DEF Init, TypeOK
<1>2. Alive = {} /\ DOMAIN arrays = {} /\ DOMAIN launches = {} /\ finalizers = {}
    BY SMTT(30) DEF Init, Alive
<1>3. \A i \in Ids : producers[i] = 0
    BY Zenon DEF Init
<1>. QED
    BY <1>1, <1>2, <1>3, Zenon DEF RegistryInv, Refs, OneLivePerId, Records, RegistryExact,
       WaitsAreInputs, CrossWaits, SignalsOwn

\* Python creates a plain array.
LEMMA NewArrayStep ==
  ASSUME RegistryInv, NEW i \in Ids, NewArray(i)
  PROVE  RegistryInv'
<1> DEFINE a == [id |-> i, launch |-> 0, alive |-> TRUE]
           k == Len(arrays) + 1
<1>1. arrays \in Seq(Array) /\ a \in Array /\ a.alive /\ arrays' = Append(arrays, a)
    BY Zenon DEF RegistryInv, TypeOK, NewArray, Array
<1>2. UNCHANGED <<producers, finalizers, launches, queues, events>>
    BY Zenon DEF NewArray
<1>3. /\ arrays' \in Seq(Array) /\ DOMAIN arrays' = 1..k /\ DOMAIN arrays = 1..Len(arrays)
      /\ \A n \in DOMAIN arrays : n \in DOMAIN arrays' /\ arrays'[n] = arrays[n]
      /\ arrays'[k] = a
      /\ Alive' = Alive \cup {k} /\ k \notin Alive
      /\ Alive \subseteq DOMAIN arrays
      /\ k \notin DOMAIN arrays /\ DOMAIN arrays' = DOMAIN arrays \cup {k}
    BY <1>1, AddArray, ArrayFields, SMTT(30)
<1>4. a.id = i /\ a.launch = 0 /\ \A n \in Alive : arrays[n].id # i
    BY Zenon DEF NewArray, FreeIds
<1> HIDE DEF a, k
<1>5. TypeOK'
    BY <1>2, <1>3, Zenon DEF RegistryInv, TypeOK
<1>6. Refs'
  <2>1. launches' = launches /\ 0 \in 0..Len(launches)
      BY <1>2, SMTT(30) DEF RegistryInv, TypeOK
  <2>. QED
      BY <1>2, <1>3, <1>4, <2>1, ZenonT(40) DEF RegistryInv, Refs
<1>7. OneLivePerId'
    BY <1>3, <1>4, SMTT(30) DEF RegistryInv, OneLivePerId
<1>8. Records'
    BY <1>2, <1>3, SMTT(30) DEF RegistryInv, Records
<1>9. RegistryExact'
    BY <1>2, <1>3, <1>4, SMTT(30) DEF RegistryInv, RegistryExact
<1>10. WaitsAreInputs' /\ CrossWaits' /\ SignalsOwn'
    BY <1>2, Zenon DEF RegistryInv, WaitsAreInputs, CrossWaits, SignalsOwn
<1>. QED
    BY <1>5, <1>6, <1>7, <1>8, <1>9, <1>10, ZenonT(40) DEF RegistryInv

\* An array dies.
LEMMA DropStep ==
  ASSUME RegistryInv, NEW n \in DOMAIN arrays, Drop(n)
  PROVE  RegistryInv'
<1>1. arrays \in Seq(Array) /\ arrays' = [arrays EXCEPT ![n].alive = FALSE]
    BY Zenon DEF RegistryInv, TypeOK, Drop
<1>2. /\ UNCHANGED <<producers, launches, queues, events>> /\ n \in Alive
      /\ finalizers' = IF arrays[n].launch # 0 THEN finalizers \cup {n} ELSE finalizers
    BY Zenon DEF Drop
<1>3. /\ arrays' \in Seq(Array) /\ DOMAIN arrays' = DOMAIN arrays
      /\ \A m \in DOMAIN arrays :
           arrays'[m].id = arrays[m].id /\ arrays'[m].launch = arrays[m].launch
      /\ Alive' = Alive \ {n} /\ Alive \subseteq DOMAIN arrays /\ DOMAIN arrays = 1..Len(arrays)
    BY <1>1, KillArray, ArrayFields, Zenon
<1>5. TypeOK'
  <2>1. n \in Nat
      BY <1>3, SMTT(30)
  <2>2. finalizers' \subseteq Nat
      BY <1>2, <2>1, Zenon DEF RegistryInv, TypeOK
  <2>. QED
      BY <1>2, <1>3, <2>2, Zenon DEF RegistryInv, TypeOK
<1>6. Refs'
    BY <1>2, <1>3, Zenon DEF RegistryInv, Refs
<1>7. OneLivePerId'
    BY <1>3, SMTT(30) DEF RegistryInv, OneLivePerId
<1>8. Records'
    BY <1>2, <1>3, Zenon DEF RegistryInv, Records
<1>9. RegistryExact'
    BY <1>2, <1>3, SMTT(30) DEF RegistryInv, RegistryExact, Records
<1>10. WaitsAreInputs' /\ CrossWaits' /\ SignalsOwn'
    BY <1>2, Zenon DEF RegistryInv, WaitsAreInputs, CrossWaits, SignalsOwn
<1>. QED
    BY <1>5, <1>6, <1>7, <1>8, <1>9, <1>10, Zenon DEF RegistryInv

\* The weakref callback of a dead array runs.
LEMMA FinalizeStep ==
  ASSUME RegistryInv, NEW n \in DOMAIN arrays, Finalize(n)
  PROVE  RegistryInv'
<1>1. /\ n \in finalizers /\ finalizers' = finalizers \ {n} /\ producers' = remove(n)
      /\ UNCHANGED <<arrays, launches, queues, events>> /\ Alive' = Alive
    BY Zenon DEF Finalize, Alive
<1>2. /\ producers \in [Ids -> Nat] /\ arrays[n].id \in Ids /\ n \notin Alive
      /\ n # 0 /\ Alive \subseteq DOMAIN arrays
      /\ \A m \in Alive : arrays[m].id \in Ids
    BY <1>1, ArrayFields, SMTT(30) DEF RegistryInv, TypeOK, Refs
<1>3. /\ producers' \in [Ids -> Nat]
      /\ \A i \in Ids : producers'[i] = IF i = arrays[n].id /\ producers[i] = n THEN 0 ELSE producers[i]
    BY <1>1, <1>2, Zenon DEF remove
<1>5. TypeOK'
    BY <1>1, <1>3, Zenon DEF RegistryInv, TypeOK
<1>6. Refs'
    BY <1>1, Zenon DEF RegistryInv, Refs
<1>7. OneLivePerId'
    BY <1>1, ZenonT(40) DEF RegistryInv, OneLivePerId
<1>8. Records'
    BY <1>1, <1>3, Zenon DEF RegistryInv, Records
<1>9. RegistryExact'
    BY <1>1, <1>2, <1>3, SMTT(30) DEF RegistryInv, RegistryExact, Records
<1>10. WaitsAreInputs' /\ CrossWaits' /\ SignalsOwn'
    BY <1>1, Zenon DEF RegistryInv, WaitsAreInputs, CrossWaits, SignalsOwn
<1>. QED
    BY <1>5, <1>6, <1>7, <1>8, <1>9, <1>10, Zenon DEF RegistryInv

\* Facts about the registry after a lookup of live arrays: no live record is lost.
LEMMA EvictionKeeps ==
  ASSUME RegistryInv, NEW ns
  PROVE  /\ EvictStale(ns) \in [Ids -> Nat]
         /\ \A i \in Ids : EvictStale(ns)[i] # 0 =>
              /\ EvictStale(ns)[i] = producers[i] /\ EvictStale(ns)[i] \in DOMAIN arrays
              /\ arrays[EvictStale(ns)[i]].id = i /\ arrays[EvictStale(ns)[i]].launch # 0
         /\ \A n \in Alive : arrays[n].launch # 0 => EvictStale(ns)[arrays[n].id] = n
         /\ \A i \in Ids : EvictStale(ns)[i] \in Alive \cup finalizers \cup {0}
<1>1. producers \in [Ids -> Nat] /\ \A n \in Alive : arrays[n].id \in Ids
    BY ArrayFields, Zenon DEF RegistryInv, TypeOK
<1>. QED
    BY <1>1, Evictions, SMTT(30) DEF RegistryInv, Records, RegistryExact

\* A launch is planned, created and registered.
LEMMA LaunchStep ==
  ASSUME RegistryInv, NEW ins \in SUBSET Alive, NEW d \in Domains, NEW i \in Ids, Launch(ins, d, i)
  PROVE  RegistryInv'
<1> DEFINE c == Len(launches) + 1
           a == [id |-> i, launch |-> c, alive |-> TRUE]
           k == Len(arrays) + 1
           node == [domain |-> d, inputs |-> {arrays[n].launch : n \in ins} \ {0},
                    waits |-> {<<p, c>> : p \in Cross(ins, d)}, late |-> LateEdges(Cross(ins, d), c),
                    signals |-> {}, evals |-> 0, done |-> 0]
<1>1. arrays \in Seq(Array) /\ a \in Array /\ a.alive /\ arrays' = Append(arrays, a) /\ c \in Nat
  <2>1. c \in Nat
      BY SMTT(30) DEF RegistryInv, TypeOK
  <2>. QED
      BY <2>1, Zenon DEF RegistryInv, TypeOK, Launch, Array
<1>2. /\ producers' = [EvictStale(ins) EXCEPT ![i] = k]
      /\ UNCHANGED <<finalizers, queues, events>>
    BY Zenon DEF Launch
<1>3. /\ arrays' \in Seq(Array) /\ DOMAIN arrays' = 1..k /\ DOMAIN arrays = 1..Len(arrays)
      /\ \A n \in DOMAIN arrays : n \in DOMAIN arrays' /\ arrays'[n] = arrays[n]
      /\ arrays'[k] = a
      /\ Alive' = Alive \cup {k} /\ k \notin Alive /\ k \in Nat
      /\ Alive \subseteq DOMAIN arrays
      /\ k \notin DOMAIN arrays /\ DOMAIN arrays' = DOMAIN arrays \cup {k}
    BY <1>1, AddArray, ArrayFields, SMTT(30)
<1>4. a.id = i /\ a.launch = c /\ c # 0 /\ \A n \in Alive : arrays[n].id # i
    BY <1>1, SMTT(30) DEF Launch, FreeIds
<1>5. /\ launches' \in Seq(Node) /\ Len(launches') = c /\ Len(launches) \in Nat
      /\ DOMAIN launches = 1..Len(launches) /\ DOMAIN launches' = 1..c
      /\ \A l \in DOMAIN launches :
           /\ Keeps(l)
           /\ launches'[l].signals =
                launches[l].signals \cup (IF l \in Cross(ins, d) THEN {<<l, c>>} ELSE {})
      /\ launches'[c] = node
  <2>1. TypeOK /\ Len(launches) \in Nat
      BY SMTT(30) DEF RegistryInv, TypeOK
  <2>. QED
      BY <2>1, LaunchNodes, ZenonT(120)
<1>6. /\ node.domain = d /\ node.inputs = {arrays[n].launch : n \in ins} \ {0}
      /\ node.waits = {<<p, c>> : p \in Cross(ins, d)} /\ node.signals = {}
    BY Zenon
<1>7. node.inputs \subseteq 1..Len(launches) /\ Cross(ins, d) \subseteq node.inputs
  <2>1. \A n \in ins : arrays[n].launch \in 0..Len(launches)
      BY <1>3, Zenon DEF RegistryInv, Refs
  <2>2. Cross(ins, d) \subseteq node.inputs
      BY <1>6, Dependencies, Zenon DEF Cross
  <2>. QED
      BY <1>5, <1>6, <2>1, <2>2, SMTT(30)
<1> HIDE DEF a, k, node
<1>8. /\ producers' \in [Ids -> Nat] /\ producers'[i] = k
      /\ \A j \in Ids \ {i} : producers'[j] = EvictStale(ins)[j]
    BY <1>2, <1>3, EvictionKeeps, ZenonT(120)
<1>9. TypeOK'
    BY <1>2, <1>3, <1>5, <1>8, Zenon DEF RegistryInv, TypeOK
<1>10. Refs'
  <2>1. \A n \in DOMAIN arrays' : arrays'[n].launch \in 0..Len(launches')
      BY <1>1, <1>3, <1>4, <1>5, SMTT(30) DEF RegistryInv, Refs
  <2>2. \A l \in DOMAIN launches' : launches'[l].inputs \subseteq 1..(l - 1)
      BY <1>5, <1>7, SMTT(30) DEF RegistryInv, Refs, Keeps
  <2>3. finalizers' \subseteq DOMAIN arrays' \ Alive'
      BY <1>2, <1>3, Zenon DEF RegistryInv, Refs
  <2>. QED
      BY <2>1, <2>2, <2>3, Zenon DEF Refs
<1>11. OneLivePerId'
    BY <1>3, <1>4, SMTT(30) DEF RegistryInv, OneLivePerId
<1>12. Records'
    BY <1>3, <1>4, <1>8, EvictionKeeps, SMTT(30) DEF Records
<1>13. RegistryExact'
  <2>1. \A n \in Alive' : arrays'[n].launch # 0 => producers'[arrays'[n].id] = n
    <3>1. \A n \in Alive : arrays'[n] = arrays[n] /\ arrays[n].id \in Ids \ {i}
        BY <1>3, <1>4, ArrayFields, <1>1, Zenon
    <3>2. \A n \in Alive : arrays'[n].launch # 0 => producers'[arrays'[n].id] = n
        BY <1>8, <3>1, EvictionKeeps, SMTT(30)
    <3>. QED
        BY <1>3, <1>4, <1>8, <3>2, Zenon
  <2>2. \A j \in Ids : producers'[j] \in Alive' \cup finalizers' \cup {0}
      BY <1>2, <1>3, <1>8, EvictionKeeps, SMTT(30)
  <2>. QED
      BY <2>1, <2>2, Zenon DEF RegistryExact
<1>14. WaitsAreInputs'
  <2>1. \A l \in DOMAIN launches : launches'[l].waits \subseteq {<<p, l>> : p \in launches'[l].inputs}
      BY <1>5, Zenon DEF RegistryInv, WaitsAreInputs, Keeps
  <2>2. launches'[c].waits \subseteq {<<p, c>> : p \in launches'[c].inputs}
      BY <1>5, <1>6, <1>7, SMTT(30)
  <2>3. DOMAIN launches' = DOMAIN launches \cup {c}
      BY <1>5, SMTT(30)
  <2>. QED
      BY <2>1, <2>2, <2>3, Zenon DEF WaitsAreInputs
<1>15. CrossWaits'
  <2>1. ASSUME NEW l \in DOMAIN launches, NEW p \in launches'[l].inputs
        PROVE  launches'[p].domain = launches'[l].domain \/ <<p, l>> \in launches'[l].waits
    <3>1. p \in launches[l].inputs /\ p \in DOMAIN launches
        BY <1>5, <2>1, SMTT(30) DEF Keeps, RegistryInv, Refs
    <3>. QED
        BY <1>5, <3>1, Zenon DEF RegistryInv, CrossWaits, Keeps
  <2>2. ASSUME NEW p \in node.inputs
        PROVE  launches'[p].domain = node.domain \/ <<p, c>> \in node.waits
    <3>1. p \in DOMAIN launches
        BY <1>5, <1>7, Zenon
    <3>2. launches'[p].domain = launches[p].domain
        BY <1>5, <3>1, Zenon DEF Keeps
    <3>3. launches[p].domain = d \/ p \in Cross(ins, d)
        BY <1>6, InputsFound, Zenon DEF RegistryInv
    <3>. QED
        BY <1>6, <3>2, <3>3, Zenon
  <2>3. DOMAIN launches' = DOMAIN launches \cup {c}
      BY <1>5
  <2>. QED
      BY <1>5, <2>1, <2>2, <2>3, Zenon DEF CrossWaits
<1>16. SignalsOwn'
  <2>1. \A l \in DOMAIN launches : launches'[l].signals \subseteq {l} \X Nat
      BY <1>1, <1>5, SMTT(30) DEF RegistryInv, SignalsOwn
  <2>2. launches'[c].signals = {} /\ DOMAIN launches' = DOMAIN launches \cup {c}
      BY <1>5, <1>6, SMTT(30)
  <2>. QED
      BY <2>1, <2>2, Zenon DEF SignalsOwn
<1>. QED
    BY <1>9, <1>10, <1>11, <1>12, <1>13, <1>14, <1>15, <1>16, Zenon DEF RegistryInv

\* Steps that keep what a launch was created with keep the facts about it.
LEMMA WaitsKept ==
  ASSUME RegistryInv, DOMAIN launches' = DOMAIN launches, DOMAIN launches = 1..Len(launches),
         \A l \in DOMAIN launches : Keeps(l)
  PROVE  WaitsAreInputs' /\ CrossWaits' /\ \A l \in DOMAIN launches' : launches'[l].inputs \subseteq 1..(l - 1)
<1>1. \A l \in DOMAIN launches : launches'[l].inputs \subseteq 1..(l - 1)
    BY Zenon DEF RegistryInv, Refs, Keeps
<1>2. \A l \in DOMAIN launches : launches[l].inputs \subseteq DOMAIN launches
    BY SMTT(30) DEF RegistryInv, Refs
<1>3. WaitsAreInputs'
    BY Zenon DEF RegistryInv, WaitsAreInputs, Keeps
<1>4. CrossWaits'
    BY <1>2, Zenon DEF RegistryInv, CrossWaits, Keeps
<1>. QED
    BY <1>1, <1>3, <1>4, Zenon

\* A dependency cannot be planned.
LEMMA LaunchFailsStep ==
  ASSUME RegistryInv, NEW ins \in SUBSET Alive, NEW d \in Domains, LaunchFails(ins, d)
  PROVE  RegistryInv'
<1>1. /\ producers' = EvictStale(ins) /\ UNCHANGED <<arrays, finalizers, queues, events>>
      /\ Alive' = Alive
    BY ZenonT(40) DEF LaunchFails, Alive
<1>2. /\ launches' \in Seq(Node) /\ Len(launches') = Len(launches)
      /\ DOMAIN launches' = DOMAIN launches /\ DOMAIN launches = 1..Len(launches)
      /\ \A l \in DOMAIN launches :
           Keeps(l) /\ launches'[l].signals \subseteq launches[l].signals \cup {<<l, 0>>}
    BY FailNodes, Zenon DEF RegistryInv
<1>3. /\ WaitsAreInputs' /\ CrossWaits'
      /\ \A l \in DOMAIN launches' : launches'[l].inputs \subseteq 1..(l - 1)
    BY <1>2, WaitsKept, Zenon
<1>4. TypeOK'
    BY <1>1, <1>2, EvictionKeeps, Zenon DEF RegistryInv, TypeOK
<1>5. Refs'
    BY <1>1, <1>2, <1>3, Zenon DEF RegistryInv, Refs
<1>6. OneLivePerId'
    BY <1>1, Zenon DEF RegistryInv, OneLivePerId
<1>7. Records'
    BY <1>1, EvictionKeeps, Zenon DEF Records
<1>8. RegistryExact'
    BY <1>1, EvictionKeeps, ZenonT(120) DEF RegistryExact
<1>9. SignalsOwn'
    BY <1>2, SMTT(30) DEF RegistryInv, SignalsOwn
<1>. QED
    BY <1>3, <1>4, <1>5, <1>6, <1>7, <1>8, <1>9, Zenon DEF RegistryInv

\* MLX evaluates a node.
LEMMA EvalStep ==
  ASSUME RegistryInv, NEW l \in DOMAIN launches, eval_gpu(l)
  PROVE  RegistryInv'
<1>1. UNCHANGED <<arrays, producers, finalizers, events>> /\ Alive' = Alive
    BY Zenon DEF eval_gpu, Alive
<1>2. /\ launches' \in Seq(Node) /\ Len(launches') = Len(launches)
      /\ DOMAIN launches' = DOMAIN launches /\ DOMAIN launches = 1..Len(launches)
      /\ \A m \in DOMAIN launches : Keeps(m) /\ launches'[m].signals = launches[m].signals
    BY EvalNodes, Zenon DEF RegistryInv
<1>3. /\ WaitsAreInputs' /\ CrossWaits'
      /\ \A m \in DOMAIN launches' : launches'[m].inputs \subseteq 1..(m - 1)
    BY <1>2, WaitsKept, Zenon
<1>4. queues' \in [Domains -> Seq(Command)]
    BY EvalQueues, Zenon DEF RegistryInv
<1>5. TypeOK' /\ Refs' /\ OneLivePerId' /\ Records' /\ RegistryExact' /\ SignalsOwn'
    BY <1>1, <1>2, <1>3, <1>4, ZenonT(40)
       DEF RegistryInv, TypeOK, Refs, OneLivePerId, Records, RegistryExact, SignalsOwn
<1>. QED
    BY <1>3, <1>5, Zenon DEF RegistryInv

\* The GPU runs a command.
LEMMA RunStep ==
  ASSUME RegistryInv, QueuesOK, NEW d \in Domains, Run(d)
  PROVE  RegistryInv' /\ Head(queues[d]).launch \in DOMAIN launches
<1>1. UNCHANGED <<arrays, producers, finalizers>> /\ Alive' = Alive
      /\ events' = events \cup Head(queues[d]).signals
    BY Zenon DEF Run, Alive
<1>2. /\ queues' \in [Domains -> Seq(Command)] /\ queues[d] \in Seq(Command)
      /\ Head(queues[d]) = queues[d][1] /\ 1 \in DOMAIN queues[d]
    BY RunQueues, Zenon DEF RegistryInv
<1>3. Head(queues[d]).launch \in DOMAIN launches /\ Head(queues[d]).signals \subseteq Edge
  <2>1. queues[d][1] \in Command
      BY <1>2, SMTT(30)
  <2>. QED
      BY <1>2, <2>1, ZenonT(40) DEF QueuesOK, Command
<1>4. /\ launches' \in Seq(Node) /\ Len(launches') = Len(launches)
      /\ DOMAIN launches' = DOMAIN launches /\ DOMAIN launches = 1..Len(launches)
      /\ \A m \in DOMAIN launches : Keeps(m) /\ launches'[m].signals = launches[m].signals
    BY <1>3, RunNodes, Zenon DEF RegistryInv
<1>5. /\ WaitsAreInputs' /\ CrossWaits'
      /\ \A m \in DOMAIN launches' : launches'[m].inputs \subseteq 1..(m - 1)
    BY <1>4, WaitsKept, Zenon
<1>6. TypeOK' /\ Refs' /\ OneLivePerId' /\ Records' /\ RegistryExact' /\ SignalsOwn'
    BY <1>1, <1>2, <1>3, <1>4, <1>5, ZenonT(40)
       DEF RegistryInv, TypeOK, Refs, OneLivePerId, Records, RegistryExact, SignalsOwn
<1>. QED
    BY <1>3, <1>5, <1>6, Zenon DEF RegistryInv

----------------------------------------------------------------------------
(* The queues and the events. *)

\* What Launch and LaunchFails leave alone: the old launches' creation and counts.
Quiet ==
  /\ queues' = queues /\ events' = events
  /\ \A l \in DOMAIN launches :
       /\ Keeps(l) /\ launches'[l].evals = launches[l].evals /\ launches'[l].done = launches[l].done
       /\ launches[l].signals \subseteq launches'[l].signals
  /\ \A l \in DOMAIN launches' \ DOMAIN launches :
       /\ launches'[l].evals = 0 /\ launches'[l].done = 0
       /\ launches'[l].inputs \subseteq DOMAIN launches

\* Only eval_gpu and the queues change nodes, queues or events.
LEMMA QuietSteps ==
  ASSUME RegistryInv
  PROVE  /\ \A i \in Ids : NewArray(i) => Quiet
         /\ \A n : Drop(n) \/ Finalize(n) => Quiet
         /\ \A ins \in SUBSET Alive, d \in Domains :
              (LaunchFails(ins, d) \/ \E i \in Ids : Launch(ins, d, i)) => Quiet
         /\ UNCHANGED vars => Quiet
<1>1. UNCHANGED <<launches, queues, events>> => Quiet
    BY Zenon DEF Quiet, Keeps
<1>2. ASSUME NEW ins \in SUBSET Alive, NEW d \in Domains, LaunchFails(ins, d)
      PROVE  Quiet
    BY <1>2, FailNodes, Zenon DEF Quiet, RegistryInv, LaunchFails
<1>3. ASSUME NEW ins \in SUBSET Alive, NEW d \in Domains, NEW i \in Ids, Launch(ins, d, i)
      PROVE  Quiet
  <2> DEFINE c == Len(launches) + 1
             node == [domain |-> d, inputs |-> {arrays[n].launch : n \in ins} \ {0},
                      waits |-> {<<p, c>> : p \in Cross(ins, d)}, late |-> LateEdges(Cross(ins, d), c),
                      signals |-> {}, evals |-> 0, done |-> 0]
  <2>1. /\ DOMAIN launches = 1..Len(launches) /\ DOMAIN launches' = 1..c
        /\ \A l \in DOMAIN launches :
             /\ Keeps(l)
             /\ launches'[l].evals = launches[l].evals /\ launches'[l].done = launches[l].done
             /\ launches[l].signals \subseteq launches'[l].signals
        /\ launches'[c] = node
    <3>1. TypeOK
        BY Zenon DEF RegistryInv
    <3>2. /\ DOMAIN launches = 1..Len(launches) /\ DOMAIN launches' = 1..c
          /\ \A l \in DOMAIN launches :
               /\ Keeps(l)
               /\ launches'[l].evals = launches[l].evals /\ launches'[l].done = launches[l].done
               /\ launches'[l].signals =
                   launches[l].signals \cup (IF l \in Cross(ins, d) THEN {<<l, c>>} ELSE {})
          /\ launches'[c] = node
        BY <1>3, <3>1, LaunchNodes, ZenonT(40)
    <3>. QED
        BY <3>2, Zenon
  <2>2. node.evals = 0 /\ node.done = 0 /\ node.inputs = {arrays[n].launch : n \in ins} \ {0}
      BY Zenon
  <2>3. node.inputs \subseteq DOMAIN launches
    <3>1. \A n \in ins : arrays[n].launch \in 0..Len(launches)
        BY ArrayFields, Zenon DEF RegistryInv, Refs, TypeOK
    <3>. QED
        BY <2>1, <2>2, <3>1, SMTT(30)
  <2> HIDE DEF node
  <2>4. queues' = queues /\ events' = events
      BY <1>3, Zenon DEF Launch
  <2>5. Len(launches) \in Nat
      BY SMTT(30) DEF RegistryInv, TypeOK
  <2>6. DOMAIN launches' \ DOMAIN launches = {c}
      BY <2>1, <2>5, SMTT(30)
  <2>. QED
      BY <2>1, <2>2, <2>3, <2>4, <2>6, Zenon DEF Quiet
<1>. QED
    BY <1>1, <1>2, <1>3, Zenon DEF NewArray, Drop, Finalize, vars

\* The fields of the nodes have their types.
LEMMA NodeFields ==
  ASSUME launches \in Seq(Node)
  PROVE  /\ DOMAIN launches = 1..Len(launches) /\ Len(launches) \in Nat
         /\ \A l \in DOMAIN launches :
              /\ launches[l].evals \in Nat /\ launches[l].done \in Nat
              /\ launches[l].domain \in Domains
<1>1. DOMAIN launches = 1..Len(launches) /\ Len(launches) \in Nat
      /\ \A l \in DOMAIN launches : launches[l] \in Node
    BY SMTT(30)
<1>. QED
    BY <1>1, Counts, Zenon

\* What Python does with the graph leaves what is encoded, and the events, in order.
LEMMA QuietFlow ==
  ASSUME FlowInv, Quiet
  PROVE  QueuesOK' /\ InputsFirst' /\ EventsRan'
<1>1. QueuesOK'
    BY SMTT(30) DEF FlowInv, QueuesOK, Quiet, Keeps
<1>2. InputsFirst'
  <2>1. \A l \in DOMAIN launches : launches[l].evals \in Nat /\ launches[l].inputs \subseteq DOMAIN launches
      BY NodeFields, SMTT(30) DEF FlowInv, RegistryInv, TypeOK, Refs
  <2>2. \A c \in DOMAIN launches : \A p \in launches'[c].inputs : launches'[c].evals <= launches'[p].evals
      BY <2>1, Zenon DEF FlowInv, InputsFirst, Quiet, Keeps
  <2>3. \A c \in DOMAIN launches' \ DOMAIN launches : \A p \in launches'[c].inputs :
          launches'[c].evals <= launches'[p].evals
      BY <2>1, SMTT(30) DEF Quiet
  <2>. QED
      BY <2>2, <2>3, Zenon DEF InputsFirst
<1>3. EventsRan'
    BY Zenon DEF FlowInv, EventsRan, Quiet, Keeps
<1>. QED
    BY <1>1, <1>2, <1>3, ZenonT(40)

\* An evaluation appends its command behind those of its inputs.
LEMMA EvalFlow ==
  ASSUME FlowInv, NEW l \in DOMAIN launches, eval_gpu(l)
  PROVE  QueuesOK' /\ InputsFirst' /\ EventsRan'
<1> DEFINE d == launches[l].domain
           cmd == [launch |-> l, waits |-> launches[l].waits, signals |-> launches[l].signals]
           k == Len(queues[d]) + 1
<1>1. TypeOK /\ SignalsOwn /\ Refs
    BY Zenon DEF FlowInv, RegistryInv
<1>2. /\ DOMAIN launches' = DOMAIN launches
      /\ \A m \in DOMAIN launches :
           /\ Keeps(m) /\ launches'[m].done = launches[m].done
           /\ launches'[m].evals = launches[m].evals + (IF m = l THEN 1 ELSE 0)
           /\ launches[m].evals \in Nat
    BY <1>1, EvalNodes, NodeFields, Zenon DEF TypeOK
<1>3. /\ \A e \in Domains \ {d} : queues'[e] = queues[e]
      /\ queues[d] \in Seq(Command) /\ DOMAIN queues[d] = 1..Len(queues[d]) /\ DOMAIN queues'[d] = 1..k
      /\ \A j \in DOMAIN queues[d] : j \in DOMAIN queues'[d] /\ queues'[d][j] = queues[d][j]
      /\ queues'[d][k] = cmd
    BY <1>1, EvalQueues, Zenon
<1>4. cmd.launch = l /\ cmd.waits = launches[l].waits /\ cmd.signals = launches[l].signals
    BY Zenon
<1>5. DOMAIN queues'[d] = DOMAIN queues[d] \cup {k}
    BY <1>3, SMTT(30)
<1>6. events' = events /\ \A p \in launches[l].inputs : launches[p].evals > launches[l].evals
    BY ZenonT(40) DEF eval_gpu
<1> HIDE DEF cmd, k, d
<1>7. QueuesOK'
  <2>1. ASSUME NEW e \in Domains, NEW j \in DOMAIN queues[e]
        PROVE  LET c == queues[e][j] IN
               /\ c.launch \in DOMAIN launches' /\ launches'[c.launch].domain = e
               /\ launches'[c.launch].evals > 0 /\ c.waits = launches'[c.launch].waits
               /\ c.signals \subseteq {c.launch} \X Nat
      BY <1>2, <2>1, SMTT(30) DEF FlowInv, QueuesOK, Keeps
  <2>2. /\ cmd.launch \in DOMAIN launches' /\ launches'[cmd.launch].domain = d
        /\ launches'[cmd.launch].evals > 0 /\ cmd.waits = launches'[cmd.launch].waits
        /\ cmd.signals \subseteq {cmd.launch} \X Nat
      BY <1>1, <1>2, <1>4, SMTT(30) DEF Keeps, SignalsOwn, d
  <2>3. \A e \in Domains : \A i \in DOMAIN queues'[e] :
          \/ \E j \in DOMAIN queues[e] : queues'[e][i] = queues[e][j]
          \/ e = d /\ queues'[e][i] = cmd
      BY <1>3, <1>5, Zenon
  <2>. QED
      BY <2>1, <2>2, <2>3, SMTT(30) DEF QueuesOK
<1>8. InputsFirst'
  <2>1. \A c \in DOMAIN launches : launches[c].inputs \subseteq DOMAIN launches /\ c \notin launches[c].inputs
      BY <1>1, NodeFields, SMTT(30) DEF Refs, TypeOK
  <2>. QED
      BY <1>2, <1>6, <2>1, SMTT(30) DEF FlowInv, InputsFirst, Keeps
<1>9. EventsRan'
    BY <1>2, <1>6, Zenon DEF FlowInv, EventsRan
<1>. QED
    BY <1>7, <1>8, <1>9, Zenon

\* A queue runs its commands in order.
LEMMA RunFlow ==
  ASSUME FlowInv, NEW d \in Domains, Run(d)
  PROVE  QueuesOK' /\ InputsFirst' /\ EventsRan'
<1> DEFINE cmd == Head(queues[d])
<1>1. TypeOK /\ cmd.launch \in DOMAIN launches
    BY RunStep, Zenon DEF FlowInv, RegistryInv
<1>2. /\ DOMAIN launches' = DOMAIN launches
      /\ \A m \in DOMAIN launches :
           /\ Keeps(m) /\ launches'[m].evals = launches[m].evals
           /\ launches'[m].done = launches[m].done + (IF m = cmd.launch THEN 1 ELSE 0)
           /\ launches[m].done \in Nat
    BY <1>1, RunNodes, NodeFields, Zenon DEF TypeOK
<1>3. /\ cmd = queues[d][1] /\ 1 \in DOMAIN queues[d]
      /\ \A e \in Domains \ {d} : queues'[e] = queues[e]
      /\ \A k \in DOMAIN queues'[d] :
           k + 1 \in DOMAIN queues[d] /\ queues'[d][k] = queues[d][k + 1]
    BY <1>1, RunQueues, Zenon
<1>4. events' = events \cup cmd.signals
    BY ZenonT(40) DEF Run
<1> HIDE DEF cmd
<1>5. ASSUME NEW e \in Domains, NEW j \in DOMAIN queues[e]
      PROVE  LET c == queues[e][j] IN
             /\ c.launch \in DOMAIN launches' /\ launches'[c.launch].domain = e
             /\ launches'[c.launch].evals > 0 /\ c.waits = launches'[c.launch].waits
             /\ c.signals \subseteq {c.launch} \X Nat
  <2>1. LET c == queues[e][j] IN
        /\ c.launch \in DOMAIN launches /\ launches[c.launch].domain = e
        /\ launches[c.launch].evals > 0 /\ c.waits = launches[c.launch].waits
        /\ c.signals \subseteq {c.launch} \X Nat
      BY <1>5, ZenonT(40) DEF FlowInv, QueuesOK
  <2>. QED
      BY <1>2, <2>1, ZenonT(40) DEF Keeps
<1>6. QueuesOK'
  <2>1. \A e \in Domains : \A k \in DOMAIN queues'[e] :
          \E j \in DOMAIN queues[e] : queues'[e][k] = queues[e][j]
      BY <1>3, Zenon
  <2>. QED
      BY <1>5, <2>1, SMTT(30) DEF QueuesOK
<1>7. InputsFirst'
  <2>1. \A c \in DOMAIN launches : launches[c].inputs \subseteq DOMAIN launches
      BY <1>1, NodeFields, SMTT(30) DEF Refs, TypeOK, FlowInv, RegistryInv
  <2>. QED
      BY <1>2, <2>1, SMTT(30) DEF FlowInv, InputsFirst, Keeps
<1>8. EventsRan'
  <2>1. \A e \in cmd.signals : e[1] = cmd.launch
      BY <1>3, <1>5, ZenonT(40)
  <2>2. launches'[cmd.launch].done > 0
      BY <1>1, <1>2, SMTT(30)
  <2>3. \A e \in events : e[1] \in DOMAIN launches' /\ launches'[e[1]].done > 0
      BY <1>2, SMTT(30) DEF FlowInv, EventsRan
  <2>. QED
      BY <1>1, <1>2, <1>4, <2>1, <2>2, <2>3, ZenonT(40) DEF EventsRan
<1>. QED
    BY <1>6, <1>7, <1>8, Zenon

\* Every step preserves the order of the queues.
LEMMA FlowStep ==
  ASSUME FlowInv, [Next]_vars PROVE FlowInv'
<1> USE DEF FlowInv
<1>1. ASSUME NEW i \in Ids, NewArray(i) PROVE FlowInv'
    BY <1>1, NewArrayStep, QuietSteps, QuietFlow, ZenonT(40)
<1>2. ASSUME NEW ins \in SUBSET Alive, NEW d \in Domains, NEW i \in Ids, Launch(ins, d, i) PROVE FlowInv'
    BY <1>2, LaunchStep, QuietSteps, QuietFlow, ZenonT(40)
<1>3. ASSUME NEW ins \in SUBSET Alive, NEW d \in Domains, LaunchFails(ins, d) PROVE FlowInv'
    BY <1>3, LaunchFailsStep, QuietSteps, QuietFlow, Zenon
<1>4. ASSUME NEW n \in DOMAIN arrays, Drop(n) PROVE FlowInv'
    BY <1>4, DropStep, QuietSteps, QuietFlow, ZenonT(40)
<1>5. ASSUME NEW n \in DOMAIN arrays, Finalize(n) PROVE FlowInv'
    BY <1>5, FinalizeStep, QuietSteps, QuietFlow, ZenonT(40)
<1>6. ASSUME NEW l \in DOMAIN launches, eval_gpu(l) PROVE FlowInv'
    BY <1>6, EvalStep, EvalFlow, Zenon
<1>7. ASSUME NEW d \in Domains, Run(d) PROVE FlowInv'
    BY <1>7, RunStep, RunFlow, Zenon
<1>8. CASE UNCHANGED vars
  <2>1. RegistryInv'
      BY <1>8, ZenonT(40) DEF vars, RegistryInv, TypeOK, Refs, OneLivePerId, Records, RegistryExact,
         WaitsAreInputs, CrossWaits, SignalsOwn, Alive
  <2>. QED
      BY <1>8, <2>1, QuietSteps, QuietFlow, Zenon
<1>. QED
    BY <1>1, <1>2, <1>3, <1>4, <1>5, <1>6, <1>7, <1>8, Zenon DEF Next

\* Nothing is queued at first.
LEMMA FlowInit == Init => FlowInv
<1> SUFFICES ASSUME Init PROVE FlowInv
    OBVIOUS
<1>1. RegistryInv
    BY RegistryInit, Zenon
<1>2. launches = <<>> /\ events = {} /\ \A d \in Domains : queues[d] = <<>>
    BY Zenon DEF Init
<1>. QED
    BY <1>1, <1>2, SMTT(30) DEF FlowInv, QueuesOK, InputsFirst, EventsRan

\* However late the finalizers run and whichever ids are reused: every live output is
\* found in the registry, and a slot whose array is dead still has its finalizer.
THEOREM RegistryIsExact == Spec => []RegistryExact
<1>1. FlowInv => RegistryExact
    BY Zenon DEF FlowInv, RegistryInv
<1>. QED
    BY <1>1, FlowInit, FlowStep, PTL DEF Spec

\* A launch waits only for launches whose outputs it reads.
THEOREM WaitsAreForInputs == Spec => []WaitsAreInputs
<1>1. FlowInv => WaitsAreInputs
    BY Zenon DEF FlowInv, RegistryInv
<1>. QED
    BY <1>1, FlowInit, FlowStep, PTL DEF Spec

----------------------------------------------------------------------------
(* Nodes that are evaluated once. *)

\* The other steps leave the queued commands alone.
LEMMA QuietOnce ==
  ASSUME OnceInv, Quiet, launches' \in Seq(Node)
  PROVE  Once' /\ InOrder' /\ ReadsFinished'
<1>1. /\ \A l \in DOMAIN launches : /\ launches[l].done \in Nat /\ launches[l].domain \in Domains
                                    /\ launches[l].inputs \subseteq DOMAIN launches
      /\ \A d \in Domains : \A k \in DOMAIN queues[d] : queues[d][k].launch \in DOMAIN launches
    BY NodeFields, SMTT(30) DEF OnceInv, FlowInv, RegistryInv, TypeOK, Refs, QueuesOK
<1>2. /\ queues' = queues
      /\ \A l \in DOMAIN launches :
           /\ l \in DOMAIN launches' /\ launches'[l].domain = launches[l].domain
           /\ launches'[l].inputs = launches[l].inputs
           /\ launches'[l].evals = launches[l].evals /\ launches'[l].done = launches[l].done
      /\ \A l \in DOMAIN launches' \ DOMAIN launches :
           /\ launches'[l].evals = 0 /\ launches'[l].done = 0
           /\ launches'[l].inputs \subseteq DOMAIN launches
    BY Zenon DEF Quiet, Keeps
<1>3. Counted' /\ PendingQueued' /\ QueuedPending' /\ QueuedOnce'
    BY <1>1, <1>2, SMTT(90) DEF OnceInv, Once, Counted, PendingQueued, QueuedPending, QueuedOnce, Pending
<1>4. InOrder'
  <2>1. ASSUME NEW d \in Domains, NEW k \in DOMAIN queues[d],
               NEW p \in launches'[queues[d][k].launch].inputs
        PROVE  /\ p \in launches[queues[d][k].launch].inputs
               /\ launches'[p].domain = launches[p].domain /\ launches'[p].done = launches[p].done
      BY <1>1, <1>2, Zenon
  <2>. QED
      BY <1>2, <2>1, SMTT(30) DEF OnceInv, InOrder
<1>5. ReadsFinished'
    BY <1>1, <1>2, SMTT(30) DEF OnceInv, ReadsFinished
<1>. QED
    BY <1>3, <1>4, <1>5, ZenonT(40) DEF Once

\* A node that is evaluated once is queued once.
LEMMA EvalOnce ==
  ASSUME OnceInv, MaxEvals = 1, NEW l \in DOMAIN launches, eval_gpu(l)
  PROVE  Once' /\ InOrder' /\ ReadsFinished'
<1> DEFINE d == launches[l].domain
           cmd == [launch |-> l, waits |-> launches[l].waits, signals |-> launches[l].signals]
           k == Len(queues[d]) + 1
<1>1. /\ TypeOK /\ QueuesOK /\ InOrder /\ ReadsFinished
      /\ Counted /\ PendingQueued /\ QueuedPending /\ QueuedOnce
    BY ZenonT(40) DEF OnceInv, Once, FlowInv, RegistryInv
<1>2. /\ DOMAIN launches' = DOMAIN launches
      /\ \A m \in DOMAIN launches :
           /\ launches'[m].domain = launches[m].domain /\ launches'[m].inputs = launches[m].inputs
           /\ launches'[m].done = launches[m].done
           /\ launches'[m].evals = launches[m].evals + (IF m = l THEN 1 ELSE 0)
           /\ launches[m].evals \in Nat /\ launches[m].done \in Nat
           /\ launches[m].domain \in Domains /\ launches[m].inputs \subseteq DOMAIN launches
    BY <1>1, EvalNodes, NodeFields, SMTT(30) DEF TypeOK, Keeps, OnceInv, FlowInv, RegistryInv, Refs
<1>3. /\ \A e \in Domains \ {d} : queues'[e] = queues[e]
      /\ queues[d] \in Seq(Command) /\ DOMAIN queues[d] = 1..Len(queues[d]) /\ DOMAIN queues'[d] = 1..k
      /\ \A j \in DOMAIN queues[d] : j \in DOMAIN queues'[d] /\ queues'[d][j] = queues[d][j]
      /\ queues'[d][k] = cmd
    BY <1>1, EvalQueues, ZenonT(40)
<1>4. cmd.launch = l /\ k \in Nat /\ d \in Domains
    BY <1>2, <1>3, SMTT(30)
<1>5. DOMAIN queues'[d] = DOMAIN queues[d] \cup {k} /\ k \notin DOMAIN queues[d]
    BY <1>3, SMTT(30)
<1>6. launches[l].evals = 0 /\ launches[l].done = 0
    BY <1>1, <1>2, SMTT(30) DEF eval_gpu, Counted
<1>7. \A p \in launches[l].inputs : launches[p].evals = 1
    BY <1>1, <1>2, SMTT(30) DEF eval_gpu, Counted
<1> HIDE DEF cmd, k, d
<1>8. \A e \in Domains : \A j \in DOMAIN queues[e] :
        /\ queues[e][j].launch \in DOMAIN launches \ {l} /\ j \in DOMAIN queues'[e]
        /\ queues'[e][j] = queues[e][j]
  <2>1. \A e \in Domains : \A j \in DOMAIN queues[e] : queues[e][j].launch \in DOMAIN launches \ {l}
      BY <1>1, <1>6, SMTT(30) DEF QueuedPending, Pending, QueuesOK
  <2>. QED
      BY <1>3, <2>1, ZenonT(40)
<1>9. \A e \in Domains : \A i \in DOMAIN queues'[e] :
        \/ i \in DOMAIN queues[e]
        \/ e = d /\ i = k /\ queues'[e][i].launch = l
    BY <1>3, <1>4, <1>5, ZenonT(40)
<1>10. Counted'
    BY <1>1, <1>2, <1>6, SMTT(30) DEF Counted
<1>11. PendingQueued'
  <2>1. ASSUME NEW m \in DOMAIN launches, Pending(m)'
        PROVE  \E j \in DOMAIN queues'[launches[m].domain] : queues'[launches[m].domain][j].launch = m
    <3>1. CASE m = l
        BY <1>3, <1>4, <1>5, <3>1, ZenonT(40) DEF d
    <3>2. CASE m # l
      <4>1. Pending(m) /\ launches[m].domain \in Domains
          BY <1>2, <2>1, <3>2, SMTT(30) DEF Pending
      <4>. QED
          BY <1>1, <1>8, <4>1, SMTT(30) DEF PendingQueued
    <3>. QED
        BY <3>1, <3>2, Zenon
  <2>. QED
      BY <1>2, <2>1, SMTT(30) DEF PendingQueued
<1>12. QueuedPending' /\ QueuedOnce'
  <2>1. ASSUME NEW e \in Domains, NEW i \in DOMAIN queues'[e], i \in DOMAIN queues[e]
        PROVE  /\ queues'[e][i] = queues[e][i] /\ queues[e][i].launch \in DOMAIN launches \ {l}
               /\ Pending(queues[e][i].launch)
      BY <1>1, <1>8, <2>1, Zenon DEF QueuedPending
  <2>2. \A m \in DOMAIN launches \ {l} : Pending(m) =>
          launches'[m].evals = 1 /\ launches'[m].done = 0
      BY <1>2, SMTT(30) DEF Pending
  <2>3. launches'[l].evals = 1 /\ launches'[l].done = 0
      BY <1>2, <1>6, SMTT(30)
  <2>4. \A e \in Domains : \A i \in DOMAIN queues'[e] :
          launches'[queues'[e][i].launch].evals = 1 /\ launches'[queues'[e][i].launch].done = 0
      BY <1>9, <2>1, <2>2, <2>3, SMTT(30)
  <2>5. ASSUME NEW e \in Domains, NEW i \in DOMAIN queues'[e], NEW j \in DOMAIN queues'[e],
               queues'[e][i].launch = queues'[e][j].launch
        PROVE  i = j
    <3>1. CASE i \in DOMAIN queues[e] /\ j \in DOMAIN queues[e]
        BY <1>1, <2>1, <2>5, <3>1, ZenonT(40) DEF QueuedOnce
    <3>2. CASE i \notin DOMAIN queues[e] \/ j \notin DOMAIN queues[e]
        BY <1>9, <2>1, <2>5, <3>2, SMTT(30)
    <3>. QED
        BY <3>1, <3>2, Zenon
  <2>. QED
      BY <2>4, <2>5, Zenon DEF QueuedPending, QueuedOnce, Pending
<1>13. InOrder'
  <2>1. ASSUME NEW e \in Domains, NEW i \in DOMAIN queues'[e],
               NEW p \in launches'[queues'[e][i].launch].inputs,
               launches'[p].domain = e, launches'[p].done = 0
        PROVE  \E j \in 1..(i - 1) : queues'[e][j].launch = p
    <3>1. CASE i \in DOMAIN queues[e]
      <4>1. /\ p \in launches[queues[e][i].launch].inputs
            /\ launches[p].domain = e /\ launches[p].done = 0 /\ p \in DOMAIN launches
        <5>1. queues'[e][i] = queues[e][i] /\ queues[e][i].launch \in DOMAIN launches
            BY <1>8, <3>1, Zenon
        <5>2. p \in launches[queues[e][i].launch].inputs /\ p \in DOMAIN launches
            BY <1>2, <2>1, <5>1, ZenonT(40)
        <5>. QED
            BY <1>2, <2>1, <5>2, Zenon
      <4>2. PICK j \in 1..(i - 1) : queues[e][j].launch = p
          BY <1>1, <3>1, <4>1, SMTT(30) DEF InOrder
      <4>3. queues[e] \in Seq(Command)
          BY <1>1, Zenon DEF TypeOK
      <4>4. j \in DOMAIN queues[e]
          BY <3>1, <4>3, SMTT(30)
      <4>. QED
          BY <1>8, <4>2, <4>4, ZenonT(40)
    <3>2. CASE e = d /\ i = k /\ queues'[e][i].launch = l
      <4>1. p \in launches[l].inputs /\ launches[p].domain = d /\ launches[p].done = 0
            /\ p \in DOMAIN launches
          BY <1>2, <2>1, <3>2, Zenon
      <4>2. PICK j \in DOMAIN queues[d] : queues[d][j].launch = p
          BY <1>1, <1>7, <4>1, ZenonT(40) DEF PendingQueued, Pending
      <4>3. j \in 1..(k - 1)
          BY <1>3, <1>4, SMTT(30) DEF k
      <4>. QED
          BY <1>4, <1>8, <3>2, <4>2, <4>3, Zenon
    <3>. QED
        BY <1>9, <3>1, <3>2, Zenon
  <2>. QED
      BY <2>1, ZenonT(40) DEF InOrder
<1>14. ReadsFinished'
    BY <1>1, <1>2, ZenonT(40) DEF ReadsFinished
<1>. QED
    BY <1>10, <1>11, <1>12, <1>13, <1>14, Zenon DEF Once

\* A command that runs has its inputs behind it.
LEMMA RunOnce ==
  ASSUME OnceInv, NEW d \in Domains, Run(d)
  PROVE  Once' /\ InOrder' /\ ReadsFinished'
<1> DEFINE x == Head(queues[d]).launch
<1>1. /\ TypeOK /\ QueuesOK /\ InOrder /\ ReadsFinished /\ CrossWaits /\ EventsRan
      /\ Counted /\ PendingQueued /\ QueuedPending /\ QueuedOnce
      /\ x \in DOMAIN launches
    BY RunStep, ZenonT(40) DEF OnceInv, Once, FlowInv, RegistryInv
<1>2. /\ DOMAIN launches' = DOMAIN launches
      /\ \A m \in DOMAIN launches :
           /\ launches'[m].domain = launches[m].domain /\ launches'[m].inputs = launches[m].inputs
           /\ launches'[m].evals = launches[m].evals
           /\ launches'[m].done = launches[m].done + (IF m = x THEN 1 ELSE 0)
           /\ launches[m].evals \in Nat /\ launches[m].done \in Nat
           /\ launches[m].domain \in Domains /\ launches[m].inputs \subseteq DOMAIN launches
           /\ m \notin launches[m].inputs
  <2>1. launches \in Seq(Node) /\ \A m \in DOMAIN launches : launches[m].inputs \subseteq 1..(m - 1)
      BY ZenonT(40) DEF TypeOK, OnceInv, FlowInv, RegistryInv, Refs
  <2>2. /\ DOMAIN launches = 1..Len(launches) /\ Len(launches) \in Nat
        /\ \A m \in DOMAIN launches :
             launches[m].evals \in Nat /\ launches[m].done \in Nat /\ launches[m].domain \in Domains
      BY <2>1, NodeFields, ZenonT(40)
  <2>3. \A m \in DOMAIN launches : launches[m].inputs \subseteq DOMAIN launches /\ m \notin launches[m].inputs
      BY <2>1, <2>2, SMTT(30)
  <2>. QED
      BY <1>1, <2>2, <2>3, RunNodes, ZenonT(40) DEF Keeps
<1>3. /\ Head(queues[d]) = queues[d][1] /\ 1 \in DOMAIN queues[d]
      /\ DOMAIN queues[d] = 1..Len(queues[d]) /\ Len(queues[d]) \in Nat
      /\ DOMAIN queues'[d] = 1..(Len(queues[d]) - 1)
      /\ \A e \in Domains \ {d} : queues'[e] = queues[e]
      /\ \A k \in DOMAIN queues'[d] :
           k + 1 \in DOMAIN queues[d] /\ queues'[d][k] = queues[d][k + 1]
    BY <1>1, RunQueues, SMTT(30)
<1>4. /\ queues[d][1].launch = x /\ launches[x].domain = d
      /\ launches[x].evals = 1 /\ launches[x].done = 0
      /\ queues[d][1].waits = launches[x].waits /\ launches[x].waits \subseteq events
  <2>1. queues[d][1].launch = x
      BY <1>3, ZenonT(40)
  <2>2. queues[d][1].waits \subseteq events
      BY <1>3, ZenonT(40) DEF Run
  <2> HIDE DEF x
  <2>3. launches[x].domain = d /\ queues[d][1].waits = launches[x].waits
      BY <1>1, <1>3, <2>1, ZenonT(40) DEF QueuesOK
  <2>4. launches[x].evals = 1 /\ launches[x].done = 0
      BY <1>1, <1>3, <2>1, ZenonT(40) DEF QueuedPending, Pending
  <2>. QED
      BY <2>1, <2>2, <2>3, <2>4, ZenonT(40)
<1> HIDE DEF x
\* The commands that stay are of other launches.
<1>5. /\ \A e \in Domains \ {d} : \A k \in DOMAIN queues[e] : queues[e][k].launch \in DOMAIN launches \ {x}
      /\ \A k \in DOMAIN queues'[d] : queues'[d][k].launch \in DOMAIN launches \ {x}
  <2>1. \A e \in Domains \ {d} : \A k \in DOMAIN queues[e] : queues[e][k].launch \in DOMAIN launches \ {x}
      BY <1>1, <1>4, SMTT(30) DEF QueuesOK
  <2>2. ASSUME NEW k \in DOMAIN queues'[d] PROVE queues'[d][k].launch \in DOMAIN launches \ {x}
    <3>1. k + 1 \in DOMAIN queues[d] /\ k + 1 # 1 /\ queues'[d][k] = queues[d][k + 1]
        BY <1>3, SMTT(30)
    <3>. QED
        BY <1>1, <1>3, <1>4, <3>1, SMTT(30) DEF QueuedOnce, QueuesOK
  <2>. QED
      BY <2>1, <2>2, ZenonT(40)
<1>6. ASSUME NEW e \in Domains, NEW k \in DOMAIN queues'[e]
      PROVE  queues'[e][k].launch \in DOMAIN launches \ {x} /\ Pending(queues'[e][k].launch)
  <2>1. \E i \in DOMAIN queues[e] : queues'[e][k] = queues[e][i]
      BY <1>3, ZenonT(120)
  <2>2. queues'[e][k].launch \in DOMAIN launches \ {x}
      BY <1>3, <1>5, ZenonT(40)
  <2>. QED
      BY <1>1, <2>1, <2>2, Zenon DEF QueuedPending
<1>7. Counted' /\ QueuedPending'
  <2>1. ASSUME NEW m \in DOMAIN launches
        PROVE  launches'[m].evals <= 1 /\ launches'[m].done <= launches'[m].evals
      BY <1>1, <1>2, <1>4, SMTT(30) DEF Counted
  <2>2. Counted'
      BY <1>2, <2>1, ZenonT(40) DEF Counted
  <2>3. ASSUME NEW m \in DOMAIN launches \ {x}, Pending(m) PROVE Pending(m)'
      BY <1>2, <2>3, SMTT(30) DEF Pending
  <2>4. QueuedPending'
      BY <1>6, <2>3, ZenonT(40) DEF QueuedPending
  <2>. QED
      BY <2>2, <2>4, ZenonT(40)
<1>8. PendingQueued'
  <2>1. ASSUME NEW m \in DOMAIN launches, Pending(m)'
        PROVE  \E k \in DOMAIN queues'[launches[m].domain] : queues'[launches[m].domain][k].launch = m
    <3>1. m # x /\ Pending(m) /\ launches[m].domain \in Domains
        BY <1>2, <1>4, <2>1, SMTT(30) DEF Pending
    <3>2. PICK k \in DOMAIN queues[launches[m].domain] : queues[launches[m].domain][k].launch = m
        BY <1>1, <3>1, ZenonT(40) DEF PendingQueued
    <3>3. CASE launches[m].domain # d
        BY <1>3, <3>1, <3>2, <3>3, ZenonT(40)
    <3>4. CASE launches[m].domain = d
      <4>1. k # 1 /\ k - 1 \in DOMAIN queues'[d]
          BY <1>3, <1>4, <3>1, <3>2, <3>4, SMTT(30)
      <4>2. queues'[d][k - 1] = queues[d][k]
          BY <1>3, <4>1, <3>2, <3>4, SMTT(30)
      <4>. QED
          BY <3>2, <3>4, <4>1, <4>2, ZenonT(40)
    <3>. QED
        BY <3>3, <3>4, Zenon
  <2>. QED
      BY <1>2, <2>1, SMTT(30) DEF PendingQueued
<1>9. QueuedOnce'
  <2>1. ASSUME NEW j \in DOMAIN queues'[d], NEW k \in DOMAIN queues'[d],
               queues'[d][j].launch = queues'[d][k].launch
        PROVE  j = k
    <3>1. /\ j + 1 \in DOMAIN queues[d] /\ k + 1 \in DOMAIN queues[d]
          /\ queues'[d][j] = queues[d][j + 1] /\ queues'[d][k] = queues[d][k + 1]
          /\ j \in Int /\ k \in Int
        BY <1>3, SMTT(90)
    <3>2. j + 1 = k + 1
        BY <1>1, <2>1, <3>1, Zenon DEF QueuedOnce
    <3>. QED
        BY <3>1, <3>2, SMTT(30)
  <2>2. \A e \in Domains \ {d} : queues'[e] = queues[e]
      BY <1>3, ZenonT(40)
  <2>. QED
      BY <1>1, <2>1, <2>2, ZenonT(40) DEF QueuedOnce
<1>10. InOrder'
  <2>1. ASSUME NEW e \in Domains, NEW k \in DOMAIN queues'[e],
               NEW p \in launches'[queues'[e][k].launch].inputs,
               launches'[p].domain = e, launches'[p].done = 0
        PROVE  \E j \in 1..(k - 1) : queues'[e][j].launch = p
    <3>1. /\ p \in launches[queues'[e][k].launch].inputs /\ p # x /\ p \in DOMAIN launches
          /\ launches[p].domain = e /\ launches[p].done = 0
        BY <1>2, <1>4, <1>6, <2>1, SMTT(30)
    <3>2. CASE e = d
      <4>1. k \in 1..(Len(queues[d]) - 1) /\ k + 1 \in DOMAIN queues[d] /\ queues'[d][k] = queues[d][k + 1]
          BY <1>3, <3>2, ZenonT(40)
      <4>2. PICK j \in 1..((k + 1) - 1) : queues[d][j].launch = p
          BY <1>1, <3>1, <3>2, <4>1, SMTT(30) DEF InOrder
      <4>3. j # 1
          BY <1>4, <3>1, <4>2, ZenonT(40)
      <4>4. j - 1 \in 1..(k - 1) /\ j - 1 \in DOMAIN queues'[d] /\ (j - 1) + 1 = j
          BY <1>3, <4>1, <4>2, <4>3, SMTT(30)
      <4>5. queues'[d][j - 1] = queues[d][j]
          BY <1>3, <4>4, ZenonT(40)
      <4>. QED
          BY <3>2, <4>2, <4>4, <4>5, ZenonT(40)
    <3>3. CASE e # d
      <4>1. queues'[e] = queues[e]
          BY <1>3, <3>3, Zenon
      <4>. QED
          BY <1>1, <3>1, <4>1, SMTT(30) DEF InOrder
    <3>. QED
        BY <3>2, <3>3, ZenonT(40)
  <2>. QED
      BY <2>1, ZenonT(40) DEF InOrder
<1>11. ReadsFinished'
  \* The inputs of the launch that runs have run: an event or the queue says so.
  <2>1. ASSUME NEW p \in launches[x].inputs PROVE launches[p].done >= 1
    <3>1. p \in DOMAIN launches /\ launches[p].done \in Nat
        BY <1>1, <1>2, ZenonT(40)
    <3>2. CASE launches[p].domain # d
      <4>1. <<p, x>> \in events
          BY <1>1, <1>4, <3>2, ZenonT(40) DEF CrossWaits
      <4>. QED
          BY <1>1, <3>1, <4>1, SMTT(30) DEF EventsRan
    <3>3. CASE launches[p].domain = d
      <4>1. launches[p].done = 0 => \E j \in 1..(1 - 1) : queues[d][j].launch = p
          BY <1>1, <1>3, <1>4, <3>3, Zenon DEF InOrder
      <4>. QED
          BY <3>1, <4>1, SMTT(30)
    <3>. QED
        BY <3>2, <3>3, Zenon
  <2>2. ASSUME NEW c \in DOMAIN launches, NEW p \in launches[c].inputs
        PROVE  launches'[p].done >= launches'[c].done
    <3>1. /\ p \in DOMAIN launches /\ p # c /\ launches[p].done >= launches[c].done
          /\ launches[p].done \in Nat /\ launches[c].done \in Nat
        BY <1>1, <1>2, ZenonT(40) DEF ReadsFinished
    <3>2. CASE c = x
        BY <1>1, <1>2, <1>4, <2>1, <3>1, <3>2, SMTT(30)
    <3>3. CASE c # x
        BY <1>2, <3>1, <3>3, SMTT(30)
    <3>. QED
        BY <3>2, <3>3, Zenon
  <2>. QED
      BY <1>2, <2>2, Zenon DEF ReadsFinished
<1>. QED
    BY <1>7, <1>8, <1>9, <1>10, <1>11, Zenon DEF Once

\* In a graph whose nodes are evaluated once (no mx.compile replay), no launch ever runs
\* before a launch whose output it reads has finished, for any number of launches, arrays
\* and domains, and even when it was launched after that one had been encoded.
THEOREM ReadsAreFinished == ASSUME MaxEvals = 1 PROVE Spec => []ReadsFinished
<1>1. Init => OnceInv
  <2> SUFFICES ASSUME Init PROVE OnceInv
      BY ZenonT(40)
  <2>1. launches = <<>> /\ \A d \in Domains : queues[d] = <<>>
      BY Zenon DEF Init
  <2>. QED
      BY <2>1, FlowInit, SMTT(30) DEF OnceInv, Once, Counted, PendingQueued, QueuedPending, QueuedOnce,
         InOrder, ReadsFinished
<1>2. OnceInv /\ [Next]_vars => OnceInv'
  <2> SUFFICES ASSUME OnceInv, [Next]_vars PROVE OnceInv'
      BY ZenonT(40)
  <2>1. FlowInv /\ FlowInv' /\ RegistryInv /\ launches' \in Seq(Node)
      BY FlowStep, Zenon DEF OnceInv, FlowInv, RegistryInv, TypeOK
  <2>2. CASE Quiet
      BY <2>1, <2>2, QuietOnce, Zenon DEF OnceInv
  <2>3. CASE \E l \in DOMAIN launches : eval_gpu(l)
      BY <2>1, <2>3, EvalOnce, Zenon DEF OnceInv
  <2>4. CASE \E d \in Domains : Run(d)
      BY <2>1, <2>4, RunOnce, Zenon DEF OnceInv
  <2>. QED
      BY <2>1, <2>2, <2>3, <2>4, QuietSteps, Zenon DEF Next
<1>3. OnceInv => ReadsFinished
    BY Zenon DEF OnceInv
<1>. QED
    BY <1>1, <1>2, <1>3, PTL DEF Spec
----------------------------------------------------------------------------
(* Waits and signals are encoded in pairs. *)

\* The other steps leave waits and signals alone.
LEMMA QuietEdges ==
  ASSUME EdgeInv, Quiet, DOMAIN launches' = DOMAIN launches
  PROVE  EdgesSignalled'
<1>1. \A l \in DOMAIN launches : launches[l].inputs \subseteq DOMAIN launches
    BY NodeFields, SMTT(30) DEF EdgeInv, FlowInv, RegistryInv, TypeOK, Refs
<1>2. \A e : Queued(e)' <=> Queued(e)
    BY Zenon DEF Quiet, Queued
<1>. QED
    BY <1>1, <1>2, ZenonT(40) DEF EdgeInv, EdgesSignalled, Quiet, Keeps

\* A launch gives each of its waits a signal; where the producer is encoded, it comes late.
LEMMA LaunchEdges ==
  ASSUME EdgeInv,
         NEW ins \in SUBSET Alive, NEW d \in Domains, NEW i \in Ids, Launch(ins, d, i)
  PROVE  EdgesSignalled'
<1> DEFINE c == Len(launches) + 1
           node == [domain |-> d, inputs |-> {arrays[n].launch : n \in ins} \ {0},
                    waits |-> {<<p, c>> : p \in Cross(ins, d)}, late |-> LateEdges(Cross(ins, d), c),
                    signals |-> {}, evals |-> 0, done |-> 0]
<1>1. TypeOK /\ RegistryInv /\ Quiet
    BY QuietSteps, Zenon DEF EdgeInv, FlowInv, RegistryInv
<1>2. /\ DOMAIN launches = 1..Len(launches) /\ DOMAIN launches' = 1..c /\ Len(launches) \in Nat
      /\ \A l \in DOMAIN launches :
           launches'[l].signals =
             launches[l].signals \cup (IF l \in Cross(ins, d) THEN {<<l, c>>} ELSE {})
      /\ launches'[c] = node
  <2>1. Len(launches) \in Nat
      BY <1>1, SMTT(30) DEF TypeOK
  <2>. QED
      BY <1>1, <2>1, LaunchNodes, ZenonT(120)
<1>3. \A p \in Cross(ins, d) : launches[p].evals > 0 => <<p, c>> \in node.late
    BY ZenonT(40) DEF LateEdges
<1>4. node.waits = {<<p, c>> : p \in Cross(ins, d)}
    BY Zenon
<1> HIDE DEF node, c
<1>5. DOMAIN launches' = DOMAIN launches \cup {c}
    BY <1>2, SMTT(30) DEF c
<1>6. \A e : Queued(e)' <=> Queued(e)
    BY <1>1, Zenon DEF Quiet, Queued
<1>7. ASSUME NEW m \in DOMAIN launches, NEW p \in launches'[m].inputs, <<p, m>> \in launches'[m].waits
      PROVE  /\ <<p, m>> \in launches'[p].signals
             /\ launches'[p].evals > 0 =>
                  <<p, m>> \in events' \/ Queued(<<p, m>>)' \/ <<p, m>> \in launches'[m].late
  <2>1. /\ p \in launches[m].inputs /\ <<p, m>> \in launches[m].waits /\ events' = events
        /\ launches'[m].late = launches[m].late
      BY <1>1, <1>7, ZenonT(40) DEF Quiet, Keeps
  <2>2. p \in DOMAIN launches
      BY <2>1, NodeFields, SMTT(30) DEF EdgeInv, FlowInv, RegistryInv, TypeOK, Refs
  <2>. QED
      BY <1>1, <1>6, <2>1, <2>2, Zenon DEF EdgeInv, EdgesSignalled, Quiet
<1>8. ASSUME NEW p \in launches'[c].inputs, <<p, c>> \in launches'[c].waits
      PROVE  <<p, c>> \in launches'[p].signals /\ (launches'[p].evals > 0 => <<p, c>> \in launches'[c].late)
  <2>1. p \in Cross(ins, d)
      BY <1>2, <1>4, <1>8, SMTT(30) DEF c
  <2>2. c \notin DOMAIN launches
      BY <1>2, SMTT(30) DEF c
  <2>3. p \in DOMAIN launches
      BY <1>1, <1>5, <1>8, <2>2, ZenonT(40) DEF Quiet
  <2>. QED
      BY <1>1, <1>2, <1>3, <2>1, <2>3, ZenonT(40) DEF Quiet, c
<1>9. ASSUME NEW m \in DOMAIN launches', NEW p \in launches'[m].inputs, <<p, m>> \in launches'[m].waits
      PROVE  /\ <<p, m>> \in launches'[p].signals
             /\ launches'[p].evals > 0 =>
                  <<p, m>> \in events' \/ Queued(<<p, m>>)' \/ <<p, m>> \in launches'[m].late
    BY <1>5, <1>7, <1>8, <1>9, SMTT(30)
<1>. QED
    BY <1>9, Zenon DEF EdgesSignalled

\* What is encoded with a wait finds the signal encoded.
LEMMA EvalEdges ==
  ASSUME EdgeInv, NEW l \in DOMAIN launches, eval_gpu(l)
  PROVE  EdgesSignalled'
<1> DEFINE d == launches[l].domain
           cmd == [launch |-> l, waits |-> launches[l].waits, signals |-> launches[l].signals]
           k == Len(queues[d]) + 1
<1>1. TypeOK
    BY ZenonT(40) DEF EdgeInv, FlowInv, RegistryInv
<1>2. /\ DOMAIN launches' = DOMAIN launches
      /\ \A m \in DOMAIN launches :
           /\ launches'[m].inputs = launches[m].inputs /\ launches'[m].waits = launches[m].waits
           /\ launches'[m].late = launches[m].late
           /\ launches'[m].signals = launches[m].signals
           /\ launches'[m].evals = launches[m].evals + (IF m = l THEN 1 ELSE 0)
           /\ launches[m].evals \in Nat /\ launches[m].inputs \subseteq DOMAIN launches
    BY <1>1, EvalNodes, NodeFields, SMTT(30) DEF TypeOK, Keeps, EdgeInv, FlowInv, RegistryInv, Refs
<1>3. /\ d \in Domains /\ k \in 1..k
      /\ \A e \in Domains \ {d} : queues'[e] = queues[e]
      /\ DOMAIN queues'[d] = 1..k
      /\ \A j \in DOMAIN queues[d] : j \in DOMAIN queues'[d] /\ queues'[d][j] = queues[d][j]
      /\ queues'[d][k] = cmd
  <2>1. /\ d \in Domains /\ queues[d] \in Seq(Command)
        /\ \A e \in Domains \ {d} : queues'[e] = queues[e]
        /\ DOMAIN queues'[d] = 1..k
        /\ \A j \in DOMAIN queues[d] : j \in DOMAIN queues'[d] /\ queues'[d][j] = queues[d][j]
        /\ queues'[d][k] = cmd
      BY <1>1, EvalQueues, ZenonT(40)
  <2>2. k \in 1..k
      BY <2>1, SMTT(30)
  <2>. QED
      BY <2>1, <2>2, Zenon
<1>4. cmd.signals = launches[l].signals /\ events' = events
    BY ZenonT(40) DEF eval_gpu
<1> HIDE DEF cmd, k, d
<1>5. /\ \A e : Queued(e) => Queued(e)'
      /\ \A e \in launches[l].signals : Queued(e)'
  <2>1. \A q \in Domains : \A j \in DOMAIN queues[q] :
          j \in DOMAIN queues'[q] /\ queues'[q][j] = queues[q][j]
      BY <1>3, Zenon
  <2>. QED
      BY <1>3, <1>4, <2>1, SMTT(30) DEF Queued
<1>6. ASSUME NEW c \in DOMAIN launches, NEW p \in launches[c].inputs, <<p, c>> \in launches[c].waits
      PROVE  /\ <<p, c>> \in launches'[p].signals
             /\ launches'[p].evals > 0 =>
                  <<p, c>> \in events' \/ Queued(<<p, c>>)' \/ <<p, c>> \in launches'[c].late
  <2>1. p \in DOMAIN launches /\ <<p, c>> \in launches[p].signals
        /\ (launches[p].evals > 0 => <<p, c>> \in events \/ Queued(<<p, c>>) \/ <<p, c>> \in launches[c].late)
      BY <1>2, <1>6, Zenon DEF EdgeInv, EdgesSignalled
  <2>2. CASE p = l
      BY <1>2, <1>5, <2>1, <2>2, ZenonT(40)
  <2>3. CASE p # l
      BY <1>2, <1>4, <1>5, <2>1, <2>3, SMTT(30)
  <2>. QED
      BY <2>2, <2>3, Zenon
<1>. QED
    BY <1>2, <1>6, Zenon DEF EdgesSignalled

\* Running a command takes its signals to the events.
LEMMA RunEdges ==
  ASSUME EdgeInv, NEW d \in Domains, Run(d)
  PROVE  EdgesSignalled'
<1>1. TypeOK /\ Head(queues[d]).launch \in DOMAIN launches
    BY RunStep, ZenonT(40) DEF EdgeInv, FlowInv, RegistryInv
<1>2. /\ DOMAIN launches' = DOMAIN launches
      /\ \A m \in DOMAIN launches :
           /\ launches'[m].inputs = launches[m].inputs /\ launches'[m].waits = launches[m].waits
           /\ launches'[m].late = launches[m].late
           /\ launches'[m].signals = launches[m].signals /\ launches'[m].evals = launches[m].evals
           /\ launches[m].inputs \subseteq DOMAIN launches
  <2>1. launches \in Seq(Node) /\ \A m \in DOMAIN launches : launches[m].inputs \subseteq 1..(m - 1)
      BY ZenonT(40) DEF TypeOK, EdgeInv, FlowInv, RegistryInv, Refs
  <2>2. DOMAIN launches = 1..Len(launches) /\ Len(launches) \in Nat
      BY <2>1, NodeFields, ZenonT(40)
  <2>3. \A m \in DOMAIN launches : launches[m].inputs \subseteq DOMAIN launches
      BY <2>1, <2>2, SMTT(30)
  <2>. QED
      BY <1>1, <2>3, RunNodes, ZenonT(40) DEF Keeps
<1>3. /\ Head(queues[d]) = queues[d][1]
      /\ DOMAIN queues[d] = 1..Len(queues[d]) /\ Len(queues[d]) \in Nat
      /\ DOMAIN queues'[d] = 1..(Len(queues[d]) - 1)
      /\ \A e \in Domains \ {d} : queues'[e] = queues[e]
      /\ \A k \in DOMAIN queues'[d] : queues'[d][k] = queues[d][k + 1]
    BY <1>1, RunQueues, SMTT(30)
<1>4. events' = events \cup queues[d][1].signals
    BY <1>3, Zenon DEF Run
<1>5. ASSUME NEW e, Queued(e) PROVE e \in events' \/ Queued(e)'
  <2>1. PICK q \in Domains : \E k \in DOMAIN queues[q] : e \in queues[q][k].signals
      BY <1>5, Zenon DEF Queued
  <2>2. PICK k \in DOMAIN queues[q] : e \in queues[q][k].signals
      BY <2>1, Zenon
  <2>3. CASE q # d
      BY <1>3, <2>2, <2>3, Zenon DEF Queued
  <2>4. CASE q = d /\ k = 1
      BY <1>4, <2>2, <2>4, Zenon
  <2>5. CASE q = d /\ k # 1
    <3>1. k - 1 \in DOMAIN queues'[d] /\ (k - 1) + 1 = k
        BY <1>3, <2>5, SMTT(30)
    <3>2. queues'[d][k - 1] = queues[d][k]
        BY <1>3, <3>1, Zenon
    <3>. QED
        BY <2>2, <2>5, <3>1, <3>2, ZenonT(40) DEF Queued
  <2>. QED
      BY <2>3, <2>4, <2>5, Zenon
<1>6. ASSUME NEW c \in DOMAIN launches, NEW p \in launches[c].inputs, <<p, c>> \in launches[c].waits
      PROVE  /\ <<p, c>> \in launches'[p].signals
             /\ launches'[p].evals > 0 =>
                  <<p, c>> \in events' \/ Queued(<<p, c>>)' \/ <<p, c>> \in launches'[c].late
    BY <1>2, <1>4, <1>5, <1>6, Zenon DEF EdgeInv, EdgesSignalled
<1>. QED
    BY <1>2, <1>6, ZenonT(40) DEF EdgesSignalled

\* A command that waits for an event finds its signal signalled or encoded, however often
\* nodes are evaluated, unless the launch read across domains what was encoded before it
\* (plan_mlx_tvm_ffi_launch, snapshot_signal_edges).
THEOREM WaitsAreSignalled == Spec => []WaitsSignalled
<1>1. Init => EdgeInv
    BY FlowInit, SMTT(30) DEF EdgeInv, EdgesSignalled, Init
<1>2. EdgeInv /\ [Next]_vars => EdgeInv'
  <2> SUFFICES ASSUME EdgeInv, [Next]_vars PROVE EdgeInv'
      BY ZenonT(40)
  <2>1. FlowInv /\ FlowInv' /\ RegistryInv /\ TypeOK
      BY FlowStep, Zenon DEF EdgeInv, FlowInv, RegistryInv
  <2>2. CASE Quiet /\ DOMAIN launches' = DOMAIN launches
      BY <2>1, <2>2, QuietEdges, Zenon DEF EdgeInv
  <2>3. CASE \E l \in DOMAIN launches : eval_gpu(l)
      BY <2>1, <2>3, EvalEdges, Zenon DEF EdgeInv
  <2>4. CASE \E d \in Domains : Run(d)
      BY <2>1, <2>4, RunEdges, Zenon DEF EdgeInv
  <2>5. CASE \E ins \in SUBSET Alive, d \in Domains : \E i \in Ids : Launch(ins, d, i)
      BY <2>1, <2>5, LaunchEdges, ZenonT(40) DEF EdgeInv
  <2>6. \A ins \in SUBSET Alive, d \in Domains : LaunchFails(ins, d) => DOMAIN launches' = DOMAIN launches
      BY <2>1, FailNodes, Zenon
  <2>7. \A i, n : NewArray(i) \/ Drop(n) \/ Finalize(n) \/ UNCHANGED vars => DOMAIN launches' = DOMAIN launches
      BY Zenon DEF NewArray, Drop, Finalize, vars
  <2>. QED
      BY <2>1, <2>2, <2>3, <2>4, <2>5, <2>6, <2>7, QuietSteps, Zenon DEF Next
<1>3. EdgeInv => WaitsSignalled
  <2> SUFFICES ASSUME EdgeInv, NEW d \in Domains, NEW k \in DOMAIN queues[d], NEW w \in queues[d][k].waits,
                      w \notin launches[queues[d][k].launch].late
               PROVE  w \in events \cup UNION {UNION {cmd.signals : cmd \in Range(queues[e])} : e \in Domains}
      BY Zenon DEF WaitsSignalled
  <2> DEFINE c == queues[d][k].launch
  <2>1. c \in DOMAIN launches /\ launches[c].evals > 0 /\ w \in launches[c].waits
      BY Zenon DEF EdgeInv, FlowInv, QueuesOK
  <2>2. PICK p \in launches[c].inputs : w = <<p, c>>
      BY <2>1, Zenon DEF EdgeInv, FlowInv, RegistryInv, WaitsAreInputs
  <2>3. launches[p].evals > 0
    <3>1. p \in DOMAIN launches
        BY <2>1, <2>2, NodeFields, SMTT(30) DEF EdgeInv, FlowInv, RegistryInv, TypeOK, Refs
    <3>2. launches[p].evals \in Nat /\ launches[c].evals \in Nat
        BY <2>1, <3>1, NodeFields, Zenon DEF EdgeInv, FlowInv, RegistryInv, TypeOK
    <3>3. launches[c].evals <= launches[p].evals
        BY <2>1, <2>2, Zenon DEF EdgeInv, FlowInv, InputsFirst
    <3>. QED
        BY <2>1, <3>2, <3>3, SMTT(30)
  <2>4. w \in events \/ Queued(w)
      BY <2>1, <2>2, <2>3, Zenon DEF EdgeInv, EdgesSignalled
  <2>. QED
      BY <2>4, SMTT(30) DEF Queued, Range
<1>. QED
    BY <1>1, <1>2, <1>3, PTL DEF Spec
============================================================================
