-------------------------- MODULE JITCallsProofs ---------------------------
(***************************************************************************)
(* What concurrent calls of a decorated function guarantee although nothing *)
(* in JITImpl is locked: they all use the cache as KernelCache describes,  *)
(* calls with the same arguments get the same kernel, and the race on the  *)
(* mode fails some calls but never all of them.                            *)
(*                                                                         *)
(* JITCalls lets no exception out of cached(), which is right when nothing *)
(* fails; the theorems assume that, and prove that cached() then always    *)
(* comes back with a kernel.                                               *)
(***************************************************************************)
EXTENDS JITCalls, KernelStoreProofs

\* The variables have their types, and a call that waits for cached() is the
\* one its thread makes there.
JITTypes ==
    /\ JITTypeOK
    /\ style \in {"inner", "returned", "builder"}
    /\ arg \in [Thread -> Key \cup {None}]
    /\ \A t \in Thread : jpc[t] \notin Ended \/ ret[t] # None => arg[t] \in Key
    /\ \A t \in Thread : jpc[t] = "cached" => req[t] = arg[t]

\* While nobody clears the cache, an entry that was found is there to be loaded.
LoadsReady == \A t \in Thread : pc[t] \in Loading => Complete(entry[req[t]])
CacheInv == StoreInv /\ clears = 0 /\ LoadsReady

\* _kernel_cache holds kernels of the memory cache, and a call that comes back
\* from cached() has one.
KernelsAreCached ==
    /\ \A p \in Proc, k \in Key : kernels[p][k] # None => kernels[p][k] = mem[p][k]
    /\ \A t \in Thread : jpc[t] = "keep" => ret[t] # None

\* Who has seen the mode set, set it; whoever set it first is still on its way
\* to set it in the JITFunc, or did; and whoever did is on its way to a kernel,
\* or some call has one.
Mine(p) == {t \in Thread : P(t) = p}
ModeKnown ==
    \A t \in Thread : jpc[t] \notin {"idle", "mode", "infer"} => mode[P(t)] # "auto"
ModeOnItsWay ==
    \A p \in Proc : mode[p] # "auto" => fmode[p] # "auto" \/ \E t \in Mine(p) : jpc[t] = "setMode"
KernelOnItsWay ==
    \A p \in Proc : fmode[p] # "auto" =>
        \/ \E k \in Key : kernels[p][k] # None
        \/ \E t \in Mine(p) : jpc[t] \in {"parse", "lookup", "tir", "cached", "keep"}

JITInv ==
    /\ CacheInv
    /\ JITTypes
    /\ SameKernel
    /\ KernelsAreCached
    /\ ModeKnown
    /\ ModeOnItsWay
    /\ KernelOnItsWay
----------------------------------------------------------------------------
(* The cache under the calls. *)

\* How a thread gets to load an entry.
Finds(u) ==
    pc'[u] \in Loading => (pc[u] \in Loading /\ req'[u] = req[u]) \/ Recheck(u)

\* Every step of the cache moves the labels of a load this way.
LEMMA LoadMoves == TypeOK /\ [Next]_vars => \A u \in Thread : Finds(u)
<1> DEFINE All == \A u \in Thread : Finds(u)
<1> SUFFICES ASSUME TypeOK, [Next]_vars PROVE All
    BY ZenonT(40)
<1> USE DEF Finds
<1>0. pc \in [Thread -> Label] /\ req \in [Thread -> Key \cup {None}]
    BY Zenon DEF TypeOK
<1>1. ASSUME NEW t \in Thread, CheckMemory(t) PROVE All
    BY <1>0, <1>1, Zenon DEF CheckMemory, Goto, At, Loading
<1>2. ASSUME NEW t \in Thread, CreateDirs(t) PROVE All
    BY <1>0, <1>2, Zenon DEF CreateDirs, Goto, At, Loading
<1>3. ASSUME NEW t \in Thread, LockKey(t) PROVE All
    BY <1>0, <1>3, Zenon DEF LockKey, Goto, At, Loading
<1>4. ASSUME NEW t \in Thread, Recheck(t) PROVE All
    BY <1>0, <1>4, ZenonT(40) DEF Recheck, Goto
<1>5. ASSUME NEW t \in Thread, ReadSource(t) PROVE All
    BY <1>0, <1>5, Zenon DEF ReadSource, Read, Goto, At, Loading
<1>6. ASSUME NEW t \in Thread, ReadParams(t) PROVE All
    BY <1>0, <1>6, Zenon DEF ReadParams, Read, Goto, At, Loading
<1>7. ASSUME NEW t \in Thread, BuildKernel(t) PROVE All
    BY <1>0, <1>7, Zenon DEF BuildKernel, Goto, At, Loading
<1>8. ASSUME NEW t \in Thread, Compile(t) PROVE All
    BY <1>0, <1>8, Zenon DEF Compile, Goto, At, Loading
<1>9. ASSUME NEW t \in Thread, CompileRaises(t) PROVE All
    BY <1>0, <1>9, Zenon DEF CompileRaises, Goto, At, Loading
<1>10. ASSUME NEW t \in Thread, BeginSave(t) PROVE All
    BY <1>0, <1>10, Zenon DEF BeginSave, Goto, At, Loading
<1>11. ASSUME NEW t \in Thread, WriteSource(t) PROVE All
    BY <1>0, <1>11, Zenon DEF WriteSource, Write, Goto, At, Loading
<1>12. ASSUME NEW t \in Thread, WriteLib(t) PROVE All
    BY <1>0, <1>12, Zenon DEF WriteLib, Write, Goto, At, Loading
<1>13. ASSUME NEW t \in Thread, WriteParams(t) PROVE All
    BY <1>0, <1>13, Zenon DEF WriteParams, Write, Goto, At, Loading
<1>14. ASSUME NEW t \in Thread, CheckStaging(t) PROVE All
    BY <1>0, <1>14, Zenon DEF CheckStaging, Goto, At, Loading
<1>15. ASSUME NEW t \in Thread, Repair(t) PROVE All
    BY <1>0, <1>15, Zenon DEF Repair, Goto, At, Loading
<1>16. ASSUME NEW t \in Thread, Rename(t) PROVE All
    BY <1>0, <1>16, Zenon DEF Rename, Goto, At, Loading
<1>17. ASSUME NEW t \in Thread, AbandonSave(t) PROVE All
    BY <1>0, <1>17, Zenon DEF AbandonSave, Goto, At, Loading
<1>18. ASSUME NEW t \in Thread, Store(t) PROVE All
    BY <1>0, <1>18, Zenon DEF Store, Goto, At, Loading
<1>19. ASSUME NEW t \in Thread, NEW k \in Key, Call(t, k) PROVE All
    BY <1>0, <1>19, Zenon DEF Call, Goto, At, Loading
<1>20. ASSUME NEW p \in Proc, StartSweep(p) PROVE All
    BY <1>20, Zenon DEF StartSweep, thr
<1>21. ASSUME NEW p \in Proc, NEW d \in Dir, SweepOpen(p, d) PROVE All
    BY <1>21, Zenon DEF SweepOpen, thr
<1>22. ASSUME NEW p \in Proc, NEW f \in File, SweepFile(p, f) PROVE All
    BY <1>22, Zenon DEF SweepFile, thr
<1>23. ASSUME NEW p \in Proc, SweepClose(p) PROVE All
    BY <1>23, Zenon DEF SweepClose, thr
<1>24. ASSUME NEW p \in Proc, SweepEnd(p) PROVE All
    BY <1>24, Zenon DEF SweepEnd, thr
<1>25. ASSUME NEW p \in Proc, BeginClear(p) PROVE All
    BY <1>25, Zenon DEF BeginClear, thr
<1>26. ASSUME NEW p \in Proc, ClearMemory(p) PROVE All
    BY <1>26, Zenon DEF ClearMemory, thr
<1>27. ASSUME NEW p \in Proc, Crash(p) PROVE All
    BY <1>0, <1>27, Zenon DEF Crash, Loading
<1>28. CASE UNCHANGED vars
    BY <1>28, Zenon DEF vars, thr
<1>. QED
    BY <1>1, <1>2, <1>3, <1>4, <1>5, <1>6, <1>7, <1>8, <1>9, <1>10, <1>11,
       <1>12, <1>13, <1>14, <1>15, <1>16, <1>17, <1>18, <1>19, <1>20,
       <1>21, <1>22, <1>23, <1>24, <1>25, <1>26, <1>27, <1>28, ZenonT(40)
    DEF Next, ThreadStep, SweepStep, Done

\* Without a clear, an entry that was found stays complete until it is loaded.
LEMMA CacheInvStep ==
    ASSUME SlowWriters = FALSE, CacheInv, [Next]_vars, clears' = clears PROVE CacheInv'
<1>1. StoreInv' /\ clears' = 0
    BY StoreInvStep, Zenon DEF CacheInv
<1>2. /\ TypeOK /\ KeyHeld /\ PublishedComplete /\ PublishedComplete'
      /\ pc \in [Thread -> Label] /\ req \in [Thread -> Key \cup {None}]
    BY <1>1, Zenon DEF CacheInv, StoreInv, IInv, TypeOK
<1>3. ASSUME NEW u \in Thread, pc'[u] \in Loading PROVE Complete(entry[req[u]])'
  <2>1. CASE pc[u] \in Loading /\ req'[u] = req[u]
    <3>1. req[u] \in Key /\ Complete(entry[req[u]])
      BY <1>2, <2>1, Zenon DEF CacheInv, LoadsReady, KeyHeld, Loading
    <3>2. entry'[req[u]] = entry[req[u]] /\ entry[req[u]] # None
      BY <1>2, <3>1, EntryStays, Zenon DEF Complete
    <3>. QED
      BY <1>1, <1>2, <2>1, <3>1, <3>2, Zenon DEF PublishedComplete
  <2>2. CASE Recheck(u)
    <3>1. req' = req /\ entry' = entry /\ files' = files /\ req[u] \in Key
      BY <1>2, <2>2, Zenon DEF Recheck, disk, At, KeyHeld
    <3>2. entry[req[u]] # None
      BY <1>2, <1>3, <2>2, Zenon DEF Recheck, Goto, K, Loading
    <3>. QED
      BY <1>1, <1>2, <3>1, <3>2, Zenon DEF PublishedComplete, Complete
  <2>. QED
    BY <1>2, <1>3, <2>1, <2>2, LoadMoves, Zenon DEF Finds
<1>. QED
    BY <1>1, <1>3, Zenon DEF CacheInv, LoadsReady

\* When nothing fails cached() comes back with a kernel in the memory cache.
LEMMA CachedReturns ==
    ASSUME Faults = FALSE, CacheInv, NEW t \in Thread, ThreadStep(t), pc'[t] = "idle"
    PROVE  mem'[P(t)][req[t]] # None
<1>0. /\ TypeOK /\ KeyHeld /\ SourceRead /\ ParamsRead /\ OwnDirs /\ last \in 0..MaxDirs
      /\ pc \in [Thread -> Label] /\ mem \in [Proc -> [Key -> Kernel \cup {None}]]
      /\ got \in [Thread -> [File -> Dir \cup {None}]] /\ entry \in [Key -> Dir \cup {None}]
      /\ P(t) \in Proc
    BY CacheAssumption, Zenon DEF CacheInv, StoreInv, IInv, TypeOK, P
<1>1. CASE CheckMemory(t) \/ Recheck(t)
    BY <1>0, <1>1, Zenon DEF CheckMemory, Recheck, Goto, K
<1>2. CASE BuildKernel(t)
  <2>1. req[t] \in Key /\ Complete(entry[req[t]]) /\ entry[req[t]] \in Dir
    BY <1>0, <1>2, Zenon DEF BuildKernel, At, KeyHeld, CacheInv, LoadsReady, Loading, Complete
  <2>2. got[t]["source"] # None /\ got[t]["params"] # None
    BY <1>0, <1>2, <2>1, Zenon DEF BuildKernel, At, SourceRead, ParamsRead
  <2>3. PICK x \in Kernel : mem' = [mem EXCEPT ![P(t)][req[t]] = x]
    <3>1. Backend # "torch" => "lib" \in files[entry[req[t]]] /\ entry[req[t]] # None
      BY <2>1, Zenon DEF Complete, Required
    <3>2. PICK d \in Dir : mem' = [mem EXCEPT ![P(t)][req[t]] = [got[t] EXCEPT !["lib"] = d]]
      <4>1. got[t]["source"] \in Dir
        BY <1>0, <2>2, Zenon DEF File
      <4>2. CASE Backend = "torch"
        BY <1>2, <2>2, <4>1, <4>2, Zenon DEF BuildKernel, K
      <4>3. CASE Backend # "torch"
        BY <1>2, <2>1, <2>2, <3>1, <4>3, Zenon DEF BuildKernel, K
      <4>. QED
        BY <4>2, <4>3, Zenon
    <3>3. [got[t] EXCEPT !["lib"] = d] = [f \in File |-> IF f = "lib" THEN d ELSE got[t][f]]
      BY <1>0, Zenon
    <3>4. \A f \in File : (IF f = "lib" THEN d ELSE got[t][f]) \in Dir
      BY <1>0, <2>2, ZenonT(40) DEF File
    <3>5. [got[t] EXCEPT !["lib"] = d] \in Kernel
      BY <3>3, <3>4, Zenon DEF Kernel
    <3>. QED
      BY <3>2, <3>5, Zenon
  <2>. QED
    BY <1>0, <2>1, <2>3, CacheAssumption, Zenon
<1>3. CASE Store(t)
  <2>1. req[t] \in Key /\ own[t] \in Dir
    BY <1>0, <1>3, CacheAssumption, SMTT(30) DEF Store, At, KeyHeld, OwnDirs, Owning, Dir
  <2>2. Built(own[t]) \in Kernel
    BY <2>1, Zenon DEF Built, Kernel
  <2>. QED
    BY <1>0, <1>3, <2>1, <2>2, CacheAssumption, ZenonT(40) DEF Store, K, D
<1>4. ~CompileRaises(t)
    BY Zenon DEF CompileRaises
<1>5. CASE CreateDirs(t) \/ LockKey(t) \/ ReadSource(t) \/ ReadParams(t) \/ Compile(t) \/ BeginSave(t)
           \/ WriteSource(t) \/ WriteLib(t) \/ WriteParams(t) \/ CheckStaging(t)
           \/ Repair(t) \/ Rename(t) \/ AbandonSave(t)
    BY <1>0, <1>5, ZenonT(40) DEF CreateDirs, LockKey, ReadSource, ReadParams, Read, Compile, BeginSave, WriteSource, WriteLib,
          WriteParams, Write, CheckStaging, Repair, Rename, AbandonSave, Goto, At, Saving
<1>. QED
    BY <1>1, <1>2, <1>3, <1>4, <1>5, ZenonT(40) DEF ThreadStep

\* No call takes a kernel out of a memory cache.
Grows == \A p \in Proc, k \in Key : mem[p][k] # None => mem'[p][k] = mem[p][k]

\* A step inside cached() keeps the thread's key and fills the memory cache only.
LEMMA CachedSteps ==
    ASSUME CacheInv, NEW t \in Thread, ThreadStep(t)
    PROVE  /\ clears' = clears /\ req' = req /\ Grows
           /\ pc[t] # "idle" /\ \A u \in Thread \ {t} : pc'[u] = pc[u]
<1>0. /\ KeyHeld /\ MissedMemory
      /\ pc \in [Thread -> Label] /\ mem \in [Proc -> [Key -> Kernel \cup {None}]]
    BY Zenon DEF CacheInv, StoreInv, IInv, TypeOK
<1>1. clears' = clears /\ req' = req
    BY Zenon DEF ThreadStep, bounds, CheckMemory, CreateDirs, LockKey, Recheck, ReadSource, ReadParams, Read,
          BuildKernel, Compile, CompileRaises, BeginSave, WriteSource, WriteLib, WriteParams, Write, CheckStaging,
          Repair, Rename, AbandonSave, Store
<1>2. pc[t] # "idle" /\ \A u \in Thread \ {t} : pc'[u] = pc[u]
    BY <1>0, ZenonT(40) DEF ThreadStep, At, Goto, Saving, CheckMemory, CreateDirs, LockKey, Recheck, ReadSource, ReadParams, Read,
          BuildKernel, Compile, CompileRaises, BeginSave, WriteSource, WriteLib, WriteParams, Write, CheckStaging,
          Repair, Rename, AbandonSave, Store
<1>3. Grows
  <2>1. CASE mem' = mem
    BY <2>1, Zenon DEF Grows
  <2>2. CASE BuildKernel(t) \/ Store(t)
    <3>1. pc[t] \in InKeySection \ {"recheck"}
      BY <2>2, Zenon DEF BuildKernel, Store, At, InKeySection, Loading
    <3>2. mem[P(t)][req[t]] = None
      BY <1>0, <3>1, Zenon DEF MissedMemory, P
    <3>3. mem' = mem \/ \E x : mem' = [mem EXCEPT ![P(t)][req[t]] = x]
      BY <2>2, Zenon DEF BuildKernel, Store, K
    <3>. QED
      BY <1>0, <3>2, <3>3, SMTT(30) DEF Grows
  <2>. QED
    BY <2>1, <2>2, ZenonT(40) DEF ThreadStep, CheckMemory, CreateDirs, LockKey, Recheck, ReadSource, ReadParams, Read,
          Compile, CompileRaises, BeginSave, WriteSource, WriteLib, WriteParams, Write, CheckStaging,
          Repair, Rename, AbandonSave
<1>. QED
    BY <1>1, <1>2, <1>3, Zenon
----------------------------------------------------------------------------
(* The calls. *)

\* A sweep leaves the threads and the memory caches alone.
LEMMA SweepQuiet == ASSUME NEW p \in Proc, SweepStep(p) PROVE UNCHANGED <<mem, thr, clears>>
BY Zenon DEF SweepStep, StartSweep, SweepClose, SweepEnd, SweepOpen, SweepFile, thr, bounds

\* What a step of the calls does to the cache.
CacheMoves ==
    /\ [Next]_vars /\ clears' = clears /\ Grows
    /\ \A u \in Thread : (pc'[u] = pc[u] /\ req'[u] = req[u]) \/ GetTir(u) \/ InCached(u)

\* Every step of the calls is one of the cache, and no clear.
LEMMA CallsMoveCache == ASSUME JITInv, [JITNext]_<<vars, jvars>> PROVE CacheMoves
<1>0. CacheInv /\ pc \in [Thread -> Label] /\ req \in [Thread -> Key \cup {None}]
    BY Zenon DEF JITInv, CacheInv, StoreInv, IInv, TypeOK
<1>q. ASSUME UNCHANGED vars PROVE CacheMoves
    BY <1>q, Zenon DEF CacheMoves, Grows, vars, thr, bounds
<1>1. ASSUME NEW t \in Thread, TestMode(t) PROVE CacheMoves
    BY <1>1, <1>q, Zenon DEF TestMode
<1>2. ASSUME NEW t \in Thread, InferMode(t) PROVE CacheMoves
    BY <1>2, <1>q, Zenon DEF InferMode
<1>3. ASSUME NEW t \in Thread, SetMode(t) PROVE CacheMoves
    BY <1>3, <1>q, Zenon DEF SetMode
<1>4. ASSUME NEW t \in Thread, ParseArgs(t) PROVE CacheMoves
    BY <1>4, <1>q, Zenon DEF ParseArgs
<1>5. ASSUME NEW t \in Thread, Lookup(t) PROVE CacheMoves
    BY <1>5, <1>q, Zenon DEF Lookup
<1>6. ASSUME NEW t \in Thread, GetTir(t) PROVE CacheMoves
  <2>1. arg[t] \in Key /\ Call(t, arg[t])
    BY <1>6, Zenon DEF GetTir, JAt, JITInv, JITTypes, Ended
  <2>2. Next
    BY <2>1, Zenon DEF Next
  <2>3. mem' = mem /\ clears' = clears /\ \A u \in Thread \ {t} : pc'[u] = pc[u] /\ req'[u] = req[u]
    BY <1>0, <2>1, Zenon DEF Call, Goto
  <2>. QED
    BY <1>6, <2>2, <2>3, Zenon DEF CacheMoves, Grows
<1>7. ASSUME NEW t \in Thread, InCached(t) PROVE CacheMoves
  <2>1. ThreadStep(t)
    BY <1>7, Zenon DEF InCached
  <2>2. Next
    BY <2>1, Zenon DEF Next
  <2>. QED
    BY <1>7, <1>0, <2>1, <2>2, CachedSteps, Zenon DEF CacheMoves
<1>8. ASSUME NEW t \in Thread, Keep(t) PROVE CacheMoves
    BY <1>8, <1>q, Zenon DEF Keep
<1>9. ASSUME NEW t \in Thread, NEW k \in Key, JITCall(t, k) PROVE CacheMoves
    BY <1>9, <1>q, Zenon DEF JITCall
<1>10. ASSUME NEW p \in Proc, SweepStep(p), UNCHANGED jvars PROVE CacheMoves
  <2>1. Next
    BY <1>10, Zenon DEF Next
  <2>. QED
    BY <1>10, <2>1, SweepQuiet, Zenon DEF CacheMoves, Grows, thr
<1>11. CASE UNCHANGED <<vars, jvars>>
    BY <1>11, <1>q, Zenon
<1>. QED
    BY <1>1, <1>2, <1>3, <1>4, <1>5, <1>6, <1>7, <1>8, <1>9, <1>10, <1>11, ZenonT(40)
    DEF JITNext, JITStep, JITDone

\* Every step preserves the types.
LEMMA JITTypesStep ==
    ASSUME JITInv, CacheMoves, CacheInv', [JITNext]_<<vars, jvars>> PROVE JITTypes'
<1> USE DEF Ended
<1>0. /\ mode \in [Proc -> {"auto", Inferred}]
      /\ fmode \in [Proc -> {"auto", Inferred}]
      /\ templates \in [Proc -> SUBSET {Phase1[k] : k \in Key}]
      /\ kernels \in [Proc -> [Key -> Kernel \cup {None}]]
      /\ jpc \in [Thread -> Ended \cup {"mode", "infer", "setMode", "parse", "lookup", "tir", "cached", "keep"}]
      /\ ret \in [Thread -> Kernel \cup {None}]
      /\ \A t \in Thread : jpc[t] = "cached" <=> pc[t] # "idle"
      /\ style \in {"inner", "returned", "builder"}
      /\ arg \in [Thread -> Key \cup {None}]
      /\ \A t \in Thread : jpc[t] \notin Ended \/ ret[t] # None => arg[t] \in Key
      /\ \A t \in Thread : jpc[t] = "cached" => req[t] = arg[t]
      /\ \A t \in Thread : P(t) \in Proc
      /\ pc \in [Thread -> Label]
      /\ req \in [Thread -> Key \cup {None}]
    BY CacheAssumption, Zenon DEF JITInv, JITTypes, JITTypeOK, CacheInv, StoreInv, IInv, TypeOK, P
<1>1. ASSUME NEW t \in Thread, TestMode(t) PROVE JITTypes'
  <2>1. /\ mode' \in [Proc -> {"auto", Inferred}] /\ fmode' \in [Proc -> {"auto", Inferred}] /\ style' = style
    BY <1>1, <1>0, Zenon DEF TestMode, Inferred, impl
  <2>2. templates' \in [Proc -> SUBSET {Phase1[j] : j \in Key}]
    BY <1>1, <1>0, Zenon DEF TestMode, JAt, impl
  <2>3. kernels' \in [Proc -> [Key -> Kernel \cup {None}]] /\ ret' \in [Thread -> Kernel \cup {None}]
    BY <1>1, <1>0, Zenon DEF TestMode, JAt, impl, KernelKey
  <2>4. /\ jpc' \in [Thread -> Ended \cup {"mode", "infer", "setMode", "parse", "lookup", "tir", "cached", "keep"}]
        /\ arg' \in [Thread -> Key \cup {None}]
    BY <1>1, <1>0, Zenon DEF TestMode, JGoto
  <2>5. pc' = pc /\ req' = req
    BY <1>1, Zenon DEF TestMode, vars, thr
  <2>6. \A u \in Thread : /\ jpc'[u] = "cached" <=> pc'[u] # "idle"
                          /\ jpc'[u] \notin Ended \/ ret'[u] # None => arg'[u] \in Key
                          /\ jpc'[u] = "cached" => req'[u] = arg'[u]
    BY <1>1, <1>0, <2>5, ZenonT(40) DEF TestMode, JGoto, JAt
  <2>. QED
    BY <1>0, <2>1, <2>2, <2>3, <2>4, <2>6, ZenonT(40) DEF JITTypes, JITTypeOK, Inferred
<1>2. ASSUME NEW t \in Thread, InferMode(t) PROVE JITTypes'
  <2>1. /\ mode' \in [Proc -> {"auto", Inferred}] /\ fmode' \in [Proc -> {"auto", Inferred}] /\ style' = style
    BY <1>2, <1>0, Zenon DEF InferMode, Inferred, impl
  <2>2. templates' \in [Proc -> SUBSET {Phase1[j] : j \in Key}]
    BY <1>2, <1>0, ZenonT(120) DEF InferMode, JAt, impl
  <2>3. kernels' \in [Proc -> [Key -> Kernel \cup {None}]] /\ ret' \in [Thread -> Kernel \cup {None}]
    BY <1>2, <1>0, Zenon DEF InferMode, JAt, impl, KernelKey
  <2>4. /\ jpc' \in [Thread -> Ended \cup {"mode", "infer", "setMode", "parse", "lookup", "tir", "cached", "keep"}]
        /\ arg' \in [Thread -> Key \cup {None}]
    BY <1>2, <1>0, Zenon DEF InferMode, JGoto
  <2>5. pc' = pc /\ req' = req
    BY <1>2, Zenon DEF InferMode, vars, thr
  <2>6. \A u \in Thread : /\ jpc'[u] = "cached" <=> pc'[u] # "idle"
                          /\ jpc'[u] \notin Ended \/ ret'[u] # None => arg'[u] \in Key
                          /\ jpc'[u] = "cached" => req'[u] = arg'[u]
    BY <1>2, <1>0, <2>5, Zenon DEF InferMode, JGoto, JAt
  <2>. QED
    BY <1>0, <2>1, <2>2, <2>3, <2>4, <2>6, Zenon DEF JITTypes, JITTypeOK, Inferred
<1>3. ASSUME NEW t \in Thread, SetMode(t) PROVE JITTypes'
  <2>1. /\ mode' \in [Proc -> {"auto", Inferred}] /\ fmode' \in [Proc -> {"auto", Inferred}] /\ style' = style
    BY <1>3, <1>0, ZenonT(40) DEF SetMode, Inferred, impl
  <2>2. templates' \in [Proc -> SUBSET {Phase1[j] : j \in Key}]
    BY <1>3, <1>0, Zenon DEF SetMode, JAt, impl
  <2>3. kernels' \in [Proc -> [Key -> Kernel \cup {None}]] /\ ret' \in [Thread -> Kernel \cup {None}]
    BY <1>3, <1>0, Zenon DEF SetMode, JAt, impl, KernelKey
  <2>4. /\ jpc' \in [Thread -> Ended \cup {"mode", "infer", "setMode", "parse", "lookup", "tir", "cached", "keep"}]
        /\ arg' \in [Thread -> Key \cup {None}]
    BY <1>3, <1>0, Zenon DEF SetMode, JGoto
  <2>5. pc' = pc /\ req' = req
    BY <1>3, Zenon DEF SetMode, vars, thr
  <2>6. \A u \in Thread : /\ jpc'[u] = "cached" <=> pc'[u] # "idle"
                          /\ jpc'[u] \notin Ended \/ ret'[u] # None => arg'[u] \in Key
                          /\ jpc'[u] = "cached" => req'[u] = arg'[u]
    BY <1>3, <1>0, <2>5, ZenonT(40) DEF SetMode, JGoto, JAt
  <2>. QED
    BY <1>0, <2>1, <2>2, <2>3, <2>4, <2>6, Zenon DEF JITTypes, JITTypeOK, Inferred
<1>4. ASSUME NEW t \in Thread, ParseArgs(t) PROVE JITTypes'
  <2>1. /\ mode' \in [Proc -> {"auto", Inferred}] /\ fmode' \in [Proc -> {"auto", Inferred}] /\ style' = style
    BY <1>4, <1>0, Zenon DEF ParseArgs, Inferred, impl
  <2>2. templates' \in [Proc -> SUBSET {Phase1[j] : j \in Key}]
    BY <1>4, <1>0, ZenonT(40) DEF ParseArgs, JAt, impl
  <2>3. kernels' \in [Proc -> [Key -> Kernel \cup {None}]] /\ ret' \in [Thread -> Kernel \cup {None}]
    BY <1>4, <1>0, Zenon DEF ParseArgs, JAt, impl, KernelKey
  <2>4. /\ jpc' \in [Thread -> Ended \cup {"mode", "infer", "setMode", "parse", "lookup", "tir", "cached", "keep"}]
        /\ arg' \in [Thread -> Key \cup {None}]
    BY <1>4, <1>0, Zenon DEF ParseArgs, JGoto
  <2>5. pc' = pc /\ req' = req
    BY <1>4, Zenon DEF ParseArgs, vars, thr
  <2>6. \A u \in Thread : /\ jpc'[u] = "cached" <=> pc'[u] # "idle"
                          /\ jpc'[u] \notin Ended \/ ret'[u] # None => arg'[u] \in Key
                          /\ jpc'[u] = "cached" => req'[u] = arg'[u]
    BY <1>4, <1>0, <2>5, ZenonT(40) DEF ParseArgs, JGoto, JAt
  <2>. QED
    BY <1>0, <2>1, <2>2, <2>3, <2>4, <2>6, Zenon DEF JITTypes, JITTypeOK, Inferred
<1>5. ASSUME NEW t \in Thread, Lookup(t) PROVE JITTypes'
  <2>1. /\ mode' \in [Proc -> {"auto", Inferred}] /\ fmode' \in [Proc -> {"auto", Inferred}] /\ style' = style
    BY <1>5, <1>0, Zenon DEF Lookup, Inferred, impl
  <2>2. templates' \in [Proc -> SUBSET {Phase1[j] : j \in Key}]
    BY <1>5, <1>0, ZenonT(40) DEF Lookup, JAt, impl
  <2>3. kernels' \in [Proc -> [Key -> Kernel \cup {None}]] /\ ret' \in [Thread -> Kernel \cup {None}]
    BY <1>5, <1>0, SMTT(30) DEF Lookup, JAt, impl, KernelKey
  <2>4. /\ jpc' \in [Thread -> Ended \cup {"mode", "infer", "setMode", "parse", "lookup", "tir", "cached", "keep"}]
        /\ arg' \in [Thread -> Key \cup {None}]
    BY <1>5, <1>0, Zenon DEF Lookup, JGoto
  <2>5. pc' = pc /\ req' = req
    BY <1>5, Zenon DEF Lookup, vars, thr
  <2>6. \A u \in Thread : /\ jpc'[u] = "cached" <=> pc'[u] # "idle"
                          /\ jpc'[u] \notin Ended \/ ret'[u] # None => arg'[u] \in Key
                          /\ jpc'[u] = "cached" => req'[u] = arg'[u]
    BY <1>5, <1>0, <2>5, ZenonT(40) DEF Lookup, JGoto, JAt
  <2>. QED
    BY <1>0, <2>1, <2>2, <2>3, <2>4, <2>6, Zenon DEF JITTypes, JITTypeOK, Inferred
<1>6. ASSUME NEW t \in Thread, GetTir(t) PROVE JITTypes'
  <2>1. /\ mode' \in [Proc -> {"auto", Inferred}] /\ fmode' \in [Proc -> {"auto", Inferred}] /\ style' = style
    BY <1>6, <1>0, Zenon DEF GetTir, Inferred, impl
  <2>2. templates' \in [Proc -> SUBSET {Phase1[j] : j \in Key}]
    BY <1>6, <1>0, ZenonT(40) DEF GetTir, JAt, impl
  <2>3. kernels' \in [Proc -> [Key -> Kernel \cup {None}]] /\ ret' \in [Thread -> Kernel \cup {None}]
    BY <1>6, <1>0, Zenon DEF GetTir, JAt, impl, KernelKey
  <2>4. /\ jpc' \in [Thread -> Ended \cup {"mode", "infer", "setMode", "parse", "lookup", "tir", "cached", "keep"}]
        /\ arg' \in [Thread -> Key \cup {None}]
    BY <1>6, <1>0, Zenon DEF GetTir, JGoto
  <2>5. \A u \in Thread : /\ pc'[u] = (IF u = t THEN "memory" ELSE pc[u])
                          /\ req'[u] = (IF u = t THEN arg[t] ELSE req[u])
    BY <1>6, <1>0, Zenon DEF GetTir, Call, Goto
  <2>6. \A u \in Thread : /\ jpc'[u] = "cached" <=> pc'[u] # "idle"
                          /\ jpc'[u] \notin Ended \/ ret'[u] # None => arg'[u] \in Key
                          /\ jpc'[u] = "cached" => req'[u] = arg'[u]
    BY <1>6, <1>0, <2>5, ZenonT(40) DEF GetTir, JGoto, JAt
  <2>. QED
    BY <1>0, <2>1, <2>2, <2>3, <2>4, <2>6, Zenon DEF JITTypes, JITTypeOK, Inferred
<1>7. ASSUME NEW t \in Thread, InCached(t) PROVE JITTypes'
  <2>1. /\ mode' \in [Proc -> {"auto", Inferred}] /\ fmode' \in [Proc -> {"auto", Inferred}] /\ style' = style
    BY <1>7, <1>0, Zenon DEF InCached, Inferred, impl
  <2>2. templates' \in [Proc -> SUBSET {Phase1[j] : j \in Key}]
    BY <1>7, <1>0, Zenon DEF InCached, JAt, impl
  <2>0. req[t] = arg[t] /\ arg[t] \in Key
    BY <1>7, <1>0, Zenon DEF InCached, JAt
  <2>a. mem'[P(t)][req[t]] \in Kernel \cup {None}
    <3>1. mem' \in [Proc -> [Key -> Kernel \cup {None}]]
      BY Zenon DEF CacheInv, StoreInv, IInv, TypeOK
    <3>. QED
      BY <1>0, <2>0, <3>1, ZenonT(120)
  <2>3. kernels' \in [Proc -> [Key -> Kernel \cup {None}]] /\ ret' \in [Thread -> Kernel \cup {None}]
    BY <1>7, <1>0, <2>a, Zenon DEF InCached, K, impl
  <2>4. /\ jpc' \in [Thread -> Ended \cup {"mode", "infer", "setMode", "parse", "lookup", "tir", "cached", "keep"}]
        /\ arg' \in [Thread -> Key \cup {None}]
    BY <1>7, <1>0, Zenon DEF InCached, JGoto
  <2>5. req' = req /\ \A u \in Thread \ {t} : pc'[u] = pc[u]
    BY <1>7, CachedSteps, Zenon DEF InCached, JITInv
  <2>6. \A u \in Thread : /\ jpc'[u] = "cached" <=> pc'[u] # "idle"
                          /\ jpc'[u] \notin Ended \/ ret'[u] # None => arg'[u] \in Key
                          /\ jpc'[u] = "cached" => req'[u] = arg'[u]
    BY <1>7, <1>0, <2>5, ZenonT(40) DEF InCached, JGoto, JAt
  <2>. QED
    BY <1>0, <2>1, <2>2, <2>3, <2>4, <2>6, Zenon DEF JITTypes, JITTypeOK, Inferred
<1>8. ASSUME NEW t \in Thread, Keep(t) PROVE JITTypes'
  <2>1. /\ mode' \in [Proc -> {"auto", Inferred}] /\ fmode' \in [Proc -> {"auto", Inferred}] /\ style' = style
    BY <1>8, <1>0, Zenon DEF Keep, Inferred, impl
  <2>2. templates' \in [Proc -> SUBSET {Phase1[j] : j \in Key}]
    BY <1>8, <1>0, Zenon DEF Keep, JAt, impl
  <2>3. kernels' \in [Proc -> [Key -> Kernel \cup {None}]] /\ ret' \in [Thread -> Kernel \cup {None}]
    BY <1>8, <1>0, Zenon DEF Keep, JAt, impl, KernelKey
  <2>4. /\ jpc' \in [Thread -> Ended \cup {"mode", "infer", "setMode", "parse", "lookup", "tir", "cached", "keep"}]
        /\ arg' \in [Thread -> Key \cup {None}]
    BY <1>8, <1>0, Zenon DEF Keep, JGoto
  <2>5. pc' = pc /\ req' = req
    BY <1>8, Zenon DEF Keep, vars, thr
  <2>6. \A u \in Thread : /\ jpc'[u] = "cached" <=> pc'[u] # "idle"
                          /\ jpc'[u] \notin Ended \/ ret'[u] # None => arg'[u] \in Key
                          /\ jpc'[u] = "cached" => req'[u] = arg'[u]
    BY <1>8, <1>0, <2>5, ZenonT(40) DEF Keep, JGoto, JAt
  <2>. QED
    BY <1>0, <2>1, <2>2, <2>3, <2>4, <2>6, Zenon DEF JITTypes, JITTypeOK, Inferred
<1>9. ASSUME NEW t \in Thread, NEW k \in Key, JITCall(t, k) PROVE JITTypes'
  <2>1. /\ mode' \in [Proc -> {"auto", Inferred}] /\ fmode' \in [Proc -> {"auto", Inferred}] /\ style' = style
    BY <1>9, <1>0, Zenon DEF JITCall, Inferred, impl
  <2>2. templates' \in [Proc -> SUBSET {Phase1[j] : j \in Key}]
    BY <1>9, <1>0, Zenon DEF JITCall, JAt, impl
  <2>3. kernels' \in [Proc -> [Key -> Kernel \cup {None}]] /\ ret' \in [Thread -> Kernel \cup {None}]
    BY <1>9, <1>0, Zenon DEF JITCall, JAt, impl, KernelKey
  <2>4. /\ jpc' \in [Thread -> Ended \cup {"mode", "infer", "setMode", "parse", "lookup", "tir", "cached", "keep"}]
        /\ arg' \in [Thread -> Key \cup {None}]
    BY <1>9, <1>0, Zenon DEF JITCall, JGoto
  <2>5. pc' = pc /\ req' = req
    BY <1>9, Zenon DEF JITCall, vars, thr
  <2>6. \A u \in Thread : /\ jpc'[u] = "cached" <=> pc'[u] # "idle"
                          /\ jpc'[u] \notin Ended \/ ret'[u] # None => arg'[u] \in Key
                          /\ jpc'[u] = "cached" => req'[u] = arg'[u]
    BY <1>9, <1>0, <2>5, Zenon DEF JITCall, JGoto, JAt
  <2>. QED
    BY <1>0, <2>1, <2>2, <2>3, <2>4, <2>6, ZenonT(40) DEF JITTypes, JITTypeOK, Inferred
<1>10. ASSUME NEW p \in Proc, SweepStep(p), UNCHANGED jvars PROVE JITTypes'
    BY <1>10, <1>0, SweepQuiet, Zenon DEF JITTypes, JITTypeOK, Inferred, jvars, impl, call, thr
<1>11. CASE UNCHANGED <<vars, jvars>>
    BY <1>11, <1>0, Zenon DEF JITTypes, JITTypeOK, Inferred, jvars, impl, call, vars, thr
<1>. QED
    BY <1>1, <1>2, <1>3, <1>4, <1>5, <1>6, <1>7, <1>8, <1>9, <1>10, <1>11, ZenonT(40)
    DEF JITNext, JITStep, JITDone

\* The types the steps below rely on.
CallTypes ==
    /\ mode \in [Proc -> {"auto", Inferred}] /\ fmode \in [Proc -> {"auto", Inferred}] /\ Inferred # "auto"
    /\ kernels \in [Proc -> [Key -> Kernel \cup {None}]]
    /\ jpc \in [Thread -> Ended \cup {"mode", "infer", "setMode", "parse", "lookup", "tir", "cached", "keep"}]
    /\ ret \in [Thread -> Kernel \cup {None}]
    /\ arg \in [Thread -> Key \cup {None}]
    /\ \A t \in Thread : P(t) \in Proc
    /\ \A t \in Thread : jpc[t] \notin Ended \/ ret[t] # None => arg[t] \in Key
    /\ \A t \in Thread : jpc[t] = "cached" => req[t] = arg[t]

\* They follow from the invariant.
LEMMA CallsTyped == JITTypes => CallTypes
BY CacheAssumption, Zenon DEF JITTypes, JITTypeOK, CallTypes, Inferred, P, Ended

\* What a call returns is what the memory cache holds for its arguments, and so
\* is what it leaves in _kernel_cache.
LEMMA KernelsStep ==
    ASSUME Faults = FALSE, JITInv, CacheMoves, [JITNext]_<<vars, jvars>>
    PROVE  SameKernel' /\ KernelsAreCached'
<1> DEFINE Goal == SameKernel' /\ KernelsAreCached'
<1>0. CallTypes /\ SameKernel /\ KernelsAreCached /\ Grows
    BY CallsTyped, Zenon DEF JITInv, CacheMoves
<1>a. ASSUME \A p \in Proc, k \in Key : kernels'[p][k] \in {None, kernels[p][k], mem'[p][k]},
             \A u \in Thread : \/ ret'[u] = ret[u] /\ arg'[u] = arg[u]
                               \/ ret'[u] \in {None, mem'[P(u)][arg'[u]]},
             \A u \in Thread : jpc'[u] = "keep" => ret'[u] # None
      PROVE  Goal
  <2>1. ASSUME NEW p \in Proc, NEW k \in Key, kernels'[p][k] # None PROVE kernels'[p][k] = mem'[p][k]
    BY <1>0, <1>a, <2>1, SMTT(30) DEF KernelsAreCached, Grows
  <2>2. ASSUME NEW u \in Thread, ret'[u] # None PROVE ret'[u] = mem'[P(u)][arg'[u]]
    BY <1>0, <1>a, <2>2, SMTT(90) DEF SameKernel, Grows, CallTypes
  <2>. QED
    BY <1>a, <2>1, <2>2, ZenonT(40) DEF SameKernel, KernelsAreCached, P
<1> HIDE DEF Goal
<1>b. ASSUME kernels' = kernels, ret' = ret, arg' = arg, \A u \in Thread : jpc'[u] = "keep" => jpc[u] = "keep" PROVE Goal
    BY <1>0, <1>a, <1>b, Zenon DEF KernelsAreCached
<1>1. ASSUME NEW t \in Thread, TestMode(t) PROVE Goal
    BY <1>1, <1>0, <1>b, Zenon DEF TestMode, JGoto, impl, CallTypes
<1>2. ASSUME NEW t \in Thread, InferMode(t) PROVE Goal
    BY <1>2, <1>0, <1>b, Zenon DEF InferMode, JGoto, impl, CallTypes
<1>3. ASSUME NEW t \in Thread, SetMode(t) PROVE Goal
    BY <1>3, <1>0, <1>b, Zenon DEF SetMode, JGoto, impl, CallTypes
<1>4. ASSUME NEW t \in Thread, ParseArgs(t) PROVE Goal
    BY <1>4, <1>0, <1>b, Zenon DEF ParseArgs, JGoto, impl, CallTypes
<1>5. ASSUME NEW t \in Thread, Lookup(t) PROVE Goal
  <2>1. arg[t] \in Key /\ kernels' = kernels /\ arg' = arg
    BY <1>5, <1>0, Zenon DEF Lookup, JAt, CallTypes, Ended, impl
  <2>2. \A u \in Thread : /\ jpc'[u] = "keep" => jpc[u] = "keep" /\ u # t
                          /\ ret'[u] = IF u = t THEN kernels[P(t)][arg[t]] ELSE ret[u]
    BY <1>5, <1>0, ZenonT(40) DEF Lookup, JGoto, KernelKey, CallTypes
  <2>3. kernels[P(t)][arg[t]] \in {None, mem'[P(t)][arg[t]]}
    BY <1>0, <2>1, SMTT(30) DEF KernelsAreCached, Grows, CallTypes
  <2>. QED
    BY <1>0, <1>a, <2>1, <2>2, <2>3, ZenonT(40) DEF KernelsAreCached
<1>6. ASSUME NEW t \in Thread, GetTir(t) PROVE Goal
    BY <1>6, <1>0, <1>b, Zenon DEF GetTir, JGoto, impl, CallTypes
<1>7. ASSUME NEW t \in Thread, InCached(t) PROVE Goal
  <2>1. arg[t] \in Key /\ req[t] = arg[t] /\ kernels' = kernels /\ arg' = arg
    BY <1>7, <1>0, Zenon DEF InCached, JAt, CallTypes, Ended, impl
  <2>2. \A u \in Thread \ {t} : jpc'[u] = jpc[u] /\ ret'[u] = ret[u]
    BY <1>7, <1>0, Zenon DEF InCached, JGoto, CallTypes
  <2>3. ret'[t] \in {ret[t], mem'[P(t)][arg[t]]}
    BY <1>7, <1>0, <2>1, Zenon DEF InCached, K, CallTypes
  <2>4. jpc'[t] = "keep" => ret'[t] # None
    <3> SUFFICES ASSUME jpc'[t] = "keep" PROVE ret'[t] # None
      BY ZenonT(40)
    <3>1. pc'[t] = "idle" /\ ThreadStep(t) /\ ret'[t] = mem'[P(t)][req[t]]
      BY <1>7, <1>0, Zenon DEF InCached, JGoto, K, CallTypes
    <3>. QED
      BY <3>1, CachedReturns, Zenon DEF JITInv
  <2>. QED
    BY <1>0, <1>a, <2>1, <2>2, <2>3, <2>4, ZenonT(40) DEF KernelsAreCached
<1>8. ASSUME NEW t \in Thread, Keep(t) PROVE Goal
  <2>1. /\ arg[t] \in Key /\ P(t) \in Proc /\ ret' = ret /\ arg' = arg /\ ret[t] = mem[P(t)][arg[t]] /\ ret[t] # None
        /\ mem' = mem
    BY <1>8, <1>0, Zenon DEF Keep, JAt, CallTypes, Ended, KernelsAreCached, SameKernel, vars
  <2>2. \A p \in Proc, k \in Key : kernels'[p][k] \in {kernels[p][k], mem'[p][k]}
    BY <1>8, <1>0, <2>1, Zenon DEF Keep, KernelKey, CallTypes
  <2>3. \A u \in Thread : jpc'[u] = "keep" => jpc[u] = "keep"
    BY <1>8, <1>0, Zenon DEF Keep, JGoto, CallTypes
  <2>. QED
    BY <1>0, <1>a, <2>1, <2>2, <2>3, ZenonT(40) DEF KernelsAreCached
<1>9. ASSUME NEW t \in Thread, NEW k \in Key, JITCall(t, k) PROVE Goal
  <2>1. kernels' = kernels
    BY <1>9, Zenon DEF JITCall, impl
  <2>2. \A u \in Thread : /\ jpc'[u] = "keep" => jpc[u] = "keep" /\ u # t
                          /\ u # t => ret'[u] = ret[u] /\ arg'[u] = arg[u]
                          /\ u = t => ret'[u] = None
    BY <1>9, <1>0, Zenon DEF JITCall, JGoto, CallTypes
  <2>. QED
    BY <1>0, <1>a, <2>1, <2>2, ZenonT(40) DEF KernelsAreCached
<1>10. ASSUME NEW p \in Proc, SweepStep(p), UNCHANGED jvars PROVE Goal
    BY <1>10, <1>b, Zenon DEF jvars, impl, call
<1>11. CASE UNCHANGED <<vars, jvars>>
    BY <1>11, <1>b, Zenon DEF jvars, impl, call, Goal
<1>. QED
    BY <1>1, <1>2, <1>3, <1>4, <1>5, <1>6, <1>7, <1>8, <1>9, <1>10, <1>11, ZenonT(40)
    DEF JITNext, JITStep, JITDone, Goal

\* The first call to infer the mode carries it to the JITFunc and on to a kernel.
LEMMA ModesStep ==
    ASSUME JITInv, [JITNext]_<<vars, jvars>>, KernelsAreCached'
    PROVE  ModeKnown' /\ ModeOnItsWay' /\ KernelOnItsWay'
<1> DEFINE Goal == ModeKnown' /\ ModeOnItsWay' /\ KernelOnItsWay'
<1>0. /\ CallTypes /\ ModeKnown /\ ModeOnItsWay /\ KernelOnItsWay /\ KernelsAreCached
      /\ \A u \in Thread : P(u) \in Proc /\ u \in Mine(P(u))
    BY CallsTyped, Zenon DEF JITInv, CallTypes, Mine
<1>1. ASSUME NEW t \in Thread, TestMode(t) PROVE Goal
  <2>1. ModeKnown'
    BY <1>1, <1>0, Zenon DEF TestMode, JGoto, JAt, impl, CallTypes, ModeKnown, P, Ended
  <2>2. ModeOnItsWay'
    BY <1>1, <1>0, ZenonT(40) DEF TestMode, JGoto, JAt, impl, CallTypes, ModeOnItsWay, ModeKnown, Mine, P, Ended
  <2>3. KernelOnItsWay'
    BY <1>1, <1>0, SMTT(30) DEF TestMode, JGoto, JAt, impl, CallTypes, KernelOnItsWay, ModeKnown, KernelsAreCached, KernelKey, Mine, P, Ended
  <2>. QED
    BY <2>1, <2>2, <2>3, Zenon
<1>2. ASSUME NEW t \in Thread, InferMode(t) PROVE Goal
  <2>1. ModeKnown'
    BY <1>2, <1>0, Zenon DEF InferMode, JGoto, JAt, impl, CallTypes, ModeKnown, P, Ended
  <2>2. ModeOnItsWay'
    BY <1>2, <1>0, ZenonT(40) DEF InferMode, JGoto, JAt, impl, CallTypes, ModeOnItsWay, ModeKnown, Mine, P, Ended
  <2>3. KernelOnItsWay'
    BY <1>2, <1>0, SMTT(30) DEF InferMode, JGoto, JAt, impl, CallTypes, KernelOnItsWay, ModeKnown, KernelsAreCached, KernelKey, Mine, P, Ended
  <2>. QED
    BY <2>1, <2>2, <2>3, Zenon
<1>3. ASSUME NEW t \in Thread, SetMode(t) PROVE Goal
  <2>1. ModeKnown'
    BY <1>3, <1>0, Zenon DEF SetMode, JGoto, JAt, impl, CallTypes, ModeKnown, P, Ended
  <2>2. ModeOnItsWay'
    BY <1>3, <1>0, SMTT(30) DEF SetMode, JGoto, JAt, impl, CallTypes, ModeOnItsWay, ModeKnown, Mine, P, Ended
  <2>3. KernelOnItsWay'
    BY <1>3, <1>0, SMTT(30) DEF SetMode, JGoto, JAt, impl, CallTypes, KernelOnItsWay, ModeKnown, KernelsAreCached, KernelKey, Mine, P, Ended
  <2>. QED
    BY <2>1, <2>2, <2>3, Zenon
<1>4. ASSUME NEW t \in Thread, ParseArgs(t) PROVE Goal
  <2>1. ModeKnown'
    BY <1>4, <1>0, Zenon DEF ParseArgs, JGoto, JAt, impl, CallTypes, ModeKnown, P, Ended
  <2>2. ModeOnItsWay'
    BY <1>4, <1>0, ZenonT(40) DEF ParseArgs, JGoto, JAt, impl, CallTypes, ModeOnItsWay, ModeKnown, Mine, P, Ended
  <2>3. KernelOnItsWay'
    BY <1>4, <1>0, SMTT(30) DEF ParseArgs, JGoto, JAt, impl, CallTypes, KernelOnItsWay, ModeKnown, KernelsAreCached, KernelKey, Mine, P, Ended
  <2>. QED
    BY <2>1, <2>2, <2>3, Zenon
<1>5. ASSUME NEW t \in Thread, Lookup(t) PROVE Goal
  <2>1. ModeKnown'
    BY <1>5, <1>0, Zenon DEF Lookup, JGoto, JAt, impl, CallTypes, ModeKnown, P, Ended
  <2>2. ModeOnItsWay'
    BY <1>5, <1>0, ZenonT(40) DEF Lookup, JGoto, JAt, impl, CallTypes, ModeOnItsWay, ModeKnown, Mine, P, Ended
  <2>3. KernelOnItsWay'
    BY <1>5, <1>0, SMTT(30) DEF Lookup, JGoto, JAt, impl, CallTypes, KernelOnItsWay, ModeKnown, KernelsAreCached, KernelKey, Mine, P, Ended
  <2>. QED
    BY <2>1, <2>2, <2>3, Zenon
<1>6. ASSUME NEW t \in Thread, GetTir(t) PROVE Goal
  <2>1. ModeKnown'
    BY <1>6, <1>0, Zenon DEF GetTir, JGoto, JAt, impl, CallTypes, ModeKnown, P, Ended
  <2>2. ModeOnItsWay'
    BY <1>6, <1>0, ZenonT(40) DEF GetTir, JGoto, JAt, impl, CallTypes, ModeOnItsWay, ModeKnown, Mine, P, Ended
  <2>3. KernelOnItsWay'
    BY <1>6, <1>0, SMTT(30) DEF GetTir, JGoto, JAt, impl, CallTypes, KernelOnItsWay, ModeKnown, KernelsAreCached, KernelKey, Mine, P, Ended
  <2>. QED
    BY <2>1, <2>2, <2>3, Zenon
<1>7. ASSUME NEW t \in Thread, InCached(t) PROVE Goal
  <2>1. ModeKnown'
    BY <1>7, <1>0, Zenon DEF InCached, JGoto, JAt, impl, CallTypes, ModeKnown, P, Ended
  <2>2. ModeOnItsWay'
    BY <1>7, <1>0, ZenonT(40) DEF InCached, JGoto, JAt, impl, CallTypes, ModeOnItsWay, ModeKnown, Mine, P, Ended
  <2>3. KernelOnItsWay'
    BY <1>7, <1>0, SMTT(30) DEF InCached, JGoto, JAt, impl, CallTypes, KernelOnItsWay, ModeKnown, KernelsAreCached, KernelKey, Mine, P, Ended
  <2>. QED
    BY <2>1, <2>2, <2>3, Zenon
<1>8. ASSUME NEW t \in Thread, Keep(t) PROVE Goal
  <2>1. ModeKnown'
    BY <1>8, <1>0, Zenon DEF Keep, JGoto, JAt, impl, CallTypes, ModeKnown, P, Ended
  <2>2. ModeOnItsWay'
    BY <1>8, <1>0, ZenonT(40) DEF Keep, JGoto, JAt, impl, CallTypes, ModeOnItsWay, ModeKnown, Mine, P, Ended
  <2>3. KernelOnItsWay'
    BY <1>8, <1>0, SMTT(90) DEF Keep, JGoto, JAt, impl, CallTypes, KernelOnItsWay, ModeKnown, KernelsAreCached, KernelKey, Mine, P, Ended
  <2>. QED
    BY <2>1, <2>2, <2>3, Zenon
<1>9. ASSUME NEW t \in Thread, NEW k \in Key, JITCall(t, k) PROVE Goal
  <2>1. ModeKnown'
    BY <1>9, <1>0, Zenon DEF JITCall, JGoto, JAt, impl, CallTypes, ModeKnown, P, Ended
  <2>2. ModeOnItsWay'
    BY <1>9, <1>0, ZenonT(40) DEF JITCall, JGoto, JAt, impl, CallTypes, ModeOnItsWay, ModeKnown, Mine, P, Ended
  <2>3. KernelOnItsWay'
    BY <1>9, <1>0, SMTT(90) DEF JITCall, JGoto, JAt, impl, CallTypes, KernelOnItsWay, ModeKnown, KernelsAreCached, KernelKey, Mine, P, Ended
  <2>. QED
    BY <2>1, <2>2, <2>3, Zenon
<1>10. ASSUME NEW p \in Proc, SweepStep(p), UNCHANGED jvars PROVE Goal
  <2>1. mode' = mode /\ fmode' = fmode /\ kernels' = kernels /\ jpc' = jpc
    BY <1>10, Zenon DEF jvars, impl, call
  <2>. QED
    BY <1>0, <2>1, SMTT(30) DEF ModeKnown, ModeOnItsWay, KernelOnItsWay, Mine, P
<1>11. CASE UNCHANGED <<vars, jvars>>
    BY <1>11, <1>0, ZenonT(40) DEF jvars, impl, call, ModeKnown, ModeOnItsWay, KernelOnItsWay, Mine, P
<1>. QED
    BY <1>1, <1>2, <1>3, <1>4, <1>5, <1>6, <1>7, <1>8, <1>9, <1>10, <1>11, ZenonT(40)
    DEF JITNext, JITStep, JITDone
----------------------------------------------------------------------------
\* The invariant is inductive when nothing fails and no live writer is taken for
\* a dead one.
THEOREM JITInvariant == ASSUME Faults = FALSE, SlowWriters = FALSE PROVE JITSpec => []JITInv
<1>1. JITInit => JITInv
  <2> SUFFICES ASSUME JITInit PROVE JITInv
    BY ZenonT(40)
  <2>1. Init /\ StoreInv
    BY StoreInit, Zenon DEF JITInit
  <2>2. CacheInv
    BY <2>1, Zenon DEF Init, CacheInv, LoadsReady, Loading
  <2>3. style \in {"inner", "returned", "builder"}
    BY StyleAssumption, ZenonT(40) DEF JITInit
  <2>4. JITTypeOK
    BY <2>1, SMTT(30) DEF JITInit, Init, JITTypeOK, Ended
  <2>5. JITTypes
    BY <2>3, <2>4, Zenon DEF JITInit, JITTypes, Ended
  <2>6. SameKernel /\ KernelsAreCached
    BY Zenon DEF JITInit, SameKernel, KernelsAreCached
  <2>7. ModeKnown /\ ModeOnItsWay /\ KernelOnItsWay
    BY CacheAssumption, Zenon DEF JITInit, ModeKnown, ModeOnItsWay, KernelOnItsWay, P
  <2>. QED
    BY <2>2, <2>5, <2>6, <2>7, Zenon DEF JITInv
<1>2. JITInv /\ [JITNext]_<<vars, jvars>> => JITInv'
  <2> SUFFICES ASSUME JITInv, [JITNext]_<<vars, jvars>> PROVE JITInv'
    BY ZenonT(40)
  <2>1. CacheMoves
    BY CallsMoveCache, Zenon
  <2>2. CacheInv'
    BY <2>1, CacheInvStep, Zenon DEF JITInv, CacheMoves
  <2>3. JITTypes'
    BY <2>1, <2>2, JITTypesStep, Zenon
  <2>4. SameKernel' /\ KernelsAreCached'
    BY <2>1, KernelsStep, Zenon
  <2>5. ModeKnown' /\ ModeOnItsWay' /\ KernelOnItsWay'
    BY <2>4, ModesStep, Zenon
  <2>. QED
    BY <2>2, <2>3, <2>4, <2>5, Zenon DEF JITInv
<1>. QED
    BY <1>1, <1>2, PTL DEF JITSpec

\* The calls of a decorated function use the kernel cache as KernelCache lets
\* any thread use it, so that everything proved there holds under them.
THEOREM CallsUseTheCache == ASSUME Faults = FALSE, SlowWriters = FALSE PROVE JITSpec => Spec
<1>1. JITInit => Init
    BY Zenon DEF JITInit
<1>2. JITInv /\ [JITNext]_<<vars, jvars>> => [Next]_vars
    BY CallsMoveCache, Zenon DEF CacheMoves
<1>. QED
    BY <1>1, <1>2, JITInvariant, PTL DEF JITSpec, Spec

\* Calls with the same arguments in one process return one kernel, the one the
\* memory cache holds, however the unlocked reads and writes of _kernel_cache
\* interleave.
THEOREM CallsAgree == ASSUME Faults = FALSE, SlowWriters = FALSE PROVE JITSpec => []SameKernel
<1>1. JITInv => SameKernel
    BY ZenonT(40) DEF JITInv
<1>. QED
    BY <1>1, JITInvariant, PTL

\* The race between self.mode and self.func.mode makes calls raise, but when all
\* the calls of a process are over and one has raised, another has its kernel.
THEOREM SomeCallSucceeds == ASSUME Faults = FALSE, SlowWriters = FALSE PROVE JITSpec => []NotAllRaise
<1>1. JITInv => NotAllRaise
  <2> SUFFICES ASSUME JITInv, NEW p \in Proc, \A t \in Mine(p) : jpc[t] \in Ended,
                      NEW u \in Mine(p), jpc[u] = "raised"
               PROVE  \E k \in Key : kernels[p][k] # None
    BY Zenon DEF NotAllRaise, Mine
  <2>1. mode[p] # "auto"
    BY Zenon DEF JITInv, ModeKnown, Mine
  <2>2. fmode[p] # "auto"
    BY <2>1, Zenon DEF JITInv, ModeOnItsWay, Ended
  <2>. QED
    BY <2>2, Zenon DEF JITInv, KernelOnItsWay, Ended
<1>. QED
    BY <1>1, JITInvariant, PTL

\* Under the calls of a decorated function every compiled kernel is persisted.
THEOREM CallsPersist ==
    ASSUME Faults = FALSE, SlowWriters = FALSE, Backend # "cutedsl" PROVE JITSpec => []Persisted
<1>1. JITInit /\ JITInv => PersistInv
    BY ZenonT(40) DEF JITInit, Init, SavesWhole, Persisted, Saving, PersistInv, JITInv, CacheInv
<1>2. PersistInv /\ JITInv /\ JITInv' /\ [JITNext]_<<vars, jvars>> => PersistInv'
  <2> SUFFICES ASSUME PersistInv, JITInv, JITInv', [JITNext]_<<vars, jvars>> PROVE PersistInv'
    BY ZenonT(40)
  <2>1. [Next]_vars
    BY CallsMoveCache, Zenon DEF CacheMoves
  <2>. QED
    BY <2>1, PersistStep, Zenon DEF JITInv, CacheInv
<1>3. PersistInv => Persisted
    BY Zenon DEF PersistInv
<1>. QED
    BY <1>1, <1>2, <1>3, JITInvariant, PTL DEF JITSpec
============================================================================
