------------------------- MODULE KernelCacheProofs -------------------------
(***************************************************************************)
(* What KernelCache guarantees for any number of processes, threads, keys, *)
(* crashes and clears.  The file lock of the key is what everything rests  *)
(* on: between the second look into the caches and the store, only its     *)
(* holder can put a directory at the cache path of the key or a kernel     *)
(* into the memory cache of any process.                                   *)
(***************************************************************************)
EXTENDS KernelCacheLocks

\* What a load has read so far is in the entry of its key or was there.
SourceRead ==
    \A t \in Thread : pc[t] \in {"readParams", "build"} =>
        /\ got[t]["source"] # None => entry[req[t]] \in {None, got[t]["source"]}
        /\ got[t]["source"] = None => ~Complete(entry[req[t]])
ParamsRead ==
    \A t \in Thread : pc[t] = "build" =>
        /\ got[t]["params"] # None => entry[req[t]] \in {None, got[t]["params"]}
        /\ got[t]["params"] = None => ~Complete(entry[req[t]])
        /\ got[t]["source"] # None /\ got[t]["params"] # None
              => got[t]["source"] = got[t]["params"]

\* A thread that goes on from the second look found nothing to return.
MissedMemory ==
    \A t \in Thread :
        pc[t] \in InKeySection \ {"recheck"} => mem[ProcOf[t]][req[t]] = None
MissedDisk ==
    \A t \in Thread : pc[t] = "compile" => ~Complete(entry[req[t]])

IInv ==
    /\ TypeOK
    /\ KeyHeld
    /\ OwnDirs
    /\ EntriesSettled
    /\ SourceRead
    /\ ParamsRead
    /\ MissedMemory
    /\ MissedDisk
    /\ NoTornKernel
----------------------------------------------------------------------------
\* What a step may do to the entry of k when no rename for k is part of it.
Loses(k) ==
    /\ entry'[k] \in {None, entry[k]}
    /\ entry'[k] # None => files'[entry[k]] \subseteq files[entry[k]]

\* An entry is replaced by the rename for its key only, and never gains a file:
\* files are written into staging directories.
LEMMA EntryLoses == TypeOK /\ KeyHeld /\ EntriesSettled /\ [Next]_vars =>
    \A k \in Key : Loses(k) \/ \E t \in Thread : Rename(t) /\ req[t] = k
<1> DEFINE Moves == \A k \in Key : Loses(k) \/ \E t \in Thread : Rename(t) /\ req[t] = k
<1> SUFFICES ASSUME TypeOK, KeyHeld, EntriesSettled, [Next]_vars PROVE Moves
    BY ZenonT(40)
<1> USE DEF EntriesSettled, Loses
<1>0. /\ entry \in [Key -> Dir \cup {None}]
      /\ files \in [Dir -> SUBSET File]
      /\ staged \subseteq Dir
      /\ own \in [Thread -> Dir \cup {None}]
      /\ req \in [Thread -> Key \cup {None}]
    BY ZenonT(40) DEF TypeOK
<1>1. ASSUME NEW t \in Thread, CheckMemory(t) PROVE Moves
    BY <1>1, Zenon DEF CheckMemory, disk
<1>2. ASSUME NEW t \in Thread, CreateDirs(t) PROVE Moves
    BY <1>2, Zenon DEF CreateDirs
<1>3. ASSUME NEW t \in Thread, LockKey(t) PROVE Moves
    BY <1>3, Zenon DEF LockKey, disk
<1>4. ASSUME NEW t \in Thread, Recheck(t) PROVE Moves
    BY <1>4, Zenon DEF Recheck, disk
<1>5. ASSUME NEW t \in Thread, ReadSource(t) PROVE Moves
    BY <1>5, Zenon DEF ReadSource, Read, disk
<1>6. ASSUME NEW t \in Thread, ReadParams(t) PROVE Moves
    BY <1>6, Zenon DEF ReadParams, Read, disk
<1>7. ASSUME NEW t \in Thread, BuildKernel(t) PROVE Moves
    BY <1>7, Zenon DEF BuildKernel, disk
<1>8. ASSUME NEW t \in Thread, Compile(t) PROVE Moves
    BY <1>8, Zenon DEF Compile, disk
<1>9. ASSUME NEW t \in Thread, CompileRaises(t) PROVE Moves
    BY <1>9, Zenon DEF CompileRaises, disk
<1>10. ASSUME NEW t \in Thread, BeginSave(t) PROVE Moves
    BY <1>10, Zenon DEF BeginSave
<1>11. ASSUME NEW t \in Thread, WriteSource(t) PROVE Moves
  <2>1. entry' = entry /\ own[t] \in staged
    BY <1>11, Zenon DEF WriteSource, Write, D
  <2>2. \A d \in Dir : d # own[t] => files'[d] = files[d]
    BY <1>0, <1>11, ZenonT(40) DEF WriteSource, Write, D
  <2>. QED
    BY <1>0, <2>1, <2>2, ZenonT(40)
<1>12. ASSUME NEW t \in Thread, WriteLib(t) PROVE Moves
  <2>1. entry' = entry /\ own[t] \in staged
    BY <1>12, Zenon DEF WriteLib, Write, D
  <2>2. \A d \in Dir : d # own[t] => files'[d] = files[d]
    BY <1>0, <1>12, ZenonT(40) DEF WriteLib, Write, D
  <2>. QED
    BY <1>0, <2>1, <2>2
<1>13. ASSUME NEW t \in Thread, WriteParams(t) PROVE Moves
  <2>1. entry' = entry /\ own[t] \in staged
    BY <1>13, Zenon DEF WriteParams, Write, D
  <2>2. \A d \in Dir : d # own[t] => files'[d] = files[d]
    BY <1>0, <1>13, ZenonT(40) DEF WriteParams, Write, D
  <2>. QED
    BY <1>0, <2>1, <2>2
<1>14. ASSUME NEW t \in Thread, CheckStaging(t) PROVE Moves
    BY <1>14, Zenon DEF CheckStaging, disk
<1>15. ASSUME NEW t \in Thread, Repair(t) PROVE Moves
  <2>1. \A k \in Key : entry'[k] \in {None, entry[k]}
    BY <1>0, <1>15, ZenonT(40) DEF Repair, K
  <2>0. req[t] \in Key
    BY <1>15, ZenonT(40) DEF Repair, At, KeyHeld
  <2>2. ASSUME NEW d \in Dir PROVE files'[d] \subseteq files[d]
    BY <1>0, <1>15, <2>0, ZenonT(120) DEF Repair, K
  <2>. QED
    BY <1>0, <2>1, <2>2, ZenonT(40)
<1>16. ASSUME NEW t \in Thread, Rename(t) PROVE Moves
    BY <1>0, <1>16, Zenon DEF Rename, At, K, KeyHeld
<1>17. ASSUME NEW t \in Thread, AbandonSave(t) PROVE Moves
    BY <1>0, <1>17, ZenonT(40) DEF AbandonSave, At, D
<1>18. ASSUME NEW t \in Thread, Store(t) PROVE Moves
    BY <1>18, Zenon DEF Store, disk
<1>19. ASSUME NEW t \in Thread, NEW k \in Key, Call(t, k) PROVE Moves
    BY <1>19, Zenon DEF Call, disk
<1>20. ASSUME NEW p \in Proc, StartSweep(p) PROVE Moves
    BY <1>20, Zenon DEF StartSweep, disk
<1>21. ASSUME NEW p \in Proc, NEW d \in Dir, SweepOpen(p, d) PROVE Moves
    BY <1>21, Zenon DEF SweepOpen, disk
<1>22. ASSUME NEW p \in Proc, NEW f \in File, SweepFile(p, f) PROVE Moves
    BY <1>0, <1>22, ZenonT(40) DEF SweepFile
<1>23. ASSUME NEW p \in Proc, SweepClose(p) PROVE Moves
    BY <1>0, <1>23, ZenonT(40) DEF SweepClose
<1>24. ASSUME NEW p \in Proc, SweepEnd(p) PROVE Moves
    BY <1>24, Zenon DEF SweepEnd
<1>25. ASSUME NEW p \in Proc, BeginClear(p) PROVE Moves
    BY <1>25, Zenon DEF BeginClear, disk
<1>26. ASSUME NEW p \in Proc, ClearMemory(p) PROVE Moves
    BY <1>26, Zenon DEF ClearMemory, disk
<1>27. ASSUME NEW p \in Proc, Crash(p) PROVE Moves
    BY <1>27, Zenon DEF Crash, disk
<1>28. CASE UNCHANGED vars
    BY <1>28, Zenon DEF vars, disk
<1>. QED
    BY <1>1, <1>2, <1>3, <1>4, <1>5, <1>6, <1>7, <1>8, <1>9, <1>10, <1>11,
       <1>12, <1>13, <1>14, <1>15, <1>16, <1>17, <1>18, <1>19, <1>20, <1>21,
       <1>22, <1>23, <1>24, <1>25, <1>26, <1>27, <1>28, ZenonT(40)
    DEF Next, ThreadStep, SweepStep, Done

\* While a thread holds the file lock of its key, and until its own rename, the
\* entry of the key can only shrink or vanish, whoever takes a step.
LEMMA HeldEntryLoses ==
    ASSUME TypeOK, KeyHeld, EntriesSettled, [Next]_vars,
           NEW u \in Thread, pc[u] \in InKeySection \ {"rename"}
    PROVE  Loses(req[u])
<1>1. req[u] \in Key /\ flock[req[u]] = u
    BY ZenonT(40) DEF KeyHeld, InKeySection, Loading, Saving
<1>2. ASSUME NEW t \in Thread, Rename(t), req[t] = req[u] PROVE FALSE
    BY <1>1, <1>2, ZenonT(40) DEF KeyHeld, InKeySection, Saving, Rename, At
<1>. QED
    BY <1>1, <1>2, EntryLoses, ZenonT(40)

\* An entry that loses files cannot become complete by it.
LEMMA LosesComplete ==
    ASSUME TypeOK, NEW k \in Key, Loses(k), Complete(entry[k])' PROVE Complete(entry[k])
BY Zenon DEF TypeOK, Loses, Complete, Required

\* How a thread gets to the labels the invariants about loads speak of.
Arrives(u) ==
    /\ pc'[u] \in {"readParams", "build"} =>
          \/ pc'[u] = pc[u] /\ req'[u] = req[u] /\ got'[u] = got[u]
          \/ ReadSource(u) \/ ReadParams(u)
    /\ pc'[u] = "compile" =>
          (pc[u] = "compile" /\ req'[u] = req[u]) \/ Recheck(u) \/ BuildKernel(u)

\* Only a thread itself moves its label, apart from the crash of its process.
LEMMA Arrivals == TypeOK /\ [Next]_vars => \A u \in Thread : Arrives(u)
<1> DEFINE All == \A u \in Thread : Arrives(u)
<1> SUFFICES ASSUME TypeOK, [Next]_vars PROVE All
    BY ZenonT(40)
<1> USE DEF Arrives
<1>0. /\ pc \in [Thread -> Label]
      /\ req \in [Thread -> Key \cup {None}]
      /\ got \in [Thread -> [File -> Dir \cup {None}]]
    BY ZenonT(40) DEF TypeOK
<1>1. ASSUME NEW t \in Thread, CheckMemory(t) PROVE All
    BY <1>0, <1>1, ZenonT(40) DEF CheckMemory, Goto, At
<1>2. ASSUME NEW t \in Thread, CreateDirs(t) PROVE All
    BY <1>0, <1>2, ZenonT(40) DEF CreateDirs, Goto, At
<1>3. ASSUME NEW t \in Thread, LockKey(t) PROVE All
    BY <1>0, <1>3, ZenonT(40) DEF LockKey, Goto, At
<1>4. ASSUME NEW t \in Thread, Recheck(t) PROVE All
    BY <1>0, <1>4, Zenon DEF Recheck, Goto, At
<1>5. ASSUME NEW t \in Thread, ReadSource(t) PROVE All
    BY <1>0, <1>5, ZenonT(40) DEF ReadSource, Read, Goto, At
<1>6. ASSUME NEW t \in Thread, ReadParams(t) PROVE All
    BY <1>0, <1>6, Zenon DEF ReadParams, Read, Goto, At
<1>7. ASSUME NEW t \in Thread, BuildKernel(t) PROVE All
    BY <1>0, <1>7, ZenonT(40) DEF BuildKernel, Goto, At
<1>8. ASSUME NEW t \in Thread, Compile(t) PROVE All
    BY <1>0, <1>8, ZenonT(40) DEF Compile, Goto, At
<1>9. ASSUME NEW t \in Thread, CompileRaises(t) PROVE All
    BY <1>0, <1>9, ZenonT(40) DEF CompileRaises, Goto, At
<1>10. ASSUME NEW t \in Thread, BeginSave(t) PROVE All
    BY <1>0, <1>10, ZenonT(40) DEF BeginSave, Goto, At
<1>11. ASSUME NEW t \in Thread, WriteSource(t) PROVE All
    BY <1>0, <1>11, ZenonT(40) DEF WriteSource, Write, Goto, At
<1>12. ASSUME NEW t \in Thread, WriteLib(t) PROVE All
    BY <1>0, <1>12, ZenonT(40) DEF WriteLib, Write, Goto, At
<1>13. ASSUME NEW t \in Thread, WriteParams(t) PROVE All
    BY <1>0, <1>13, ZenonT(40) DEF WriteParams, Write, Goto, At
<1>14. ASSUME NEW t \in Thread, CheckStaging(t) PROVE All
    BY <1>0, <1>14, ZenonT(40) DEF CheckStaging, Goto, At
<1>15. ASSUME NEW t \in Thread, Repair(t) PROVE All
    BY <1>0, <1>15, ZenonT(40) DEF Repair, Goto, At
<1>16. ASSUME NEW t \in Thread, Rename(t) PROVE All
    BY <1>0, <1>16, ZenonT(40) DEF Rename, Goto, At
<1>17. ASSUME NEW t \in Thread, AbandonSave(t) PROVE All
    BY <1>0, <1>17, ZenonT(40) DEF AbandonSave, Goto, At
<1>18. ASSUME NEW t \in Thread, Store(t) PROVE All
    BY <1>0, <1>18, ZenonT(40) DEF Store, Goto, At
<1>19. ASSUME NEW t \in Thread, NEW k \in Key, Call(t, k) PROVE All
    BY <1>0, <1>19, ZenonT(40) DEF Call, Goto, At
<1>20. ASSUME NEW p \in Proc, StartSweep(p) PROVE All
    BY <1>20, Zenon DEF StartSweep, thr
<1>21. ASSUME NEW p \in Proc, NEW d \in Dir, SweepOpen(p, d) PROVE All
    BY <1>21, Zenon DEF SweepOpen, thr
<1>22. ASSUME NEW p \in Proc, NEW f \in File, SweepFile(p, f) PROVE All
    BY <1>22, Zenon DEF SweepFile, thr
<1>23. ASSUME NEW p \in Proc, SweepClose(p) PROVE All
    BY <1>23, Zenon DEF SweepClose, thr
<1>24. ASSUME NEW p \in Proc, SweepEnd(p) PROVE All
    BY <1>24, Zenon DEF SweepEnd, thr
<1>25. ASSUME NEW p \in Proc, BeginClear(p) PROVE All
    BY <1>25, Zenon DEF BeginClear, thr
<1>26. ASSUME NEW p \in Proc, ClearMemory(p) PROVE All
    BY <1>26, Zenon DEF ClearMemory, thr
<1>27. ASSUME NEW p \in Proc, Crash(p) PROVE All
    BY <1>0, <1>27, ZenonT(40) DEF Crash
<1>28. CASE UNCHANGED vars
    BY <1>28, ZenonT(40) DEF vars, thr
<1>. QED
    BY <1>1, <1>2, <1>3, <1>4, <1>5, <1>6, <1>7, <1>8, <1>9, <1>10, <1>11,
       <1>12, <1>13, <1>14, <1>15, <1>16, <1>17, <1>18, <1>19, <1>20, <1>21,
       <1>22, <1>23, <1>24, <1>25, <1>26, <1>27, <1>28, ZenonT(40)
    DEF Next, ThreadStep, SweepStep, Done

\* What a load has read stays the content of the entry until the load is over.
LEMMA ReadsStep ==
    TypeOK /\ KeyHeld /\ EntriesSettled /\ SourceRead /\ ParamsRead /\ [Next]_vars
        => SourceRead' /\ ParamsRead'
<1> SUFFICES ASSUME TypeOK, KeyHeld, EntriesSettled, SourceRead, ParamsRead, [Next]_vars,
                    NEW u \in Thread, pc'[u] \in {"readParams", "build"}
             PROVE  (SourceRead!(u) /\ ParamsRead!(u))'
    BY ZenonT(40) DEF SourceRead, ParamsRead
<1>1. Arrives(u)
    BY Arrivals, ZenonT(40)
<1>2. CASE pc'[u] = pc[u] /\ req'[u] = req[u] /\ got'[u] = got[u]
  <2>1. req[u] \in Key /\ Loses(req[u])
    BY <1>2, HeldEntryLoses, ZenonT(40) DEF KeyHeld, InKeySection, Loading, Saving
  <2>2. Complete(entry[req[u]])' => Complete(entry[req[u]])
    BY <1>2, <2>1, LosesComplete, ZenonT(40)
  <2>. QED
    BY <1>2, <2>1, <2>2, ZenonT(40) DEF SourceRead, ParamsRead, Loses
<1>3. CASE ReadSource(u)
    BY <1>3, SMTT(30) DEF ReadSource, Read, At, Goto, disk, K, P, TypeOK, KeyHeld, Complete, File
<1>4. CASE ReadParams(u)
    BY <1>4, SMTT(30) DEF ReadParams, Read, At, Goto, disk, K, P, TypeOK, KeyHeld, SourceRead, Complete, Required, File
<1>. QED
    BY <1>1, <1>2, <1>3, <1>4, ZenonT(40) DEF Arrives

\* A key that is being compiled has no complete entry.
LEMMA MissedDiskStep ==
    TypeOK /\ KeyHeld /\ EntriesSettled /\ SourceRead /\ ParamsRead /\ MissedDisk /\ [Next]_vars
        => MissedDisk'
<1> SUFFICES ASSUME TypeOK, KeyHeld, EntriesSettled, SourceRead, ParamsRead, MissedDisk,
                    [Next]_vars, NEW u \in Thread, pc'[u] = "compile"
             PROVE  (~Complete(entry[req[u]]))'
    BY ZenonT(40) DEF MissedDisk
<1>1. Arrives(u)
    BY Arrivals, ZenonT(40)
<1>2. CASE pc[u] = "compile" /\ req'[u] = req[u]
  <2>1. req[u] \in Key /\ Loses(req[u])
    BY <1>2, HeldEntryLoses, ZenonT(40) DEF KeyHeld, InKeySection, Loading, Saving
  <2>. QED
    BY <1>2, <2>1, LosesComplete, ZenonT(40) DEF MissedDisk
<1>3. CASE Recheck(u)
    BY <1>3, ZenonT(40) DEF Recheck, At, Goto, disk, K, P, TypeOK, KeyHeld, Complete
<1>4. CASE BuildKernel(u)
    BY <1>4, SMTT(30) DEF BuildKernel, At, Goto, disk, K, P, TypeOK, KeyHeld, SourceRead, ParamsRead, Complete, File
<1>. QED
    BY <1>1, <1>2, <1>3, <1>4, ZenonT(40) DEF Arrives

\* Nobody puts a kernel into a memory cache without the file lock of its key.
LEMMA MissedMemoryStep == TypeOK /\ KeyHeld /\ MissedMemory /\ [Next]_vars => MissedMemory'
<1> SUFFICES ASSUME TypeOK, KeyHeld, MissedMemory, [Next]_vars PROVE MissedMemory'
    BY ZenonT(40)
<1> DEFINE Held == InKeySection \ {"recheck"}
<1> USE DEF KeyHeld, MissedMemory, InKeySection, Saving, Loading
<1>0. /\ mem \in [Proc -> [Key -> Kernel \cup {None}]]
      /\ pc \in [Thread -> Label]
      /\ req \in [Thread -> Key \cup {None}]
    BY ZenonT(40) DEF TypeOK
<1>1. ASSUME NEW t \in Thread, CheckMemory(t) PROVE MissedMemory'
  <2>1. mem' = mem /\ req' = req
    BY <1>1, ZenonT(40) DEF CheckMemory
  <2>2. \A u \in Thread : pc'[u] \in Held => pc[u] \in Held
    BY <1>0, <1>1, ZenonT(40) DEF CheckMemory, At, Goto
  <2>. QED
    BY <2>1, <2>2, Zenon
<1>2. ASSUME NEW t \in Thread, CreateDirs(t) PROVE MissedMemory'
  <2>1. mem' = mem /\ req' = req
    BY <1>2, ZenonT(40) DEF CreateDirs
  <2>2. \A u \in Thread : pc'[u] \in Held => pc[u] \in Held
    BY <1>0, <1>2, ZenonT(40) DEF CreateDirs, At, Goto
  <2>. QED
    BY <2>1, <2>2, Zenon
<1>3. ASSUME NEW t \in Thread, LockKey(t) PROVE MissedMemory'
  <2>1. mem' = mem /\ req' = req
    BY <1>3, ZenonT(40) DEF LockKey
  <2>2. \A u \in Thread : pc'[u] \in Held => pc[u] \in Held
    BY <1>0, <1>3, ZenonT(40) DEF LockKey, At, Goto
  <2>. QED
    BY <2>1, <2>2, Zenon
<1>4. ASSUME NEW t \in Thread, Recheck(t) PROVE MissedMemory'
    BY <1>0, <1>4, CacheAssumption, ZenonT(40) DEF Recheck, Goto, At, P, K
<1>5. ASSUME NEW t \in Thread, ReadSource(t) PROVE MissedMemory'
  <2>1. mem' = mem /\ req' = req
    BY <1>5, Zenon DEF ReadSource, Read
  <2>2. \A u \in Thread : pc'[u] \in Held => pc[u] \in Held
    BY <1>0, <1>5, ZenonT(40) DEF ReadSource, Read, At, Goto
  <2>. QED
    BY <2>1, <2>2, Zenon
<1>6. ASSUME NEW t \in Thread, ReadParams(t) PROVE MissedMemory'
  <2>1. mem' = mem /\ req' = req
    BY <1>6, ZenonT(40) DEF ReadParams, Read
  <2>2. \A u \in Thread : pc'[u] \in Held => pc[u] \in Held
    BY <1>0, <1>6, ZenonT(40) DEF ReadParams, Read, At, Goto
  <2>. QED
    BY <2>1, <2>2, Zenon
<1>7. ASSUME NEW t \in Thread, BuildKernel(t) PROVE MissedMemory'
  <2>1. pc[t] = "build" /\ req' = req /\ \A u \in Thread \ {t} : pc'[u] = pc[u]
    BY <1>0, <1>7, ZenonT(40) DEF BuildKernel, At, Goto
  <2>2. CASE mem' = mem
    <3>1. \A u \in Thread : pc'[u] \in Held => pc[u] \in Held
      BY <2>1, ZenonT(40)
    <3>. QED
      BY <2>1, <2>2, <3>1, ZenonT(40)
  <2>3. CASE mem' # mem
    <3>1. pc'[t] = "idle" /\ \E x : mem' = [mem EXCEPT ![ProcOf[t]][req[t]] = x]
      BY <1>0, <1>7, <2>3, ZenonT(40) DEF BuildKernel, Goto, P, K
    <3>2. ASSUME NEW u \in Thread, pc'[u] \in Held PROVE u # t /\ pc[u] \in Held /\ req[u] # req[t]
      BY <2>1, <3>1, <3>2, ZenonT(40)
    <3>3. ASSUME NEW u \in Thread, pc'[u] \in Held PROVE mem'[ProcOf[u]][req[u]] = mem[ProcOf[u]][req[u]]
      <4>1. req[u] # req[t] /\ req[u] \in Key /\ ProcOf[u] \in Proc
        BY <2>1, <3>2, <3>3, CacheAssumption, ZenonT(40)
      <4>. QED
        BY <1>0, <3>1, <4>1, SMTT(30)
    <3>. QED
      BY <2>1, <3>2, <3>3, ZenonT(40)
  <2>. QED
    BY <2>2, <2>3, ZenonT(40)
<1>8. ASSUME NEW t \in Thread, Compile(t) PROVE MissedMemory'
  <2>1. mem' = mem /\ req' = req
    BY <1>8, ZenonT(40) DEF Compile
  <2>2. \A u \in Thread : pc'[u] \in Held => pc[u] \in Held
    BY <1>0, <1>8, ZenonT(40) DEF Compile, At, Goto
  <2>. QED
    BY <2>1, <2>2, Zenon
<1>9. ASSUME NEW t \in Thread, CompileRaises(t) PROVE MissedMemory'
  <2>1. mem' = mem /\ req' = req
    BY <1>9, ZenonT(40) DEF CompileRaises
  <2>2. \A u \in Thread : pc'[u] \in Held => pc[u] \in Held
    BY <1>0, <1>9, ZenonT(40) DEF CompileRaises, At, Goto
  <2>. QED
    BY <2>1, <2>2, Zenon
<1>10. ASSUME NEW t \in Thread, BeginSave(t) PROVE MissedMemory'
  <2>1. mem' = mem /\ req' = req
    BY <1>10, ZenonT(40) DEF BeginSave
  <2>2. \A u \in Thread : pc'[u] \in Held => pc[u] \in Held
    BY <1>0, <1>10, ZenonT(40) DEF BeginSave, At, Goto
  <2>. QED
    BY <2>1, <2>2, Zenon
<1>11. ASSUME NEW t \in Thread, WriteSource(t) PROVE MissedMemory'
  <2>1. mem' = mem /\ req' = req
    BY <1>11, ZenonT(40) DEF WriteSource, Write
  <2>2. \A u \in Thread : pc'[u] \in Held => pc[u] \in Held
    BY <1>0, <1>11, ZenonT(40) DEF WriteSource, Write, At, Goto
  <2>. QED
    BY <2>1, <2>2, Zenon
<1>12. ASSUME NEW t \in Thread, WriteLib(t) PROVE MissedMemory'
  <2>1. mem' = mem /\ req' = req
    BY <1>12, ZenonT(40) DEF WriteLib, Write
  <2>2. \A u \in Thread : pc'[u] \in Held => pc[u] \in Held
    BY <1>0, <1>12, ZenonT(40) DEF WriteLib, Write, At, Goto
  <2>. QED
    BY <2>1, <2>2, Zenon
<1>13. ASSUME NEW t \in Thread, WriteParams(t) PROVE MissedMemory'
  <2>1. mem' = mem /\ req' = req
    BY <1>13, ZenonT(40) DEF WriteParams, Write
  <2>2. \A u \in Thread : pc'[u] \in Held => pc[u] \in Held
    BY <1>0, <1>13, ZenonT(40) DEF WriteParams, Write, At, Goto
  <2>. QED
    BY <2>1, <2>2, Zenon
<1>14. ASSUME NEW t \in Thread, CheckStaging(t) PROVE MissedMemory'
  <2>1. mem' = mem /\ req' = req
    BY <1>14, ZenonT(40) DEF CheckStaging
  <2>2. \A u \in Thread : pc'[u] \in Held => pc[u] \in Held
    BY <1>0, <1>14, ZenonT(40) DEF CheckStaging, At, Goto
  <2>. QED
    BY <2>1, <2>2, Zenon
<1>15. ASSUME NEW t \in Thread, Repair(t) PROVE MissedMemory'
  <2>1. mem' = mem /\ req' = req
    BY <1>15, ZenonT(40) DEF Repair
  <2>2. \A u \in Thread : pc'[u] \in Held => pc[u] \in Held
    BY <1>0, <1>15, ZenonT(40) DEF Repair, At, Goto
  <2>. QED
    BY <2>1, <2>2, Zenon
<1>16. ASSUME NEW t \in Thread, Rename(t) PROVE MissedMemory'
  <2>1. mem' = mem /\ req' = req
    BY <1>16, ZenonT(40) DEF Rename
  <2>2. \A u \in Thread : pc'[u] \in Held => pc[u] \in Held
    BY <1>0, <1>16, ZenonT(40) DEF Rename, At, Goto
  <2>. QED
    BY <2>1, <2>2, Zenon
<1>17. ASSUME NEW t \in Thread, AbandonSave(t) PROVE MissedMemory'
  <2>1. mem' = mem /\ req' = req
    BY <1>17, ZenonT(40) DEF AbandonSave
  <2>2. \A u \in Thread : pc'[u] \in Held => pc[u] \in Held
    BY <1>0, <1>17, ZenonT(40) DEF AbandonSave, At, Goto
  <2>. QED
    BY <2>1, <2>2, Zenon
<1>18. ASSUME NEW t \in Thread, Store(t) PROVE MissedMemory'
    BY <1>0, <1>18, CacheAssumption, SMTT(30) DEF Store, Goto, At, P, K
<1>19. ASSUME NEW t \in Thread, NEW k \in Key, Call(t, k) PROVE MissedMemory'
    BY <1>0, <1>19, ZenonT(40) DEF Call, Goto, At
<1>20. ASSUME NEW p \in Proc, StartSweep(p) PROVE MissedMemory'
    BY <1>20, Zenon DEF StartSweep, thr
<1>21. ASSUME NEW p \in Proc, NEW d \in Dir, SweepOpen(p, d) PROVE MissedMemory'
    BY <1>21, Zenon DEF SweepOpen, thr
<1>22. ASSUME NEW p \in Proc, NEW f \in File, SweepFile(p, f) PROVE MissedMemory'
    BY <1>22, Zenon DEF SweepFile, thr
<1>23. ASSUME NEW p \in Proc, SweepClose(p) PROVE MissedMemory'
    BY <1>23, Zenon DEF SweepClose, thr
<1>24. ASSUME NEW p \in Proc, SweepEnd(p) PROVE MissedMemory'
    BY <1>24, ZenonT(40) DEF SweepEnd, thr
<1>25. ASSUME NEW p \in Proc, BeginClear(p) PROVE MissedMemory'
    BY <1>0, <1>25, CacheAssumption, ZenonT(40) DEF BeginClear, thr
<1>26. ASSUME NEW p \in Proc, ClearMemory(p) PROVE MissedMemory'
    BY <1>0, <1>26, CacheAssumption, ZenonT(40) DEF ClearMemory, thr
<1>27. ASSUME NEW p \in Proc, Crash(p) PROVE MissedMemory'
    BY <1>0, <1>27, CacheAssumption, ZenonT(40) DEF Crash, P
<1>28. CASE UNCHANGED vars
    BY <1>28, Zenon DEF vars, thr
<1>. QED
    BY <1>1, <1>2, <1>3, <1>4, <1>5, <1>6, <1>7, <1>8, <1>9, <1>10, <1>11,
       <1>12, <1>13, <1>14, <1>15, <1>16, <1>17, <1>18, <1>19, <1>20, <1>21,
       <1>22, <1>23, <1>24, <1>25, <1>26, <1>27, <1>28, ZenonT(40)
    DEF Next, ThreadStep, SweepStep, Done

\* A load that goes through keeps the kernel of the directory whose sources it
\* has read.
LEMMA LoadsWhole ==
    ASSUME TypeOK, KeyHeld, SourceRead, ParamsRead, NEW t \in Thread, BuildKernel(t), mem' # mem
    PROVE  \E d \in Dir : /\ entry[req[t]] \in {None, d}
                          /\ mem' = [mem EXCEPT ![ProcOf[t]][req[t]] = Built(d)]
<1> DEFINE d == got[t]["source"]
           new == [got[t] EXCEPT !["lib"] = d]
<1>0. /\ got[t] \in [File -> Dir \cup {None}] /\ {"source", "params", "lib"} \subseteq File
      /\ entry \in [Key -> Dir \cup {None}]
    BY ZenonT(40) DEF TypeOK, File
<1>1. req[t] \in Key
    BY ZenonT(40) DEF BuildKernel, At, KeyHeld
<1>2. got[t]["source"] # None /\ got[t]["params"] # None
    BY Zenon DEF BuildKernel
<1>3. got[t]["source"] = got[t]["params"] /\ entry[req[t]] \in {None, got[t]["source"]}
    BY <1>2, ZenonT(40) DEF BuildKernel, At, SourceRead, ParamsRead
<1>4. d \in Dir /\ mem' = [mem EXCEPT ![ProcOf[t]][req[t]] = new]
    BY <1>0, <1>1, <1>2, <1>3, Zenon DEF BuildKernel, P, K
<1>5. new = Built(d)
  <2>1. new = [f \in File |-> IF f = "lib" THEN d ELSE got[t][f]]
    BY <1>0, ZenonT(40)
  <2>2. \A f \in File : (IF f = "lib" THEN d ELSE got[t][f]) = d
    BY <1>3, ZenonT(40) DEF File
  <2>. QED
    BY <2>1, <2>2, ZenonT(40) DEF Built
<1>. QED
    BY <1>3, <1>4, <1>5, ZenonT(40)

\* The pieces of a loaded kernel come from one directory.
LEMMA NoTornStep == TypeOK /\ KeyHeld /\ OwnDirs /\ SourceRead /\ ParamsRead /\ NoTornKernel /\ [Next]_vars => NoTornKernel'
<1> SUFFICES ASSUME TypeOK, KeyHeld, OwnDirs, SourceRead, ParamsRead, NoTornKernel, [Next]_vars PROVE NoTornKernel'
    BY ZenonT(40)
<1> USE DEF NoTornKernel
<1>0. /\ mem \in [Proc -> [Key -> Kernel \cup {None}]]
      /\ got \in [Thread -> [File -> Dir \cup {None}]]
      /\ entry \in [Key -> Dir \cup {None}]
      /\ own \in [Thread -> Dir \cup {None}]
      /\ req \in [Thread -> Key \cup {None}]
      /\ last \in 0..MaxDirs
    BY ZenonT(40) DEF TypeOK
<1>1. ASSUME NEW t \in Thread, CheckMemory(t) PROVE NoTornKernel'
    BY <1>1, Zenon DEF CheckMemory
<1>2. ASSUME NEW t \in Thread, CreateDirs(t) PROVE NoTornKernel'
    BY <1>2, Zenon DEF CreateDirs
<1>3. ASSUME NEW t \in Thread, LockKey(t) PROVE NoTornKernel'
    BY <1>3, Zenon DEF LockKey
<1>4. ASSUME NEW t \in Thread, Recheck(t) PROVE NoTornKernel'
    BY <1>4, Zenon DEF Recheck
<1>5. ASSUME NEW t \in Thread, ReadSource(t) PROVE NoTornKernel'
    BY <1>5, Zenon DEF ReadSource, Read
<1>6. ASSUME NEW t \in Thread, ReadParams(t) PROVE NoTornKernel'
    BY <1>6, Zenon DEF ReadParams, Read
<1>7. ASSUME NEW t \in Thread, BuildKernel(t) PROVE NoTornKernel'
  <2>1. CASE mem' = mem
    BY <2>1, Zenon
  <2>2. CASE mem' # mem
    <3>1. PICK d \in Dir : mem' = [mem EXCEPT ![ProcOf[t]][req[t]] = Built(d)]
      BY <1>7, <2>2, LoadsWhole, ZenonT(40)
    <3>2. ASSUME NEW p \in Proc, NEW k \in Key
          PROVE  mem'[p][k] = IF p = ProcOf[t] /\ k = req[t] THEN Built(d) ELSE mem[p][k]
      BY <1>0, <3>1, CacheAssumption, ZenonT(40)
    <3>. QED
      BY <3>2, SMTT(30)
  <2>. QED
    BY <2>1, <2>2, ZenonT(40)
<1>8. ASSUME NEW t \in Thread, Compile(t) PROVE NoTornKernel'
    BY <1>8, Zenon DEF Compile
<1>9. ASSUME NEW t \in Thread, CompileRaises(t) PROVE NoTornKernel'
    BY <1>9, Zenon DEF CompileRaises
<1>10. ASSUME NEW t \in Thread, BeginSave(t) PROVE NoTornKernel'
    BY <1>10, Zenon DEF BeginSave
<1>11. ASSUME NEW t \in Thread, WriteSource(t) PROVE NoTornKernel'
    BY <1>11, Zenon DEF WriteSource, Write
<1>12. ASSUME NEW t \in Thread, WriteLib(t) PROVE NoTornKernel'
    BY <1>12, Zenon DEF WriteLib, Write
<1>13. ASSUME NEW t \in Thread, WriteParams(t) PROVE NoTornKernel'
    BY <1>13, Zenon DEF WriteParams, Write
<1>14. ASSUME NEW t \in Thread, CheckStaging(t) PROVE NoTornKernel'
    BY <1>14, Zenon DEF CheckStaging
<1>15. ASSUME NEW t \in Thread, Repair(t) PROVE NoTornKernel'
    BY <1>15, Zenon DEF Repair
<1>16. ASSUME NEW t \in Thread, Rename(t) PROVE NoTornKernel'
    BY <1>16, Zenon DEF Rename
<1>17. ASSUME NEW t \in Thread, AbandonSave(t) PROVE NoTornKernel'
    BY <1>17, ZenonT(40) DEF AbandonSave
<1>18. ASSUME NEW t \in Thread, Store(t) PROVE NoTornKernel'
    BY <1>0, <1>18, CacheAssumption, SMTT(30) DEF Store, At, P, K, D, OwnDirs, Owning, Dir, KeyHeld
<1>19. ASSUME NEW t \in Thread, NEW k \in Key, Call(t, k) PROVE NoTornKernel'
    BY <1>19, Zenon DEF Call
<1>20. ASSUME NEW p \in Proc, StartSweep(p) PROVE NoTornKernel'
    BY <1>20, Zenon DEF StartSweep
<1>21. ASSUME NEW p \in Proc, NEW d \in Dir, SweepOpen(p, d) PROVE NoTornKernel'
    BY <1>21, Zenon DEF SweepOpen
<1>22. ASSUME NEW p \in Proc, NEW f \in File, SweepFile(p, f) PROVE NoTornKernel'
    BY <1>22, Zenon DEF SweepFile
<1>23. ASSUME NEW p \in Proc, SweepClose(p) PROVE NoTornKernel'
    BY <1>23, Zenon DEF SweepClose
<1>24. ASSUME NEW p \in Proc, SweepEnd(p) PROVE NoTornKernel'
    BY <1>24, ZenonT(40) DEF SweepEnd
<1>25. ASSUME NEW p \in Proc, BeginClear(p) PROVE NoTornKernel'
    BY <1>0, <1>25, ZenonT(40) DEF BeginClear
<1>26. ASSUME NEW p \in Proc, ClearMemory(p) PROVE NoTornKernel'
    BY <1>0, <1>26, ZenonT(40) DEF ClearMemory
<1>27. ASSUME NEW p \in Proc, Crash(p) PROVE NoTornKernel'
    BY <1>0, <1>27, ZenonT(40) DEF Crash
<1>28. CASE UNCHANGED vars
    BY <1>28, Zenon DEF vars
<1>. QED
    BY <1>1, <1>2, <1>3, <1>4, <1>5, <1>6, <1>7, <1>8, <1>9, <1>10, <1>11,
       <1>12, <1>13, <1>14, <1>15, <1>16, <1>17, <1>18, <1>19, <1>20, <1>21,
       <1>22, <1>23, <1>24, <1>25, <1>26, <1>27, <1>28, ZenonT(40)
    DEF Next, ThreadStep, SweepStep, Done

\* The invariant holds initially and every step preserves it.
LEMMA CacheInit == Init => IInv
<1> SUFFICES ASSUME Init PROVE IInv
    BY ZenonT(40)
<1>1. TypeOK
    BY CacheAssumption, SMTT(30) DEF Init, TypeOK, NoFiles, Label, Dir
<1>2. KeyHeld /\ OwnDirs
    BY ZenonT(40) DEF Init, KeyHeld, OwnDirs, Owning, InKeySection, Loading, Saving
<1>3. EntriesSettled /\ SourceRead /\ ParamsRead
    BY ZenonT(40) DEF Init, EntriesSettled, SourceRead, ParamsRead
<1>4. MissedMemory /\ MissedDisk /\ NoTornKernel
    BY ZenonT(40) DEF Init, MissedMemory, MissedDisk, NoTornKernel, InKeySection, Loading, Saving
<1>. QED
    BY <1>1, <1>2, <1>3, <1>4, ZenonT(40) DEF IInv

\* Each conjunct has its own lemma.
LEMMA CacheStep == IInv /\ [Next]_vars => IInv'
BY TypeStep, KeyHeldStep, OwnDirsStep, EntriesSettledStep, ReadsStep,
   MissedDiskStep, MissedMemoryStep, NoTornStep, ZenonT(40) DEF IInv

\* The invariant holds in every reachable state of the cache.
THEOREM CacheInvariant == Spec => []IInv
BY CacheInit, CacheStep, PTL DEF Spec

\* Type correctness of the kernel cache.
THEOREM TypeCorrect == Spec => []TypeOK
<1>1. IInv => TypeOK
    BY ZenonT(40) DEF IInv
<1>. QED
    BY <1>1, CacheInvariant, PTL

\* cached() never returns or keeps a kernel whose files come from different
\* compilations, whatever clear_cache, crashes and stale sweeps do meanwhile.
THEOREM KernelsAreWhole == Spec => []NoTornKernel
<1>1. IInv => NoTornKernel
    BY ZenonT(40) DEF IInv
<1>. QED
    BY <1>1, CacheInvariant, PTL

\* One process at a time compiles a key, and only one that has no complete entry.
THEOREM CompilationsAreNeeded == Spec => []NoRedundantCompile
<1>1. IInv => NoRedundantCompile
    BY ZenonT(40) DEF IInv, NoRedundantCompile, MissedDisk, KeyHeld, InKeySection, Loading, Saving, K
<1>. QED
    BY <1>1, CacheInvariant, PTL

\* A kernel in a memory cache is replaced by no other.
THEOREM MemoryIsStable == Spec => MemoryStable
<1> DEFINE Stays == \A p \in Proc, k \in Key :
                       mem[p][k] # None => mem'[p][k] \in {mem[p][k], None}
<1>1. IInv /\ [Next]_vars => Stays
  <2> SUFFICES ASSUME TypeOK, KeyHeld, MissedMemory, [Next]_vars PROVE Stays
      BY ZenonT(40) DEF IInv
  <2> USE DEF KeyHeld, MissedMemory, InKeySection, Saving, Loading
  <2>0. /\ mem \in [Proc -> [Key -> Kernel \cup {None}]]
        /\ req \in [Thread -> Key \cup {None}]
      BY ZenonT(40) DEF TypeOK
  <2>1. ASSUME NEW t \in Thread, CheckMemory(t) PROVE Stays
      BY <2>1, Zenon DEF CheckMemory
  <2>2. ASSUME NEW t \in Thread, CreateDirs(t) PROVE Stays
      BY <2>2, Zenon DEF CreateDirs
  <2>3. ASSUME NEW t \in Thread, LockKey(t) PROVE Stays
      BY <2>3, Zenon DEF LockKey
  <2>4. ASSUME NEW t \in Thread, Recheck(t) PROVE Stays
      BY <2>4, Zenon DEF Recheck
  <2>5. ASSUME NEW t \in Thread, ReadSource(t) PROVE Stays
      BY <2>5, Zenon DEF ReadSource, Read
  <2>6. ASSUME NEW t \in Thread, ReadParams(t) PROVE Stays
      BY <2>6, ZenonT(40) DEF ReadParams, Read
  <2>7. ASSUME NEW t \in Thread, BuildKernel(t) PROVE Stays
      BY <2>0, <2>7, CacheAssumption, ZenonT(40) DEF BuildKernel, At, P, K
  <2>8. ASSUME NEW t \in Thread, Compile(t) PROVE Stays
      BY <2>8, Zenon DEF Compile
  <2>9. ASSUME NEW t \in Thread, CompileRaises(t) PROVE Stays
      BY <2>9, Zenon DEF CompileRaises
  <2>10. ASSUME NEW t \in Thread, BeginSave(t) PROVE Stays
      BY <2>10, Zenon DEF BeginSave
  <2>11. ASSUME NEW t \in Thread, WriteSource(t) PROVE Stays
      BY <2>11, Zenon DEF WriteSource, Write
  <2>12. ASSUME NEW t \in Thread, WriteLib(t) PROVE Stays
      BY <2>12, Zenon DEF WriteLib, Write
  <2>13. ASSUME NEW t \in Thread, WriteParams(t) PROVE Stays
      BY <2>13, Zenon DEF WriteParams, Write
  <2>14. ASSUME NEW t \in Thread, CheckStaging(t) PROVE Stays
      BY <2>14, Zenon DEF CheckStaging
  <2>15. ASSUME NEW t \in Thread, Repair(t) PROVE Stays
      BY <2>15, Zenon DEF Repair
  <2>16. ASSUME NEW t \in Thread, Rename(t) PROVE Stays
      BY <2>16, Zenon DEF Rename
  <2>17. ASSUME NEW t \in Thread, AbandonSave(t) PROVE Stays
      BY <2>17, ZenonT(40) DEF AbandonSave
  <2>18. ASSUME NEW t \in Thread, Store(t) PROVE Stays
      BY <2>0, <2>18, CacheAssumption, ZenonT(40) DEF Store, At, P, K
  <2>19. ASSUME NEW t \in Thread, NEW k \in Key, Call(t, k) PROVE Stays
      BY <2>19, Zenon DEF Call
  <2>20. ASSUME NEW p \in Proc, StartSweep(p) PROVE Stays
      BY <2>20, Zenon DEF StartSweep
  <2>21. ASSUME NEW p \in Proc, NEW d \in Dir, SweepOpen(p, d) PROVE Stays
      BY <2>21, Zenon DEF SweepOpen
  <2>22. ASSUME NEW p \in Proc, NEW f \in File, SweepFile(p, f) PROVE Stays
      BY <2>22, Zenon DEF SweepFile
  <2>23. ASSUME NEW p \in Proc, SweepClose(p) PROVE Stays
      BY <2>23, Zenon DEF SweepClose
  <2>24. ASSUME NEW p \in Proc, SweepEnd(p) PROVE Stays
      BY <2>24, ZenonT(40) DEF SweepEnd
  <2>25. ASSUME NEW p \in Proc, BeginClear(p) PROVE Stays
      BY <2>0, <2>25, ZenonT(40) DEF BeginClear
  <2>26. ASSUME NEW p \in Proc, ClearMemory(p) PROVE Stays
      BY <2>0, <2>26, ZenonT(40) DEF ClearMemory
  <2>27. ASSUME NEW p \in Proc, Crash(p) PROVE Stays
      BY <2>0, <2>27, ZenonT(40) DEF Crash
  <2>28. CASE UNCHANGED vars
      BY <2>28, Zenon DEF vars
  <2>. QED
      BY <2>1, <2>2, <2>3, <2>4, <2>5, <2>6, <2>7, <2>8, <2>9, <2>10, <2>11,
         <2>12, <2>13, <2>14, <2>15, <2>16, <2>17, <2>18, <2>19, <2>20, <2>21,
         <2>22, <2>23, <2>24, <2>25, <2>26, <2>27, <2>28, ZenonT(40)
      DEF Next, ThreadStep, SweepStep, Done
<1>. QED
    BY <1>1, CacheInvariant, PTL DEF MemoryStable, Spec
============================================================================
