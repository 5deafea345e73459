------------------------- MODULE KernelCacheLocks --------------------------
(***************************************************************************)
(* The part of the inductive invariant of KernelCache that is about who    *)
(* may touch what: the file lock of a key, the directory of a compilation, *)
(* the directories that are visible at cache paths, and the types.         *)
(***************************************************************************)
EXTENDS KernelCache, TLAPS

\* A thread inside the locked part of cached() holds the file lock of its key.
KeyHeld ==
    \A t \in Thread :
        /\ pc[t] # "idle" => req[t] \in Key
        /\ pc[t] \in InKeySection => flock[req[t]] = t

\* A thread that saves works in a directory no other thread works in.
Owning == {"save", "store"} \cup Saving
OwnDirs ==
    \A t \in Thread : pc[t] \in Owning =>
        /\ own[t] \in 1..last
        /\ \A u \in Thread : u # t /\ pc[u] \in Owning => own[u] # own[t]

\* A directory that is visible at a cache path is out of the staging root, and
\* its save is over.
EntriesSettled ==
    \A k \in Key : entry[k] # None =>
        /\ entry[k] \notin staged
        /\ entry[k] <= last
        /\ \A t \in Thread : own[t] = entry[k] => pc[t] \notin Owning \ {"store"}
----------------------------------------------------------------------------
\* The file lock passes from thread to thread through LockKey only.
LEMMA KeyHeldStep == TypeOK /\ KeyHeld /\ [Next]_vars => KeyHeld'
<1> SUFFICES ASSUME TypeOK, KeyHeld, [Next]_vars PROVE KeyHeld'
    BY ZenonT(40)
<1> USE DEF KeyHeld, InKeySection, Saving, Loading
<1>0. /\ pc \in [Thread -> Label]
      /\ req \in [Thread -> Key \cup {None}]
      /\ flock \in [Key -> Thread \cup {None}]
    BY ZenonT(40) DEF TypeOK
<1>1. ASSUME NEW t \in Thread, CheckMemory(t) PROVE KeyHeld'
    BY <1>0, <1>1, ZenonT(40) DEF CheckMemory, Goto, At
<1>2. ASSUME NEW t \in Thread, CreateDirs(t) PROVE KeyHeld'
    BY <1>0, <1>2, ZenonT(40) DEF CreateDirs, Goto, At
<1>3. ASSUME NEW t \in Thread, LockKey(t) PROVE KeyHeld'
    BY <1>0, <1>3, CacheAssumption, SMTT(30) DEF LockKey, Goto, At, K
<1>4. ASSUME NEW t \in Thread, Recheck(t) PROVE KeyHeld'
    BY <1>0, <1>4, SMTT(30) DEF Recheck, Goto, At, K
<1>5. ASSUME NEW t \in Thread, ReadSource(t) PROVE KeyHeld'
    BY <1>0, <1>5, ZenonT(40) DEF ReadSource, Read, Goto, At
<1>6. ASSUME NEW t \in Thread, ReadParams(t) PROVE KeyHeld'
    BY <1>0, <1>6, ZenonT(40) DEF ReadParams, Read, Goto, At
<1>7. ASSUME NEW t \in Thread, BuildKernel(t) PROVE KeyHeld'
    BY <1>0, <1>7, ZenonT(40) DEF BuildKernel, Goto, At, K
<1>8. ASSUME NEW t \in Thread, Compile(t) PROVE KeyHeld'
    BY <1>0, <1>8, ZenonT(40) DEF Compile, Goto, At
<1>9. ASSUME NEW t \in Thread, CompileRaises(t) PROVE KeyHeld'
    BY <1>0, <1>9, ZenonT(40) DEF CompileRaises, Goto, At, K
<1>10. ASSUME NEW t \in Thread, BeginSave(t) PROVE KeyHeld'
    BY <1>0, <1>10, ZenonT(40) DEF BeginSave, Goto, At
<1>11. ASSUME NEW t \in Thread, WriteSource(t) PROVE KeyHeld'
    BY <1>0, <1>11, ZenonT(40) DEF WriteSource, Write, Goto, At
<1>12. ASSUME NEW t \in Thread, WriteLib(t) PROVE KeyHeld'
    BY <1>0, <1>12, ZenonT(40) DEF WriteLib, Write, Goto, At
<1>13. ASSUME NEW t \in Thread, WriteParams(t) PROVE KeyHeld'
    BY <1>0, <1>13, ZenonT(40) DEF WriteParams, Write, Goto, At
<1>14. ASSUME NEW t \in Thread, CheckStaging(t) PROVE KeyHeld'
    BY <1>0, <1>14, ZenonT(40) DEF CheckStaging, Goto, At
<1>15. ASSUME NEW t \in Thread, Repair(t) PROVE KeyHeld'
    BY <1>0, <1>15, ZenonT(40) DEF Repair, Goto, At
<1>16. ASSUME NEW t \in Thread, Rename(t) PROVE KeyHeld'
    BY <1>0, <1>16, ZenonT(40) DEF Rename, Goto, At
<1>17. ASSUME NEW t \in Thread, AbandonSave(t) PROVE KeyHeld'
    BY <1>0, <1>17, ZenonT(40) DEF AbandonSave, Goto, At
<1>18. ASSUME NEW t \in Thread, Store(t) PROVE KeyHeld'
    BY <1>0, <1>18, ZenonT(40) DEF Store, Goto, At, K
<1>19. ASSUME NEW t \in Thread, NEW k \in Key, Call(t, k) PROVE KeyHeld'
    BY <1>0, <1>19, CacheAssumption, ZenonT(40) DEF Call, Goto, At
<1>20. ASSUME NEW p \in Proc, StartSweep(p) PROVE KeyHeld'
    BY <1>20, Zenon DEF StartSweep, thr
<1>21. ASSUME NEW p \in Proc, NEW d \in Dir, SweepOpen(p, d) PROVE KeyHeld'
    BY <1>21, Zenon DEF SweepOpen, thr
<1>22. ASSUME NEW p \in Proc, NEW f \in File, SweepFile(p, f) PROVE KeyHeld'
    BY <1>22, Zenon DEF SweepFile, thr
<1>23. ASSUME NEW p \in Proc, SweepClose(p) PROVE KeyHeld'
    BY <1>23, Zenon DEF SweepClose, thr
<1>24. ASSUME NEW p \in Proc, SweepEnd(p) PROVE KeyHeld'
    BY <1>24, Zenon DEF SweepEnd, thr
<1>25. ASSUME NEW p \in Proc, BeginClear(p) PROVE KeyHeld'
    BY <1>25, Zenon DEF BeginClear, thr
<1>26. ASSUME NEW p \in Proc, ClearMemory(p) PROVE KeyHeld'
    BY <1>26, Zenon DEF ClearMemory, thr
<1>27. ASSUME NEW p \in Proc, Crash(p) PROVE KeyHeld'
    BY <1>0, <1>27, CacheAssumption, ZenonT(40) DEF Crash, P
<1>28. CASE UNCHANGED vars
    BY <1>28, Zenon DEF vars, thr
<1>. QED
    BY <1>1, <1>2, <1>3, <1>4, <1>5, <1>6, <1>7, <1>8, <1>9, <1>10, <1>11,
       <1>12, <1>13, <1>14, <1>15, <1>16, <1>17, <1>18, <1>19, <1>20, <1>21,
       <1>22, <1>23, <1>24, <1>25, <1>26, <1>27, <1>28, ZenonT(40)
    DEF Next, ThreadStep, SweepStep, Done

\* A compilation gets a number of its own.
LEMMA OwnDirsStep == TypeOK /\ OwnDirs /\ [Next]_vars => OwnDirs'
<1> SUFFICES ASSUME TypeOK, OwnDirs, [Next]_vars PROVE OwnDirs'
    OBVIOUS
<1> USE DEF OwnDirs, Owning, Saving
<1>0. /\ pc \in [Thread -> Label]
      /\ own \in [Thread -> Dir \cup {None}]
      /\ last \in 0..MaxDirs
    BY ZenonT(40) DEF TypeOK
<1>1. ASSUME NEW t \in Thread, CheckMemory(t) PROVE OwnDirs'
    BY <1>0, <1>1, ZenonT(40) DEF CheckMemory, Goto, bounds, At
<1>2. ASSUME NEW t \in Thread, CreateDirs(t) PROVE OwnDirs'
    BY <1>0, <1>2, ZenonT(40) DEF CreateDirs, Goto, bounds, At
<1>3. ASSUME NEW t \in Thread, LockKey(t) PROVE OwnDirs'
    BY <1>0, <1>3, ZenonT(40) DEF LockKey, Goto, bounds, At
<1>4. ASSUME NEW t \in Thread, Recheck(t) PROVE OwnDirs'
    BY <1>0, <1>4, ZenonT(40) DEF Recheck, Goto, bounds, At
<1>5. ASSUME NEW t \in Thread, ReadSource(t) PROVE OwnDirs'
    BY <1>0, <1>5, ZenonT(40) DEF ReadSource, Read, Goto, bounds, At
<1>6. ASSUME NEW t \in Thread, ReadParams(t) PROVE OwnDirs'
    BY <1>0, <1>6, ZenonT(40) DEF ReadParams, Read, Goto, bounds, At
<1>7. ASSUME NEW t \in Thread, BuildKernel(t) PROVE OwnDirs'
    BY <1>0, <1>7, ZenonT(40) DEF BuildKernel, Goto, bounds, At
<1>8. ASSUME NEW t \in Thread, Compile(t) PROVE OwnDirs'
    BY <1>0, <1>8, SMTT(30) DEF Compile, Goto, At
<1>9. ASSUME NEW t \in Thread, CompileRaises(t) PROVE OwnDirs'
    BY <1>0, <1>9, ZenonT(40) DEF CompileRaises, Goto, bounds, At
<1>10. ASSUME NEW t \in Thread, BeginSave(t) PROVE OwnDirs'
    BY <1>0, <1>10, ZenonT(120) DEF BeginSave, Goto, bounds, At
<1>11. ASSUME NEW t \in Thread, WriteSource(t) PROVE OwnDirs'
    BY <1>0, <1>11, ZenonT(40) DEF WriteSource, Write, Goto, bounds, At
<1>12. ASSUME NEW t \in Thread, WriteLib(t) PROVE OwnDirs'
    BY <1>0, <1>12, ZenonT(40) DEF WriteLib, Write, Goto, bounds, At
<1>13. ASSUME NEW t \in Thread, WriteParams(t) PROVE OwnDirs'
    BY <1>0, <1>13, ZenonT(40) DEF WriteParams, Write, Goto, bounds, At
<1>14. ASSUME NEW t \in Thread, CheckStaging(t) PROVE OwnDirs'
    BY <1>0, <1>14, ZenonT(40) DEF CheckStaging, Goto, bounds, At
<1>15. ASSUME NEW t \in Thread, Repair(t) PROVE OwnDirs'
    BY <1>0, <1>15, SMTT(30) DEF Repair, Goto, bounds, At
<1>16. ASSUME NEW t \in Thread, Rename(t) PROVE OwnDirs'
    BY <1>0, <1>16, ZenonT(40) DEF Rename, Goto, bounds, At
<1>17. ASSUME NEW t \in Thread, AbandonSave(t) PROVE OwnDirs'
    BY <1>0, <1>17, ZenonT(40) DEF AbandonSave, Goto, bounds, At
<1>18. ASSUME NEW t \in Thread, Store(t) PROVE OwnDirs'
    BY <1>0, <1>18, ZenonT(40) DEF Store, Goto, bounds, At
<1>19. ASSUME NEW t \in Thread, NEW k \in Key, Call(t, k) PROVE OwnDirs'
    BY <1>0, <1>19, ZenonT(40) DEF Call, Goto, At
<1>20. ASSUME NEW p \in Proc, StartSweep(p) PROVE OwnDirs'
    BY <1>20, Zenon DEF StartSweep, thr, bounds
<1>21. ASSUME NEW p \in Proc, NEW d \in Dir, SweepOpen(p, d) PROVE OwnDirs'
    BY <1>21, Zenon DEF SweepOpen, thr, bounds
<1>22. ASSUME NEW p \in Proc, NEW f \in File, SweepFile(p, f) PROVE OwnDirs'
    BY <1>22, Zenon DEF SweepFile, thr, bounds
<1>23. ASSUME NEW p \in Proc, SweepClose(p) PROVE OwnDirs'
    BY <1>23, Zenon DEF SweepClose, thr, bounds
<1>24. ASSUME NEW p \in Proc, SweepEnd(p) PROVE OwnDirs'
    BY <1>24, Zenon DEF SweepEnd, thr, bounds
<1>25. ASSUME NEW p \in Proc, BeginClear(p) PROVE OwnDirs'
    BY <1>25, Zenon DEF BeginClear, thr
<1>26. ASSUME NEW p \in Proc, ClearMemory(p) PROVE OwnDirs'
    BY <1>26, Zenon DEF ClearMemory, thr
<1>27. ASSUME NEW p \in Proc, Crash(p) PROVE OwnDirs'
    BY <1>0, <1>27, ZenonT(40) DEF Crash
<1>28. CASE UNCHANGED vars
    BY <1>28, Zenon DEF vars, thr, bounds
<1>. QED
    BY <1>1, <1>2, <1>3, <1>4, <1>5, <1>6, <1>7, <1>8, <1>9, <1>10, <1>11,
       <1>12, <1>13, <1>14, <1>15, <1>16, <1>17, <1>18, <1>19, <1>20, <1>21,
       <1>22, <1>23, <1>24, <1>25, <1>26, <1>27, <1>28, ZenonT(40)
    DEF Next, ThreadStep, SweepStep, Done

\* Only the rename makes a directory visible, and takes it out of staging.
LEMMA EntriesSettledStep == TypeOK /\ OwnDirs /\ EntriesSettled /\ [Next]_vars => EntriesSettled'
<1> SUFFICES ASSUME TypeOK, OwnDirs, EntriesSettled, [Next]_vars PROVE EntriesSettled'
    BY ZenonT(40)
<1> USE DEF EntriesSettled, Owning, Saving
<1>0. /\ entry \in [Key -> Dir \cup {None}]
      /\ staged \subseteq Dir
      /\ last \in 0..MaxDirs
      /\ own \in [Thread -> Dir \cup {None}]
      /\ pc \in [Thread -> Label]
    BY ZenonT(40) DEF TypeOK
<1>1. ASSUME NEW t \in Thread, CheckMemory(t) PROVE EntriesSettled'
    BY <1>0, <1>1, ZenonT(40) DEF CheckMemory, Goto, disk, bounds, At
<1>2. ASSUME NEW t \in Thread, CreateDirs(t) PROVE EntriesSettled'
    BY <1>0, <1>2, ZenonT(40) DEF CreateDirs, Goto, bounds, At
<1>3. ASSUME NEW t \in Thread, LockKey(t) PROVE EntriesSettled'
    BY <1>0, <1>3, ZenonT(40) DEF LockKey, Goto, disk, bounds, At
<1>4. ASSUME NEW t \in Thread, Recheck(t) PROVE EntriesSettled'
    BY <1>0, <1>4, ZenonT(40) DEF Recheck, Goto, disk, bounds, At
<1>5. ASSUME NEW t \in Thread, ReadSource(t) PROVE EntriesSettled'
    BY <1>0, <1>5, ZenonT(40) DEF ReadSource, Read, Goto, disk, bounds, At
<1>6. ASSUME NEW t \in Thread, ReadParams(t) PROVE EntriesSettled'
    BY <1>0, <1>6, ZenonT(40) DEF ReadParams, Read, Goto, disk, bounds, At
<1>7. ASSUME NEW t \in Thread, BuildKernel(t) PROVE EntriesSettled'
    BY <1>0, <1>7, ZenonT(40) DEF BuildKernel, Goto, disk, bounds, At
<1>8. ASSUME NEW t \in Thread, Compile(t) PROVE EntriesSettled'
    BY <1>0, <1>8, SMTT(30) DEF Compile, Goto, disk, At, Dir
<1>9. ASSUME NEW t \in Thread, CompileRaises(t) PROVE EntriesSettled'
    BY <1>0, <1>9, ZenonT(40) DEF CompileRaises, Goto, disk, bounds, At
<1>10. ASSUME NEW t \in Thread, BeginSave(t) PROVE EntriesSettled'
    BY <1>0, <1>10, ZenonT(40) DEF BeginSave, Goto, bounds, At, D
<1>11. ASSUME NEW t \in Thread, WriteSource(t) PROVE EntriesSettled'
    BY <1>0, <1>11, ZenonT(40) DEF WriteSource, Write, Goto, bounds, At
<1>12. ASSUME NEW t \in Thread, WriteLib(t) PROVE EntriesSettled'
    BY <1>0, <1>12, ZenonT(40) DEF WriteLib, Write, Goto, bounds, At
<1>13. ASSUME NEW t \in Thread, WriteParams(t) PROVE EntriesSettled'
    BY <1>0, <1>13, ZenonT(40) DEF WriteParams, Write, Goto, bounds, At
<1>14. ASSUME NEW t \in Thread, CheckStaging(t) PROVE EntriesSettled'
    BY <1>0, <1>14, ZenonT(40) DEF CheckStaging, Goto, disk, bounds, At
<1>15. ASSUME NEW t \in Thread, Repair(t) PROVE EntriesSettled'
  <2>1. staged' = staged /\ last' = last /\ own' = own
    BY <1>15, ZenonT(40) DEF Repair, bounds
  <2>2. \A k \in Key : entry'[k] \in {None, entry[k]}
    BY <1>0, <1>15, ZenonT(40) DEF Repair, K
  <2>3. \A u \in Thread : pc'[u] = pc[u] \/ pc[u] = "repair"
    BY <1>0, <1>15, ZenonT(40) DEF Repair, At, Goto
  <2>. QED
    BY <1>0, <2>1, <2>2, <2>3, ZenonT(40)
<1>16. ASSUME NEW t \in Thread, Rename(t) PROVE EntriesSettled'
    BY <1>0, <1>16, CacheAssumption, SMTT(30) DEF Rename, Goto, bounds, At, K, D, OwnDirs
<1>17. ASSUME NEW t \in Thread, AbandonSave(t) PROVE EntriesSettled'
    BY <1>0, <1>17, ZenonT(40) DEF AbandonSave, Goto, bounds, At, D
<1>18. ASSUME NEW t \in Thread, Store(t) PROVE EntriesSettled'
    BY <1>0, <1>18, ZenonT(40) DEF Store, Goto, disk, bounds, At
<1>19. ASSUME NEW t \in Thread, NEW k \in Key, Call(t, k) PROVE EntriesSettled'
    BY <1>0, <1>19, ZenonT(40) DEF Call, Goto, disk, At
<1>20. ASSUME NEW p \in Proc, StartSweep(p) PROVE EntriesSettled'
    BY <1>20, Zenon DEF StartSweep, disk, thr, bounds
<1>21. ASSUME NEW p \in Proc, NEW d \in Dir, SweepOpen(p, d) PROVE EntriesSettled'
    BY <1>21, Zenon DEF SweepOpen, disk, thr, bounds
<1>22. ASSUME NEW p \in Proc, NEW f \in File, SweepFile(p, f) PROVE EntriesSettled'
    BY <1>22, ZenonT(40) DEF SweepFile, thr, bounds
<1>23. ASSUME NEW p \in Proc, SweepClose(p) PROVE EntriesSettled'
    BY <1>0, <1>23, CacheAssumption, ZenonT(40) DEF SweepClose, thr, bounds
<1>24. ASSUME NEW p \in Proc, SweepEnd(p) PROVE EntriesSettled'
    BY <1>24, Zenon DEF SweepEnd, thr, bounds
<1>25. ASSUME NEW p \in Proc, BeginClear(p) PROVE EntriesSettled'
    BY <1>25, Zenon DEF BeginClear, disk, thr
<1>26. ASSUME NEW p \in Proc, ClearMemory(p) PROVE EntriesSettled'
    BY <1>26, Zenon DEF ClearMemory, disk, thr
<1>27. ASSUME NEW p \in Proc, Crash(p) PROVE EntriesSettled'
    BY <1>0, <1>27, ZenonT(40) DEF Crash, disk
<1>28. CASE UNCHANGED vars
    BY <1>28, Zenon DEF vars, disk, thr, bounds
<1>. QED
    BY <1>1, <1>2, <1>3, <1>4, <1>5, <1>6, <1>7, <1>8, <1>9, <1>10, <1>11,
       <1>12, <1>13, <1>14, <1>15, <1>16, <1>17, <1>18, <1>19, <1>20, <1>21,
       <1>22, <1>23, <1>24, <1>25, <1>26, <1>27, <1>28, ZenonT(40)
    DEF Next, ThreadStep, SweepStep, Done

\* Every step preserves the types.
LEMMA TypeStep == TypeOK /\ KeyHeld /\ OwnDirs /\ [Next]_vars => TypeOK'
<1> SUFFICES ASSUME TypeOK, KeyHeld, OwnDirs, [Next]_vars PROVE TypeOK'
    BY ZenonT(40)
<1>0. /\ mem \in [Proc -> [Key -> Kernel \cup {None}]]
      /\ mlock \in [Proc -> Thread \cup Proc \cup {None}]
      /\ flock \in [Key -> Thread \cup {None}]
      /\ entry \in [Key -> Dir \cup {None}]
      /\ staged \subseteq Dir
      /\ files \in [Dir -> SUBSET File]
      /\ root \in BOOLEAN
      /\ pc \in [Thread -> Label]
      /\ req \in [Thread -> Key \cup {None}]
      /\ own \in [Thread -> Dir \cup {None}]
      /\ got \in [Thread -> [File -> Dir \cup {None}]]
      /\ calls \in [Thread -> 0..MaxCalls]
      /\ last \in 0..MaxDirs
      /\ phase \in [Proc -> {"boot", "sweepStale", "up", "clearCache", "clearStaging"}]
      /\ todo \in [Proc -> SUBSET Dir]
      /\ open \in [Proc -> Dir \cup {None}]
      /\ left \in [Proc -> SUBSET File]
      /\ crashes \in Nat
      /\ clears \in Nat
    BY ZenonT(40) DEF TypeOK
<1>1. ASSUME NEW t \in Thread, CheckMemory(t) PROVE TypeOK'
  <2>1. (pc \in [Thread -> Label])'
    BY <1>0, <1>1, ZenonT(40) DEF CheckMemory, Goto, Label, Saving
  <2>. QED
    BY <1>0, <1>1, <2>1, Zenon DEF CheckMemory, disk, bounds, sweep, TypeOK
<1>2. ASSUME NEW t \in Thread, CreateDirs(t) PROVE TypeOK'
  <2>1. (root \in BOOLEAN)'
    BY <1>0, <1>2, ZenonT(40) DEF CreateDirs
  <2>2. (pc \in [Thread -> Label])'
    BY <1>0, <1>2, ZenonT(40) DEF CreateDirs, Goto, Label, Saving
  <2>. QED
    BY <1>0, <1>2, <2>1, <2>2, Zenon DEF CreateDirs, bounds, sweep, TypeOK
<1>3. ASSUME NEW t \in Thread, LockKey(t) PROVE TypeOK'
  <2>1. (flock \in [Key -> Thread \cup {None}])'
    BY <1>0, <1>3, Zenon DEF LockKey, K
  <2>2. (pc \in [Thread -> Label])'
    BY <1>0, <1>3, ZenonT(40) DEF LockKey, Goto, Label, Saving
  <2>. QED
    BY <1>0, <1>3, <2>1, <2>2, Zenon DEF LockKey, disk, bounds, sweep, TypeOK
<1>4. ASSUME NEW t \in Thread, Recheck(t) PROVE TypeOK'
  <2>1. (mlock \in [Proc -> Thread \cup Proc \cup {None}])'
    BY <1>0, <1>4, Zenon DEF Recheck, P
  <2>2. (flock \in [Key -> Thread \cup {None}])'
    BY <1>0, <1>4, ZenonT(40) DEF Recheck, K
  <2>3. (pc \in [Thread -> Label])'
    BY <1>0, <1>4, ZenonT(40) DEF Recheck, Goto, Label, Saving
  <2>. QED
    BY <1>0, <1>4, <2>1, <2>2, <2>3, Zenon DEF Recheck, disk, bounds, sweep, TypeOK
<1>5. ASSUME NEW t \in Thread, ReadSource(t) PROVE TypeOK'
  <2>0. req[t] \in Key
    BY <1>5, ZenonT(40) DEF ReadSource, Read, At, KeyHeld
  <2>1. (pc \in [Thread -> Label])'
    BY <1>0, <1>5, ZenonT(40) DEF ReadSource, Read, Goto, Label, Saving
  <2>2. (got \in [Thread -> [File -> Dir \cup {None}]])'
    BY <1>0, <1>5, <2>0, ZenonT(40) DEF ReadSource, Read, K, File
  <2>. QED
    BY <1>0, <1>5, <2>1, <2>2, Zenon DEF ReadSource, Read, disk, bounds, sweep, TypeOK
<1>6. ASSUME NEW t \in Thread, ReadParams(t) PROVE TypeOK'
  <2>0. req[t] \in Key
    BY <1>6, ZenonT(40) DEF ReadParams, Read, At, KeyHeld
  <2>1. (pc \in [Thread -> Label])'
    BY <1>0, <1>6, ZenonT(40) DEF ReadParams, Read, Goto, Label, Saving
  <2>2. (got \in [Thread -> [File -> Dir \cup {None}]])'
    BY <1>0, <1>6, <2>0, ZenonT(40) DEF ReadParams, Read, K, File
  <2>. QED
    BY <1>0, <1>6, <2>1, <2>2, Zenon DEF ReadParams, Read, disk, bounds, sweep, TypeOK
<1>7. ASSUME NEW t \in Thread, BuildKernel(t) PROVE TypeOK'
  <2>0. req[t] \in Key
    BY <1>7, ZenonT(40) DEF BuildKernel, At, KeyHeld
  <2>1. (mem \in [Proc -> [Key -> Kernel \cup {None}]])'
    <3> DEFINE text == got[t]["source"] # None /\ got[t]["params"] # None
    <3>1. ASSUME NEW d \in Dir, text PROVE [got[t] EXCEPT !["lib"] = d] \in Kernel
      <4>1. got[t] \in [File -> Dir \cup {None}]
        BY <1>0, ZenonT(40)
      <4>2. [got[t] EXCEPT !["lib"] = d] = [f \in File |-> IF f = "lib" THEN d ELSE got[t][f]]
        BY <4>1, ZenonT(40)
      <4>3. \A f \in File : (IF f = "lib" THEN d ELSE got[t][f]) \in Dir
        BY <3>1, <4>1, ZenonT(40) DEF File
      <4>. QED
        BY <4>2, <4>3, Zenon DEF Kernel
    <3>2. \/ mem' = mem
          \/ /\ text
             /\ \E d \in Dir :
                  mem' = [mem EXCEPT ![ProcOf[t]][req[t]] = [got[t] EXCEPT !["lib"] = d]]
      <4>1. entry[req[t]] \in Dir \cup {None} /\ got[t]["source"] \in Dir \cup {None}
        BY <1>0, <2>0, SMTT(30) DEF File
      <4>2. CASE ~text
        BY <4>2, <1>7, ZenonT(40) DEF BuildKernel
      <4>3. CASE text
        BY <4>1, <4>3, <1>7, ZenonT(40) DEF BuildKernel, P, K
      <4>. QED
        BY <4>2, <4>3, ZenonT(40)
    <3>3. ASSUME NEW x \in Kernel, mem' = [mem EXCEPT ![ProcOf[t]][req[t]] = x]
          PROVE  (mem \in [Proc -> [Key -> Kernel \cup {None}]])'
      BY <1>0, <3>3, Zenon
    <3>. QED
      BY <1>0, <3>1, <3>2, <3>3, Zenon
  <2>2. (mlock \in [Proc -> Thread \cup Proc \cup {None}])'
    BY <1>0, <1>7, Zenon DEF BuildKernel, P
  <2>3. (flock \in [Key -> Thread \cup {None}])'
    BY <1>0, <1>7, Zenon DEF BuildKernel, K
  <2>4. (pc \in [Thread -> Label])'
    BY <1>0, <1>7, ZenonT(40) DEF BuildKernel, Goto, Label, Saving
  <2>5. (got \in [Thread -> [File -> Dir \cup {None}]])'
    BY <1>0, <1>7, <2>0, SMTT(30) DEF BuildKernel, K, File
  <2>. QED
    BY <1>0, <1>7, <2>1, <2>2, <2>3, <2>4, <2>5, ZenonT(40) DEF BuildKernel, disk, bounds, sweep, TypeOK
<1>8. ASSUME NEW t \in Thread, Compile(t) PROVE TypeOK'
  <2>1. (pc \in [Thread -> Label])'
    BY <1>0, <1>8, ZenonT(40) DEF Compile, Goto, Label, Saving
  <2>2. (own \in [Thread -> Dir \cup {None}])'
    BY <1>0, <1>8, CacheAssumption, SMTT(30) DEF Compile, Dir
  <2>3. (last \in 0..MaxDirs)'
    BY <1>0, <1>8, CacheAssumption, SMTT(30) DEF Compile
  <2>. QED
    BY <1>0, <1>8, <2>1, <2>2, <2>3, ZenonT(40) DEF Compile, disk, sweep, TypeOK
<1>9. ASSUME NEW t \in Thread, CompileRaises(t) PROVE TypeOK'
  <2>1. (flock \in [Key -> Thread \cup {None}])'
    BY <1>0, <1>9, Zenon DEF CompileRaises, K
  <2>2. (pc \in [Thread -> Label])'
    BY <1>0, <1>9, ZenonT(40) DEF CompileRaises, Goto, Label, Saving
  <2>. QED
    BY <1>0, <1>9, <2>1, <2>2, Zenon DEF CompileRaises, disk, bounds, sweep, TypeOK
<1>10. ASSUME NEW t \in Thread, BeginSave(t) PROVE TypeOK'
  <2>0. own[t] \in Dir
    BY <1>0, <1>10, CacheAssumption, SMTT(30) DEF BeginSave, At, OwnDirs, Owning, Saving, Dir
  <2>1. (mlock \in [Proc -> Thread \cup Proc \cup {None}])'
    BY <1>0, <1>10, ZenonT(40) DEF BeginSave, P
  <2>2. (staged \subseteq Dir)'
    BY <1>0, <1>10, <2>0, ZenonT(40) DEF BeginSave, D
  <2>3. (root \in BOOLEAN)'
    BY <1>0, <1>10, ZenonT(40) DEF BeginSave
  <2>4. (pc \in [Thread -> Label])'
    BY <1>0, <1>10, ZenonT(40) DEF BeginSave, Goto, Label, Saving
  <2>. QED
    BY <1>0, <1>10, <2>1, <2>2, <2>3, <2>4, ZenonT(40) DEF BeginSave, bounds, sweep, TypeOK
<1>11. ASSUME NEW t \in Thread, WriteSource(t) PROVE TypeOK'
  <2>0. own[t] \in Dir /\ files[own[t]] \cup ({"source"} \cap SavedFiles) \in SUBSET File
    BY <1>0, <1>11, ZenonT(40) DEF WriteSource, Write, D, SavedFiles, File
  <2>1. (files \in [Dir -> SUBSET File])'
    BY <1>0, <1>11, <2>0, ZenonT(40) DEF WriteSource, Write, D
  <2>2. (pc \in [Thread -> Label])'
    BY <1>0, <1>11, ZenonT(40) DEF WriteSource, Write, Goto, Label, Saving
  <2>. QED
    BY <1>0, <1>11, <2>1, <2>2, ZenonT(40) DEF WriteSource, Write, bounds, sweep, TypeOK
<1>12. ASSUME NEW t \in Thread, WriteLib(t) PROVE TypeOK'
  <2>0. own[t] \in Dir /\ files[own[t]] \cup ({"lib"} \cap SavedFiles) \in SUBSET File
    BY <1>0, <1>12, ZenonT(40) DEF WriteLib, Write, D, SavedFiles, File
  <2>1. (files \in [Dir -> SUBSET File])'
    BY <1>0, <1>12, <2>0, ZenonT(40) DEF WriteLib, Write, D
  <2>2. (pc \in [Thread -> Label])'
    BY <1>0, <1>12, ZenonT(40) DEF WriteLib, Write, Goto, Label, Saving
  <2>. QED
    BY <1>0, <1>12, <2>1, <2>2, ZenonT(40) DEF WriteLib, Write, bounds, sweep, TypeOK
<1>13. ASSUME NEW t \in Thread, WriteParams(t) PROVE TypeOK'
  <2>0. own[t] \in Dir /\ files[own[t]] \cup ({"params"} \cap SavedFiles) \in SUBSET File
    BY <1>0, <1>13, ZenonT(40) DEF WriteParams, Write, D, SavedFiles, File
  <2>1. (files \in [Dir -> SUBSET File])'
    BY <1>0, <1>13, <2>0, ZenonT(40) DEF WriteParams, Write, D
  <2>2. (pc \in [Thread -> Label])'
    BY <1>0, <1>13, ZenonT(40) DEF WriteParams, Write, Goto, Label, Saving
  <2>. QED
    BY <1>0, <1>13, <2>1, <2>2, ZenonT(40) DEF WriteParams, Write, bounds, sweep, TypeOK
<1>14. ASSUME NEW t \in Thread, CheckStaging(t) PROVE TypeOK'
  <2>1. (pc \in [Thread -> Label])'
    BY <1>0, <1>14, ZenonT(40) DEF CheckStaging, Goto, Label, Saving
  <2>. QED
    BY <1>0, <1>14, <2>1, ZenonT(40) DEF CheckStaging, disk, bounds, sweep, TypeOK
<1>15. ASSUME NEW t \in Thread, Repair(t) PROVE TypeOK'
  <2>0. \/ files' = files
        \/ /\ entry[req[t]] \in Dir
           /\ \E f \in File : files' = [files EXCEPT ![entry[req[t]]] = @ \ {f}]
    <3>1. req[t] \in Key
      BY <1>15, ZenonT(40) DEF Repair, At, KeyHeld
    <3>. QED
      BY <1>0, <3>1, <1>15, ZenonT(40) DEF Repair, K
  <2>1. (entry \in [Key -> Dir \cup {None}])'
    BY <1>0, <1>15, ZenonT(40) DEF Repair, K
  <2>2. (files \in [Dir -> SUBSET File])'
    <3>1. CASE files' = files
      BY <1>0, <3>1, ZenonT(40)
    <3>2. CASE /\ entry[req[t]] \in Dir
               /\ \E f \in File : files' = [files EXCEPT ![entry[req[t]]] = @ \ {f}]
      <4>1. PICK f \in File : files' = [files EXCEPT ![entry[req[t]]] = @ \ {f}]
        BY <3>2, Zenon
      <4>. QED
        BY <1>0, <3>2, <4>1, ZenonT(40)
    <3>. QED
      BY <2>0, <3>1, <3>2, ZenonT(40)
  <2>3. (pc \in [Thread -> Label])'
    BY <1>0, <1>15, Zenon DEF Repair, Goto, Label, Saving
  <2>. QED
    BY <1>0, <1>15, <2>1, <2>2, <2>3, ZenonT(40) DEF Repair, bounds, sweep, TypeOK
<1>16. ASSUME NEW t \in Thread, Rename(t) PROVE TypeOK'
  <2>0. own[t] \in Dir
    BY <1>0, <1>16, CacheAssumption, SMTT(30) DEF Rename, At, OwnDirs, Owning, Saving, Dir
  <2>1. (entry \in [Key -> Dir \cup {None}])'
    BY <1>0, <1>16, <2>0, Zenon DEF Rename, K, D
  <2>2. (staged \subseteq Dir)'
    BY <1>0, <1>16, <2>0, ZenonT(40) DEF Rename, D
  <2>3. (pc \in [Thread -> Label])'
    BY <1>0, <1>16, ZenonT(40) DEF Rename, Goto, Label, Saving
  <2>. QED
    BY <1>0, <1>16, <2>1, <2>2, <2>3, ZenonT(40) DEF Rename, bounds, sweep, TypeOK
<1>17. ASSUME NEW t \in Thread, AbandonSave(t) PROVE TypeOK'
  <2>1. (staged \subseteq Dir)'
    BY <1>0, <1>17, ZenonT(40) DEF AbandonSave, D
  <2>2. (files \in [Dir -> SUBSET File])'
    BY <1>0, <1>17, ZenonT(40) DEF AbandonSave, D
  <2>3. (pc \in [Thread -> Label])'
    BY <1>0, <1>17, ZenonT(40) DEF AbandonSave, Goto, Label, Saving
  <2>. QED
    BY <1>0, <1>17, <2>1, <2>2, <2>3, ZenonT(40) DEF AbandonSave, bounds, sweep, TypeOK
<1>18. ASSUME NEW t \in Thread, Store(t) PROVE TypeOK'
  <2>0. own[t] \in Dir
    BY <1>0, <1>18, CacheAssumption, SMTT(30) DEF Store, At, OwnDirs, Owning, Saving, Dir
  <2>1. (mem \in [Proc -> [Key -> Kernel \cup {None}]])'
    <3>1. Built(own[t]) \in Kernel
      BY <2>0, ZenonT(40) DEF Built, Kernel
    <3>. QED
      BY <1>0, <1>18, <3>1, Zenon DEF Store, P, K, D
  <2>2. (mlock \in [Proc -> Thread \cup Proc \cup {None}])'
    BY <1>0, <1>18, Zenon DEF Store, P
  <2>3. (flock \in [Key -> Thread \cup {None}])'
    BY <1>0, <1>18, ZenonT(40) DEF Store, K
  <2>4. (pc \in [Thread -> Label])'
    BY <1>0, <1>18, ZenonT(40) DEF Store, Goto, Label, Saving
  <2>. QED
    BY <1>0, <1>18, <2>1, <2>2, <2>3, <2>4, ZenonT(40) DEF Store, disk, bounds, sweep, TypeOK
<1>19. ASSUME NEW t \in Thread, NEW k \in Key, Call(t, k) PROVE TypeOK'
  <2>1. (pc \in [Thread -> Label])'
    BY <1>0, <1>19, ZenonT(40) DEF Call, Goto, Label, Saving
  <2>2. (req \in [Thread -> Key \cup {None}])'
    BY <1>0, <1>19, CacheAssumption, ZenonT(40) DEF Call
  <2>3. (got \in [Thread -> [File -> Dir \cup {None}]])'
    BY <1>0, <1>19, ZenonT(40) DEF Call, NoFiles
  <2>4. (calls \in [Thread -> 0..MaxCalls])'
    BY <1>0, <1>19, CacheAssumption, SMTT(30) DEF Call
  <2>. QED
    BY <1>0, <1>19, <2>1, <2>2, <2>3, <2>4, ZenonT(40) DEF Call, disk, sweep, TypeOK
<1>20. ASSUME NEW p \in Proc, StartSweep(p) PROVE TypeOK'
  <2>1. (phase \in [Proc -> {"boot", "sweepStale", "up", "clearCache", "clearStaging"}])'
    BY <1>0, <1>20, ZenonT(40) DEF StartSweep
  <2>2. (todo \in [Proc -> SUBSET Dir])'
    BY <1>0, <1>20, ZenonT(40) DEF StartSweep
  <2>. QED
    BY <1>0, <1>20, <2>1, <2>2, ZenonT(40) DEF StartSweep, disk, thr, bounds, TypeOK
<1>21. ASSUME NEW p \in Proc, NEW d \in Dir, SweepOpen(p, d) PROVE TypeOK'
  <2>1. (todo \in [Proc -> SUBSET Dir])'
    BY <1>0, <1>21, ZenonT(40) DEF SweepOpen
  <2>2. (open \in [Proc -> Dir \cup {None}])'
    BY <1>0, <1>21, ZenonT(40) DEF SweepOpen
  <2>3. (left \in [Proc -> SUBSET File])'
    BY <1>0, <1>21, ZenonT(40) DEF SweepOpen
  <2>. QED
    BY <1>0, <1>21, <2>1, <2>2, <2>3, ZenonT(40) DEF SweepOpen, disk, thr, bounds, TypeOK
<1>22. ASSUME NEW p \in Proc, NEW f \in File, SweepFile(p, f) PROVE TypeOK'
  <2>1. (files \in [Dir -> SUBSET File])'
    BY <1>0, <1>22, ZenonT(40) DEF SweepFile
  <2>2. (left \in [Proc -> SUBSET File])'
    BY <1>0, <1>22, ZenonT(40) DEF SweepFile
  <2>. QED
    BY <1>0, <1>22, <2>1, <2>2, ZenonT(40) DEF SweepFile, thr, bounds, TypeOK
<1>23. ASSUME NEW p \in Proc, SweepClose(p) PROVE TypeOK'
  <2>1. (entry \in [Key -> Dir \cup {None}])'
    BY <1>0, <1>23, ZenonT(40) DEF SweepClose
  <2>2. (staged \subseteq Dir)'
    BY <1>0, <1>23, ZenonT(40) DEF SweepClose
  <2>3. (open \in [Proc -> Dir \cup {None}])'
    BY <1>0, <1>23, ZenonT(40) DEF SweepClose
  <2>. QED
    BY <1>0, <1>23, <2>1, <2>2, <2>3, ZenonT(40) DEF SweepClose, thr, bounds, TypeOK
<1>24. ASSUME NEW p \in Proc, SweepEnd(p) PROVE TypeOK'
  <2>1. (mlock \in [Proc -> Thread \cup Proc \cup {None}])'
    BY <1>0, <1>24, Zenon DEF SweepEnd
  <2>2. (root \in BOOLEAN)'
    BY <1>0, <1>24, Zenon DEF SweepEnd
  <2>3. (phase \in [Proc -> {"boot", "sweepStale", "up", "clearCache", "clearStaging"}])'
    BY <1>0, <1>24, ZenonT(40) DEF SweepEnd
  <2>4. (todo \in [Proc -> SUBSET Dir])'
    BY <1>0, <1>24, ZenonT(40) DEF SweepEnd
  <2>. QED
    BY <1>0, <1>24, <2>1, <2>2, <2>3, <2>4, ZenonT(40) DEF SweepEnd, thr, bounds, TypeOK
<1>25. ASSUME NEW p \in Proc, BeginClear(p) PROVE TypeOK'
  <2>1. (mem \in [Proc -> [Key -> Kernel \cup {None}]])'
    BY <1>0, <1>25, ZenonT(40) DEF BeginClear
  <2>2. (mlock \in [Proc -> Thread \cup Proc \cup {None}])'
    BY <1>0, <1>25, ZenonT(40) DEF BeginClear
  <2>3. (phase \in [Proc -> {"boot", "sweepStale", "up", "clearCache", "clearStaging"}])'
    BY <1>0, <1>25, ZenonT(40) DEF BeginClear
  <2>4. (todo \in [Proc -> SUBSET Dir])'
    BY <1>0, <1>25, SMTT(30) DEF BeginClear
  <2>5. (clears \in Nat)'
    BY <1>0, <1>25, SMTT(30) DEF BeginClear
  <2>. QED
    BY <1>0, <1>25, <2>1, <2>2, <2>3, <2>4, <2>5, ZenonT(40) DEF BeginClear, disk, thr, TypeOK
<1>26. ASSUME NEW p \in Proc, ClearMemory(p) PROVE TypeOK'
  <2>1. (mem \in [Proc -> [Key -> Kernel \cup {None}]])'
    BY <1>0, <1>26, ZenonT(40) DEF ClearMemory
  <2>2. (crashes \in Nat)'
    BY <1>0, <1>26, SMTT(30) DEF ClearMemory
  <2>. QED
    BY <1>0, <1>26, <2>1, <2>2, ZenonT(40) DEF ClearMemory, disk, thr, sweep, TypeOK
<1>27. ASSUME NEW p \in Proc, Crash(p) PROVE TypeOK'
  <2>1. (mem \in [Proc -> [Key -> Kernel \cup {None}]])'
    BY <1>0, <1>27, ZenonT(40) DEF Crash
  <2>2. (mlock \in [Proc -> Thread \cup Proc \cup {None}])'
    BY <1>0, <1>27, CacheAssumption, ZenonT(40) DEF Crash
  <2>3. (flock \in [Key -> Thread \cup {None}])'
    BY <1>0, <1>27, CacheAssumption, ZenonT(40) DEF Crash, P
  <2>4. (pc \in [Thread -> Label])'
    BY <1>0, <1>27, ZenonT(40) DEF Crash, P, Label
  <2>5. (phase \in [Proc -> {"boot", "sweepStale", "up", "clearCache", "clearStaging"}])'
    BY <1>0, <1>27, ZenonT(40) DEF Crash
  <2>6. (todo \in [Proc -> SUBSET Dir])'
    BY <1>0, <1>27, ZenonT(40) DEF Crash
  <2>7. (open \in [Proc -> Dir \cup {None}])'
    BY <1>0, <1>27, ZenonT(40) DEF Crash
  <2>8. (left \in [Proc -> SUBSET File])'
    BY <1>0, <1>27, ZenonT(40) DEF Crash
  <2>9. (crashes \in Nat)'
    BY <1>0, <1>27, CacheAssumption, SMTT(30) DEF Crash
  <2>. QED
    BY <1>0, <1>27, <2>1, <2>2, <2>3, <2>4, <2>5, <2>6, <2>7, <2>8, <2>9, ZenonT(40) DEF Crash, disk, TypeOK
<1>28. CASE UNCHANGED vars
    BY <1>28, Zenon DEF vars, disk, thr, bounds, sweep, TypeOK
<1>. QED
    BY <1>1, <1>2, <1>3, <1>4, <1>5, <1>6, <1>7, <1>8, <1>9, <1>10, <1>11,
       <1>12, <1>13, <1>14, <1>15, <1>16, <1>17, <1>18, <1>19, <1>20, <1>21,
       <1>22, <1>23, <1>24, <1>25, <1>26, <1>27, <1>28, ZenonT(40)
    DEF Next, ThreadStep, SweepStep, Done
============================================================================
