------------------------- MODULE KernelStoreProofs -------------------------
(***************************************************************************)
(* What the kernel cache guarantees of its directories: no save leaves its *)
(* staging directory behind, an entry is complete from the rename until    *)
(* someone clears the cache, a save that meets no error persists its       *)
(* kernel, and the whole of it implements the store of KernelStore.        *)
(*                                                                         *)
(* The sweep of stale staging directories is what the proofs turn on.  It  *)
(* goes by age, so that a writer that pauses for an hour can lose files    *)
(* even after its rename (the sweep holds the directory open); hence the   *)
(* theorems about entries assume SlowWriters = FALSE.                      *)
(***************************************************************************)
EXTENDS KernelCacheProofs

\* A staging directory is that of a save in progress or of none at all: not of
\* a save that has not begun or that is over.
StagingInUse ==
    \A d \in staged :
        /\ d \in 1..last
        /\ \A t \in Thread : own[t] = d /\ pc[t] \in Owning => pc[t] \in Saving

\* No two keys share a directory.
EntriesDistinct ==
    \A j, k \in Key : entry[j] # None /\ entry[j] = entry[k] => j = k

\* The save goes on from a miss, and puts its own directory in place or none.
MissedSave ==
    \A t \in Thread :
        /\ pc[t] \in {"save"} \cup Saving => ~Complete(entry[req[t]])
        /\ pc[t] = "store" /\ Complete(entry[req[t]]) => entry[req[t]] = own[t]

\* Nobody is in clear_cache before the first call of it.
ClearsCounted == clears = 0 => \A p \in Proc : phase[p] \notin {"clearCache", "clearStaging"}

\* Until then a sweep has in hand only directories whose save is over and which
\* are visible at no cache path: no one can rename them into place any more.
SweepsDead ==
    clears = 0 => \A p \in Proc, d \in Dir : d \in todo[p] \/ d = open[p] =>
        /\ d <= last
        /\ \A k \in Key : entry[k] # d
        /\ \A t \in Thread : own[t] = d => pc[t] \notin Owning

\* Until then a directory that has passed the check is still complete when it
\* is renamed.
CheckedComplete ==
    clears = 0 => \A t \in Thread : pc[t] \in {"repair", "rename"} => Complete(own[t])

StoreInv ==
    /\ IInv
    /\ StagingInUse
    /\ EntriesDistinct
    /\ MissedSave
    /\ ClearsCounted
    /\ SweepsDead
    /\ CheckedComplete
    /\ PublishedComplete

\* Without errors and clears: the staging directory of a save stays where it
\* is and has the files written so far.
Written(label) ==
    CASE label = "writeLib" -> {"source"}
      [] label = "writeParams" -> {"source", "lib"}
      [] label \in {"checkStaging", "repair", "rename"} -> {"source", "lib", "params"}
      [] OTHER -> {}
SavesWhole ==
    \A t \in Thread : pc[t] \in Saving =>
        own[t] \in staged /\ Written(pc[t]) \cap SavedFiles \subseteq files[own[t]]

PersistInv ==
    /\ StoreInv
    /\ clears = 0
    /\ root
    /\ SavesWhole
    /\ Persisted
----------------------------------------------------------------------------
\* What any step does to the counters and to the cache root.
LEMMA Counting == TypeOK /\ [Next]_vars =>
    /\ last' \in {last, last + 1}
    /\ clears' = clears \/ (clears < MaxClears /\ clears' = clears + 1)
    /\ root' = TRUE \/ root' = root \/ \E p \in Proc : phase[p] = "clearCache"
<1> DEFINE Counts ==
      /\ last' \in {last, last + 1}
      /\ clears' = clears \/ (clears < MaxClears /\ clears' = clears + 1)
      /\ root' = TRUE \/ root' = root \/ \E p \in Proc : phase[p] = "clearCache"
<1> SUFFICES ASSUME TypeOK, [Next]_vars PROVE Counts
    BY ZenonT(40)
<1>1. ASSUME NEW t \in Thread, CheckMemory(t) PROVE Counts
    BY <1>1, Zenon DEF CheckMemory, disk, bounds
<1>2. ASSUME NEW t \in Thread, CreateDirs(t) PROVE Counts
    BY <1>2, Zenon DEF CreateDirs, disk, bounds
<1>3. ASSUME NEW t \in Thread, LockKey(t) PROVE Counts
    BY <1>3, Zenon DEF LockKey, disk, bounds
<1>4. ASSUME NEW t \in Thread, Recheck(t) PROVE Counts
    BY <1>4, Zenon DEF Recheck, disk, bounds
<1>5. ASSUME NEW t \in Thread, ReadSource(t) PROVE Counts
    BY <1>5, Zenon DEF ReadSource, Read, disk, bounds
<1>6. ASSUME NEW t \in Thread, ReadParams(t) PROVE Counts
    BY <1>6, Zenon DEF ReadParams, Read, disk, bounds
<1>7. ASSUME NEW t \in Thread, BuildKernel(t) PROVE Counts
    BY <1>7, Zenon DEF BuildKernel, disk, bounds
<1>8. ASSUME NEW t \in Thread, Compile(t) PROVE Counts
    BY <1>8, Zenon DEF Compile, disk, bounds
<1>9. ASSUME NEW t \in Thread, CompileRaises(t) PROVE Counts
    BY <1>9, Zenon DEF CompileRaises, disk, bounds
<1>10. ASSUME NEW t \in Thread, BeginSave(t) PROVE Counts
    BY <1>10, Zenon DEF BeginSave, disk, bounds
<1>11. ASSUME NEW t \in Thread, WriteSource(t) PROVE Counts
    BY <1>11, Zenon DEF WriteSource, Write, disk, bounds
<1>12. ASSUME NEW t \in Thread, WriteLib(t) PROVE Counts
    BY <1>12, Zenon DEF WriteLib, Write, disk, bounds
<1>13. ASSUME NEW t \in Thread, WriteParams(t) PROVE Counts
    BY <1>13, Zenon DEF WriteParams, Write, disk, bounds
<1>14. ASSUME NEW t \in Thread, CheckStaging(t) PROVE Counts
    BY <1>14, Zenon DEF CheckStaging, disk, bounds
<1>15. ASSUME NEW t \in Thread, Repair(t) PROVE Counts
    BY <1>15, Zenon DEF Repair, disk, bounds
<1>16. ASSUME NEW t \in Thread, Rename(t) PROVE Counts
    BY <1>16, Zenon DEF Rename, disk, bounds
<1>17. ASSUME NEW t \in Thread, AbandonSave(t) PROVE Counts
    BY <1>17, Zenon DEF AbandonSave, disk, bounds
<1>18. ASSUME NEW t \in Thread, Store(t) PROVE Counts
    BY <1>18, Zenon DEF Store, disk, bounds
<1>19. ASSUME NEW t \in Thread, NEW k \in Key, Call(t, k) PROVE Counts
    BY <1>19, Zenon DEF Call, disk, bounds
<1>20. ASSUME NEW p \in Proc, StartSweep(p) PROVE Counts
    BY <1>20, Zenon DEF StartSweep, disk, bounds
<1>21. ASSUME NEW p \in Proc, NEW d \in Dir, SweepOpen(p, d) PROVE Counts
    BY <1>21, Zenon DEF SweepOpen, disk, bounds
<1>22. ASSUME NEW p \in Proc, NEW f \in File, SweepFile(p, f) PROVE Counts
    BY <1>22, Zenon DEF SweepFile, disk, bounds
<1>23. ASSUME NEW p \in Proc, SweepClose(p) PROVE Counts
    BY <1>23, Zenon DEF SweepClose, disk, bounds
<1>24. ASSUME NEW p \in Proc, SweepEnd(p) PROVE Counts
    BY <1>24, Zenon DEF SweepEnd, disk, bounds
<1>25. ASSUME NEW p \in Proc, BeginClear(p) PROVE Counts
    BY <1>25, Zenon DEF BeginClear, disk, bounds
<1>26. ASSUME NEW p \in Proc, ClearMemory(p) PROVE Counts
    BY <1>26, Zenon DEF ClearMemory, disk, bounds
<1>27. ASSUME NEW p \in Proc, Crash(p) PROVE Counts
    BY <1>27, Zenon DEF Crash, disk, bounds
<1>28. CASE UNCHANGED vars
    BY <1>28, Zenon DEF vars, disk, bounds
<1>. QED
    BY <1>1, <1>2, <1>3, <1>4, <1>5, <1>6, <1>7, <1>8, <1>9, <1>10, <1>11,
       <1>12, <1>13, <1>14, <1>15, <1>16, <1>17, <1>18, <1>19, <1>20,
       <1>21, <1>22, <1>23, <1>24, <1>25, <1>26, <1>27, <1>28, ZenonT(40)
    DEF Next, ThreadStep, SweepStep, Done

\* How a thread gets to the labels of a save: only a thread itself moves its
\* label, apart from the crash of its process.
Saves(u) ==
    pc'[u] \in Owning =>
        \/ pc'[u] = pc[u] /\ own'[u] = own[u] /\ req'[u] = req[u]
        \/ Compile(u) \/ BeginSave(u) \/ WriteSource(u) \/ WriteLib(u) \/ WriteParams(u)
        \/ CheckStaging(u) \/ Repair(u) \/ Rename(u) \/ AbandonSave(u)

\* Every step moves the labels of a save this way.
LEMMA SaveMoves == TypeOK /\ [Next]_vars => \A u \in Thread : Saves(u)
<1> DEFINE All == \A u \in Thread : Saves(u)
<1> SUFFICES ASSUME TypeOK, [Next]_vars PROVE All
    BY ZenonT(40)
<1> USE DEF Saves
<1>0. pc \in [Thread -> Label] /\ own \in [Thread -> Dir \cup {None}] /\ req \in [Thread -> Key \cup {None}]
    BY Zenon DEF TypeOK
<1>1. ASSUME NEW t \in Thread, CheckMemory(t) PROVE All
    BY <1>0, <1>1, Zenon DEF CheckMemory, Goto, Owning, Saving
<1>2. ASSUME NEW t \in Thread, CreateDirs(t) PROVE All
    BY <1>0, <1>2, Zenon DEF CreateDirs, Goto, Owning, Saving
<1>3. ASSUME NEW t \in Thread, LockKey(t) PROVE All
    BY <1>0, <1>3, Zenon DEF LockKey, Goto, Owning, Saving
<1>4. ASSUME NEW t \in Thread, Recheck(t) PROVE All
    BY <1>0, <1>4, Zenon DEF Recheck, Goto, Owning, Saving
<1>5. ASSUME NEW t \in Thread, ReadSource(t) PROVE All
    BY <1>0, <1>5, Zenon DEF ReadSource, Read, Goto, Owning, Saving
<1>6. ASSUME NEW t \in Thread, ReadParams(t) PROVE All
    BY <1>0, <1>6, Zenon DEF ReadParams, Read, Goto, Owning, Saving
<1>7. ASSUME NEW t \in Thread, BuildKernel(t) PROVE All
    BY <1>0, <1>7, Zenon DEF BuildKernel, Goto, Owning, Saving
<1>8. ASSUME NEW t \in Thread, Compile(t) PROVE All
    BY <1>0, <1>8, Zenon DEF Compile, Goto
<1>9. ASSUME NEW t \in Thread, CompileRaises(t) PROVE All
    BY <1>0, <1>9, Zenon DEF CompileRaises, Goto, Owning, Saving
<1>10. ASSUME NEW t \in Thread, BeginSave(t) PROVE All
    BY <1>0, <1>10, Zenon DEF BeginSave, Goto
<1>11. ASSUME NEW t \in Thread, WriteSource(t) PROVE All
    BY <1>0, <1>11, Zenon DEF WriteSource, Write, Goto
<1>12. ASSUME NEW t \in Thread, WriteLib(t) PROVE All
    BY <1>0, <1>12, Zenon DEF WriteLib, Write, Goto
<1>13. ASSUME NEW t \in Thread, WriteParams(t) PROVE All
    BY <1>0, <1>13, Zenon DEF WriteParams, Write, Goto
<1>14. ASSUME NEW t \in Thread, CheckStaging(t) PROVE All
    BY <1>0, <1>14, Zenon DEF CheckStaging, Goto
<1>15. ASSUME NEW t \in Thread, Repair(t) PROVE All
    BY <1>0, <1>15, ZenonT(40) DEF Repair, Goto
<1>16. ASSUME NEW t \in Thread, Rename(t) PROVE All
    BY <1>0, <1>16, Zenon DEF Rename, Goto
<1>17. ASSUME NEW t \in Thread, AbandonSave(t) PROVE All
    BY <1>0, <1>17, Zenon DEF AbandonSave, Goto
<1>18. ASSUME NEW t \in Thread, Store(t) PROVE All
    BY <1>0, <1>18, Zenon DEF Store, Goto, Owning, Saving
<1>19. ASSUME NEW t \in Thread, NEW k \in Key, Call(t, k) PROVE All
    BY <1>0, <1>19, Zenon DEF Call, Goto, Owning, Saving
<1>20. ASSUME NEW p \in Proc, StartSweep(p) PROVE All
    BY <1>20, Zenon DEF StartSweep, thr
<1>21. ASSUME NEW p \in Proc, NEW d \in Dir, SweepOpen(p, d) PROVE All
    BY <1>21, Zenon DEF SweepOpen, thr
<1>22. ASSUME NEW p \in Proc, NEW f \in File, SweepFile(p, f) PROVE All
    BY <1>22, Zenon DEF SweepFile, thr
<1>23. ASSUME NEW p \in Proc, SweepClose(p) PROVE All
    BY <1>23, Zenon DEF SweepClose, thr
<1>24. ASSUME NEW p \in Proc, SweepEnd(p) PROVE All
    BY <1>24, Zenon DEF SweepEnd, thr
<1>25. ASSUME NEW p \in Proc, BeginClear(p) PROVE All
    BY <1>25, Zenon DEF BeginClear, thr
<1>26. ASSUME NEW p \in Proc, ClearMemory(p) PROVE All
    BY <1>26, Zenon DEF ClearMemory, thr
<1>27. ASSUME NEW p \in Proc, Crash(p) PROVE All
    BY <1>0, <1>27, Zenon DEF Crash, Owning, Saving
<1>28. CASE UNCHANGED vars
    BY <1>28, Zenon DEF vars, thr
<1>. QED
    BY <1>1, <1>2, <1>3, <1>4, <1>5, <1>6, <1>7, <1>8, <1>9, <1>10, <1>11,
       <1>12, <1>13, <1>14, <1>15, <1>16, <1>17, <1>18, <1>19, <1>20,
       <1>21, <1>22, <1>23, <1>24, <1>25, <1>26, <1>27, <1>28, ZenonT(40)
    DEF Next, ThreadStep, SweepStep, Done

\* What a step does to the files of a directory.
Touches(d) ==
    \/ files'[d] = files[d]
    \/ \E t \in Thread : /\ d \in staged /\ own[t] = d /\ files[d] \subseteq files'[d]
                         /\ WriteSource(t) \/ WriteLib(t) \/ WriteParams(t)
    \/ \E t \in Thread : AbandonSave(t) /\ own[t] = d
    \/ \E t \in Thread : Repair(t) /\ entry[req[t]] = d /\ ~Complete(d)
    \/ \E p \in Proc, f \in File : SweepFile(p, f) /\ open[p] = d

\* Every step changes the files of a directory in one of these ways.
LEMMA FileMoves == TypeOK /\ KeyHeld /\ [Next]_vars => \A d \in Dir : Touches(d)
<1> DEFINE All == \A d \in Dir : Touches(d)
<1> SUFFICES ASSUME TypeOK, KeyHeld, [Next]_vars PROVE All
    BY ZenonT(40)
<1> USE DEF Touches
<1>0. /\ files \in [Dir -> SUBSET File]
      /\ own \in [Thread -> Dir \cup {None}]
      /\ staged \subseteq Dir
      /\ entry \in [Key -> Dir \cup {None}]
    BY Zenon DEF TypeOK
<1>1. ASSUME NEW t \in Thread, CheckMemory(t) PROVE All
    BY <1>1, Zenon DEF CheckMemory, disk
<1>2. ASSUME NEW t \in Thread, CreateDirs(t) PROVE All
    BY <1>2, Zenon DEF CreateDirs, disk
<1>3. ASSUME NEW t \in Thread, LockKey(t) PROVE All
    BY <1>3, Zenon DEF LockKey, disk
<1>4. ASSUME NEW t \in Thread, Recheck(t) PROVE All
    BY <1>4, Zenon DEF Recheck, disk
<1>5. ASSUME NEW t \in Thread, ReadSource(t) PROVE All
    BY <1>5, Zenon DEF ReadSource, Read, disk
<1>6. ASSUME NEW t \in Thread, ReadParams(t) PROVE All
    BY <1>6, Zenon DEF ReadParams, Read, disk
<1>7. ASSUME NEW t \in Thread, BuildKernel(t) PROVE All
    BY <1>7, Zenon DEF BuildKernel, disk
<1>8. ASSUME NEW t \in Thread, Compile(t) PROVE All
    BY <1>8, Zenon DEF Compile, disk
<1>9. ASSUME NEW t \in Thread, CompileRaises(t) PROVE All
    BY <1>9, Zenon DEF CompileRaises, disk
<1>10. ASSUME NEW t \in Thread, BeginSave(t) PROVE All
    BY <1>10, Zenon DEF BeginSave, disk
<1>11. ASSUME NEW t \in Thread, WriteSource(t) PROVE All
  <2>1. own[t] \in staged /\ own[t] \in Dir
    BY <1>0, <1>11, Zenon DEF WriteSource, Write, D
  <2>2. ASSUME NEW d \in Dir PROVE files'[d] = files[d] \/ (d = own[t] /\ files[d] \subseteq files'[d])
    BY <1>0, <1>11, <2>1, Zenon DEF WriteSource, Write, D
  <2>. QED
    BY <1>11, <2>1, <2>2, Zenon
<1>12. ASSUME NEW t \in Thread, WriteLib(t) PROVE All
  <2>1. own[t] \in staged /\ own[t] \in Dir
    BY <1>0, <1>12, Zenon DEF WriteLib, Write, D
  <2>2. ASSUME NEW d \in Dir PROVE files'[d] = files[d] \/ (d = own[t] /\ files[d] \subseteq files'[d])
    BY <1>0, <1>12, <2>1, Zenon DEF WriteLib, Write, D
  <2>. QED
    BY <1>12, <2>1, <2>2, Zenon
<1>13. ASSUME NEW t \in Thread, WriteParams(t) PROVE All
  <2>1. own[t] \in staged /\ own[t] \in Dir
    BY <1>0, <1>13, Zenon DEF WriteParams, Write, D
  <2>2. ASSUME NEW d \in Dir PROVE files'[d] = files[d] \/ (d = own[t] /\ files[d] \subseteq files'[d])
    BY <1>0, <1>13, <2>1, Zenon DEF WriteParams, Write, D
  <2>. QED
    BY <1>13, <2>1, <2>2, Zenon
<1>14. ASSUME NEW t \in Thread, CheckStaging(t) PROVE All
    BY <1>14, Zenon DEF CheckStaging, disk
<1>15. ASSUME NEW t \in Thread, Repair(t) PROVE All
  <2>1. req[t] \in Key
    BY <1>15, Zenon DEF Repair, At, KeyHeld
  <2>2. ASSUME NEW d \in Dir PROVE files'[d] = files[d] \/ (entry[req[t]] = d /\ ~Complete(d))
    BY <1>0, <1>15, <2>1, Zenon DEF Repair, K
  <2>. QED
    BY <1>15, <2>2, Zenon
<1>16. ASSUME NEW t \in Thread, Rename(t) PROVE All
    BY <1>16, Zenon DEF Rename, disk
<1>17. ASSUME NEW t \in Thread, AbandonSave(t) PROVE All
  <2>1. ASSUME NEW d \in Dir PROVE files'[d] = files[d] \/ own[t] = d
    BY <1>0, <1>17, Zenon DEF AbandonSave, D
  <2>. QED
    BY <1>17, <2>1, Zenon
<1>18. ASSUME NEW t \in Thread, Store(t) PROVE All
    BY <1>18, Zenon DEF Store, disk
<1>19. ASSUME NEW t \in Thread, NEW k \in Key, Call(t, k) PROVE All
    BY <1>19, Zenon DEF Call, disk
<1>20. ASSUME NEW p \in Proc, StartSweep(p) PROVE All
    BY <1>20, Zenon DEF StartSweep, disk
<1>21. ASSUME NEW p \in Proc, NEW d \in Dir, SweepOpen(p, d) PROVE All
    BY <1>21, Zenon DEF SweepOpen, disk
<1>22. ASSUME NEW p \in Proc, NEW f \in File, SweepFile(p, f) PROVE All
  <2>1. ASSUME NEW d \in Dir PROVE files'[d] = files[d] \/ open[p] = d
    BY <1>0, <1>22, Zenon DEF SweepFile
  <2>. QED
    BY <1>22, <2>1, Zenon
<1>23. ASSUME NEW p \in Proc, SweepClose(p) PROVE All
    BY <1>23, Zenon DEF SweepClose, disk
<1>24. ASSUME NEW p \in Proc, SweepEnd(p) PROVE All
    BY <1>24, Zenon DEF SweepEnd, disk
<1>25. ASSUME NEW p \in Proc, BeginClear(p) PROVE All
    BY <1>25, Zenon DEF BeginClear, disk
<1>26. ASSUME NEW p \in Proc, ClearMemory(p) PROVE All
    BY <1>26, Zenon DEF ClearMemory, disk
<1>27. ASSUME NEW p \in Proc, Crash(p) PROVE All
    BY <1>27, Zenon DEF Crash, disk
<1>28. CASE UNCHANGED vars
    BY <1>28, Zenon DEF vars, disk
<1>. QED
    BY <1>1, <1>2, <1>3, <1>4, <1>5, <1>6, <1>7, <1>8, <1>9, <1>10, <1>11,
       <1>12, <1>13, <1>14, <1>15, <1>16, <1>17, <1>18, <1>19, <1>20,
       <1>21, <1>22, <1>23, <1>24, <1>25, <1>26, <1>27, <1>28, ZenonT(40)
    DEF Next, ThreadStep, SweepStep, Done

\* A complete entry keeps its place: it is replaced by no rename, and rmdir
\* takes only what is empty.
LEMMA EntryStays == TypeOK /\ KeyHeld /\ [Next]_vars =>
    \A k \in Key : Complete(entry[k]) => entry'[k] = entry[k]
<1> DEFINE Stays == \A k \in Key : Complete(entry[k]) => entry'[k] = entry[k]
<1> SUFFICES ASSUME TypeOK, KeyHeld, [Next]_vars PROVE Stays
    BY ZenonT(40)
<1>0. entry \in [Key -> Dir \cup {None}] /\ files \in [Dir -> SUBSET File]
    BY Zenon DEF TypeOK
<1>a. \A k \in Key : Complete(entry[k]) => entry[k] # None /\ files[entry[k]] # {}
    BY Zenon DEF Complete
<1>1. ASSUME NEW t \in Thread, CheckMemory(t) PROVE Stays
    BY <1>1, Zenon DEF CheckMemory, disk
<1>2. ASSUME NEW t \in Thread, CreateDirs(t) PROVE Stays
    BY <1>2, Zenon DEF CreateDirs, disk
<1>3. ASSUME NEW t \in Thread, LockKey(t) PROVE Stays
    BY <1>3, Zenon DEF LockKey, disk
<1>4. ASSUME NEW t \in Thread, Recheck(t) PROVE Stays
    BY <1>4, Zenon DEF Recheck, disk
<1>5. ASSUME NEW t \in Thread, ReadSource(t) PROVE Stays
    BY <1>5, Zenon DEF ReadSource, Read, disk
<1>6. ASSUME NEW t \in Thread, ReadParams(t) PROVE Stays
    BY <1>6, Zenon DEF ReadParams, Read, disk
<1>7. ASSUME NEW t \in Thread, BuildKernel(t) PROVE Stays
    BY <1>7, Zenon DEF BuildKernel, disk
<1>8. ASSUME NEW t \in Thread, Compile(t) PROVE Stays
    BY <1>8, Zenon DEF Compile, disk
<1>9. ASSUME NEW t \in Thread, CompileRaises(t) PROVE Stays
    BY <1>9, Zenon DEF CompileRaises, disk
<1>10. ASSUME NEW t \in Thread, BeginSave(t) PROVE Stays
    BY <1>10, Zenon DEF BeginSave, disk
<1>11. ASSUME NEW t \in Thread, WriteSource(t) PROVE Stays
    BY <1>11, Zenon DEF WriteSource, Write, disk
<1>12. ASSUME NEW t \in Thread, WriteLib(t) PROVE Stays
    BY <1>12, Zenon DEF WriteLib, Write, disk
<1>13. ASSUME NEW t \in Thread, WriteParams(t) PROVE Stays
    BY <1>13, Zenon DEF WriteParams, Write, disk
<1>14. ASSUME NEW t \in Thread, CheckStaging(t) PROVE Stays
    BY <1>14, ZenonT(40) DEF CheckStaging, disk
<1>15. ASSUME NEW t \in Thread, Repair(t) PROVE Stays
    BY <1>0, <1>a, <1>15, ZenonT(40) DEF Repair, K
<1>16. ASSUME NEW t \in Thread, Rename(t) PROVE Stays
    BY <1>0, <1>a, <1>16, Zenon DEF Rename, K, Vacant
<1>17. ASSUME NEW t \in Thread, AbandonSave(t) PROVE Stays
    BY <1>17, Zenon DEF AbandonSave, disk
<1>18. ASSUME NEW t \in Thread, Store(t) PROVE Stays
    BY <1>18, Zenon DEF Store, disk
<1>19. ASSUME NEW t \in Thread, NEW k \in Key, Call(t, k) PROVE Stays
    BY <1>19, Zenon DEF Call, disk
<1>20. ASSUME NEW p \in Proc, StartSweep(p) PROVE Stays
    BY <1>20, Zenon DEF StartSweep, disk
<1>21. ASSUME NEW p \in Proc, NEW d \in Dir, SweepOpen(p, d) PROVE Stays
    BY <1>21, Zenon DEF SweepOpen, disk
<1>22. ASSUME NEW p \in Proc, NEW f \in File, SweepFile(p, f) PROVE Stays
    BY <1>22, Zenon DEF SweepFile, disk
<1>23. ASSUME NEW p \in Proc, SweepClose(p) PROVE Stays
    BY <1>0, <1>a, <1>23, Zenon DEF SweepClose
<1>24. ASSUME NEW p \in Proc, SweepEnd(p) PROVE Stays
    BY <1>24, Zenon DEF SweepEnd, disk
<1>25. ASSUME NEW p \in Proc, BeginClear(p) PROVE Stays
    BY <1>25, Zenon DEF BeginClear, disk
<1>26. ASSUME NEW p \in Proc, ClearMemory(p) PROVE Stays
    BY <1>26, Zenon DEF ClearMemory, disk
<1>27. ASSUME NEW p \in Proc, Crash(p) PROVE Stays
    BY <1>27, Zenon DEF Crash, disk
<1>28. CASE UNCHANGED vars
    BY <1>28, Zenon DEF vars, disk
<1>. QED
    BY <1>1, <1>2, <1>3, <1>4, <1>5, <1>6, <1>7, <1>8, <1>9, <1>10, <1>11,
       <1>12, <1>13, <1>14, <1>15, <1>16, <1>17, <1>18, <1>19, <1>20,
       <1>21, <1>22, <1>23, <1>24, <1>25, <1>26, <1>27, <1>28, ZenonT(40)
    DEF Next, ThreadStep, SweepStep, Done
----------------------------------------------------------------------------
\* While a thread holds the file lock of its key, nobody but itself makes a
\* directory visible there.
LEMMA HeldLosesOrRenames ==
    ASSUME TypeOK, KeyHeld, EntriesSettled, [Next]_vars,
           NEW u \in Thread, pc[u] \in InKeySection
    PROVE  req[u] \in Key /\ (Loses(req[u]) \/ Rename(u))
<1>1. req[u] \in Key /\ flock[req[u]] = u
    BY Zenon DEF KeyHeld, InKeySection, Loading, Saving
<1>2. ASSUME NEW t \in Thread, Rename(t), req[t] = req[u] PROVE t = u
    BY <1>1, <1>2, Zenon DEF KeyHeld, InKeySection, Saving, Rename, At
<1>. QED
    BY <1>1, <1>2, EntryLoses, Zenon

\* Every step out of a save takes the staging directory away, a crash apart.
LEMMA StagingStep ==
    TypeOK /\ OwnDirs /\ StagingInUse /\ [Next]_vars => StagingInUse'
<1> SUFFICES ASSUME TypeOK, OwnDirs, StagingInUse, [Next]_vars PROVE StagingInUse'
    BY ZenonT(40)
<1> USE DEF StagingInUse, Owning, Saving
<1>0. /\ pc \in [Thread -> Label]
      /\ own \in [Thread -> Dir \cup {None}]
      /\ staged \subseteq Dir
      /\ last \in 0..MaxDirs
    BY Zenon DEF TypeOK
<1>1. ASSUME NEW t \in Thread, CheckMemory(t) PROVE StagingInUse'
    BY <1>0, <1>1, Zenon DEF CheckMemory, Goto, At, D, disk, bounds
<1>2. ASSUME NEW t \in Thread, CreateDirs(t) PROVE StagingInUse'
    BY <1>0, <1>2, Zenon DEF CreateDirs, Goto, At, D, disk, bounds
<1>3. ASSUME NEW t \in Thread, LockKey(t) PROVE StagingInUse'
    BY <1>0, <1>3, Zenon DEF LockKey, Goto, At, D, disk, bounds
<1>4. ASSUME NEW t \in Thread, Recheck(t) PROVE StagingInUse'
    BY <1>0, <1>4, Zenon DEF Recheck, Goto, At, D, disk, bounds
<1>5. ASSUME NEW t \in Thread, ReadSource(t) PROVE StagingInUse'
    BY <1>0, <1>5, Zenon DEF ReadSource, Read, Goto, At, D, disk, bounds
<1>6. ASSUME NEW t \in Thread, ReadParams(t) PROVE StagingInUse'
    BY <1>0, <1>6, Zenon DEF ReadParams, Read, Goto, At, D, disk, bounds
<1>7. ASSUME NEW t \in Thread, BuildKernel(t) PROVE StagingInUse'
    BY <1>0, <1>7, Zenon DEF BuildKernel, Goto, At, D, disk, bounds
<1>8. ASSUME NEW t \in Thread, Compile(t) PROVE StagingInUse'
    BY <1>0, <1>8, CacheAssumption, SMTT(30) DEF Compile, Goto, At, disk, Dir
<1>9. ASSUME NEW t \in Thread, CompileRaises(t) PROVE StagingInUse'
    BY <1>0, <1>9, Zenon DEF CompileRaises, Goto, At, D, disk, bounds
<1>10. ASSUME NEW t \in Thread, BeginSave(t) PROVE StagingInUse'
    BY <1>0, <1>10, CacheAssumption, SMTT(30) DEF BeginSave, Goto, At, D, disk, bounds, OwnDirs
<1>11. ASSUME NEW t \in Thread, WriteSource(t) PROVE StagingInUse'
    BY <1>0, <1>11, Zenon DEF WriteSource, Write, Goto, At, D, disk, bounds
<1>12. ASSUME NEW t \in Thread, WriteLib(t) PROVE StagingInUse'
    BY <1>0, <1>12, Zenon DEF WriteLib, Write, Goto, At, D, disk, bounds
<1>13. ASSUME NEW t \in Thread, WriteParams(t) PROVE StagingInUse'
    BY <1>0, <1>13, Zenon DEF WriteParams, Write, Goto, At, D, disk, bounds
<1>14. ASSUME NEW t \in Thread, CheckStaging(t) PROVE StagingInUse'
    BY <1>0, <1>14, ZenonT(40) DEF CheckStaging, Goto, At, D, disk, bounds
<1>15. ASSUME NEW t \in Thread, Repair(t) PROVE StagingInUse'
    BY <1>0, <1>15, SMTT(30) DEF Repair, Goto, At, D, disk, bounds
<1>16. ASSUME NEW t \in Thread, Rename(t) PROVE StagingInUse'
    BY <1>0, <1>16, Zenon DEF Rename, Goto, At, D, disk, bounds
<1>17. ASSUME NEW t \in Thread, AbandonSave(t) PROVE StagingInUse'
    BY <1>0, <1>17, Zenon DEF AbandonSave, Goto, At, D, disk, bounds
<1>18. ASSUME NEW t \in Thread, Store(t) PROVE StagingInUse'
    BY <1>0, <1>18, Zenon DEF Store, Goto, At, D, disk, bounds
<1>19. ASSUME NEW t \in Thread, NEW k \in Key, Call(t, k) PROVE StagingInUse'
    BY <1>0, <1>19, Zenon DEF Call, Goto, At, D, disk, bounds
<1>20. ASSUME NEW p \in Proc, StartSweep(p) PROVE StagingInUse'
    BY <1>20, Zenon DEF StartSweep, disk, thr, bounds
<1>21. ASSUME NEW p \in Proc, NEW d \in Dir, SweepOpen(p, d) PROVE StagingInUse'
    BY <1>21, Zenon DEF SweepOpen, disk, thr, bounds
<1>22. ASSUME NEW p \in Proc, NEW f \in File, SweepFile(p, f) PROVE StagingInUse'
    BY <1>22, Zenon DEF SweepFile, thr, bounds
<1>23. ASSUME NEW p \in Proc, SweepClose(p) PROVE StagingInUse'
    BY <1>0, <1>23, Zenon DEF SweepClose, thr, bounds
<1>24. ASSUME NEW p \in Proc, SweepEnd(p) PROVE StagingInUse'
    BY <1>24, Zenon DEF SweepEnd, thr, bounds
<1>25. ASSUME NEW p \in Proc, BeginClear(p) PROVE StagingInUse'
    BY <1>25, Zenon DEF BeginClear, disk, thr
<1>26. ASSUME NEW p \in Proc, ClearMemory(p) PROVE StagingInUse'
    BY <1>26, Zenon DEF ClearMemory, disk, thr
<1>27. ASSUME NEW p \in Proc, Crash(p) PROVE StagingInUse'
    BY <1>0, <1>27, Zenon DEF Crash, disk
<1>28. CASE UNCHANGED vars
    BY <1>28, Zenon DEF vars, disk, thr, bounds
<1>. QED
    BY <1>1, <1>2, <1>3, <1>4, <1>5, <1>6, <1>7, <1>8, <1>9, <1>10, <1>11,
       <1>12, <1>13, <1>14, <1>15, <1>16, <1>17, <1>18, <1>19, <1>20,
       <1>21, <1>22, <1>23, <1>24, <1>25, <1>26, <1>27, <1>28, ZenonT(40)
    DEF Next, ThreadStep, SweepStep, Done

\* Rename and the except clauses both take the staging directory away.
LEMMA NoLeakStep == TypeOK /\ NoStagingLeak /\ [Next]_vars => NoStagingLeak'
<1> SUFFICES ASSUME TypeOK, NoStagingLeak, [Next]_vars PROVE NoStagingLeak'
    BY ZenonT(40)
<1> USE DEF NoStagingLeak, Live, Saving
<1>0. /\ pc \in [Thread -> Label]
      /\ own \in [Thread -> Dir \cup {None}]
      /\ crashes \in Nat
    BY Zenon DEF TypeOK
<1>1. ASSUME NEW t \in Thread, CheckMemory(t) PROVE NoStagingLeak'
    BY <1>0, <1>1, Zenon DEF CheckMemory, Goto, At, D, disk, bounds
<1>2. ASSUME NEW t \in Thread, CreateDirs(t) PROVE NoStagingLeak'
    BY <1>0, <1>2, Zenon DEF CreateDirs, Goto, At, D, disk, bounds
<1>3. ASSUME NEW t \in Thread, LockKey(t) PROVE NoStagingLeak'
    BY <1>0, <1>3, Zenon DEF LockKey, Goto, At, D, disk, bounds
<1>4. ASSUME NEW t \in Thread, Recheck(t) PROVE NoStagingLeak'
    BY <1>0, <1>4, Zenon DEF Recheck, Goto, At, D, disk, bounds
<1>5. ASSUME NEW t \in Thread, ReadSource(t) PROVE NoStagingLeak'
    BY <1>0, <1>5, Zenon DEF ReadSource, Read, Goto, At, D, disk, bounds
<1>6. ASSUME NEW t \in Thread, ReadParams(t) PROVE NoStagingLeak'
    BY <1>0, <1>6, Zenon DEF ReadParams, Read, Goto, At, D, disk, bounds
<1>7. ASSUME NEW t \in Thread, BuildKernel(t) PROVE NoStagingLeak'
    BY <1>0, <1>7, Zenon DEF BuildKernel, Goto, At, D, disk, bounds
<1>8. ASSUME NEW t \in Thread, Compile(t) PROVE NoStagingLeak'
    BY <1>0, <1>8, Zenon DEF Compile, Goto, At, D, disk, bounds
<1>9. ASSUME NEW t \in Thread, CompileRaises(t) PROVE NoStagingLeak'
    BY <1>0, <1>9, Zenon DEF CompileRaises, Goto, At, D, disk, bounds
<1>10. ASSUME NEW t \in Thread, BeginSave(t) PROVE NoStagingLeak'
    BY <1>0, <1>10, Zenon DEF BeginSave, Goto, At, D, disk, bounds
<1>11. ASSUME NEW t \in Thread, WriteSource(t) PROVE NoStagingLeak'
    BY <1>0, <1>11, Zenon DEF WriteSource, Write, Goto, At, D, disk, bounds
<1>12. ASSUME NEW t \in Thread, WriteLib(t) PROVE NoStagingLeak'
    BY <1>0, <1>12, Zenon DEF WriteLib, Write, Goto, At, D, disk, bounds
<1>13. ASSUME NEW t \in Thread, WriteParams(t) PROVE NoStagingLeak'
    BY <1>0, <1>13, Zenon DEF WriteParams, Write, Goto, At, D, disk, bounds
<1>14. ASSUME NEW t \in Thread, CheckStaging(t) PROVE NoStagingLeak'
    BY <1>0, <1>14, Zenon DEF CheckStaging, Goto, At, D, disk, bounds
<1>15. ASSUME NEW t \in Thread, Repair(t) PROVE NoStagingLeak'
    BY <1>0, <1>15, ZenonT(40) DEF Repair, Goto, At, D, disk, bounds
<1>16. ASSUME NEW t \in Thread, Rename(t) PROVE NoStagingLeak'
    BY <1>0, <1>16, Zenon DEF Rename, Goto, At, D, disk, bounds
<1>17. ASSUME NEW t \in Thread, AbandonSave(t) PROVE NoStagingLeak'
    BY <1>0, <1>17, Zenon DEF AbandonSave, Goto, At, D, disk, bounds
<1>18. ASSUME NEW t \in Thread, Store(t) PROVE NoStagingLeak'
    BY <1>0, <1>18, Zenon DEF Store, Goto, At, D, disk, bounds
<1>19. ASSUME NEW t \in Thread, NEW k \in Key, Call(t, k) PROVE NoStagingLeak'
    BY <1>0, <1>19, Zenon DEF Call, Goto, At, D, disk, bounds
<1>20. ASSUME NEW p \in Proc, StartSweep(p) PROVE NoStagingLeak'
    BY <1>20, Zenon DEF StartSweep, disk, thr, bounds
<1>21. ASSUME NEW p \in Proc, NEW d \in Dir, SweepOpen(p, d) PROVE NoStagingLeak'
    BY <1>21, Zenon DEF SweepOpen, disk, thr, bounds
<1>22. ASSUME NEW p \in Proc, NEW f \in File, SweepFile(p, f) PROVE NoStagingLeak'
    BY <1>22, Zenon DEF SweepFile, thr, bounds
<1>23. ASSUME NEW p \in Proc, SweepClose(p) PROVE NoStagingLeak'
    BY <1>0, <1>23, Zenon DEF SweepClose, thr, bounds
<1>24. ASSUME NEW p \in Proc, SweepEnd(p) PROVE NoStagingLeak'
    BY <1>24, Zenon DEF SweepEnd, thr, bounds
<1>25. ASSUME NEW p \in Proc, BeginClear(p) PROVE NoStagingLeak'
    BY <1>25, Zenon DEF BeginClear, disk, thr
<1>26. ASSUME NEW p \in Proc, ClearMemory(p) PROVE NoStagingLeak'
    BY <1>0, <1>26, SMTT(30) DEF ClearMemory
<1>27. ASSUME NEW p \in Proc, Crash(p) PROVE NoStagingLeak'
    BY <1>0, <1>27, SMTT(30) DEF Crash
<1>28. CASE UNCHANGED vars
    BY <1>28, Zenon DEF vars, disk, thr, bounds
<1>. QED
    BY <1>1, <1>2, <1>3, <1>4, <1>5, <1>6, <1>7, <1>8, <1>9, <1>10, <1>11,
       <1>12, <1>13, <1>14, <1>15, <1>16, <1>17, <1>18, <1>19, <1>20,
       <1>21, <1>22, <1>23, <1>24, <1>25, <1>26, <1>27, <1>28, ZenonT(40)
    DEF Next, ThreadStep, SweepStep, Done

\* A directory is renamed once.
LEMMA DistinctStep ==
    TypeOK /\ KeyHeld /\ EntriesSettled /\ EntriesDistinct /\ [Next]_vars => EntriesDistinct'
<1> SUFFICES ASSUME TypeOK, KeyHeld, EntriesSettled, EntriesDistinct, [Next]_vars PROVE EntriesDistinct'
    BY ZenonT(40)
<1>0. entry \in [Key -> Dir \cup {None}]
    BY Zenon DEF TypeOK
<1>1. ASSUME NEW t \in Thread, Rename(t) PROVE EntriesDistinct'
  <2>1. \A k \in Key : entry[k] # own[t]
    BY <1>1, CacheAssumption, ZenonT(120) DEF Rename, D, EntriesSettled, TypeOK
  <2>2. \A k \in Key : entry'[k] = IF k = req[t] THEN own[t] ELSE entry[k]
    BY <1>0, <1>1, Zenon DEF Rename, D, K
  <2>. QED
    BY <2>1, <2>2, Zenon DEF EntriesDistinct
<1>2. CASE \A t \in Thread : ~Rename(t)
    BY <1>2, EntryLoses, Zenon DEF Loses, EntriesDistinct
<1>. QED
    BY <1>1, <1>2, Zenon

\* A key whose save is in progress has no complete entry.
LEMMA MissedSaveStep ==
    TypeOK /\ KeyHeld /\ EntriesSettled /\ MissedDisk /\ MissedSave /\ [Next]_vars => MissedSave'
<1> SUFFICES ASSUME TypeOK, KeyHeld, EntriesSettled, MissedDisk, MissedSave, [Next]_vars,
                    NEW u \in Thread, pc'[u] \in Owning
             PROVE  MissedSave!(u)'
    BY Zenon DEF MissedSave, Owning
<1>1. Saves(u)
    BY SaveMoves, Zenon
<1>0. pc \in [Thread -> Label] /\ own \in [Thread -> Dir \cup {None}] /\ req \in [Thread -> Key \cup {None}]
    BY Zenon DEF TypeOK
<1>2. CASE Rename(u)
  <2>1. req[u] \in Key
    BY <1>2, Zenon DEF Rename, At, KeyHeld
  <2>2. pc'[u] = "store" /\ entry'[req[u]] = own[u] /\ own' = own /\ req' = req
    BY <1>0, <1>2, <2>1, Zenon DEF Rename, Goto, K, D, TypeOK
  <2>. QED
    BY <2>2, Zenon DEF Saving
<1>3. CASE ~Rename(u)
  <2>1. pc[u] \in {"compile"} \cup Owning /\ req'[u] = req[u]
    BY <1>0, <1>1, <1>3, Zenon DEF Saves, Compile, BeginSave, WriteSource, WriteLib, WriteParams, Write, CheckStaging,
          Repair, AbandonSave, At, Owning, Saving
  <2>2. req[u] \in Key /\ Loses(req[u])
    BY <1>3, <2>1, HeldLosesOrRenames, Zenon DEF InKeySection, Owning
  <2>3. Complete(entry[req[u]])' => Complete(entry[req[u]]) /\ entry'[req[u]] = entry[req[u]]
    BY <2>1, <2>2, LosesComplete, Zenon DEF Loses, Complete
  <2>4. CASE pc[u] # "store"
    BY <2>1, <2>3, <2>4, Zenon DEF MissedSave, MissedDisk, Owning
  <2>5. CASE pc[u] = "store"
    <3>1. pc'[u] = "store" /\ own'[u] = own[u]
      BY <1>0, <1>1, <1>3, <2>5, ZenonT(40) DEF Saves, Compile, BeginSave, WriteSource, WriteLib, WriteParams, Write,
            CheckStaging, Repair, AbandonSave, At, Saving
    <3>. QED
      BY <2>1, <2>3, <2>5, <3>1, Zenon DEF MissedSave, Saving
  <2>. QED
    BY <2>4, <2>5, Zenon
<1>. QED
    BY <1>2, <1>3, Zenon

\* clear_cache counts itself before it does anything.
LEMMA ClearsStep == TypeOK /\ ClearsCounted /\ [Next]_vars => ClearsCounted'
<1> SUFFICES ASSUME TypeOK, ClearsCounted, [Next]_vars PROVE ClearsCounted'
    OBVIOUS
<1> USE DEF ClearsCounted
<1>0. phase \in [Proc -> {"boot", "sweepStale", "up", "clearCache", "clearStaging"}] /\ clears \in Nat
    BY Zenon DEF TypeOK
<1>1. ASSUME NEW t \in Thread, CheckMemory(t) PROVE ClearsCounted'
    BY <1>1, Zenon DEF CheckMemory, bounds
<1>2. ASSUME NEW t \in Thread, CreateDirs(t) PROVE ClearsCounted'
    BY <1>2, Zenon DEF CreateDirs, bounds
<1>3. ASSUME NEW t \in Thread, LockKey(t) PROVE ClearsCounted'
    BY <1>3, Zenon DEF LockKey, bounds
<1>4. ASSUME NEW t \in Thread, Recheck(t) PROVE ClearsCounted'
    BY <1>4, Zenon DEF Recheck, bounds
<1>5. ASSUME NEW t \in Thread, ReadSource(t) PROVE ClearsCounted'
    BY <1>5, Zenon DEF ReadSource, Read, bounds
<1>6. ASSUME NEW t \in Thread, ReadParams(t) PROVE ClearsCounted'
    BY <1>6, Zenon DEF ReadParams, Read, bounds
<1>7. ASSUME NEW t \in Thread, BuildKernel(t) PROVE ClearsCounted'
    BY <1>7, Zenon DEF BuildKernel, bounds
<1>8. ASSUME NEW t \in Thread, Compile(t) PROVE ClearsCounted'
    BY <1>8, Zenon DEF Compile, bounds
<1>9. ASSUME NEW t \in Thread, CompileRaises(t) PROVE ClearsCounted'
    BY <1>9, Zenon DEF CompileRaises, bounds
<1>10. ASSUME NEW t \in Thread, BeginSave(t) PROVE ClearsCounted'
    BY <1>10, Zenon DEF BeginSave, bounds
<1>11. ASSUME NEW t \in Thread, WriteSource(t) PROVE ClearsCounted'
    BY <1>11, Zenon DEF WriteSource, Write, bounds
<1>12. ASSUME NEW t \in Thread, WriteLib(t) PROVE ClearsCounted'
    BY <1>12, Zenon DEF WriteLib, Write, bounds
<1>13. ASSUME NEW t \in Thread, WriteParams(t) PROVE ClearsCounted'
    BY <1>13, Zenon DEF WriteParams, Write, bounds
<1>14. ASSUME NEW t \in Thread, CheckStaging(t) PROVE ClearsCounted'
    BY <1>14, Zenon DEF CheckStaging, bounds
<1>15. ASSUME NEW t \in Thread, Repair(t) PROVE ClearsCounted'
    BY <1>15, Zenon DEF Repair, bounds
<1>16. ASSUME NEW t \in Thread, Rename(t) PROVE ClearsCounted'
    BY <1>16, Zenon DEF Rename, bounds
<1>17. ASSUME NEW t \in Thread, AbandonSave(t) PROVE ClearsCounted'
    BY <1>17, Zenon DEF AbandonSave, bounds
<1>18. ASSUME NEW t \in Thread, Store(t) PROVE ClearsCounted'
    BY <1>18, Zenon DEF Store, bounds
<1>19. ASSUME NEW t \in Thread, NEW k \in Key, Call(t, k) PROVE ClearsCounted'
    BY <1>19, Zenon DEF Call, bounds
<1>20. ASSUME NEW p \in Proc, StartSweep(p) PROVE ClearsCounted'
    BY <1>0, <1>20, Zenon DEF StartSweep, bounds
<1>21. ASSUME NEW p \in Proc, NEW d \in Dir, SweepOpen(p, d) PROVE ClearsCounted'
    BY <1>21, Zenon DEF SweepOpen, bounds
<1>22. ASSUME NEW p \in Proc, NEW f \in File, SweepFile(p, f) PROVE ClearsCounted'
    BY <1>22, Zenon DEF SweepFile, bounds
<1>23. ASSUME NEW p \in Proc, SweepClose(p) PROVE ClearsCounted'
    BY <1>23, Zenon DEF SweepClose, bounds
<1>24. ASSUME NEW p \in Proc, SweepEnd(p) PROVE ClearsCounted'
    BY <1>0, <1>24, Zenon DEF SweepEnd, bounds
<1>25. ASSUME NEW p \in Proc, BeginClear(p) PROVE ClearsCounted'
    BY <1>0, <1>25, SMTT(30) DEF BeginClear, bounds
<1>26. ASSUME NEW p \in Proc, ClearMemory(p) PROVE ClearsCounted'
    BY <1>26, Zenon DEF ClearMemory, bounds
<1>27. ASSUME NEW p \in Proc, Crash(p) PROVE ClearsCounted'
    BY <1>0, <1>27, Zenon DEF Crash, bounds
<1>28. CASE UNCHANGED vars
    BY <1>28, Zenon DEF vars, bounds
<1>. QED
    BY <1>1, <1>2, <1>3, <1>4, <1>5, <1>6, <1>7, <1>8, <1>9, <1>10, <1>11,
       <1>12, <1>13, <1>14, <1>15, <1>16, <1>17, <1>18, <1>19, <1>20,
       <1>21, <1>22, <1>23, <1>24, <1>25, <1>26, <1>27, <1>28, ZenonT(40)
    DEF Next, ThreadStep, SweepStep, Done

\* Until the first clear a sweep gets its directories from the staging root,
\* when its process starts.
LEMMA SweepMoves == TypeOK /\ ClearsCounted /\ [Next]_vars /\ clears' = 0 =>
    \A p \in Proc, d \in Dir : d \in todo'[p] \/ d = open'[p] =>
        \/ d \in todo[p] \/ d = open[p]
        \/ StartSweep(p) /\ d \in staged /\ (SlowWriters \/ ~Live(d))
<1> DEFINE Hand == \A p \in Proc, d \in Dir : d \in todo'[p] \/ d = open'[p] =>
        \/ d \in todo[p] \/ d = open[p]
        \/ StartSweep(p) /\ d \in staged /\ (SlowWriters \/ ~Live(d))
<1> SUFFICES ASSUME TypeOK, ClearsCounted, [Next]_vars, clears' = 0 PROVE Hand
    BY ZenonT(40)
<1>0. /\ todo \in [Proc -> SUBSET Dir]
      /\ open \in [Proc -> Dir \cup {None}]
      /\ clears \in Nat
    BY Zenon DEF TypeOK
<1>1. ASSUME NEW t \in Thread, CheckMemory(t) PROVE Hand
    BY <1>1, Zenon DEF CheckMemory, sweep
<1>2. ASSUME NEW t \in Thread, CreateDirs(t) PROVE Hand
    BY <1>2, Zenon DEF CreateDirs, sweep
<1>3. ASSUME NEW t \in Thread, LockKey(t) PROVE Hand
    BY <1>3, Zenon DEF LockKey, sweep
<1>4. ASSUME NEW t \in Thread, Recheck(t) PROVE Hand
    BY <1>4, Zenon DEF Recheck, sweep
<1>5. ASSUME NEW t \in Thread, ReadSource(t) PROVE Hand
    BY <1>5, Zenon DEF ReadSource, Read, sweep
<1>6. ASSUME NEW t \in Thread, ReadParams(t) PROVE Hand
    BY <1>6, Zenon DEF ReadParams, Read, sweep
<1>7. ASSUME NEW t \in Thread, BuildKernel(t) PROVE Hand
    BY <1>7, Zenon DEF BuildKernel, sweep
<1>8. ASSUME NEW t \in Thread, Compile(t) PROVE Hand
    BY <1>8, Zenon DEF Compile, sweep
<1>9. ASSUME NEW t \in Thread, CompileRaises(t) PROVE Hand
    BY <1>9, Zenon DEF CompileRaises, sweep
<1>10. ASSUME NEW t \in Thread, BeginSave(t) PROVE Hand
    BY <1>10, Zenon DEF BeginSave, sweep
<1>11. ASSUME NEW t \in Thread, WriteSource(t) PROVE Hand
    BY <1>11, Zenon DEF WriteSource, Write, sweep
<1>12. ASSUME NEW t \in Thread, WriteLib(t) PROVE Hand
    BY <1>12, Zenon DEF WriteLib, Write, sweep
<1>13. ASSUME NEW t \in Thread, WriteParams(t) PROVE Hand
    BY <1>13, Zenon DEF WriteParams, Write, sweep
<1>14. ASSUME NEW t \in Thread, CheckStaging(t) PROVE Hand
    BY <1>14, Zenon DEF CheckStaging, sweep
<1>15. ASSUME NEW t \in Thread, Repair(t) PROVE Hand
    BY <1>15, Zenon DEF Repair, sweep
<1>16. ASSUME NEW t \in Thread, Rename(t) PROVE Hand
    BY <1>16, Zenon DEF Rename, sweep
<1>17. ASSUME NEW t \in Thread, AbandonSave(t) PROVE Hand
    BY <1>17, Zenon DEF AbandonSave, sweep
<1>18. ASSUME NEW t \in Thread, Store(t) PROVE Hand
    BY <1>18, Zenon DEF Store, sweep
<1>19. ASSUME NEW t \in Thread, NEW k \in Key, Call(t, k) PROVE Hand
    BY <1>19, Zenon DEF Call, sweep
<1>20. ASSUME NEW p \in Proc, StartSweep(p) PROVE Hand
  <2>1. PICK old \in SUBSET {d \in staged : SlowWriters \/ ~Live(d)} : todo' = [todo EXCEPT ![p] = old]
    BY <1>20, Zenon DEF StartSweep
  <2>2. open' = open /\ \A q \in Proc : todo'[q] = IF q = p THEN old ELSE todo[q]
    BY <1>0, <1>20, <2>1, ZenonT(40) DEF StartSweep
  <2>. QED
    BY <1>20, <2>2, Zenon
<1>21. ASSUME NEW p \in Proc, NEW d \in Dir, SweepOpen(p, d) PROVE Hand
    BY <1>0, <1>21, CacheAssumption, Zenon DEF SweepOpen
<1>22. ASSUME NEW p \in Proc, NEW f \in File, SweepFile(p, f) PROVE Hand
    BY <1>22, Zenon DEF SweepFile, sweep
<1>23. ASSUME NEW p \in Proc, SweepClose(p) PROVE Hand
    BY <1>0, <1>23, CacheAssumption, Zenon DEF SweepClose
<1>24. ASSUME NEW p \in Proc, SweepEnd(p) PROVE Hand
    BY <1>0, <1>24, CacheAssumption, Zenon DEF SweepEnd, ClearsCounted, bounds
<1>25. ASSUME NEW p \in Proc, BeginClear(p) PROVE Hand
    BY <1>0, <1>25, SMTT(30) DEF BeginClear
<1>26. ASSUME NEW p \in Proc, ClearMemory(p) PROVE Hand
    BY <1>26, Zenon DEF ClearMemory, sweep
<1>27. ASSUME NEW p \in Proc, Crash(p) PROVE Hand
    BY <1>0, <1>27, CacheAssumption, Zenon DEF Crash
<1>28. CASE UNCHANGED vars
    BY <1>28, Zenon DEF vars, sweep
<1>. QED
    BY <1>1, <1>2, <1>3, <1>4, <1>5, <1>6, <1>7, <1>8, <1>9, <1>10, <1>11,
       <1>12, <1>13, <1>14, <1>15, <1>16, <1>17, <1>18, <1>19, <1>20,
       <1>21, <1>22, <1>23, <1>24, <1>25, <1>26, <1>27, <1>28, ZenonT(40)
    DEF Next, ThreadStep, SweepStep, Done

\* A thread in a save was in it, with the same directory, or has just compiled.
LEMMA OwningMoves ==
    ASSUME TypeOK, [Next]_vars, NEW u \in Thread, pc'[u] \in Owning
    PROVE  \/ pc[u] \in Owning /\ own'[u] = own[u]
           \/ pc[u] = "compile" /\ pc'[u] = "save" /\ own'[u] = last + 1
<1>0. pc \in [Thread -> Label] /\ own \in [Thread -> Dir \cup {None}]
    BY Zenon DEF TypeOK
<1>1. Saves(u)
    BY SaveMoves, Zenon
<1>2. CASE Compile(u)
    BY <1>0, <1>2, Zenon DEF Compile, Goto, At
<1>. QED
    BY <1>0, <1>1, <1>2, Zenon DEF Saves, BeginSave, WriteSource, WriteLib, WriteParams, Write, CheckStaging,
          Repair, Rename, AbandonSave, At, Owning, Saving

\* The directories a sweep has in hand stay out of reach.
LEMMA SweepsDeadStep ==
    ASSUME SlowWriters = FALSE, TypeOK, KeyHeld, EntriesSettled, StagingInUse, ClearsCounted, SweepsDead, [Next]_vars
    PROVE  SweepsDead'
<1> SUFFICES ASSUME clears' = 0, NEW p \in Proc, NEW d \in Dir, d \in todo'[p] \/ d = open'[p]
             PROVE  /\ d <= last'
                    /\ \A k \in Key : entry'[k] # d
                    /\ \A t \in Thread : own'[t] = d => pc'[t] \notin Owning
    BY ZenonT(40) DEF SweepsDead
<1>0. clears = 0 /\ last' \in {last, last + 1} /\ last \in Nat /\ d \in Nat
    BY Counting, CacheAssumption, SMTT(30) DEF TypeOK, Dir
<1>1. CASE d \in todo[p] \/ d = open[p]
  <2>1. /\ d <= last
        /\ \A k \in Key : entry[k] # d
        /\ \A t \in Thread : own[t] = d => pc[t] \notin Owning
    BY <1>0, <1>1, Zenon DEF SweepsDead
  <2>2. ASSUME NEW k \in Key PROVE entry'[k] # d
    <3>1. ASSUME NEW t \in Thread, Rename(t), req[t] = k PROVE entry'[k] # d
      <4>1. entry'[k] = own[t] /\ pc[t] = "rename"
        BY <3>1, Zenon DEF Rename, At, K, D, TypeOK
      <4>. QED
        BY <2>1, <4>1, Zenon DEF Owning, Saving
    <3>2. CASE Loses(k)
      BY <2>1, <3>2, CacheAssumption, Zenon DEF Loses
    <3>. QED
      BY <3>1, <3>2, EntryLoses, Zenon
  <2>3. ASSUME NEW t \in Thread, own'[t] = d PROVE pc'[t] \notin Owning
    BY <1>0, <2>1, <2>3, OwningMoves, SMTT(30)
  <2>. QED
    BY <1>0, <2>1, <2>2, <2>3, SMTT(30)
<1>2. CASE StartSweep(p) /\ d \in staged /\ ~Live(d)
  <2>1. entry' = entry /\ own' = own /\ pc' = pc
    BY <1>2, Zenon DEF StartSweep, disk, thr
  <2>2. d <= last /\ \A t \in Thread : own[t] = d => pc[t] \notin Owning
    BY <1>0, <1>2, SMTT(30) DEF StagingInUse, Live
  <2>3. \A k \in Key : entry[k] # d
    BY <1>2, CacheAssumption, Zenon DEF EntriesSettled
  <2>. QED
    BY <1>0, <2>1, <2>2, <2>3, SMTT(30)
<1>. QED
    BY <1>0, <1>1, <1>2, SweepMoves, Zenon

\* Until the first clear the directory of a save loses files only to the save
\* itself.
LEMMA OwnFilesKept ==
    ASSUME TypeOK, KeyHeld, OwnDirs, EntriesSettled, SweepsDead, clears = 0, [Next]_vars,
           NEW u \in Thread, pc[u] \in Saving, ~AbandonSave(u)
    PROVE  own[u] \in Dir /\ files[own[u]] \subseteq files'[own[u]]
<1>1. own[u] \in Dir /\ pc[u] \in Owning
    BY CacheAssumption, SMTT(30) DEF OwnDirs, Owning, TypeOK, Dir
<1>2. Touches(own[u])
    BY <1>1, FileMoves, Zenon
<1>3. ASSUME NEW t \in Thread, AbandonSave(t), own[t] = own[u] PROVE FALSE
    BY <1>1, <1>3, Zenon DEF AbandonSave, OwnDirs, Owning
<1>4. ASSUME NEW t \in Thread, Repair(t), entry[req[t]] = own[u] PROVE FALSE
  <2>1. req[t] \in Key
    BY <1>4, Zenon DEF Repair, At, KeyHeld
  <2>. QED
    BY <1>1, <1>4, <2>1, CacheAssumption, Zenon DEF EntriesSettled, Saving
<1>5. ASSUME NEW p \in Proc, NEW f \in File, SweepFile(p, f), open[p] = own[u] PROVE FALSE
    BY <1>1, <1>5, Zenon DEF SweepsDead
<1>. QED
    BY <1>1, <1>2, <1>3, <1>4, <1>5, ZenonT(40) DEF Touches

\* What the check of the staging directory found holds until the rename.
LEMMA CheckedStep ==
    ASSUME TypeOK, KeyHeld, OwnDirs, EntriesSettled, SweepsDead, CheckedComplete, [Next]_vars
    PROVE  CheckedComplete'
<1> SUFFICES ASSUME clears' = 0, NEW u \in Thread, pc'[u] \in {"repair", "rename"}
             PROVE  Complete(own[u])'
    BY ZenonT(40) DEF CheckedComplete
<1>0. pc \in [Thread -> Label] /\ own \in [Thread -> Dir \cup {None}] /\ clears = 0
    BY Counting, SMTT(30) DEF TypeOK
<1>1. Saves(u) /\ pc'[u] \in Owning
    BY SaveMoves, Zenon DEF Owning, Saving
<1>2. ~AbandonSave(u)
    BY <1>0, Zenon DEF AbandonSave, Goto
<1>3. pc[u] \in Saving /\ own'[u] = own[u] /\ Complete(own[u])
  <2>1. CASE CheckStaging(u)
    BY <1>0, <2>1, Zenon DEF CheckStaging, At, Saving, D
  <2>2. CASE Repair(u)
    BY <1>0, <2>2, Zenon DEF Repair, At, Saving, CheckedComplete
  <2>3. CASE pc'[u] = pc[u] /\ own'[u] = own[u] /\ req'[u] = req[u]
    BY <1>0, <2>3, Zenon DEF Saving, CheckedComplete
  <2>4. ~(Compile(u) \/ BeginSave(u) \/ WriteSource(u) \/ WriteLib(u) \/ WriteParams(u) \/ Rename(u))
    BY <1>0, Zenon DEF Compile, BeginSave, WriteSource, WriteLib, WriteParams, Write, Rename, Goto
  <2>. QED
    BY <1>1, <1>2, <2>1, <2>2, <2>3, <2>4, Zenon DEF Saves
<1>4. files[own[u]] \subseteq files'[own[u]]
    BY <1>0, <1>2, <1>3, OwnFilesKept, Zenon
<1>. QED
    BY <1>3, <1>4, Zenon DEF Complete, Required

\* The kernel the disk holds for a key.
OnDisk(k) == IF Complete(entry[k]) THEN entry[k] ELSE None

\* What the disk holds changes by a rename for the key or by a sweep that has
\* the entry open, and by nothing else.
LEMMA OnDiskMoves ==
    ASSUME TypeOK, KeyHeld, EntriesSettled, [Next]_vars, NEW k \in Key
    PROVE  \/ OnDisk(k)' = OnDisk(k)
           \/ \E t \in Thread : Rename(t) /\ req[t] = k
           \/ \E p \in Proc, f \in File : SweepFile(p, f) /\ open[p] = entry[k] /\ entry[k] # None
<1>0. entry[k] \in Dir \cup {None} /\ files \in [Dir -> SUBSET File]
    BY Zenon DEF TypeOK
<1> SUFFICES ASSUME Loses(k),
                    ~ \E p \in Proc, f \in File : SweepFile(p, f) /\ open[p] = entry[k] /\ entry[k] # None
             PROVE  OnDisk(k)' = OnDisk(k)
    BY EntryLoses, Zenon
<1>1. CASE ~Complete(entry[k])
    BY <1>1, LosesComplete, Zenon DEF OnDisk
<1>2. CASE Complete(entry[k])
  <2>1. entry[k] \in Dir /\ entry'[k] = entry[k]
    BY <1>0, <1>2, EntryStays, Zenon DEF Complete
  <2>2. Touches(entry[k])
    BY <2>1, FileMoves, Zenon
  <2>3. ASSUME NEW t \in Thread, AbandonSave(t), own[t] = entry[k] PROVE FALSE
    BY <2>1, <2>3, CacheAssumption, Zenon DEF AbandonSave, EntriesSettled, Owning, Saving
  <2>4. files'[entry[k]] = files[entry[k]]
    BY <1>2, <2>1, <2>2, <2>3, CacheAssumption, Zenon DEF Touches, EntriesSettled
  <2>. QED
    BY <1>2, <2>1, <2>4, Zenon DEF OnDisk, Complete
<1>. QED
    BY <1>1, <1>2, Zenon

\* Until the first clear an entry stays complete.
LEMMA PublishedStep ==
    ASSUME TypeOK, KeyHeld, EntriesSettled, SweepsDead, CheckedComplete, PublishedComplete, [Next]_vars
    PROVE  PublishedComplete'
<1> SUFFICES ASSUME clears' = 0, NEW k \in Key, entry'[k] # None PROVE Complete(entry[k])'
    BY ZenonT(40) DEF PublishedComplete
<1>0. clears = 0
    BY Counting, SMTT(30) DEF TypeOK
<1>1. ASSUME NEW t \in Thread, Rename(t), req[t] = k PROVE Complete(entry[k])'
  <2>1. entry'[k] = own[t] /\ files' = files /\ pc[t] = "rename"
    BY <1>1, Zenon DEF Rename, At, K, D, TypeOK
  <2>. QED
    BY <1>0, <2>1, Zenon DEF CheckedComplete, Complete
<1>2. CASE Loses(k)
  <2>1. entry[k] = entry'[k] /\ Complete(entry[k])
    BY <1>0, <1>2, Zenon DEF Loses, PublishedComplete
  <2>2. ASSUME NEW p \in Proc, NEW f \in File, open[p] = entry[k] PROVE FALSE
    BY <1>0, <2>1, <2>2, ZenonT(40) DEF SweepsDead, TypeOK
  <2>3. CASE OnDisk(k)' = OnDisk(k)
    BY <2>1, <2>3, Zenon DEF OnDisk, Complete
  <2>. QED
    BY <1>1, <2>2, <2>3, OnDiskMoves, Zenon
<1>. QED
    BY <1>1, <1>2, EntryLoses, Zenon

\* The invariant holds initially, and every step preserves it when no live
\* writer is taken for a dead one.
LEMMA StoreInit == Init => StoreInv
<1> SUFFICES ASSUME Init PROVE StoreInv
    BY ZenonT(40)
<1>1. IInv
    BY CacheInit, Zenon
<1>2. StagingInUse /\ EntriesDistinct /\ ClearsCounted /\ PublishedComplete
    BY Zenon DEF Init, StagingInUse, EntriesDistinct, ClearsCounted, PublishedComplete
<1>3. MissedSave /\ CheckedComplete
    BY Zenon DEF Init, MissedSave, CheckedComplete, Saving
<1>4. SweepsDead
    BY CacheAssumption, Zenon DEF Init, SweepsDead
<1>. QED
    BY <1>1, <1>2, <1>3, <1>4, Zenon DEF StoreInv

\* Each conjunct has its own lemma.
LEMMA StoreInvStep == ASSUME SlowWriters = FALSE, StoreInv, [Next]_vars PROVE StoreInv'
BY CacheStep, StagingStep, DistinctStep, MissedSaveStep, ClearsStep, SweepsDeadStep, CheckedStep,
   PublishedStep, Zenon DEF StoreInv, IInv

\* The invariant holds in every reachable state.
THEOREM StoreInvariant == ASSUME SlowWriters = FALSE PROVE Spec => []StoreInv
BY StoreInit, StoreInvStep, PTL DEF Spec

\* Through crashes, failing saves and stale sweeps, and until someone calls
\* clear_cache, what is visible at a cache path is complete.
THEOREM EntriesAreComplete == ASSUME SlowWriters = FALSE PROVE Spec => []PublishedComplete
<1>1. StoreInv => PublishedComplete
    BY Zenon DEF StoreInv
<1>. QED
    BY <1>1, StoreInvariant, PTL

\* No path out of a save leaves its staging directory behind, whatever the
\* sweeps of other processes do to it.
THEOREM SavesCleanUp == Spec => []NoStagingLeak
<1>1. Init => NoStagingLeak
    BY Zenon DEF Init, NoStagingLeak
<1>2. TypeOK /\ NoStagingLeak /\ [Next]_vars => NoStagingLeak'
    BY NoLeakStep, Zenon
<1>. QED
    BY <1>1, <1>2, TypeCorrect, PTL DEF Spec
----------------------------------------------------------------------------
\* A directory leaves the staging root by its own save or by a sweep that has
\* it in hand.
Unstages(d) ==
    \/ d \in staged'
    \/ \E t \in Thread : own[t] = d /\ (Rename(t) \/ AbandonSave(t))
    \/ \E p \in Proc : SweepClose(p) /\ open[p] = d

\* Every step takes a directory out of the staging root in one of these ways.
LEMMA StagedMoves == [Next]_vars => \A d \in staged : Unstages(d)
<1> DEFINE All == \A d \in staged : Unstages(d)
<1> SUFFICES ASSUME [Next]_vars PROVE All
    BY ZenonT(40)
<1> USE DEF Unstages
<1>1. ASSUME NEW t \in Thread, CheckMemory(t) PROVE All
    BY <1>1, Zenon DEF CheckMemory, disk
<1>2. ASSUME NEW t \in Thread, CreateDirs(t) PROVE All
    BY <1>2, Zenon DEF CreateDirs, disk
<1>3. ASSUME NEW t \in Thread, LockKey(t) PROVE All
    BY <1>3, Zenon DEF LockKey, disk
<1>4. ASSUME NEW t \in Thread, Recheck(t) PROVE All
    BY <1>4, Zenon DEF Recheck, disk
<1>5. ASSUME NEW t \in Thread, ReadSource(t) PROVE All
    BY <1>5, Zenon DEF ReadSource, Read, disk
<1>6. ASSUME NEW t \in Thread, ReadParams(t) PROVE All
    BY <1>6, Zenon DEF ReadParams, Read, disk
<1>7. ASSUME NEW t \in Thread, BuildKernel(t) PROVE All
    BY <1>7, Zenon DEF BuildKernel, disk
<1>8. ASSUME NEW t \in Thread, Compile(t) PROVE All
    BY <1>8, Zenon DEF Compile, disk
<1>9. ASSUME NEW t \in Thread, CompileRaises(t) PROVE All
    BY <1>9, Zenon DEF CompileRaises, disk
<1>10. ASSUME NEW t \in Thread, BeginSave(t) PROVE All
    BY <1>10, Zenon DEF BeginSave
<1>11. ASSUME NEW t \in Thread, WriteSource(t) PROVE All
    BY <1>11, Zenon DEF WriteSource, Write, disk
<1>12. ASSUME NEW t \in Thread, WriteLib(t) PROVE All
    BY <1>12, Zenon DEF WriteLib, Write, disk
<1>13. ASSUME NEW t \in Thread, WriteParams(t) PROVE All
    BY <1>13, Zenon DEF WriteParams, Write, disk
<1>14. ASSUME NEW t \in Thread, CheckStaging(t) PROVE All
    BY <1>14, Zenon DEF CheckStaging, disk
<1>15. ASSUME NEW t \in Thread, Repair(t) PROVE All
    BY <1>15, Zenon DEF Repair, disk
<1>16. ASSUME NEW t \in Thread, Rename(t) PROVE All
    BY <1>16, Zenon DEF Rename, D
<1>17. ASSUME NEW t \in Thread, AbandonSave(t) PROVE All
    BY <1>17, Zenon DEF AbandonSave, D
<1>18. ASSUME NEW t \in Thread, Store(t) PROVE All
    BY <1>18, Zenon DEF Store, disk
<1>19. ASSUME NEW t \in Thread, NEW k \in Key, Call(t, k) PROVE All
    BY <1>19, Zenon DEF Call, disk
<1>20. ASSUME NEW p \in Proc, StartSweep(p) PROVE All
    BY <1>20, Zenon DEF StartSweep, disk
<1>21. ASSUME NEW p \in Proc, NEW d \in Dir, SweepOpen(p, d) PROVE All
    BY <1>21, Zenon DEF SweepOpen, disk
<1>22. ASSUME NEW p \in Proc, NEW f \in File, SweepFile(p, f) PROVE All
    BY <1>22, Zenon DEF SweepFile, disk
<1>23. ASSUME NEW p \in Proc, SweepClose(p) PROVE All
    BY <1>23, Zenon DEF SweepClose
<1>24. ASSUME NEW p \in Proc, SweepEnd(p) PROVE All
    BY <1>24, Zenon DEF SweepEnd, disk
<1>25. ASSUME NEW p \in Proc, BeginClear(p) PROVE All
    BY <1>25, Zenon DEF BeginClear, disk
<1>26. ASSUME NEW p \in Proc, ClearMemory(p) PROVE All
    BY <1>26, Zenon DEF ClearMemory, disk
<1>27. ASSUME NEW p \in Proc, Crash(p) PROVE All
    BY <1>27, Zenon DEF Crash, disk
<1>28. CASE UNCHANGED vars
    BY <1>28, Zenon DEF vars, disk
<1>. QED
    BY <1>1, <1>2, <1>3, <1>4, <1>5, <1>6, <1>7, <1>8, <1>9, <1>10, <1>11,
       <1>12, <1>13, <1>14, <1>15, <1>16, <1>17, <1>18, <1>19, <1>20,
       <1>21, <1>22, <1>23, <1>24, <1>25, <1>26, <1>27, <1>28, ZenonT(40)
    DEF Next, ThreadStep, SweepStep, Done

\* A save that meets no error and no clear goes through to the rename.
LEMMA SavesWholeStep ==
    ASSUME StoreInv, clears = 0, SavesWhole, [Next]_vars
    PROVE  SavesWhole'
<1> SUFFICES ASSUME NEW u \in Thread, pc'[u] \in Saving
             PROVE  own'[u] \in staged' /\ Written(pc'[u]) \cap SavedFiles \subseteq files'[own'[u]]
    BY Zenon DEF SavesWhole
<1>0. /\ TypeOK /\ KeyHeld /\ OwnDirs /\ EntriesSettled /\ SweepsDead
      /\ pc \in [Thread -> Label] /\ own \in [Thread -> Dir \cup {None}]
      /\ files \in [Dir -> SUBSET File]
    BY Zenon DEF StoreInv, IInv, TypeOK
<1>1. Saves(u) /\ pc'[u] \in Owning
    BY <1>0, SaveMoves, Zenon DEF Owning
<1>2. ~AbandonSave(u) /\ ~Rename(u) /\ ~Compile(u)
    BY <1>0, Zenon DEF AbandonSave, Rename, Compile, Goto, Saving
<1>3. ASSUME pc[u] \in Saving, own'[u] = own[u]
      PROVE  /\ own[u] \in Dir /\ own[u] \in staged'
             /\ Written(pc[u]) \cap SavedFiles \subseteq files'[own'[u]]
  <2>1. /\ own[u] \in Dir /\ files[own[u]] \subseteq files'[own[u]]
        /\ Written(pc[u]) \cap SavedFiles \subseteq files[own[u]]
        /\ own[u] \in staged
    BY <1>0, <1>2, <1>3, OwnFilesKept, Zenon DEF SavesWhole
  <2>2. ASSUME NEW t \in Thread, own[t] = own[u], Rename(t) \/ AbandonSave(t) PROVE FALSE
    BY <1>0, <1>2, <1>3, <2>2, ZenonT(40) DEF OwnDirs, Owning, Rename, AbandonSave, At, Saving
  <2>3. ASSUME NEW p \in Proc, open[p] = own[u] PROVE FALSE
    BY <1>0, <1>3, <2>1, <2>3, Zenon DEF SweepsDead, Owning
  <2>4. own[u] \in staged'
    BY <2>1, <2>2, <2>3, StagedMoves, Zenon DEF Unstages
  <2>. QED
    BY <1>3, <2>1, <2>4, Zenon
<1>4. CASE BeginSave(u)
  <2>1. pc'[u] = "writeSource" /\ own'[u] \in staged'
    BY <1>0, <1>4, Zenon DEF BeginSave, Goto, D, Saving
  <2>. QED
    BY <2>1, Zenon DEF Written
<1>5. CASE WriteSource(u)
  <2>1. pc[u] = "writeSource" /\ pc'[u] = "writeLib" /\ own'[u] = own[u] /\ own[u] \in staged
    BY <1>0, <1>5, Zenon DEF WriteSource, Write, At, Goto, D
  <2>2. own[u] \in Dir /\ own[u] \in staged'
    BY <1>3, <2>1, Zenon DEF Saving
  <2>3. {"source"} \cap SavedFiles \subseteq files'[own[u]]
    BY <1>0, <1>5, <2>2, Zenon DEF WriteSource, Write, D
  <2>. QED
    BY <2>1, <2>2, <2>3, Zenon DEF Written
<1>6. CASE WriteLib(u)
  <2>1. pc[u] = "writeLib" /\ pc'[u] = "writeParams" /\ own'[u] = own[u]
    BY <1>0, <1>6, Zenon DEF WriteLib, Write, At, Goto
  <2>2. own[u] \in Dir /\ own[u] \in staged' /\ {"source"} \cap SavedFiles \subseteq files'[own[u]]
    BY <1>3, <2>1, Zenon DEF Saving, Written
  <2>3. {"lib"} \cap SavedFiles \subseteq files'[own[u]]
    BY <1>0, <1>6, <2>2, Zenon DEF WriteLib, Write, D
  <2>. QED
    BY <2>1, <2>2, <2>3, Zenon DEF Written
<1>7. CASE WriteParams(u)
  <2>1. pc[u] = "writeParams" /\ pc'[u] = "checkStaging" /\ own'[u] = own[u]
    BY <1>0, <1>7, Zenon DEF WriteParams, Write, At, Goto
  <2>2. own[u] \in Dir /\ own[u] \in staged' /\ {"source", "lib"} \cap SavedFiles \subseteq files'[own[u]]
    BY <1>3, <2>1, Zenon DEF Saving, Written
  <2>3. {"params"} \cap SavedFiles \subseteq files'[own[u]]
    BY <1>0, <1>7, <2>2, Zenon DEF WriteParams, Write, D
  <2>. QED
    BY <2>1, <2>2, <2>3, Zenon DEF Written
<1>8. CASE CheckStaging(u) \/ Repair(u) \/ (pc'[u] = pc[u] /\ own'[u] = own[u])
  <2>1. own'[u] = own[u] /\ pc[u] \in Saving /\ Written(pc'[u]) = Written(pc[u])
    BY <1>0, <1>8, Zenon DEF CheckStaging, Repair, At, Goto, Saving, Written
  <2>. QED
    BY <1>3, <2>1, Zenon
<1>. QED
    BY <1>1, <1>2, <1>4, <1>5, <1>6, <1>7, <1>8, Zenon DEF Saves

\* Without errors, clears and slow writers no save is abandoned.
LEMMA NothingAbandoned ==
    ASSUME Faults = FALSE, Backend # "cutedsl", PersistInv, NEW u \in Thread
    PROVE  ~AbandonSave(u)
<1> SUFFICES ASSUME AbandonSave(u) PROVE FALSE
    BY ZenonT(40)
<1>0. pc[u] \in Saving /\ req[u] \in Key
    BY ZenonT(40) DEF AbandonSave, At, PersistInv, StoreInv, IInv, KeyHeld, Saving
<1>1. own[u] \in staged /\ own[u] # None /\ root
    BY <1>0, CacheAssumption, SMTT(30) DEF PersistInv, SavesWhole, StoreInv, IInv, TypeOK
<1>2. pc[u] = "checkStaging" => Complete(own[u])
  <2> SUFFICES ASSUME pc[u] = "checkStaging" PROVE {"source"} \cup Required \subseteq files[own[u]]
    BY <1>1, Zenon DEF Complete
  <2>1. {"source", "lib", "params"} \cap SavedFiles \subseteq files[own[u]]
    BY <1>0, Zenon DEF PersistInv, SavesWhole, Written
  <2>. QED
    BY <2>1, Zenon DEF SavedFiles, Required, File
<1>3. \A p \in Proc : phase[p] # "clearCache"
    BY Zenon DEF PersistInv, StoreInv, ClearsCounted
<1>4. entry[req[u]] = None
    BY <1>0, Zenon DEF PersistInv, StoreInv, MissedSave, PublishedComplete
<1>. QED
    BY <1>0, <1>1, <1>2, <1>3, <1>4, Zenon DEF AbandonSave, D, K, Vacant

\* A save that is over has published its directory.
LEMMA PersistedStep ==
    ASSUME Faults = FALSE, Backend # "cutedsl", PersistInv, StoreInv', clears' = 0, [Next]_vars
    PROVE  Persisted'
<1> SUFFICES ASSUME NEW u \in Thread, pc'[u] = "store" PROVE Complete(entry[K(u)])'
    BY Zenon DEF Persisted
<1>0. /\ TypeOK /\ KeyHeld /\ EntriesSettled /\ MissedSave /\ PublishedComplete'
      /\ pc \in [Thread -> Label] /\ req \in [Thread -> Key \cup {None}]
    BY Zenon DEF PersistInv, StoreInv, IInv, TypeOK
<1>1. Saves(u) /\ pc'[u] \in Owning
    BY <1>0, SaveMoves, Zenon DEF Owning
<1>2. ~(AbandonSave(u) \/ Compile(u) \/ WriteSource(u) \/ WriteLib(u) \/ WriteParams(u) \/ CheckStaging(u))
    BY <1>0, NothingAbandoned, Zenon DEF Compile, WriteSource, WriteLib, WriteParams, Write, CheckStaging, Goto
<1>3. CASE Rename(u)
  <2>1. req[u] \in Key /\ req' = req
    BY <1>0, <1>3, ZenonT(40) DEF Rename, At, KeyHeld
  <2>2. entry'[req[u]] = own[u] /\ own[u] # None
    BY <1>0, <1>3, <2>1, CacheAssumption, SMTT(30) DEF Rename, K, D, TypeOK
  <2>. QED
    BY <1>0, <2>1, <2>2, Zenon DEF PublishedComplete, K
<1>4. CASE BeginSave(u)
  <2>1. req' = req /\ entry' = entry /\ files' = files
    BY <1>4, Zenon DEF BeginSave
  <2>2. Complete(entry[req[u]])
    BY <1>0, <1>4, Zenon DEF BeginSave, Goto, K
  <2>. QED
    BY <2>1, <2>2, Zenon DEF Complete, K
<1>5. CASE pc'[u] = pc[u] /\ req'[u] = req[u]
  <2>1. Complete(entry[req[u]]) /\ req[u] \in Key
    BY <1>0, <1>5, Zenon DEF PersistInv, Persisted, K, KeyHeld
  <2>2. entry'[req[u]] = entry[req[u]] /\ entry[req[u]] # None
    BY <1>0, <2>1, EntryStays, Zenon DEF Complete
  <2>. QED
    BY <1>0, <1>5, <2>1, <2>2, Zenon DEF PublishedComplete, K
<1>6. ~Repair(u)
    BY <1>0, Zenon DEF Repair, Goto, At
<1>. QED
    BY <1>1, <1>2, <1>3, <1>4, <1>5, <1>6, Zenon DEF Saves

\* The invariant of undisturbed saves is kept by every step that is no clear.
LEMMA PersistStep ==
    ASSUME Faults = FALSE, Backend # "cutedsl", PersistInv, StoreInv', clears' = 0, [Next]_vars
    PROVE  PersistInv'
<1>1. root'
    BY Counting, Zenon DEF PersistInv, StoreInv, IInv, ClearsCounted
<1>. QED
    BY <1>1, SavesWholeStep, PersistedStep, Zenon DEF PersistInv

\* When nothing fails and nobody clears the cache, every kernel that is compiled
\* is on disk, complete, before cached() returns it, whatever crashes elsewhere.
THEOREM SavesPersist ==
    ASSUME Faults = FALSE, SlowWriters = FALSE, MaxClears = 0, Backend # "cutedsl"
    PROVE  Spec => []Persisted
<1>1. Init /\ StoreInv => PersistInv
    BY Zenon DEF Init, SavesWhole, Persisted, Saving, PersistInv
<1>2. PersistInv /\ [Next]_vars /\ StoreInv' => PersistInv'
  <2> SUFFICES ASSUME PersistInv, [Next]_vars, StoreInv' PROVE PersistInv'
    BY ZenonT(40)
  <2>1. TypeOK /\ clears = 0
    BY Zenon DEF PersistInv, StoreInv, IInv
  <2>2. clears' = 0
    BY <2>1, Counting, SMTT(30)
  <2>. QED
    BY <2>2, PersistStep, Zenon
<1>3. PersistInv => Persisted
    BY Zenon DEF PersistInv
<1>. QED
    BY <1>1, <1>2, <1>3, StoreInvariant, PTL DEF Spec
----------------------------------------------------------------------------
\* A rename publishes a kernel, or a directory that is not complete.
LEMMA RenamePublishes ==
    ASSUME StoreInv, NEW t \in Thread, Rename(t) PROVE [Store_!Next]_(Store_!vars)
<1> DEFINE st == [k \in Key |-> OnDisk(k)]
<1>0. /\ entry \in [Key -> Dir \cup {None}] /\ req[t] \in Key /\ own[t] \in Dir
      /\ ~Complete(entry[req[t]])
    BY Zenon DEF StoreInv, IInv, TypeOK, KeyHeld, MissedSave, Rename, At, D, Saving
<1>1. mem' = mem /\ clears' = clears /\ files' = files
    BY Zenon DEF Rename, bounds
<1>5. PICK r \in Key, d \in Dir : r = req[t] /\ d = own[t]
    BY <1>0, Zenon
<1>2. \A k \in Key : entry'[k] = IF k = r THEN d ELSE entry[k]
    BY <1>0, <1>5, Zenon DEF Rename, K, D
<1>3. \A k \in Key \ {r} : OnDisk(k)' = OnDisk(k)
    BY <1>1, <1>2, Zenon DEF OnDisk, Complete
<1>4. \A k \in Key : k = r => OnDisk(k) = None /\ OnDisk(k)' \in {None, d}
    BY <1>0, <1>2, <1>5, Zenon DEF OnDisk
<1>6. CASE \A k \in Key : k = r => OnDisk(k)' = None
  <2>1. st' = st
    BY <1>3, <1>4, <1>6, Zenon
  <2>. QED
    BY <1>1, <2>1, Zenon DEF Store_!vars, OnDisk
<1>7. CASE \A k \in Key : k = r => OnDisk(k)' = d
  <2>1. st' = [st EXCEPT ![r] = d] /\ st[r] = None
    BY <1>3, <1>4, <1>7, Zenon
  <2>2. Store_!Publish(r, d)
    BY <1>1, <2>1, Zenon DEF Store_!Publish, OnDisk
  <2>3. Store_!Next
    BY <2>2, Zenon DEF Store_!Next
  <2>. QED
    BY <2>3, Zenon
<1>. QED
    BY <1>4, <1>6, <1>7, Zenon

\* A sweep takes a kernel away only once someone has called clear_cache.
LEMMA SweepEvicts ==
    ASSUME StoreInv, NEW p \in Proc, NEW f \in File, SweepFile(p, f), [Next]_vars
    PROVE  [Store_!Next]_(Store_!vars)
<1> DEFINE st == [k \in Key |-> OnDisk(k)]
<1>0. /\ TypeOK /\ KeyHeld /\ EntriesSettled /\ EntriesDistinct /\ SweepsDead
      /\ entry \in [Key -> Dir \cup {None}] /\ clears \in Nat
    BY Zenon DEF StoreInv, IInv, TypeOK
<1>1. mem' = mem /\ clears' = clears /\ entry' = entry /\ open' = open
    BY Zenon DEF SweepFile, bounds
<1>2. CASE \A k \in Key : OnDisk(k)' = OnDisk(k)
  <2>1. st' = st
    BY <1>2, Zenon
  <2>. QED
    BY <1>1, <2>1, Zenon DEF Store_!vars, OnDisk
<1>3. ASSUME NEW k \in Key, OnDisk(k)' # OnDisk(k) PROVE [Store_!Next]_(Store_!vars)
  <2>1. ASSUME NEW j \in Key, OnDisk(j)' # OnDisk(j) 
        PROVE  entry[j] = open[p] /\ entry[j] # None /\ OnDisk(j)' = None
    <3>1. ASSUME NEW t \in Thread, Rename(t) PROVE FALSE
      BY <1>0, <3>1, Zenon DEF Rename, At, Goto, SweepFile, thr, TypeOK
    <3>2. PICK q \in Proc, g \in File : SweepFile(q, g) /\ open[q] = entry[j] /\ entry[j] # None
      BY <1>0, <2>1, <3>1, OnDiskMoves, Zenon
    <3>3. ~Complete(entry[j])' /\ Complete(entry[j])
      BY <1>0, <1>1, <2>1, <3>2, LosesComplete, EntryLoses, <3>1, Zenon DEF OnDisk
    <3>4. files'[entry[j]] # files[entry[j]]
      BY <1>1, <3>3, Zenon DEF Complete
    <3>. QED
      BY <1>0, <3>2, <3>3, <3>4, ZenonT(120) DEF SweepFile, TypeOK, OnDisk
  <2>2. clears > 0
    BY <1>0, <1>3, <2>1, SMTT(30) DEF SweepsDead
  <2>3. OnDisk(k)' = None
    BY <1>3, <2>1, Zenon
  <2>4. \A j \in Key \ {k} : OnDisk(j)' = OnDisk(j)
    BY <1>0, <1>3, <2>1, Zenon DEF EntriesDistinct
  <2>5. st' = [st EXCEPT ![k] = None]
    BY <2>3, <2>4, Zenon
  <2>6. Store_!Evict(k)
    BY <1>1, <2>2, <2>5, Zenon DEF Store_!Evict, OnDisk
  <2>7. Store_!Next
    BY <2>6, Zenon DEF Store_!Next
  <2>. QED
    BY <2>7, Zenon
<1>. QED
    BY <1>2, <1>3, Zenon

\* A load or a compilation puts into memory what the disk holds, if anything.
LEMMA MemoryTakes ==
    ASSUME StoreInv, [Next]_vars, NEW t \in Thread, BuildKernel(t) \/ Store(t), mem' # mem
    PROVE  Store_!Next
<1> DEFINE st == [k \in Key |-> OnDisk(k)]
<1>0. /\ TypeOK /\ KeyHeld /\ SourceRead /\ ParamsRead /\ MissedMemory /\ MissedSave /\ OwnDirs
      /\ req[t] \in Key /\ ProcOf[t] \in Proc
    BY CacheAssumption, Zenon DEF StoreInv, IInv, KeyHeld, BuildKernel, Store, At
<1>1. PICK p \in Proc, r \in Key : p = ProcOf[t] /\ r = req[t]
    BY <1>0, Zenon
<1>2. clears' = clears /\ entry' = entry /\ files' = files
    BY Zenon DEF BuildKernel, Store, bounds, disk
<1>3. mem[p][r] = None
    BY <1>0, <1>1, Zenon DEF MissedMemory, InKeySection, Loading, BuildKernel, Store, At
<1>4. PICK d \in Dir : OnDisk(r) \in {None, d} /\ mem' = [mem EXCEPT ![p][r] = Built(d)]
  <2>1. CASE BuildKernel(t)
    BY <1>0, <1>1, <2>1, LoadsWhole, Zenon DEF OnDisk
  <2>2. CASE Store(t)
    <3>1. own[t] \in Dir
      BY <1>0, <2>2, CacheAssumption, SMTT(30) DEF Store, At, OwnDirs, Owning, TypeOK, Dir
    <3>2. OnDisk(r) \in {None, own[t]}
      BY <1>0, <1>1, <2>2, Zenon DEF OnDisk, MissedSave, Store, At
    <3>3. mem' = [mem EXCEPT ![p][r] = Built(own[t])]
      BY <1>1, <2>2, Zenon DEF Store, P, K, D
    <3>. QED
      BY <3>1, <3>2, <3>3, ZenonT(40)
  <2>. QED
    BY <2>1, <2>2, Zenon
<1>5. st' = st /\ st[r] \in {None, d}
    BY <1>2, <1>4, Zenon DEF OnDisk, Complete
<1>6. Store_!Take(p, r, d)
    BY <1>2, <1>3, <1>4, <1>5, Zenon DEF Store_!Take, Store_!Whole, Built, OnDisk
<1>. QED
    BY <1>6, Zenon DEF Store_!Next

\* A step that touches neither the memory caches nor what the disk holds.
LEMMA StoreStutters ==
    ASSUME StoreInv, [Next]_vars, mem' = mem, clears' = clears,
           \A t \in Thread : ~Rename(t), \A p \in Proc, f \in File : ~SweepFile(p, f)
    PROVE  UNCHANGED Store_!vars
<1>1. TypeOK /\ KeyHeld /\ EntriesSettled
    BY Zenon DEF StoreInv, IInv
<1>2. \A k \in Key : OnDisk(k)' = OnDisk(k)
    BY <1>1, OnDiskMoves, Zenon
<1>. QED
    BY <1>2, Zenon DEF Store_!vars, OnDisk

\* A process loses its memory.
LEMMA ProcessForgets ==
    ASSUME NEW p \in Proc, mem' = [mem EXCEPT ![p] = [k \in Key |-> None]], UNCHANGED disk
    PROVE  /\ clears' = clears => Store_!Next
           /\ clears' > 0 => Store_!Next
<1>1. entry' = entry /\ files' = files
    BY Zenon DEF disk
<1>2. [k \in Key |-> OnDisk(k)]' = [k \in Key |-> OnDisk(k)]
    BY <1>1, Zenon DEF OnDisk, Complete
<1>3. ASSUME clears' = clears PROVE Store_!Next
  <2>1. Store_!Forget(p)
    BY <1>2, <1>3, Zenon DEF Store_!Forget, OnDisk
  <2>. QED
    BY <2>1, Zenon DEF Store_!Next
<1>4. ASSUME clears' > 0 PROVE Store_!Next
  <2>1. Store_!Clear
    BY <1>2, <1>4, Zenon DEF Store_!Clear, OnDisk
  <2>. QED
    BY <2>1, Zenon DEF Store_!Next
<1>. QED
    BY <1>3, <1>4, Zenon

\* Every step of the cache is a step of the store or none.
LEMMA StoreStep ==
    ASSUME StoreInv, [Next]_vars PROVE [Store_!Next]_(Store_!vars)
<1> DEFINE Goal == [Store_!Next]_(Store_!vars)
           Quiet == mem' = mem /\ clears' = clears
<1> HIDE DEF Goal
<1>a. ASSUME Quiet PROVE Goal
  <2>1. CASE \E t \in Thread : Rename(t)
    BY <2>1, RenamePublishes, Zenon DEF Goal
  <2>2. CASE \E p \in Proc, f \in File : SweepFile(p, f)
    BY <2>2, SweepEvicts, Zenon DEF Goal
  <2>3. CASE ~(\E t \in Thread : Rename(t)) /\ ~(\E p \in Proc, f \in File : SweepFile(p, f))
    BY <1>a, <2>3, StoreStutters, Zenon DEF Goal
  <2>. QED
    BY <2>1, <2>2, <2>3, ZenonT(40)
<1>b. clears \in Nat
    BY Zenon DEF StoreInv, IInv, TypeOK
<1>1. ASSUME NEW t \in Thread, CheckMemory(t) PROVE Goal
    BY <1>1, <1>a, Zenon DEF CheckMemory, bounds
<1>2. ASSUME NEW t \in Thread, CreateDirs(t) PROVE Goal
    BY <1>2, <1>a, Zenon DEF CreateDirs, bounds
<1>3. ASSUME NEW t \in Thread, LockKey(t) PROVE Goal
    BY <1>3, <1>a, Zenon DEF LockKey, bounds
<1>4. ASSUME NEW t \in Thread, Recheck(t) PROVE Goal
    BY <1>4, <1>a, Zenon DEF Recheck, bounds
<1>5. ASSUME NEW t \in Thread, ReadSource(t) PROVE Goal
    BY <1>5, <1>a, Zenon DEF ReadSource, Read, bounds
<1>6. ASSUME NEW t \in Thread, ReadParams(t) PROVE Goal
    BY <1>6, <1>a, Zenon DEF ReadParams, Read, bounds
<1>7. ASSUME NEW t \in Thread, BuildKernel(t) PROVE Goal
  <2>1. CASE mem' = mem
    BY <1>7, <1>a, <2>1, Zenon DEF BuildKernel, bounds
  <2>2. CASE mem' # mem
    BY <1>7, <2>2, MemoryTakes, Zenon DEF Goal
  <2>. QED
    BY <2>1, <2>2, Zenon
<1>8. ASSUME NEW t \in Thread, Compile(t) PROVE Goal
    BY <1>8, <1>a, Zenon DEF Compile, bounds
<1>9. ASSUME NEW t \in Thread, CompileRaises(t) PROVE Goal
    BY <1>9, <1>a, Zenon DEF CompileRaises, bounds
<1>10. ASSUME NEW t \in Thread, BeginSave(t) PROVE Goal
    BY <1>10, <1>a, Zenon DEF BeginSave, bounds
<1>11. ASSUME NEW t \in Thread, WriteSource(t) PROVE Goal
    BY <1>11, <1>a, Zenon DEF WriteSource, Write, bounds
<1>12. ASSUME NEW t \in Thread, WriteLib(t) PROVE Goal
    BY <1>12, <1>a, Zenon DEF WriteLib, Write, bounds
<1>13. ASSUME NEW t \in Thread, WriteParams(t) PROVE Goal
    BY <1>13, <1>a, Zenon DEF WriteParams, Write, bounds
<1>14. ASSUME NEW t \in Thread, CheckStaging(t) PROVE Goal
    BY <1>14, <1>a, Zenon DEF CheckStaging, bounds
<1>15. ASSUME NEW t \in Thread, Repair(t) PROVE Goal
    BY <1>15, <1>a, Zenon DEF Repair, bounds
<1>16. ASSUME NEW t \in Thread, Rename(t) PROVE Goal
    BY <1>16, <1>a, Zenon DEF Rename, bounds
<1>17. ASSUME NEW t \in Thread, AbandonSave(t) PROVE Goal
    BY <1>17, <1>a, Zenon DEF AbandonSave, bounds
<1>18. ASSUME NEW t \in Thread, Store(t) PROVE Goal
  <2>1. CASE mem' = mem
    BY <1>18, <1>a, <2>1, Zenon DEF Store, bounds
  <2>2. CASE mem' # mem
    BY <1>18, <2>2, MemoryTakes, Zenon DEF Goal
  <2>. QED
    BY <2>1, <2>2, Zenon
<1>19. ASSUME NEW t \in Thread, NEW k \in Key, Call(t, k) PROVE Goal
    BY <1>19, <1>a, Zenon DEF Call, bounds
<1>20. ASSUME NEW p \in Proc, StartSweep(p) PROVE Goal
    BY <1>20, <1>a, Zenon DEF StartSweep, bounds
<1>21. ASSUME NEW p \in Proc, NEW d \in Dir, SweepOpen(p, d) PROVE Goal
    BY <1>21, <1>a, Zenon DEF SweepOpen, bounds
<1>22. ASSUME NEW p \in Proc, NEW f \in File, SweepFile(p, f) PROVE Goal
    BY <1>22, <1>a, Zenon DEF SweepFile, bounds
<1>23. ASSUME NEW p \in Proc, SweepClose(p) PROVE Goal
    BY <1>23, <1>a, Zenon DEF SweepClose, bounds
<1>24. ASSUME NEW p \in Proc, SweepEnd(p) PROVE Goal
    BY <1>24, <1>a, Zenon DEF SweepEnd, bounds
<1>25. ASSUME NEW p \in Proc, BeginClear(p) PROVE Goal
  <2>1. clears' > 0
    BY <1>b, <1>25, SMTT(30) DEF BeginClear
  <2>. QED
    BY <1>25, <2>1, ProcessForgets, ZenonT(40) DEF BeginClear, Goal
<1>26. ASSUME NEW p \in Proc, ClearMemory(p) PROVE Goal
    BY <1>b, <1>26, ProcessForgets, Zenon DEF ClearMemory, Goal
<1>27. ASSUME NEW p \in Proc, Crash(p) PROVE Goal
    BY <1>b, <1>27, ProcessForgets, Zenon DEF Crash, Goal
<1>28. CASE UNCHANGED vars
    BY <1>28, <1>a, Zenon DEF vars, bounds, Goal
<1>. QED
    BY <1>1, <1>2, <1>3, <1>4, <1>5, <1>6, <1>7, <1>8, <1>9, <1>10, <1>11,
       <1>12, <1>13, <1>14, <1>15, <1>16, <1>17, <1>18, <1>19, <1>20,
       <1>21, <1>22, <1>23, <1>24, <1>25, <1>26, <1>27, <1>28, ZenonT(40)
    DEF Next, ThreadStep, SweepStep, Done, Goal

\* The cache, with its locks, staging directories, renames and sweeps, is the
\* store that holds at most one kernel per key, never replaces one, and loses
\* one only after a call of clear_cache.
THEOREM CacheImplementsStore == ASSUME SlowWriters = FALSE PROVE Spec => ImplementsStore
<1>1. Init => Store_!Init
    BY SMTT(30) DEF Init, Store_!Init, Complete
<1>2. StoreInv /\ [Next]_vars => [Store_!Next]_(Store_!vars)
    BY StoreStep, Zenon
<1>. QED
    BY <1>1, <1>2, StoreInvariant, PTL DEF Spec, ImplementsStore, Store_!Spec
============================================================================
