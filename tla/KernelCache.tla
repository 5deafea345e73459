---------------------------- MODULE KernelCache ----------------------------
(***************************************************************************)
(* The two-level kernel cache of tilelang/cache/kernel_cache.py.           *)
(*                                                                         *)
(* Threads of several processes ask for the kernel of a key.  A process    *)
(* keeps the kernels it has in memory (_memory_cache, guarded by _lock);   *)
(* all processes share a disk cache: one directory per key under the cache *)
(* root, filled in a private directory under the staging root and renamed  *)
(* into place.  A per-key file lock (flock) is held from the second look   *)
(* into the caches until the kernel is stored.                             *)
(*                                                                         *)
(* Data kept: which compilation a file comes from.  Compilations are       *)
(* numbered; the staging directory a compilation is saved in, which the    *)
(* code names after the process and a uuid, has its number, and all files  *)
(* in it come from that compilation.                                       *)
(* The device and host source files are one File, "source": the code       *)
(* writes, reads and requires them together.                               *)
(***************************************************************************)
EXTENDS Naturals, FiniteSets

CONSTANTS
    Thread, Proc,      \* the threads and the processes they belong to
    ProcOf,            \* [Thread -> Proc]
    Key,               \* cache keys: hashes of function, target, flags, ...
    None,              \* no thread, directory or kernel
    Backend,           \* the execution backend of every request
    Faults,            \* may a compilation or a file write fail?
    SlowWriters,       \* may a live writer's staging dir look an hour old?
    MaxCalls,          \* bound: calls of cached() per thread
    MaxDirs,           \* bound: compilations in a behaviour
    MaxCrashes,        \* bound: process crashes in a behaviour
    MaxClears          \* bound: calls of clear_cache() in a behaviour

File == {"source", "lib", "params"}
Dir == 1..MaxDirs
Kernel == [File -> Dir]

ASSUME CacheAssumption ==
    /\ ProcOf \in [Thread -> Proc]
    /\ Thread \cap Proc = {}
    /\ None \notin Thread \cup Proc \cup Dir \cup Key \cup Kernel
    /\ {MaxCalls, MaxDirs, MaxCrashes, MaxClears} \subseteq Nat
    /\ {Faults, SlowWriters} \subseteq BOOLEAN

VARIABLES
    mem,       \* _memory_cache of each process
    mlock,     \* holder of _lock in each process
    flock,     \* holder of the file lock of each key
    entry,     \* the directory visible at the cache path of each key
    staged,    \* the directories visible under the staging root
    files,     \* the files in each directory
    root,      \* does the cache root directory exist?
    pc, req, own, got,       \* threads: label, key, compilation, files read
    calls, last,             \* calls made per thread, compilations made
    phase,     \* processes: starting, serving, or in a step of clear_cache
    todo, open, left,        \* processes: the rmtree in progress: directories
                             \* still to remove, the one open, its listing
    crashes, clears

disk == <<entry, staged, files, root>>
thr == <<pc, req, own, got>>
bounds == <<calls, last, crashes, clears>>
sweep == <<todo, open, left>>
vars == <<mem, mlock, flock, disk, thr, phase, sweep, bounds>>

NoFiles == [f \in File |-> None]
Built(d) == [f \in File |-> d]

\* _get_required_files: what a load insists on.  "torch" kernels are source
\* only and are saved without a library.
SavedFiles == IF Backend = "torch" THEN {"source", "params"} ELSE File
Required == IF Backend = "torch" THEN {"source", "params"} ELSE {"lib", "params"}
\* _is_complete_cache_dir
Complete(d) == d # None /\ ({"source"} \cup Required) \subseteq files[d]

\* What rename(2) may put a directory in the place of.
Vacant(d) == d # None => files[d] = {}

P(t) == ProcOf[t]
K(t) == req[t]
D(t) == own[t]
At(t, label) == pc[t] = label /\ phase[P(t)] \notin {"boot", "sweepStale"}
Goto(t, label) == pc' = [pc EXCEPT ![t] = label]

Init ==
    /\ mem = [p \in Proc |-> [k \in Key |-> None]]
    /\ mlock = [p \in Proc |-> None]
    /\ flock = [k \in Key |-> None]
    /\ entry = [k \in Key |-> None]
    /\ staged = {}
    /\ files = [d \in Dir |-> {}]
    /\ root = TRUE
    /\ pc = [t \in Thread |-> "idle"]
    /\ req = [t \in Thread |-> None]
    /\ own = [t \in Thread |-> None]
    /\ calls = [t \in Thread |-> 0]
    /\ last = 0
    /\ got = [t \in Thread |-> NoFiles]
    /\ phase = [p \in Proc |-> "boot"]
    /\ todo = [p \in Proc |-> {}]
    /\ open = [p \in Proc |-> None]
    /\ left = [p \in Proc |-> {}]
    /\ crashes = 0
    /\ clears = 0
----------------------------------------------------------------------------
(* cached(): the lookup *)

\* A thread calls cached() for key k.
Call(t, k) ==
    /\ At(t, "idle") /\ calls[t] < MaxCalls
    /\ calls' = [calls EXCEPT ![t] = @ + 1]
    /\ req' = [req EXCEPT ![t] = k]
    /\ got' = [got EXCEPT ![t] = NoFiles]
    /\ Goto(t, "memory")
    /\ UNCHANGED <<mem, mlock, flock, disk, own, phase, sweep, last, crashes, clears>>

\* The first look into the memory cache, in one critical section of _lock.
CheckMemory(t) ==
    /\ At(t, "memory") /\ mlock[P(t)] = None
    /\ Goto(t, IF mem[P(t)][K(t)] # None THEN "idle" ELSE "dirs")
    /\ UNCHANGED <<mem, mlock, flock, disk, req, own, got, phase, sweep, bounds>>

\* _create_dirs (the staging sweep it starts was done when the process began).
CreateDirs(t) ==
    /\ At(t, "dirs")
    /\ root' = TRUE
    /\ Goto(t, "flock")
    /\ UNCHANGED <<mem, mlock, flock, entry, staged, files, req, own, got, phase, sweep, bounds>>

\* (mutation) The win32 branch of the lock: nobody is kept out.
LockKeyUnlocked(t) ==
    /\ At(t, "flock")
    /\ flock' = [flock EXCEPT ![K(t)] = t]
    /\ Goto(t, "recheck")
    /\ UNCHANGED <<mem, mlock, disk, req, own, got, phase, sweep, bounds>>

\* _exclusive_file_lock: flock(LOCK_EX) on the key's lock file.
LockKey(t) ==
    /\ At(t, "flock") /\ flock[K(t)] = None
    /\ flock' = [flock EXCEPT ![K(t)] = t]
    /\ Goto(t, "recheck")
    /\ UNCHANGED <<mem, mlock, disk, req, own, got, phase, sweep, bounds>>

\* (mutation) A miss releases the key and tries again instead of compiling.
RecheckRetries(t) ==
    LET found == mem[P(t)][K(t)] # None
        onDisk == entry[K(t)] # None /\ Required \subseteq files[entry[K(t)]]
    IN
    /\ At(t, "recheck") /\ mlock[P(t)] = None
    /\ Goto(t, IF found THEN "idle" ELSE IF onDisk THEN "readSource" ELSE "flock")
    /\ mlock' = [mlock EXCEPT ![P(t)] = IF ~found /\ onDisk THEN t ELSE None]
    /\ flock' = [flock EXCEPT ![K(t)] = IF ~found /\ onDisk THEN t ELSE None]
    /\ UNCHANGED <<mem, disk, req, own, got, phase, sweep, bounds>>

\* (mutation) The disk is not looked at again after the wait for the lock.
RecheckMemoryOnly(t) ==
    LET found == mem[P(t)][K(t)] # None IN
    /\ At(t, "recheck") /\ mlock[P(t)] = None
    /\ Goto(t, IF found THEN "idle" ELSE "compile")
    /\ flock' = [flock EXCEPT ![K(t)] = IF found THEN None ELSE t]
    /\ UNCHANGED <<mem, mlock, disk, req, own, got, phase, sweep, bounds>>

\* Under both locks: memory again, then the existence test of
\* _load_kernel_from_disk.  On a miss _lock is released for the compilation.
Recheck(t) ==
    LET found == mem[P(t)][K(t)] # None
        onDisk == entry[K(t)] # None /\ Required \subseteq files[entry[K(t)]]
    IN
    /\ At(t, "recheck") /\ mlock[P(t)] = None
    /\ Goto(t, IF found THEN "idle" ELSE IF onDisk THEN "readSource" ELSE "compile")
    /\ mlock' = [mlock EXCEPT ![P(t)] = IF ~found /\ onDisk THEN t ELSE None]
    /\ flock' = [flock EXCEPT ![K(t)] = IF found THEN None ELSE t]
    /\ UNCHANGED <<mem, disk, req, own, got, phase, sweep, bounds>>

\* Every open() resolves the cache path again: what it finds is the file of
\* the directory that is there at that moment, or nothing.
Read(t, f, from, to) ==
    LET d == entry[K(t)] IN
    /\ At(t, from)
    /\ got' = [got EXCEPT ![t][f] = IF d # None /\ f \in files[d] THEN d ELSE None]
    /\ Goto(t, to)
    /\ UNCHANGED <<mem, mlock, flock, disk, req, own, phase, sweep, bounds>>

\* _load_kernel_source, then the parameters.
ReadSource(t) == Read(t, "source", "readSource", "readParams")
ReadParams(t) == Read(t, "params", "readParams", "build")

\* _build_kernel: without sources or parameters there is no kernel and the
\* key is compiled; otherwise the library is loaded and the kernel kept.  A
\* library that is gone makes the load raise, out of cached().
BuildKernel(t) ==
    LET d == entry[K(t)]
        haveText == got[t]["source"] # None /\ got[t]["params"] # None
        lib == IF Backend = "torch" THEN got[t]["source"]
               ELSE IF d # None /\ "lib" \in files[d] THEN d ELSE None
        loaded == haveText /\ lib # None
    IN
    /\ At(t, "build")
    /\ got' = [got EXCEPT ![t]["lib"] = IF haveText THEN lib ELSE None]
    /\ mem' = IF loaded THEN [mem EXCEPT ![P(t)][K(t)] = [got[t] EXCEPT !["lib"] = lib]]
                        ELSE mem
    /\ mlock' = [mlock EXCEPT ![P(t)] = None]
    /\ flock' = [flock EXCEPT ![K(t)] = IF haveText THEN None ELSE t]
    /\ Goto(t, IF haveText THEN "idle" ELSE "compile")
    /\ UNCHANGED <<disk, req, own, phase, sweep, bounds>>
----------------------------------------------------------------------------
(* cached(): compilation and the save *)

\* JITKernel(...): the compilation, under the file lock only.  If it raises,
\* the exception leaves cached() and the file lock is released.
Compile(t) ==
    /\ At(t, "compile") /\ last < MaxDirs
    /\ last' = last + 1
    /\ own' = [own EXCEPT ![t] = last + 1]
    /\ Goto(t, "save")
    /\ UNCHANGED <<mem, mlock, flock, disk, req, got, phase, sweep, calls, crashes, clears>>

\* So does an error of _create_dirs or makedirs(staging_path) in the save.
CompileRaises(t) ==
    /\ Faults
    /\ At(t, "compile") \/ (At(t, "save") /\ mlock[P(t)] = None)
    /\ flock' = [flock EXCEPT ![K(t)] = None]
    /\ Goto(t, "idle")
    /\ UNCHANGED <<mem, mlock, disk, req, own, got, phase, sweep, bounds>>

\* _save_kernel_to_disk up to makedirs(staging_path): nothing is written when
\* a complete entry is there already.  _lock is held until the store.
BeginSave(t) ==
    LET done == Complete(entry[K(t)]) IN
    /\ At(t, "save") /\ mlock[P(t)] = None
    /\ mlock' = [mlock EXCEPT ![P(t)] = t]
    /\ root' = TRUE
    /\ staged' = IF done THEN staged ELSE staged \cup {D(t)}
    /\ Goto(t, IF done THEN "store" ELSE "writeSource")
    /\ UNCHANGED <<mem, flock, entry, files, req, own, got, phase, sweep, bounds>>

\* _safe_write_file: a temporary file replaced into the staging directory in
\* one step.  It fails when the directory has been swept away.
Write(t, f, from, to) ==
    /\ At(t, from) /\ D(t) \in staged
    /\ files' = [files EXCEPT ![D(t)] = @ \cup ({f} \cap SavedFiles)]
    /\ Goto(t, to)
    /\ UNCHANGED <<mem, mlock, flock, entry, staged, root, req, own, got, phase, sweep, bounds>>

\* The "cutedsl" cache overrides the source hook with one parameter less than
\* the save passes, so that the call raises.
WriteSource(t) == Backend # "cutedsl" /\ Write(t, "source", "writeSource", "writeLib")
\* (mutation) The directory is published before the parameters are written.
WriteLibEarly(t) == Write(t, "lib", "writeLib", "repair")
WriteLib(t) == Write(t, "lib", "writeLib", "writeParams")
WriteParams(t) == Write(t, "params", "writeParams", "checkStaging")

Saving == {"writeSource", "writeLib", "writeParams", "checkStaging", "repair", "rename"}

\* _get_missing_complete_cache_files on the staging directory.
CheckStaging(t) ==
    /\ At(t, "checkStaging") /\ D(t) \in staged /\ Complete(D(t))
    /\ Goto(t, "repair")
    /\ UNCHANGED <<mem, mlock, flock, disk, req, own, got, phase, sweep, bounds>>

\* _remove_incomplete_cache_dir: rmtree of an incomplete entry, file by file.
Repair(t) ==
    LET d == entry[K(t)] IN
    /\ At(t, "repair")
    /\ \/ /\ d # None => Complete(d)
          /\ Goto(t, "rename") /\ UNCHANGED <<entry, files>>
       \/ /\ d # None /\ ~Complete(d) /\ files[d] # {}
          /\ \E f \in files[d] : files' = [files EXCEPT ![d] = @ \ {f}]
          /\ UNCHANGED <<pc, entry>>
       \/ /\ d # None /\ files[d] = {}
          /\ entry' = [entry EXCEPT ![K(t)] = None]
          /\ Goto(t, "rename") /\ UNCHANGED files
    /\ UNCHANGED <<mem, mlock, flock, staged, root, req, own, got, phase, sweep, bounds>>

\* os.rename(staging, cache path): it takes the place of nothing or of an
\* empty directory.
Rename(t) ==
    /\ At(t, "rename") /\ D(t) \in staged /\ root
    /\ Vacant(entry[K(t)])
    /\ entry' = [entry EXCEPT ![K(t)] = D(t)]
    /\ staged' = staged \ {D(t)}
    /\ Goto(t, "store")
    /\ UNCHANGED <<mem, mlock, flock, files, root, req, own, got, phase, sweep, bounds>>

\* (mutation) The except clause logs but leaves the staging directory.
AbandonSaveLeaks(t) ==
    /\ Faults /\ pc[t] \in Saving /\ At(t, pc[t])
    /\ Goto(t, "store")
    /\ UNCHANGED <<mem, mlock, flock, disk, req, own, got, phase, sweep, bounds>>

\* The except clauses: a rename collision and every exception of the save end
\* with rmtree(staging_path) and are swallowed; the kernel is still stored.
\* A write or a check fails when the directory was swept, the rename also when
\* the cache root is gone, and any of them when the file system says so.
AbandonSave(t) ==
    /\ pc[t] \in Saving /\ At(t, pc[t])
    /\ \/ Faults
       \/ D(t) \notin staged /\ pc[t] # "repair"
       \/ pc[t] = "writeSource" /\ Backend = "cutedsl"
       \/ pc[t] = "checkStaging" /\ ~Complete(D(t))
       \/ pc[t] = "repair" /\ \E p \in Proc : phase[p] = "clearCache"
       \/ pc[t] = "rename" /\ ~(root /\ Vacant(entry[K(t)]))
    /\ staged' = staged \ {D(t)}
    /\ files' = IF D(t) \in staged THEN [files EXCEPT ![D(t)] = {}] ELSE files
    /\ Goto(t, "store")
    /\ UNCHANGED <<mem, mlock, flock, entry, root, req, own, got, phase, sweep, bounds>>

\* (mutation) What the load had read is stored instead of the compiled kernel.
StoreRead(t) ==
    /\ At(t, "store")
    /\ mem' = [mem EXCEPT ![P(t)][K(t)] = got[t]]
    /\ mlock' = [mlock EXCEPT ![P(t)] = None]
    /\ flock' = [flock EXCEPT ![K(t)] = None]
    /\ Goto(t, "idle")
    /\ UNCHANGED <<disk, req, own, got, phase, sweep, bounds>>

\* _memory_cache[key] = kernel, and both locks are released on the way out.
Store(t) ==
    /\ At(t, "store")
    /\ mem' = [mem EXCEPT ![P(t)][K(t)] = Built(D(t))]
    /\ mlock' = [mlock EXCEPT ![P(t)] = None]
    /\ flock' = [flock EXCEPT ![K(t)] = None]
    /\ Goto(t, "idle")
    /\ UNCHANGED <<disk, req, own, got, phase, sweep, bounds>>
----------------------------------------------------------------------------
(* Processes: start, clear_cache, crash *)

\* The import of tilelang.cache creates the singletons, and with the first of
\* them _cleanup_stale_staging_dirs runs: staging directories not written for
\* an hour are removed.  Those of writers that died may be that old; those of
\* live ones only if SlowWriters.
Live(d) == \E t \in Thread : pc[t] \in Saving /\ own[t] = d
StartSweep(p) ==
    /\ phase[p] = "boot"
    /\ \E old \in SUBSET {d \in staged : SlowWriters \/ ~Live(d)} :
          todo' = [todo EXCEPT ![p] = old]
    /\ phase' = [phase EXCEPT ![p] = "sweepStale"]
    /\ UNCHANGED <<mem, mlock, flock, disk, thr, open, left, bounds>>

\* clear_cache: _lock is taken, the memory cache emptied and the listing of
\* the cache root read.  The file locks are not taken.
BeginClear(p) ==
    /\ phase[p] = "up" /\ mlock[p] = None /\ clears < MaxClears
    /\ clears' = clears + 1
    /\ mlock' = [mlock EXCEPT ![p] = p]
    /\ mem' = [mem EXCEPT ![p] = [k \in Key |-> None]]
    /\ phase' = [phase EXCEPT ![p] = "clearCache"]
    /\ todo' = [todo EXCEPT ![p] = {entry[k] : k \in Key} \ {None}]
    /\ UNCHANGED <<flock, disk, thr, open, left, calls, last, crashes>>

\* rmtree opens a directory of its listing by name and then removes what it
\* listed inside through the open descriptor, wherever the directory is then.
Linked(p, d) ==
    IF phase[p] = "clearCache" THEN d \in {entry[k] : k \in Key} ELSE d \in staged

SweepOpen(p, d) ==
    /\ phase[p] \in {"sweepStale", "clearCache", "clearStaging"}
    /\ open[p] = None /\ d \in todo[p]
    /\ todo' = [todo EXCEPT ![p] = @ \ {d}]
    /\ open' = [open EXCEPT ![p] = IF Linked(p, d) THEN d ELSE None]
    /\ left' = [left EXCEPT ![p] = IF Linked(p, d) THEN files[d] ELSE {}]
    /\ UNCHANGED <<mem, mlock, flock, disk, thr, phase, bounds>>

SweepFile(p, f) ==
    /\ open[p] # None /\ f \in left[p]
    /\ files' = [files EXCEPT ![open[p]] = @ \ {f}]
    /\ left' = [left EXCEPT ![p] = @ \ {f}]
    /\ UNCHANGED <<mem, mlock, flock, entry, staged, root, thr, phase, todo, open, bounds>>

\* rmdir by name: only of an empty directory that still has the name.
SweepClose(p) ==
    LET gone == files[open[p]] = {} IN
    /\ open[p] # None /\ left[p] = {}
    /\ open' = [open EXCEPT ![p] = None]
    /\ entry' = [k \in Key |-> IF gone /\ phase[p] = "clearCache" /\ entry[k] = open[p]
                               THEN None ELSE entry[k]]
    /\ staged' = IF gone /\ phase[p] # "clearCache" THEN staged \ {open[p]} ELSE staged
    /\ UNCHANGED <<mem, mlock, flock, files, root, thr, phase, todo, left, bounds>>

\* The end of an rmtree.  clear_cache goes on from the cache root, which is
\* removed if it is empty, to the staging root and then creates both again.
SweepEnd(p) ==
    /\ phase[p] \in {"sweepStale", "clearCache", "clearStaging"}
    /\ todo[p] = {} /\ open[p] = None
    /\ phase' = [phase EXCEPT ![p] = IF @ = "clearCache" THEN "clearStaging" ELSE "up"]
    /\ todo' = [todo EXCEPT ![p] = IF phase[p] = "clearCache" THEN staged ELSE {}]
    /\ root' = IF phase[p] = "clearCache" THEN root /\ \E k \in Key : entry[k] # None ELSE TRUE
    /\ mlock' = IF phase[p] = "clearStaging" THEN [mlock EXCEPT ![p] = None] ELSE mlock
    /\ UNCHANGED <<mem, flock, entry, staged, files, thr, open, left, bounds>>

\* clear_memory_cache, run at interpreter exit (counted with the crashes).
ClearMemory(p) ==
    /\ phase[p] = "up" /\ mlock[p] = None
    /\ \E k \in Key : mem[p][k] # None
    /\ crashes < MaxCrashes /\ crashes' = crashes + 1
    /\ mem' = [mem EXCEPT ![p] = [k \in Key |-> None]]
    /\ UNCHANGED <<mlock, flock, disk, thr, phase, sweep, calls, last, clears>>

\* A process dies: its memory and its locks (flock is released by the kernel)
\* are gone, the disk stays as it is; a new process takes its place.
Crash(p) ==
    /\ crashes < MaxCrashes /\ phase[p] # "boot"
    /\ crashes' = crashes + 1
    /\ mem' = [mem EXCEPT ![p] = [k \in Key |-> None]]
    /\ mlock' = [mlock EXCEPT ![p] = None]
    /\ flock' = [k \in Key |-> IF flock[k] # None /\ P(flock[k]) = p THEN None ELSE flock[k]]
    /\ pc' = [t \in Thread |-> IF P(t) = p THEN "idle" ELSE pc[t]]
    /\ phase' = [phase EXCEPT ![p] = "boot"]
    /\ todo' = [todo EXCEPT ![p] = {}]
    /\ open' = [open EXCEPT ![p] = None]
    /\ left' = [left EXCEPT ![p] = {}]
    /\ UNCHANGED <<disk, req, own, got, calls, last, clears>>
----------------------------------------------------------------------------
ThreadStep(t) ==
    \/ CheckMemory(t) \/ CreateDirs(t) \/ LockKey(t) \/ Recheck(t)
    \/ ReadSource(t) \/ ReadParams(t) \/ BuildKernel(t)
    \/ Compile(t) \/ CompileRaises(t) \/ BeginSave(t)
    \/ WriteSource(t) \/ WriteLib(t) \/ WriteParams(t) \/ CheckStaging(t)
    \/ Repair(t) \/ Rename(t) \/ AbandonSave(t) \/ Store(t)

SweepStep(p) ==
    \/ StartSweep(p) \/ SweepClose(p) \/ SweepEnd(p)
    \/ \E d \in Dir : SweepOpen(p, d)
    \/ \E f \in File : SweepFile(p, f)

\* Nothing but the environment is left to act when every call has returned.
Done ==
    /\ \A t \in Thread : pc[t] = "idle" /\ calls[t] = MaxCalls
    /\ \A p \in Proc : phase[p] = "up"
    /\ UNCHANGED vars

Next ==
    \/ \E t \in Thread : ThreadStep(t) \/ \E k \in Key : Call(t, k)
    \/ \E p \in Proc : SweepStep(p) \/ BeginClear(p) \/ ClearMemory(p) \/ Crash(p)
    \/ Done

\* A thread inside cached() and a sweep in progress are not stopped for ever by
\* the scheduler; nothing obliges anyone to call, to clear or to crash.
Fairness ==
    /\ \A t \in Thread : WF_vars(ThreadStep(t))
    /\ \A p \in Proc : WF_vars(SweepStep(p))

Spec == Init /\ [][Next]_vars
FairSpec == Spec /\ Fairness
----------------------------------------------------------------------------
(* Properties *)

Label == {"idle", "memory", "dirs", "flock", "recheck", "readSource", "readParams",
          "build", "compile", "save", "store"} \cup Saving

\* Every variable has its type.
TypeOK ==
    /\ mem \in [Proc -> [Key -> Kernel \cup {None}]]
    /\ mlock \in [Proc -> Thread \cup Proc \cup {None}]
    /\ flock \in [Key -> Thread \cup {None}]
    /\ entry \in [Key -> Dir \cup {None}]
    /\ staged \subseteq Dir
    /\ files \in [Dir -> SUBSET File]
    /\ root \in BOOLEAN
    /\ pc \in [Thread -> Label]
    /\ req \in [Thread -> Key \cup {None}]
    /\ own \in [Thread -> Dir \cup {None}]
    /\ calls \in [Thread -> 0..MaxCalls]
    /\ last \in 0..MaxDirs
    /\ got \in [Thread -> [File -> Dir \cup {None}]]
    /\ phase \in [Proc -> {"boot", "sweepStale", "up", "clearCache", "clearStaging"}]
    /\ todo \in [Proc -> SUBSET Dir]
    /\ open \in [Proc -> Dir \cup {None}]
    /\ left \in [Proc -> SUBSET File]
    /\ crashes \in Nat /\ clears \in Nat

Loading == {"readSource", "readParams", "build"}
InKeySection == {"recheck", "compile", "save", "store"} \cup Loading \cup Saving
InMemSection == {"store"} \cup Loading \cup Saving

\* No kernel is put together from two compilations: the sources, the library
\* and the parameters of a kernel in memory are those of one compilation, even
\* though a load opens them one by one while other processes compile, publish,
\* clear the cache or crash.
NoTornKernel ==
    \A p \in Proc, k \in Key : mem[p][k] # None => \E d \in Dir : mem[p][k] = Built(d)

\* "Serialize one cache-key compilation across local processes": a thread
\* compiles or saves a key only while no other thread of any process does, and
\* when it compiles there is no complete entry it could have loaded.
NoRedundantCompile ==
    \A t \in Thread : pc[t] = "compile" =>
        /\ ~Complete(entry[K(t)])
        /\ \A u \in Thread \ {t} :
              pc[u] \in {"compile", "save", "store"} \cup Saving => K(u) # K(t)

\* A kernel in the memory cache is never replaced by another one: every thread
\* of a process gets the same kernel until the memory cache is emptied.
MemoryStable ==
    [][\A p \in Proc, k \in Key : mem[p][k] # None => mem'[p][k] \in {mem[p][k], None}]_vars

\* Until someone calls clear_cache an entry that is visible on disk is complete,
\* through crashes and failing saves.
PublishedComplete ==
    clears = 0 => \A k \in Key : entry[k] # None => Complete(entry[k])

\* A staging directory belongs to a save in progress: no path out of the save
\* leaves one behind, only a crash does.
NoStagingLeak == \A d \in staged : Live(d) \/ crashes > 0

\* "Persists a compiled kernel to disk cache": when a save ends that met no
\* error and no clear, the entry of the key is on disk and complete.
Persisted == \A t \in Thread : pc[t] = "store" => Complete(entry[K(t)])

\* "other processes never observe an incomplete cache entry": the rename makes
\* a complete directory visible.
RenamePublishesComplete ==
    [][\A k \in Key : entry'[k] \notin {None, entry[k]} => Complete(entry[k])']_vars

\* The whole cache, locks, staging, renames and sweeps, implements the store of
\* KernelStore: a complete directory is the stored kernel, a directory that is
\* not complete is nothing.  Until someone calls clear_cache it is write-once.
Store_ == INSTANCE KernelStore WITH
    local <- mem,
    cleared <- clears > 0,
    store <- [k \in Key |-> IF Complete(entry[k]) THEN entry[k] ELSE None]
ImplementsStore == Store_!Spec

\* Every call of cached() returns.
CallsReturn == \A t \in Thread : pc[t] # "idle" ~> pc[t] = "idle"
============================================================================
