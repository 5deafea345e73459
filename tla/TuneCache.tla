----------------------------- MODULE TuneCache -----------------------------
(***************************************************************************)
(* The result cache of the auto-tuner: what AutoTuner.run() does around    *)
(* the tuning (tilelang/autotuner/tuner.py) and how AutotuneResult is      *)
(* saved and loaded (tilelang/autotuner/param.py), for one cache key.      *)
(*                                                                         *)
(* Threads of several processes call run().  A process has a memory cache  *)
(* and a lock, held while the disk is read or written but not while it     *)
(* tunes; nothing is locked between processes.  Tunings are numbered, and  *)
(* the directory a result is saved in has the number of its tuning; 0 is   *)
(* an entry that was on disk before.  The files of an entry are of two     *)
(* kinds: "config" (best_config.json, function.pkl and latency.json, which *)
(* a load opens first and needs) and "kernel" (what                        *)
(* _load_kernel_from_disk reads; without it there is no result).           *)
(***************************************************************************)
EXTENDS Naturals

CONSTANTS
    Thread, Proc,
    None,
    Stale,           \* the files an incomplete entry may begin with
    MaxFaults,       \* bound: tunings and writes that fail in a behaviour
    MaxTunes,        \* bound: tunings in a behaviour
    MaxCrashes       \* bound: process crashes in a behaviour

File == {"config", "kernel"}
Dir == 0..MaxTunes

ASSUME TuneAssumption ==
    /\ None \notin Thread \cup Nat
    /\ Stale \subseteq SUBSET File
    /\ {MaxTunes, MaxFaults, MaxCrashes} \subseteq Nat

VARIABLES
    proc,            \* the process of each thread
    mem,             \* _memory_cache of each process
    lock,            \* holder of _lock in each process
    entry,           \* the directory at the cache path
    files,           \* the files in each directory
    staged,          \* the staging directories
    pc, own, got,    \* threads: label, tuning, configuration read
    open, left,      \* threads: directory open in rmtree, files listed in it
    tunes, faults, crashes,
    orphans          \* history: the staging directories that nobody will remove

disk == <<entry, files, staged>>
sweep == <<open, left>>
counts == <<tunes, faults, crashes, orphans>>
vars == <<proc, mem, lock, disk, pc, own, got, sweep, counts>>

P(t) == proc[t]
Result == [config : Dir, kernel : Dir]
Whole(d) == [config |-> d, kernel |-> d]

\* _is_complete_result_dir
Complete(d) == d # None /\ files[d] = File
Holds(f) == entry # None /\ f \in files[entry]

Init ==
    /\ proc \in [Thread -> Proc]
    /\ mem = [p \in Proc |-> None] /\ lock = [p \in Proc |-> None]
    /\ \/ entry = None /\ files = [d \in Dir |-> {}]
       \/ \E s \in Stale : entry = 0 /\ files = [d \in Dir |-> IF d = 0 THEN s ELSE {}]
    /\ staged = {}
    /\ pc = [t \in Thread |-> "idle"]
    /\ own = [t \in Thread |-> None] /\ got = [t \in Thread |-> None]
    /\ open = [t \in Thread |-> None] /\ left = [t \in Thread |-> {}]
    /\ tunes = 0 /\ faults = 0 /\ crashes = 0 /\ orphans = {}

Goto(t, l) == pc' = [pc EXCEPT ![t] = l]
Acquire(t) == lock[P(t)] = None /\ lock' = [lock EXCEPT ![P(t)] = t]
Release(t) == lock' = [lock EXCEPT ![P(t)] = IF @ = t THEN None ELSE @]
----------------------------------------------------------------------------
(* The lookup in run(), and load_from_disk *)

Call(t) ==
    /\ pc[t] \in {"idle", "raised", "failed"} /\ tunes < MaxTunes
    /\ Acquire(t)
    /\ Goto(t, "lookup")
    /\ UNCHANGED <<mem, disk, own, got, sweep, proc, counts>>

Lookup(t) ==
    /\ pc[t] = "lookup"
    /\ \/ mem[P(t)] # None /\ Release(t) /\ Goto(t, "idle")
       \/ mem[P(t)] = None /\ entry = None /\ Release(t) /\ Goto(t, "tune")
       \/ mem[P(t)] = None /\ entry # None /\ Goto(t, "config") /\ UNCHANGED lock
    /\ UNCHANGED <<mem, disk, own, got, sweep, proc, counts>>

\* (mutation) The lock is held for the first files only.
ReadConfigReleases(t) ==
    /\ pc[t] = "config" /\ Release(t)
    /\ \/ Holds("config") /\ Goto(t, "kernel") /\ got' = [got EXCEPT ![t] = entry]
       \/ ~Holds("config") /\ Goto(t, "raised") /\ UNCHANGED got
    /\ UNCHANGED <<mem, disk, own, sweep, proc, counts>>

\* A file that is not there is an error, and nobody handles it.
ReadConfig(t) ==
    /\ pc[t] = "config"
    /\ \/ Holds("config") /\ Goto(t, "kernel") /\ got' = [got EXCEPT ![t] = entry] /\ UNCHANGED lock
       \/ ~Holds("config") /\ Goto(t, "raised") /\ Release(t) /\ UNCHANGED got
    /\ UNCHANGED <<mem, disk, own, sweep, proc, counts>>

\* _load_kernel_from_disk: a file that is not there means no result.
ReadKernel(t) ==
    /\ pc[t] = "kernel"
    /\ Release(t)
    /\ \/ /\ Holds("kernel") /\ Goto(t, "idle")
          /\ mem' = [mem EXCEPT ![P(t)] = [config |-> got[t], kernel |-> entry]]
       \/ ~Holds("kernel") /\ Goto(t, "tune") /\ UNCHANGED mem
    /\ got' = [got EXCEPT ![t] = None]
    /\ UNCHANGED <<disk, own, sweep, proc, counts>>

\* The tuning, as in AutoTuner.
Tune(t) ==
    /\ pc[t] = "tune" /\ tunes < MaxTunes
    /\ tunes' = tunes + 1 /\ own' = [own EXCEPT ![t] = tunes + 1]
    /\ Goto(t, "save")
    /\ UNCHANGED <<mem, lock, disk, got, sweep, proc, faults, crashes, orphans>>

\* It fails, or the bound on tunings is reached.
TuneFails(t) ==
    /\ pc[t] = "tune"
    /\ \/ faults < MaxFaults /\ faults' = faults + 1
       \/ tunes = MaxTunes /\ UNCHANGED faults
    /\ Goto(t, "failed")
    /\ UNCHANGED <<mem, lock, disk, own, got, sweep, proc, tunes, crashes, orphans>>
----------------------------------------------------------------------------
(* save_to_disk *)

BeginSave(t) ==
    /\ pc[t] = "save" /\ Acquire(t)
    /\ IF Complete(entry) THEN Goto(t, "saved") /\ UNCHANGED staged
                          ELSE Goto(t, "write") /\ staged' = staged \cup {own[t]}
    /\ UNCHANGED <<mem, entry, files, own, got, sweep, proc, counts>>

\* One of the two makedirs in front of the try fails, and run() raises: that of the
\* staging directory, or that of the parent of the path, when the first stays behind.
MakedirsFails(t) ==
    /\ pc[t] = "save" /\ lock[P(t)] = None /\ ~Complete(entry)
    /\ faults < MaxFaults /\ faults' = faults + 1
    /\ \/ UNCHANGED <<staged, orphans>>
       \/ staged' = staged \cup {own[t]} /\ orphans' = orphans \cup {own[t]}
    /\ own' = [own EXCEPT ![t] = None]
    /\ Goto(t, "failed")
    /\ UNCHANGED <<mem, lock, entry, files, got, sweep, proc, tunes, crashes>>

\* The files are written one after the other.
Write(t) ==
    /\ pc[t] = "write" /\ files[own[t]] # File
    /\ LET f == IF files[own[t]] = {} THEN "config" ELSE "kernel" IN
       files' = [files EXCEPT ![own[t]] = @ \cup {f}]
    /\ UNCHANGED <<mem, lock, entry, staged, pc, own, got, sweep, proc, counts>>

\* (mutation) Whatever is at the path is removed.
RepairAny(t) ==
    /\ pc[t] = "write" /\ files[own[t]] = File
    /\ Goto(t, IF entry # None THEN "open" ELSE "rename")
    /\ UNCHANGED <<mem, lock, disk, own, got, sweep, proc, counts>>

\* (mutation) What is at the path is left to the rename.
RepairNothing(t) ==
    /\ pc[t] = "write" /\ files[own[t]] = File
    /\ Goto(t, "rename")
    /\ UNCHANGED <<mem, lock, disk, own, got, sweep, proc, counts>>

\* _remove_incomplete_result_dir: the check
Repair(t) ==
    /\ pc[t] = "write" /\ files[own[t]] = File
    /\ Goto(t, IF entry # None /\ ~Complete(entry) THEN "open" ELSE "rename")
    /\ UNCHANGED <<mem, lock, disk, own, got, sweep, proc, counts>>

\* (mutation) The handler only logs.
AbandonLeaks(t) ==
    /\ Goto(t, "saved")
    /\ open' = [open EXCEPT ![t] = None] /\ left' = [left EXCEPT ![t] = {}]
    /\ UNCHANGED <<entry, files, staged>>

\* The handler of save_to_disk: the staging directory is removed.
Abandon(t) ==
    /\ Goto(t, "saved")
    /\ staged' = staged \ {own[t]} /\ files' = [files EXCEPT ![own[t]] = {}]
    /\ open' = [open EXCEPT ![t] = None] /\ left' = [left EXCEPT ![t] = {}]
    /\ UNCHANGED entry

\* shutil.rmtree: the directory at the path is opened and listed, ...
SweepOpen(t) ==
    /\ pc[t] = "open"
    /\ IF entry = None THEN Abandon(t)
       ELSE /\ open' = [open EXCEPT ![t] = entry] /\ left' = [left EXCEPT ![t] = files[entry]]
            /\ Goto(t, "sweep") /\ UNCHANGED disk
    /\ UNCHANGED <<mem, lock, own, got, proc, counts>>

\* ... its files are unlinked, an error if they are gone, ...
SweepFile(t, f) ==
    /\ pc[t] = "sweep" /\ f \in left[t]
    /\ IF f \notin files[open[t]] THEN Abandon(t)
       ELSE /\ files' = [files EXCEPT ![open[t]] = @ \ {f}]
            /\ left' = [left EXCEPT ![t] = @ \ {f}]
            /\ UNCHANGED <<entry, staged, open, pc>>
    /\ UNCHANGED <<mem, lock, own, got, proc, counts>>

\* ... and what is at the path is removed, an error unless it is empty.
SweepClose(t) ==
    /\ pc[t] = "sweep" /\ left[t] = {}
    /\ IF entry = None \/ (entry # None /\ files[entry] # {}) THEN Abandon(t)
       ELSE /\ entry' = None /\ open' = [open EXCEPT ![t] = None]
            /\ Goto(t, "rename") /\ UNCHANGED <<files, staged, left>>
    /\ UNCHANGED <<mem, lock, own, got, proc, counts>>

\* The rename succeeds unless there are files at the path.
Rename(t) ==
    /\ pc[t] = "rename"
    /\ IF entry # None /\ files[entry] # {} THEN Abandon(t)
       ELSE /\ entry' = own[t] /\ staged' = staged \ {own[t]}
            /\ Goto(t, "saved") /\ UNCHANGED <<files, sweep>>
    /\ UNCHANGED <<mem, lock, own, got, proc, counts>>

\* A write, the listing or the renaming fails.
SaveFails(t) ==
    /\ faults < MaxFaults /\ faults' = faults + 1
    /\ pc[t] \in {"write", "open", "sweep", "rename"}
    /\ Abandon(t)
    /\ UNCHANGED <<mem, lock, own, got, proc, tunes, crashes, orphans>>

Saved(t) ==
    /\ pc[t] = "saved"
    /\ Release(t) /\ Goto(t, "store")
    /\ UNCHANGED <<mem, disk, own, got, sweep, proc, counts>>

\* The memory cache is written without the lock.
Store(t) ==
    /\ pc[t] = "store"
    /\ mem' = [mem EXCEPT ![P(t)] = Whole(own[t])]
    /\ own' = [own EXCEPT ![t] = None]
    /\ Goto(t, "idle")
    /\ UNCHANGED <<lock, disk, got, sweep, proc, counts>>
----------------------------------------------------------------------------
Crash(p) ==
    /\ crashes < MaxCrashes /\ crashes' = crashes + 1
    /\ mem' = [mem EXCEPT ![p] = None] /\ lock' = [lock EXCEPT ![p] = None]
    /\ pc' = [t \in Thread |-> IF P(t) = p THEN "idle" ELSE pc[t]]
    /\ own' = [t \in Thread |-> IF P(t) = p THEN None ELSE own[t]]
    /\ got' = [t \in Thread |-> IF P(t) = p THEN None ELSE got[t]]
    /\ open' = [t \in Thread |-> IF P(t) = p THEN None ELSE open[t]]
    /\ left' = [t \in Thread |-> IF P(t) = p THEN {} ELSE left[t]]
    /\ orphans' = orphans \cup {own[t] : t \in {u \in Thread : P(u) = p /\ own[u] \in staged}}
    /\ UNCHANGED <<disk, proc, tunes, faults>>

Step(t) ==
    \/ Call(t) \/ Lookup(t) \/ ReadConfig(t) \/ ReadKernel(t) \/ Tune(t) \/ TuneFails(t)
    \/ BeginSave(t) \/ MakedirsFails(t) \/ Write(t) \/ Repair(t) \/ SweepOpen(t) \/ SweepClose(t)
    \/ Rename(t) \/ SaveFails(t) \/ Saved(t) \/ Store(t)
    \/ \E f \in File : SweepFile(t, f)

\* The bound on tunings is reached and everybody is done.
Over == (\A t \in Thread : pc[t] \in {"idle", "raised", "failed"}) /\ tunes = MaxTunes /\ UNCHANGED vars

Next == (\E t \in Thread : Step(t)) \/ (\E p \in Proc : Crash(p)) \/ Over

Spec == Init /\ [][Next]_vars
\* Threads are scheduled, and call run() again and again.
Fairness == \A t \in Thread : WF_vars(Step(t))
FairSpec == Spec /\ Fairness
----------------------------------------------------------------------------
(* Properties *)

\* The variables have the types the code gives them.
TypeOK ==
    /\ mem \in [Proc -> Result \cup {None}]
    /\ lock \in [Proc -> Thread \cup {None}]
    /\ entry \in Dir \cup {None} /\ files \in [Dir -> SUBSET File] /\ staged \subseteq Dir
    /\ pc \in [Thread -> {"idle", "lookup", "config", "kernel", "tune", "save", "write", "open",
                          "sweep", "rename", "saved", "store", "raised", "failed"}]
    /\ own \in [Thread -> Dir \cup {None}] /\ got \in [Thread -> Dir \cup {None}]
    /\ open \in [Thread -> Dir \cup {None}]
    /\ left \in [Thread -> SUBSET File]
    /\ proc \in [Thread -> Proc]
    /\ tunes \in 0..MaxTunes /\ faults \in 0..MaxFaults /\ crashes \in 0..MaxCrashes
    /\ orphans \subseteq Dir

\* The docstring of save_to_disk: "concurrent readers never see a half-written
\* result".  The configuration and latency a process has go with its kernel, and a
\* load never stops at a file that is not there, unless it is one of an incomplete
\* entry from before, whose removal was cut short.
ResultsWhole ==
    /\ \A p \in Proc : mem[p] # None => mem[p].config = mem[p].kernel
    /\ \A t \in Thread : pc[t] = "config" => Holds("config") \/ entry = 0

\* The comments in save_to_disk: stale or incomplete entries are repaired, while
\* of two complete ones the first stays.  A complete entry is never touched.
CompleteStays == [][Complete(entry) => entry' = entry /\ Complete(entry)']_vars

\* A staging directory belongs to a save in progress.  It outlives its save in two ways
\* only: its process crashed, or the makedirs of the path's parent, outside of the try of
\* save_to_disk, failed.  Whatever else fails, and whoever takes the path, it is removed
\* or renamed.
NoStagingLeak ==
    \A d \in staged \ orphans : \E t \in Thread : own[t] = d /\ pc[t] \in {"write", "open", "sweep", "rename"}

\* The comment in save_to_disk, "Repair stale/incomplete entries": if run() is
\* called again and again, and nothing fails, there is a complete entry in the end.
Repaired == <>(Complete(entry) \/ faults > 0 \/ crashes > 0)
=============================================================================
