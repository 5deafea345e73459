-------------------------- MODULE TuneCacheProofs --------------------------
(***************************************************************************)
(* What the result cache of the auto-tuner keeps for any number of         *)
(* threads, processes, tunings, failures and crashes: unconditionally, and *)
(* when processes do not share an incomplete entry.                        *)
(***************************************************************************)
EXTENDS TuneCache, TLAPS

\* There is no incomplete entry, or all threads are of one process.
Apart ==
    \/ entry = None \/ Complete(entry)
    \/ \A t, u \in Thread : proc[t] = proc[u]

\* Where a thread has a staging directory, a result of its own, the lock of its process.
Active == {"write", "open", "sweep", "rename"}
Saving == {"save", "saved", "store"} \cup Active
Held == {"lookup", "config", "kernel", "saved"} \cup Active

Locks == \A t \in Thread : pc[t] \in Held => lock[P(t)] = t

\* A tuning has one thread, until it is in the memory cache; a load has read an entry.
Owns ==
    /\ \A t \in Thread : pc[t] \in Saving => own[t] \in 1..tunes
    /\ \A t \in Thread : pc[t] \notin Saving => own[t] = None
    /\ \A t, u \in Thread : own[t] # None /\ own[t] = own[u] => t = u
    /\ \A t \in Thread : pc[t] = "kernel" => got[t] # None

\* A directory is at the path only after its rename, and whole before it.
Dirs ==
    /\ entry # None => entry \in 0..tunes
    /\ \A t \in Thread : pc[t] \in {"save"} \cup Active => entry # own[t]
    /\ \A t \in Thread : pc[t] \in {"open", "sweep", "rename"} => files[own[t]] = File

\* Only an entry from before can be incomplete.
EntryOK == entry \in {None, 0} \/ Complete(entry)

\* What is being loaded stays at the path ...
Loads ==
    /\ \A t \in Thread : pc[t] \in {"config", "kernel"} => entry # None
    /\ \A t \in Thread : pc[t] = "kernel" => got[t] = entry

\* ... and so does what is being removed.
Sweeps ==
    /\ \A t \in Thread : pc[t] \in {"open", "sweep"} => entry = 0 /\ ~Complete(entry)
    /\ \A t \in Thread : pc[t] = "sweep" => open[t] = entry

\* Apart, kept.
Guarded ==
    \/ \A t, u \in Thread : proc[t] = proc[u]
    \/ (entry = None \/ Complete(entry)) /\ \A t \in Thread : pc[t] \notin {"open", "sweep"}

Results == \A p \in Proc : mem[p] # None => mem[p].config = mem[p].kernel

\* The inductive invariants: of any processes, and of processes that are apart.
StagingInv == TypeOK /\ Owns /\ NoStagingLeak
DiskInv == Dirs /\ EntryOK /\ Loads /\ Sweeps /\ Guarded
ApartInv == TypeOK /\ Owns /\ Locks /\ DiskInv /\ Results
----------------------------------------------------------------------------
(* Types, and the tunings of the threads. *)

\* The types hold initially.
LEMMA InitTypes == Init => TypeOK /\ Owns
<1> SUFFICES ASSUME Init PROVE TypeOK /\ Owns
    BY ZenonT(40)
<1>1. 0 \in Dir /\ {} \in SUBSET File /\ \A s \in Stale : s \in SUBSET File
    BY TuneAssumption, SMTT(30) DEF Dir
<1>2. files \in [Dir -> SUBSET File] /\ entry \in Dir \cup {None}
    BY <1>1, Zenon DEF Init
<1>3. 0 \in 0..MaxTunes /\ 0 \in 0..MaxFaults /\ 0 \in 0..MaxCrashes
    BY TuneAssumption, SMTT(30)
<1>4. TypeOK
    BY <1>2, <1>3, Zenon DEF Init, TypeOK
<1>. QED
    BY <1>4, Zenon DEF Init, Owns, Saving, Active

\* A save that gives up keeps the types.
LEMMA AbandonTypes ==
    ASSUME TypeOK, NEW t \in Thread, Abandon(t)
    PROVE  /\ pc' \in [Thread -> {"idle", "lookup", "config", "kernel", "tune", "save", "write",
                                  "open", "sweep", "rename", "saved", "store", "raised", "failed"}]
           /\ entry' \in Dir \cup {None} /\ files' \in [Dir -> SUBSET File] /\ staged' \subseteq Dir
           /\ open' \in [Thread -> Dir \cup {None}] /\ left' \in [Thread -> SUBSET File]
BY Zenon DEF TypeOK, Abandon, Goto

\* Every step preserves the types.
LEMMA StepTypes ==
    ASSUME TypeOK, Owns, [Next]_vars PROVE TypeOK'
<1>0. /\ MaxTunes \in Nat /\ MaxFaults \in Nat /\ MaxCrashes \in Nat /\ None \notin Nat
      /\ \A t \in Thread : pc[t] \in Saving => own[t] \in Dir
    BY TuneAssumption, SMTT(30) DEF Owns, TypeOK, Dir
<1>1. ASSUME NEW t \in Thread, Call(t) PROVE TypeOK'
    BY <1>0, <1>1, Zenon DEF TypeOK, Call, Goto, Acquire, disk, sweep, counts, P
<1>2. ASSUME NEW t \in Thread, Lookup(t) PROVE TypeOK'
    BY <1>0, <1>2, SMTT(30) DEF TypeOK, Lookup, Goto, Release, P, disk, sweep, counts
<1>3. ASSUME NEW t \in Thread, ReadConfig(t) PROVE TypeOK'
    BY <1>0, <1>3, SMTT(30) DEF TypeOK, ReadConfig, Goto, Release, disk, sweep, counts, Holds, P
<1>4. ASSUME NEW t \in Thread, ReadKernel(t) PROVE TypeOK'
  <2>1. Holds("kernel") => [config |-> got[t], kernel |-> entry] \in Result
      BY <1>4, Zenon DEF TypeOK, Owns, ReadKernel, Holds, Result
  <2>. QED
      BY <1>4, <2>1, SMTT(30) DEF TypeOK, ReadKernel, Goto, Release, P, disk, sweep, counts
<1>5. ASSUME NEW t \in Thread, Tune(t) PROVE TypeOK'
    BY <1>0, <1>5, SMTT(30) DEF TypeOK, Tune, Goto, disk, sweep, Dir
<1>6. ASSUME NEW t \in Thread, TuneFails(t) PROVE TypeOK'
    BY <1>0, <1>6, SMTT(30) DEF TypeOK, TuneFails, Goto, disk, sweep
<1>7. ASSUME NEW t \in Thread, BeginSave(t) PROVE TypeOK'
    BY <1>0, <1>7, SMTT(30) DEF TypeOK, BeginSave, Goto, Acquire, sweep, counts, Complete, P, Saving, Active
<1>8. ASSUME NEW t \in Thread, Write(t) PROVE TypeOK'
  <2>1. files' \in [Dir -> SUBSET File]
      BY <1>8, ZenonT(40) DEF TypeOK, Write, File
  <2>. QED
      BY <1>8, <2>1, Zenon DEF TypeOK, Write, sweep, counts
<1>9. ASSUME NEW t \in Thread, Repair(t) PROVE TypeOK'
    BY <1>0, <1>9, Zenon DEF TypeOK, Repair, Goto, disk, sweep, counts, Complete
<1>10. ASSUME NEW t \in Thread, SweepOpen(t) PROVE TypeOK'
  <2>1. CASE Abandon(t)
      BY <1>10, <2>1, AbandonTypes, Zenon DEF TypeOK, SweepOpen, counts
  <2>2. CASE ~Abandon(t)
      BY <1>0, <1>10, <2>2, SMTT(30) DEF TypeOK, SweepOpen, Saving, Active, Goto, disk, counts
  <2>. QED
      BY <2>1, <2>2, Zenon
<1>11. ASSUME NEW t \in Thread, SweepClose(t) PROVE TypeOK'
  <2>1. CASE Abandon(t)
      BY <1>11, <2>1, AbandonTypes, Zenon DEF TypeOK, SweepClose, counts
  <2>2. CASE ~Abandon(t)
      BY <1>0, <1>11, <2>2, Zenon DEF TypeOK, SweepClose, Saving, Active, Goto, counts
  <2>. QED
      BY <2>1, <2>2, Zenon
<1>12. ASSUME NEW t \in Thread, Rename(t) PROVE TypeOK'
  <2>1. CASE Abandon(t)
      BY <1>12, <2>1, AbandonTypes, Zenon DEF TypeOK, Rename, counts
  <2>2. CASE ~Abandon(t)
      BY <1>0, <1>12, <2>2, ZenonT(40) DEF TypeOK, Rename, Saving, Active, Goto, sweep, counts
  <2>. QED
      BY <2>1, <2>2, Zenon
<1>13. ASSUME NEW t \in Thread, SaveFails(t) PROVE TypeOK'
  <2>1. faults' \in 0..MaxFaults
      BY <1>0, <1>13, SMTT(30) DEF TypeOK, SaveFails
  <2>. QED
      BY <1>13, <2>1, AbandonTypes, Zenon DEF TypeOK, SaveFails
<1>14. ASSUME NEW t \in Thread, Saved(t) PROVE TypeOK'
    BY <1>0, <1>14, Zenon DEF TypeOK, Saved, Goto, Release, disk, sweep, counts, P
<1>15. ASSUME NEW t \in Thread, Store(t) PROVE TypeOK'
  <2>1. Whole(own[t]) \in Result
      BY <1>0, <1>15, Zenon DEF Store, Whole, Result, Saving, Active
  <2>. QED
      BY <1>15, <2>1, Zenon DEF TypeOK, Store, Goto, P, disk, sweep, counts
<1>16. ASSUME NEW t \in Thread, NEW f \in File, SweepFile(t, f) PROVE TypeOK'
  <2>1. CASE Abandon(t)
      BY <1>16, <2>1, AbandonTypes, Zenon DEF TypeOK, SweepFile, counts
  <2>2. CASE ~Abandon(t)
    <3>1. files' \in [Dir -> SUBSET File] /\ left' \in [Thread -> SUBSET File]
        BY <1>16, <2>2, SMTT(30) DEF TypeOK, SweepFile
    <3>. QED
        BY <1>16, <2>2, <3>1, Zenon DEF TypeOK, SweepFile, counts
  <2>. QED
      BY <2>1, <2>2, Zenon
<1>17. ASSUME NEW p \in Proc, Crash(p) PROVE TypeOK'
    BY <1>0, <1>17, SMTT(30) DEF TypeOK, Crash, P, disk
<1>18. CASE UNCHANGED vars
    BY <1>18, Zenon DEF TypeOK, vars, disk, sweep, counts
<1>19. ASSUME NEW t \in Thread, MakedirsFails(t) PROVE TypeOK'
    BY <1>0, <1>19, SMTT(30) DEF TypeOK, MakedirsFails, Goto, sweep, Saving, Active
<1>. QED
    BY <1>1, <1>2, <1>3, <1>4, <1>5, <1>6, <1>7, <1>8, <1>9, <1>10, <1>11, <1>12,
       <1>13, <1>14, <1>15, <1>16, <1>17, <1>18, <1>19, Zenon DEF Next, Step, Over

\* A tuning has a number no other thread has.
LEMMA StepOwns ==
    ASSUME TypeOK, Owns, [Next]_vars PROVE Owns'
<1>0. None \notin Nat /\ tunes \in Nat /\ Dir \subseteq Nat
    BY TuneAssumption, SMTT(30) DEF TypeOK, Dir
<1>1. ASSUME NEW t \in Thread, Call(t) PROVE Owns'
    BY <1>0, <1>1, Zenon DEF TypeOK, Owns, Saving, Active, Call, Goto, Acquire, disk, sweep, counts, P
<1>2. ASSUME NEW t \in Thread, Lookup(t) PROVE Owns'
    BY <1>0, <1>2, SMTT(30) DEF TypeOK, Owns, Saving, Active, Lookup, Goto, Release, P, disk, sweep, counts
<1>3. ASSUME NEW t \in Thread, ReadConfig(t) PROVE Owns'
    BY <1>0, <1>3, ZenonT(120) DEF TypeOK, Owns, Saving, Active, ReadConfig, Goto, Release, disk, sweep, counts, Holds, P
<1>4. ASSUME NEW t \in Thread, ReadKernel(t) PROVE Owns'
    BY <1>0, <1>4, SMTT(30) DEF TypeOK, Owns, Saving, Active, ReadKernel, Goto, Release, P, disk, sweep, counts, Holds
<1>5. ASSUME NEW t \in Thread, Tune(t) PROVE Owns'
    BY <1>0, <1>5, SMTT(30) DEF TypeOK, Owns, Saving, Active, Tune, Goto, disk, sweep
<1>6. ASSUME NEW t \in Thread, TuneFails(t) PROVE Owns'
    BY <1>0, <1>6, Zenon DEF TypeOK, Owns, Saving, Active, TuneFails, Goto, disk, sweep
<1>7. ASSUME NEW t \in Thread, BeginSave(t) PROVE Owns'
    BY <1>0, <1>7, SMTT(30) DEF TypeOK, Owns, Saving, Active, BeginSave, Goto, Acquire, sweep, counts, Complete, P
<1>8. ASSUME NEW t \in Thread, Write(t) PROVE Owns'
    BY <1>0, <1>8, Zenon DEF TypeOK, Owns, Saving, Active, Write, sweep, counts
<1>9. ASSUME NEW t \in Thread, Repair(t) PROVE Owns'
    BY <1>0, <1>9, Zenon DEF TypeOK, Owns, Saving, Active, Repair, Goto, disk, sweep, counts, Complete
<1>10. ASSUME NEW t \in Thread, SweepOpen(t) PROVE Owns'
    BY <1>0, <1>10, SMTT(30) DEF TypeOK, Owns, Saving, Active, SweepOpen, Goto, Abandon, disk, counts
<1>11. ASSUME NEW t \in Thread, SweepClose(t) PROVE Owns'
    BY <1>0, <1>11, SMTT(30) DEF TypeOK, Owns, Saving, Active, SweepClose, Goto, Abandon, counts
<1>12. ASSUME NEW t \in Thread, Rename(t) PROVE Owns'
    BY <1>0, <1>12, Zenon DEF TypeOK, Owns, Saving, Active, Rename, Goto, Abandon, sweep, counts
<1>13. ASSUME NEW t \in Thread, SaveFails(t) PROVE Owns'
    BY <1>0, <1>13, Zenon DEF TypeOK, Owns, Saving, Active, SaveFails, Abandon, Goto
<1>14. ASSUME NEW t \in Thread, Saved(t) PROVE Owns'
    BY <1>0, <1>14, ZenonT(40) DEF TypeOK, Owns, Saving, Active, Saved, Goto, Release, disk, sweep, counts, P
<1>15. ASSUME NEW t \in Thread, Store(t) PROVE Owns'
    BY <1>0, <1>15, Zenon DEF TypeOK, Owns, Saving, Active, Store, Goto, P, Whole, disk, sweep, counts
<1>16. ASSUME NEW t \in Thread, NEW f \in File, SweepFile(t, f) PROVE Owns'
    BY <1>0, <1>16, SMTT(30) DEF TypeOK, Owns, Saving, Active, SweepFile, Abandon, counts, Goto
<1>17. ASSUME NEW p \in Proc, Crash(p) PROVE Owns'
    BY <1>0, <1>17, Zenon DEF TypeOK, Owns, Saving, Active, Crash, P, disk
<1>18. CASE UNCHANGED vars
    BY <1>18, Zenon DEF Owns, Saving, Active, vars, disk, sweep, counts
<1>19. ASSUME NEW t \in Thread, MakedirsFails(t) PROVE Owns'
    BY <1>0, <1>19, Zenon DEF TypeOK, Owns, Saving, Active, MakedirsFails, Goto, sweep
<1>. QED
    BY <1>1, <1>2, <1>3, <1>4, <1>5, <1>6, <1>7, <1>8, <1>9, <1>10, <1>11, <1>12,
       <1>13, <1>14, <1>15, <1>16, <1>17, <1>18, <1>19, Zenon DEF Next, Step, Over

\* No step leaves a staging directory without its save, the two that the property names apart.
LEMMA StepStaging ==
    ASSUME TypeOK, NoStagingLeak, [Next]_vars PROVE NoStagingLeak'
<1>0. None \notin Nat
    BY TuneAssumption, Zenon
<1>1. ASSUME NEW t \in Thread, Call(t) PROVE NoStagingLeak'
    BY <1>0, <1>1, ZenonT(40) DEF TypeOK, NoStagingLeak, Call, Goto, Acquire, disk, sweep, counts, P
<1>2. ASSUME NEW t \in Thread, Lookup(t) PROVE NoStagingLeak'
    BY <1>0, <1>2, SMTT(30) DEF TypeOK, NoStagingLeak, Lookup, Goto, Release, P, disk, sweep, counts
<1>3. ASSUME NEW t \in Thread, ReadConfig(t) PROVE NoStagingLeak'
    BY <1>0, <1>3, SMTT(30) DEF TypeOK, NoStagingLeak, ReadConfig, Goto, Release, disk, sweep, counts, Holds, P
<1>4. ASSUME NEW t \in Thread, ReadKernel(t) PROVE NoStagingLeak'
    BY <1>0, <1>4, SMTT(30) DEF TypeOK, NoStagingLeak, ReadKernel, Goto, Release, P, disk, sweep, counts, Holds
<1>5. ASSUME NEW t \in Thread, Tune(t) PROVE NoStagingLeak'
    BY <1>0, <1>5, Zenon DEF TypeOK, NoStagingLeak, Tune, Goto, disk, sweep
<1>6. ASSUME NEW t \in Thread, TuneFails(t) PROVE NoStagingLeak'
    BY <1>0, <1>6, ZenonT(40) DEF TypeOK, NoStagingLeak, TuneFails, Goto, disk, sweep
<1>7. ASSUME NEW t \in Thread, BeginSave(t) PROVE NoStagingLeak'
    BY <1>0, <1>7, SMTT(30) DEF TypeOK, NoStagingLeak, BeginSave, Goto, Acquire, sweep, counts, Complete, P
<1>8. ASSUME NEW t \in Thread, Write(t) PROVE NoStagingLeak'
    BY <1>0, <1>8, Zenon DEF TypeOK, NoStagingLeak, Write, sweep, counts
<1>9. ASSUME NEW t \in Thread, Repair(t) PROVE NoStagingLeak'
    BY <1>0, <1>9, SMTT(30) DEF TypeOK, NoStagingLeak, Repair, Goto, disk, sweep, counts, Complete
<1>10. ASSUME NEW t \in Thread, SweepOpen(t) PROVE NoStagingLeak'
    BY <1>0, <1>10, SMTT(30) DEF TypeOK, NoStagingLeak, SweepOpen, Goto, Abandon, disk, counts
<1>11. ASSUME NEW t \in Thread, SweepClose(t) PROVE NoStagingLeak'
    BY <1>0, <1>11, SMTT(30) DEF TypeOK, NoStagingLeak, SweepClose, Goto, Abandon, counts
<1>12. ASSUME NEW t \in Thread, Rename(t) PROVE NoStagingLeak'
    BY <1>0, <1>12, SMTT(30) DEF TypeOK, NoStagingLeak, Rename, Goto, Abandon, sweep, counts
<1>13. ASSUME NEW t \in Thread, SaveFails(t) PROVE NoStagingLeak'
    BY <1>0, <1>13, ZenonT(120) DEF TypeOK, NoStagingLeak, SaveFails, Abandon, Goto
<1>14. ASSUME NEW t \in Thread, Saved(t) PROVE NoStagingLeak'
    BY <1>0, <1>14, Zenon DEF TypeOK, NoStagingLeak, Saved, Goto, Release, disk, sweep, counts, P
<1>15. ASSUME NEW t \in Thread, Store(t) PROVE NoStagingLeak'
    BY <1>0, <1>15, Zenon DEF TypeOK, NoStagingLeak, Store, Goto, P, Whole, disk, sweep, counts
<1>16. ASSUME NEW t \in Thread, NEW f \in File, SweepFile(t, f) PROVE NoStagingLeak'
  <2>1. orphans' = orphans /\ own' = own /\ pc[t] = "sweep"
      BY <1>16, Zenon DEF SweepFile, counts
  <2>2. CASE Abandon(t)
      BY <2>1, <2>2, Zenon DEF TypeOK, NoStagingLeak, Abandon, Goto
  <2>3. CASE ~Abandon(t)
    <3>1. staged' = staged /\ pc' = pc
        BY <1>16, <2>3, Zenon DEF SweepFile
    <3>. QED
        BY <2>1, <3>1, Zenon DEF NoStagingLeak
  <2>. QED
      BY <2>2, <2>3, Zenon
<1>17. ASSUME NEW p \in Proc, Crash(p) PROVE NoStagingLeak'
  <2>1. staged' = staged /\ orphans \subseteq orphans'
      BY <1>17, Zenon DEF Crash, disk
  <2>2. ASSUME NEW d \in staged \ orphans'
        PROVE  \E t \in Thread : own'[t] = d /\ pc'[t] \in {"write", "open", "sweep", "rename"}
    <3>1. PICK t \in Thread : own[t] = d /\ pc[t] \in {"write", "open", "sweep", "rename"}
        BY <2>1, <2>2, ZenonT(40) DEF NoStagingLeak
    <3>2. P(t) # p
        BY <1>17, <2>2, <3>1, ZenonT(40) DEF Crash
    <3>3. own'[t] = own[t] /\ pc'[t] = pc[t]
        BY <1>17, <3>2, ZenonT(40) DEF Crash
    <3>. QED
        BY <3>1, <3>3, ZenonT(40)
  <2>. QED
      BY <2>1, <2>2, ZenonT(40) DEF NoStagingLeak
<1>18. CASE UNCHANGED vars
    BY <1>18, ZenonT(40) DEF NoStagingLeak, vars, disk, sweep, counts
<1>19. ASSUME NEW t \in Thread, MakedirsFails(t) PROVE NoStagingLeak'
    BY <1>0, <1>19, SMTT(30) DEF TypeOK, NoStagingLeak, MakedirsFails, Goto
<1>. QED
    BY <1>1, <1>2, <1>3, <1>4, <1>5, <1>6, <1>7, <1>8, <1>9, <1>10, <1>11, <1>12,
       <1>13, <1>14, <1>15, <1>16, <1>17, <1>18, <1>19, Zenon DEF Next, Step, Over

\* The lock of a process is passed on by its holder.
LEMMA StepLocks ==
    ASSUME TypeOK, Locks, [Next]_vars PROVE Locks'
<1> USE DEF TypeOK, Locks, Held, Active, P
<1>0. None \notin Thread
    BY TuneAssumption, Zenon
<1>1. ASSUME NEW t \in Thread, Call(t) PROVE Locks'
    BY <1>0, <1>1, ZenonT(40) DEF Call, Goto, Acquire, disk, sweep, counts
<1>2. ASSUME NEW t \in Thread, Lookup(t) PROVE Locks'
    BY <1>0, <1>2, SMTT(30) DEF Lookup, Goto, Release, disk, sweep, counts
<1>3. ASSUME NEW t \in Thread, ReadConfig(t) PROVE Locks'
    BY <1>0, <1>3, SMTT(30) DEF ReadConfig, Goto, Release, disk, sweep, counts, Holds
<1>4. ASSUME NEW t \in Thread, ReadKernel(t) PROVE Locks'
    BY <1>0, <1>4, ZenonT(120) DEF ReadKernel, Goto, Release, disk, sweep, counts, Holds
<1>5. ASSUME NEW t \in Thread, Tune(t) PROVE Locks'
    BY <1>0, <1>5, Zenon DEF Tune, Goto, disk, sweep
<1>6. ASSUME NEW t \in Thread, TuneFails(t) PROVE Locks'
    BY <1>0, <1>6, Zenon DEF TuneFails, Goto, disk, sweep
<1>7. ASSUME NEW t \in Thread, BeginSave(t) PROVE Locks'
    BY <1>0, <1>7, ZenonT(120) DEF BeginSave, Goto, Acquire, sweep, counts, Complete
<1>8. ASSUME NEW t \in Thread, Write(t) PROVE Locks'
    BY <1>0, <1>8, Zenon DEF Write, sweep, counts
<1>9. ASSUME NEW t \in Thread, Repair(t) PROVE Locks'
    BY <1>0, <1>9, Zenon DEF Repair, Goto, disk, sweep, counts, Complete
<1>10. ASSUME NEW t \in Thread, SweepOpen(t) PROVE Locks'
    BY <1>0, <1>10, ZenonT(120) DEF SweepOpen, Goto, Abandon, disk, counts
<1>11. ASSUME NEW t \in Thread, SweepClose(t) PROVE Locks'
    BY <1>0, <1>11, Zenon DEF SweepClose, Goto, Abandon, counts
<1>12. ASSUME NEW t \in Thread, Rename(t) PROVE Locks'
    BY <1>0, <1>12, Zenon DEF Rename, Goto, Abandon, sweep, counts
<1>13. ASSUME NEW t \in Thread, SaveFails(t) PROVE Locks'
    BY <1>0, <1>13, Zenon DEF SaveFails, Abandon, Goto
<1>14. ASSUME NEW t \in Thread, Saved(t) PROVE Locks'
    BY <1>0, <1>14, Zenon DEF Saved, Goto, Release, disk, sweep, counts
<1>15. ASSUME NEW t \in Thread, Store(t) PROVE Locks'
    BY <1>0, <1>15, Zenon DEF Store, Goto, Whole, disk, sweep, counts
<1>16. ASSUME NEW t \in Thread, NEW f \in File, SweepFile(t, f) PROVE Locks'
    BY <1>0, <1>16, ZenonT(40) DEF SweepFile, Abandon, counts, Goto
<1>17. ASSUME NEW p \in Proc, Crash(p) PROVE Locks'
    BY <1>0, <1>17, Zenon DEF Crash, disk
<1>18. CASE UNCHANGED vars
    BY <1>18, Zenon DEF vars, disk, sweep, counts
<1>19. ASSUME NEW t \in Thread, MakedirsFails(t) PROVE Locks'
    BY <1>0, <1>19, Zenon DEF MakedirsFails, Goto
<1>. QED
    BY <1>1, <1>2, <1>3, <1>4, <1>5, <1>6, <1>7, <1>8, <1>9, <1>10, <1>11, <1>12,
       <1>13, <1>14, <1>15, <1>16, <1>17, <1>18, <1>19, Zenon DEF Next, Step, Over

\* Every step preserves what is known of the entry, its readers and its sweepers.
LEMMA StepDisk ==
    ASSUME ApartInv, [Next]_vars PROVE DiskInv'
<1> USE DEF TypeOK, DiskInv, Dirs, EntryOK, Loads, Sweeps, Guarded, Locks, Owns,
            Held, Saving, Active, Complete, Holds, P
<1>0. None \notin Nat /\ tunes \in Nat /\ Dir \subseteq Nat /\ TypeOK /\ Locks /\ Owns /\ DiskInv
    BY TuneAssumption, SMTT(30) DEF ApartInv, TypeOK, Dir
<1>1. ASSUME NEW t \in Thread, Call(t) PROVE DiskInv'
    BY <1>0, <1>1, SMTT(30) DEF Call, Goto, Acquire, disk, sweep, counts
<1>2. ASSUME NEW t \in Thread, Lookup(t) PROVE DiskInv'
    BY <1>0, <1>2, SMTT(30) DEF Lookup, Goto, Release, disk, sweep, counts
<1>3. ASSUME NEW t \in Thread, ReadConfig(t) PROVE DiskInv'
    BY <1>0, <1>3, SMTT(30) DEF ReadConfig, Goto, Release, disk, sweep, counts
<1>4. ASSUME NEW t \in Thread, ReadKernel(t) PROVE DiskInv'
    BY <1>0, <1>4, SMTT(30) DEF ReadKernel, Goto, Release, disk, sweep, counts
<1>5. ASSUME NEW t \in Thread, Tune(t) PROVE DiskInv'
    BY <1>0, <1>5, SMTT(30) DEF Tune, Goto, disk, sweep
<1>6. ASSUME NEW t \in Thread, TuneFails(t) PROVE DiskInv'
    BY <1>0, <1>6, SMTT(30) DEF TuneFails, Goto, disk, sweep
<1>7. ASSUME NEW t \in Thread, BeginSave(t) PROVE DiskInv'
    BY <1>0, <1>7, SMTT(30) DEF BeginSave, Goto, Acquire, sweep, counts
<1>8. ASSUME NEW t \in Thread, Write(t) PROVE DiskInv'
    BY <1>0, <1>8, SMTT(30) DEF Write, sweep, counts
<1>9. ASSUME NEW t \in Thread, Repair(t) PROVE DiskInv'
    BY <1>0, <1>9, ZenonT(120) DEF Repair, Goto, disk, sweep, counts
<1>10. ASSUME NEW t \in Thread, SweepOpen(t) PROVE DiskInv'
    BY <1>0, <1>10, SMTT(30) DEF SweepOpen, Goto, Abandon, disk, counts
<1>11. ASSUME NEW t \in Thread, SweepClose(t) PROVE DiskInv'
    BY <1>0, <1>11, SMTT(30) DEF SweepClose, Goto, Abandon, counts
<1>12. ASSUME NEW t \in Thread, Rename(t) PROVE DiskInv'
  <2>1. /\ own' = own /\ got' = got /\ proc' = proc /\ tunes' = tunes
        /\ own[t] \in 1..tunes /\ pc[t] = "rename" /\ pc' = [pc EXCEPT ![t] = "saved"]
      BY <1>0, <1>12, Zenon DEF Rename, Abandon, Goto, counts
  <2>2. CASE entry # None /\ files[entry] # {}
      BY <1>0, <1>12, <2>1, <2>2, SMTT(30) DEF Rename, Abandon
  <2>3. CASE ~(entry # None /\ files[entry] # {})
    <3>1. entry' = own[t] /\ files' = files /\ open' = open
        BY <1>12, <2>3, Zenon DEF Rename, sweep
    <3>2. Complete(own[t]) /\ ~Complete(entry)
      <4>1. own[t] # None /\ files[own[t]] = File
          BY <1>0, <2>1, SMTT(30)
      <4>2. File # {}
          BY Zenon DEF File
      <4>. QED
          BY <2>3, <4>1, <4>2, ZenonT(40)
    \* Nobody else is in the middle of a load or a removal.
    <3>3. \A u \in Thread \ {t} : pc[u] \notin {"config", "kernel", "open", "sweep"}
        BY <1>0, <2>1, <3>2, SMTT(30)
    <3>4. Dirs' /\ EntryOK'
        BY <1>0, <2>1, <3>1, <3>2, SMTT(30)
    <3>5. Loads' /\ Sweeps' /\ Guarded'
        BY <1>0, <2>1, <3>1, <3>2, <3>3, SMTT(30)
    <3>. QED
        BY <3>4, <3>5, Zenon
  <2>. QED
      BY <2>2, <2>3, Zenon
<1>13. ASSUME NEW t \in Thread, SaveFails(t) PROVE DiskInv'
    BY <1>0, <1>13, SMTT(30) DEF SaveFails, Abandon, Goto
<1>14. ASSUME NEW t \in Thread, Saved(t) PROVE DiskInv'
    BY <1>0, <1>14, SMTT(30) DEF Saved, Goto, Release, disk, sweep, counts
<1>15. ASSUME NEW t \in Thread, Store(t) PROVE DiskInv'
    BY <1>0, <1>15, SMTT(30) DEF Store, Goto, Whole, disk, sweep, counts
<1>16. ASSUME NEW t \in Thread, NEW f \in File, SweepFile(t, f) PROVE DiskInv'
    BY <1>0, <1>16, SMTT(30) DEF SweepFile, Abandon, counts, Goto
<1>17. ASSUME NEW p \in Proc, Crash(p) PROVE DiskInv'
    BY <1>0, <1>17, Zenon DEF Crash, disk
<1>18. CASE UNCHANGED vars
    BY <1>0, <1>18, ZenonT(40) DEF vars, disk, sweep, counts
<1>19. ASSUME NEW t \in Thread, MakedirsFails(t) PROVE DiskInv'
    BY <1>0, <1>19, SMTT(30) DEF MakedirsFails, Goto, sweep
<1>. QED
    BY <1>1, <1>2, <1>3, <1>4, <1>5, <1>6, <1>7, <1>8, <1>9, <1>10, <1>11, <1>12,
       <1>13, <1>14, <1>15, <1>16, <1>17, <1>18, <1>19, Zenon DEF Next, Step, Over

\* What only looks at the disk, or not even that.
LEMMA DiskUntouched ==
    ASSUME NEW t \in Thread,
           Call(t) \/ Lookup(t) \/ ReadConfig(t) \/ ReadKernel(t) \/ Tune(t) \/ TuneFails(t)
             \/ BeginSave(t) \/ MakedirsFails(t) \/ Repair(t) \/ Saved(t) \/ Store(t)
    PROVE  entry' = entry /\ files' = files
BY Zenon DEF Call, Lookup, ReadConfig, ReadKernel, Tune, TuneFails, BeginSave, MakedirsFails,
       Repair, Saved, Store, disk

\* A complete entry is neither removed nor replaced.
LEMMA StepComplete ==
    ASSUME ApartInv, [Next]_vars, Complete(entry) PROVE entry' = entry /\ Complete(entry)'
<1> USE DEF TypeOK, DiskInv, Dirs, Sweeps, Owns, Saving, Active, Complete
<1> DEFINE Stays == entry' = entry /\ files'[entry] = File
<1>0. /\ None \notin Nat /\ Dir \subseteq Nat /\ TypeOK /\ Owns /\ DiskInv
      /\ entry # None /\ files[entry] = File /\ File # {}
    BY TuneAssumption, SMTT(30) DEF ApartInv, Dir, File
<1>1. ASSUME NEW t \in Thread, Write(t) PROVE Stays
    BY <1>0, <1>1, Zenon DEF Write
<1>2. ASSUME NEW t \in Thread, SweepOpen(t) PROVE Stays
    BY <1>0, <1>2, Zenon DEF SweepOpen
<1>3. ASSUME NEW t \in Thread, NEW f \in File, SweepFile(t, f) PROVE Stays
    BY <1>0, <1>3, Zenon DEF SweepFile
<1>4. ASSUME NEW t \in Thread, SweepClose(t) PROVE Stays
    BY <1>0, <1>4, Zenon DEF SweepClose
<1>5. ASSUME NEW t \in Thread, Rename(t) PROVE Stays
    BY <1>0, <1>5, ZenonT(40) DEF Rename, Abandon
<1>6. ASSUME NEW t \in Thread, SaveFails(t) PROVE Stays
    BY <1>0, <1>6, Zenon DEF SaveFails, Abandon
<1>7. ASSUME entry' = entry /\ files' = files PROVE Stays
    BY <1>0, <1>7, Zenon
<1>8. Stays
    BY <1>1, <1>2, <1>3, <1>4, <1>5, <1>6, <1>7, DiskUntouched, Zenon
       DEF Next, Step, Over, Crash, vars, disk
<1>. QED
    BY <1>0, <1>8, Zenon

\* The configuration and the kernel of a result are of one entry, or of one tuning.
LEMMA StepResults ==
    ASSUME ApartInv, [Next]_vars PROVE Results'
<1>0. TypeOK /\ Results /\ Loads
    BY Zenon DEF ApartInv, DiskInv
<1>1. ASSUME NEW t \in Thread, ReadKernel(t) PROVE Results'
  <2>1. CASE Holds("kernel")
    <3>1. mem' = [mem EXCEPT ![P(t)] = [config |-> entry, kernel |-> entry]]
        BY <1>0, <1>1, <2>1, Zenon DEF ReadKernel, Loads
    <3>. QED
        BY <1>0, <3>1, Zenon DEF TypeOK, Results, P
  <2>2. CASE ~Holds("kernel")
      BY <1>0, <1>1, <2>2, Zenon DEF ReadKernel, Results
  <2>. QED
      BY <2>1, <2>2, Zenon
<1>2. ASSUME NEW t \in Thread, Store(t) PROVE Results'
    BY <1>0, <1>2, Zenon DEF TypeOK, Store, Results, Whole, P
<1>3. ASSUME NEW p \in Proc, Crash(p) PROVE Results'
    BY <1>0, <1>3, Zenon DEF TypeOK, Crash, Results
<1>4. CASE mem' = mem
    BY <1>0, <1>4, Zenon DEF Results
<1>5. ASSUME NEW t \in Thread, Step(t), ~ReadKernel(t), ~Store(t) PROVE mem' = mem
    BY <1>5, Zenon DEF Step, Call, Lookup, ReadConfig, Tune, TuneFails, BeginSave, MakedirsFails, Write, Repair,
       SweepOpen, SweepFile, SweepClose, Rename, SaveFails, Saved
<1>. QED
    BY <1>1, <1>2, <1>3, <1>4, <1>5, Zenon DEF Next, Over, vars

\* The invariant holds initially.
LEMMA InitApart == Init /\ Apart => ApartInv
<1> SUFFICES ASSUME Init, Apart PROVE ApartInv
    BY ZenonT(40)
<1>1. TypeOK /\ Owns
    BY InitTypes, Zenon
<1>2. entry \in {None, 0} /\ tunes = 0 /\ \A t \in Thread : pc[t] = "idle"
    BY Zenon DEF Init
<1>3. Locks
    BY <1>2, ZenonT(40) DEF Locks, Held, Active
<1>4. DiskInv
    BY <1>2, SMTT(30) DEF DiskInv, Dirs, EntryOK, Loads, Sweeps, Guarded, Active, Apart
<1>5. Results
    BY Zenon DEF Init, Results
<1>. QED
    BY <1>1, <1>3, <1>4, <1>5, Zenon DEF ApartInv

\* Each conjunct has its own lemma.
LEMMA StepApart == ApartInv /\ [Next]_vars => ApartInv'
BY StepTypes, StepOwns, StepLocks, StepDisk, StepResults, Zenon DEF ApartInv

----------------------------------------------------------------------------
\* A save leaves no staging directory behind, however it fails and whatever the processes
\* do to each other's entries, unless its process crashes or the makedirs of the path's
\* parent fails (save_to_disk).
THEOREM StagingIsRemoved == Spec => []NoStagingLeak
<1>1. Init => StagingInv
    BY InitTypes, Zenon DEF Init, StagingInv, NoStagingLeak
<1>2. StagingInv /\ [Next]_vars => StagingInv'
    BY StepTypes, StepOwns, StepStaging, Zenon DEF StagingInv
<1>3. StagingInv => NoStagingLeak
    BY Zenon DEF StagingInv
<1>. QED
    BY <1>1, <1>2, <1>3, PTL DEF Spec

\* Unless several processes meet an incomplete entry: no result is put together from two
\* entries, and no load stops at a missing file of an entry that this cache wrote.
THEOREM ResultsAreWhole == Apart /\ Spec => []ResultsWhole
<1>1. ApartInv => ResultsWhole
  <2> SUFFICES ASSUME ApartInv PROVE ResultsWhole
      BY ZenonT(40)
  <2>1. \A t \in Thread : pc[t] = "config" => entry = 0 \/ Holds("config")
      BY Zenon DEF ApartInv, DiskInv, Loads, EntryOK, Complete, Holds, File
  <2>. QED
      BY <2>1, Zenon DEF ApartInv, Results, ResultsWhole
<1>. QED
    BY <1>1, InitApart, StepApart, PTL DEF Spec

\* Under the same condition a complete entry stays as it is for ever.
THEOREM CompleteEntriesStay == Apart /\ Spec => CompleteStays
<1>1. ApartInv /\ [Next]_vars => [Complete(entry) => entry' = entry /\ Complete(entry)']_vars
    BY StepComplete, Zenon
<1>. QED
    BY <1>1, InitApart, StepApart, PTL DEF Spec, CompleteStays
=============================================================================
