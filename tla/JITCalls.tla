------------------------------ MODULE JITCalls ------------------------------
(***************************************************************************)
(* Calls of a function decorated with @tilelang.jit                        *)
(* (tilelang/jit/__init__.py, JITImpl, over the JITFunc of                 *)
(* tilelang/language/eager/builder.py), composed with the kernel cache     *)
(* they compile through.                                                   *)
(*                                                                         *)
(* Each process holds one JITImpl of the function: the mode, inferred by   *)
(* the first call and written twice (self.mode, then self.func.mode), the  *)
(* templates of the first tracing phase (p1_cache) and the kernels by      *)
(* arguments (_kernel_cache).  None of them is guarded by a lock.          *)
(*                                                                         *)
(* The arguments of a call are named by the cache key their PrimFunc gets; *)
(* Phase1 says which of them share a first-phase key, that is, differ in   *)
(* the shapes of their tensors only.  The calls are well formed: their     *)
(* arguments bind to the signature.  All of them run under one target.     *)
(***************************************************************************)
EXTENDS KernelCache

CONSTANTS
    Phase1,    \* [Key -> first-phase keys]
    Styles     \* the kinds of functions considered

\* "inner" defines a prim_func inside and returns it, "returned" returns one
\* made elsewhere, "builder" annotates tensors and uses T.Kernel.
ASSUME StyleAssumption ==
    /\ DOMAIN Phase1 = Key
    /\ Styles \subseteq {"inner", "returned", "builder"}

VARIABLES
    style,         \* the decorated function
    mode, fmode,   \* JITImpl.mode and JITFunc.mode of each process
    templates,     \* p1_cache: the keys that have a template
    kernels,       \* _kernel_cache of each process
    jpc, arg,      \* threads: where the call is, its arguments
    ret            \* the kernel the last call returned or ran

impl == <<style, mode, fmode, templates, kernels>>
call == <<jpc, arg, ret>>
jvars == <<impl, call>>

Ended == {"idle", "raised"}
JGoto(t, label) == jpc' = [jpc EXCEPT ![t] = label]
JAt(t, label) == jpc[t] = label /\ phase[P(t)] = "up"

\* decorator(): the mode is always inferred.
JITInit ==
    /\ Init
    /\ style \in Styles
    /\ mode = [p \in Proc |-> "auto"]
    /\ fmode = [p \in Proc |-> "auto"]
    /\ templates = [p \in Proc |-> {}]
    /\ kernels = [p \in Proc |-> [k \in Key |-> None]]
    /\ jpc = [t \in Thread |-> "idle"]
    /\ arg = [t \in Thread |-> None]
    /\ ret = [t \in Thread |-> None]
----------------------------------------------------------------------------
\* __call__ with arguments k.
JITCall(t, k) ==
    /\ jpc[t] \in Ended /\ JAt(t, jpc[t]) /\ calls[t] < MaxCalls
    /\ arg' = [arg EXCEPT ![t] = k]
    /\ ret' = [ret EXCEPT ![t] = None]
    /\ JGoto(t, "mode")
    /\ UNCHANGED <<vars, impl>>

\* if self.mode == "auto": only then is the mode inferred.
TestMode(t) ==
    /\ JAt(t, "mode")
    /\ JGoto(t, IF mode[P(t)] = "auto" THEN "infer" ELSE "parse")
    /\ UNCHANGED <<vars, impl, arg, ret>>

\* _is_lazy_style: a function with an inner prim_func is lazy; any other is
\* called, and lazy if it returns a PrimFunc, which is kept as the template.
Inferred == IF style = "builder" THEN "eager" ELSE "lazy"
\* (mutation) self.mode is set and self.func.set_mode forgotten.
InferModeOnce(t) ==
    /\ JAt(t, "infer")
    /\ mode' = [mode EXCEPT ![P(t)] = Inferred]
    /\ JGoto(t, "parse")
    /\ UNCHANGED <<vars, style, fmode, templates, kernels, arg, ret>>
InferMode(t) ==
    /\ JAt(t, "infer")
    /\ mode' = [mode EXCEPT ![P(t)] = Inferred]
    /\ templates' = IF style = "returned" THEN [templates EXCEPT ![P(t)] = @ \cup {Phase1[arg[t]]}] ELSE templates
    /\ JGoto(t, "setMode")
    /\ UNCHANGED <<vars, style, fmode, kernels, arg, ret>>

\* self.func.set_mode(self.mode), which reads self.mode again.
SetMode(t) ==
    /\ JAt(t, "setMode")
    /\ fmode' = [fmode EXCEPT ![P(t)] = mode[P(t)]]
    /\ JGoto(t, "parse")
    /\ UNCHANGED <<vars, style, mode, templates, kernels, arg, ret>>

\* JITFunc.parse_args: without tensor arguments the key needs no template;
\* with them a missing template is built, in the mode of the JITFunc, and the
\* build raises when there is none yet.
ParseArgs(t) ==
    LET p == P(t)
        built == style # "builder" \/ Phase1[arg[t]] \in templates[p]
    IN
    /\ JAt(t, "parse")
    /\ templates' = IF built \/ fmode[p] = "auto" THEN templates
             ELSE [templates EXCEPT ![p] = @ \cup {Phase1[arg[t]]}]
    /\ JGoto(t, IF ~built /\ fmode[p] = "auto" THEN "raised" ELSE "lookup")
    /\ UNCHANGED <<vars, style, mode, fmode, kernels, arg, ret>>

\* The key of _kernel_cache: both phases' keys.
\* (mutation) The key of the first phase alone.
KernelKeyPhase1(k) == CHOOSE j \in Key : Phase1[j] = Phase1[k]
KernelKey(k) == k

\* _kernel_cache.get(key): a hit is what the call returns (lazy) or runs.
Lookup(t) ==
    LET hit == kernels[P(t)][KernelKey(arg[t])] IN
    /\ JAt(t, "lookup")
    /\ ret' = [ret EXCEPT ![t] = hit]
    /\ JGoto(t, IF hit # None THEN "idle" ELSE "tir")
    /\ UNCHANGED <<vars, impl, arg>>

\* compile(): get_tir sets the mode of the JITFunc again and builds the
\* template if need be; the PrimFunc then goes to cached().
GetTir(t) ==
    /\ JAt(t, "tir")
    /\ fmode' = [fmode EXCEPT ![P(t)] = mode[P(t)]]
    /\ templates' = [templates EXCEPT ![P(t)] = @ \cup {Phase1[arg[t]]}]
    /\ JGoto(t, "cached")
    /\ Call(t, arg[t])
    /\ UNCHANGED <<style, mode, kernels, arg, ret>>

\* A step of cached(); when it is back the memory cache has the kernel, which
\* cached() returns.
InCached(t) ==
    /\ JAt(t, "cached") /\ ThreadStep(t)
    /\ JGoto(t, IF pc'[t] = "idle" THEN "keep" ELSE "cached")
    /\ ret' = [ret EXCEPT ![t] = IF pc'[t] = "idle" THEN mem'[P(t)][K(t)] ELSE @]
    /\ UNCHANGED <<impl, arg>>

\* _kernel_cache[key] = kernel, whatever another call has put there.
Keep(t) ==
    /\ JAt(t, "keep")
    /\ kernels' = [kernels EXCEPT ![P(t)][KernelKey(arg[t])] = ret[t]]
    /\ JGoto(t, "idle")
    /\ UNCHANGED <<vars, style, mode, fmode, templates, arg, ret>>
----------------------------------------------------------------------------
JITStep(t) ==
    \/ TestMode(t) \/ InferMode(t) \/ SetMode(t) \/ ParseArgs(t)
    \/ Lookup(t) \/ GetTir(t) \/ InCached(t) \/ Keep(t)

\* Everything has been called.
JITDone == (\A t \in Thread : jpc[t] \in Ended /\ calls[t] = MaxCalls) /\ UNCHANGED <<vars, jvars>>

JITNext ==
    \/ \E t \in Thread : JITStep(t) \/ \E k \in Key : JITCall(t, k)
    \/ \E p \in Proc : SweepStep(p) /\ UNCHANGED jvars
    \/ JITDone

\* A thread inside a call and the sweep of a starting process go on.
JITFairness ==
    /\ \A t \in Thread : WF_<<vars, jvars>>(JITStep(t))
    /\ \A p \in Proc : WF_<<vars, jvars>>(SweepStep(p) /\ UNCHANGED jvars)

JITSpec == JITInit /\ [][JITNext]_<<vars, jvars>> /\ JITFairness
----------------------------------------------------------------------------
(* Properties *)

\* The variables of the JITImpl have their types, and a thread is inside
\* cached() exactly while its call waits for it.
JITTypeOK ==
    /\ mode \in [Proc -> {"auto", Inferred}]
    /\ fmode \in [Proc -> {"auto", Inferred}]
    /\ templates \in [Proc -> SUBSET {Phase1[k] : k \in Key}]
    /\ kernels \in [Proc -> [Key -> Kernel \cup {None}]]
    /\ jpc \in [Thread -> Ended \cup {"mode", "infer", "setMode", "parse", "lookup", "tir", "cached", "keep"}]
    /\ ret \in [Thread -> Kernel \cup {None}]
    /\ \A t \in Thread : jpc[t] = "cached" <=> pc[t] # "idle"

\* Whatever two threads that miss _kernel_cache together compile, load and
\* store there, every call with the same arguments in a process returns or runs
\* one and the same kernel, the one of its own arguments that the memory cache
\* holds: the later store replaces a kernel by itself.
SameKernel ==
    \A t \in Thread : ret[t] # None => ret[t] = mem[P(t)][arg[t]]

\* A call that finds self.mode set and self.func.mode not yet raises ("Invalid
\* jit mode"); but the calls of a process never all fail that way: when they
\* are over, one of them has left a kernel in _kernel_cache.
NotAllRaise ==
    \A p \in Proc :
        LET mine == {t \in Thread : P(t) = p} IN
        (\A t \in mine : jpc[t] \in Ended) /\ (\E t \in mine : jpc[t] = "raised")
            => \E k \in Key : kernels[p][k] # None

\* "mode should be set by JITImpl before calling parse_args" (builder.py): no
\* call fails for want of a mode.
ModeSetBeforeParse == \A t \in Thread : jpc[t] # "raised"
============================================================================
