--------------------------- MODULE MCSyncPipeline ---------------------------
(* Kernels for TLC: families of bodies, each with the options that matter   *)
(* for it.  In every family threads write only their own elements, and no   *)
(* thread of a branch needs a value that another thread of it produces      *)
(* there, unless a barrier can be placed in the branch.                     *)
EXTENDS SyncPipeline

Opt(prover, count, dyn) == [prover |-> prover, count |-> count, metal |-> FALSE, minimize |-> FALSE, dyn |-> dyn]
Exact == Opt(TRUE, TRUE, {})
Cuda == {Exact, Opt(FALSE, TRUE, {"A"}), Opt(FALSE, FALSE, {"A"})}
Metal == {[Exact EXCEPT !.metal = TRUE, !.minimize = m] : m \in BOOLEAN}

St(b, slot) == Leaf("store", <<Access(b, "W", "own", slot)>>)
Ld(b, thr, slot) == Leaf("load", <<Access(b, "R", thr, slot)>>)
Atomic(b) == Leaf("atomic_add", <<Pointer(b, "R", "all", "none", FALSE, TRUE), Pointer(b, "W", "all", "none", FALSE, TRUE)>>)
CpAsync(slot) == Leaf("cp_async", <<Pointer("A", "W", "own", slot, TRUE, FALSE)>>)
Tma == Leaf("tma_store", <<Pointer("A", "R", "all", "none", FALSE, FALSE)>>)
Wgmma == Leaf("wgmma", <<Pointer("A", "R", "own", "none", FALSE, FALSE)>>)

Plain == {St("A", "none"), Ld("A", "own", "none"), Ld("A", "next", "none")}
Slots == {St("A", "cur"), Ld("A", "next", "cur"), Ld("A", "next", "prev")}
Other == {St("B", "none"), Ld("B", "next", "none")}

Body(S) == BoundedSeq(S, 2) \ {<<>>}
Around(S, mid) == {a \o <<m>> \o b : a \in BoundedSeq(S, 1), m \in mid, b \in BoundedSeq(S, 1)}

Loops == Around(Plain, {For(3, FALSE, b) : b \in Body(Plain \cup Slots)} \cup {Atomic("A")})

Conditions == {Below(1), Below(2), EveryNth(2), LoadedByThread, LoadedByBlock}
Branches ==
    Around(Plain, {If(LoadedByBlock, <<a>>, <<b>>) : a, b \in Plain}
        \cup {If(c, <<a>>, <<>>) : c \in Conditions, a \in Plain})

\* Branches for which a prover that knows nothing plans a barrier in vain.
OwnBranches == {a \o <<If(c, <<St("A", "none"), Ld("A", "own", "none")>>, <<>>)>> : a \in BoundedSeq(Plain, 1), c \in Conditions}

\* Branches that need a barrier of their own.
LongBranches(c) == Around(Plain, {If(c, b, <<>>) : b \in Body(Plain)})

\* Conditions that load from shared memory, and loops until a value is loaded.
Flags == {Flag(LoadedByThread, "A", "own"), Flag(LoadedByThread, "A", "next"), Flag(LoadedByBlock, "A", "first")}
FlagBranches ==
    LET Inner == Plain \cup Other
        Tests == {If(c, <<a>>, <<>>) : c \in Flags, a \in Inner}
        Whiles == {While(c, <<a>>) : c \in Flags \cup {LoadedFragment}, a \in Plain}
    IN  Around({St("A", "none")}, Tests \cup Whiles)
        \cup {<<For(2, FALSE, a)>> : a \in Around({St("A", "none")}, {If(c, <<b>>, <<>>) : c \in Flags, b \in Other})}

\* Copies by cp.async are awaited before they are used.
Copies ==
    LET Use == {Ld("A", "next", "none"), St("B", "none")}
    IN  {<<CpAsync("none")>> \o m \o <<Call("wait_group")>> \o u : m \in BoundedSeq(Other, 1), u \in Body(Use \cup {Sync})}
        \cup {<<For(3, dyn, <<CpAsync(s), Call("wait_group")>> \o u)>> : dyn \in BOOLEAN, s \in {"none", "cur"}, u \in Body(Use)}

\* Generic writes and the async proxy.
Proxies ==
    LET Use == {St("A", "none"), Call("fence_proxy_async"), Tma, Wgmma}
        Inner == Body(Use)
    IN  Around(Use, {For(2, dyn, b) : dyn \in BOOLEAN, b \in Inner} \cup {If(Below(1), b, <<>>) : b \in BoundedSeq({Tma, Wgmma}, 1)}
                    \cup {If(LoadedByBlock, <<a>>, <<b>>) : a, b \in {Tma, Wgmma, St("B", "none")}}
                    \cup {While(LoadedByBlock, b) : b \in Body({Tma, Wgmma, St("B", "none")})})

\* Tensor memory; some fences are written by hand.
Tensor ==
    LET Use == {Call("tcgen05_mma"), Call("mbarrier_wait_parity"), Call("ptx_arrive_barrier"), Call("tcgen05_mma_arrive")}
        Middle == {<<Sync>>, <<If(LoadedByBlock, <<Sync, Call("tcgen05_ld")>>, <<>>)>>, <<Call("tcgen05_ld")>>,
                   <<Before, Sync>>, <<Call("mbarrier_wait_parity"), After>>, <<Before, Call("ptx_arrive_barrier")>>}
        Inner == Body({Call("tcgen05_mma"), Call("mbarrier_wait_parity"), Call("ptx_arrive_barrier"), Sync})
    IN  {a \o m \o b : a, b \in BoundedSeq(Use, 2), m \in Middle}
        \cup Around(Use \ {Call("tcgen05_mma_arrive")}, {For(2, FALSE, b) : b \in Inner} \cup {If(LoadedByBlock, b, <<>>) : b \in Inner})

\* A round of a tree merge: lanes read a pair of slots, and write back their own.
Merges ==
    LET Read(c) == If(c, <<Ld("A", "own", "none"), Ld("A", "next", "none")>>, <<>>)
        Back(c) == If(c, <<St("A", "none")>>, <<>>)
        c == EveryNth(2)
    IN  {<<St("A", "none"), Read(c)>> \o m \o <<Back(c)>> \o p : m \in {<<>>, <<Sync>>},
            p \in {<<>>, <<Sync>>, <<Sync, Read(c)>>, <<Ld("A", "next", "none")>>}}

MCKernel ==
    [opt : Cuda, body : Loops \cup Branches \cup OwnBranches \cup FlagBranches] \cup [opt : {Exact}, body : LongBranches(LoadedByBlock) \cup LongBranches(LoadedFragment) \cup LongBranches(Below(2))
                              \cup {<<While(LoadedFragment, b)>> : b \in Body(Plain)}]
    \cup [opt : Metal, body : Loops \cup Merges]
    \cup [opt : Cuda, body : Copies] \cup [opt : {Opt(TRUE, TRUE, {"B"})}, body : Proxies \cup Tensor]

\* Branches on a value of the block that exchange values through another buffer.
MCUniformKernel == [opt : {Exact}, body : Around(Plain, {If(LoadedByBlock, b, <<>>) : b \in Body(Other)})]
=============================================================================
