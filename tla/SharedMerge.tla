---------------------------- MODULE SharedMerge ----------------------------
(***************************************************************************)
(* MergeSharedMemoryAllocations from the program to the arena and back.    *)
(* SharedMemLinearAccessPatternFinder walks over a kernel and flattens it  *)
(* into linear_seq_, LivenessAnalysis reads off the live range of every    *)
(* shared buffer, PlanMemory packs the ranges (module SharedArena), and    *)
(* the rewritten kernel runs on the merged buffer.                         *)
(*                                                                         *)
(* The kernel is chosen while it is visited: a visitor method is an action *)
(* that takes the next statement, adds it to code and does what the method *)
(* does.  Any kernel of at most MaxCode statements is a behaviour.  A      *)
(* statement is an allocation, a leaf that reads src and writes dst, the   *)
(* head of a scope with the buffer its condition reads, the else of an if, *)
(* or the end of a scope.  The kernel runs on a memory that records, for   *)
(* each byte, the buffer it was written for last.                          *)
(***************************************************************************)
EXTENDS Integers, SequencesExt

CONSTANTS
    Buffer,      \* the shared allocations, numbered in the order of their names
    AlignBytes,  \* align_bytes_
    Sizes,       \* the sizes a buffer may have
    None,        \* no buffer
    Aggressive,  \* enable_aggressive_merge_
    Scopes,      \* the kinds of scopes in a kernel, of "for", "while", "if", "let"
    Vias,        \* how leaves name a buffer: "access" or "address_of"
    Compound,    \* whether leaves may both read and write, and conditions read
    MaxCode,     \* bound: the statements of a kernel
    MaxJumps     \* bound: the times a run goes back to the head of a loop

VARIABLES
    code,        \* the kernel
    scope,       \* scope_, the frames of the enclosing scopes
    seq,         \* linear_seq_
    scopeLevel,  \* scope_level_
    stmtLevel,   \* stmt_attrs_, by the place of the statement in code
    allocLevel,  \* alloc_info_
    phase,       \* what is running: the "visit", the "plan" or the kernel ("run")
    start, end, size, align, dynamic, todo, active, blocks, top, offset, cursor,
    pc, jumps, mem, written

Arena == INSTANCE SharedArena

kernel == <<code, scope, seq, scopeLevel, stmtLevel, allocLevel>>
arena == <<start, end, size, align, dynamic, todo, active, blocks, top, offset, cursor>>
running == <<pc, jumps, mem, written>>
vars == <<kernel, phase, arena, running>>

Loops == {"for", "while"}
Bytes == 0..(Cardinality(Buffer) * Max(Sizes))
MaybeBuffer == Buffer \cup {None}

\* stmt 0 is the thread_extent, whose scope encloses the kernel.
\* A frame counts its children, and with one set it has one child only.
Frame(stmt, kind, begin, one) ==
    [stmt |-> stmt, kind |-> kind, begin |-> begin, touched |-> {}, owns |-> {},
     patch |-> stmt, one |-> one, children |-> 0, nested |-> FALSE]
Entry(stmt, pair, touched) == [stmt |-> stmt, pair |-> pair, touched |-> touched]

Init ==
    /\ code = <<>>
    /\ scope = <<Frame(0, "let", 1, FALSE)>>
    /\ seq = <<Entry(0, 0, {})>>
    /\ scopeLevel = 0
    /\ stmtLevel = [i \in 0..MaxCode |-> 0]
    /\ allocLevel = [b \in Buffer |-> 0]
    /\ phase = "visit"
    /\ start = [b \in Buffer |-> 0] /\ end = [b \in Buffer |-> 1]
    /\ size \in [Buffer -> Sizes] /\ align = [b \in Buffer |-> AlignBytes] /\ dynamic = {}
    /\ Arena!Fresh
    /\ pc = 1 /\ jumps = 0 /\ mem = [x \in Bytes |-> None] /\ written = {}
----------------------------------------------------------------------------
(* SharedMemLinearAccessPatternFinder *)

Here == Len(code) + 1
Visible == UNION {scope[i].owns : i \in DOMAIN scope}
Visiting == phase = "visit" /\ (Last(scope).one => Last(scope).children = 0)

Child(fs) == [fs EXCEPT ![Len(fs)].children = @ + 1]

\* ContainsSeqStmt of the body of the frame.
ContainsSeqStmt(f) == f.nested \/ f.children > 1

\* The statements that a scope needs to be complete, and the whole kernel has then.
Missing(f) ==
    CASE f.stmt = 0 -> 0
      [] f.kind = "for" /\ ~f.one /\ ~ContainsSeqStmt(f) -> 3 - f.children
      [] f.children = 0 -> 2
      [] OTHER -> 1
Length ==
    Len(code) + SumFunction([i \in DOMAIN scope |-> Missing(scope[i])])
      + Cardinality({b \in Buffer : allocLevel[b] = 0})
Room == Length <= MaxCode

\* (mutation) An access always counts for the innermost statement.
TouchInnermost(fs, b) == IF b = None THEN fs ELSE [fs EXCEPT ![Len(fs)].touched = @ \cup {b}]

\* A buffer in an expression counts as touched by the statement at the level
\* of its allocation that the expression is part of, or, when merging
\* aggressively, by the innermost one.
Touch(fs, b) ==
    IF b = None THEN fs
    ELSE [fs EXCEPT ![IF Aggressive THEN Len(fs) ELSE allocLevel[b] + 1].touched = @ \cup {b}]

VisitAlloc(b) ==
    /\ Visiting /\ allocLevel[b] = 0
    /\ code' = Append(code, [op |-> "alloc", src |-> None, dst |-> b, via |-> "access", to |-> 0])
    /\ allocLevel' = [allocLevel EXCEPT ![b] = Len(scope)]
    /\ scope' = Child([scope EXCEPT ![Len(scope)].owns = @ \cup {b}])
    /\ UNCHANGED <<seq, scopeLevel, stmtLevel, phase, arena, running>>

\* BufferStore and Evaluate: a leaf has a frame of its own.  VisitExpr_ of a
\* call does not look at the buffer below address_of.  A leaf without buffers
\* only matters where there are none.
VisitLeaf(src, dst, via) ==
    LET seen(b) == IF via = "address_of" THEN None ELSE b
        fs == Touch(Touch(Append(scope, Frame(Here, "leaf", 0, TRUE)), seen(src)), seen(dst))
        touched == Last(fs).touched
    IN
    /\ Visiting /\ {src, dst} \subseteq Visible \cup {None}
    /\ src = None /\ dst = None => Visible = {}
    /\ src # None /\ dst # None => Compound
    /\ code' = Append(code, [op |-> "leaf", src |-> src, dst |-> dst, via |-> via, to |-> 0])
    /\ scope' = Child(Front(fs))
    /\ seq' = IF touched = {} THEN seq ELSE Append(seq, Entry(Here, 0, touched))
    /\ stmtLevel' = [stmtLevel EXCEPT ![Here] = IF touched = {} THEN @ ELSE scopeLevel]
    /\ UNCHANGED <<scopeLevel, allocLevel, phase, arena, running>>

\* VisitNewScopeBody, up to f().  A for whose body holds a sequence is one level
\* deeper; one is set when it does not, which an if in its body inherits.
VisitScope(kind, b, one) ==
    LET level == IF kind = "for" /\ ~one THEN scopeLevel + 1 ELSE scopeLevel
    IN
    /\ Visiting /\ kind \in Scopes /\ b \in (IF Compound THEN Visible ELSE {}) \cup {None}
    /\ one => kind \in {"for", "if"}
    /\ kind = "if" => one = Last(scope).one
    /\ code' = Append(code, [op |-> kind, src |-> b, dst |-> None, via |-> "access", to |-> 0])
    /\ scope' = Touch(Append(Child(scope), Frame(Here, kind, Len(seq) + 1, one)), b)
    /\ seq' = Append(seq, Entry(Here, 0, {}))
    /\ scopeLevel' = level
    /\ stmtLevel' = [stmtLevel EXCEPT ![Here] = level]
    /\ UNCHANGED <<allocLevel, phase, arena, running>>

VisitElse ==
    LET f == Last(scope) IN
    /\ phase = "visit" /\ f.kind = "if" /\ f.patch = f.stmt /\ f.children > 0
    /\ code' = Append([code EXCEPT ![f.stmt].to = Here],
                      [op |-> "else", src |-> None, dst |-> None, via |-> "access", to |-> 0])
    /\ scope' = [scope EXCEPT ![Len(scope)].patch = Here,
                              ![Len(scope)].children = 0,
                              ![Len(scope)].nested = ContainsSeqStmt(f)]
    /\ UNCHANGED <<seq, scopeLevel, stmtLevel, allocLevel, phase, arena, running>>

\* VisitNewScopeBody, after f(): the entry at the end of the scope has what was
\* touched in it, and the two entries point at each other.
Closed(f) ==
    LET last == Len(seq) + 1 IN
    Append([seq EXCEPT ![f.begin].pair = last - f.begin],
           Entry(f.stmt, f.begin - last, f.touched))

LeaveScope ==
    LET f == Last(scope) IN
    /\ phase = "visit" /\ Len(scope) > 1 /\ f.children > 0
    /\ f.kind = "for" => f.one = ~ContainsSeqStmt(f)
    /\ code' = Append([code EXCEPT ![f.patch].to = Here],
                      [op |-> "end", src |-> None, dst |-> None, via |-> "access", to |-> f.stmt])
    /\ seq' = Closed(f)
    /\ scope' = [Front(scope) EXCEPT ![Len(scope) - 1].nested =
                                         @ \/ (f.kind = "if" /\ ContainsSeqStmt(f))]
    /\ scopeLevel' = IF f.kind = "for" /\ ~f.one THEN scopeLevel - 1 ELSE scopeLevel
    /\ UNCHANGED <<stmtLevel, allocLevel, phase, arena, running>>
----------------------------------------------------------------------------
(* LivenessAnalysis, on the flattened kernel s *)

Touching(s, b) == {i \in DOMAIN s : b \in s[i].touched}
Touched(s) == UNION {s[i].touched : i \in DOMAIN s}
EntriesOf(s, stmt) == {i \in DOMAIN s : s[i].stmt = stmt}

\* The gen and the kill point of b: the forward scan looks at the beginning of a
\* scope for what was touched inside.
Gen(s, b) == s[Min({i \in DOMAIN s : s[i].pair >= 0 /\ b \in s[i + s[i].pair].touched})].stmt
Kill(s, b) == s[Max(Touching(s, b))].stmt

\* gen_kill_seq
Events(s) ==
    SelectSeq([i \in DOMAIN s |-> s[i].stmt],
              LAMBDA stmt : \E b \in Touched(s) : stmt \in {Gen(s, b), Kill(s, b)})

\* Where the search for a new kill point stops: before an event at the level of
\* the birth of b, or one that gives birth to another buffer.
Stops(s, b, ev, from) ==
    {i \in from..Len(ev) :
        i < Len(ev) => \/ stmtLevel[ev[i + 1]] = stmtLevel[Gen(s, b)]
                       \/ \E c \in Touched(s) \ {b} : Gen(s, c) = ev[i + 1]}

\* (mutation) The search begins at the first event.
MovedKillEarly(s, b) == LET ev == Events(s) IN ev[Min(Stops(s, b, ev, 1))]

\* The kill of b, when it is deeper than the birth of b.
MovedKill(s, b) ==
    LET ev == Events(s)
        from == Min({i \in DOMAIN ev : ev[i] = Kill(s, b)})
    IN  ev[Min(Stops(s, b, ev, from))]

KillPoint(s, b) ==
    IF stmtLevel[Kill(s, b)] > stmtLevel[Gen(s, b)] THEN MovedKill(s, b) ELSE Kill(s, b)

\* PlanMemory: the entries count from 0; a buffer without events comes last.
Start(s, b) == IF b \in Touched(s) THEN Min(EntriesOf(s, Gen(s, b))) - 1 ELSE Len(s)
End(s, b) == IF b \in Touched(s) THEN Max(EntriesOf(s, KillPoint(s, b))) ELSE 0

RangeEnd(s, b) == Max({End(s, b), Start(s, b) + 1})

\* The end of the kernel: LivenessAnalysis and the intervals of PlanMemory.
Analyse ==
    LET s == Closed(Head(scope)) IN
    /\ phase = "visit" /\ Len(scope) = 1 /\ \A b \in Buffer : allocLevel[b] > 0
    /\ seq' = s
    /\ start' = [b \in Buffer |-> Start(s, b)]
    /\ end' = [b \in Buffer |-> RangeEnd(s, b)]
    /\ phase' = "plan"
    /\ UNCHANGED <<code, scope, scopeLevel, stmtLevel, allocLevel, size, align, dynamic,
                   todo, active, blocks, top, offset, cursor, running>>

\* PlanMemory, the rest.
Plan ==
    /\ phase = "plan" /\ todo # {} /\ Arena!Next
    /\ UNCHANGED <<kernel, phase, running>>

Rewrite ==
    /\ phase = "plan" /\ todo = {}
    /\ phase' = "run"
    /\ UNCHANGED <<kernel, arena, running>>
----------------------------------------------------------------------------
(* The rewritten kernel *)

Cells(b) == offset[b]..(offset[b] + size[b] - 1)
Executing(ops) == phase = "run" /\ pc <= Len(code) /\ code[pc].op \in ops

\* Storage allocated by a statement is fresh each time the statement runs.
RunAlloc ==
    /\ Executing({"alloc"})
    /\ written' = written \ {code[pc].dst} /\ pc' = pc + 1
    /\ UNCHANGED <<kernel, phase, arena, jumps, mem>>

RunLeaf ==
    /\ Executing({"leaf"})
    /\ LET b == code[pc].dst IN
       /\ mem' = IF b = None THEN mem ELSE [x \in Bytes |-> IF x \in Cells(b) THEN b ELSE mem[x]]
       /\ written' = written \cup ({b} \ {None})
    /\ pc' = pc + 1
    /\ UNCHANGED <<kernel, phase, arena, jumps>>

\* A condition holds or not; a let is always entered.
RunHead ==
    /\ Executing({"for", "while", "if", "let"})
    /\ \/ pc' = pc + 1
       \/ code[pc].op # "let" /\ pc' = code[pc].to + 1
    /\ UNCHANGED <<kernel, phase, arena, jumps, mem, written>>

RunElse ==
    /\ Executing({"else"}) /\ pc' = code[pc].to + 1
    /\ UNCHANGED <<kernel, phase, arena, jumps, mem, written>>

\* The end of a loop: the condition of a while is evaluated again, the extent of
\* a for is not.
RunEnd ==
    LET head == code[pc].to IN
    /\ Executing({"end"})
    /\ \/ pc' = pc + 1 /\ UNCHANGED jumps
       \/ /\ code[head].op \in Loops /\ jumps < MaxJumps
          /\ pc' = (IF code[head].op = "while" THEN head ELSE head + 1)
          /\ jumps' = jumps + 1
    /\ UNCHANGED <<kernel, phase, arena, mem, written>>

Finished == phase = "run" /\ pc > Len(code) /\ UNCHANGED vars

Visit ==
    \/ \E b \in Buffer : VisitAlloc(b)
    \/ \E src, dst \in MaybeBuffer, via \in Vias : VisitLeaf(src, dst, via)
    \/ \E kind \in Scopes, b \in MaybeBuffer, one \in BOOLEAN : VisitScope(kind, b, one)
    \/ VisitElse
    \/ LeaveScope

Next ==
    \/ Visit /\ Room'
    \/ Analyse \/ Plan \/ Rewrite
    \/ RunAlloc \/ RunLeaf \/ RunHead \/ RunElse \/ RunEnd \/ Finished

Spec == Init /\ [][Next]_vars
----------------------------------------------------------------------------
(* Properties *)

\* The variables have the types the code gives them, and a live range never ends
\* before it begins.
TypeOK ==
    /\ Len(code) <= MaxCode
    /\ \A i \in DOMAIN code : code[i].to \in 0..Len(code)
    /\ stmtLevel \in [0..MaxCode -> 0..MaxCode]
    /\ allocLevel \in [Buffer -> 0..MaxCode]
    /\ phase \in {"visit", "plan", "run"}
    /\ Arena!TypeOK
    /\ \A b \in Buffer \ todo : Cells(b) \subseteq Bytes
    /\ pc \in 1..(MaxCode + 1) /\ jumps \in 0..MaxJumps
    /\ mem \in [Bytes -> MaybeBuffer] /\ written \subseteq Buffer

\* "The storage need to be kept alive between Allocate and last access": when
\* the kernel reads a buffer that it wrote, no other buffer was given the same
\* bytes in between, nor does the statement itself give them to what it writes.
Intact(b) == \A x \in Cells(b) : mem[x] = b
ReadsOwn ==
    [][\A b \in written :
          phase = "run" /\ pc <= Len(code) /\ code[pc].src = b => Intact(b) /\ Intact(b)']_vars

\* The reordered kill points never cut off an access: the live range of a buffer
\* holds every entry of linear_seq_ that touches it.
RangesHoldTouches ==
    phase # "visit" =>
        \A b \in Buffer : \A i \in Touching(seq, b) : start[b] < i /\ i <= end[b]
=============================================================================
