----------------------------- MODULE ControlFlow -----------------------------
(***************************************************************************)
(* StaticControlFlowRebuilder: recursive-descent recovery of functions,    *)
(* basic blocks, call sites and cross references, and the linear sweep     *)
(* that follows it.  The program's two nested work lists (functionWork     *)
(* over functions, work over the addresses of one function) are the        *)
(* variables of the same names; `at' is the place in the code, `loop' the  *)
(* outer loop that runs (StaticPathExplorer's, or the one that ends        *)
(* LinearSweepFallback).                                                   *)
(*                                                                         *)
(* An image is what the pass sees of a binary: what decodes at every       *)
(* mapped address, the executable sections, the entry point and the        *)
(* exports.  It is chosen once.  Addresses: the image is mapped at         *)
(* 1 .. MappedSize, 0 is the null address and MappedSize + 1 stands for    *)
(* every address outside the mapping.                                      *)
(***************************************************************************)
EXTENDS BasicBlocks

CONSTANTS
    MappedSize,     \* size of the mapping, in addresses
    Images,         \* the images the pass may be run on
    MaxReanalyses   \* bound: how many times ReAnalyzeFrom is called

Mapped == 1 .. MappedSize
Target == 0 .. MappedSize + 1

\* Instructions by the way the pass treats them.  "prologue": push rbp,
\* mov rbp,rsp or sub rsp,imm.  "call": direct.  "ripcall": through a
\* RIP-relative or absolute memory operand, whose target is the address of
\* the operand itself.  "icall", "ijmp": through any other operand.
\* "bad": no instruction decodes here.
Kinds == {"op", "prologue", "call", "ripcall", "icall",
          "jmp", "jcc", "ijmp", "ret", "bad"}

Insn == [kind : Kinds, len : Nat \ {0}, target : Target]
Section == Mapped \X (2 .. MappedSize + 1)
Image == [code : [Mapped -> Insn], sections : Seq(Section),
          entrypoint : Target, exports : SUBSET Target]

ASSUME MappedSizeAssumption == MappedSize \in Nat \ {0}
ASSUME ImagesAssumption == Images \subseteq Image
ASSUME MaxReanalysesAssumption == MaxReanalyses \in Nat

VARIABLES
    image,          \* the binary under analysis
    visited,        \* AnalysisContext::GetVisited()
    functions,      \* Module::m_functions, in order of creation
    xrefs,          \* XrefManager, as a set of <<from, to, type>>
    functionWork,   \* queue of candidate function starts
    loop, at,       \* control: see above
    cur,            \* the function under analysis
    work,           \* queue of addresses of that function
    pc, bb,         \* the instruction pointer and the open block (or the sweep's cursor)
    toScan,         \* executable sections the sweep has not finished
    reanalyses      \* calls of ReAnalyzeFrom so far

modelVars == <<visited, functions, xrefs>>
vars == <<image, visited, functions, xrefs, functionWork, loop, at,
          cur, work, pc, bb, toScan, reanalyses>>

-----------------------------------------------------------------------------
(* What the pass asks of the loader and of the module. *)

IsWithinMapping(a) == a \in Mapped

IsExecutableAddress(a) ==
    \E s \in ToSet(image.sections) : s[1] <= a /\ a < s[2]

\* Mutant: the end of the function found below a is not asked.
BelowNoFunction(a) == \E i \in 1..Len(functions) : functions[i].start <= a

\* GetFunctionForAddress(a) # nullptr: only the function with the greatest
\* start below a is asked, and of several with that start the last added.
InKnownFunction(a) ==
    \E i \in 1..Len(functions) :
        /\ functions[i].start <= a
        /\ a < functions[i].end
        /\ \A j \in 1..Len(functions) :
              functions[j].start <= a =>
                 \/ functions[j].start < functions[i].start
                 \/ functions[j].start = functions[i].start /\ j <= i

CollectEntryPoints ==
    {a \in {image.entrypoint} \cup image.exports :
        a # 0 /\ IsWithinMapping(a) /\ IsExecutableAddress(a)}

\* The elements of S in ascending order: an iteration over a std::set.
Ordered(S, Less(_, _)) ==
    {s \in [1..Cardinality(S) -> S] :
        \A i, j \in 1..Cardinality(S) : i < j => Less(s[i], s[j])}
AddressLess(a, b) == a < b
CallSiteLess(c, d) == c[1] < d[1] \/ (c[1] = d[1] /\ c[2] < d[2])

NewFunction(a) ==
    [start |-> a, end |-> a, blocks |-> <<>>, callSites |-> {},
     indirect |-> FALSE, trampoline |-> FALSE, hybrid |-> FALSE]
NoFunction == NewFunction(0)

\* Mutant: unresolved call sites are not recorded.
AddResolvedCallSite(f, from, to) ==
    IF to = 0 THEN f ELSE [f EXCEPT !.callSites = @ \cup {<<from, to>>}]

AddCallSite(f, from, to) ==
    [f EXCEPT !.callSites = (@ \ {<<from, 0>>}) \cup {<<from, to>>}]

\* SetEnd of the block and of the function, and AddBasicBlock.
CloseBlock(f, b, a) ==
    [f EXCEPT !.end = a, !.blocks = Append(@, [b EXCEPT !.end = a])]

-----------------------------------------------------------------------------
Init ==
    /\ image \in Images
    /\ visited = {}
    /\ functions = <<>>
    /\ xrefs = {}
    /\ functionWork \in Ordered(CollectEntryPoints, AddressLess)
    /\ loop = "explore" /\ at = "pop"
    /\ cur = NoFunction /\ work = <<>>
    /\ pc = 0 /\ bb = NoBlock
    /\ toScan = <<>>
    /\ reanalyses = 0

(* The outer loops: the next candidate function start. *)

Skipped(a) ==
    \/ a \in visited
    \/ InKnownFunction(a)
    \/ loop = "explore" /\ ~ IsExecutableAddress(a)

SkipCandidate ==
    /\ at = "pop" /\ functionWork # <<>> /\ Skipped(Head(functionWork))
    /\ functionWork' = Tail(functionWork)
    /\ UNCHANGED <<image, modelVars, loop, at, cur, work, pc, bb, toScan, reanalyses>>

StartFunction ==
    /\ at = "pop" /\ functionWork # <<>> /\ ~ Skipped(Head(functionWork))
    /\ functionWork' = Tail(functionWork)
    /\ cur' = NewFunction(Head(functionWork))
    /\ work' = <<Head(functionWork)>>
    /\ at' = "work"
    /\ UNCHANGED <<image, modelVars, loop, pc, bb, toScan, reanalyses>>

-----------------------------------------------------------------------------
(* AnalyzeFunction: the loop over the addresses of one function. *)

\* Mutant: an address between the start and the end of the function so far
\* is taken for analysed.
TakeAddressOutside ==
    /\ at = "work" /\ work # <<>>
    /\ work' = Tail(work)
    /\ IF Head(work) \in visited \/ (cur.start < Head(work) /\ Head(work) < cur.end)
       THEN UNCHANGED <<at, pc>>
       ELSE at' = "decode" /\ pc' = Head(work)
    /\ UNCHANGED <<image, modelVars, functionWork, loop, cur, bb, toScan, reanalyses>>

TakeAddress ==
    /\ at = "work" /\ work # <<>>
    /\ work' = Tail(work)
    /\ IF Head(work) \in visited
       THEN UNCHANGED <<at, pc>>
       ELSE at' = "decode" /\ pc' = Head(work)
    /\ UNCHANGED <<image, modelVars, functionWork, loop, cur, bb, toScan, reanalyses>>

\* Mutant: the function ends with its first straight run of code.
EndsWithFirstRun ==
    /\ at = "work" /\ cur.blocks # <<>>
    /\ at' = "normalize"
    /\ UNCHANGED <<image, modelVars, functionWork, loop, cur, work, pc, bb, toScan, reanalyses>>

NoMoreAddresses ==
    /\ at = "work" /\ work = <<>>
    /\ at' = "normalize"
    /\ UNCHANGED <<image, modelVars, functionWork, loop, cur, work, pc, bb, toScan, reanalyses>>

Leave == at' = "work" /\ pc' = 0 /\ bb' = NoBlock

\* Mutant: the open block is dropped.
DropOpenBlock ==
    /\ at = "decode" /\ (pc \in visited \/ pc \notin Mapped)
    /\ Leave
    /\ UNCHANGED <<image, modelVars, functionWork, loop, cur, work, toScan, reanalyses>>

\* The loop ran into code already visited, or out of the image: an open
\* block is added as it is, with no end and no successor.
RunIntoVisited ==
    /\ at = "decode" /\ (pc \in visited \/ pc \notin Mapped)
    /\ cur' = IF bb = NoBlock THEN cur ELSE [cur EXCEPT !.blocks = Append(@, bb)]
    /\ Leave
    /\ UNCHANGED <<image, modelVars, functionWork, loop, work, toScan, reanalyses>>

Undecodable ==
    /\ at = "decode" /\ pc \in Mapped \ visited /\ image.code[pc].kind = "bad"
    /\ cur' = IF bb = NoBlock THEN cur ELSE CloseBlock(cur, bb, pc)
    /\ Leave
    /\ UNCHANGED <<image, modelVars, functionWork, loop, work, toScan, reanalyses>>

\* The part common to every decoded instruction of one of the kinds.
Visit(kinds) ==
    /\ at = "decode" /\ pc \in Mapped \ visited
    /\ image.code[pc].kind \in kinds
    /\ visited' = visited \cup {pc}

Open == IF bb = NoBlock THEN NewBlock(pc) ELSE bb
Next_pc == pc + image.code[pc].len
TargetOf == image.code[pc].target
IsFirstInsn == cur.blocks = <<>> /\ bb = NoBlock

Continue(b) == at' = at /\ pc' = Next_pc /\ bb' = b

PlainInsn ==
    /\ Visit({"op", "prologue"})
    /\ Continue(Open)
    /\ UNCHANGED <<image, functions, xrefs, functionWork, loop, cur, work, toScan, reanalyses>>

Trampoline ==
    /\ Visit({"jmp", "ijmp"}) /\ IsFirstInsn
    /\ LET f == IF image.code[pc].kind = "jmp"
                THEN AddCallSite(cur, pc, TargetOf)
                ELSE [cur EXCEPT !.indirect = TRUE]
       IN  cur' = [CloseBlock(f, Open, Next_pc) EXCEPT !.trampoline = TRUE]
    /\ Leave
    /\ UNCHANGED <<image, functions, xrefs, functionWork, loop, work, toScan, reanalyses>>

DirectCall ==
    /\ Visit({"call"})
    /\ cur' = AddCallSite(cur, pc, TargetOf)
    /\ xrefs' = xrefs \cup {<<pc, TargetOf, "call">>}
    /\ functionWork' =
          IF /\ IsWithinMapping(TargetOf) /\ TargetOf \notin visited'
             /\ IsExecutableAddress(TargetOf)
          THEN Append(functionWork, TargetOf) ELSE functionWork
    /\ Continue(Open)
    /\ UNCHANGED <<image, functions, loop, work, toScan, reanalyses>>

MemoryCall ==
    /\ Visit({"ripcall"})
    /\ cur' = AddCallSite(cur, pc, TargetOf)
    /\ xrefs' = xrefs \cup {<<pc, TargetOf, "call">>}
    /\ Continue(Open)
    /\ UNCHANGED <<image, functions, functionWork, loop, work, toScan, reanalyses>>

IndirectCall ==
    /\ Visit({"icall"})
    /\ cur' = [AddCallSite(cur, pc, 0) EXCEPT !.indirect = TRUE]
    /\ xrefs' = xrefs \cup {<<pc, 0, "call">>}
    /\ Continue(Open)
    /\ UNCHANGED <<image, functions, functionWork, loop, work, toScan, reanalyses>>

\* A direct branch is followed only to an executable address of the image.
Followed == IsWithinMapping(TargetOf) /\ IsExecutableAddress(TargetOf)

ConditionalBranch ==
    /\ Visit({"jcc"})
    /\ work' = IF Followed /\ TargetOf \notin visited' THEN Append(work, TargetOf) ELSE work
    /\ xrefs' = xrefs \cup {<<pc, Next_pc, "jump">>}
                      \cup (IF Followed THEN {<<pc, TargetOf, "jump">>} ELSE {})
    /\ LET succs == (IF Followed THEN <<TargetOf>> ELSE <<>>) \o <<Next_pc>>
       IN  cur' = CloseBlock(cur, [Open EXCEPT !.succs = succs], Next_pc)
    /\ Continue(NoBlock)
    /\ UNCHANGED <<image, functions, functionWork, loop, toScan, reanalyses>>

\* A jump into a known function is recorded as a call site; a jump to code
\* visited already (the function under analysis is not known yet) leaves
\* only the successor.
Jump ==
    /\ Visit({"jmp"}) /\ ~ IsFirstInsn
    /\ LET toKnown == Followed /\ InKnownFunction(TargetOf)
           toNew   == Followed /\ ~ toKnown /\ TargetOf \notin visited'
           f == IF toKnown THEN AddCallSite(cur, pc, TargetOf) ELSE cur
           succs == IF Followed THEN <<TargetOf>> ELSE <<>>
       IN  /\ cur' = CloseBlock(f, [Open EXCEPT !.succs = succs], Next_pc)
           /\ xrefs' = xrefs \cup (IF toKnown \/ toNew THEN {<<pc, TargetOf, "jump">>} ELSE {})
           /\ work' = IF toNew THEN Append(work, TargetOf) ELSE work
           /\ functionWork' = IF toNew THEN Append(functionWork, TargetOf) ELSE functionWork
    /\ Leave
    /\ UNCHANGED <<image, functions, loop, toScan, reanalyses>>

IndirectJump ==
    /\ Visit({"ijmp"}) /\ ~ IsFirstInsn
    /\ cur' = CloseBlock([AddCallSite(cur, pc, 0) EXCEPT !.indirect = TRUE], Open, Next_pc)
    /\ xrefs' = xrefs \cup {<<pc, 0, "jump">>}
    /\ Leave
    /\ UNCHANGED <<image, functions, functionWork, loop, work, toScan, reanalyses>>

Return ==
    /\ Visit({"ret"})
    /\ cur' = CloseBlock(cur, Open, Next_pc)
    /\ Leave
    /\ UNCHANGED <<image, functions, xrefs, functionWork, loop, work, toScan, reanalyses>>

DecodeInsn ==
    \/ PlainInsn \/ Trampoline
    \/ DirectCall \/ MemoryCall \/ IndirectCall
    \/ ConditionalBranch \/ Jump \/ IndirectJump \/ Return

-----------------------------------------------------------------------------
(* NormalizeBasicBlocks, and what the outer loops do with the function. *)

SplitNext ==
    /\ at = "normalize"
    /\ \E a \in Entries(cur.blocks) :
          /\ IsNextSplit(cur.blocks, a)
          /\ cur' = [cur EXCEPT !.blocks = SplitBlock(@, BlockAt(@, a), a)]
    /\ UNCHANGED <<image, modelVars, functionWork, loop, at, work, pc, bb, toScan, reanalyses>>

\* Mutant: the target of a call site is not checked.
UncheckedCallees == {c \in cur.callSites : c[2] \notin visited /\ ~ InKnownFunction(c[2])}

\* Call sites whose target becomes a candidate function start.
NewCallees ==
    {c \in cur.callSites :
        /\ c[2] # 0 /\ c[2] \notin visited
        /\ IsWithinMapping(c[2]) /\ ~ InKnownFunction(c[2])}

FinishFunction ==
    /\ at = "normalize" /\ Normalized(cur.blocks)
    /\ functions' = Append(functions,
          [cur EXCEPT !.blocks = WithPredecessors(@),
                      !.hybrid = loop = "explore" /\ cur.indirect])
    /\ \E callees \in Ordered(NewCallees, CallSiteLess) :
          functionWork' = functionWork \o [i \in 1..Len(callees) |-> callees[i][2]]
    /\ cur' = NoFunction /\ at' = "pop"
    /\ UNCHANGED <<image, visited, xrefs, loop, work, pc, bb, toScan, reanalyses>>

-----------------------------------------------------------------------------
(* LinearSweepFallback: the scan for prologues, then its own loop. *)

ScanFrom(sections) ==
    /\ toScan' = sections
    /\ pc' = IF sections = <<>> THEN 0 ELSE Head(sections)[1]

StartSweep ==
    /\ at = "pop" /\ loop = "explore" /\ functionWork = <<>>
    /\ at' = "sweep"
    /\ ScanFrom(image.sections)
    /\ UNCHANGED <<image, modelVars, functionWork, loop, cur, work, bb, reanalyses>>

Sweep ==
    /\ at = "sweep" /\ toScan # <<>> /\ pc < Head(toScan)[2]
    /\ LET insn == image.code[pc]
           skip == pc \in visited \/ insn.kind = "bad"
       IN  /\ pc' = IF skip THEN pc + 1 ELSE pc + insn.len
           /\ functionWork' =
                IF /\ ~ skip /\ insn.kind = "prologue"
                   /\ ~ InKnownFunction(pc) /\ IsExecutableAddress(pc)
                THEN Append(functionWork, pc) ELSE functionWork
    /\ UNCHANGED <<image, modelVars, loop, at, cur, work, bb, toScan, reanalyses>>

SweepNextSection ==
    /\ at = "sweep" /\ toScan # <<>> /\ pc >= Head(toScan)[2]
    /\ ScanFrom(Tail(toScan))
    /\ UNCHANGED <<image, modelVars, functionWork, loop, at, cur, work, bb, reanalyses>>

EndSweep ==
    /\ at = "sweep" /\ toScan = <<>>
    /\ at' = "pop" /\ loop' = "drain"
    /\ UNCHANGED <<image, modelVars, functionWork, cur, work, pc, bb, toScan, reanalyses>>

EndAnalysis ==
    /\ at = "pop" /\ loop = "drain" /\ functionWork = <<>>
    /\ at' = "done"
    /\ UNCHANGED <<image, modelVars, functionWork, loop, cur, work, pc, bb, toScan, reanalyses>>

\* ReAnalyzeFrom, with the guard of its caller HybridAnalysisPass: a target
\* observed at run time that is mapped, not visited and in no function.
ReAnalyzeFrom(a) ==
    /\ at = "done" /\ reanalyses < MaxReanalyses
    /\ IsWithinMapping(a) /\ a \notin visited /\ ~ InKnownFunction(a)
    /\ functions # <<>>
    /\ functionWork' = <<a>>
    /\ at' = "pop" /\ loop' = "explore"
    /\ reanalyses' = reanalyses + 1
    /\ UNCHANGED <<image, modelVars, cur, work, pc, bb, toScan>>

-----------------------------------------------------------------------------
Step ==
    \/ SkipCandidate \/ StartFunction
    \/ TakeAddress \/ NoMoreAddresses
    \/ RunIntoVisited \/ Undecodable \/ DecodeInsn
    \/ SplitNext \/ FinishFunction
    \/ StartSweep \/ Sweep \/ SweepNextSection \/ EndSweep \/ EndAnalysis

Next == Step \/ \E a \in Mapped : ReAnalyzeFrom(a)

Spec == Init /\ [][Next]_vars
-----------------------------------------------------------------------------
(* Properties. *)

Loops == {"explore", "drain"}
Places == {"pop", "work", "decode", "normalize", "sweep", "done"}

FunctionUnit ==
    [start : Nat, end : Nat, blocks : Seq(Block(Nat)), callSites : SUBSET (Mapped \X Target),
     indirect : BOOLEAN, trampoline : BOOLEAN, hybrid : BOOLEAN]

\* The type invariant.
TypeOK ==
    /\ image \in Image
    /\ visited \subseteq Mapped
    /\ functions \in Seq(FunctionUnit)
    /\ xrefs \subseteq Mapped \X Nat \X {"call", "jump"}
    /\ functionWork \in Seq(Mapped)
    /\ loop \in Loops /\ at \in Places
    /\ cur \in FunctionUnit
    /\ work \in Seq(Mapped)
    /\ pc \in Nat /\ (at = "sweep" /\ toScan # <<>> => pc # 0)
    /\ bb \in Block(Nat)
    /\ toScan \in Seq(Section)
    /\ reanalyses \in 0..MaxReanalyses

\* Where control can go next from a decoded instruction inside its function:
\* past it, and to the target of a conditional branch that is followed.
FlowSuccessors(a) ==
    LET insn == image.code[a]
    IN  (IF insn.kind \in {"jmp", "ijmp", "ret"} THEN {} ELSE {a + insn.len})
        \cup (IF /\ insn.kind = "jcc"
                 /\ IsWithinMapping(insn.target) /\ IsExecutableAddress(insn.target)
              THEN {insn.target} ELSE {})

\* Nothing is left to decode at a.
Settled(a) ==
    a \in visited \/ a \notin Mapped \/ image.code[a].kind = "bad"

BetweenFunctions == at \notin {"work", "decode"}

\* Recursive descent misses nothing: when AnalyzeFunction returns, all the
\* code that a decoded instruction falls or branches to has been decoded, is
\* outside the image or does not decode, whatever the order in which the two
\* work lists were served and however often the pass is re-entered.
FlowClosed ==
    BetweenFunctions => \A a \in visited : \A s \in FlowSuccessors(a) : Settled(s)

\* Why FlowClosed holds, as an inductive invariant: at every moment what is
\* not settled yet waits in the work list of the function or is the next
\* instruction, and the work list is empty once AnalyzeFunction has left its
\* loop.
Pending(a) == a \in ToSet(work) \/ (at = "decode" /\ a = pc)
FlowInductive ==
    /\ BetweenFunctions => work = <<>>
    /\ \A a \in visited : \A s \in FlowSuccessors(a) : Settled(s) \/ Pending(s)

\* No direct call or jump is dropped: when the pass returns, an executable
\* target has been decoded, or does not decode, or lies between the start
\* and the end of a recovered function.
InSomeFunction(a) == \E f \in ToSet(functions) : f.start <= a /\ a < f.end
TargetsAccounted ==
    at = "done" =>
        \A a \in visited :
            LET insn == image.code[a]
            IN  /\ insn.kind \in {"call", "jmp"}
                /\ IsWithinMapping(insn.target) /\ IsExecutableAddress(insn.target)
                => Settled(insn.target) \/ InSomeFunction(insn.target)

\* Call sites and cross references agree: between functions the references
\* of type "call" are exactly the call sites at call instructions.
XrefsMatchCallSites ==
    at = "pop" =>
        {<<x[1], x[2]>> : x \in {y \in xrefs : y[3] = "call"}}
            = UNION {{c \in f.callSites : image.code[c[1]].kind \in {"call", "ripcall", "icall"}} :
                        f \in ToSet(functions)}

\* Splitting loses no code and invents none: while a function is normalised
\* its blocks cover the same addresses.
SplitKeepsCode ==
    [][at = "normalize" /\ at' = "normalize" => Covered(cur'.blocks) = Covered(cur.blocks)]_vars

\* The addresses of the decoded instructions; whether two of them share one,
\* as where a branch leads into an instruction.
Decoded == UNION {a .. a + image.code[a].len - 1 : a \in visited}
Overlapping == \E a, c \in visited : a < c /\ c < a + image.code[a].len

Closed(f) == {b \in ToSet(f.blocks) : b.end # 0}
IsBranch(a) == image.code[a].kind \in {"jcc", "jmp", "ijmp", "ret"}

\* The blocks of finished functions are basic blocks, unless instructions
\* overlap: a block is decoded code, of which no instruction but the last
\* branches and no address but the first is a branch target of the function;
\* and no two blocks of the module share an address.
BlocksAreBasic ==
    at = "pop" /\ ~ Overlapping =>
        /\ \A f \in ToSet(functions) : \A b \in Closed(f) :
              /\ b.start .. b.end - 1 \subseteq Decoded
              /\ \A a \in Entries(f.blocks) : ~ (b.start < a /\ a < b.end)
              /\ \A a, c \in visited : b.start <= a /\ a < c /\ c < b.end => ~ IsBranch(a)
        /\ \A i, j \in 1..Len(functions) :
              \A m \in 1..Len(functions[i].blocks), n \in 1..Len(functions[j].blocks) :
                  <<i, m>> # <<j, n>> =>
                      \A a \in Decoded : ~ (Covers(functions[i].blocks[m], a)
                                                /\ Covers(functions[j].blocks[n], a))

\* The only decoded code that no block covers is the code of a block that was
\* added open: from its start on, without a gap.
CoveredOrOpen ==
    at = "pop" =>
        \A a \in visited :
            \E f \in ToSet(functions) : \E b \in ToSet(f.blocks) :
                IF b.end # 0 THEN Covers(b, a)
                ELSE b.start <= a /\ b.start .. a \subseteq Decoded
=============================================================================
