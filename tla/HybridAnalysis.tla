---------------------------- MODULE HybridAnalysis ----------------------------
(***************************************************************************)
(* The chain of passes in which control flow is recovered, corrected and   *)
(* extended: StaticControlFlowRebuilder (the module ControlFlow), then     *)
(* OpaquePredicatePass with any verdicts AbstractInterpretationPass may    *)
(* have left, then HybridAnalysisPass, which reads an execution trace,     *)
(* resolves indirect calls and jumps, takes back opaque predicates and     *)
(* re-enters the rebuilder at the targets it has resolved.                 *)
(*                                                                         *)
(* A trace record is <<pc, target>>: the instruction executed, and what    *)
(* ResolveIndirectTarget computes from the registers and memory accesses   *)
(* of the record (0: they do not tell).  The bypass of the marking of      *)
(* functions (Run's bypassHeur) is off, as in every call of the program.   *)
(***************************************************************************)
EXTENDS ControlFlow

CONSTANT Traces     \* the traces a file at the trace path may hold

Record == Mapped \X Target
ASSUME TracesAssumption == Traces \subseteq Seq(Record)

VARIABLES
    stage,      \* the pass that runs, or the loop of HybridAnalysisPass::Run
    verdicts,   \* <<function, branch, always taken>> still to be applied
    opaque,     \* opaque predicate markers, <<function, branch>>
    trace,      \* the records of m_reader, or <<>>
    fi,         \* the function the hybrid pass handles next
    verified,   \* functions set hybrid-verified
    resolved    \* resolvedTargets

passVars == <<stage, verdicts, opaque, trace, fi, verified, resolved>>
allVars == <<vars, passVars>>
-----------------------------------------------------------------------------
(* The listing of a function, and the trace. *)

\* The instructions of a block: from its start on, by their lengths.
Instructions(b) ==
    LET listed[a \in b.start .. b.end - 1] ==
            /\ a \in visited
            /\ \/ a = b.start
               \/ \E p \in b.start .. a - 1 : listed[p] /\ p + image.code[p].len = a
    IN  {a \in visited : Covers(b, a) /\ listed[a]}

\* The blocks that the successors lead to from the start of the function.
Reached(blocks, start) ==
    LET steps[n \in 0 .. Len(blocks)] ==
            IF n = 0 THEN {BlockAt(blocks, start)} \ {0}
            ELSE steps[n - 1] \cup
                 ({BlockAt(blocks, s) :
                     s \in UNION {ToSet(blocks[i].succs) : i \in steps[n - 1]}} \ {0})
    IN  {i \in DOMAIN blocks : i \in steps[Len(blocks)]}

GetIndirectInstructions(f) ==
    {a \in UNION {Instructions(f.blocks[i]) : i \in Reached(f.blocks, f.start)} :
        image.code[a].kind \in {"icall", "ijmp"}}

GetRecordsForPC(a) == {n \in 1..Len(trace) : trace[n][1] = a}

\* The targets that the trace shows for an indirect instruction.
Observed(a) == {trace[n][2] : n \in GetRecordsForPC(a)} \ {0}

\* AddCallSite, for each of the call sites in turn.
AddCallSites(f, sites) ==
    [f EXCEPT !.callSites = (@ \ {<<c[1], 0>> : c \in sites}) \cup sites]

-----------------------------------------------------------------------------
HybridInit ==
    /\ Init
    /\ stage = "static"
    /\ verdicts = {} /\ opaque = {} /\ trace = <<>>
    /\ fi = 1 /\ verified = {} /\ resolved = {}

\* A step of the rebuilder, called as a pass or by the hybrid pass.
StaticStep == stage \in {"static", "reanalyze"} /\ Step /\ UNCHANGED passVars

\* The conditional branches that AbstractInterpretationPass looks at.
Branches ==
    {w \in (1..Len(functions)) \X visited :
        /\ image.code[w[2]].kind = "jcc"
        /\ \E b \in ToSet(functions[w[1]].blocks) : w[2] \in Instructions(b)}

\* AbstractInterpretationPass marks some of them, with either outcome.
Interpret ==
    /\ stage = "static" /\ at = "done"
    /\ \E marked \in SUBSET Branches : \E taken \in [marked -> BOOLEAN] :
          /\ verdicts' = {<<w[1], w[2], taken[w]>> : w \in marked}
          /\ opaque' = marked
    /\ stage' = "opaque"
    /\ UNCHANGED <<vars, trace, fi, verified, resolved>>

\* The first verdict: functions in their order, branches by address.
IsFirst(v) ==
    \A w \in verdicts : v[1] < w[1] \/ (v[1] = w[1] /\ v[2] <= w[2])

\* OpaquePredicatePass: the edge that is never taken goes.
RemoveDeadEdge ==
    /\ stage = "opaque"
    /\ \E v \in verdicts :
          /\ IsFirst(v)
          /\ verdicts' = verdicts \ {v}
          /\ LET blocks == functions[v[1]].blocks
                 b == BlockCovering(blocks, v[2])
             IN  functions' =
                   IF b = 0 \/ Len(blocks[b].succs) < 2 THEN functions
                   ELSE [functions EXCEPT ![v[1]].blocks[b] =
                           RemoveSuccessor(@, Dead(@, v[3]))]
    /\ UNCHANGED <<image, visited, xrefs, functionWork, loop, at, cur, work, pc, bb,
                   toScan, reanalyses, stage, opaque, trace, fi, verified, resolved>>

\* HybridAnalysisPass::Run: the trace is read, or there is none.
LoadTrace ==
    /\ stage = "opaque" /\ verdicts = {}
    /\ \/ trace' \in Traces /\ stage' = "hybrid"
       \/ stage' = "finished" /\ UNCHANGED trace
    /\ UNCHANGED <<vars, verdicts, opaque, fi, verified, resolved>>

SkipUnmarked ==
    /\ stage = "hybrid" /\ fi <= Len(functions) /\ ~ functions[fi].hybrid
    /\ fi' = fi + 1
    /\ UNCHANGED <<vars, stage, verdicts, opaque, trace, verified, resolved>>

\* Mutant: only the targets of calls are collected.
ResolveFunctionCalls ==
    /\ stage = "hybrid" /\ fi <= Len(functions) /\ functions[fi].hybrid
    /\ LET indirects == GetIndirectInstructions(functions[fi])
           sites == UNION {{<<a, t>> : t \in Observed(a)} : a \in indirects}
       IN  /\ functions' = [functions EXCEPT ![fi] = AddCallSites(@, sites)]
           /\ resolved' = resolved \cup {c[2] : c \in {s \in sites : image.code[s[1]].kind = "icall"}}
    /\ verified' = verified \cup {fi}
    /\ fi' = fi + 1
    /\ UNCHANGED <<image, visited, xrefs, functionWork, loop, at, cur, work, pc, bb,
                   toScan, reanalyses, stage, verdicts, opaque, trace>>

\* One marked function: its indirect instructions, then
\* ProcessOpaquePredicates (a branch recorded twice is not opaque).
ResolveFunction ==
    /\ stage = "hybrid" /\ fi <= Len(functions) /\ functions[fi].hybrid
    /\ LET indirects == GetIndirectInstructions(functions[fi])
           sites == UNION {{<<a, t>> : t \in Observed(a)} : a \in indirects}
       IN  /\ functions' = [functions EXCEPT ![fi] = AddCallSites(@, sites)]
           /\ resolved' = resolved \cup {c[2] : c \in sites}
    /\ opaque' = {o \in opaque : o[1] = fi => Cardinality(GetRecordsForPC(o[2])) <= 1}
    /\ verified' = verified \cup {fi}
    /\ fi' = fi + 1
    /\ UNCHANGED <<image, visited, xrefs, functionWork, loop, at, cur, work, pc, bb,
                   toScan, reanalyses, stage, verdicts, trace>>

StartReanalysis ==
    /\ stage = "hybrid" /\ fi > Len(functions)
    /\ stage' = "reanalyze"
    /\ UNCHANGED <<vars, verdicts, opaque, trace, fi, verified, resolved>>

\* What HybridAnalysisPass asks before it re-enters the rebuilder.
IsNew(a) == IsWithinMapping(a) /\ a \notin visited /\ ~ InKnownFunction(a)

\* Mutant: the re-analysis starts from nothing (reAnalyzeAll).
ReanalyzeAll ==
    /\ stage = "reanalyze" /\ at = "done" /\ resolved # {}
    /\ LET a == Min(resolved)
       IN  /\ resolved' = resolved \ {a}
           /\ IF IsNew(a)
              THEN /\ functionWork' = <<a>> /\ at' = "pop" /\ loop' = "explore"
                   /\ visited' = {} /\ functions' = <<>>
                   /\ reanalyses' = reanalyses + 1
                   /\ UNCHANGED <<image, xrefs, cur, work, pc, bb, toScan>>
              ELSE UNCHANGED vars
    /\ UNCHANGED <<stage, verdicts, opaque, trace, fi, verified>>

\* Mutant: the loop forgets a target it has just analysed.
ReanalyzeForever ==
    /\ stage = "reanalyze" /\ at = "done" /\ resolved # {}
    /\ LET a == Min(resolved)
       IN  IF IsNew(a) THEN ReAnalyzeFrom(a) ELSE UNCHANGED vars
    /\ UNCHANGED passVars

\* The resolved targets in ascending order.
Reanalyze ==
    /\ stage = "reanalyze" /\ at = "done" /\ resolved # {}
    /\ LET a == Min(resolved)
       IN  /\ resolved' = resolved \ {a}
           /\ IF IsNew(a) THEN ReAnalyzeFrom(a) ELSE UNCHANGED vars
    /\ UNCHANGED <<stage, verdicts, opaque, trace, fi, verified>>

Finish ==
    /\ stage = "reanalyze" /\ at = "done" /\ resolved = {}
    /\ stage' = "finished"
    /\ UNCHANGED <<vars, verdicts, opaque, trace, fi, verified, resolved>>
-----------------------------------------------------------------------------
HybridNext ==
    \/ StaticStep \/ Interpret \/ RemoveDeadEdge
    \/ LoadTrace \/ SkipUnmarked \/ ResolveFunction
    \/ StartReanalysis \/ Reanalyze \/ Finish

HybridSpec == HybridInit /\ [][HybridNext]_allVars

\* The passes run one after another in one thread until the last returns.
FairHybridSpec == HybridSpec /\ WF_allVars(HybridNext)
-----------------------------------------------------------------------------
(* Properties. *)

Stages == {"static", "opaque", "hybrid", "reanalyze", "finished"}

\* The type invariant.
HybridTypeOK ==
    /\ TypeOK
    /\ stage \in Stages
    /\ verdicts \subseteq (1..Len(functions)) \X Mapped \X BOOLEAN
    /\ opaque \subseteq (1..Len(functions)) \X Mapped
    /\ trace \in Seq(Record)
    /\ fi \in 1..Len(functions) + 1
    /\ verified \subseteq 1..Len(functions)
    /\ resolved \subseteq Target

\* What the trace shows is not lost: when the chain has finished, and has not
\* decoded overlapping instructions, each target observed for an indirect
\* instruction of a function it has verified is a call site, the instruction
\* has no unresolved call site left, and the code at an executable target has
\* been analysed.
ObservedIsAnalyzed ==
    stage = "finished" /\ ~ Overlapping =>
        \A i \in verified : \A a \in GetIndirectInstructions(functions[i]) : \A t \in Observed(a) :
            /\ <<a, t>> \in functions[i].callSites
            /\ <<a, 0>> \notin functions[i].callSites
            /\ IsWithinMapping(t) /\ IsExecutableAddress(t) => Settled(t) \/ InSomeFunction(t)

\* A call found in the code is a call in both records of it, whatever the
\* trace adds: between functions the instructions with a reference of type
\* "call" are those that are the place of a call site.
CallsAreReferenced ==
    at \in {"pop", "done"} =>
        {x[1] : x \in {y \in xrefs : y[3] = "call"}}
            = {a \in UNION {{c[1] : c \in f.callSites} : f \in ToSet(functions)} :
                  image.code[a].kind \in {"call", "ripcall", "icall"}}

\* Re-entering the analysis takes nothing back: decoded code stays decoded, a
\* reference stays, and a function keeps its place, its blocks (but for what
\* OpaquePredicatePass takes from them) and its call sites, of which only an
\* unresolved one goes, when there is a resolved one at its place.
Grows ==
    /\ visited \subseteq visited'
    /\ xrefs \subseteq xrefs'
    /\ Len(functions) <= Len(functions')
    /\ \A i \in 1..Len(functions) :
          /\ functions'[i].start = functions[i].start
          /\ stage = "opaque" \/ functions'[i].blocks = functions[i].blocks
          /\ \A c \in functions[i].callSites :
                \/ c \in functions'[i].callSites
                \/ c[2] = 0 /\ \E t \in Target \ {0} : <<c[1], t>> \in functions'[i].callSites
AnalysisGrows == [][Grows]_allVars

\* The chain of passes returns: every re-analysis ends and each target is
\* taken once.
ChainReturns == <>(stage = "finished")
=============================================================================
