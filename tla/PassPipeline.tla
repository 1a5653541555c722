------------------------------ MODULE PassPipeline ------------------------------
(***************************************************************************)
(* PassProvider, the registry of analysis passes, and AnalysisPassManager, *)
(* which orders them by their Dependencies() (Kahn's algorithm) and calls  *)
(* PreRun, Run and PostRun of each.  The registry and its passes are       *)
(* static: every manager uses the same ones, one RunAll after another.     *)
(*                                                                         *)
(* The sort fills its queue from an unordered_map, and then with the       *)
(* dependents of a pass by name; the model, whose names have no order,     *)
(* allows any order in both.  What a pass does is left out, except that    *)
(* each of its three calls may return false.                               *)
(***************************************************************************)
EXTENDS SequencesExt

CONSTANTS
    Names,          \* names of passes, and names a pass may declare
    FactoryNames,   \* the passes that register a factory at load time
    Graphs,         \* what Dependencies() may return: functions on Names
    MaxRuns         \* bound: how many times RunAll is called

ASSUME NamesAssumption == IsFiniteSet(Names) /\ FactoryNames \subseteq Names
ASSUME GraphsAssumption == Graphs \subseteq [Names -> SUBSET Names]
ASSUME MaxRunsAssumption == MaxRuns \in Nat

VARIABLES
    deps,                   \* Dependencies() of each pass
    passes, initialized,    \* PassProvider::m_passes, m_initialized
    inDegree, q, result,    \* the locals of TopologicalSort
    toRun, ok,              \* the locals of RunAll: passes left, last answer
    completed,              \* the passes whose three calls have returned true
    at,                     \* where RunAll is: idle, sorting, or the next call
    runs                    \* calls of RunAll so far

registry == <<deps, passes, initialized>>
sorting == <<inDegree, q, result>>
vars == <<registry, sorting, toRun, ok, completed, at, runs>>

\* The elements of S in some order.
AnyOrder(S) == Bijection(1..Cardinality(S), S)

Init ==
    /\ deps \in Graphs
    /\ passes = {} /\ initialized = FALSE
    /\ inDegree = <<>> /\ q = <<>> /\ result = <<>>
    /\ toRun = <<>> /\ ok = FALSE /\ completed = {}
    /\ at = "idle" /\ runs = 0

-----------------------------------------------------------------------------
\* EnsureInitialized: one instance per factory, before anything else.
EnsureInitialized == IF initialized THEN passes ELSE passes \cup FactoryNames

AddPass(p) ==
    /\ at = "idle"
    /\ passes' = EnsureInitialized \cup {p}
    /\ initialized' = TRUE
    /\ UNCHANGED <<deps, sorting, toRun, ok, completed, at, runs>>

\* Mutant: names that no pass has are counted.
RunAllWithUnregistered ==
    /\ at = "idle" /\ runs < MaxRuns
    /\ passes' = EnsureInitialized /\ initialized' = TRUE
    /\ inDegree' = [p \in passes' |-> Cardinality(deps[p])]
    /\ q' \in AnyOrder({p \in passes' : inDegree'[p] = 0})
    /\ result' = <<>>
    /\ completed' = {} /\ ok' = FALSE
    /\ at' = "sort" /\ runs' = runs + 1
    /\ UNCHANGED <<deps, toRun>>

\* RunAll, and the part of TopologicalSort before its loop.
RunAll ==
    /\ at = "idle" /\ runs < MaxRuns
    /\ passes' = EnsureInitialized /\ initialized' = TRUE
    /\ inDegree' = [p \in passes' |-> Cardinality(deps[p] \cap passes')]
    /\ q' \in AnyOrder({p \in passes' : inDegree'[p] = 0})
    /\ result' = <<>>
    /\ completed' = {} /\ ok' = FALSE
    /\ at' = "sort" /\ runs' = runs + 1
    /\ UNCHANGED <<deps, toRun>>

\* Mutant: a pass is queued while it waits for one more.
OrderTooSoon ==
    /\ at = "sort" /\ q # <<>>
    /\ result' = Append(result, Head(q))
    /\ LET dependents == {p \in passes : Head(q) \in deps[p]}
       IN  /\ inDegree' = [p \in passes |->
                              IF p \in dependents THEN inDegree[p] - 1 ELSE inDegree[p]]
           /\ \E freed \in AnyOrder({p \in dependents : inDegree'[p] = 1}) :
                 q' = Tail(q) \o freed
    /\ UNCHANGED <<registry, toRun, ok, completed, at, runs>>

\* One round of the loop of TopologicalSort.
OrderNext ==
    /\ at = "sort" /\ q # <<>>
    /\ result' = Append(result, Head(q))
    /\ LET dependents == {p \in passes : Head(q) \in deps[p]}
       IN  /\ inDegree' = [p \in passes |->
                              IF p \in dependents THEN inDegree[p] - 1 ELSE inDegree[p]]
           /\ \E freed \in AnyOrder({p \in dependents : inDegree'[p] = 0}) :
                 q' = Tail(q) \o freed
    /\ UNCHANGED <<registry, toRun, ok, completed, at, runs>>

\* Mutant: the sort ends when every pass is placed.
EndCompleteSort ==
    /\ at = "sort" /\ q = <<>> /\ ToSet(result) = passes
    /\ toRun' = result /\ at' = "PreRun"
    /\ UNCHANGED <<registry, sorting, ok, completed, runs>>

\* The sort returns what it could order; a cycle is only logged.
EndSort ==
    /\ at = "sort" /\ q = <<>>
    /\ toRun' = result /\ at' = "PreRun"
    /\ UNCHANGED <<registry, sorting, ok, completed, runs>>

\* The three calls of the next pass: the first that fails ends RunAll.
Call(here, next, succeeds) ==
    /\ at = here /\ toRun # <<>>
    /\ ok' = succeeds
    /\ at' = IF succeeds THEN next ELSE "idle"
    /\ UNCHANGED <<registry, sorting, runs>>

PreRun(succeeds) ==
    /\ Call("PreRun", "Run", succeeds)
    /\ UNCHANGED <<toRun, completed>>

Run(succeeds) ==
    /\ Call("Run", "PostRun", succeeds)
    /\ UNCHANGED <<toRun, completed>>

PostRun(succeeds) ==
    /\ Call("PostRun", "PreRun", succeeds)
    /\ IF succeeds
       THEN toRun' = Tail(toRun) /\ completed' = completed \cup {Head(toRun)}
       ELSE UNCHANGED <<toRun, completed>>

\* RunAll returns ok.
EndRun ==
    /\ at = "PreRun" /\ toRun = <<>>
    /\ at' = "idle"
    /\ UNCHANGED <<registry, sorting, toRun, ok, completed, runs>>

-----------------------------------------------------------------------------
Step ==
    \/ OrderNext \/ EndSort \/ EndRun
    \/ \E succeeds \in BOOLEAN : PreRun(succeeds) \/ Run(succeeds) \/ PostRun(succeeds)

Next == Step \/ RunAll \/ \E p \in Names : AddPass(p)

Spec == Init /\ [][Next]_vars

\* RunAll is called on one thread and runs until it returns.
FairSpec == Spec /\ WF_vars(Step)
-----------------------------------------------------------------------------
(* Properties. *)

Places == {"idle", "sort", "PreRun", "Run", "PostRun"}

TypeOK ==
    /\ deps \in [Names -> SUBSET Names]
    /\ passes \in SUBSET Names /\ initialized \in BOOLEAN
    /\ q \in Seq(passes) /\ result \in Seq(passes) /\ toRun \in Seq(passes)
    /\ at = "sort" => inDegree \in [passes -> Nat]
    /\ ok \in BOOLEAN /\ completed \in SUBSET passes
    /\ at \in Places /\ runs \in 0..MaxRuns

\* The inductive invariant behind the two properties below.  While it sorts:
\* a degree counts the dependencies not placed yet, and the queue holds what
\* is free and not placed.
Placed == ToSet(result)
FreeOf(p) == deps[p] \cap passes \subseteq Placed
SortInductive ==
    at = "sort" =>
        /\ \A p \in passes : inDegree[p] = Cardinality((deps[p] \cap passes) \ Placed)
        /\ \A p \in Placed : inDegree[p] = 0
        /\ ToSet(q) = {p \in passes : inDegree[p] = 0} \ Placed
        /\ IsInjective(q)
        /\ completed = {}

\* From the sort to the end: no pass comes twice, and each comes after its
\* dependencies.
OrderInductive ==
    at # "idle" =>
        /\ IsInjective(result)
        /\ \A i \in 1..Len(result) :
              deps[result[i]] \cap passes \subseteq {result[j] : j \in 1..i - 1}

\* While the passes run: what is not placed waits for something not placed,
\* and toRun is the part of the result that has not been completed.
Position == Len(result) - Len(toRun)
RunInductive ==
    at \in {"PreRun", "Run", "PostRun"} =>
        /\ \A p \in passes : FreeOf(p) => p \in Placed
        /\ Position \in 0..Len(result)
        /\ \A k \in 1..Len(toRun) : toRun[k] = result[Position + k]
        /\ completed = {result[j] : j \in 1..Position}
        /\ at # "PreRun" => toRun # <<>>

PipelineInductive == SortInductive /\ OrderInductive /\ RunInductive

\* One pass at a time, each after its dependencies, and nothing left out that
\* could run: RunAll implements DependencyOrder.
Order == INSTANCE DependencyOrder WITH
    available <- passes,
    done      <- completed,
    active    <- IF at \in {"Run", "PostRun"} THEN {Head(toRun)} ELSE {},
    status    <- IF at # "idle" THEN "running" ELSE IF ok THEN "complete" ELSE "failed"

ImplementsDependencyOrder == Order!Spec

\* The passes no order can place: those that lead into a dependency cycle.
Blocked ==
    UNION {C \in SUBSET passes : \A p \in C : deps[p] \cap C # {}}

\* When no call has failed, the passes that RunAll silently left out are
\* exactly those that lead into a cycle of registered dependencies.
LeavesOutOnlyCycles ==
    at = "PreRun" /\ toRun = <<>> => completed = passes \ Blocked

\* RunAll returns, whatever the graph.
Returns == at = "sort" ~> at = "idle"
=============================================================================
