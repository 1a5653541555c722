------------------------------ MODULE IRLifetime ------------------------------
(***************************************************************************)
(* Who owns the LLVM IR that the blocks refer to.  The passes are static:  *)
(* one IRLiftingPass, with one Lifter, serves every AnalysisContext of the *)
(* process.  Its Run makes a new Lifter, which takes with it the module    *)
(* that the IR of earlier runs was in, of the same and of other contexts;  *)
(* LLVM's GlobalDCE deletes lifted functions too.  The IRBlock of a basic  *)
(* block is not told: it stays non-null.  ConstantFoldingPass follows the  *)
(* first one of its context.                                               *)
(*                                                                         *)
(* A context runs its passes in any order its Dependencies() allow, and    *)
(* may be run again; of the passes, those that add blocks or use IR are    *)
(* here.                                                                   *)
(***************************************************************************)
EXTENDS Integers, FiniteSets

CONSTANTS
    Contexts,
    Blocks,         \* places of basic blocks, in the order of the module
    MaxLifters,     \* bound: how many lifters are ever made
    Null            \* model value: no context

ASSUME BlocksAssumption == Blocks \subseteq Nat /\ IsFiniteSet(Blocks)
ASSUME LiftersAssumption == MaxLifters \in Nat
ASSUME NullAssumption == Null \notin Contexts

Passes == {"StaticControlFlowRebuilder", "HybridAnalysisPass", "IRLiftingPass",
           "ConstantFoldingPass"}

VARIABLES
    alive,              \* the contexts there are
    blocks,             \* of a context: "none", "open" (no end yet) or "closed"
    liftable,           \* the blocks of a context whose code can be decoded
    ir,                 \* the lifter an irBlock_ came from, by number; 0: no IR
    lifter,             \* the number of the Lifter there is; 0: none yet
    lifted, unfinished, \* functions of its module, by block: whole, or given up
    running, todo       \* the context in RunAll, and the passes it has left

analysis == <<alive, blocks, liftable>>
translation == <<ir, lifter, lifted, unfinished>>
irVars == <<analysis, translation, running, todo>>

Dependencies(p) ==
    CASE p = "StaticControlFlowRebuilder" -> {}
      [] p \in {"HybridAnalysisPass", "IRLiftingPass"} -> {"StaticControlFlowRebuilder"}
      [] p = "ConstantFoldingPass" -> {"IRLiftingPass"}

IRInit ==
    /\ alive = {}
    /\ blocks = [c \in Contexts |-> [b \in Blocks |-> "none"]]
    /\ liftable = [c \in Contexts |-> {}]
    /\ ir = [c \in Contexts |-> [b \in Blocks |-> 0]]
    /\ lifter = 0 /\ lifted = {} /\ unfinished = {}
    /\ running = Null /\ todo = {}

-----------------------------------------------------------------------------
(* Contexts and runs. *)

\* AnalysisManager::Create, with a target whose code can be lifted in part;
\* in a build without remill none can.
Create(c) ==
    /\ running = Null /\ c \notin alive
    /\ alive' = alive \cup {c}
    /\ \E can \in SUBSET Blocks : liftable' = [liftable EXCEPT ![c] = can]
    /\ UNCHANGED <<blocks, translation, running, todo>>

\* The manager is destroyed, with its context, module, blocks and IRBlocks.
Destroy(c) ==
    /\ running = Null /\ c \in alive
    /\ alive' = alive \ {c}
    /\ blocks' = [blocks EXCEPT ![c] = [b \in Blocks |-> "none"]]
    /\ ir' = [ir EXCEPT ![c] = [b \in Blocks |-> 0]]
    /\ liftable' = [liftable EXCEPT ![c] = {}]
    /\ UNCHANGED <<lifter, lifted, unfinished, running, todo>>

RunAll(c) ==
    /\ running = Null /\ c \in alive
    /\ running' = c /\ todo' = Passes
    /\ UNCHANGED <<analysis, translation>>

Ready(p) == running # Null /\ p \in todo /\ Dependencies(p) \cap todo = {}

\* The last pass has run, or another returned false.
Return ==
    /\ running # Null
    /\ running' = Null /\ todo' = {}
    /\ UNCHANGED <<analysis, translation>>

-----------------------------------------------------------------------------
(* The passes, each on the running context. *)

\* The blocks the lifter is called for.
Closed == {b \in Blocks : blocks[running][b] = "closed"}

\* What the rebuilder and the hybrid pass, which calls it, do to the blocks:
\* add some, find the end of some, and split some, perhaps in the middle of an
\* instruction, so that their code no longer can be decoded.
Explore(p) ==
    /\ Ready(p) /\ todo' = todo \ {p}
    /\ \E found \in [Blocks -> {"none", "open", "closed"}] :
          /\ \A b \in Blocks :
                /\ found[b] = "none" => blocks[running][b] = "none"
                /\ found[b] = "open" => blocks[running][b] # "closed"
          /\ blocks' = [blocks EXCEPT ![running] = found]
    /\ \E torn \in SUBSET Closed : liftable' = [liftable EXCEPT ![running] = @ \ torn]
    /\ UNCHANGED <<alive, translation, running>>

\* Of these, what it gives up on, perhaps half way, and what lies outside of
\* the mapping.
Undecodable == Closed \ liftable[running]
In(bs) == {running} \X bs

\* Mutant: one lifter for the whole process.
LiftIntoOne ==
    /\ Ready("IRLiftingPass") /\ todo' = todo \ {"IRLiftingPass"}
    /\ LET good == Closed \cap liftable[running]
       IN  /\ lifter' = 1
           /\ lifted' = lifted \cup In(good)
           /\ \E begun \in SUBSET Undecodable : unfinished' = unfinished \cup In(begun)
           /\ ir' = [ir EXCEPT ![running] = [b \in Blocks |-> IF b \in good THEN 1 ELSE @[b]]]
    /\ UNCHANGED <<analysis, running>>

\* Mutant: blocks that have IR are not lifted again.
LiftMissing ==
    /\ Ready("IRLiftingPass") /\ todo' = todo \ {"IRLiftingPass"}
    /\ lifter < MaxLifters /\ lifter' = lifter + 1
    /\ LET good == {b \in Closed \cap liftable[running] : ir[running][b] = 0}
       IN  /\ lifted' = In(good)
           /\ \E begun \in SUBSET Undecodable : unfinished' = In(begun)
           /\ ir' = [ir EXCEPT ![running] =
                        [b \in Blocks |-> IF b \in good THEN lifter' ELSE @[b]]]
    /\ UNCHANGED <<analysis, running>>

\* IRLiftingPass::Run: the old lifter goes with all its IR; a block that
\* cannot be lifted keeps the IRBlock it had.
Lift ==
    /\ Ready("IRLiftingPass") /\ todo' = todo \ {"IRLiftingPass"}
    /\ lifter < MaxLifters /\ lifter' = lifter + 1
    /\ LET good == Closed \cap liftable[running]
       IN  /\ lifted' = In(good)
           /\ \E begun \in SUBSET Undecodable : unfinished' = In(begun)
           /\ ir' = [ir EXCEPT ![running] =
                        [b \in Blocks |-> IF b \in good THEN lifter' ELSE @[b]]]
    /\ UNCHANGED <<analysis, running>>

\* Blocks with an IRBlock that IsValid(), and the first of them.
WithIR == {b \in Blocks : blocks[running][b] # "none" /\ ir[running][b] # 0}
FirstIR == CHOOSE b \in WithIR : \A other \in WithIR : b <= other

\* ConstantFoldingPass::Run: the module of the first IR is optimised, whether
\* it can be verified or not; functions that nothing calls are deleted.
Fold ==
    /\ Ready("ConstantFoldingPass") /\ todo' = todo \ {"ConstantFoldingPass"}
    /\ IF WithIR = {} THEN UNCHANGED <<lifted, unfinished>>
       ELSE /\ \E kept \in SUBSET lifted : lifted' = kept
            /\ \E kept \in SUBSET unfinished : unfinished' = kept
    /\ UNCHANGED <<analysis, ir, lifter, running>>

-----------------------------------------------------------------------------
IRNext ==
    \/ \E c \in Contexts : Create(c) \/ Destroy(c) \/ RunAll(c)
    \/ Explore("StaticControlFlowRebuilder")
    \/ Explore("HybridAnalysisPass")
    \/ Lift
    \/ Fold
    \/ Return

IRSpec == IRInit /\ [][IRNext]_irVars
-----------------------------------------------------------------------------
(* Properties. *)

\* The type invariant; a context that runs exists, and IR is of a block.
IRTypeOK ==
    /\ alive \subseteq Contexts
    /\ blocks \in [Contexts -> [Blocks -> {"none", "open", "closed"}]]
    /\ liftable \in [Contexts -> SUBSET Blocks]
    /\ ir \in [Contexts -> [Blocks -> 0 .. lifter]]
    /\ lifter \in 0 .. MaxLifters
    /\ lifted \subseteq Contexts \X Blocks /\ unfinished \subseteq Contexts \X Blocks
    /\ running \in alive \cup {Null} /\ todo \subseteq Passes
    /\ \A c \in Contexts : \A b \in Blocks : ir[c][b] # 0 => blocks[c][b] = "closed"

\* Fold is about to follow IR, and no block of the context has kept IR of
\* an earlier run because its code, torn by a split, gives none any more.
IsTorn(b) == ir[running][b] \notin {0, lifter} /\ b \notin liftable[running]
FollowsIR ==
    /\ Ready("ConstantFoldingPass") /\ WithIR # {}
    /\ \A b \in Blocks : ~ IsTorn(b)

\* Although the IR of other contexts and of earlier runs dangles, what Fold is
\* about to follow is in the module of the lifter there is, whatever contexts
\* have come, gone and run before.  (With the type invariant.)
FollowedIRIsLive ==
    /\ IRTypeOK
    /\ FollowsIR => ir[running][FirstIR] = lifter /\ <<running, FirstIR>> \in lifted

\* What Fold optimises is the code of the context it runs on, and no other's.
OptimisedIsOwn == FollowsIR => \A f \in lifted \cup unfinished : f[1] = running
=============================================================================
