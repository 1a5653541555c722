------------------------- MODULE SharedStateProofs -------------------------
(***************************************************************************)
(* Proofs about what every AnalysisContext of a process shares: the Bochs  *)
(* machine behind the executors (BochsExecutor) and the IR that the one    *)
(* IRLiftingPass hands to the blocks (IRLifetime).  For any executors,     *)
(* disks and addresses, and any order of calls, the machine is built once, *)
(* before it is used unless an initialisation has failed, and not reset    *)
(* under a ready executor.  For any contexts, blocks and number of runs,   *)
(* the IR that ConstantFoldingPass follows is in the module of the living  *)
(* Lifter, and that module holds code of its own context only.             *)
(***************************************************************************)
EXTENDS BochsExecutor, IRLifetime, NaturalsInduction, WellFoundedInduction, TLAPS

-----------------------------------------------------------------------------
(*                        Part 1.  The Bochs machine.                      *)

LEMMA InitExecutors == Init => CoreInductive
BY ResetVectorAssumption DEF Init, CoreInductive, TypeOK

\* The machine under a step that uses it, once there is an interface.
LEMMA RunKeeps ==
    ASSUME CoreInductive, sim, Run
    PROVE  /\ rip' \in Addresses /\ program' \in Executors \cup {None}
           /\ UNCHANGED <<built, inserted>>
           /\ touched' \in BOOLEAN /\ (touched' => failed)
BY DEF CoreInductive, TypeOK, Run, Use, guest

LEMMA ResetKeeps ==
    ASSUME CoreInductive, sim, Reset
    PROVE  /\ rip' \in Addresses /\ UNCHANGED <<built, inserted, program>>
           /\ touched' \in BOOLEAN /\ (touched' => failed)
BY ResetVectorAssumption DEF CoreInductive, TypeOK, Reset, Use, guest

LEMMA InitializeKeeps ==
    ASSUME CoreInductive, NEW e \in Executors, Initialize(e)
    PROVE  CoreInductive'
<1>. USE DEF CoreInductive
<1>1. ASSUME Succeed(e)
      PROVE  /\ core' = TRUE /\ UNCHANGED <<image, failed>>
             /\ ready' \in [Executors -> BOOLEAN]
  BY <1>1 DEF Succeed, TypeOK
<1>2. CASE InitializeAgain(e)
  BY <1>1, <1>2 DEF InitializeAgain, guest, TypeOK
<1>3. CASE InitializeReuse(e)
  BY <1>1, <1>3, ResetKeeps DEF InitializeReuse, TypeOK
<1>4. CASE InitializeFirst(e)
  <2>1. CASE Build(image[e]) /\ Succeed(e)
    BY <1>1, <1>4, <2>1, ResetVectorAssumption DEF InitializeFirst, Build, TypeOK
  <2>2. CASE failed' = TRUE /\ UNCHANGED <<core, guest, ready, image, touched>>
    BY <1>4, <2>2 DEF InitializeFirst, guest, TypeOK
  <2>. QED BY <1>4, <2>1, <2>2 DEF InitializeFirst
<1>. QED BY <1>2, <1>3, <1>4 DEF Initialize

\* One step per operation of an executor.
LEMMA OperationKeeps ==
    ASSUME CoreInductive, NEW e \in Executors, Operation(e)
    PROVE  CoreInductive'
<1>. USE DEF CoreInductive
<1>1. CASE Initialize(e)
  BY <1>1, InitializeKeeps
<1>2. CASE Shutdown(e)
  BY <1>2 DEF Shutdown, guest, TypeOK
<1>3. CASE Renew(e)
  BY <1>3 DEF Renew, guest, TypeOK
<1>4. ASSUME NEW disk \in Disks, SetDiskImage(e, disk)
      PROVE  CoreInductive'
  BY <1>4 DEF SetDiskImage, guest, TypeOK
<1>5. CASE LoadBinary(e)
  BY <1>5 DEF LoadBinary, Use, guest, TypeOK
<1>6. ASSUME NEW a \in Addresses, SetRegister(e, a)
      PROVE  CoreInductive'
  BY <1>6 DEF SetRegister, Use, guest, TypeOK
<1>7. CASE GetRegister(e)
  BY <1>7 DEF GetRegister, Use, guest, TypeOK
<1>8. CASE Execute(e)
  BY <1>8, RunKeeps DEF Execute, TypeOK
<1>9. CASE BootFromDisk(e)
  BY <1>9, RunKeeps DEF BootFromDisk, TypeOK
<1>. QED BY <1>1, <1>2, <1>3, <1>4, <1>5, <1>6, <1>7, <1>8, <1>9 DEF Operation

LEMMA NextExecutors == CoreInductive /\ [Next]_vars => CoreInductive'
<1> SUFFICES ASSUME CoreInductive, [Next]_vars PROVE CoreInductive'
  OBVIOUS
<1>. USE DEF CoreInductive
<1>1. ASSUME NEW e \in Executors, Operation(e) PROVE CoreInductive'
  BY <1>1, OperationKeeps
<1>2. CASE BuildElsewhere
  BY <1>2, ResetVectorAssumption DEF BuildElsewhere, Build, TypeOK
<1>3. CASE UseElsewhere
  BY <1>3, RunKeeps DEF UseElsewhere, TypeOK
<1>4. CASE UNCHANGED vars
  BY <1>4 DEF vars, guest, TypeOK
<1>. QED BY <1>1, <1>2, <1>3, <1>4 DEF Next

\* What the flags of the executors, of the process and of the simulator say of
\* each other and of the machine (BochsExecutor.cpp, Initialize).
THEOREM CoreInductiveHolds == Spec => []CoreInductive
BY InitExecutors, NextExecutors, PTL DEF Spec

\* No operation, of a ready executor or not, reaches the machine before it is
\* built unless an Initialize has failed (the checks of g_bochsCoreInitialized).
THEOREM NothingTouchedEarly == Spec => []TouchedOnlyAfterFailure
<1>1. CoreInductive => TouchedOnlyAfterFailure
  BY DEF CoreInductive, TouchedOnlyAfterFailure
<1>. QED BY <1>1, CoreInductiveHolds, PTL

\* A machine that is built, by an executor or elsewhere, is not built again:
\* only what finds no simulator interface builds one, and a machine has one.
THEOREM MachineIsBuiltOnce == Spec => BuiltOnce
<1>1. CoreInductive /\ [Next]_vars => [built => UNCHANGED <<built, inserted>>]_vars
  <2> SUFFICES ASSUME CoreInductive, Next, built
               PROVE  UNCHANGED <<built, inserted>>
    OBVIOUS
  <2>1. sim /\ TypeOK
    BY DEF CoreInductive
  <2>2. ASSUME NEW e \in Executors, Operation(e)
        PROVE  UNCHANGED <<built, inserted>>
    <3>1. CASE Initialize(e)
      BY <2>1, <3>1 DEF Initialize, InitializeAgain, InitializeReuse, InitializeFirst,
                        Reset, Use, guest
    <3>2. CASE ~ Initialize(e)
      BY <2>2, <3>2 DEF Operation, Shutdown, Renew, SetDiskImage, LoadBinary, SetRegister,
                        GetRegister, Execute, BootFromDisk, Run, Use, guest
    <3>. QED BY <3>1, <3>2
  <2>3. ~ BuildElsewhere
    BY <2>1 DEF BuildElsewhere
  <2>4. CASE UseElsewhere
    BY <2>4 DEF UseElsewhere, Run, Use, guest
  <2>. QED BY <2>2, <2>3, <2>4 DEF Next
<1>. QED BY <1>1, CoreInductiveHolds, PTL DEF Spec, BuiltOnce

\* Initialize of one executor does not disturb the machine of another: a ready
\* executor has a core, and with a core Initialize only marks its own executor.
THEOREM GuestIsNotReset == Spec => GuestSurvivesInitialize
<1>1. CoreInductive /\ [Next]_vars =>
        [\A e \in Executors : Initialize(e) /\ (\E f \in Executors : ready[f])
            => UNCHANGED guest]_vars
  <2> SUFFICES ASSUME CoreInductive, NEW e \in Executors, Initialize(e),
                      NEW f \in Executors, ready[f]
               PROVE  UNCHANGED guest
    OBVIOUS
  <2>1. core
    BY DEF CoreInductive
  <2>. QED BY <2>1 DEF Initialize, InitializeAgain, InitializeReuse, InitializeFirst
<1>. QED BY <1>1, CoreInductiveHolds, PTL DEF Spec, GuestSurvivesInitialize

-----------------------------------------------------------------------------
(*                        Part 2.  The lifted IR.                          *)

\* The inductive invariant.  A block may keep IR of a Lifter that is gone, so its
\* irBlock_ alone says nothing.  Between the two passes of one RunAll (lifting is
\* done, folding is not) these are related: IR of the living Lifter is a function
\* in its module; a block with older IR was passed over by this run, which it is
\* only when a split has torn its code; and the module holds this context's code.
IsBetween == running # Null /\ "IRLiftingPass" \notin todo /\ "ConstantFoldingPass" \in todo
IRInv ==
    /\ IRTypeOK
    /\ IsBetween =>
          /\ \A b \in Blocks :
                /\ ir[running][b] = lifter => <<running, b>> \in lifted
                /\ ir[running][b] \notin {0, lifter} => b \notin liftable[running]
          /\ \A f \in lifted \cup unfinished : f[1] = running

LEMMA IRInitially == IRInit => IRInv
BY LiftersAssumption DEF IRInit, IRInv, IsBetween, IRTypeOK, Passes

\* The rebuilder and the hybrid pass, before or after lifting, make and tear
\* blocks and touch no IR.
LEMMA ExploreKeeps ==
    ASSUME IRInv, NEW p, p # "IRLiftingPass", Explore(p)
    PROVE  IRInv'
<1>1. /\ IRTypeOK /\ running \in Contexts /\ running' = running /\ todo' = todo \ {p}
      /\ UNCHANGED <<alive, ir, lifter, lifted, unfinished>>
    BY DEF IRInv, IsBetween, IRTypeOK, Explore, Ready, translation
<1>2. PICK found \in [Blocks -> {"none", "open", "closed"}] :
          /\ \A b \in Blocks : /\ found[b] = "none" => blocks[running][b] = "none"
                               /\ found[b] = "open" => blocks[running][b] # "closed"
          /\ blocks' = [blocks EXCEPT ![running] = found]
    BY DEF Explore
<1>3. PICK torn : liftable' = [liftable EXCEPT ![running] = @ \ torn]
    BY DEF Explore
<1>4. IRTypeOK'
    BY <1>1, <1>2, <1>3 DEF IRTypeOK
<1>5. liftable'[running] \subseteq liftable[running]
    BY <1>1, <1>3 DEF IRTypeOK
<1>6. /\ "IRLiftingPass" \notin todo' => "IRLiftingPass" \notin todo
      /\ "ConstantFoldingPass" \in todo' => "ConstantFoldingPass" \in todo
    BY <1>1
<1> QED BY <1>1, <1>4, <1>5, <1>6 DEF IRInv, IsBetween

\* A new Lifter is made and every block that can be lifted gets its IR; those
\* left with other IR are not liftable, for a block with IR is closed.
LEMMA LiftKeeps ==
    ASSUME IRInv, Lift
    PROVE  IRInv'
<1> DEFINE good == Closed \cap liftable[running]
<1>1. /\ IRTypeOK /\ running \in Contexts /\ running' = running
      /\ todo' = todo \ {"IRLiftingPass"}
      /\ lifter \in Nat /\ lifter < MaxLifters /\ lifter' = lifter + 1
      /\ UNCHANGED <<alive, blocks, liftable>>
      /\ lifted' = In(good)
      /\ ir' = [ir EXCEPT ![running] = [b \in Blocks |-> IF b \in good THEN lifter' ELSE @[b]]]
    BY DEF IRInv, IsBetween, IRTypeOK, Lift, Ready, analysis
<1>2. PICK begun \in SUBSET Undecodable : unfinished' = In(begun)
    BY DEF Lift
<1>3. /\ good \subseteq Blocks
      /\ \A b \in Blocks :
            b \in good <=> blocks[running][b] = "closed" /\ b \in liftable[running]
    BY DEF Closed
<1>4. begun \subseteq Blocks
    BY DEF Undecodable, Closed
<1> HIDE DEF good
<1>5. /\ lifted' \subseteq {running} \X Blocks /\ unfinished' \subseteq {running} \X Blocks
      /\ \A b \in good : <<running, b>> \in lifted'
    BY <1>1, <1>2, <1>3, <1>4 DEF In
<1>6. \A c \in Contexts : \A b \in Blocks :
          ir'[c][b] = IF c = running /\ b \in good THEN lifter + 1 ELSE ir[c][b]
    BY <1>1 DEF IRTypeOK
<1>7. \A c \in Contexts : \A b \in Blocks : ir[c][b] \in 0 .. lifter
    BY <1>1 DEF IRTypeOK
<1>8. IRTypeOK'
    <2>1. ir' \in [Contexts -> [Blocks -> 0 .. lifter']]
        <3>1. \A c \in Contexts : \A b \in Blocks : ir'[c][b] \in 0 .. lifter'
            BY <1>1, <1>6, <1>7
        <3>2. ir' \in [Contexts -> [Blocks -> 0 .. lifter']] <=>
                 \A c \in Contexts : \A b \in Blocks : ir'[c][b] \in 0 .. lifter'
            BY <1>1 DEF IRTypeOK
        <3> QED BY <3>1, <3>2
    <2>2. lifter' \in 0 .. MaxLifters
        BY <1>1, LiftersAssumption
    <2>3. \A c \in Contexts : \A b \in Blocks : ir'[c][b] # 0 => blocks'[c][b] = "closed"
        BY <1>1, <1>3, <1>6 DEF IRTypeOK
    <2> QED BY <1>1, <1>5, <2>1, <2>2, <2>3 DEF IRTypeOK
<1>9. ASSUME NEW b \in Blocks
      PROVE  /\ ir'[running][b] = lifter' => <<running, b>> \in lifted'
             /\ ir'[running][b] \notin {0, lifter'} => b \notin liftable[running]
    <2>1. ir[running][b] # lifter' /\ ir[running][b] \in Nat
        BY <1>1, <1>7
    <2>2. ir[running][b] # 0 => blocks[running][b] = "closed"
        BY <1>1 DEF IRTypeOK
    <2> QED BY <1>1, <1>3, <1>5, <1>6, <2>1, <2>2
<1> QED BY <1>1, <1>5, <1>8, <1>9 DEF IRInv, IsBetween

\* LLVM may delete what was lifted; nothing follows IR after it in this run.
LEMMA FoldKeeps ==
    ASSUME IRInv, Fold
    PROVE  IRInv'
<1>1. IRTypeOK /\ UNCHANGED <<alive, blocks, liftable, ir, lifter, running>>
      /\ todo' = todo \ {"ConstantFoldingPass"}
      /\ lifted' \subseteq lifted /\ unfinished' \subseteq unfinished
    BY DEF IRInv, IsBetween, Fold, analysis
<1>2. IRTypeOK'
    BY <1>1 DEF IRTypeOK
<1> QED BY <1>1, <1>2 DEF IRInv, IsBetween

\* A context that is not running changes nothing of the one that is.
LEMMA ContextsKeep ==
    ASSUME IRInv, NEW c \in Contexts, Create(c) \/ Destroy(c) \/ RunAll(c)
    PROVE  IRInv'
<1>1. running = Null /\ IRTypeOK /\ lifter \in Nat
    BY DEF IRInv, IsBetween, Create, Destroy, RunAll, IRTypeOK
<1>2. CASE Create(c)
    <2>1. IRTypeOK'
        BY <1>1, <1>2 DEF Create, IRTypeOK, translation
    <2> QED BY <1>1, <1>2, <2>1 DEF Create, IRInv, IsBetween
<1>3. CASE Destroy(c)
    <2>1. IRTypeOK'
        BY <1>1, <1>3, NullAssumption DEF Destroy, IRTypeOK
    <2> QED BY <1>1, <1>3, <2>1 DEF Destroy, IRInv, IsBetween
<1>4. CASE RunAll(c)
    <2>1. IRTypeOK'
        BY <1>1, <1>4 DEF RunAll, IRTypeOK, analysis, translation
    <2>2. "IRLiftingPass" \in todo'
        BY <1>4 DEF RunAll, Passes
    <2> QED BY <2>1, <2>2 DEF IRInv, IsBetween
<1> QED BY <1>2, <1>3, <1>4

LEMMA IRStep == IRInv /\ [IRNext]_irVars => IRInv'
<1> SUFFICES ASSUME IRInv, [IRNext]_irVars PROVE IRInv'
    OBVIOUS
<1>1. CASE Return
    <2>1. running' = Null /\ IRTypeOK'
        BY <1>1 DEF Return, IRInv, IsBetween, IRTypeOK, analysis, translation
    <2> QED BY <2>1 DEF IRInv, IsBetween
<1>2. CASE UNCHANGED irVars
    BY <1>2 DEF IRInv, IsBetween, IRTypeOK, irVars, analysis, translation
<1> QED BY <1>1, <1>2, ContextsKeep, ExploreKeeps, LiftKeeps, FoldKeeps DEF IRNext

\* The first block with IR exists: places are natural numbers.
LEMMA LeastExists ==
    ASSUME NEW S \in SUBSET Nat, S # {}
    PROVE  \E x \in S : \A y \in S : x <= y
<1>1. PICK x \in S : \A y \in S : ~ (<<y, x>> \in OpToRel(<, Nat))
    BY NatLessThanWellFounded, WFMin
<1>2. ASSUME NEW y \in S PROVE x <= y
    <2>1. <<y, x>> \in Nat \X Nat
        OBVIOUS
    <2>2. ~ (y < x)
        BY <1>1, <2>1 DEF OpToRel
    <2> QED BY <2>2
<1> QED BY <1>2

LEMMA FirstIRIsFirst ==
    ASSUME WithIR # {}
    PROVE  FirstIR \in WithIR
<1>1. WithIR \in SUBSET Nat
    BY BlocksAssumption DEF WithIR
<1>2. \E x \in WithIR : \A y \in WithIR : x <= y
    BY <1>1, LeastExists
<1> QED BY <1>2 DEF FirstIR

\* For any contexts that come and go and are run again, in any order of their
\* passes, the IR of the context that runs is as IRInv says (IRLiftingPass::Run).
THEOREM IRInvHolds == IRSpec => []IRInv
BY IRInitially, IRStep, PTL DEF IRSpec

\* Fold is ready only between the two passes, so IRInv speaks of the block it takes.
LEMMA WhatFoldFollows ==
    ASSUME IRInv, FollowsIR
    PROVE  /\ ir[running][FirstIR] = lifter /\ <<running, FirstIR>> \in lifted
           /\ \A f \in lifted \cup unfinished : f[1] = running
<1>1. /\ running # Null /\ "ConstantFoldingPass" \in todo /\ "IRLiftingPass" \notin todo
      /\ WithIR # {} /\ \A b \in Blocks : ~ IsTorn(b)
    <2>1. Dependencies("ConstantFoldingPass") = {"IRLiftingPass"}
        BY DEF Dependencies
    <2> QED BY <2>1 DEF FollowsIR, Ready
<1>2. FirstIR \in Blocks /\ ir[running][FirstIR] # 0
    BY <1>1, FirstIRIsFirst DEF WithIR
<1>3. ir[running][FirstIR] = lifter
    BY <1>1, <1>2 DEF IRInv, IsBetween, IsTorn
<1> QED BY <1>1, <1>2, <1>3 DEF IRInv, IsBetween

\* What ConstantFoldingPass follows is in the module of the Lifter there is, unless
\* a block kept IR because a split tore its code (IRBlock::IsValid tells nothing).
THEOREM FollowedIRIsLiveHolds == IRSpec => []FollowedIRIsLive
<1>1. IRInv => FollowedIRIsLive
    BY WhatFoldFollows DEF FollowedIRIsLive, IRInv, IsBetween
<1> QED BY <1>1, IRInvHolds, PTL

\* The module that ConstantFoldingPass optimises holds no function of another
\* context, although all contexts share the pass and its Lifter.
THEOREM OptimisedIsOwnHolds == IRSpec => []OptimisedIsOwn
<1>1. IRInv => OptimisedIsOwn
    BY WhatFoldFollows DEF OptimisedIsOwn
<1> QED BY <1>1, IRInvHolds, PTL
=============================================================================
