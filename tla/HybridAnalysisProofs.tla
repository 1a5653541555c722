------------------------ MODULE HybridAnalysisProofs ------------------------
(***************************************************************************)
(* Control-flow recovery, alone and in the chain of passes.  The first     *)
(* part is about Spec: for every image, every mapping size and every       *)
(* number of re-analyses recursive descent leaves no code of a function    *)
(* undecoded, drops no call or jump, records each call twice and leaves    *)
(* basic blocks.  The second is about HybridSpec: for every trace and      *)
(* every choice of verdicts this stays true while other passes change the  *)
(* functions and the hybrid pass re-enters the rebuilder, and what the     *)
(* trace shows is analysed.                                                *)
(***************************************************************************)
EXTENDS HybridAnalysis, SequenceTheorems, FiniteSetTheorems, WellFoundedInduction, TLAPS

-----------------------------------------------------------------------------
(* The elements of a queue.                                                *)

\* What a queue holds.
LEMMA Elements ==
    ASSUME NEW S, NEW q \in Seq(S)
    PROVE  \A x : x \in ToSet(q) <=> \E i \in 1..Len(q) : x = q[i]
BY DEF ToSet

\* What a queue holds after a push, and what it held before a pop.
LEMMA PushElements ==
    ASSUME NEW S, NEW q \in Seq(S), NEW e \in S
    PROVE  Append(q, e) \in Seq(S) /\ ToSet(Append(q, e)) = ToSet(q) \cup {e}
BY AppendProperties DEF ToSet

LEMMA PopElements ==
    ASSUME NEW S, NEW q \in Seq(S), q # <<>>
    PROVE  /\ Head(q) \in S /\ Tail(q) \in Seq(S)
           /\ ToSet(q) = {Head(q)} \cup ToSet(Tail(q))
<1> DEFINE t == Tail(q)
<1>1. Head(q) = q[1] /\ Head(q) \in S /\ t \in Seq(S) /\ Len(q) \in Nat \ {0}
    OBVIOUS
<1>2. Len(t) = Len(q) - 1 /\ \A i \in 1..Len(q) - 1 : t[i] = q[i + 1]
    BY <1>1
<1> HIDE DEF t
<1>3. ASSUME NEW x \in ToSet(q) PROVE x \in {Head(q)} \cup ToSet(t)
    <2>1. PICK i \in 1..Len(q) : x = q[i]
        BY Elements
    <2>2. i # 1 => i - 1 \in 1..Len(t) /\ x = t[i - 1]
        BY <2>1, <1>1, <1>2
    <2>3. i # 1 => x \in ToSet(t)
        BY <2>2, <1>1, Elements
    <2> QED BY <2>1, <2>3, <1>1
<1>4. ASSUME NEW x \in ToSet(t) PROVE x \in ToSet(q)
    <2>1. PICK i \in 1..Len(t) : x = t[i]
        BY <1>1, Elements
    <2>2. i + 1 \in 1..Len(q) /\ x = q[i + 1]
        BY <2>1, <1>1, <1>2
    <2> QED BY <2>2, Elements
<1>5. Head(q) \in ToSet(q)
    BY <1>1, Elements
<1> QED BY <1>1, <1>3, <1>4, <1>5 DEF t

LEMMA ConcatElements ==
    ASSUME NEW S, NEW q \in Seq(S), NEW r \in Seq(S)
    PROVE  q \o r \in Seq(S) /\ ToSet(q \o r) = ToSet(q) \cup ToSet(r)
<1>1. q \o r \in Seq(S) /\ Len(q \o r) = Len(q) + Len(r) /\ Len(q) \in Nat /\ Len(r) \in Nat
    BY ConcatProperties
<1>2. \A i \in 1..Len(q) + Len(r) : (q \o r)[i] = IF i <= Len(q) THEN q[i] ELSE r[i - Len(q)]
    BY ConcatProperties
<1>3. ASSUME NEW x \in ToSet(q \o r) PROVE x \in ToSet(q) \cup ToSet(r)
    <2>1. PICK i \in 1..Len(q) + Len(r) : x = (q \o r)[i]
        BY <1>1, Elements
    <2>2. IF i <= Len(q) THEN i \in 1..Len(q) /\ x = q[i]
          ELSE i - Len(q) \in 1..Len(r) /\ x = r[i - Len(q)]
        BY <1>1, <1>2, <2>1
    <2> QED BY <2>2, Elements
<1>4. ASSUME NEW x \in ToSet(q) PROVE x \in ToSet(q \o r)
    <2>1. PICK i \in 1..Len(q) : x = q[i]
        BY Elements
    <2>2. i \in 1..Len(q \o r) /\ x = (q \o r)[i]
        BY <1>1, <1>2, <2>1
    <2> QED BY <1>1, <2>2, Elements
<1>5. ASSUME NEW x \in ToSet(r) PROVE x \in ToSet(q \o r)
    <2>1. PICK i \in 1..Len(r) : x = r[i]
        BY Elements
    <2>2. Len(q) + i \in 1..Len(q \o r) /\ x = (q \o r)[Len(q) + i]
        BY <1>1, <1>2, <2>1
    <2> QED BY <1>1, <2>2, Elements
<1> QED BY <1>1, <1>3, <1>4, <1>5

-----------------------------------------------------------------------------
(* The least element of a set of natural numbers.                          *)

LEMMA NatMin ==
    ASSUME NEW S \in SUBSET Nat, S # {}
    PROVE  Min(S) \in S /\ \A y \in S : Min(S) <= y
<1>1. PICK x \in S : \A y \in S : ~ (<<y, x>> \in OpToRel(<, Nat))
    BY NatLessThanWellFounded, WFMin
<1>2. ASSUME NEW y \in S PROVE x <= y
    <2>1. <<y, x>> \in Nat \X Nat
        OBVIOUS
    <2>2. ~ (y < x)
        BY <1>1, <2>1 DEF OpToRel
    <2> QED BY <2>2
<1> QED BY <1>2 DEF Min

-----------------------------------------------------------------------------
(*                                                                         *)
(*              Part 1.  The rebuilder: Spec.                              *)
(*                                                                         *)

-----------------------------------------------------------------------------
(* Containers. *)

\* A std::set iterated in order is a sequence over the set.
LEMMA OrderedType ==
    ASSUME NEW S, IsFiniteSet(S), NEW Less(_, _), NEW s \in Ordered(S, Less)
    PROVE  s \in Seq(S)
<1>1. Cardinality(S) \in Nat
    BY FS_CardinalityType
<1> QED BY <1>1 DEF Ordered

-----------------------------------------------------------------------------
(* Looking a block up. *)

\* The lookup of a block answers with one that starts at the address or holds it
\* inside, or with 0.
LEMMA BlockAtFinds ==
    ASSUME NEW blocks, Len(blocks) \in Nat, NEW a
    PROVE  LET i == BlockAt(blocks, a)
           IN  \/ i = 0
               \/ i \in 1..Len(blocks) /\ (blocks[i].start = a \/ Inside(blocks[i], a))
<1> DEFINE I == {i \in 1..Len(blocks) : blocks[i].start = a \/ Inside(blocks[i], a)}
<1>1. I # {} => Min(I) \in I
    <2>1. I \in SUBSET Nat
        OBVIOUS
    <2> HIDE DEF I
    <2> QED BY <2>1, NatMin
<1>2. BlockAt(blocks, a) = IF I # {} THEN Min(I) ELSE 0
    BY DEF BlockAt, SelectInSeq
<1> QED BY <1>1, <1>2

-----------------------------------------------------------------------------
(* Types of the operations on blocks and functions. *)

LEMMA NewBlockType ==
    ASSUME NEW a \in Nat
    PROVE  NewBlock(a) \in Block(Nat)
BY EmptySeq DEF NewBlock, Block

LEMMA SplitBlockType ==
    ASSUME NEW blocks \in Seq(Block(Nat)), NEW i \in 1..Len(blocks), NEW a \in Nat
    PROVE  SplitBlock(blocks, i, a) \in Seq(Block(Nat))
<1>1. blocks[i] \in Block(Nat) /\ <<a>> \in Seq(Nat)
    BY ElementOfSeq
<1>2. [blocks[i] EXCEPT !.end = a, !.succs = <<a>>] \in Block(Nat)
    BY <1>1 DEF Block
<1>3. [blocks EXCEPT ![i].end = a, ![i].succs = <<a>>] \in Seq(Block(Nat))
    <2>1. [blocks EXCEPT ![i].end = a, ![i].succs = <<a>>]
            = [blocks EXCEPT ![i] = [blocks[i] EXCEPT !.end = a, !.succs = <<a>>]]
        BY <1>1 DEF Block
    <2> QED BY <1>2, <2>1, ExceptSeq
<1>4. [start |-> a, end |-> blocks[i].end, succs |-> blocks[i].succs,
       preds |-> {blocks[i].start}] \in Block(Nat)
    BY <1>1 DEF Block
<1> QED BY <1>3, <1>4, AppendProperties DEF SplitBlock

LEMMA EntriesType ==
    ASSUME NEW blocks \in Seq(Block(Nat)), NEW a \in Entries(blocks)
    PROVE  a \in Nat
<1>1. \A b \in ToSet(blocks) : b \in Block(Nat)
    BY Elements, ElementOfSeq
<1>2. \A b \in ToSet(blocks) : b.start \in Nat /\ ToSet(b.succs) \subseteq Nat
    <2> SUFFICES ASSUME NEW b \in ToSet(blocks) PROVE b.start \in Nat /\ ToSet(b.succs) \subseteq Nat
        OBVIOUS
    <2>1. b.start \in Nat /\ b.succs \in Seq(Nat)
        BY <1>1 DEF Block
    <2> QED BY <2>1, Elements, ElementOfSeq
<1> QED BY <1>2 DEF Entries

LEMMA WithPredecessorsType ==
    ASSUME NEW blocks \in Seq(Block(Nat))
    PROVE  WithPredecessors(blocks) \in Seq(Block(Nat))
<1>1. Len(blocks) \in Nat /\ \A k \in 1..Len(blocks) : blocks[k] \in Block(Nat)
    BY ElementOfSeq
<1>2. ASSUME NEW P \in SUBSET (1..Len(blocks)), NEW j \in 1..Len(blocks)
      PROVE  [blocks[j] EXCEPT !.preds = @ \cup {blocks[k].start : k \in P}] \in Block(Nat)
    BY <1>1 DEF Block
<1>3. \A j \in 1..Len(blocks) : WithPredecessors(blocks)[j] \in Block(Nat)
    BY <1>2 DEF WithPredecessors
<1> QED BY <1>1, <1>3, IsASeq DEF WithPredecessors

LEMMA NewFunctionType ==
    ASSUME NEW a \in Nat
    PROVE  NewFunction(a) \in FunctionUnit
BY EmptySeq DEF NewFunction, FunctionUnit

LEMMA AddCallSiteType ==
    ASSUME NEW f \in FunctionUnit, NEW from \in Mapped, NEW to \in Target
    PROVE  AddCallSite(f, from, to) \in FunctionUnit
BY DEF AddCallSite, FunctionUnit

LEMMA CloseBlockType ==
    ASSUME NEW f \in FunctionUnit, NEW b \in Block(Nat), NEW a \in Nat
    PROVE  CloseBlock(f, b, a) \in FunctionUnit
<1>1. [b EXCEPT !.end = a] \in Block(Nat)
    BY DEF Block
<1>2. Append(f.blocks, [b EXCEPT !.end = a]) \in Seq(Block(Nat))
    BY <1>1, AppendProperties DEF FunctionUnit
<1> QED BY <1>2 DEF CloseBlock, FunctionUnit
-----------------------------------------------------------------------------
(* The type invariant. *)

LEMMA MappedFinite == IsFiniteSet(Mapped) /\ Mapped \subseteq Nat \ {0}
BY MappedSizeAssumption, FS_Interval DEF Mapped

\* What an instruction about to be decoded and the open block look like.
LEMMA DecodeType ==
    ASSUME TypeOK, pc \in Mapped
    PROVE  /\ image.code[pc] \in Insn
           /\ pc \in Nat /\ Next_pc \in Nat /\ TargetOf \in Target
           /\ Open \in Block(Nat) /\ NoBlock \in Block(Nat) /\ NewBlock(pc) \in Block(Nat)
<1>1. image.code[pc] \in Insn
    BY DEF TypeOK, Image
<1>2. pc \in Nat
    BY MappedFinite
<1>3. Next_pc \in Nat /\ TargetOf \in Target
    BY <1>1, <1>2 DEF Insn, Next_pc, TargetOf
<1>4. NoBlock \in Block(Nat) /\ NewBlock(pc) \in Block(Nat)
    BY <1>2, NewBlockType DEF NoBlock
<1> QED BY <1>1, <1>2, <1>3, <1>4 DEF Open, TypeOK

LEMMA InitType == Init => TypeOK
<1> SUFFICES ASSUME Init PROVE TypeOK
    OBVIOUS
<1>1. image \in Image
    BY ImagesAssumption DEF Init
<1>2. functionWork \in Seq(Mapped)
    <2>1. CollectEntryPoints \subseteq Mapped
        BY DEF CollectEntryPoints, IsWithinMapping
    <2>2. IsFiniteSet(CollectEntryPoints)
        BY <2>1, MappedFinite, FS_Subset
    <2>3. functionWork \in Seq(CollectEntryPoints)
        BY <2>2, OrderedType DEF Init
    <2> QED BY <2>1, <2>3, SeqMonotonic
<1>3. cur \in FunctionUnit /\ bb \in Block(Nat)
    BY NewFunctionType, NewBlockType DEF Init, NoFunction, NoBlock
<1>4. functions \in Seq(FunctionUnit) /\ work \in Seq(Mapped) /\ toScan \in Seq(Section)
    BY EmptySeq DEF Init
<1> QED
    BY <1>1, <1>2, <1>3, <1>4, MaxReanalysesAssumption DEF Init, TypeOK, Loops, Places

LEMMA OuterLoopType ==
    ASSUME TypeOK,
           SkipCandidate \/ StartFunction \/ EndAnalysis \/ EndSweep
    PROVE  TypeOK'
<1> USE DEF TypeOK, Loops, Places, modelVars
<1>1. CASE SkipCandidate
    BY <1>1, PopElements DEF SkipCandidate
<1>2. CASE StartFunction
    <2>1. Head(functionWork) \in Mapped /\ Tail(functionWork) \in Seq(Mapped)
        BY <1>2, PopElements DEF StartFunction
    <2>2. NewFunction(Head(functionWork)) \in FunctionUnit
        BY <2>1, MappedFinite, NewFunctionType
    <2> QED BY <1>2, <2>1, <2>2 DEF StartFunction
<1>3. CASE EndAnalysis
    BY <1>3 DEF EndAnalysis
<1>4. CASE EndSweep
    BY <1>4 DEF EndSweep
<1> QED BY <1>1, <1>2, <1>3, <1>4

LEMMA ScanType ==
    ASSUME TypeOK,
           StartSweep \/ Sweep \/ SweepNextSection
    PROVE  TypeOK'
<1> USE DEF TypeOK, Loops, Places, modelVars
<1>1. ASSUME NEW secs \in Seq(Section), ScanFrom(secs)
      PROVE  /\ toScan' \in Seq(Section) /\ pc' \in Nat
             /\ toScan' # <<>> => pc' # 0
    <2>1. secs # <<>> => Head(secs) \in Section
        BY PopElements
    <2>2. secs # <<>> => Head(secs)[1] \in Nat \ {0}
        BY <2>1, MappedFinite DEF Section
    <2> QED BY <1>1, <2>2 DEF ScanFrom
<1>2. image.sections \in Seq(Section)
    BY DEF Image
<1>3. CASE StartSweep
    BY <1>1, <1>2, <1>3 DEF StartSweep
<1>4. CASE SweepNextSection
    <2>1. Tail(toScan) \in Seq(Section)
        BY <1>4, PopElements DEF SweepNextSection
    <2> QED BY <1>1, <1>4, <2>1 DEF SweepNextSection
<1>5. CASE Sweep
    <2>1. Head(toScan) \in Section
        BY <1>5, PopElements DEF Sweep
    <2>2. pc \in Mapped
        BY <1>5, <2>1, MappedSizeAssumption DEF Sweep, Section, Mapped
    <2>3. image.code[pc] \in Insn
        BY <2>2 DEF Image
    <2>4. pc' \in Nat /\ pc' # 0
        <3>1. pc \in Nat \ {0}
            BY <2>2, MappedFinite
        <3>2. image.code[pc].len \in Nat \ {0}
            BY <2>3 DEF Insn
        <3>3. pc' \in {pc + 1, pc + image.code[pc].len}
            BY <1>5 DEF Sweep
        <3> QED BY <3>1, <3>2, <3>3
    <2>5. functionWork' \in Seq(Mapped)
        BY <1>5, <2>2, PushElements DEF Sweep
    <2> QED BY <1>5, <2>4, <2>5 DEF Sweep
<1> QED BY <1>3, <1>4, <1>5

LEMMA WorkType ==
    ASSUME TypeOK,
           TakeAddress \/ NoMoreAddresses \/ RunIntoVisited \/ Undecodable
    PROVE  TypeOK'
<1> USE DEF TypeOK, Loops, Places, modelVars
<1>1. CASE TakeAddress
    <2>1. Head(work) \in Mapped /\ Tail(work) \in Seq(Mapped)
        BY <1>1, PopElements DEF TakeAddress
    <2> QED BY <1>1, <2>1, MappedFinite DEF TakeAddress
<1>2. CASE NoMoreAddresses
    BY <1>2 DEF NoMoreAddresses
<1>3. NoBlock \in Block(Nat)
    BY NewBlockType DEF NoBlock
<1>4. CASE RunIntoVisited
    <2>1. Append(cur.blocks, bb) \in Seq(Block(Nat))
        BY AppendProperties DEF FunctionUnit
    <2>2. [cur EXCEPT !.blocks = Append(@, bb)] \in FunctionUnit
        BY <2>1 DEF FunctionUnit
    <2> QED BY <1>3, <1>4, <2>2 DEF RunIntoVisited, Leave
<1>5. CASE Undecodable
    BY <1>3, <1>5, CloseBlockType DEF Undecodable, Leave
<1> QED BY <1>1, <1>2, <1>4, <1>5

\* The part of the decoding actions that every one of them shares.
LEMMA VisitType ==
    ASSUME TypeOK, NEW kinds, Visit(kinds)
    PROVE  /\ pc \in Mapped /\ visited' \subseteq Mapped
           /\ image.code[pc] \in Insn /\ Next_pc \in Nat /\ TargetOf \in Target
           /\ Open \in Block(Nat) /\ NoBlock \in Block(Nat)
           /\ cur \in FunctionUnit
BY DecodeType DEF Visit, TypeOK

LEMMA CallType ==
    ASSUME TypeOK, PlainInsn \/ DirectCall \/ MemoryCall \/ IndirectCall
    PROVE  TypeOK'
<1> USE DEF TypeOK, Loops, Places, Continue
<1>1. CASE PlainInsn
    BY <1>1, VisitType DEF PlainInsn, Visit
<1>2. ASSUME NEW kinds, Visit(kinds), NEW t \in Target
      PROVE  /\ AddCallSite(cur, pc, t) \in FunctionUnit
             /\ xrefs \cup {<<pc, t, "call">>} \subseteq Mapped \X Nat \X {"call", "jump"}
    BY <1>2, VisitType, AddCallSiteType, MappedSizeAssumption DEF Target
<1>3. CASE DirectCall
    <2>1. functionWork' \in Seq(Mapped)
        BY <1>3, PushElements DEF DirectCall, IsWithinMapping
    <2> QED BY <1>2, <1>3, <2>1, VisitType DEF DirectCall, Visit
<1>4. CASE MemoryCall
    BY <1>2, <1>4, VisitType DEF MemoryCall, Visit
<1>5. CASE IndirectCall
    <2>1. 0 \in Target
        BY MappedSizeAssumption DEF Target
    <2>2. [AddCallSite(cur, pc, 0) EXCEPT !.indirect = TRUE] \in FunctionUnit
        BY <1>2, <1>5, <2>1 DEF IndirectCall, FunctionUnit
    <2> QED BY <1>2, <1>5, <2>1, <2>2, VisitType DEF IndirectCall, Visit
<1> QED BY <1>1, <1>3, <1>4, <1>5

LEMMA BranchType ==
    ASSUME TypeOK, Trampoline \/ ConditionalBranch \/ Jump \/ IndirectJump \/ Return
    PROVE  TypeOK'
<1> USE DEF TypeOK, Loops, Places, Continue, Leave
<1>1. Target \subseteq Nat /\ 0 \in Target
    BY MappedSizeAssumption DEF Target
<1>2. CASE Trampoline
    <2>1. AddCallSite(cur, pc, TargetOf) \in FunctionUnit
        BY <1>2, VisitType, AddCallSiteType DEF Trampoline
    <2>2. [cur EXCEPT !.indirect = TRUE] \in FunctionUnit
        BY DEF FunctionUnit
    <2>3. ASSUME NEW f \in FunctionUnit
          PROVE  [CloseBlock(f, Open, Next_pc) EXCEPT !.trampoline = TRUE] \in FunctionUnit
        <3>1. CloseBlock(f, Open, Next_pc) \in FunctionUnit
            BY <1>2, VisitType, CloseBlockType DEF Trampoline
        <3> QED BY <3>1 DEF FunctionUnit
    <2>4. cur' \in FunctionUnit
        BY <1>2, <2>1, <2>2, <2>3 DEF Trampoline
    <2> QED BY <1>2, <2>4, VisitType DEF Trampoline, Visit
<1>3. ASSUME NEW kinds, Visit(kinds), NEW f \in FunctionUnit, NEW s \in Seq(Nat)
      PROVE  CloseBlock(f, [Open EXCEPT !.succs = s], Next_pc) \in FunctionUnit
    <2>1. [Open EXCEPT !.succs = s] \in Block(Nat)
        BY <1>3, VisitType DEF Block
    <2> QED BY <1>3, <2>1, VisitType, CloseBlockType
<1>4. CASE ConditionalBranch
    <2> DEFINE succs == (IF Followed THEN <<TargetOf>> ELSE <<>>) \o <<Next_pc>>
    <2>1. Next_pc \in Nat /\ TargetOf \in Nat
        BY <1>1, <1>4, VisitType DEF ConditionalBranch
    <2>2. succs \in Seq(Nat)
        BY <2>1
    <2>3. cur' \in FunctionUnit
        BY <1>3, <1>4, <2>2 DEF ConditionalBranch
    <2>4. work' \in Seq(Mapped)
        BY <1>4, PushElements DEF ConditionalBranch, Followed, IsWithinMapping
    <2>5. xrefs' \subseteq Mapped \X Nat \X {"call", "jump"}
        BY <1>4, <2>1, VisitType DEF ConditionalBranch
    <2> QED BY <1>4, <2>3, <2>4, <2>5, VisitType DEF ConditionalBranch, Visit
<1>5. CASE Jump
    <2>1. Next_pc \in Nat /\ TargetOf \in Nat
        BY <1>1, <1>5, VisitType DEF Jump
    <2>2. (IF Followed THEN <<TargetOf>> ELSE <<>>) \in Seq(Nat)
        BY <2>1
    <2>3. AddCallSite(cur, pc, TargetOf) \in FunctionUnit
        BY <1>5, VisitType, AddCallSiteType DEF Jump
    <2>4. cur' \in FunctionUnit
        BY <1>3, <1>5, <2>2, <2>3 DEF Jump
    <2>5. Followed => Append(work, TargetOf) \in Seq(Mapped)
                      /\ Append(functionWork, TargetOf) \in Seq(Mapped)
        BY PushElements DEF Followed, IsWithinMapping
    <2>6. work' \in Seq(Mapped) /\ functionWork' \in Seq(Mapped)
        BY <1>5, <2>5 DEF Jump
    <2>7. xrefs' \subseteq Mapped \X Nat \X {"call", "jump"}
        BY <1>5, <2>1, VisitType DEF Jump
    <2> QED BY <1>5, <2>4, <2>6, <2>7, VisitType DEF Jump, Visit
<1>6. CASE IndirectJump
    <2>1. AddCallSite(cur, pc, 0) \in FunctionUnit
        BY <1>1, <1>6, VisitType, AddCallSiteType DEF IndirectJump
    <2>2. [AddCallSite(cur, pc, 0) EXCEPT !.indirect = TRUE] \in FunctionUnit
        BY <2>1 DEF FunctionUnit
    <2>3. cur' \in FunctionUnit
        BY <1>6, <2>2, VisitType, CloseBlockType DEF IndirectJump
    <2>4. xrefs' \subseteq Mapped \X Nat \X {"call", "jump"}
        BY <1>6, VisitType DEF IndirectJump
    <2> QED BY <1>6, <2>3, <2>4, VisitType DEF IndirectJump, Visit
<1>7. CASE Return
    <2>1. cur' \in FunctionUnit
        BY <1>7, VisitType, CloseBlockType DEF Return
    <2> QED BY <1>7, <2>1, VisitType DEF Return, Visit
<1> QED BY <1>2, <1>4, <1>5, <1>6, <1>7


\* The callees of a finished function, in the order of its call sites.
LEMMA CalleesType ==
    ASSUME TypeOK, NEW callees \in Ordered(NewCallees, CallSiteLess)
    PROVE  [i \in 1..Len(callees) |-> callees[i][2]] \in Seq(Mapped)
<1>1. NewCallees \subseteq Mapped \X Mapped
    BY DEF NewCallees, IsWithinMapping, TypeOK, FunctionUnit
<1>2. IsFiniteSet(Mapped \X Mapped)
    BY MappedFinite, FS_Product
<1>3. IsFiniteSet(NewCallees)
    BY <1>1, <1>2, FS_Subset
<1>4. callees \in Seq(NewCallees)
    BY <1>3, OrderedType
<1>5. Len(callees) \in Nat /\ \A i \in 1..Len(callees) : callees[i][2] \in Mapped
    BY <1>1, <1>4, ElementOfSeq
<1> QED BY <1>5, IsASeq

LEMMA NormalizeType ==
    ASSUME TypeOK, SplitNext \/ FinishFunction
    PROVE  TypeOK'
<1> USE DEF TypeOK, Loops, Places, modelVars
<1>1. CASE SplitNext
    <2>1. PICK a \in Entries(cur.blocks) :
            /\ IsNextSplit(cur.blocks, a)
            /\ cur' = [cur EXCEPT !.blocks = SplitBlock(@, BlockAt(@, a), a)]
        BY <1>1 DEF SplitNext
    <2>2. cur.blocks \in Seq(Block(Nat))
        BY DEF FunctionUnit
    <2>3. BlockAt(cur.blocks, a) \in 1..Len(cur.blocks)
        <3>1. BlockAt(cur.blocks, a) # 0
            BY <2>1 DEF IsNextSplit, NeedsSplit
        <3>2. BlockAt(cur.blocks, a) \in 0..Len(cur.blocks)
            BY <2>2, BlockAtFinds
        <3> QED BY <2>2, <3>1, <3>2
    <2>4. a \in Nat
        BY <2>2, EntriesType
    <2>5. cur' \in FunctionUnit
        BY <2>1, <2>2, <2>3, <2>4, SplitBlockType DEF FunctionUnit
    <2> QED BY <1>1, <2>5 DEF SplitNext
<1>2. CASE FinishFunction
    <2>1. [cur EXCEPT !.blocks = WithPredecessors(@),
                      !.hybrid = loop = "explore" /\ cur.indirect] \in FunctionUnit
        BY WithPredecessorsType DEF FunctionUnit
    <2>2. functions' \in Seq(FunctionUnit)
        BY <1>2, <2>1, PushElements DEF FinishFunction
    <2>3. functionWork' \in Seq(Mapped)
        BY <1>2, CalleesType, ConcatProperties DEF FinishFunction
    <2>4. cur' \in FunctionUnit
        BY <1>2, NewFunctionType DEF FinishFunction, NoFunction
    <2> QED BY <1>2, <2>2, <2>3, <2>4 DEF FinishFunction
<1> QED BY <1>1, <1>2

LEMMA ReAnalyzeType ==
    ASSUME TypeOK, NEW a \in Mapped, ReAnalyzeFrom(a)
    PROVE  TypeOK'
<1>1. <<a>> \in Seq(Mapped)
    OBVIOUS
<1> QED BY <1>1, MaxReanalysesAssumption DEF ReAnalyzeFrom, TypeOK, Loops, Places, modelVars

LEMMA StepType == TypeOK /\ [Next]_vars => TypeOK'
<1> SUFFICES ASSUME TypeOK, [Next]_vars PROVE TypeOK'
    OBVIOUS
<1>1. CASE UNCHANGED vars
    BY <1>1 DEF TypeOK, vars
<1>2. CASE Step
    BY <1>2, OuterLoopType, ScanType, WorkType, CallType, BranchType, NormalizeType
       DEF Step, DecodeInsn
<1>3. CASE \E a \in Mapped : ReAnalyzeFrom(a)
    BY <1>3, ReAnalyzeType
<1> QED BY <1>1, <1>2, <1>3 DEF Next

\* Whatever the image, the pass keeps its work lists, its functions and its
\* cross references well typed: in particular it never queues an address
\* outside the mapping, and the sweep never reads outside it.
THEOREM TypeCorrect == Spec => []TypeOK
BY InitType, StepType, PTL DEF Spec

-----------------------------------------------------------------------------
(* Recursive descent is closed. *)

\* A step keeps the second part of the invariant when what was pending still
\* is, or is settled, and so are the successors of what it visits.
LEMMA KeepsClosed ==
    ASSUME FlowInductive, UNCHANGED image, visited \subseteq visited',
           \A s : Pending(s) => Settled(s)' \/ Pending(s)',
           \A a \in visited' \ visited : \A s \in FlowSuccessors(a) : Settled(s)' \/ Pending(s)'
    PROVE  \A a \in visited' : \A s \in FlowSuccessors(a)' : Settled(s)' \/ Pending(s)'
<1>1. \A a : FlowSuccessors(a)' = FlowSuccessors(a)
    BY DEF FlowSuccessors, IsExecutableAddress
<1>2. \A s : Settled(s) => Settled(s)'
    BY DEF Settled
<1> QED BY <1>1, <1>2 DEF FlowInductive

\* Outside AnalyzeFunction's loop nothing is pending.
LEMMA OutsideLoop ==
    ASSUME TypeOK, FlowInductive, UNCHANGED <<image, visited>>,
           BetweenFunctions, at' # "decode", work' = work \/ ~ BetweenFunctions',
           BetweenFunctions' => work' = work
    PROVE  FlowInductive'
<1>1. work = <<>> /\ \A s : ~ Pending(s)
    BY DEF FlowInductive, BetweenFunctions, Pending, ToSet
<1>2. \A a \in visited' : \A s \in FlowSuccessors(a)' : Settled(s)' \/ Pending(s)'
    BY <1>1, KeepsClosed
<1> QED BY <1>1, <1>2 DEF FlowInductive

LEMMA WorkLoopFlow ==
    ASSUME TypeOK, FlowInductive,
           TakeAddress \/ NoMoreAddresses \/ RunIntoVisited \/ Undecodable
    PROVE  FlowInductive'
<1> USE DEF Pending, BetweenFunctions, modelVars
<1>1. work \in Seq(Mapped)
    BY DEF TypeOK
<1>2. CASE TakeAddress
    <2>1. ToSet(work) = {Head(work)} \cup ToSet(work')
        BY <1>1, <1>2, PopElements DEF TakeAddress
    <2>2. \A s : Pending(s) => Settled(s)' \/ Pending(s)'
        BY <1>2, <2>1 DEF TakeAddress, Settled
    <2> QED BY <1>2, <2>2, KeepsClosed DEF TakeAddress, FlowInductive
<1>3. CASE NoMoreAddresses
    <2>1. \A s : ~ Pending(s)
        BY <1>3 DEF NoMoreAddresses, ToSet
    <2> QED BY <1>3, <2>1, KeepsClosed DEF NoMoreAddresses, FlowInductive
<1>4. CASE RunIntoVisited
    <2>1. \A s : Pending(s) => Settled(s)' \/ Pending(s)'
        BY <1>4 DEF RunIntoVisited, Leave, Settled
    <2> QED BY <1>4, <2>1, KeepsClosed DEF RunIntoVisited, Leave, FlowInductive
<1>5. CASE Undecodable
    <2>1. \A s : Pending(s) => Settled(s)' \/ Pending(s)'
        BY <1>5 DEF Undecodable, Leave, Settled
    <2> QED BY <1>5, <2>1, KeepsClosed DEF Undecodable, Leave, FlowInductive
<1> QED BY <1>2, <1>3, <1>4, <1>5

\* Decoding an instruction: it is no longer pending, and its successors are
\* the next instruction and what has been pushed.
LEMMA DecodeFlow ==
    ASSUME TypeOK, FlowInductive, DecodeInsn
    PROVE  FlowInductive'
<1>1. /\ at = "decode" /\ UNCHANGED image
      /\ visited' = visited \cup {pc}
      /\ at' \in {"work", "decode"}
    BY DEF DecodeInsn, PlainInsn, Trampoline, DirectCall, MemoryCall, IndirectCall,
           ConditionalBranch, Jump, IndirectJump, Return, Visit, Continue, Leave
<1>2. ToSet(work) \subseteq ToSet(work')
    <2>1. work' = work \/ \E t \in Mapped : work' = Append(work, t)
        BY DEF DecodeInsn, PlainInsn, Trampoline, DirectCall, MemoryCall, IndirectCall,
               ConditionalBranch, Jump, IndirectJump, Return, Followed, IsWithinMapping
    <2>2. work \in Seq(Mapped)
        BY DEF TypeOK
    <2>3. ASSUME NEW t \in Mapped, work' = Append(work, t)
          PROVE  ToSet(work) \subseteq ToSet(work')
        <3>1. ToSet(Append(work, t)) = ToSet(work) \cup {t}
            BY <2>2, PushElements
        <3> QED BY <2>3, <3>1
    <2> QED BY <2>1, <2>3
<1>3. \A s : Pending(s) => Settled(s)' \/ Pending(s)'
    BY <1>1, <1>2 DEF Pending, Settled
<1>4. ASSUME NEW s \in FlowSuccessors(pc) PROVE Settled(s)' \/ Pending(s)'
    <2>1. CASE PlainInsn \/ DirectCall \/ MemoryCall \/ IndirectCall
        BY <1>4, <2>1 DEF PlainInsn, DirectCall, MemoryCall, IndirectCall, Visit, Continue,
                          Next_pc, FlowSuccessors, Pending
    <2>2. CASE Trampoline \/ Jump \/ IndirectJump \/ Return
        BY <1>4, <2>2 DEF Trampoline, Jump, IndirectJump, Return, Visit, FlowSuccessors
    <2>3. CASE ConditionalBranch
        <3>1. CASE s = Next_pc
            BY <2>3, <3>1 DEF ConditionalBranch, Visit, Continue, Pending
        <3>2. CASE s # Next_pc
            <4>1. s = TargetOf /\ Followed
                BY <1>4, <3>2 DEF FlowSuccessors, Next_pc, TargetOf, Followed
            <4>2. CASE s \in visited'
                BY <4>2 DEF Settled
            <4>3. CASE s \notin visited'
                <5>1. work' = Append(work, s) /\ s \in Mapped
                    BY <2>3, <4>1, <4>3 DEF ConditionalBranch, Followed, IsWithinMapping
                <5>2. s \in ToSet(work')
                    BY <5>1, PushElements DEF TypeOK
                <5> QED BY <5>2 DEF Pending
            <4> QED BY <4>2, <4>3
        <3> QED BY <3>1, <3>2
    <2> QED BY <2>1, <2>2, <2>3 DEF DecodeInsn
<1>5. \A a \in visited' \ visited : \A s \in FlowSuccessors(a) : Settled(s)' \/ Pending(s)'
    BY <1>1, <1>4
<1>6. \A a \in visited' : \A s \in FlowSuccessors(a)' : Settled(s)' \/ Pending(s)'
    BY <1>1, <1>3, <1>5, KeepsClosed
<1> QED BY <1>1, <1>6 DEF FlowInductive, BetweenFunctions

LEMMA StepFlow == TypeOK /\ FlowInductive /\ [Next]_vars => FlowInductive'
<1> SUFFICES ASSUME TypeOK, FlowInductive, [Next]_vars PROVE FlowInductive'
    OBVIOUS
<1>1. CASE UNCHANGED vars
    BY <1>1 DEF FlowInductive, BetweenFunctions, FlowSuccessors, IsExecutableAddress,
                Settled, Pending, vars
<1>2. CASE TakeAddress \/ NoMoreAddresses \/ RunIntoVisited \/ Undecodable
    BY <1>2, WorkLoopFlow
<1>3. CASE DecodeInsn
    BY <1>3, DecodeFlow
<1>4. CASE SkipCandidate \/ StartFunction
    BY <1>4, OutsideLoop DEF SkipCandidate, StartFunction, BetweenFunctions, modelVars
<1>5. CASE SplitNext \/ FinishFunction
    BY <1>5, OutsideLoop DEF SplitNext, FinishFunction, BetweenFunctions, modelVars
<1>6. CASE StartSweep \/ Sweep \/ SweepNextSection \/ EndSweep \/ EndAnalysis
    BY <1>6, OutsideLoop
       DEF StartSweep, Sweep, SweepNextSection, EndSweep, EndAnalysis, BetweenFunctions, modelVars
<1>7. CASE \E a \in Mapped : ReAnalyzeFrom(a)
    BY <1>7, OutsideLoop DEF ReAnalyzeFrom, BetweenFunctions, modelVars
<1> QED BY <1>1, <1>2, <1>3, <1>4, <1>5, <1>6, <1>7 DEF Next, Step

LEMMA FlowInitially == Init => FlowInductive
BY DEF Init, FlowInductive

\* The invariant that carries the argument holds in every state.
THEOREM FlowInductiveHolds == Spec => []FlowInductive
BY FlowInitially, InitType, StepType, StepFlow, PTL DEF Spec

\* Recursive descent misses no code, for every image and every number of
\* re-analyses: whenever no function is being decoded, everything a decoded
\* instruction falls or branches to is decoded, unmapped or undecodable.
THEOREM RecursiveDescentIsClosed == Spec => []FlowClosed
<1>1. FlowInductive => FlowClosed
    BY DEF FlowInductive, FlowClosed, BetweenFunctions, Pending, ToSet
<1> QED BY <1>1, FlowInductiveHolds, PTL

-----------------------------------------------------------------------------
(* Call sites and cross references. *)

IsCall(a) == image.code[a].kind \in {"call", "ripcall", "icall"}

\* The call sites of all functions, the one under analysis included, and the
\* references of type "call".
ModuleSites == UNION {f.callSites : f \in ToSet(functions)}
AllSites == ModuleSites \cup cur.callSites
CallRefs == {<<x[1], x[2]>> : x \in {y \in xrefs : y[3] = "call"}}

\* A call site is at a decoded instruction, and between functions none is open.
SitesVisited ==
    /\ at \notin {"work", "decode", "normalize"} => cur.callSites = {}
    /\ \A c \in AllSites : c[1] \in visited

\* What a step may do to both records: nothing, when it decodes nothing or an
\* instruction that is no call; or add one call site, at the instruction it decodes,
\* and the reference if that is a call.
NoSite ==
    /\ AllSites' = AllSites /\ CallRefs' = CallRefs
    /\ \/ visited' = visited
       \/ pc \in Mapped \ visited /\ visited' = visited \cup {pc} /\ ~IsCall(pc)
NewSite(t) ==
    /\ pc \in Mapped \ visited /\ visited' = visited \cup {pc}
    /\ AllSites' = AllSites \cup {<<pc, t>>}
    /\ CallRefs' = IF IsCall(pc) THEN CallRefs \cup {<<pc, t>>} ELSE CallRefs

LEMMA AddedSite ==
    ASSUME TypeOK, SitesVisited, pc \in Mapped \ visited, NEW t
    PROVE  AddCallSite(cur, pc, t).callSites = cur.callSites \cup {<<pc, t>>}
<1>1. <<pc, 0>> \in cur.callSites => <<pc, 0>>[1] \in visited
    BY DEF SitesVisited, AllSites
<1> QED BY <1>1 DEF AddCallSite, TypeOK, FunctionUnit

LEMMA ClosedSites ==
    ASSUME NEW f \in FunctionUnit, NEW b, NEW a
    PROVE  CloseBlock(f, b, a).callSites = f.callSites
BY DEF CloseBlock, FunctionUnit

LEMMA SameModuleSites == functions' = functions => ModuleSites' = ModuleSites
BY DEF ModuleSites

\* The part of a decoding step that every one of them shares.
LEMMA DecodeShared ==
    ASSUME TypeOK, DecodeInsn
    PROVE  /\ pc \in Mapped \ visited /\ visited' = visited \cup {pc}
           /\ TargetOf \in Target /\ 0 \in Target /\ cur \in FunctionUnit
           /\ Open \in Block(Nat) /\ Next_pc \in Nat
           /\ functions' = functions /\ at = "decode" /\ at' \in {"work", "decode"}
<1>1. pc \in Mapped \ visited /\ visited' = visited \cup {pc} /\ at = "decode"
    BY DEF DecodeInsn, PlainInsn, Trampoline, DirectCall, MemoryCall, IndirectCall,
           ConditionalBranch, Jump, IndirectJump, Return, Visit
<1>2. TargetOf \in Target /\ 0 \in Target /\ cur \in FunctionUnit /\ Open \in Block(Nat) /\ Next_pc \in Nat
    BY <1>1, DecodeType, MappedSizeAssumption DEF TypeOK, Target
<1>3. functions' = functions /\ at' \in {"work", "decode"}
    BY <1>1 DEF DecodeInsn, PlainInsn, Trampoline, DirectCall, MemoryCall, IndirectCall,
           ConditionalBranch, Jump, IndirectJump, Return, Continue, Leave
<1> QED BY <1>1, <1>2, <1>3

LEMMA CallSitesStep ==
    ASSUME TypeOK, SitesVisited, DirectCall \/ MemoryCall \/ IndirectCall
    PROVE  /\ \E t \in Target : NewSite(t)
           /\ SitesVisited' /\ cur.callSites \subseteq cur'.callSites
<1>1. /\ pc \in Mapped \ visited /\ visited' = visited \cup {pc} /\ TargetOf \in Target /\ 0 \in Target
      /\ functions' = functions /\ at' \in {"work", "decode"} /\ cur \in FunctionUnit
    BY DecodeShared DEF DecodeInsn
<1>2. IsCall(pc)
    BY DEF DirectCall, MemoryCall, IndirectCall, Visit, IsCall
<1>3. PICK t \in Target : /\ cur'.callSites = AddCallSite(cur, pc, t).callSites
                          /\ xrefs' = xrefs \cup {<<pc, t, "call">>}
    <2>1. CASE IndirectCall
        <3>1. AddCallSite(cur, pc, 0) \in FunctionUnit
            BY <1>1, AddCallSiteType
        <3>2. cur'.callSites = AddCallSite(cur, pc, 0).callSites
            BY <2>1, <3>1 DEF IndirectCall, FunctionUnit
        <3> QED BY <1>1, <2>1, <3>2 DEF IndirectCall
    <2>2. CASE DirectCall \/ MemoryCall
        BY <1>1, <2>2 DEF DirectCall, MemoryCall
    <2> QED BY <2>1, <2>2
<1>4. cur'.callSites = cur.callSites \cup {<<pc, t>>}
    BY <1>1, <1>3, AddedSite
<1>5. AllSites' = AllSites \cup {<<pc, t>>}
    BY <1>1, <1>4, SameModuleSites DEF AllSites
<1>6. CallRefs' = CallRefs \cup {<<pc, t>>}
    <2>1. {y \in xrefs' : y[3] = "call"} = {y \in xrefs : y[3] = "call"} \cup {<<pc, t, "call">>}
        BY <1>3
    <2>2. ASSUME NEW r \in CallRefs' PROVE r \in CallRefs \cup {<<pc, t>>}
        <3>1. PICK y \in {y \in xrefs' : y[3] = "call"} : r = <<y[1], y[2]>>
            BY <2>2 DEF CallRefs
        <3>2. CASE y \in {z \in xrefs : z[3] = "call"}
            BY <3>1, <3>2 DEF CallRefs
        <3>3. CASE y = <<pc, t, "call">>
            BY <3>1, <3>3
        <3> QED BY <2>1, <3>1, <3>2, <3>3
    <2>3. CallRefs \subseteq CallRefs'
        BY <2>1 DEF CallRefs
    <2>4. <<pc, t>> \in CallRefs'
        <3> DEFINE y == <<pc, t, "call">>
        <3>1. y \in {z \in xrefs' : z[3] = "call"} /\ <<pc, t>> = <<y[1], y[2]>>
            BY <2>1
        <3> QED BY <3>1 DEF CallRefs
    <2> QED BY <2>2, <2>3, <2>4
<1>7. NewSite(t)
    BY <1>1, <1>2, <1>5, <1>6 DEF NewSite
<1>8. SitesVisited'
    BY <1>1, <1>5 DEF SitesVisited
<1> QED BY <1>3, <1>4, <1>7, <1>8

LEMMA BranchSitesStep ==
    ASSUME TypeOK, SitesVisited,
           PlainInsn \/ Trampoline \/ ConditionalBranch \/ Jump \/ IndirectJump \/ Return
    PROVE  /\ NoSite \/ \E t \in Target : NewSite(t)
           /\ SitesVisited' /\ cur.callSites \subseteq cur'.callSites
<1>1. /\ pc \in Mapped \ visited /\ visited' = visited \cup {pc} /\ TargetOf \in Target /\ 0 \in Target
      /\ functions' = functions /\ at' \in {"work", "decode"}
      /\ cur \in FunctionUnit /\ Open \in Block(Nat) /\ Next_pc \in Nat
    BY DecodeShared DEF DecodeInsn
<1>2. ~IsCall(pc)
    BY DEF PlainInsn, Trampoline, ConditionalBranch, Jump, IndirectJump, Return, Visit, IsCall
<1>3. CallRefs' = CallRefs
    <2>1. {y \in xrefs' : y[3] = "call"} = {y \in xrefs : y[3] = "call"}
        BY DEF PlainInsn, Trampoline, ConditionalBranch, Jump, IndirectJump, Return
    <2> QED BY <2>1 DEF CallRefs
<1>4. \A t \in Target : AddCallSite(cur, pc, t) \in FunctionUnit
    BY <1>1, AddCallSiteType
<1>5. cur'.callSites = cur.callSites \/ \E t \in Target : cur'.callSites = AddCallSite(cur, pc, t).callSites
    <2>1. CASE PlainInsn
        BY <2>1 DEF PlainInsn
    <2>2. CASE ConditionalBranch \/ Return
        BY <1>1, <2>2, ClosedSites DEF ConditionalBranch, Return
    <2>3. CASE Jump
        BY <1>1, <1>4, <2>3, ClosedSites DEF Jump
    <2>4. CASE IndirectJump
        <3> DEFINE f == [AddCallSite(cur, pc, 0) EXCEPT !.indirect = TRUE]
        <3>1. f \in FunctionUnit /\ f.callSites = AddCallSite(cur, pc, 0).callSites
            BY <1>1, <1>4 DEF FunctionUnit
        <3>2. cur' = CloseBlock(f, Open, Next_pc)
            BY <2>4 DEF IndirectJump
        <3> HIDE DEF f
        <3> QED BY <1>1, <3>1, <3>2, ClosedSites
    <2>5. CASE Trampoline
        <3>1. ASSUME NEW f \in FunctionUnit
              PROVE  [CloseBlock(f, Open, Next_pc) EXCEPT !.trampoline = TRUE].callSites = f.callSites
            <4>1. CloseBlock(f, Open, Next_pc) \in FunctionUnit
                BY <1>1, CloseBlockType
            <4>2. CloseBlock(f, Open, Next_pc).callSites = f.callSites
                BY ClosedSites
            <4> QED BY <4>1, <4>2 DEF FunctionUnit
        <3>2. [cur EXCEPT !.indirect = TRUE] \in FunctionUnit
              /\ [cur EXCEPT !.indirect = TRUE].callSites = cur.callSites
            BY <1>1 DEF FunctionUnit
        <3> QED BY <1>1, <1>4, <2>5, <3>1, <3>2 DEF Trampoline
    <2> QED BY <2>1, <2>2, <2>3, <2>4, <2>5
<1>6. CASE cur'.callSites = cur.callSites
    <2>1. AllSites' = AllSites
        BY <1>1, <1>6, SameModuleSites DEF AllSites
    <2>2. NoSite
        BY <1>1, <1>2, <1>3, <2>1 DEF NoSite
    <2> QED BY <1>1, <1>6, <2>1, <2>2 DEF SitesVisited
<1>7. CASE \E t \in Target : cur'.callSites = AddCallSite(cur, pc, t).callSites
    <2>1. PICK t \in Target : cur'.callSites = cur.callSites \cup {<<pc, t>>}
        BY <1>1, <1>7, AddedSite
    <2>2. AllSites' = AllSites \cup {<<pc, t>>}
        BY <1>1, <2>1, SameModuleSites DEF AllSites
    <2>3. NewSite(t)
        BY <1>1, <1>2, <1>3, <2>2 DEF NewSite
    <2> QED BY <1>1, <2>1, <2>2, <2>3 DEF SitesVisited
<1> QED BY <1>5, <1>6, <1>7

LEMMA OtherSitesStep ==
    ASSUME TypeOK, SitesVisited, [Next]_vars, ~DecodeInsn
    PROVE  NoSite /\ SitesVisited'
<1>1. UNCHANGED <<visited, xrefs>>
    BY DEF Next, Step, vars, modelVars, SkipCandidate, StartFunction, TakeAddress, NoMoreAddresses,
           RunIntoVisited, Undecodable, SplitNext, FinishFunction, StartSweep, Sweep,
           SweepNextSection, EndSweep, EndAnalysis, ReAnalyzeFrom
<1>2. CallRefs' = CallRefs
    BY <1>1 DEF CallRefs
<1>3. AllSites' = AllSites /\ (at' \notin {"work", "decode", "normalize"} => cur'.callSites = {})
    <2>1. CASE StartFunction
        BY <2>1, SameModuleSites DEF StartFunction, modelVars, AllSites, SitesVisited, NewFunction
    <2>2. CASE RunIntoVisited \/ Undecodable \/ SplitNext
        <3>1. functions' = functions /\ at \in {"decode", "normalize"} /\ at' \in {"work", "normalize"}
            BY <2>2 DEF RunIntoVisited, Undecodable, SplitNext, Leave, modelVars
        <3>2. cur \in FunctionUnit
            BY DEF TypeOK
        <3>3. \A q : [cur EXCEPT !.blocks = q].callSites = cur.callSites
            BY <3>2 DEF FunctionUnit
        <3>4. cur'.callSites = cur.callSites
            <4>1. CASE RunIntoVisited
                BY <3>3, <4>1 DEF RunIntoVisited
            <4>2. CASE Undecodable
                BY <3>2, <4>2, ClosedSites DEF Undecodable
            <4>3. CASE SplitNext
                BY <3>3, <4>3 DEF SplitNext
            <4> QED BY <2>2, <4>1, <4>2, <4>3
        <3> QED BY <3>1, <3>4, SameModuleSites DEF AllSites
    <2>3. CASE FinishFunction
        <3> DEFINE f == [cur EXCEPT !.blocks = WithPredecessors(@),
                                    !.hybrid = loop = "explore" /\ cur.indirect]
        <3>1. f.callSites = cur.callSites /\ f \in FunctionUnit
            BY WithPredecessorsType DEF TypeOK, FunctionUnit
        <3>2. functions' = Append(functions, f)
            BY <2>3 DEF FinishFunction
        <3> HIDE DEF f
        <3>3. ToSet(functions') = ToSet(functions) \cup {f}
            BY <3>1, <3>2, PushElements DEF TypeOK
        <3>4. cur'.callSites = {}
            BY <2>3 DEF FinishFunction, NoFunction, NewFunction
        <3> QED BY <3>1, <3>3, <3>4 DEF AllSites, ModuleSites
    <2>4. CASE UNCHANGED <<functions, cur>>
              /\ (at' \notin {"work", "decode", "normalize"} => at \notin {"work", "decode", "normalize"})
        BY <2>4, SameModuleSites DEF AllSites, SitesVisited
    <2> QED
        BY <2>1, <2>2, <2>3, <2>4
        DEF Next, Step, vars, modelVars, SkipCandidate, TakeAddress, NoMoreAddresses,
           StartSweep, Sweep, SweepNextSection, EndSweep, EndAnalysis, ReAnalyzeFrom
<1>4. NoSite
    BY <1>1, <1>2, <1>3 DEF NoSite
<1>5. SitesVisited'
    BY <1>1, <1>3 DEF SitesVisited
<1> QED BY <1>4, <1>5

LEMMA SitesStep ==
    ASSUME TypeOK, SitesVisited, [Next]_vars
    PROVE  /\ NoSite \/ \E t \in Target : NewSite(t)
           /\ SitesVisited' /\ image' = image
<1>1. image' = image
    BY DEF Next, Step, vars, SkipCandidate, StartFunction, TakeAddress, NoMoreAddresses,
           RunIntoVisited, Undecodable, DecodeInsn, PlainInsn, Trampoline, DirectCall, MemoryCall,
           IndirectCall, ConditionalBranch, Jump, IndirectJump, Return, SplitNext, FinishFunction,
           StartSweep, Sweep, SweepNextSection, EndSweep, EndAnalysis, ReAnalyzeFrom
<1> QED BY <1>1, CallSitesStep, BranchSitesStep, OtherSitesStep DEF DecodeInsn

LEMMA NoSites == Init => AllSites = {} /\ CallRefs = {}
<1> SUFFICES ASSUME Init PROVE AllSites = {} /\ CallRefs = {}
    OBVIOUS
<1>1. functions = <<>> /\ xrefs = {} /\ cur.callSites = {}
    BY DEF Init, NoFunction, NewFunction
<1>2. ToSet(functions) = {}
    BY <1>1 DEF ToSet
<1> QED BY <1>1, <1>2 DEF AllSites, ModuleSites, CallRefs

\* In every state the references of type "call" are the call sites at calls.
CallsInv ==
    /\ SitesVisited
    /\ CallRefs = {c \in AllSites : IsCall(c[1])}

LEMMA CallsStep == TypeOK /\ CallsInv /\ [Next]_vars => CallsInv'
<1> SUFFICES ASSUME TypeOK, CallsInv, [Next]_vars PROVE CallsInv'
    OBVIOUS
<1>1. SitesVisited' /\ image' = image
    BY SitesStep DEF CallsInv
<1>2. \A a : IsCall(a)' = IsCall(a)
    BY <1>1 DEF IsCall
<1>3. CASE NoSite
    BY <1>1, <1>2, <1>3 DEF NoSite, CallsInv
<1>4. CASE \E t \in Target : NewSite(t)
    BY <1>1, <1>2, <1>4 DEF NewSite, CallsInv
<1> QED BY <1>3, <1>4, SitesStep DEF CallsInv

\* Call sites and cross references agree, for every image and every number of
\* re-analyses: between functions the references of type "call" are exactly the
\* call sites at call instructions (the AddCallSite and AddXref of the three kinds
\* of call in AnalyzeFunction).
THEOREM XrefsMatch == Spec => []XrefsMatchCallSites
<1>1. Init => CallsInv
  <2> SUFFICES ASSUME Init PROVE CallsInv
    OBVIOUS
  <2>1. AllSites = {} /\ CallRefs = {}
    BY NoSites
  <2> QED BY <2>1 DEF Init, CallsInv, SitesVisited, NoFunction, NewFunction
<1>2. CallsInv => XrefsMatchCallSites
  <2> SUFFICES ASSUME CallsInv, at = "pop"
               PROVE  CallRefs = UNION {{c \in f.callSites : IsCall(c[1])} : f \in ToSet(functions)}
    BY DEF XrefsMatchCallSites, CallRefs, IsCall
  <2> QED BY DEF CallsInv, SitesVisited, AllSites, ModuleSites
<1> QED BY <1>1, <1>2, InitType, StepType, CallsStep, PTL DEF Spec

-----------------------------------------------------------------------------
(* The targets of calls and jumps. *)

IsCode(t) == IsWithinMapping(t) /\ IsExecutableAddress(t)
Accounted(t) == Settled(t) \/ InSomeFunction(t)

\* What keeps a target in mind: the two work lists, the instruction pointer, and the
\* call sites of the function under analysis, whose targets FinishFunction queues.
Waiting(t) ==
    \/ t \in ToSet(functionWork) \cup ToSet(work)
    \/ at = "decode" /\ t = pc
    \/ \E c \in cur.callSites : c[2] = t

TargetsInv ==
    /\ at = "done" => functionWork = <<>>
    /\ \A a \in visited :
          /\ image.code[a].kind \in {"call", "jmp"}
          /\ IsCode(image.code[a].target)
          => Accounted(image.code[a].target) \/ Waiting(image.code[a].target)

\* The rebuilder only ever adds to what it has visited, to the references and
\* to the functions.
LEMMA RebuilderAdds ==
    ASSUME [Next]_vars
    PROVE  /\ image' = image /\ visited \subseteq visited' /\ xrefs \subseteq xrefs'
           /\ UNCHANGED functions \/ \E f : functions' = Append(functions, f)
<1>1. image' = image /\ visited \subseteq visited' /\ xrefs \subseteq xrefs'
    BY DEF Next, Step, vars, modelVars, SkipCandidate, StartFunction, TakeAddress, NoMoreAddresses,
           RunIntoVisited, Undecodable, DecodeInsn, PlainInsn, Trampoline, DirectCall, MemoryCall,
           IndirectCall, ConditionalBranch, Jump, IndirectJump, Return, Visit, SplitNext,
           FinishFunction, StartSweep, Sweep, SweepNextSection, EndSweep, EndAnalysis, ReAnalyzeFrom
<1>2. UNCHANGED functions \/ \E f : functions' = Append(functions, f)
    BY DEF Next, Step, vars, modelVars, SkipCandidate, StartFunction, TakeAddress, NoMoreAddresses,
           RunIntoVisited, Undecodable, DecodeInsn, PlainInsn, Trampoline, DirectCall, MemoryCall,
           IndirectCall, ConditionalBranch, Jump, IndirectJump, Return, SplitNext, FinishFunction,
           StartSweep, Sweep, SweepNextSection, EndSweep, EndAnalysis, ReAnalyzeFrom
<1> QED BY <1>1, <1>2

LEMMA AccountedStays ==
    ASSUME TypeOK, [Next]_vars
    PROVE  \A t : /\ Accounted(t) => Accounted(t)'
                 /\ IsCode(t)' = IsCode(t)
<1>1. image' = image /\ visited \subseteq visited'
    BY RebuilderAdds
<1>2. ToSet(functions) \subseteq ToSet(functions')
    <2>1. CASE UNCHANGED functions
        BY <2>1
    <2>2. CASE \E f : functions' = Append(functions, f)
        BY <2>2 DEF ToSet, TypeOK
    <2> QED BY <2>1, <2>2, RebuilderAdds
<1> QED BY <1>1, <1>2 DEF Accounted, Settled, InSomeFunction, IsCode, IsExecutableAddress, IsWithinMapping

\* An address that a known function holds lies in some function.
LEMMA KnownIsSome == \A t : TypeOK /\ InKnownFunction(t) => InSomeFunction(t)
BY Elements DEF InKnownFunction, InSomeFunction, TypeOK

\* An address the outer loops skip is accounted for, or is no code.
LEMMA SkippedIsAccounted ==
    ASSUME TypeOK, NEW t, IsCode(t), Skipped(t)
    PROVE  Accounted(t)
BY KnownIsSome DEF Skipped, IsCode, Accounted, Settled

LEMMA NotBeforeItself == \A d \in Mapped \X Mapped : ~ CallSiteLess(d, d)
<1>1. \A n \in Nat : ~ (n < n)
    OBVIOUS
<1>2. Mapped \subseteq Nat
    BY MappedFinite
<1> QED BY <1>1, <1>2 DEF CallSiteLess

\* Every element of a set iterated in order is in the sequence.
LEMMA OrderedSurjective ==
    ASSUME NEW S \in SUBSET (Mapped \X Mapped), NEW s \in Ordered(S, CallSiteLess), NEW c \in S
    PROVE  Len(s) \in Nat /\ \E i \in 1..Len(s) : s[i] = c
<1>1. IsFiniteSet(S)
    BY MappedFinite, FS_Product, FS_Subset
<1>2. Cardinality(S) \in Nat
    BY <1>1, FS_CardinalityType
<1> DEFINE n == Cardinality(S)
<1>3. s \in [1..n -> S] /\ \A i, j \in 1..n : i < j => CallSiteLess(s[i], s[j])
    BY DEF Ordered
<1> HIDE DEF n
<1>4. n \in Nat
    BY <1>2 DEF n
<1>5. s \in Injection(1..n, S)
    <2>1. ASSUME NEW i \in 1..n, NEW j \in 1..n, i < j PROVE s[i] # s[j]
        <3>1. CallSiteLess(s[i], s[j])
            BY <1>3, <1>4, <2>1
        <3>2. s[i] \in Mapped \X Mapped
            BY <1>3
        <3> QED BY <3>1, <3>2, NotBeforeItself
    <2>2. \A i, j \in 1..n : s[i] = s[j] => i = j
        BY <1>4, <2>1
    <2> QED BY <1>3, <2>2 DEF Injection, IsInjective
<1>6. IsFiniteSet(1..n) /\ Cardinality(1..n) = n
    BY <1>4, FS_Interval
<1>7. s \in Surjection(1..n, S)
    BY <1>1, <1>5, <1>6, FS_Injection DEF n
<1>8. Len(s) = n
    BY <1>3, <1>4
<1> QED BY <1>4, <1>7, <1>8 DEF Surjection

\* The steps of the outer loops and of the sweep keep every target in mind.
LEMMA OuterLoopWaiting ==
    ASSUME TypeOK, FlowInductive, NEW t, IsCode(t), Waiting(t), SitesVisited,
           \/ SkipCandidate \/ StartFunction \/ StartSweep \/ Sweep \/ SweepNextSection
           \/ EndSweep \/ EndAnalysis
    PROVE  Accounted(t) \/ Waiting(t)'
<1>1. /\ work = <<>> /\ cur.callSites = {} /\ at # "decode"
    BY DEF SkipCandidate, StartFunction, StartSweep, Sweep, SweepNextSection, EndSweep, EndAnalysis,
           FlowInductive, BetweenFunctions, SitesVisited
<1>2. t \in ToSet(functionWork) /\ functionWork \in Seq(Mapped)
    BY <1>1 DEF Waiting, ToSet, TypeOK
<1>3. CASE SkipCandidate
    <2>1. ToSet(functionWork) = {Head(functionWork)} \cup ToSet(functionWork')
        BY <1>2, <1>3, PopElements DEF SkipCandidate
    <2> QED BY <1>2, <1>3, <2>1, SkippedIsAccounted DEF SkipCandidate, Waiting
<1>4. CASE StartFunction
    <2>1. ToSet(functionWork) = {Head(functionWork)} \cup ToSet(functionWork')
        BY <1>2, <1>4, PopElements DEF StartFunction
    <2>2. Head(functionWork) \in ToSet(work')
        BY <1>4 DEF StartFunction, ToSet
    <2> QED BY <1>2, <2>1, <2>2 DEF Waiting
<1>5. CASE Sweep
    <2>1. functionWork' = functionWork \/ functionWork' = Append(functionWork, pc)
        BY <1>5 DEF Sweep
    <2>2. ToSet(functionWork) \subseteq ToSet(functionWork')
        BY <1>2, <2>1 DEF ToSet
    <2> QED BY <1>2, <2>2 DEF Waiting
<1>6. CASE StartSweep \/ SweepNextSection \/ EndSweep \/ EndAnalysis
    BY <1>2, <1>6 DEF StartSweep, SweepNextSection, EndSweep, EndAnalysis, Waiting
<1> QED BY <1>3, <1>4, <1>5, <1>6

\* So does the loop over the addresses of a function, but for what it settles.
LEMMA WorkLoopWaiting ==
    ASSUME TypeOK, NEW t, IsCode(t), Waiting(t),
           TakeAddress \/ NoMoreAddresses \/ RunIntoVisited \/ Undecodable \/ SplitNext
    PROVE  Accounted(t) \/ Waiting(t)'
<1>1. cur \in FunctionUnit /\ work \in Seq(Mapped)
    BY DEF TypeOK
<1>2. CASE TakeAddress
    <2>1. ToSet(work) = {Head(work)} \cup ToSet(work')
        BY <1>1, <1>2, PopElements DEF TakeAddress
    <2> QED BY <1>2, <2>1 DEF TakeAddress, Waiting, Accounted, Settled
<1>3. CASE NoMoreAddresses
    BY <1>3 DEF NoMoreAddresses, Waiting
<1>4. CASE RunIntoVisited \/ Undecodable
    <2>1. cur'.callSites = cur.callSites /\ UNCHANGED <<work, functionWork>>
        BY <1>1, <1>4, ClosedSites DEF RunIntoVisited, Undecodable, FunctionUnit
    <2>2. t = pc => Settled(t)
        BY <1>4 DEF RunIntoVisited, Undecodable, Settled
    <2> QED BY <2>1, <2>2 DEF Waiting, Accounted
<1>5. CASE SplitNext
    <2>1. cur'.callSites = cur.callSites /\ UNCHANGED <<work, functionWork, at, pc>>
        BY <1>1, <1>5 DEF SplitNext, FunctionUnit
    <2> QED BY <2>1 DEF Waiting
<1> QED BY <1>2, <1>3, <1>4, <1>5

\* When a function is finished, the targets of its call sites are queued, unless
\* they are accounted for.
LEMMA FinishWaiting ==
    ASSUME TypeOK, NEW t, IsCode(t), Waiting(t), FinishFunction
    PROVE  Accounted(t) \/ Waiting(t)'
<1>1. PICK callees \in Ordered(NewCallees, CallSiteLess) :
        functionWork' = functionWork \o [i \in 1..Len(callees) |-> callees[i][2]]
    BY DEF FinishFunction
<1> DEFINE targets == [i \in 1..Len(callees) |-> callees[i][2]]
<1>2. targets \in Seq(Mapped) /\ functionWork \in Seq(Mapped)
    BY CalleesType DEF TypeOK
<1>3. ToSet(functionWork') = ToSet(functionWork) \cup ToSet(targets)
    <2> HIDE DEF targets
    <2> QED BY <1>1, <1>2, ConcatElements DEF targets
<1>4. CASE \E c \in cur.callSites : c[2] = t
    <2>1. PICK c \in cur.callSites : c[2] = t
        BY <1>4
    <2>2. CASE c \in NewCallees
        <3>1. NewCallees \subseteq Mapped \X Mapped
            BY DEF NewCallees, IsWithinMapping, TypeOK, FunctionUnit
        <3>2. PICK i \in 1..Len(callees) : callees[i] = c
            BY <2>2, <3>1, OrderedSurjective
        <3>3. Len(callees) \in Nat
            BY <2>2, <3>1, OrderedSurjective
        <3>4. t \in ToSet(targets)
            BY <2>1, <3>2, <3>3 DEF ToSet
        <3> QED BY <1>3, <3>4 DEF Waiting
    <2>3. CASE c \notin NewCallees
        <3>1. t # 0 /\ t \in Mapped
            BY MappedFinite DEF IsCode, IsWithinMapping
        <3> QED BY <2>1, <2>3, <3>1, KnownIsSome
                DEF NewCallees, IsWithinMapping, Accounted, Settled
    <2> QED BY <2>2, <2>3
<1>5. CASE t \in ToSet(functionWork) \cup ToSet(work)
    BY <1>3, <1>5 DEF FinishFunction, Waiting
<1> QED BY <1>4, <1>5 DEF Waiting, FinishFunction

\* Decoding takes nothing from the work lists and no resolved call site.
LEMMA DecodeWaiting ==
    ASSUME TypeOK, SitesVisited, NEW t, IsCode(t), Waiting(t), DecodeInsn
    PROVE  Accounted(t)' \/ Waiting(t)'
<1>1. /\ pc \in Mapped \ visited /\ visited' = visited \cup {pc} /\ functions' = functions
    BY DecodeShared
<1>2. cur.callSites \subseteq cur'.callSites
    BY CallSitesStep, BranchSitesStep DEF DecodeInsn
<1>3. \A q \in {work, functionWork} : q \in Seq(Mapped)
    BY DEF TypeOK
<1>4. (work' = work \/ \E u \in Mapped : work' = Append(work, u))
      /\ (functionWork' = functionWork \/ \E u \in Mapped : functionWork' = Append(functionWork, u))
    BY DEF DecodeInsn, PlainInsn, Trampoline, DirectCall, MemoryCall, IndirectCall,
           ConditionalBranch, Jump, IndirectJump, Return, Followed, IsWithinMapping
<1>5. ASSUME NEW q \in Seq(Mapped), NEW r, r = q \/ \E u \in Mapped : r = Append(q, u)
      PROVE  ToSet(q) \subseteq ToSet(r)
    <2>1. ASSUME NEW u \in Mapped PROVE ToSet(Append(q, u)) = ToSet(q) \cup {u}
        BY PushElements
    <2> QED BY <1>5, <2>1
<1>6. ToSet(work) \subseteq ToSet(work') /\ ToSet(functionWork) \subseteq ToSet(functionWork')
    BY <1>3, <1>4, <1>5
<1> QED BY <1>1, <1>2, <1>6 DEF Waiting, Accounted, Settled

\* The target of the call or jump just decoded is queued, is kept as a call site,
\* or is accounted for.
LEMMA DecodedTarget ==
    ASSUME TypeOK, DecodeInsn, image.code[pc].kind \in {"call", "jmp"},
           NEW t, t = TargetOf, IsCode(t)
    PROVE  Accounted(t)' \/ Waiting(t)'
<1>1. /\ pc \in Mapped \ visited /\ visited' = visited \cup {pc} /\ functions' = functions
      /\ cur \in FunctionUnit /\ Open \in Block(Nat) /\ Next_pc \in Nat /\ TargetOf \in Target
    BY DecodeShared
<1> DEFINE Kept == t \in visited' \/ InSomeFunction(t) \/ t \in ToSet(functionWork')
                      \/ \E c \in cur'.callSites : c[2] = t
<1>2. t \in Mapped /\ functionWork \in Seq(Mapped)
    BY DEF IsCode, IsWithinMapping, TypeOK
<1>3. t \in ToSet(Append(functionWork, t))
    BY <1>2, PushElements
<1>4. Followed = TRUE
    BY DEF Followed, IsCode
<1>5. ASSUME DirectCall PROVE Kept
    BY <1>1, <1>3, <1>5 DEF DirectCall, IsCode
<1>6. ASSUME Jump PROVE Kept
    BY <1>1, <1>3, <1>4, <1>6, KnownIsSome DEF Jump
<1>7. ASSUME Trampoline PROVE Kept
    <2> DEFINE f == AddCallSite(cur, pc, t)
    <2>1. f \in FunctionUnit /\ <<pc, t>> \in f.callSites
        BY <1>1, AddCallSiteType DEF AddCallSite, FunctionUnit
    <2>2. CloseBlock(f, Open, Next_pc) \in FunctionUnit
          /\ CloseBlock(f, Open, Next_pc).callSites = f.callSites
        BY <1>1, <2>1, CloseBlockType, ClosedSites
    <2>3. cur' = [CloseBlock(f, Open, Next_pc) EXCEPT !.trampoline = TRUE]
        BY <1>7 DEF Trampoline, Visit
    <2> HIDE DEF f
    <2>4. <<pc, t>> \in cur'.callSites
        BY <2>1, <2>2, <2>3 DEF FunctionUnit
    <2> QED BY <2>4
<1>8. Kept
    BY <1>5, <1>6, <1>7
       DEF DecodeInsn, PlainInsn, MemoryCall, IndirectCall, ConditionalBranch, IndirectJump, Return, Visit
<1>9. InSomeFunction(t) => \E f \in ToSet(functions') : f.start <= t /\ t < f.end
    BY <1>1 DEF InSomeFunction
<1> QED BY <1>8, <1>9 DEF Accounted, Settled, InSomeFunction, Waiting

\* What the rebuilder keeps in mind it does not forget before it has accounted for it.
LEMMA KeptInMind ==
    ASSUME TypeOK, FlowInductive, SitesVisited, TargetsInv, [Next]_vars,
           NEW t, IsCode(t), Accounted(t) \/ Waiting(t)
    PROVE  Accounted(t)' \/ Waiting(t)'
<1>1. Accounted(t) => Accounted(t)'
    BY AccountedStays
<1>2. CASE Waiting(t) /\ UNCHANGED vars
    BY <1>2 DEF Waiting, vars
<1>3. CASE Waiting(t) /\ \E a \in Mapped : ReAnalyzeFrom(a)
    BY <1>3 DEF Waiting, ReAnalyzeFrom, TargetsInv, SitesVisited, FlowInductive, BetweenFunctions, ToSet
<1>4. CASE Waiting(t) /\ Step
    BY <1>1, <1>4, OuterLoopWaiting, WorkLoopWaiting, FinishWaiting, DecodeWaiting DEF Step
<1> QED BY <1>1, <1>2, <1>3, <1>4 DEF Next

LEMMA TargetsStep ==
    ASSUME TypeOK, FlowInductive, SitesVisited, TargetsInv, [Next]_vars
    PROVE  TargetsInv'
<1>1. image' = image
    BY RebuilderAdds
<1>2. at' = "done" => functionWork' = <<>>
    BY DEF TargetsInv, Next, Step, vars, SkipCandidate, StartFunction, TakeAddress, NoMoreAddresses,
           RunIntoVisited, Undecodable, DecodeInsn, PlainInsn, Trampoline, DirectCall, MemoryCall,
           IndirectCall, ConditionalBranch, Jump, IndirectJump, Return, Visit, Continue, Leave,
           SplitNext, FinishFunction, StartSweep, Sweep, SweepNextSection, EndSweep, EndAnalysis,
           ReAnalyzeFrom
<1>3. ASSUME NEW t, IsCode(t), Accounted(t) \/ Waiting(t) PROVE Accounted(t)' \/ Waiting(t)'
    BY <1>3, KeptInMind
<1>4. ASSUME NEW a \in visited' \ visited, image.code[a].kind \in {"call", "jmp"},
             NEW t, t = image.code[a].target, IsCode(t)
      PROVE  Accounted(t)' \/ Waiting(t)'
    <2>1. DecodeInsn
        BY DEF Next, Step, vars, modelVars, SkipCandidate, StartFunction, TakeAddress, NoMoreAddresses,
               RunIntoVisited, Undecodable, SplitNext, FinishFunction, StartSweep, Sweep,
               SweepNextSection, EndSweep, EndAnalysis, ReAnalyzeFrom
    <2>2. a = pc
        BY <2>1, DecodeShared
    <2> QED BY <1>4, <2>1, <2>2, DecodedTarget DEF TargetOf
<1>5. ASSUME NEW a \in visited', image.code[a].kind \in {"call", "jmp"},
             NEW t, t = image.code[a].target, IsCode(t)
      PROVE  Accounted(t)' \/ Waiting(t)'
    BY <1>3, <1>4, <1>5 DEF TargetsInv
<1>6. \A t : IsCode(t)' = IsCode(t)
    BY AccountedStays
<1>7. ASSUME NEW a \in visited', image'.code[a].kind \in {"call", "jmp"},
             NEW t, t = image'.code[a].target, IsCode(t)'
      PROVE  Accounted(t)' \/ Waiting(t)'
    BY <1>1, <1>5, <1>6, <1>7
<1> QED BY <1>2, <1>7 DEF TargetsInv

LEMMA TargetsEnd == FlowInductive /\ SitesVisited /\ TargetsInv => TargetsAccounted
<1> SUFFICES ASSUME FlowInductive, SitesVisited, TargetsInv, at = "done",
                    NEW a \in visited, image.code[a].kind \in {"call", "jmp"},
                    IsCode(image.code[a].target)
             PROVE  Accounted(image.code[a].target)
    BY DEF TargetsAccounted, IsCode, Accounted
<1>1. ~ Waiting(image.code[a].target)
    BY DEF Waiting, TargetsInv, SitesVisited, FlowInductive, BetweenFunctions, ToSet
<1> QED BY <1>1 DEF TargetsInv

\* No direct call or jump is dropped, for every image and every number of
\* re-analyses: an executable target that AnalyzeFunction has met is in a work list,
\* under way or among the call sites of the function, until it has been decoded or
\* lies in a function; and the pass returns with nothing waiting.
THEOREM TargetsAreAccounted == Spec => []TargetsAccounted
<1>1. Init => SitesVisited /\ TargetsInv
    BY NoSites DEF Init, SitesVisited, TargetsInv, NoFunction, NewFunction
<1>2. TypeOK /\ FlowInductive /\ SitesVisited /\ TargetsInv /\ [Next]_vars
        => SitesVisited' /\ TargetsInv'
    BY SitesStep, TargetsStep
<1> QED BY <1>1, <1>2, TargetsEnd, InitType, StepType, FlowInitially, StepFlow, PTL DEF Spec

-----------------------------------------------------------------------------
(* Splitting blocks. *)

\* The two halves of a block cover what the block did.
LEMMA SplitCovers ==
    ASSUME NEW blocks \in Seq(Block(Nat)), NEW i \in 1..Len(blocks), NEW a \in Nat,
           Inside(blocks[i], a)
    PROVE  Covered(SplitBlock(blocks, i, a)) = Covered(blocks)
<1> DEFINE old == blocks[i]
           first == [old EXCEPT !.end = a, !.succs = <<a>>]
           second == [start |-> a, end |-> old.end, succs |-> old.succs, preds |-> {old.start}]
           bs == [blocks EXCEPT ![i] = first]
<1>1. old \in Block(Nat) /\ Len(blocks) \in Nat
    BY ElementOfSeq
<1>2. first \in Block(Nat) /\ first.start = old.start /\ first.end = a
    <2>1. <<a>> \in Seq(Nat)
        OBVIOUS
    <2> HIDE DEF old
    <2> QED BY <1>1, <2>1 DEF Block
<1>3. second \in Block(Nat) /\ second.start = a /\ second.end = old.end
    BY <1>1 DEF Block
<1>4. bs \in Seq(Block(Nat)) /\ Len(bs) = Len(blocks)
      /\ \A j \in 1..Len(blocks) : bs[j] = IF j = i THEN first ELSE blocks[j]
    BY <1>2, ExceptSeq
<1>5. SplitBlock(blocks, i, a) = Append(bs, second)
    BY <1>1 DEF SplitBlock, Block
<1>6. old.start < a /\ a < old.end /\ old.start \in Nat /\ old.end \in Nat
    BY <1>1 DEF Inside, Block
<1>7. old.start .. old.end - 1 = (first.start .. first.end - 1) \cup (second.start .. second.end - 1)
    BY <1>2, <1>3, <1>6
<1> HIDE DEF bs, first, second, old
<1>8. ToSet(SplitBlock(blocks, i, a)) = ToSet(bs) \cup {second}
    BY <1>3, <1>4, <1>5, PushElements
<1>9. old \in ToSet(blocks) /\ first \in ToSet(bs)
    BY <1>1, <1>4, Elements DEF old
<1>10. \A b \in ToSet(bs) : b = first \/ b \in ToSet(blocks)
    BY <1>4, Elements
<1>11. \A b \in ToSet(blocks) : b = old \/ b \in ToSet(bs)
    BY <1>4, Elements DEF old
<1>12. ASSUME NEW x \in Covered(blocks) PROVE x \in Covered(SplitBlock(blocks, i, a))
    BY <1>7, <1>8, <1>9, <1>11 DEF Covered
<1>13. ASSUME NEW x \in Covered(SplitBlock(blocks, i, a)) PROVE x \in Covered(blocks)
    BY <1>7, <1>8, <1>9, <1>10 DEF Covered
<1> QED BY <1>12, <1>13

\* Splitting loses no code and invents none: every round of NormalizeBasicBlocks
\* leaves the blocks of a function covering the same addresses, whatever blocks
\* AnalyzeFunction has made.
THEOREM SplitsKeepCode == Spec => SplitKeepsCode
<1>1. TypeOK /\ [Next]_vars =>
        [at = "normalize" /\ at' = "normalize" => Covered(cur'.blocks) = Covered(cur.blocks)]_vars
  <2> SUFFICES ASSUME TypeOK, Next, at = "normalize", at' = "normalize"
               PROVE  Covered(cur'.blocks) = Covered(cur.blocks)
    OBVIOUS
  <2>1. SplitNext
    BY DEF Next, Step, SkipCandidate, StartFunction, TakeAddress, NoMoreAddresses,
           RunIntoVisited, Undecodable, DecodeInsn, PlainInsn, Trampoline, DirectCall, MemoryCall,
           IndirectCall, ConditionalBranch, Jump, IndirectJump, Return, Visit,
           FinishFunction, StartSweep, Sweep, SweepNextSection, EndSweep, EndAnalysis, ReAnalyzeFrom
  <2>2. cur.blocks \in Seq(Block(Nat)) /\ Len(cur.blocks) \in Nat /\ cur \in FunctionUnit
    BY LenProperties DEF TypeOK, FunctionUnit
  <2>3. PICK a \in Entries(cur.blocks) :
            /\ IsNextSplit(cur.blocks, a)
            /\ cur' = [cur EXCEPT !.blocks = SplitBlock(@, BlockAt(@, a), a)]
    BY <2>1 DEF SplitNext
  <2> DEFINE i == BlockAt(cur.blocks, a)
  <2>4. i # 0 /\ cur.blocks[i].start # a
    BY <2>3 DEF IsNextSplit, NeedsSplit
  <2>5. i \in 1..Len(cur.blocks) /\ Inside(cur.blocks[i], a) /\ a \in Nat
    BY <2>2, <2>4, BlockAtFinds, EntriesType
  <2>6. cur'.blocks = SplitBlock(cur.blocks, i, a)
    BY <2>2, <2>3 DEF FunctionUnit
  <2> HIDE DEF i
  <2> QED BY <2>2, <2>5, <2>6, SplitCovers
<1> QED BY <1>1, InitType, StepType, PTL DEF Spec, SplitKeepsCode

-----------------------------------------------------------------------------
(* The blocks of the functions and of the one under analysis. *)

\* The places of the blocks in a vector of functions, and the block at one.
SlotsIn(fs) == {k \in (1 .. Len(fs)) \X (Nat \ {0}) : k[2] \in 1 .. Len(fs[k[1]].blocks)}
SlotIn(fs, k) == fs[k[1]].blocks[k[2]]

LEMMA SlotList ==
    ASSUME NEW fs \in Seq(FunctionUnit), NEW c \in FunctionUnit
    PROVE  LET v == Append(fs, c)
           IN  /\ \A i, m : <<i, m>> \in SlotsIn(v) <=>
                    \/ i \in 1..Len(fs) /\ m \in 1..Len(fs[i].blocks)
                    \/ i = Len(fs) + 1 /\ m \in 1..Len(c.blocks)
               /\ \A k \in SlotsIn(v) : k = <<k[1], k[2]>>
               /\ \A i \in 1..Len(fs) : \A m : SlotIn(v, <<i, m>>) = fs[i].blocks[m]
               /\ \A m : SlotIn(v, <<Len(fs) + 1, m>>) = c.blocks[m]
<1> DEFINE v == Append(fs, c)
<1>1. /\ Len(fs) \in Nat /\ v \in Seq(FunctionUnit) /\ Len(v) = Len(fs) + 1
      /\ \A i \in 1..Len(fs) : v[i] = fs[i]
      /\ v[Len(fs) + 1] = c
    BY AppendProperties, LenProperties
<1>2. \A i \in 1..Len(v) : Len(v[i].blocks) \in Nat
    <2> SUFFICES ASSUME NEW i \in 1..Len(v) PROVE Len(v[i].blocks) \in Nat
        OBVIOUS
    <2>1. v[i] \in FunctionUnit
        BY <1>1, ElementOfSeq
    <2>2. v[i].blocks \in Seq(Block(Nat))
        BY <2>1 DEF FunctionUnit
    <2> QED BY <2>2, LenProperties
<1> HIDE DEF v
<1>3. \A i, m : <<i, m>> \in SlotsIn(v) <=> i \in 1..Len(v) /\ m \in 1..Len(v[i].blocks)
    <2> SUFFICES ASSUME NEW i, NEW m
                 PROVE  <<i, m>> \in SlotsIn(v) <=> i \in 1..Len(v) /\ m \in 1..Len(v[i].blocks)
        OBVIOUS
    <2>1. i \in 1..Len(v) => 1..Len(v[i].blocks) \subseteq Nat \ {0}
        BY <1>2
    <2> QED BY <2>1 DEF SlotsIn
<1>4. \A i, m : <<i, m>> \in SlotsIn(v) <=>
                    \/ i \in 1..Len(fs) /\ m \in 1..Len(fs[i].blocks)
                    \/ i = Len(fs) + 1 /\ m \in 1..Len(c.blocks)
    <2> SUFFICES ASSUME NEW i, NEW m
                 PROVE  <<i, m>> \in SlotsIn(v) <=>
                    \/ i \in 1..Len(fs) /\ m \in 1..Len(fs[i].blocks)
                    \/ i = Len(fs) + 1 /\ m \in 1..Len(c.blocks)
        OBVIOUS
    <2>1. i \in 1..Len(v) <=> i \in 1..Len(fs) \/ i = Len(fs) + 1
        BY <1>1
    <2>2. ~ (Len(fs) + 1 \in 1..Len(fs))
        BY <1>1
    <2> QED BY <1>1, <1>3, <2>1, <2>2
<1>5. \A k \in SlotsIn(v) : k = <<k[1], k[2]>>
    BY DEF SlotsIn
<1>6. \A i \in 1..Len(fs) : \A m : SlotIn(v, <<i, m>>) = fs[i].blocks[m]
    BY <1>1 DEF SlotIn
<1>7. \A m : SlotIn(v, <<Len(fs) + 1, m>>) = c.blocks[m]
    BY <1>1 DEF SlotIn
<1> QED BY <1>4, <1>5, <1>6, <1>7 DEF v

\* Those of the rebuilder, the function under analysis being the last.
Slots == SlotsIn(Append(functions, cur))
Slot(k) == SlotIn(Append(functions, cur), k)

\* What a step does to them: nothing, one more, or one cut in two.
Stays(k) == Slot(k)'.start = Slot(k).start /\ Slot(k)'.end = Slot(k).end
SameSlots == Slots' = Slots /\ \A k \in Slots : Stays(k)
NewSlot(first, last) ==
    \E n : /\ n \notin Slots /\ Slots' = Slots \cup {n}
           /\ \A k \in Slots : Stays(k)
           /\ Slot(n)'.start = first /\ Slot(n)'.end = last
CutSlot ==
    \E k \in Slots : \E n, a :
        /\ n \notin Slots /\ Slots' = Slots \cup {n}
        /\ \A l \in Slots \ {k} : Stays(l)
        /\ Slot(k).start < a /\ a < Slot(k).end
        /\ Slot(k)'.start = Slot(k).start /\ Slot(k)'.end = a
        /\ Slot(n)'.start = a /\ Slot(n)'.end = Slot(k).end

LEMMA SlotTypes ==
    ASSUME TypeOK
    PROVE  /\ functions \in Seq(FunctionUnit) /\ cur \in FunctionUnit
           /\ cur.blocks \in Seq(Block(Nat)) /\ Len(cur.blocks) \in Nat
           /\ Len(functions) \in Nat
           /\ \A k \in Slots : Slot(k) \in Block(Nat)
<1>1. functions \in Seq(FunctionUnit) /\ cur \in FunctionUnit
    BY DEF TypeOK
<1>2. cur.blocks \in Seq(Block(Nat))
    BY <1>1 DEF FunctionUnit
<1>3. Len(functions) \in Nat /\ Len(cur.blocks) \in Nat
    BY <1>1, <1>2, LenProperties
<1>4. ASSUME NEW k \in Slots PROVE Slot(k) \in Block(Nat)
    <2>1. k = <<k[1], k[2]>>
        BY <1>1, SlotList DEF Slots
    <2>2. CASE k[1] \in 1..Len(functions) /\ k[2] \in 1..Len(functions[k[1]].blocks)
        <3>1. functions[k[1]].blocks \in Seq(Block(Nat))
            <4>1. functions[k[1]] \in FunctionUnit
                BY <1>1, <2>2, ElementOfSeq
            <4> QED BY <4>1 DEF FunctionUnit
        <3>2. Slot(k) = functions[k[1]].blocks[k[2]]
            BY <1>1, <2>1, <2>2, SlotList DEF Slot
        <3> QED BY <2>2, <3>1, <3>2, ElementOfSeq
    <2>3. CASE k[1] = Len(functions) + 1 /\ k[2] \in 1..Len(cur.blocks)
        <3>1. Slot(k) = cur.blocks[k[2]]
            BY <1>1, <2>1, <2>3, SlotList DEF Slot
        <3> QED BY <1>2, <2>3, <3>1, ElementOfSeq
    <2> QED BY <1>1, <2>1, <2>2, <2>3, SlotList DEF Slots
<1> QED BY <1>1, <1>2, <1>3, <1>4

LEMMA SlotTypesNext ==
    ASSUME TypeOK'
    PROVE  \A k \in Slots' : Slot(k)' \in Block(Nat)
<1>1. functions' \in Seq(FunctionUnit) /\ cur' \in FunctionUnit
    BY DEF TypeOK
<1>2. cur'.blocks \in Seq(Block(Nat))
    BY <1>1 DEF FunctionUnit
<1>3. Len(functions') \in Nat
    BY <1>1, LenProperties
<1> SUFFICES ASSUME NEW k \in Slots' PROVE Slot(k)' \in Block(Nat)
    OBVIOUS
<1>4. k = <<k[1], k[2]>>
    BY <1>1, SlotList DEF Slots
<1>5. CASE k[1] \in 1..Len(functions') /\ k[2] \in 1..Len(functions'[k[1]].blocks)
    <2>1. functions'[k[1]].blocks \in Seq(Block(Nat))
        <3>1. functions'[k[1]] \in FunctionUnit
            BY <1>1, <1>5, ElementOfSeq
        <3> QED BY <3>1 DEF FunctionUnit
    <2>2. Slot(k)' = functions'[k[1]].blocks[k[2]]
        BY <1>1, <1>4, <1>5, SlotList DEF Slot
    <2> QED BY <1>5, <2>1, <2>2, ElementOfSeq
<1>6. CASE k[1] = Len(functions') + 1 /\ k[2] \in 1..Len(cur'.blocks)
    <2>1. Slot(k)' = cur'.blocks[k[2]]
        BY <1>1, <1>4, <1>6, SlotList DEF Slot
    <2> QED BY <1>2, <1>6, <2>1, ElementOfSeq
<1> QED BY <1>1, <1>4, <1>5, <1>6, SlotList DEF Slots

LEMMA SlotsKept ==
    ASSUME TypeOK, TypeOK', functions' = functions, cur'.blocks = cur.blocks
    PROVE  SameSlots
<1>1. functions \in Seq(FunctionUnit) /\ cur \in FunctionUnit /\ cur' \in FunctionUnit
    BY DEF TypeOK
<1>2. \A k : k \in Slots <=> k \in Slots'
    <2>1. \A i, m : <<i, m>> \in Slots <=> <<i, m>> \in Slots'
        BY <1>1, SlotList DEF Slots
    <2>2. \A k \in Slots : k = <<k[1], k[2]>>
        BY <1>1, SlotList DEF Slots
    <2>3. \A k \in Slots' : k = <<k[1], k[2]>>
        BY <1>1, SlotList DEF Slots
    <2> QED BY <2>1, <2>2, <2>3
<1>3. ASSUME NEW k \in Slots PROVE Slot(k)' = Slot(k)
    <2>1. PICK i, m : k = <<i, m>>
        BY <1>1, SlotList DEF Slots
    <2>2. i \in 1..Len(functions) \/ i = Len(functions) + 1
        BY <1>1, <2>1, SlotList DEF Slots
    <2> QED BY <1>1, <2>1, <2>2, SlotList DEF Slot
<1> QED BY <1>2, <1>3 DEF SameSlots, Stays

\* The places of the blocks of the function under analysis, and the others.
LEMMA SlotsByVector ==
    ASSUME TypeOK, TypeOK', functions' = functions
    PROVE  /\ \A m : <<Len(functions) + 1, m>> \in Slots <=> m \in 1..Len(cur.blocks)
           /\ \A m : <<Len(functions) + 1, m>> \in Slots' <=> m \in 1..Len(cur'.blocks)
           /\ \A m : Slot(<<Len(functions) + 1, m>>) = cur.blocks[m]
           /\ \A m : Slot(<<Len(functions) + 1, m>>)' = cur'.blocks[m]
           /\ \A k \in Slots \cup Slots' :
                 \/ \E m : k = <<Len(functions) + 1, m>>
                 \/ k \in Slots \cap Slots' /\ Slot(k)' = Slot(k)
<1>1. functions \in Seq(FunctionUnit) /\ cur \in FunctionUnit /\ cur' \in FunctionUnit
      /\ Len(functions) \in Nat
    BY SlotTypes DEF TypeOK
<1>2. ASSUME NEW k \in Slots \cup Slots', \A m : k # <<Len(functions) + 1, m>>
      PROVE  k \in Slots \cap Slots' /\ Slot(k)' = Slot(k)
    <2>1. PICK i, m : k = <<i, m>>
        BY <1>1, SlotList DEF Slots
    <2>2. i # Len(functions) + 1
        BY <1>2, <2>1
    <2>3. i \in 1..Len(functions) /\ m \in 1..Len(functions[i].blocks)
        BY <1>1, <2>1, <2>2, SlotList DEF Slots
    <2>4. k \in Slots \cap Slots'
        BY <1>1, <2>1, <2>3, SlotList DEF Slots
    <2>5. Slot(k)' = Slot(k)
        BY <1>1, <2>1, <2>3, SlotList DEF Slot
    <2> QED BY <2>4, <2>5
<1>3. ~ (Len(functions) + 1 \in 1..Len(functions))
    BY <1>1
<1>4. /\ \A m : <<Len(functions) + 1, m>> \in Slots <=> m \in 1..Len(cur.blocks)
      /\ \A m : <<Len(functions) + 1, m>> \in Slots' <=> m \in 1..Len(cur'.blocks)
    BY <1>1, <1>3, SlotList DEF Slots
<1>5. /\ \A m : Slot(<<Len(functions) + 1, m>>) = cur.blocks[m]
      /\ \A m : Slot(<<Len(functions) + 1, m>>)' = cur'.blocks[m]
    BY <1>1, SlotList DEF Slot
<1> QED BY <1>2, <1>4, <1>5

LEMMA SlotAdded ==
    ASSUME TypeOK, TypeOK', functions' = functions,
           NEW b \in Block(Nat), cur'.blocks = Append(cur.blocks, b)
    PROVE  NewSlot(b.start, b.end)
<1>0. PICK n : n = <<Len(functions) + 1, Len(cur.blocks) + 1>>
    OBVIOUS
<1>1. /\ cur.blocks \in Seq(Block(Nat)) /\ Len(cur.blocks) \in Nat
      /\ Len(cur'.blocks) = Len(cur.blocks) + 1
      /\ \A m \in 1..Len(cur.blocks) : cur'.blocks[m] = cur.blocks[m]
      /\ cur'.blocks[Len(cur.blocks) + 1] = b
    BY SlotTypes, AppendProperties
<1>2. n \notin Slots /\ n \in Slots' /\ Slot(n)' = b
    BY <1>0, <1>1, SlotsByVector
<1>3. ASSUME NEW k \in Slots PROVE k \in Slots' /\ Slot(k)' = Slot(k)
    <2>1. CASE \E m : k = <<Len(functions) + 1, m>>
        <3>1. PICK m : k = <<Len(functions) + 1, m>>
            BY <2>1
        <3>2. m \in 1..Len(cur.blocks)
            BY <3>1, SlotsByVector
        <3>3. m \in 1..Len(cur'.blocks)
            BY <1>1, <3>2
        <3> QED BY <1>1, <3>1, <3>2, <3>3, SlotsByVector
    <2> QED BY <2>1, SlotsByVector
<1>4. ASSUME NEW k \in Slots', k # n PROVE k \in Slots
    <2>1. CASE \E m : k = <<Len(functions) + 1, m>>
        <3>1. PICK m : k = <<Len(functions) + 1, m>>
            BY <2>1
        <3>2. m \in 1..Len(cur'.blocks) /\ m # Len(cur.blocks) + 1
            BY <1>0, <1>4, <3>1, SlotsByVector
        <3>3. m \in 1..Len(cur.blocks)
            BY <1>1, <3>2
        <3> QED BY <3>1, <3>3, SlotsByVector
    <2> QED BY <2>1, SlotsByVector
<1>5. Slots' = Slots \cup {n}
    BY <1>2, <1>3, <1>4
<1> QED BY <1>2, <1>3, <1>5 DEF NewSlot, Stays

LEMMA SlotCut ==
    ASSUME TypeOK, TypeOK', functions' = functions,
           NEW i \in 1..Len(cur.blocks), NEW a \in Nat, Inside(cur.blocks[i], a),
           cur'.blocks = SplitBlock(cur.blocks, i, a)
    PROVE  CutSlot
<1> DEFINE old == cur.blocks[i]
           first == [old EXCEPT !.end = a, !.succs = <<a>>]
           second == [start |-> a, end |-> old.end, succs |-> old.succs, preds |-> {old.start}]
           bs == [cur.blocks EXCEPT ![i] = first]
<1>0. PICK n, k : n = <<Len(functions) + 1, Len(cur.blocks) + 1>> /\ k = <<Len(functions) + 1, i>>
    OBVIOUS
<1>1. cur.blocks \in Seq(Block(Nat)) /\ Len(cur.blocks) \in Nat /\ old \in Block(Nat)
    BY SlotTypes, ElementOfSeq
<1>2. first \in Block(Nat) /\ first.start = old.start /\ first.end = a
    <2>1. <<a>> \in Seq(Nat)
        OBVIOUS
    <2> HIDE DEF old
    <2> QED BY <1>1, <2>1 DEF Block
<1>3. second \in Block(Nat) /\ second.start = a /\ second.end = old.end
    BY <1>1 DEF Block
<1>4. bs \in Seq(Block(Nat)) /\ Len(bs) = Len(cur.blocks)
      /\ \A j \in 1..Len(cur.blocks) : bs[j] = IF j = i THEN first ELSE cur.blocks[j]
    BY <1>1, <1>2, ExceptSeq
<1>5. cur'.blocks = Append(bs, second)
    BY <1>1 DEF SplitBlock, Block
<1>6. old.start < a /\ a < old.end
    BY DEF Inside
<1> HIDE DEF bs, first, second
<1>7. /\ Len(cur'.blocks) = Len(cur.blocks) + 1
      /\ \A m \in 1..Len(cur.blocks) : cur'.blocks[m] = IF m = i THEN first ELSE cur.blocks[m]
      /\ cur'.blocks[Len(cur.blocks) + 1] = second
    BY <1>1, <1>3, <1>4, <1>5, AppendProperties
<1>8. n \notin Slots /\ n \in Slots' /\ Slot(n)' = second
    BY <1>0, <1>1, <1>7, SlotsByVector
<1>9. k \in Slots /\ Slot(k) = old /\ Slot(k)' = first
    BY <1>0, <1>1, <1>7, SlotsByVector
<1>10. ASSUME NEW l \in Slots, l # k PROVE l \in Slots' /\ Slot(l)' = Slot(l)
    <2>1. CASE \E m : l = <<Len(functions) + 1, m>>
        <3>1. PICK m : l = <<Len(functions) + 1, m>>
            BY <2>1
        <3>2. m \in 1..Len(cur.blocks) /\ m # i
            BY <1>0, <1>10, <3>1, SlotsByVector
        <3>3. m \in 1..Len(cur'.blocks) /\ cur'.blocks[m] = cur.blocks[m]
            BY <1>1, <1>7, <3>2
        <3> QED BY <3>1, <3>2, <3>3, SlotsByVector
    <2> QED BY <2>1, SlotsByVector
<1>11. k \in Slots'
    BY <1>0, <1>1, <1>7, SlotsByVector
<1>12. ASSUME NEW l \in Slots', l # n PROVE l \in Slots
    <2>1. CASE \E m : l = <<Len(functions) + 1, m>>
        <3>1. PICK m : l = <<Len(functions) + 1, m>>
            BY <2>1
        <3>2. m \in 1..Len(cur'.blocks) /\ m # Len(cur.blocks) + 1
            BY <1>0, <1>12, <3>1, SlotsByVector
        <3>3. m \in 1..Len(cur.blocks)
            BY <1>1, <1>7, <3>2
        <3> QED BY <3>1, <3>3, SlotsByVector
    <2> QED BY <2>1, SlotsByVector
<1> HIDE DEF old
<1>13. Slots' = Slots \cup {n}
    BY <1>8, <1>10, <1>11, <1>12
<1> QED BY <1>2, <1>3, <1>6, <1>8, <1>9, <1>10, <1>13 DEF CutSlot, Stays

LEMMA WithPredecessorsKeeps ==
    ASSUME NEW blocks \in Seq(Block(Nat))
    PROVE  /\ Len(WithPredecessors(blocks)) = Len(blocks)
           /\ \A j \in 1..Len(blocks) :
                 /\ WithPredecessors(blocks)[j].start = blocks[j].start
                 /\ WithPredecessors(blocks)[j].end = blocks[j].end
                 /\ WithPredecessors(blocks)[j].succs = blocks[j].succs
<1>1. Len(blocks) \in Nat /\ \A j \in 1..Len(blocks) : blocks[j] \in Block(Nat)
    BY ElementOfSeq
<1>2. ASSUME NEW P, NEW j \in 1..Len(blocks)
      PROVE  LET b == [blocks[j] EXCEPT !.preds = @ \cup {blocks[i].start : i \in P}]
             IN  b.start = blocks[j].start /\ b.end = blocks[j].end /\ b.succs = blocks[j].succs
    BY <1>1 DEF Block
<1>3. Len(WithPredecessors(blocks)) = Len(blocks)
    BY <1>1 DEF WithPredecessors
<1> QED BY <1>2, <1>3 DEF WithPredecessors

\* The function that FinishFunction adds, whose blocks keep their places.
LEMMA Finished ==
    ASSUME TypeOK, FinishFunction
    PROVE  \E f \in FunctionUnit :
              /\ functions' = Append(functions, f) /\ f.blocks = WithPredecessors(cur.blocks)
              /\ cur' = NoFunction /\ visited' = visited /\ image' = image
<1> DEFINE f == [cur EXCEPT !.blocks = WithPredecessors(@),
                            !.hybrid = loop = "explore" /\ cur.indirect]
<1>1. f \in FunctionUnit /\ f.blocks = WithPredecessors(cur.blocks)
    BY WithPredecessorsType DEF TypeOK, FunctionUnit
<1>2. functions' = Append(functions, f)
    BY DEF FinishFunction
<1> HIDE DEF f
<1> QED BY <1>1, <1>2 DEF FinishFunction

LEMMA SlotsFinished ==
    ASSUME TypeOK, TypeOK', FinishFunction
    PROVE  SameSlots
<1>1. /\ functions \in Seq(FunctionUnit) /\ cur \in FunctionUnit /\ cur.blocks \in Seq(Block(Nat))
      /\ Len(functions) \in Nat /\ Len(cur.blocks) \in Nat
      /\ functions' \in Seq(FunctionUnit) /\ cur' \in FunctionUnit
    BY SlotTypes DEF TypeOK
<1>2. PICK f \in FunctionUnit :
          /\ functions' = Append(functions, f) /\ f.blocks = WithPredecessors(cur.blocks)
          /\ cur' = NoFunction
    BY Finished
<1>3. /\ Len(functions') = Len(functions) + 1 /\ functions'[Len(functions) + 1] = f
      /\ \A i \in 1..Len(functions) : functions'[i] = functions[i]
      /\ Len(cur'.blocks) = 0
    BY <1>1, <1>2, AppendProperties DEF NoFunction, NewFunction
<1>4. /\ Len(f.blocks) = Len(cur.blocks)
      /\ \A m \in 1..Len(cur.blocks) : f.blocks[m].start = cur.blocks[m].start
                                       /\ f.blocks[m].end = cur.blocks[m].end
    BY <1>1, <1>2, WithPredecessorsKeeps
<1>5. \A i, m : <<i, m>> \in Slots <=> <<i, m>> \in Slots'
    <2> SUFFICES ASSUME NEW i, NEW m PROVE <<i, m>> \in Slots <=> <<i, m>> \in Slots'
        OBVIOUS
    <2>1. <<i, m>> \in Slots <=> \/ i \in 1..Len(functions) /\ m \in 1..Len(functions[i].blocks)
                                 \/ i = Len(functions) + 1 /\ m \in 1..Len(cur.blocks)
        BY <1>1, SlotList DEF Slots
    <2>2. <<i, m>> \in Slots' <=> i \in 1..Len(functions') /\ m \in 1..Len(functions'[i].blocks)
        <3>1. <<i, m>> \in Slots' <=> \/ i \in 1..Len(functions') /\ m \in 1..Len(functions'[i].blocks)
                                      \/ i = Len(functions') + 1 /\ m \in 1..Len(cur'.blocks)
            BY <1>1, SlotList DEF Slots
        <3> QED BY <1>3, <3>1
    <2>3. i \in 1..Len(functions') <=> i \in 1..Len(functions) \/ i = Len(functions) + 1
        BY <1>1, <1>3
    <2> QED BY <1>1, <1>3, <1>4, <2>1, <2>2, <2>3
<1>6. ASSUME NEW k \in Slots PROVE Stays(k)
    <2>1. PICK i, m : k = <<i, m>>
        BY <1>1, SlotList DEF Slots
    <2>2. CASE i \in 1..Len(functions)
        <3>1. Slot(k) = functions[i].blocks[m]
            BY <1>1, <2>1, <2>2, SlotList DEF Slot
        <3>2. i \in 1..Len(functions')
            BY <1>1, <1>3, <2>2
        <3>3. Slot(k)' = functions'[i].blocks[m]
            BY <1>1, <2>1, <3>2, SlotList DEF Slot
        <3> QED BY <1>3, <2>2, <3>1, <3>3 DEF Stays
    <2>3. CASE i = Len(functions) + 1
        <3>1. Slot(k) = cur.blocks[m]
            BY <1>1, <2>1, <2>3, SlotList DEF Slot
        <3>2. i \in 1..Len(functions')
            BY <1>1, <1>3, <2>3
        <3>3. Slot(k)' = functions'[i].blocks[m]
            BY <1>1, <2>1, <3>2, SlotList DEF Slot
        <3>4. m \in 1..Len(cur.blocks)
            <4>1. ~ (i \in 1..Len(functions))
                BY <1>1, <2>3
            <4> QED BY <1>1, <2>1, <4>1, SlotList DEF Slots
        <3> QED BY <1>3, <1>4, <2>3, <3>1, <3>3, <3>4 DEF Stays
    <2> QED BY <1>1, <2>1, <2>2, <2>3, SlotList DEF Slots
<1>7. Slots' = Slots
    <2>1. \A k \in Slots : k = <<k[1], k[2]>>
        BY <1>1, SlotList DEF Slots
    <2>2. \A k \in Slots' : k = <<k[1], k[2]>>
        BY <1>1, SlotList DEF Slots
    <2> QED BY <1>5, <2>1, <2>2
<1> QED BY <1>6, <1>7 DEF SameSlots

-----------------------------------------------------------------------------
(* The steps of the rebuilder, by what they do to the blocks. *)

\* The block under way is what the loop of AnalyzeFunction has decoded since it
\* started; outside of the loop there is none, and outside of AnalyzeFunction and
\* NormalizeBasicBlocks the function under analysis is empty.
OpenInv ==
    /\ bb # NoBlock =>
          /\ at = "decode" /\ bb.end = 0 /\ bb.start \in visited /\ bb.start < pc
          /\ bb.start .. pc - 1 \subseteq Decoded
    /\ at \notin {"work", "decode", "normalize"} => cur.blocks = <<>>

Decodes == pc \in Mapped \ visited /\ visited' = visited \cup {pc}

\* An instruction more in the block under way; the last one of its block; the
\* block under way is added, if there is one, closed or not; a split; the rest.
Extends == Decodes /\ SameSlots /\ bb' = Open /\ pc' = Next_pc /\ at' = "decode" /\ ~ IsBranch(pc)
Closes == Decodes /\ NewSlot(Open.start, Next_pc) /\ bb' = NoBlock
Drops ==
    /\ visited' = visited /\ bb' = NoBlock
    /\ IF bb = NoBlock THEN SameSlots ELSE NewSlot(bb.start, 0) \/ NewSlot(bb.start, pc)
Cuts == visited' = visited /\ bb = NoBlock /\ bb' = NoBlock /\ CutSlot
Rests == visited' = visited /\ bb' = bb /\ SameSlots /\ (bb # NoBlock => pc' = pc /\ at' = at)

LEMMA ClosedBlocks ==
    ASSUME NEW f \in FunctionUnit, NEW b \in Block(Nat), NEW a \in Nat
    PROVE  \E c \in Block(Nat) : /\ c.start = b.start /\ c.end = a
                                 /\ CloseBlock(f, b, a).blocks = Append(f.blocks, c)
<1> DEFINE c == [b EXCEPT !.end = a]
<1>1. c \in Block(Nat) /\ c.start = b.start /\ c.end = a
    BY DEF Block
<1>2. CloseBlock(f, b, a).blocks = Append(f.blocks, c)
    BY DEF CloseBlock, FunctionUnit
<1> HIDE DEF c
<1> QED BY <1>1, <1>2

\* What instructions that end a block do.
LEMMA DecodeCloses ==
    ASSUME TypeOK, Trampoline \/ ConditionalBranch \/ Jump \/ IndirectJump \/ Return
    PROVE  /\ \E c \in Block(Nat) : /\ c.start = Open.start /\ c.end = Next_pc
                                    /\ cur'.blocks = Append(cur.blocks, c)
           /\ bb' = NoBlock
<1>1. /\ cur \in FunctionUnit /\ Open \in Block(Nat) /\ Next_pc \in Nat /\ TargetOf \in Target
      /\ pc \in Mapped
    BY DecodeShared DEF DecodeInsn
<1>2. 0 \in Target /\ Target \subseteq Nat
    BY MappedSizeAssumption DEF Target
<1>3. \A t \in Target : /\ AddCallSite(cur, pc, t) \in FunctionUnit
                        /\ AddCallSite(cur, pc, t).blocks = cur.blocks
    <2> SUFFICES ASSUME NEW t \in Target
                 PROVE  /\ AddCallSite(cur, pc, t) \in FunctionUnit
                        /\ AddCallSite(cur, pc, t).blocks = cur.blocks
        OBVIOUS
    <2>1. AddCallSite(cur, pc, t) \in FunctionUnit
        BY <1>1, AddCallSiteType
    <2> QED BY <1>1, <2>1 DEF AddCallSite, FunctionUnit
<1>4. \A f \in FunctionUnit : /\ [f EXCEPT !.indirect = TRUE] \in FunctionUnit
                              /\ [f EXCEPT !.indirect = TRUE].blocks = f.blocks
    BY DEF FunctionUnit
<1>5. \A s \in Seq(Nat) : [Open EXCEPT !.succs = s] \in Block(Nat)
                          /\ [Open EXCEPT !.succs = s].start = Open.start
    BY <1>1 DEF Block
<1>6. ASSUME NEW f \in FunctionUnit, f.blocks = cur.blocks,
             NEW b \in Block(Nat), b.start = Open.start, cur' = CloseBlock(f, b, Next_pc)
      PROVE  \E c \in Block(Nat) : /\ c.start = Open.start /\ c.end = Next_pc
                                   /\ cur'.blocks = Append(cur.blocks, c)
    <2>1. PICK c \in Block(Nat) : /\ c.start = b.start /\ c.end = Next_pc
                                  /\ CloseBlock(f, b, Next_pc).blocks = Append(f.blocks, c)
        BY <1>1, <1>6, ClosedBlocks
    <2> QED BY <1>6, <2>1
<1>7. CASE ConditionalBranch
    <2> DEFINE s == (IF Followed THEN <<TargetOf>> ELSE <<>>) \o <<Next_pc>>
    <2>1. s \in Seq(Nat)
        BY <1>1, <1>2
    <2>2. cur' = CloseBlock(cur, [Open EXCEPT !.succs = s], Next_pc) /\ bb' = NoBlock
        BY <1>7 DEF ConditionalBranch, Continue
    <2> HIDE DEF s
    <2> QED BY <1>1, <1>5, <1>6, <2>1, <2>2
<1>8. CASE Jump
    <2> DEFINE s == IF Followed THEN <<TargetOf>> ELSE <<>>
               f == IF Followed /\ InKnownFunction(TargetOf) THEN AddCallSite(cur, pc, TargetOf) ELSE cur
    <2>1. s \in Seq(Nat) /\ f \in FunctionUnit /\ f.blocks = cur.blocks
        BY <1>1, <1>2, <1>3
    <2>2. cur' = CloseBlock(f, [Open EXCEPT !.succs = s], Next_pc) /\ bb' = NoBlock
        BY <1>8 DEF Jump, Leave
    <2> HIDE DEF s, f
    <2> QED BY <1>1, <1>5, <1>6, <2>1, <2>2
<1>9. CASE IndirectJump
    <2> DEFINE f == [AddCallSite(cur, pc, 0) EXCEPT !.indirect = TRUE]
    <2>1. f \in FunctionUnit /\ f.blocks = cur.blocks
        BY <1>2, <1>3, <1>4
    <2>2. cur' = CloseBlock(f, Open, Next_pc) /\ bb' = NoBlock
        BY <1>9 DEF IndirectJump, Leave
    <2> HIDE DEF f
    <2> QED BY <1>1, <1>6, <2>1, <2>2
<1>10. CASE Return
    BY <1>1, <1>6, <1>10 DEF Return, Leave
<1>11. CASE Trampoline
    <2> DEFINE f == IF image.code[pc].kind = "jmp" THEN AddCallSite(cur, pc, TargetOf)
                    ELSE [cur EXCEPT !.indirect = TRUE]
    <2>1. f \in FunctionUnit /\ f.blocks = cur.blocks
        BY <1>1, <1>3, <1>4
    <2>2. cur' = [CloseBlock(f, Open, Next_pc) EXCEPT !.trampoline = TRUE] /\ bb' = NoBlock
        BY <1>11 DEF Trampoline, Leave
    <2> HIDE DEF f
    <2>3. CloseBlock(f, Open, Next_pc) \in FunctionUnit
        BY <1>1, <2>1, CloseBlockType
    <2>4. cur'.blocks = CloseBlock(f, Open, Next_pc).blocks
        BY <2>2, <2>3 DEF FunctionUnit
    <2>5. PICK c \in Block(Nat) : /\ c.start = Open.start /\ c.end = Next_pc
                                  /\ CloseBlock(f, Open, Next_pc).blocks = Append(f.blocks, c)
        BY <1>1, <2>1, ClosedBlocks
    <2> QED BY <2>1, <2>2, <2>4, <2>5
<1> QED BY <1>7, <1>8, <1>9, <1>10, <1>11

LEMMA DecodeExtends ==
    ASSUME TypeOK, TypeOK', PlainInsn \/ DirectCall \/ MemoryCall \/ IndirectCall
    PROVE  Extends
<1>1. /\ cur \in FunctionUnit /\ TargetOf \in Target /\ 0 \in Target /\ functions' = functions
      /\ at = "decode" /\ Decodes
    BY DecodeShared DEF DecodeInsn, Decodes
<1>2. /\ bb' = Open /\ pc' = Next_pc /\ at' = "decode"
    BY <1>1 DEF PlainInsn, DirectCall, MemoryCall, IndirectCall, Continue
<1>3. ~ IsBranch(pc)
    BY DEF PlainInsn, DirectCall, MemoryCall, IndirectCall, Visit, IsBranch
<1>4. \A t \in Target : /\ AddCallSite(cur, pc, t).blocks = cur.blocks
                        /\ [AddCallSite(cur, pc, t) EXCEPT !.indirect = TRUE].blocks = cur.blocks
    BY <1>1 DEF AddCallSite, FunctionUnit
<1>5. cur'.blocks = cur.blocks
    <2>1. CASE PlainInsn
        BY <2>1 DEF PlainInsn
    <2>2. CASE DirectCall \/ MemoryCall
        <3>1. cur' = AddCallSite(cur, pc, TargetOf)
            BY <2>2 DEF DirectCall, MemoryCall
        <3> QED BY <1>1, <1>4, <3>1
    <2>3. CASE IndirectCall
        <3>1. cur' = [AddCallSite(cur, pc, 0) EXCEPT !.indirect = TRUE]
            BY <2>3 DEF IndirectCall
        <3> QED BY <1>1, <1>4, <3>1
    <2> QED BY <2>1, <2>2, <2>3
<1> QED BY <1>1, <1>2, <1>3, <1>5, SlotsKept DEF Extends

LEMMA BlocksStep ==
    ASSUME TypeOK, TypeOK', OpenInv, [Next]_vars
    PROVE  image' = image /\ (Extends \/ Closes \/ Drops \/ Cuts \/ Rests)
<1>1. image' = image
    BY RebuilderAdds
<1>2. cur \in FunctionUnit /\ cur.blocks \in Seq(Block(Nat)) /\ Len(cur.blocks) \in Nat
      /\ bb \in Block(Nat) /\ pc \in Nat
    BY SlotTypes DEF TypeOK
<1>3. CASE DecodeInsn
    <2>1. CASE PlainInsn \/ DirectCall \/ MemoryCall \/ IndirectCall
        BY <1>1, <2>1, DecodeExtends
    <2>2. CASE Trampoline \/ ConditionalBranch \/ Jump \/ IndirectJump \/ Return
        <3>1. PICK c \in Block(Nat) : /\ c.start = Open.start /\ c.end = Next_pc
                                      /\ cur'.blocks = Append(cur.blocks, c)
            BY <2>2, DecodeCloses
        <3>2. functions' = functions /\ Decodes
            BY <1>3, DecodeShared DEF Decodes
        <3>3. NewSlot(c.start, c.end)
            BY <3>1, <3>2, SlotAdded
        <3> QED BY <1>1, <2>2, <3>1, <3>2, <3>3, DecodeCloses DEF Closes
    <2> QED BY <1>1, <1>3, <2>1, <2>2 DEF DecodeInsn
<1>4. CASE RunIntoVisited
    <2>1. visited' = visited /\ bb' = NoBlock /\ functions' = functions
        BY <1>4 DEF RunIntoVisited, Leave, modelVars
    <2>2. CASE bb = NoBlock
        BY <1>1, <1>4, <2>1, <2>2, SlotsKept DEF RunIntoVisited, Drops
    <2>3. CASE bb # NoBlock
        <3>1. cur'.blocks = Append(cur.blocks, bb)
            BY <1>2, <1>4, <2>3 DEF RunIntoVisited, FunctionUnit
        <3>2. NewSlot(bb.start, bb.end)
            BY <1>2, <2>1, <3>1, SlotAdded
        <3> QED BY <1>1, <2>1, <2>3, <3>2 DEF Drops, OpenInv
    <2> QED BY <2>2, <2>3
<1>5. CASE Undecodable
    <2>1. visited' = visited /\ bb' = NoBlock /\ functions' = functions
        BY <1>5 DEF Undecodable, Leave, modelVars
    <2>2. CASE bb = NoBlock
        BY <1>1, <1>5, <2>1, <2>2, SlotsKept DEF Undecodable, Drops
    <2>3. CASE bb # NoBlock
        <3>1. cur' = CloseBlock(cur, bb, pc)
            BY <1>5, <2>3 DEF Undecodable
        <3>2. PICK c \in Block(Nat) : /\ c.start = bb.start /\ c.end = pc
                                      /\ cur'.blocks = Append(cur.blocks, c)
            BY <1>2, <3>1, ClosedBlocks
        <3>3. NewSlot(c.start, c.end)
            BY <2>1, <3>2, SlotAdded
        <3> QED BY <1>1, <2>1, <2>3, <3>2, <3>3 DEF Drops
    <2> QED BY <2>2, <2>3
<1>6. CASE SplitNext
    <2>1. PICK a \in Entries(cur.blocks) :
            /\ IsNextSplit(cur.blocks, a)
            /\ cur' = [cur EXCEPT !.blocks = SplitBlock(@, BlockAt(@, a), a)]
        BY <1>6 DEF SplitNext
    <2>2. PICK i : i = BlockAt(cur.blocks, a)
        OBVIOUS
    <2>3. i # 0 /\ cur.blocks[i].start # a
        BY <2>1, <2>2 DEF IsNextSplit, NeedsSplit
    <2>4. i \in 1..Len(cur.blocks) /\ Inside(cur.blocks[i], a) /\ a \in Nat
        BY <1>2, <2>2, <2>3, BlockAtFinds, EntriesType
    <2>5. cur'.blocks = SplitBlock(cur.blocks, i, a)
        BY <1>2, <2>1, <2>2 DEF FunctionUnit
    <2>6. functions' = functions /\ visited' = visited /\ bb' = bb /\ bb = NoBlock
        BY <1>6 DEF SplitNext, modelVars, OpenInv
    <2> QED BY <1>1, <2>4, <2>5, <2>6, SlotCut DEF Cuts
<1>7. CASE FinishFunction
    <2>1. visited' = visited /\ bb' = bb /\ bb = NoBlock
        BY <1>7 DEF FinishFunction, OpenInv
    <2> QED BY <1>1, <1>7, <2>1, SlotsFinished DEF Rests
<1>8. CASE StartFunction
    <2>1. functions' = functions /\ visited' = visited /\ bb' = bb /\ bb = NoBlock /\ at = "pop"
        BY <1>8 DEF StartFunction, modelVars, OpenInv
    <2>2. cur'.blocks = cur.blocks
        BY <1>8, <2>1 DEF StartFunction, OpenInv, NewFunction
    <2> QED BY <1>1, <2>1, <2>2, SlotsKept DEF Rests
<1>9. CASE UNCHANGED <<functions, visited, cur, bb>> /\ (bb # NoBlock => pc' = pc /\ at' = at)
    BY <1>1, <1>9, SlotsKept DEF Rests
<1> QED BY <1>3, <1>4, <1>5, <1>6, <1>7, <1>8, <1>9
        DEF Next, Step, vars, modelVars, OpenInv, SkipCandidate, TakeAddress, NoMoreAddresses,
            StartSweep, Sweep, SweepNextSection, EndSweep, EndAnalysis, ReAnalyzeFrom

\* Decoding adds the addresses of the instruction, which no other has taken unless
\* instructions overlap.
LEMMA Fresh ==
    ASSUME TypeOK, image' = image, Decodes
    PROVE  /\ pc \in Nat \ {0} /\ Next_pc \in Nat /\ pc < Next_pc
           /\ Decoded' = Decoded \cup (pc .. Next_pc - 1)
           /\ ~ Overlapping' => \A a \in pc .. Next_pc - 1 : a \notin Decoded
<1>1. pc \in Nat \ {0} /\ image.code[pc].len \in Nat \ {0} /\ Next_pc = pc + image.code[pc].len
    BY MappedFinite, DecodeType DEF Decodes, Next_pc, Insn
<1>2. Decoded' = Decoded \cup (pc .. Next_pc - 1)
    BY <1>1 DEF Decoded, Decodes
<1>3. ASSUME ~ Overlapping', NEW a \in pc .. Next_pc - 1, a \in Decoded PROVE FALSE
    <2>1. PICK v \in visited : a \in v .. v + image.code[v].len - 1
        BY <1>3 DEF Decoded
    <2>2. v \in Nat /\ image.code[v].len \in Nat /\ v # pc
        <3>1. v \in Mapped /\ image.code[v] \in Insn
            BY DEF TypeOK, Image
        <3> QED BY <3>1, MappedFinite DEF Insn, Decodes
    <2>3. v < pc => v < pc /\ pc < v + image.code[v].len
        BY <1>1, <2>1, <2>2
    <2>4. pc < v => pc < v /\ v < pc + image.code[pc].len
        BY <1>1, <2>1, <2>2
    <2> QED BY <1>1, <1>3, <2>2, <2>3, <2>4 DEF Overlapping, Decodes
<1> QED BY <1>1, <1>2, <1>3

LEMMA OpenBlock ==
    ASSUME TypeOK, OpenInv, image' = image, Decodes
    PROVE  /\ Open.start \in visited' /\ Open.start \in Nat \ {0} /\ Open.start <= pc /\ Open.end = 0
           /\ Open.start .. Next_pc - 1 \subseteq Decoded'
           /\ IF bb = NoBlock THEN Open.start = pc ELSE Open = bb
<1>1. pc \in Nat \ {0} /\ Next_pc \in Nat /\ pc < Next_pc /\ Decoded' = Decoded \cup (pc .. Next_pc - 1)
    BY Fresh
<1>2. CASE bb = NoBlock
    <2>1. Open.start = pc /\ Open.end = 0
        BY <1>2 DEF Open, NewBlock
    <2> QED BY <1>1, <1>2, <2>1 DEF Decodes
<1>3. CASE bb # NoBlock
    <2>1. Open = bb
        BY <1>3 DEF Open
    <2>2. bb.start \in visited /\ bb.start \in Nat \ {0} /\ bb.end = 0 /\ bb.start < pc
          /\ bb.start .. pc - 1 \subseteq Decoded
        BY <1>3, MappedFinite DEF OpenInv, TypeOK
    <2>3. bb.start .. Next_pc - 1 \subseteq (bb.start .. pc - 1) \cup (pc .. Next_pc - 1)
        BY <1>1, <2>2
    <2> QED BY <1>1, <1>3, <2>1, <2>2, <2>3 DEF Decodes
<1> QED BY <1>2, <1>3

LEMMA OpenStep ==
    ASSUME TypeOK, TypeOK', OpenInv, [Next]_vars
    PROVE  OpenInv'
<1>1. image' = image /\ (Extends \/ Closes \/ Drops \/ Cuts \/ Rests)
    BY BlocksStep
<1>2. ASSUME bb' # NoBlock
      PROVE  /\ at' = "decode" /\ bb'.end = 0 /\ bb'.start \in visited' /\ bb'.start < pc'
             /\ bb'.start .. pc' - 1 \subseteq Decoded'
    <2>1. CASE Extends
        <3>1. bb' = Open /\ pc' = Next_pc /\ at' = "decode" /\ Decodes
            BY <2>1 DEF Extends
        <3>2. pc < Next_pc /\ pc \in Nat /\ Next_pc \in Nat
            BY <1>1, <3>1, Fresh
        <3> QED BY <1>1, <3>1, <3>2, OpenBlock
    <2>2. CASE Rests
        <3>1. Decoded' = Decoded
            BY <1>1, <2>2 DEF Rests, Decoded
        <3> QED BY <1>2, <2>2, <3>1 DEF Rests, OpenInv
    <2> QED BY <1>1, <1>2, <2>1, <2>2 DEF Closes, Drops, Cuts
<1>3. at' \notin {"work", "decode", "normalize"} => cur'.blocks = <<>>
    BY DEF OpenInv, Next, Step, vars, SkipCandidate, StartFunction, TakeAddress, NoMoreAddresses,
           RunIntoVisited, Undecodable, DecodeInsn, PlainInsn, Trampoline, DirectCall, MemoryCall,
           IndirectCall, ConditionalBranch, Jump, IndirectJump, Return, Visit, Continue, Leave,
           SplitNext, FinishFunction, NoFunction, NewFunction, StartSweep, Sweep, SweepNextSection,
           EndSweep, EndAnalysis, ReAnalyzeFrom
<1> QED BY <1>2, <1>3 DEF OpenInv

-----------------------------------------------------------------------------
(* Blocks are decoded code, and decoded code is in blocks. *)

\* Every block that has been added is decoded code.
ExtentInv ==
    \A k \in Slots :
        IF Slot(k).end # 0
        THEN /\ Slot(k).start < Slot(k).end
             /\ Slot(k).start .. Slot(k).end - 1 \subseteq Decoded
        ELSE Slot(k).start \in visited

LEMMA DecodedGrows ==
    ASSUME TypeOK, TypeOK', OpenInv, [Next]_vars
    PROVE  Decoded \subseteq Decoded' /\ visited \subseteq visited' /\ image' = image
<1>1. image' = image /\ visited \subseteq visited'
    BY RebuilderAdds
<1> QED BY <1>1 DEF Decoded

LEMMA ExtentStep ==
    ASSUME TypeOK, TypeOK', OpenInv, ExtentInv, [Next]_vars
    PROVE  ExtentInv'
<1>1. image' = image /\ (Extends \/ Closes \/ Drops \/ Cuts \/ Rests)
    BY BlocksStep
<1>2. Decoded \subseteq Decoded' /\ visited \subseteq visited'
    BY DecodedGrows
<1> DEFINE Good(first, last) == IF last # 0 THEN first < last /\ first .. last - 1 \subseteq Decoded'
                                ELSE first \in visited'
<1>3. SUFFICES ASSUME NEW k \in Slots' PROVE Good(Slot(k)'.start, Slot(k)'.end)
    BY DEF ExtentInv
<1>4. ASSUME k \in Slots, Stays(k) PROVE Good(Slot(k)'.start, Slot(k)'.end)
    BY <1>2, <1>4 DEF ExtentInv, Stays
<1>5. CASE Extends \/ Rests
    BY <1>4, <1>5 DEF Extends, Rests, SameSlots
<1>6. ASSUME NEW first, NEW last, NewSlot(first, last), Good(first, last)
      PROVE  Good(Slot(k)'.start, Slot(k)'.end)
    BY <1>4, <1>6 DEF NewSlot
<1>7. CASE Closes
    <2>1. Decodes /\ NewSlot(Open.start, Next_pc)
        BY <1>7 DEF Closes
    <2>2. Good(Open.start, Next_pc)
        BY <1>1, <2>1, OpenBlock, Fresh
    <2> HIDE DEF Good
    <2> QED BY <1>6, <2>1, <2>2
<1>8. CASE Drops
    <2>1. CASE bb = NoBlock
        BY <1>4, <1>8, <2>1 DEF Drops, SameSlots
    <2>2. CASE bb # NoBlock
        <3>1. NewSlot(bb.start, 0) \/ NewSlot(bb.start, pc)
            BY <1>8, <2>2 DEF Drops
        <3>2. Good(bb.start, 0) /\ Good(bb.start, pc)
            BY <1>2, <2>2 DEF OpenInv
        <3> HIDE DEF Good
        <3> QED BY <1>6, <3>1, <3>2
    <2> QED BY <2>1, <2>2
<1>9. CASE Cuts
    <2>1. PICK l \in Slots : \E n, a :
            /\ n \notin Slots /\ Slots' = Slots \cup {n}
            /\ \A j \in Slots \ {l} : Stays(j)
            /\ Slot(l).start < a /\ a < Slot(l).end
            /\ Slot(l)'.start = Slot(l).start /\ Slot(l)'.end = a
            /\ Slot(n)'.start = a /\ Slot(n)'.end = Slot(l).end
        BY <1>9 DEF Cuts, CutSlot
    <2>2. PICK n, a :
            /\ n \notin Slots /\ Slots' = Slots \cup {n}
            /\ \A j \in Slots \ {l} : Stays(j)
            /\ Slot(l).start < a /\ a < Slot(l).end
            /\ Slot(l)'.start = Slot(l).start /\ Slot(l)'.end = a
            /\ Slot(n)'.start = a /\ Slot(n)'.end = Slot(l).end
        BY <2>1
    <2>3. Slot(l).start \in Nat /\ Slot(l).end \in Nat /\ a \in Nat
        <3>1. l \in Slots'
            BY <2>2
        <3>2. Slot(l) \in Block(Nat)
            BY SlotTypes
        <3>3. Slot(l)' \in Block(Nat)
            BY <3>1, SlotTypesNext
        <3> QED BY <2>2, <3>2, <3>3 DEF Block
    <2>4. Slot(l).start .. Slot(l).end - 1 \subseteq Decoded'
        BY <1>2, <2>2, <2>3 DEF ExtentInv
    <2>5. Good(Slot(l).start, a) /\ Good(a, Slot(l).end)
        BY <2>2, <2>3, <2>4
    <2> HIDE DEF Good
    <2> QED BY <1>4, <2>2, <2>5
<1> QED BY <1>1, <1>5, <1>7, <1>8, <1>9

\* Every decoded instruction is in a block or in the one under way.
Holds(first, last, a) ==
    IF last # 0 THEN first <= a /\ a < last ELSE first <= a /\ first .. a \subseteq Decoded
HeldInv ==
    \A a \in visited : \/ \E k \in Slots : Holds(Slot(k).start, Slot(k).end, a)
                       \/ bb # NoBlock /\ bb.start <= a /\ a < pc

LEMMA HeldStep ==
    ASSUME TypeOK, TypeOK', OpenInv, HeldInv, [Next]_vars
    PROVE  HeldInv'
<1>1. image' = image /\ (Extends \/ Closes \/ Drops \/ Cuts \/ Rests)
    BY BlocksStep
<1>2. Decoded \subseteq Decoded' /\ visited \subseteq visited'
    BY DecodedGrows
<1> DEFINE H(first, last, a) ==
              IF last # 0 THEN first <= a /\ a < last ELSE first <= a /\ first .. a \subseteq Decoded'
           Goal(a) == \/ \E k \in Slots' : H(Slot(k)'.start, Slot(k)'.end, a)
                      \/ bb' # NoBlock /\ bb'.start <= a /\ a < pc'
<1>3. SUFFICES ASSUME NEW a \in visited' PROVE Goal(a)
    BY DEF HeldInv, Holds
<1>4. a \in Nat /\ pc \in Nat
    BY MappedFinite DEF TypeOK
<1>5. ASSUME NEW first, NEW last, NewSlot(first, last), H(first, last, a) PROVE Goal(a)
    <2>1. PICK n : n \in Slots' /\ Slot(n)'.start = first /\ Slot(n)'.end = last
        BY <1>5 DEF NewSlot
    <2> QED BY <1>5, <2>1
<1>6. ASSUME NEW k \in Slots, k \in Slots', Stays(k), Holds(Slot(k).start, Slot(k).end, a)
      PROVE  Goal(a)
    BY <1>2, <1>6 DEF Holds, Stays
<1> HIDE DEF H, Goal
<1>7. CASE a \notin visited
    <2>1. Decodes /\ a = pc /\ (Extends \/ Closes)
        BY <1>1, <1>3, <1>7 DEF Extends, Closes, Drops, Cuts, Rests, Decodes
    <2>2. Open.start <= pc /\ pc < Next_pc /\ Next_pc \in Nat /\ Open.start \in Nat \ {0}
        BY <1>1, <2>1, OpenBlock, Fresh
    <2>3. CASE Extends
        <3>1. bb' # NoBlock
            BY <2>2, <2>3 DEF Extends, NoBlock, NewBlock
        <3> QED BY <2>1, <2>2, <2>3, <3>1 DEF Extends, Goal
    <2>4. CASE Closes
        <3>1. H(Open.start, Next_pc, a)
            BY <1>4, <2>1, <2>2 DEF H
        <3> QED BY <1>5, <2>4, <3>1 DEF Closes
    <2> QED BY <2>1, <2>3, <2>4
<1>8. CASE a \in visited /\ bb # NoBlock /\ bb.start <= a /\ a < pc
    <2>0. bb.start \in Nat /\ bb.start .. pc - 1 \subseteq Decoded
        BY <1>8 DEF OpenInv, TypeOK, Block
    <2>1. CASE Extends \/ Closes
        <3>1. Decodes /\ Open = bb /\ pc < Next_pc /\ Next_pc \in Nat
            BY <1>1, <1>8, <2>1, OpenBlock, Fresh DEF Extends, Closes
        <3>2. CASE Extends
            BY <1>4, <1>8, <2>0, <3>1, <3>2 DEF Extends, Goal
        <3>3. CASE Closes
            <4>1. H(bb.start, Next_pc, a)
                BY <1>4, <1>8, <2>0, <3>1 DEF H
            <4> QED BY <1>5, <3>1, <3>3, <4>1 DEF Closes
        <3> QED BY <2>1, <3>2, <3>3
    <2>2. CASE Drops
        <3>1. NewSlot(bb.start, 0) \/ NewSlot(bb.start, pc)
            BY <1>8, <2>2 DEF Drops
        <3>2. bb.start .. a \subseteq Decoded'
            BY <1>2, <1>4, <1>8, <2>0
        <3>3. H(bb.start, 0, a) /\ H(bb.start, pc, a)
            BY <1>4, <1>8, <2>0, <3>2 DEF H
        <3> QED BY <1>5, <3>1, <3>3
    <2>3. CASE Rests
        BY <1>8, <2>3 DEF Rests, Goal
    <2> QED BY <1>1, <1>8, <2>1, <2>2, <2>3 DEF Cuts
<1>9. CASE \E k \in Slots : Holds(Slot(k).start, Slot(k).end, a)
    <2>1. PICK k \in Slots : Holds(Slot(k).start, Slot(k).end, a)
        BY <1>9
    <2>2. CASE k \in Slots' /\ Stays(k)
        BY <1>6, <2>1, <2>2
    <2>3. CASE Cuts
        <3>1. PICK l \in Slots : \E n, d :
                /\ n \notin Slots /\ Slots' = Slots \cup {n}
                /\ \A j \in Slots \ {l} : Stays(j)
                /\ Slot(l).start < d /\ d < Slot(l).end
                /\ Slot(l)'.start = Slot(l).start /\ Slot(l)'.end = d
                /\ Slot(n)'.start = d /\ Slot(n)'.end = Slot(l).end
            BY <2>3 DEF Cuts, CutSlot
        <3>2. PICK n, d :
                /\ n \notin Slots /\ Slots' = Slots \cup {n}
                /\ \A j \in Slots \ {l} : Stays(j)
                /\ Slot(l).start < d /\ d < Slot(l).end
                /\ Slot(l)'.start = Slot(l).start /\ Slot(l)'.end = d
                /\ Slot(n)'.start = d /\ Slot(n)'.end = Slot(l).end
            BY <3>1
        <3>3. k # l => Goal(a)
            BY <2>2, <3>2
        <3>4. Slot(l).start \in Nat /\ Slot(l).end \in Nat /\ d \in Nat
            <4>1. l \in Slots'
                BY <3>2
            <4>2. Slot(l) \in Block(Nat) /\ Slot(l)' \in Block(Nat)
                BY <4>1, SlotTypes, SlotTypesNext
            <4> QED BY <3>2, <4>2 DEF Block
        <3>5. CASE k = l
            <4>1. Slot(l).start <= a /\ a < Slot(l).end
                BY <2>1, <3>2, <3>4, <3>5 DEF Holds
            <4>2. a < d => H(Slot(l)'.start, Slot(l)'.end, a)
                BY <1>4, <3>2, <3>4, <4>1 DEF H
            <4>3. ~ (a < d) => H(Slot(n)'.start, Slot(n)'.end, a)
                BY <1>4, <3>2, <3>4, <4>1 DEF H
            <4>4. l \in Slots' /\ n \in Slots'
                BY <3>2
            <4> QED BY <4>2, <4>3, <4>4 DEF Goal
        <3> QED BY <3>3, <3>5
    <2>4. CASE Extends \/ Closes \/ Drops \/ Rests
        <3>1. k \in Slots' /\ Stays(k)
            BY <2>4 DEF Extends, Closes, Drops, Rests, SameSlots, NewSlot
        <3> QED BY <2>2, <3>1
    <2> QED BY <1>1, <2>3, <2>4
<1> QED BY <1>7, <1>8, <1>9 DEF HeldInv

-----------------------------------------------------------------------------
(* Blocks share nothing, and end where control may leave. *)

\* Unless instructions overlap, no two blocks share an address, and only at the end
\* of a block is there a branch.  A block that was added open owns where it starts.
Owns(first, last, a) == a = first \/ (first <= a /\ a < last)
ApartInv ==
    ~ Overlapping =>
        /\ \A k \in Slots : \A a, c \in visited :
              Slot(k).start <= a /\ a < c /\ c < Slot(k).end => ~ IsBranch(a)
        /\ \A k, l \in Slots : k # l =>
              \A a \in Decoded : ~ (/\ Owns(Slot(k).start, Slot(k).end, a)
                                    /\ Owns(Slot(l).start, Slot(l).end, a))
        /\ bb # NoBlock =>
              /\ \A a \in visited : bb.start <= a /\ a < pc => ~ IsBranch(a)
              /\ \A k \in Slots : \A a \in Decoded :
                    Owns(Slot(k).start, Slot(k).end, a) => ~ (bb.start <= a /\ a < pc)

LEMMA VisitedIsDecoded ==
    ASSUME TypeOK
    PROVE  visited \subseteq Decoded /\ Decoded \subseteq Nat /\ visited \subseteq Nat
<1>1. ASSUME NEW v \in visited
      PROVE  v \in Nat /\ image.code[v].len \in Nat \ {0}
    <2>1. v \in Mapped /\ image.code[v] \in Insn
        BY DEF TypeOK, Image
    <2> QED BY <2>1, MappedFinite DEF Insn
<1>2. ASSUME NEW v \in visited PROVE v \in Decoded
    <2>1. v \in v .. v + image.code[v].len - 1
        BY <1>1
    <2> QED BY <2>1 DEF Decoded
<1>3. ASSUME NEW a \in Decoded PROVE a \in Nat
    <2>1. PICK v \in visited : a \in v .. v + image.code[v].len - 1
        BY DEF Decoded
    <2> QED BY <1>1, <2>1
<1> QED BY <1>1, <1>2, <1>3

\* What was apart stays apart, whatever instruction is decoded.
LEMMA OldApart ==
    ASSUME TypeOK, TypeOK', OpenInv, ExtentInv, ApartInv, image' = image, ~ Overlapping',
           Decodes \/ visited' = visited
    PROVE  /\ \A k \in Slots : \A a \in Decoded' : Owns(Slot(k).start, Slot(k).end, a) => a \in Decoded
           /\ \A k \in Slots : \A a, c \in visited' :
                 Slot(k).start <= a /\ a < c /\ c < Slot(k).end => ~ IsBranch(a)
           /\ \A k, l \in Slots : k # l =>
                 \A a \in Decoded' : ~ (/\ Owns(Slot(k).start, Slot(k).end, a)
                                        /\ Owns(Slot(l).start, Slot(l).end, a))
           /\ bb # NoBlock =>
                 /\ \A a \in visited : bb.start <= a /\ a < pc => ~ IsBranch(a)
                 /\ \A k \in Slots : \A a \in Decoded' :
                       Owns(Slot(k).start, Slot(k).end, a) => ~ (bb.start <= a /\ a < pc)
<1>1. visited \subseteq Decoded /\ Decoded' \subseteq Nat /\ visited' \subseteq Nat
      /\ visited' \subseteq Decoded'
    <2>1. visited' \subseteq Mapped
        BY DEF TypeOK
    <2>2. CASE Decodes
        <3>1. Decoded' = Decoded \cup (pc .. Next_pc - 1) /\ pc \in Nat /\ Next_pc \in Nat /\ pc < Next_pc
            BY <2>2, Fresh
        <3>2. pc \in pc .. Next_pc - 1
            BY <3>1
        <3> QED BY <2>1, <2>2, <3>1, <3>2, VisitedIsDecoded, MappedFinite DEF Decodes
    <2>3. CASE visited' = visited
        <3>1. Decoded' = Decoded
            BY <2>3 DEF Decoded
        <3> QED BY <2>3, <3>1, VisitedIsDecoded
    <2> QED BY <2>2, <2>3
<1>2. ~ Overlapping
    <2>1. visited \subseteq visited'
        BY DEF Decodes
    <2> QED BY <2>1 DEF Overlapping
<1>3. ASSUME NEW k \in Slots, NEW a \in Nat, Owns(Slot(k).start, Slot(k).end, a)
      PROVE  a \in Decoded
    <2>1. Slot(k).start \in Nat /\ Slot(k).end \in Nat
        BY SlotTypes DEF Block
    <2>2. CASE Slot(k).end # 0
        <3>1. a \in Slot(k).start .. Slot(k).end - 1
            BY <1>3, <2>1, <2>2 DEF Owns, ExtentInv
        <3> QED BY <2>2, <3>1 DEF ExtentInv
    <2>3. CASE Slot(k).end = 0
        <3>1. a = Slot(k).start
            BY <1>3, <2>1, <2>3 DEF Owns
        <3> QED BY <1>1, <2>3, <3>1 DEF ExtentInv
    <2> QED BY <2>2, <2>3
<1>4. \A k \in Slots : \A a \in Decoded' : Owns(Slot(k).start, Slot(k).end, a) => a \in Decoded
    BY <1>1, <1>3
<1>5. ASSUME NEW k \in Slots, NEW a \in visited', NEW c \in visited',
             Slot(k).start <= a, a < c, c < Slot(k).end
      PROVE  ~ IsBranch(a)
    <2>1. a \in Nat /\ c \in Nat /\ Slot(k).start \in Nat /\ Slot(k).end \in Nat
        BY <1>1, SlotTypes DEF Block
    <2>2. Owns(Slot(k).start, Slot(k).end, a) /\ Owns(Slot(k).start, Slot(k).end, c)
        BY <1>5, <2>1 DEF Owns
    <2>3. a \in Decoded /\ c \in Decoded
        BY <1>3, <2>1, <2>2
    <2>4. a \in visited /\ c \in visited
        <3>1. CASE Decodes
            <4>1. pc \in pc .. Next_pc - 1
                BY <3>1, Fresh
            <4>2. pc \notin Decoded
                BY <3>1, <4>1, Fresh
            <4> QED BY <2>3, <3>1, <4>2 DEF Decodes
        <3> QED BY <3>1
    <2> QED BY <1>2, <1>5, <2>4 DEF ApartInv
<1>6. \A k, l \in Slots : k # l =>
          \A a \in Decoded' : ~ (/\ Owns(Slot(k).start, Slot(k).end, a)
                                 /\ Owns(Slot(l).start, Slot(l).end, a))
    BY <1>2, <1>4 DEF ApartInv
<1>7. bb # NoBlock =>
          /\ \A a \in visited : bb.start <= a /\ a < pc => ~ IsBranch(a)
          /\ \A k \in Slots : \A a \in Decoded' :
                Owns(Slot(k).start, Slot(k).end, a) => ~ (bb.start <= a /\ a < pc)
    BY <1>2, <1>4 DEF ApartInv
<1> QED BY <1>4, <1>5, <1>6, <1>7

\* So does the block under way, with the instruction it is extended by.
LEMMA OpenApart ==
    ASSUME TypeOK, TypeOK', OpenInv, ExtentInv, ApartInv, image' = image, ~ Overlapping', Decodes
    PROVE  /\ \A a \in visited' : Open.start <= a /\ a < Next_pc => a <= pc /\ (a < pc => ~ IsBranch(a))
           /\ \A k \in Slots : \A a \in Decoded' :
                 Owns(Slot(k).start, Slot(k).end, a) => ~ (Open.start <= a /\ a < Next_pc)
<1>1. /\ pc \in Nat /\ Next_pc \in Nat /\ pc < Next_pc
      /\ \A a \in pc .. Next_pc - 1 : a \notin Decoded
    BY Fresh
<1>2. IF bb = NoBlock THEN Open.start = pc ELSE Open = bb
    BY OpenBlock
<1>3. visited \subseteq Decoded /\ visited \subseteq Nat /\ Decoded \subseteq Nat
    BY VisitedIsDecoded
<1>4. ASSUME NEW a \in visited', Open.start <= a, a < Next_pc
      PROVE  a <= pc /\ (a < pc => ~ IsBranch(a))
    <2>1. a = pc \/ a \in visited
        BY DEF Decodes
    <2>2. a \in visited => a < pc
        BY <1>1, <1>3, <1>4
    <2>3. a \in visited => bb # NoBlock /\ ~ IsBranch(a)
        BY <1>1, <1>2, <1>3, <1>4, <2>2, OldApart
    <2>4. CASE a = pc
        <3>1. a <= pc /\ ~ (a < pc)
            BY <1>1, <2>4
        <3> QED BY <3>1
    <2>5. CASE a \in visited
        <3>1. a < pc
            BY <2>2, <2>5
        <3>2. a \in Nat
            BY <1>3, <2>5
        <3>3. a <= pc
            BY <1>1, <3>1, <3>2
        <3> QED BY <3>3, <2>3, <2>5
    <2> QED BY <2>1, <2>4, <2>5
<1>5. ASSUME NEW k \in Slots, NEW a \in Decoded', Owns(Slot(k).start, Slot(k).end, a),
             Open.start <= a, a < Next_pc
      PROVE  FALSE
    <2>1. a \in Decoded
        BY <1>5, OldApart
    <2>2. a < pc
        BY <1>1, <1>3, <1>5, <2>1
    <2>3. bb # NoBlock /\ Open = bb
        BY <1>1, <1>2, <1>3, <1>5, <2>1, <2>2
    <2> QED BY <1>5, <2>2, <2>3, OldApart
<1> QED BY <1>4, <1>5

\* A block more that shares no address with any keeps them all apart.
LEMMA NewApart ==
    ASSUME TypeOK, TypeOK', OpenInv, ExtentInv, ApartInv, image' = image, ~ Overlapping',
           Decodes \/ visited' = visited,
           NEW first, NEW last, NewSlot(first, last), bb' = NoBlock,
           \A a, c \in visited' : first <= a /\ a < c /\ c < last => ~ IsBranch(a),
           \A k \in Slots : \A a \in Decoded' :
              Owns(Slot(k).start, Slot(k).end, a) => ~ Owns(first, last, a)
    PROVE  ApartInv'
<1>1. PICK n : /\ n \notin Slots /\ Slots' = Slots \cup {n}
               /\ \A k \in Slots : Stays(k)
               /\ Slot(n)'.start = first /\ Slot(n)'.end = last
    BY DEF NewSlot
<1>2. ASSUME NEW k \in Slots', NEW a \in visited', NEW c \in visited',
             Slot(k)'.start <= a, a < c, c < Slot(k)'.end
      PROVE  ~ IsBranch(a)
    <2>1. CASE k = n
        BY <1>1, <1>2, <2>1
    <2>2. CASE k \in Slots
        <3>1. Slot(k).start <= a /\ c < Slot(k).end
            BY <1>1, <1>2, <2>2 DEF Stays
        <3> QED BY <1>2, <2>2, <3>1, OldApart
    <2> QED BY <1>1, <2>1, <2>2
<1>3. ASSUME NEW k \in Slots', NEW l \in Slots', k # l, NEW a \in Decoded',
             Owns(Slot(k)'.start, Slot(k)'.end, a), Owns(Slot(l)'.start, Slot(l)'.end, a)
      PROVE  FALSE
    <2>1. \A j \in Slots : Slot(j)'.start = Slot(j).start /\ Slot(j)'.end = Slot(j).end
        BY <1>1 DEF Stays
    <2>2. CASE k \in Slots /\ l \in Slots
        BY <1>3, <2>1, <2>2, OldApart
    <2>3. CASE k = n \/ l = n
        BY <1>1, <1>3, <2>1, <2>3
    <2> QED BY <1>1, <2>2, <2>3
<1>4. \A a : IsBranch(a)' = IsBranch(a)
    BY DEF IsBranch
<1> QED BY <1>2, <1>3, <1>4 DEF ApartInv

LEMMA CutApart ==
    ASSUME TypeOK, TypeOK', OpenInv, ExtentInv, ApartInv, image' = image, ~ Overlapping', Cuts
    PROVE  ApartInv'
<1>0. visited' = visited /\ bb' = NoBlock
    BY DEF Cuts
<1>1. PICK l \in Slots : \E n, d :
        /\ n \notin Slots /\ Slots' = Slots \cup {n}
        /\ \A j \in Slots \ {l} : Stays(j)
        /\ Slot(l).start < d /\ d < Slot(l).end
        /\ Slot(l)'.start = Slot(l).start /\ Slot(l)'.end = d
        /\ Slot(n)'.start = d /\ Slot(n)'.end = Slot(l).end
    BY DEF Cuts, CutSlot
<1>2. PICK n, d :
        /\ n \notin Slots /\ Slots' = Slots \cup {n}
        /\ \A j \in Slots \ {l} : Stays(j)
        /\ Slot(l).start < d /\ d < Slot(l).end
        /\ Slot(l)'.start = Slot(l).start /\ Slot(l)'.end = d
        /\ Slot(n)'.start = d /\ Slot(n)'.end = Slot(l).end
    BY <1>1
<1>3. Slot(l).start \in Nat /\ Slot(l).end \in Nat /\ d \in Nat
    <2>1. l \in Slots'
        BY <1>2
    <2>2. Slot(l) \in Block(Nat) /\ Slot(l)' \in Block(Nat)
        BY <2>1, SlotTypes, SlotTypesNext
    <2> QED BY <1>2, <2>2 DEF Block
<1>4. Decoded' = Decoded /\ visited \subseteq Nat /\ Decoded \subseteq Nat
    BY <1>0, VisitedIsDecoded DEF Decoded
\* Where a block of the vector comes from.
<1> DEFINE From(k) == IF k = n THEN l ELSE k
<1>5. ASSUME NEW k \in Slots', NEW a \in Nat, Slot(k)'.start <= a, a < Slot(k)'.end
      PROVE  From(k) \in Slots /\ Slot(From(k)).start <= a /\ a < Slot(From(k)).end
    <2>1. CASE k = n \/ k = l
        BY <1>2, <1>3, <1>5, <2>1
    <2>2. CASE k # n /\ k # l
        BY <1>2, <1>5, <2>2 DEF Stays
    <2> QED BY <2>1, <2>2
<1>6. ASSUME NEW k \in Slots', NEW a \in Nat, Owns(Slot(k)'.start, Slot(k)'.end, a)
      PROVE  From(k) \in Slots /\ Owns(Slot(From(k)).start, Slot(From(k)).end, a)
    <2>1. CASE k = n \/ k = l
        BY <1>2, <1>3, <1>6, <2>1 DEF Owns
    <2>2. CASE k # n /\ k # l
        BY <1>2, <1>6, <2>2 DEF Stays
    <2> QED BY <2>1, <2>2
<1>7. ASSUME NEW k \in Slots', NEW a \in visited', NEW c \in visited',
             Slot(k)'.start <= a, a < c, c < Slot(k)'.end
      PROVE  ~ IsBranch(a)
    <2>1. k \in Slots' /\ a \in Nat /\ c \in Nat /\ Slot(k)'.start \in Nat /\ Slot(k)'.end \in Nat
        BY <1>0, <1>4, SlotTypesNext DEF Block
    <2>2. a < Slot(k)'.end /\ Slot(k)'.start <= c
        BY <1>7, <2>1
    <2>3. From(k) \in Slots /\ Slot(From(k)).start <= a /\ c < Slot(From(k)).end
        BY <1>5, <1>7, <2>1, <2>2
    <2> HIDE DEF From
    <2> QED BY <1>7, <1>0, <2>3, OldApart
<1>8. ASSUME NEW k \in Slots', NEW j \in Slots', k # j, NEW a \in Decoded',
             Owns(Slot(k)'.start, Slot(k)'.end, a), Owns(Slot(j)'.start, Slot(j)'.end, a)
      PROVE  FALSE
    <2>1. a \in Nat
        BY <1>4
    <2>2. /\ From(k) \in Slots /\ Owns(Slot(From(k)).start, Slot(From(k)).end, a)
          /\ From(j) \in Slots /\ Owns(Slot(From(j)).start, Slot(From(j)).end, a)
        BY <1>6, <1>8, <2>1
    <2>3. CASE From(k) # From(j)
        <3> HIDE DEF From
        <3> QED BY <1>0, <1>8, <2>2, <2>3, OldApart
    <2>4. CASE From(k) = From(j)
        <3>1. (k = l /\ j = n) \/ (k = n /\ j = l)
            BY <1>8, <2>4
        <3> QED BY <1>2, <1>3, <1>8, <2>1, <3>1 DEF Owns
    <2> QED BY <2>3, <2>4
<1>9. \A a : IsBranch(a)' = IsBranch(a)
    BY DEF IsBranch
<1> QED BY <1>0, <1>7, <1>8, <1>9 DEF ApartInv

LEMMA ApartStep ==
    ASSUME TypeOK, TypeOK', OpenInv, ExtentInv, ApartInv, [Next]_vars
    PROVE  ApartInv'
<1>1. image' = image /\ (Extends \/ Closes \/ Drops \/ Cuts \/ Rests)
    BY BlocksStep
<1>2. CASE Overlapping'
    BY <1>2 DEF ApartInv
<1>3. CASE ~ Overlapping' /\ Extends
    <2>1. Decodes /\ bb' = Open /\ pc' = Next_pc /\ ~ IsBranch(pc) /\ Slots' = Slots
          /\ \A k \in Slots : Slot(k)'.start = Slot(k).start /\ Slot(k)'.end = Slot(k).end
        BY <1>3 DEF Extends, SameSlots, Stays
    <2>2. ASSUME NEW a \in visited', Open.start <= a, a < Next_pc PROVE ~ IsBranch(a)
        <3>1. a <= pc /\ (a < pc => ~ IsBranch(a)) /\ a \in Nat /\ pc \in Nat
            BY <1>1, <1>3, <2>1, <2>2, OpenApart, MappedFinite DEF TypeOK
        <3> QED BY <2>1, <3>1
    <2>3. /\ \A k \in Slots : \A a, c \in visited' :
                Slot(k).start <= a /\ a < c /\ c < Slot(k).end => ~ IsBranch(a)
          /\ \A k, l \in Slots : k # l =>
                \A a \in Decoded' : ~ (/\ Owns(Slot(k).start, Slot(k).end, a)
                                       /\ Owns(Slot(l).start, Slot(l).end, a))
        BY <1>1, <1>3, <2>1, OldApart
    <2>4. \A k \in Slots : \A a \in Decoded' :
              Owns(Slot(k).start, Slot(k).end, a) => ~ (Open.start <= a /\ a < Next_pc)
        BY <1>1, <1>3, <2>1, OpenApart
    <2>5. \A a : IsBranch(a)' = IsBranch(a)
        BY <1>1 DEF IsBranch
    <2> QED BY <2>1, <2>2, <2>3, <2>4, <2>5 DEF ApartInv
<1>4. CASE ~ Overlapping' /\ Closes
    <2>1. Decodes /\ NewSlot(Open.start, Next_pc) /\ bb' = NoBlock
        BY <1>4 DEF Closes
    <2>2. pc \in Nat /\ Next_pc \in Nat /\ pc < Next_pc /\ Open.start \in Nat /\ Open.start <= pc
        BY <1>1, <2>1, Fresh, OpenBlock
    <2>3. ASSUME NEW a \in visited', NEW c \in visited', Open.start <= a, a < c, c < Next_pc
          PROVE  ~ IsBranch(a)
        <3>1. a \in Nat /\ c \in Nat
            BY MappedFinite DEF TypeOK
        <3>2. c <= pc
            BY <1>1, <1>4, <2>1, <2>2, <2>3, <3>1, OpenApart
        <3>3. a < pc /\ a < Next_pc
            BY <2>2, <2>3, <3>1, <3>2
        <3> QED BY <1>1, <1>4, <2>1, <2>3, <3>3, OpenApart
    <2>4. \A k \in Slots : \A a \in Decoded' :
              Owns(Slot(k).start, Slot(k).end, a) => ~ (Open.start <= a /\ a < Next_pc)
        BY <1>1, <1>4, <2>1, OpenApart
    <2>5. \A a : Owns(Open.start, Next_pc, a) => Open.start <= a /\ a < Next_pc
        BY <2>2 DEF Owns
    <2> QED BY <1>1, <1>4, <2>1, <2>3, <2>4, <2>5, NewApart
<1>5. CASE ~ Overlapping' /\ Drops
    <2>1. visited' = visited /\ bb' = NoBlock
        BY <1>5 DEF Drops
    <2>2. CASE bb = NoBlock
        <3>1. Slots' = Slots
              /\ \A k \in Slots : Slot(k)'.start = Slot(k).start /\ Slot(k)'.end = Slot(k).end
            BY <1>5, <2>2 DEF Drops, SameSlots, Stays
        <3>2. \A a : IsBranch(a)' = IsBranch(a)
            BY <1>1 DEF IsBranch
        <3> QED BY <1>1, <1>5, <2>1, <3>1, <3>2, OldApart DEF ApartInv
    <2>3. CASE bb # NoBlock
        <3>1. bb.start \in Nat /\ pc \in Nat /\ bb.start < pc
            BY <2>3 DEF OpenInv, TypeOK, Block
        <3>2. /\ \A a \in visited : bb.start <= a /\ a < pc => ~ IsBranch(a)
              /\ \A k \in Slots : \A a \in Decoded' :
                    Owns(Slot(k).start, Slot(k).end, a) => ~ (bb.start <= a /\ a < pc)
            BY <1>1, <1>5, <2>1, <2>3, OldApart
        <3>3. ASSUME NEW last \in {0, pc}, NewSlot(bb.start, last) PROVE ApartInv'
            <4>1. \A a \in Nat : Owns(bb.start, last, a) => bb.start <= a /\ a < pc
                BY <3>1 DEF Owns
            <4>2. visited' \subseteq Nat /\ Decoded' \subseteq Nat
                <5>1. Decoded' = Decoded
                    BY <1>1, <2>1 DEF Decoded
                <5> QED BY <2>1, <5>1, VisitedIsDecoded
            <4>3. ASSUME NEW a \in visited', NEW c \in visited', bb.start <= a, a < c, c < last
                  PROVE  ~ IsBranch(a)
                <5>1. a < pc
                    BY <3>1, <4>2, <4>3
                <5> QED BY <2>1, <3>2, <4>3, <5>1
            <4>4. \A k \in Slots : \A a \in Decoded' :
                      Owns(Slot(k).start, Slot(k).end, a) => ~ Owns(bb.start, last, a)
                BY <3>2, <4>1, <4>2
            <4> QED BY <1>1, <1>5, <2>1, <3>3, <4>3, <4>4, NewApart
        <3> QED BY <1>5, <2>3, <3>3 DEF Drops
    <2> QED BY <2>2, <2>3
<1>6. CASE ~ Overlapping' /\ Cuts
    BY <1>1, <1>6, CutApart
<1>7. CASE ~ Overlapping' /\ Rests
    <2>1. visited' = visited /\ bb' = bb /\ (bb # NoBlock => pc' = pc) /\ Slots' = Slots
          /\ \A k \in Slots : Slot(k)'.start = Slot(k).start /\ Slot(k)'.end = Slot(k).end
        BY <1>7 DEF Rests, SameSlots, Stays
    <2>2. \A a : IsBranch(a)' = IsBranch(a)
        BY <1>1 DEF IsBranch
    <2> QED BY <1>1, <1>7, <2>1, <2>2, OldApart DEF ApartInv
<1> QED BY <1>1, <1>2, <1>3, <1>4, <1>5, <1>6, <1>7

\* A lookup finds a block whenever one starts at the address or holds it inside.
LEMMA BlockAtAnswers ==
    ASSUME NEW blocks, Len(blocks) \in Nat, NEW a, NEW m \in 1..Len(blocks),
           blocks[m].start = a \/ Inside(blocks[m], a)
    PROVE  BlockAt(blocks, a) # 0
<1> DEFINE I == {i \in 1..Len(blocks) : blocks[i].start = a \/ Inside(blocks[i], a)}
<1>1. I # {} /\ I \in SUBSET Nat /\ \A i \in I : i # 0
    OBVIOUS
<1>2. BlockAt(blocks, a) = IF I # {} THEN Min(I) ELSE 0
    BY DEF BlockAt, SelectInSeq
<1> HIDE DEF I
<1>3. Min(I) \in I
    BY <1>1, NatMin
<1> QED BY <1>1, <1>2, <1>3

\* No branch of a finished function leads into a block of it.
EntriesInv ==
    ~ Overlapping =>
        \A f \in ToSet(functions) : \A b \in Closed(f) : \A a \in Entries(f.blocks) :
            ~ (b.start < a /\ a < b.end)

\* When nothing is left to split, no branch leads into a block: the block that the
\* lookup finds first is the only one that holds the address.
LEMMA NormalizedHasNoEntryInside ==
    ASSUME TypeOK, ExtentInv, ApartInv, ~ Overlapping, Normalized(cur.blocks),
           NEW m \in 1..Len(cur.blocks), NEW a \in Entries(cur.blocks),
           cur.blocks[m].start < a, a < cur.blocks[m].end
    PROVE  FALSE
<1> DEFINE k(i) == <<Len(functions) + 1, i>>
<1>1. functions \in Seq(FunctionUnit) /\ cur \in FunctionUnit /\ cur.blocks \in Seq(Block(Nat))
      /\ Len(functions) \in Nat /\ Len(cur.blocks) \in Nat /\ a \in Nat
    BY SlotTypes, EntriesType
<1>2. PICK i : i = BlockAt(cur.blocks, a)
    OBVIOUS
<1>3. i # 0
    BY <1>1, <1>2, BlockAtAnswers DEF Inside
<1>4. i \in 1..Len(cur.blocks) /\ cur.blocks[i].start = a
    <2>1. i \in 1..Len(cur.blocks)
        BY <1>1, <1>2, <1>3, BlockAtFinds
    <2> QED BY <1>2, <1>3, <2>1 DEF Normalized, NeedsSplit
<1>5. ASSUME NEW j \in 1..Len(cur.blocks) PROVE k(j) \in Slots /\ Slot(k(j)) = cur.blocks[j]
    BY <1>1, SlotList DEF Slots, Slot
<1>6. cur.blocks[m].start \in Nat /\ cur.blocks[m].end \in Nat
    <2>1. cur.blocks[m] \in Block(Nat)
        BY <1>1, ElementOfSeq
    <2> QED BY <2>1 DEF Block
<1>7. k(m) # k(i)
    <2>1. m # i
        BY <1>1, <1>4, <1>6
    <2> QED BY <2>1
<1>8. Owns(Slot(k(i)).start, Slot(k(i)).end, a) /\ Owns(Slot(k(m)).start, Slot(k(m)).end, a)
    <2>1. cur.blocks[m].start <= a
        BY <1>1, <1>6
    <2> QED BY <1>4, <1>5, <2>1 DEF Owns
<1>9. a \in Decoded
    <2>1. Slot(k(m)).end # 0 /\ a \in Slot(k(m)).start .. Slot(k(m)).end - 1
        BY <1>1, <1>5, <1>6
    <2> HIDE DEF k
    <2> QED BY <1>5, <2>1 DEF ExtentInv
<1>10. k(i) \in Slots /\ k(m) \in Slots
    BY <1>4, <1>5
<1> HIDE DEF k
<1> QED BY <1>7, <1>8, <1>9, <1>10 DEF ApartInv

LEMMA EntriesStep ==
    ASSUME TypeOK, ExtentInv, ApartInv, EntriesInv, [Next]_vars
    PROVE  EntriesInv'
<1> SUFFICES ASSUME ~ Overlapping',
                    NEW f \in ToSet(functions'), NEW b \in Closed(f), NEW a \in Entries(f.blocks),
                    b.start < a, a < b.end
             PROVE  FALSE
    BY DEF EntriesInv, Closed
<1>1. image' = image /\ visited \subseteq visited'
    BY RebuilderAdds
<1>2. ~ Overlapping
    BY <1>1 DEF Overlapping
<1>3. CASE f \in ToSet(functions)
    BY <1>2, <1>3 DEF EntriesInv
<1>4. CASE f \notin ToSet(functions)
    <2>1. FinishFunction
        BY <1>4 DEF Next, Step, vars, modelVars, SkipCandidate, StartFunction, TakeAddress, NoMoreAddresses,
           RunIntoVisited, Undecodable, DecodeInsn, PlainInsn, Trampoline, DirectCall, MemoryCall,
           IndirectCall, ConditionalBranch, Jump, IndirectJump, Return, SplitNext,
           StartSweep, Sweep, SweepNextSection, EndSweep, EndAnalysis, ReAnalyzeFrom
    <2>2. PICK g \in FunctionUnit : functions' = Append(functions, g)
                                    /\ g.blocks = WithPredecessors(cur.blocks)
        BY <2>1, Finished
    <2>3. functions \in Seq(FunctionUnit) /\ cur.blocks \in Seq(Block(Nat)) /\ Len(cur.blocks) \in Nat
        BY SlotTypes
    <2>4. f.blocks = WithPredecessors(cur.blocks)
        BY <1>4, <2>2, <2>3, PushElements
    <2>5. WithPredecessors(cur.blocks) \in Seq(Block(Nat))
        BY <2>3, WithPredecessorsType
    <2>6. PICK m \in 1..Len(cur.blocks) : b = f.blocks[m]
        BY <2>3, <2>4, <2>5, WithPredecessorsKeeps, Elements DEF Closed
    <2>7. cur.blocks[m].start < a /\ a < cur.blocks[m].end
        BY <2>3, <2>4, <2>6, WithPredecessorsKeeps
    <2>8. a \in Entries(cur.blocks)
        <3>1. \A c \in ToSet(f.blocks) : \E d \in ToSet(cur.blocks) :
                 c.start = d.start /\ c.succs = d.succs
            <4> SUFFICES ASSUME NEW c \in ToSet(f.blocks)
                         PROVE  \E d \in ToSet(cur.blocks) : c.start = d.start /\ c.succs = d.succs
                OBVIOUS
            <4>1. PICK j \in 1..Len(cur.blocks) : c = f.blocks[j]
                BY <2>3, <2>4, <2>5, WithPredecessorsKeeps, Elements
            <4>2. cur.blocks[j] \in ToSet(cur.blocks)
                BY <2>3, Elements
            <4> QED BY <2>3, <2>4, <4>1, <4>2, WithPredecessorsKeeps
        <3> QED BY <3>1 DEF Entries
    <2>9. Normalized(cur.blocks)
        BY <2>1 DEF FinishFunction
    <2> QED BY <1>2, <2>6, <2>7, <2>8, <2>9, NormalizedHasNoEntryInside
<1> QED BY <1>3, <1>4

-----------------------------------------------------------------------------
(* The results about the blocks. *)

BlocksInv == OpenInv /\ ExtentInv /\ HeldInv /\ ApartInv /\ EntriesInv

LEMMA BlocksInitially == Init => BlocksInv
<1> SUFFICES ASSUME Init PROVE BlocksInv
    OBVIOUS
<1>1. functions = <<>> /\ cur = NoFunction /\ visited = {} /\ bb = NoBlock /\ cur.blocks = <<>>
    BY DEF Init, NoFunction, NewFunction
<1>2. Slots = {}
    <2>1. functions \in Seq(FunctionUnit) /\ cur \in FunctionUnit
        BY InitType DEF TypeOK
    <2>2. \A k \in Slots : k = <<k[1], k[2]>>
        BY <2>1, SlotList DEF Slots
    <2>3. \A i, m : <<i, m>> \notin Slots
        <3>1. 1..Len(functions) = {} /\ 1..Len(cur.blocks) = {}
            BY <1>1
        <3> QED BY <2>1, <3>1, SlotList DEF Slots
    <2> QED BY <2>2, <2>3
<1>3. ToSet(functions) = {}
    BY <1>1 DEF ToSet
<1> QED BY <1>1, <1>2, <1>3 DEF BlocksInv, OpenInv, ExtentInv, HeldInv, ApartInv, EntriesInv

LEMMA BlocksInvStep == TypeOK /\ BlocksInv /\ TypeOK' /\ [Next]_vars => BlocksInv'
BY OpenStep, ExtentStep, HeldStep, ApartStep, EntriesStep DEF BlocksInv

LEMMA BlocksInvHolds == Spec => [](TypeOK /\ BlocksInv)
BY BlocksInitially, InitType, StepType, BlocksInvStep, PTL DEF Spec

\* Every block of a finished function has a place, and between functions these are
\* all the places.
LEMMA PlaceOf ==
    ASSUME TypeOK, NEW f \in ToSet(functions), NEW b \in ToSet(f.blocks)
    PROVE  \E i \in 1..Len(functions) : \E m \in 1..Len(functions[i].blocks) :
              /\ f = functions[i] /\ b = functions[i].blocks[m]
              /\ <<i, m>> \in Slots /\ Slot(<<i, m>>) = b
<1>1. functions \in Seq(FunctionUnit) /\ cur \in FunctionUnit
    BY DEF TypeOK
<1>2. PICK i \in 1..Len(functions) : f = functions[i]
    BY <1>1, Elements
<1>3. f.blocks \in Seq(Block(Nat))
    <2>1. f \in FunctionUnit
        BY <1>1, <1>2, ElementOfSeq
    <2> QED BY <2>1 DEF FunctionUnit
<1>4. PICK m \in 1..Len(f.blocks) : b = f.blocks[m]
    BY <1>3, Elements
<1>5. <<i, m>> \in Slots /\ Slot(<<i, m>>) = functions[i].blocks[m]
    BY <1>1, <1>2, <1>4, SlotList DEF Slots, Slot
<1> QED BY <1>2, <1>4, <1>5

LEMMA PlacesOnPop ==
    ASSUME TypeOK, OpenInv, at = "pop", NEW k \in Slots
    PROVE  \E f \in ToSet(functions) : \E b \in ToSet(f.blocks) : Slot(k) = b
<1>1. functions \in Seq(FunctionUnit) /\ cur \in FunctionUnit /\ cur.blocks = <<>>
    BY DEF TypeOK, OpenInv
<1>2. /\ k = <<k[1], k[2]>> /\ k[1] \in 1..Len(functions) /\ k[2] \in 1..Len(functions[k[1]].blocks)
    <2>1. k = <<k[1], k[2]>>
        BY <1>1, SlotList DEF Slots
    <2>2. ~ (k[2] \in 1..Len(cur.blocks))
        BY <1>1
    <2> QED BY <1>1, <2>1, <2>2, SlotList DEF Slots
<1>3. Slot(k) = functions[k[1]].blocks[k[2]]
    BY <1>1, <1>2, SlotList DEF Slot
<1>4. functions[k[1]] \in ToSet(functions)
    BY <1>1, <1>2, Elements
<1>5. functions[k[1]].blocks \in Seq(Block(Nat))
    <2>1. functions[k[1]] \in FunctionUnit
        BY <1>1, <1>2, ElementOfSeq
    <2> QED BY <2>1 DEF FunctionUnit
<1>6. functions[k[1]].blocks[k[2]] \in ToSet(functions[k[1]].blocks)
    BY <1>2, <1>5, Elements
<1> QED BY <1>3, <1>4, <1>6

\* What the invariant says between functions.
LEMMA BlocksCoverCode == TypeOK /\ BlocksInv => CoveredOrOpen
<1> SUFFICES ASSUME TypeOK, BlocksInv, at = "pop", NEW a \in visited
             PROVE  \E f \in ToSet(functions) : \E b \in ToSet(f.blocks) :
                        IF b.end # 0 THEN Covers(b, a)
                        ELSE b.start <= a /\ b.start .. a \subseteq Decoded
    BY DEF CoveredOrOpen
<1>1. bb = NoBlock
    BY DEF BlocksInv, OpenInv
<1>2. PICK k \in Slots : Holds(Slot(k).start, Slot(k).end, a)
    BY <1>1 DEF BlocksInv, HeldInv
<1>3. PICK f \in ToSet(functions) : \E b \in ToSet(f.blocks) : Slot(k) = b
    BY PlacesOnPop DEF BlocksInv
<1>4. PICK b \in ToSet(f.blocks) : Slot(k) = b
    BY <1>3
<1> QED BY <1>2, <1>4 DEF Holds, Covers

LEMMA BlocksAreCut == TypeOK /\ BlocksInv => BlocksAreBasic
<1> SUFFICES ASSUME TypeOK, BlocksInv, at = "pop", ~ Overlapping PROVE BlocksAreBasic
    BY DEF BlocksAreBasic
<1>1. ASSUME NEW f \in ToSet(functions), NEW b \in Closed(f)
      PROVE  /\ b.start .. b.end - 1 \subseteq Decoded
             /\ \A a \in Entries(f.blocks) : ~ (b.start < a /\ a < b.end)
             /\ \A a, c \in visited : b.start <= a /\ a < c /\ c < b.end => ~ IsBranch(a)
    <2>1. b \in ToSet(f.blocks) /\ b.end # 0
        BY <1>1 DEF Closed
    <2>2. PICK i \in 1..Len(functions) : \E m \in 1..Len(functions[i].blocks) :
                  <<i, m>> \in Slots /\ Slot(<<i, m>>) = b
        BY <2>1, PlaceOf
    <2>3. PICK m \in 1..Len(functions[i].blocks) : <<i, m>> \in Slots /\ Slot(<<i, m>>) = b
        BY <2>2
    <2>4. b.start .. b.end - 1 \subseteq Decoded
        BY <2>1, <2>3 DEF BlocksInv, ExtentInv
    <2>5. \A a, c \in visited : b.start <= a /\ a < c /\ c < b.end => ~ IsBranch(a)
        BY <2>3 DEF BlocksInv, ApartInv
    <2> QED BY <2>4, <2>5 DEF BlocksInv, EntriesInv
<1>2. ASSUME NEW i \in 1..Len(functions), NEW j \in 1..Len(functions),
             NEW m \in 1..Len(functions[i].blocks), NEW n \in 1..Len(functions[j].blocks),
             <<i, m>> # <<j, n>>, NEW a \in Decoded,
             Covers(functions[i].blocks[m], a), Covers(functions[j].blocks[n], a)
      PROVE  FALSE
    <2>1. functions \in Seq(FunctionUnit) /\ cur \in FunctionUnit
        BY DEF TypeOK
    <2>2. /\ <<i, m>> \in Slots /\ Slot(<<i, m>>) = functions[i].blocks[m]
          /\ <<j, n>> \in Slots /\ Slot(<<j, n>>) = functions[j].blocks[n]
        BY <2>1, SlotList DEF Slots, Slot
    <2>3. Owns(Slot(<<i, m>>).start, Slot(<<i, m>>).end, a)
          /\ Owns(Slot(<<j, n>>).start, Slot(<<j, n>>).end, a)
        BY <1>2, <2>2 DEF Owns, Covers
    <2> QED BY <1>2, <2>2, <2>3 DEF BlocksInv, ApartInv
<1> QED BY <1>1, <1>2 DEF BlocksAreBasic

\* No decoded code is lost between the blocks, for every image and every number of
\* re-analyses: whatever AnalyzeFunction decodes is covered by a block of a
\* function, or follows the start of a block that it added open, when it ran into
\* visited code, without a gap in the decoded code.
THEOREM CoveredOrOpenHolds == Spec => []CoveredOrOpen
BY BlocksCoverCode, BlocksInvHolds, PTL

\* The blocks of a finished function are basic blocks and no two of the module share
\* an address, unless decoded instructions overlap, for every image and every number
\* of re-analyses: what AnalyzeFunction decodes once, in whatever order its work
\* list serves the branches, NormalizeBasicBlocks cuts at every branch target.
THEOREM BlocksAreBasicHolds == Spec => []BlocksAreBasic
BY BlocksAreCut, BlocksInvHolds, PTL

-----------------------------------------------------------------------------
(*                                                                         *)
(*              Part 2.  The chain of passes: HybridSpec.                  *)
(*                                                                         *)
-----------------------------------------------------------------------------
(* Types of what the passes compute. *)

\* Replacing a block, and replacing a function, keeps a vector's type.
LEMMA ReplaceElement ==
    ASSUME NEW S, NEW q \in Seq(S), NEW i, NEW e, i \in 1..Len(q) => e \in S
    PROVE  [q EXCEPT ![i] = e] \in Seq(S) /\ Len([q EXCEPT ![i] = e]) = Len(q)
<1>1. CASE i \in 1..Len(q)
    BY <1>1, ExceptSeq
<1>2. CASE i \notin 1..Len(q)
    <2>1. q = [j \in 1..Len(q) |-> q[j]]
        OBVIOUS
    <2>2. [q EXCEPT ![i] = e] = q
        BY <1>2, <2>1
    <2> QED BY <2>2
<1> QED BY <1>1, <1>2

LEMMA RemoveSuccessorType ==
    ASSUME NEW b \in Block(Nat), Len(b.succs) >= 2, NEW a
    PROVE  RemoveSuccessor(b, a) \in Block(Nat)
<1>1. b.succs \in Seq(Nat)
    BY DEF Block
<1>2. b.succs[1] \in Nat /\ b.succs[2] \in Nat
    BY <1>1
<1>3. <<b.succs[1]>> \in Seq(Nat) /\ <<b.succs[2]>> \in Seq(Nat) /\ <<>> \in Seq(Nat)
    BY <1>2
<1> DEFINE s == IF b.succs[1] # a THEN <<b.succs[1]>>
                ELSE IF b.succs[2] # a THEN <<b.succs[2]>> ELSE <<>>
<1>4. s \in Seq(Nat)
    BY <1>3
<1>5. RemoveSuccessor(b, a) = [b EXCEPT !.succs = s]
    BY DEF RemoveSuccessor
<1> HIDE DEF s
<1> QED BY <1>4, <1>5 DEF Block

LEMMA AddCallSitesType ==
    ASSUME NEW f \in FunctionUnit, NEW sites \in SUBSET (Mapped \X Target)
    PROVE  AddCallSites(f, sites) \in FunctionUnit
BY DEF AddCallSites, FunctionUnit

\* The call sites a trace gives an instruction.
LEMMA ObservedType ==
    ASSUME trace \in Seq(Record), NEW a
    PROVE  Observed(a) \subseteq Target
<1>1. \A n \in 1..Len(trace) : trace[n][2] \in Target
    BY DEF Record
<1> QED BY <1>1 DEF Observed, GetRecordsForPC

-----------------------------------------------------------------------------
(* What a step of a pass does to the variables of the rebuilder. *)

\* Everything but the functions stays.
FunctionsOnly ==
    UNCHANGED <<image, visited, xrefs, functionWork, loop, at, cur, work, pc, bb, toScan, reanalyses>>

LEMMA FunctionsOnlyKeeps ==
    ASSUME TypeOK, FlowInductive, FunctionsOnly, functions' \in Seq(FunctionUnit)
    PROVE  TypeOK' /\ FlowInductive'
<1>1. TypeOK'
    BY DEF TypeOK, FunctionsOnly
<1>2. FlowInductive'
    BY DEF FlowInductive, FunctionsOnly, BetweenFunctions, FlowSuccessors, IsExecutableAddress,
           Settled, Pending
<1> QED BY <1>1, <1>2

LEMMA RemoveDeadEdgeType ==
    ASSUME TypeOK, RemoveDeadEdge
    PROVE  FunctionsOnly /\ functions' \in Seq(FunctionUnit) /\ Len(functions') = Len(functions)
<1>1. PICK v \in verdicts :
        LET blocks == functions[v[1]].blocks
            b == BlockCovering(blocks, v[2])
        IN  functions' =
              IF b = 0 \/ Len(blocks[b].succs) < 2 THEN functions
              ELSE [functions EXCEPT ![v[1]].blocks[b] = RemoveSuccessor(@, Dead(@, v[3]))]
    BY DEF RemoveDeadEdge
<1> DEFINE i == v[1]
           f == functions[i]
           b == BlockCovering(f.blocks, v[2])
           nb == RemoveSuccessor(f.blocks[b], Dead(f.blocks[b], v[3]))
           nf == [f EXCEPT !.blocks = [f.blocks EXCEPT ![b] = nb]]
<1>2. functions \in Seq(FunctionUnit)
    BY DEF TypeOK
<1>3. CASE b = 0 \/ Len(f.blocks[b].succs) < 2
    BY <1>1, <1>2, <1>3 DEF RemoveDeadEdge, FunctionsOnly
<1>4. CASE ~ (b = 0 \/ Len(f.blocks[b].succs) < 2)
    <2>1. functions' = [functions EXCEPT ![i] = nf]
        BY <1>1, <1>4
    <2>2. ASSUME i \in 1..Len(functions) PROVE nf \in FunctionUnit
        <3>1. f \in FunctionUnit /\ f.blocks \in Seq(Block(Nat))
            <4>1. f \in FunctionUnit
                BY <1>2, <2>2, ElementOfSeq
            <4> QED BY <4>1 DEF FunctionUnit
        <3>2. ASSUME b \in 1..Len(f.blocks) PROVE nb \in Block(Nat)
            <4>1. f.blocks[b] \in Block(Nat)
                BY <3>1, <3>2, ElementOfSeq
            <4>2. Len(f.blocks[b].succs) \in Nat
                <5>1. f.blocks[b].succs \in Seq(Nat)
                    BY <4>1 DEF Block
                <5> QED BY <5>1, LenProperties
            <4>3. Len(f.blocks[b].succs) >= 2
                BY <1>4, <4>2
            <4> HIDE DEF f, b
            <4> QED BY <4>1, <4>3, RemoveSuccessorType
        <3>3. [f.blocks EXCEPT ![b] = nb] \in Seq(Block(Nat))
            <4> HIDE DEF f, b, nb
            <4> QED BY <3>1, <3>2, ReplaceElement
        <3> HIDE DEF f, b, nb
        <3> QED BY <3>1, <3>3 DEF FunctionUnit
    <2> HIDE DEF i, nf
    <2>3. functions' \in Seq(FunctionUnit) /\ Len(functions') = Len(functions)
        BY <1>2, <2>1, <2>2, ReplaceElement
    <2> QED BY <2>3 DEF RemoveDeadEdge, FunctionsOnly
<1> QED BY <1>3, <1>4

LEMMA ResolveFunctionType ==
    ASSUME TypeOK, trace \in Seq(Record), ResolveFunction
    PROVE  /\ FunctionsOnly /\ functions' \in Seq(FunctionUnit) /\ Len(functions') = Len(functions)
           /\ resolved' \ resolved \subseteq Target
<1> DEFINE indirects == GetIndirectInstructions(functions[fi])
           sites == UNION {{<<a, t>> : t \in Observed(a)} : a \in indirects}
           nf == AddCallSites(functions[fi], sites)
<1>1. functions \in Seq(FunctionUnit) /\ visited \subseteq Mapped
    BY DEF TypeOK
<1>2. indirects \subseteq visited
    BY DEF GetIndirectInstructions, Instructions
<1>3. sites \subseteq Mapped \X Target
    <2> HIDE DEF indirects
    <2> QED BY <1>1, <1>2, ObservedType
<1>4. /\ functions' = [functions EXCEPT ![fi] = nf]
      /\ resolved' = resolved \cup {c[2] : c \in sites}
    BY DEF ResolveFunction
<1> HIDE DEF sites
<1>5. fi \in 1..Len(functions) => nf \in FunctionUnit
    BY <1>1, <1>3, AddCallSitesType
<1> HIDE DEF nf
<1>6. functions' \in Seq(FunctionUnit) /\ Len(functions') = Len(functions)
    BY <1>1, <1>4, <1>5, ReplaceElement
<1>7. resolved' \ resolved \subseteq Target
    BY <1>3, <1>4
<1> QED BY <1>6, <1>7 DEF ResolveFunction, FunctionsOnly

-----------------------------------------------------------------------------
(* The invariant. *)

\* The rebuilder only ever adds functions.
LEMMA StepGrows ==
    ASSUME TypeOK, [Next]_vars
    PROVE  Len(functions) \in Nat /\ Len(functions') \in Nat /\ Len(functions) <= Len(functions')
<1>1. functions \in Seq(FunctionUnit) /\ functions' \in Seq(FunctionUnit)
    BY StepType DEF TypeOK
<1>2. Len(functions) \in Nat /\ Len(functions') \in Nat
    BY <1>1, LenProperties
<1>3. Len(functions') = Len(functions) \/ Len(functions') = Len(functions) + 1
    BY <1>1, RebuilderAdds
<1> QED BY <1>2, <1>3

HybridInductive == HybridTypeOK /\ FlowInductive

LEMMA HybridStart == HybridInit => HybridInductive
<1> SUFFICES ASSUME HybridInit PROVE HybridInductive
    OBVIOUS
<1>1. TypeOK /\ FlowInductive
    BY InitType DEF HybridInit, Init, FlowInductive
<1>2. trace \in Seq(Record) /\ Len(functions) = 0
    BY EmptySeq DEF HybridInit, Init
<1> QED BY <1>1, <1>2 DEF HybridInit, HybridInductive, HybridTypeOK, Stages

\* What refers to functions by their index stays in range while they grow.
LEMMA IndexesStay ==
    ASSUME HybridTypeOK, Len(functions) \in Nat, Len(functions') \in Nat,
           Len(functions) <= Len(functions')
    PROVE  /\ verdicts \subseteq (1..Len(functions')) \X Mapped \X BOOLEAN
           /\ opaque \subseteq (1..Len(functions')) \X Mapped
           /\ fi \in 1..Len(functions') + 1
           /\ verified \subseteq 1..Len(functions')
<1>1. 1..Len(functions) \subseteq 1..Len(functions')
    OBVIOUS
<1> QED BY <1>1 DEF HybridTypeOK

LEMMA HybridStep == HybridInductive /\ [HybridNext]_allVars => HybridInductive'
<1> SUFFICES ASSUME HybridInductive, [HybridNext]_allVars PROVE HybridInductive'
    OBVIOUS
<1> USE DEF HybridInductive
<1>0. TypeOK /\ FlowInductive /\ HybridTypeOK /\ Len(functions) \in Nat /\ visited \subseteq Mapped
    BY LenProperties DEF HybridTypeOK, TypeOK
<1>1. ASSUME [Next]_vars
      PROVE  /\ TypeOK' /\ FlowInductive'
             /\ Len(functions') \in Nat /\ Len(functions) <= Len(functions')
    BY <1>0, <1>1, StepType, StepFlow, StepGrows
<1>2. CASE StaticStep
    BY <1>0, <1>1, <1>2, IndexesStay DEF StaticStep, Next, passVars, HybridTypeOK
<1>3. CASE Interpret
    <2>1. UNCHANGED vars
        BY <1>3 DEF Interpret
    <2>2. PICK marked \in SUBSET Branches :
            \E taken \in [marked -> BOOLEAN] :
                /\ verdicts' = {<<w[1], w[2], taken[w]>> : w \in marked}
                /\ opaque' = marked
        BY <1>3 DEF Interpret
    <2>3. Branches \subseteq (1..Len(functions)) \X Mapped
        BY <1>0 DEF Branches
    <2>4. verdicts' \subseteq (1..Len(functions)) \X Mapped \X BOOLEAN
        BY <2>2, <2>3
    <2>5. UNCHANGED <<functions, trace, fi, verified, resolved>> /\ stage' \in Stages
        BY <1>3, <2>1 DEF Interpret, vars, Stages
    <2> QED BY <1>1, <2>1, <2>2, <2>3, <2>4, <2>5 DEF HybridTypeOK
<1>4. CASE SkipUnmarked \/ StartReanalysis \/ Finish \/ LoadTrace
    <2>1. UNCHANGED vars /\ UNCHANGED functions
        BY <1>4 DEF SkipUnmarked, StartReanalysis, Finish, LoadTrace, vars
    <2>2. trace' \in Seq(Record) /\ stage' \in Stages /\ fi' \in 1..Len(functions) + 1
        BY <1>0, <1>4, TracesAssumption
           DEF SkipUnmarked, StartReanalysis, Finish, LoadTrace, HybridTypeOK, Stages
    <2>3. UNCHANGED <<verdicts, opaque, verified, resolved>>
        BY <1>4 DEF SkipUnmarked, StartReanalysis, Finish, LoadTrace
    <2> QED BY <1>1, <2>1, <2>2, <2>3 DEF HybridTypeOK
<1>5. CASE RemoveDeadEdge
    <2>1. FunctionsOnly /\ functions' \in Seq(FunctionUnit) /\ Len(functions') = Len(functions)
        BY <1>0, <1>5, RemoveDeadEdgeType
    <2>2. TypeOK' /\ FlowInductive'
        BY <1>0, <2>1, FunctionsOnlyKeeps
    <2> QED BY <1>5, <2>1, <2>2 DEF RemoveDeadEdge, HybridTypeOK
<1>6. CASE ResolveFunction
    <2>1. /\ FunctionsOnly /\ functions' \in Seq(FunctionUnit) /\ Len(functions') = Len(functions)
          /\ resolved' \ resolved \subseteq Target
        BY <1>0, <1>6, ResolveFunctionType DEF HybridTypeOK
    <2>2. TypeOK' /\ FlowInductive'
        BY <1>0, <2>1, FunctionsOnlyKeeps
    <2>3. /\ fi <= Len(functions) /\ fi' = fi + 1 /\ verified' = verified \cup {fi}
          /\ opaque' \subseteq opaque /\ UNCHANGED <<stage, verdicts, trace>>
        BY <1>6 DEF ResolveFunction
    <2>4. fi \in 1..Len(functions) /\ fi' \in 1..Len(functions) + 1
        BY <1>0, <2>3 DEF HybridTypeOK
    <2> QED BY <2>1, <2>2, <2>3, <2>4 DEF HybridTypeOK
<1>7. CASE Reanalyze
    <2>1. [Next]_vars
        BY <1>7 DEF Reanalyze, IsNew, IsWithinMapping, Next
    <2>2. resolved' \subseteq resolved /\ UNCHANGED <<stage, verdicts, opaque, trace, fi, verified>>
        BY <1>7 DEF Reanalyze
    <2> QED BY <1>0, <1>1, <2>1, <2>2, IndexesStay DEF HybridTypeOK
<1>8. CASE UNCHANGED allVars
    <2>1. UNCHANGED vars /\ UNCHANGED functions /\ UNCHANGED passVars
        BY <1>8 DEF allVars, vars
    <2> QED BY <1>1, <2>1 DEF passVars, HybridTypeOK
<1> QED BY <1>2, <1>3, <1>4, <1>5, <1>6, <1>7, <1>8 DEF HybridNext

\* The state of the chain of passes keeps its type; in particular whatever
\* refers to a function by its place in the module refers to one that exists.
THEOREM HybridTypeCorrect == HybridSpec => []HybridTypeOK
BY HybridStart, HybridStep, PTL DEF HybridSpec, HybridInductive

\* Recursive descent stays closed under the whole chain of passes: removed
\* edges, resolved call sites and re-analyses from any observed targets leave
\* no code undecoded that a decoded instruction falls or branches to.
THEOREM ChainIsClosed == HybridSpec => []FlowClosed
<1>1. HybridInductive => FlowClosed
    BY DEF HybridInductive, FlowInductive, FlowClosed, BetweenFunctions, Pending, ToSet
<1> QED BY <1>1, HybridStart, HybridStep, PTL DEF HybridSpec

-----------------------------------------------------------------------------
(* Nothing is taken back. *)

\* Removing an edge leaves the extents and the call sites of all functions.
LEMMA RemoveDeadEdgeSites ==
    ASSUME TypeOK, RemoveDeadEdge
    PROVE  /\ Len(functions') = Len(functions)
           /\ \A i \in 1..Len(functions) :
                 /\ functions'[i].start = functions[i].start
                 /\ functions'[i].end = functions[i].end
                 /\ functions'[i].callSites = functions[i].callSites
<1>1. PICK v \in verdicts :
        LET blocks == functions[v[1]].blocks
            b == BlockCovering(blocks, v[2])
        IN  functions' =
              IF b = 0 \/ Len(blocks[b].succs) < 2 THEN functions
              ELSE [functions EXCEPT ![v[1]].blocks[b] = RemoveSuccessor(@, Dead(@, v[3]))]
    BY DEF RemoveDeadEdge
<1>2. functions \in Seq(FunctionUnit)
    BY DEF TypeOK
<1>3. CASE functions' = functions
    BY <1>3
<1>4. CASE functions' # functions
    <2> DEFINE f == functions[v[1]]
               b == BlockCovering(f.blocks, v[2])
               nb == [f.blocks EXCEPT ![b] = RemoveSuccessor(f.blocks[b], Dead(f.blocks[b], v[3]))]
               nf == [f EXCEPT !.blocks = nb]
    <2>1. functions' = [functions EXCEPT ![v[1]] = nf]
        BY <1>1, <1>4
    <2>2. ASSUME NEW i \in 1..Len(functions)
          PROVE  functions[i] \in FunctionUnit
        BY <1>2, ElementOfSeq
    <2>3. v[1] \in 1..Len(functions) =>
              nf.start = f.start /\ nf.end = f.end /\ nf.callSites = f.callSites
        <3> HIDE DEF nb
        <3> QED BY <2>2 DEF FunctionUnit
    <2> HIDE DEF nf
    <2> QED BY <1>2, <2>1, <2>3
<1> QED BY <1>3, <1>4

\* What a trace does to one function: resolved call sites at indirect
\* instructions take the place of the unresolved ones.
LEMMA ResolveFunctionSites ==
    ASSUME HybridTypeOK, ResolveFunction
    PROVE  /\ Len(functions') = Len(functions) /\ fi \in 1..Len(functions)
           /\ \A i \in 1..Len(functions) \ {fi} : functions'[i] = functions[i]
           /\ functions'[fi].start = functions[fi].start /\ functions'[fi].end = functions[fi].end
           /\ functions'[fi].blocks = functions[fi].blocks
           /\ \E sites : /\ \A c \in sites : c = <<c[1], c[2]>> /\ c[1] \in visited /\ c[2] \in Target \ {0}
                         /\ functions'[fi].callSites =
                               (functions[fi].callSites \ {<<c[1], 0>> : c \in sites}) \cup sites
<1>1. functions \in Seq(FunctionUnit) /\ fi \in 1..Len(functions)
    <2>1. functions \in Seq(FunctionUnit) /\ Len(functions) \in Nat
        BY LenProperties DEF HybridTypeOK, TypeOK
    <2> QED BY <2>1 DEF HybridTypeOK, ResolveFunction
<1>2. functions[fi] \in FunctionUnit
    BY <1>1, ElementOfSeq
<1> DEFINE indirects == GetIndirectInstructions(functions[fi])
           sites == UNION {{<<a, t>> : t \in Observed(a)} : a \in indirects}
           nf == AddCallSites(functions[fi], sites)
<1>3. functions' = [functions EXCEPT ![fi] = nf]
    BY DEF ResolveFunction
<1>4. \A c \in sites : c = <<c[1], c[2]>> /\ c[1] \in visited /\ c[2] \in Target \ {0}
    <2>1. indirects \subseteq visited
        BY DEF GetIndirectInstructions, Instructions
    <2>2. \A a : Observed(a) \subseteq Target \ {0}
        <3>1. \A n \in 1..Len(trace) : trace[n] \in Record
            BY ElementOfSeq DEF HybridTypeOK
        <3> QED BY <3>1 DEF Observed, GetRecordsForPC, Record
    <2> HIDE DEF indirects
    <2> QED BY <2>1, <2>2
<1> HIDE DEF sites
<1>5. /\ nf.start = functions[fi].start /\ nf.end = functions[fi].end /\ nf.blocks = functions[fi].blocks
      /\ nf.callSites = (functions[fi].callSites \ {<<c[1], 0>> : c \in sites}) \cup sites
    BY <1>2 DEF AddCallSites, FunctionUnit
<1> HIDE DEF nf
<1>6. /\ Len(functions') = Len(functions)
      /\ \A i \in 1..Len(functions) : functions'[i] = IF i = fi THEN nf ELSE functions[i]
    BY <1>1, <1>3
<1> QED BY <1>1, <1>4, <1>5, <1>6

LEMMA RemoveDeadEdgeGrows == TypeOK /\ RemoveDeadEdge => Grows
<1> SUFFICES ASSUME TypeOK, RemoveDeadEdge PROVE Grows
    OBVIOUS
<1>1. stage = "opaque" /\ visited' = visited /\ xrefs' = xrefs /\ Len(functions) \in Nat
    BY LenProperties DEF RemoveDeadEdge, TypeOK
<1> QED BY <1>1, RemoveDeadEdgeSites DEF Grows

LEMMA ResolveFunctionGrows == HybridTypeOK /\ ResolveFunction => Grows
<1> SUFFICES ASSUME HybridTypeOK, ResolveFunction PROVE Grows
    OBVIOUS
<1>1. visited' = visited /\ xrefs' = xrefs /\ Len(functions) \in Nat
    BY LenProperties DEF ResolveFunction, HybridTypeOK, TypeOK
<1>2. ASSUME NEW c \in functions[fi].callSites, c \notin functions'[fi].callSites
      PROVE  c[2] = 0 /\ \E t \in Target \ {0} : <<c[1], t>> \in functions'[fi].callSites
    <2>1. PICK sites : /\ \A s \in sites : s = <<s[1], s[2]>> /\ s[1] \in visited /\ s[2] \in Target \ {0}
                       /\ functions'[fi].callSites =
                             (functions[fi].callSites \ {<<s[1], 0>> : s \in sites}) \cup sites
        BY ResolveFunctionSites
    <2>2. PICK s \in sites : c = <<s[1], 0>>
        BY <1>2, <2>1
    <2>3. s = <<c[1], s[2]>> /\ c[2] = 0 /\ s \in functions'[fi].callSites /\ s[2] \in Target \ {0}
        BY <2>1, <2>2
    <2> QED BY <2>3
<1> QED BY <1>1, <1>2, ResolveFunctionSites DEF Grows

LEMMA RebuilderGrows == TypeOK /\ [Next]_vars => Grows
<1> SUFFICES ASSUME TypeOK, [Next]_vars PROVE Grows
    OBVIOUS
<1>1. functions \in Seq(FunctionUnit) /\ Len(functions) \in Nat
    BY LenProperties DEF TypeOK
<1>2. Len(functions) <= Len(functions') /\ \A i \in 1..Len(functions) : functions'[i] = functions[i]
    BY <1>1, RebuilderAdds
<1> QED BY <1>2, RebuilderAdds DEF Grows

\* Re-entering the analysis takes nothing back: whatever the passes do, decoded code
\* stays decoded, a reference stays, and a function keeps its place, its blocks (but for
\* the edges OpaquePredicatePass removes) and its call sites, of which an unresolved one
\* goes only when there is a resolved one at its place
\* (HybridAnalysisPass::Run and StaticControlFlowRebuilder::ReAnalyzeFrom).
THEOREM NothingIsTakenBack == HybridSpec => AnalysisGrows
<1>1. HybridInductive /\ [HybridNext]_allVars => [Grows]_allVars
  <2> SUFFICES ASSUME HybridInductive, HybridNext PROVE Grows
    OBVIOUS
  <2>1. HybridTypeOK /\ TypeOK
    BY DEF HybridInductive, HybridTypeOK
  <2>2. CASE StaticStep \/ Reanalyze
    <3>1. [Next]_vars
        BY <2>2 DEF StaticStep, Reanalyze, IsNew, IsWithinMapping, Next
    <3> QED BY <2>1, <3>1, RebuilderGrows
  <2>3. CASE Interpret \/ LoadTrace \/ SkipUnmarked \/ StartReanalysis \/ Finish
    <3>1. UNCHANGED vars
        BY <2>3 DEF Interpret, LoadTrace, SkipUnmarked, StartReanalysis, Finish
    <3> QED BY <2>1, <3>1, RebuilderGrows
  <2> QED BY <2>1, <2>2, <2>3, RemoveDeadEdgeGrows, ResolveFunctionGrows DEF HybridNext
<1> QED BY <1>1, HybridStart, HybridStep, PTL DEF HybridSpec, AnalysisGrows

-----------------------------------------------------------------------------
(* Calls and their references, whatever the trace adds. *)

\* Every reference of type "call" and every call site is at a decoded instruction,
\* and each decoded call has one of both.
PlacesInv ==
    /\ SitesVisited
    /\ \A r \in CallRefs : r[1] \in visited /\ IsCall(r[1])
    /\ \A a \in visited : IsCall(a) => \E r \in CallRefs : r[1] = a
    /\ \A a \in visited : IsCall(a) => \E c \in AllSites : c[1] = a

LEMMA SitesByIndex ==
    ASSUME TypeOK
    PROVE  \A c : c \in ModuleSites <=> \E i \in 1..Len(functions) : c \in functions[i].callSites
BY DEF ModuleSites, ToSet, TypeOK

LEMMA SitesByIndexNext ==
    ASSUME TypeOK'
    PROVE  \A c : c \in ModuleSites' <=> \E i \in 1..Len(functions') : c \in functions'[i].callSites
<1>1. DOMAIN functions' = 1..Len(functions')
    BY DEF TypeOK
<1> QED BY <1>1 DEF ModuleSites, ToSet

LEMMA StepPlaces == TypeOK /\ PlacesInv /\ [Next]_vars => PlacesInv'
<1> SUFFICES ASSUME TypeOK, PlacesInv, [Next]_vars PROVE PlacesInv'
    OBVIOUS
<1>1. /\ NoSite \/ \E t \in Target : NewSite(t)
      /\ SitesVisited' /\ image' = image
    BY SitesStep DEF PlacesInv
<1>2. \A a : IsCall(a)' = IsCall(a)
    BY <1>1 DEF IsCall
<1>3. CASE NoSite
    BY <1>1, <1>2, <1>3 DEF NoSite, PlacesInv
<1>4. CASE \E t \in Target : NewSite(t)
    <2>1. PICK t \in Target : NewSite(t)
        BY <1>4
    <2>2. <<pc, t>>[1] = pc
        OBVIOUS
    <2> QED BY <1>1, <1>2, <2>1, <2>2 DEF NewSite, PlacesInv
<1> QED BY <1>1, <1>3, <1>4

\* A pass that changes call sites only keeps the invariant when each place keeps one.
LEMMA PlacesKept ==
    ASSUME PlacesInv, FunctionsOnly,
           \A c \in ModuleSites' : c[1] \in visited,
           \A c \in ModuleSites : \E d \in ModuleSites' : d[1] = c[1]
    PROVE  PlacesInv'
<1>1. UNCHANGED <<image, visited, xrefs, at, cur>>
    BY DEF FunctionsOnly
<1>2. CallRefs' = CallRefs /\ \A a : IsCall(a)' = IsCall(a)
    BY <1>1 DEF CallRefs, IsCall
<1>3. SitesVisited'
    BY <1>1 DEF PlacesInv, SitesVisited, AllSites
<1>4. \A c \in AllSites : \E d \in AllSites' : d[1] = c[1]
    BY <1>1 DEF AllSites
<1> QED BY <1>1, <1>2, <1>3, <1>4 DEF PlacesInv

LEMMA RemoveDeadEdgePlaces == TypeOK /\ TypeOK' /\ PlacesInv /\ RemoveDeadEdge => PlacesInv'
<1> SUFFICES ASSUME TypeOK, TypeOK', PlacesInv, RemoveDeadEdge PROVE PlacesInv'
    OBVIOUS
<1>1. FunctionsOnly
    BY RemoveDeadEdgeType
<1>2. \A c : c \in ModuleSites' <=> \E i \in 1..Len(functions') : c \in functions'[i].callSites
    BY SitesByIndexNext
<1>3. ModuleSites' = ModuleSites
    BY <1>2, SitesByIndex, RemoveDeadEdgeSites
<1> QED BY <1>1, <1>3, PlacesKept DEF PlacesInv, SitesVisited, AllSites

LEMMA ResolveFunctionPlaces ==
    HybridTypeOK /\ TypeOK' /\ PlacesInv /\ ResolveFunction => PlacesInv'
<1> SUFFICES ASSUME HybridTypeOK, TypeOK', PlacesInv, ResolveFunction PROVE PlacesInv'
    OBVIOUS
<1>1. FunctionsOnly /\ TypeOK
    BY DEF ResolveFunction, FunctionsOnly, HybridTypeOK
<1>2. \A c : c \in ModuleSites' <=> \E i \in 1..Len(functions') : c \in functions'[i].callSites
    BY SitesByIndexNext
<1>3. PICK sites : /\ \A c \in sites : c = <<c[1], c[2]>> /\ c[1] \in visited
                   /\ functions'[fi].callSites =
                         (functions[fi].callSites \ {<<c[1], 0>> : c \in sites}) \cup sites
    BY ResolveFunctionSites
<1>4. /\ Len(functions') = Len(functions) /\ fi \in 1..Len(functions)
      /\ \A i \in 1..Len(functions) \ {fi} : functions'[i] = functions[i]
    BY ResolveFunctionSites
<1>5. \A c \in ModuleSites : c[1] \in visited
    BY DEF PlacesInv, SitesVisited, AllSites
<1>6. ASSUME NEW c \in ModuleSites' PROVE c[1] \in visited
    <2>1. PICK i \in 1..Len(functions) : c \in functions'[i].callSites
        BY <1>2, <1>4
    <2>2. CASE c \in sites
        BY <1>3, <2>2
    <2>3. CASE c \notin sites
        BY <1>1, <1>3, <1>4, <1>5, <2>1, <2>3, SitesByIndex
    <2> QED BY <2>2, <2>3
<1>7. ASSUME NEW c \in ModuleSites PROVE \E d \in ModuleSites' : d[1] = c[1]
    <2>1. PICK i \in 1..Len(functions) : c \in functions[i].callSites
        BY <1>1, SitesByIndex
    <2>2. CASE i = fi /\ \E e \in sites : c = <<e[1], 0>>
        <3>1. PICK e \in sites : c = <<e[1], 0>>
            BY <2>2
        <3>2. e \in ModuleSites'
            BY <1>2, <1>3, <1>4
        <3> QED BY <3>1, <3>2
    <2>3. CASE ~ (i = fi /\ \E e \in sites : c = <<e[1], 0>>)
        <3>1. c \in functions'[i].callSites
            BY <1>3, <1>4, <2>1, <2>3
        <3> QED BY <1>2, <1>4, <3>1
    <2> QED BY <2>2, <2>3
<1> QED BY <1>1, <1>6, <1>7, PlacesKept

LEMMA PlacesStart == HybridInit => PlacesInv
<1> SUFFICES ASSUME HybridInit PROVE PlacesInv
    OBVIOUS
<1>1. visited = {} /\ AllSites = {} /\ CallRefs = {} /\ at = "pop" /\ cur.callSites = {}
    BY NoSites DEF HybridInit, Init, NoFunction, NewFunction
<1> QED BY <1>1 DEF PlacesInv, SitesVisited

LEMMA ChainPlaces ==
    HybridInductive /\ HybridInductive' /\ PlacesInv /\ [HybridNext]_allVars => PlacesInv'
<1> SUFFICES ASSUME HybridInductive, HybridInductive', PlacesInv, [HybridNext]_allVars PROVE PlacesInv'
    OBVIOUS
<1>1. HybridTypeOK /\ TypeOK /\ TypeOK'
    BY DEF HybridInductive, HybridTypeOK
<1>2. CASE StaticStep \/ Reanalyze
    <2>1. [Next]_vars
        BY <1>2 DEF StaticStep, Reanalyze, IsNew, IsWithinMapping, Next
    <2> QED BY <1>1, <2>1, StepPlaces
<1>3. CASE Interpret \/ LoadTrace \/ SkipUnmarked \/ StartReanalysis \/ Finish \/ UNCHANGED allVars
    <2>1. UNCHANGED vars
        BY <1>3 DEF Interpret, LoadTrace, SkipUnmarked, StartReanalysis, Finish, allVars
    <2> QED BY <1>1, <2>1, StepPlaces
<1> QED BY <1>1, <1>2, <1>3, RemoveDeadEdgePlaces, ResolveFunctionPlaces DEF HybridNext

\* A call found in the code is a call in both records of it, for every image, trace
\* and choice of verdicts: the references that AnalyzeFunction adds are at the call
\* instructions that have a call site, and AddCallSite replaces an unresolved call
\* site only by a resolved one at the same instruction.
THEOREM CallsAreReferencedHolds == HybridSpec => []CallsAreReferenced
<1>1. PlacesInv => CallsAreReferenced
  <2> SUFFICES ASSUME PlacesInv, at \in {"pop", "done"}
               PROVE  {x[1] : x \in {y \in xrefs : y[3] = "call"}}
                        = {a \in UNION {{c[1] : c \in f.callSites} : f \in ToSet(functions)} : IsCall(a)}
    BY DEF CallsAreReferenced, IsCall
  <2>1. cur.callSites = {} /\ AllSites = ModuleSites
    BY DEF PlacesInv, SitesVisited, AllSites
  <2>2. \A a : a \in {x[1] : x \in {y \in xrefs : y[3] = "call"}} <=> \E r \in CallRefs : r[1] = a
    <3>1. \A x : <<x[1], x[2]>>[1] = x[1]
        OBVIOUS
    <3>2. ASSUME NEW a
          PROVE  (\E x \in {y \in xrefs : y[3] = "call"} : a = x[1]) <=> \E r \in CallRefs : r[1] = a
        BY <3>1 DEF CallRefs
    <3> QED BY <3>2
  <2>3. \A a : a \in UNION {{c[1] : c \in f.callSites} : f \in ToSet(functions)}
                <=> \E c \in ModuleSites : c[1] = a
    BY DEF ModuleSites
  <2> QED BY <2>1, <2>2, <2>3 DEF PlacesInv, SitesVisited
<1> QED BY <1>1, PlacesStart, ChainPlaces, HybridStart, HybridStep, PTL DEF HybridSpec

-----------------------------------------------------------------------------
(* The targets of calls and jumps, under the whole chain. *)

\* A pass that keeps the extents of the functions keeps every target accounted for.
LEMMA ExtentsKeepTargets ==
    ASSUME TypeOK, TypeOK', TargetsInv, FunctionsOnly, Len(functions') = Len(functions),
           \A i \in 1..Len(functions) :
              functions'[i].start = functions[i].start /\ functions'[i].end = functions[i].end
    PROVE  TargetsInv'
<1>1. \A t : InSomeFunction(t) <=> \E i \in 1..Len(functions) :
                                     functions[i].start <= t /\ t < functions[i].end
    BY Elements DEF InSomeFunction, TypeOK
<1>2. \A t : InSomeFunction(t)' <=> \E i \in 1..Len(functions') :
                                      functions'[i].start <= t /\ t < functions'[i].end
    <2>1. functions' \in Seq(FunctionUnit)
        BY DEF TypeOK
    <2>2. \A f : f \in ToSet(functions') <=> \E i \in 1..Len(functions') : f = functions'[i]
        BY <2>1, Elements
    <2> QED BY <2>2 DEF InSomeFunction
<1>3. \A t : InSomeFunction(t)' = InSomeFunction(t)
    BY <1>1, <1>2
<1> QED BY <1>3 DEF TargetsInv, Accounted, Settled, Waiting, IsCode, IsWithinMapping,
                    IsExecutableAddress, FunctionsOnly

LEMMA ChainTargets ==
    HybridInductive /\ HybridInductive' /\ SitesVisited /\ TargetsInv /\ [HybridNext]_allVars
        => TargetsInv'
<1> SUFFICES ASSUME HybridInductive, HybridInductive', SitesVisited, TargetsInv, [HybridNext]_allVars
             PROVE  TargetsInv'
    OBVIOUS
<1>1. HybridTypeOK /\ TypeOK /\ TypeOK' /\ FlowInductive
    BY DEF HybridInductive, HybridTypeOK
<1>2. CASE StaticStep \/ Reanalyze
    <2>1. [Next]_vars
        BY <1>2 DEF StaticStep, Reanalyze, IsNew, IsWithinMapping, Next
    <2> QED BY <1>1, <2>1, TargetsStep
<1>3. CASE Interpret \/ LoadTrace \/ SkipUnmarked \/ StartReanalysis \/ Finish \/ UNCHANGED allVars
    <2>1. UNCHANGED vars
        BY <1>3 DEF Interpret, LoadTrace, SkipUnmarked, StartReanalysis, Finish, allVars
    <2> QED BY <1>1, <2>1, TargetsStep
<1>4. CASE RemoveDeadEdge
    BY <1>1, <1>4, RemoveDeadEdgeType, RemoveDeadEdgeSites, ExtentsKeepTargets
<1>5. CASE ResolveFunction
    <2>1. FunctionsOnly /\ Len(functions') = Len(functions)
        BY <1>1, <1>5, ResolveFunctionSites DEF ResolveFunction, FunctionsOnly
    <2>2. \A i \in 1..Len(functions) :
              functions'[i].start = functions[i].start /\ functions'[i].end = functions[i].end
        BY <1>1, <1>5, ResolveFunctionSites
    <2> QED BY <1>1, <2>1, <2>2, ExtentsKeepTargets
<1> QED BY <1>2, <1>3, <1>4, <1>5 DEF HybridNext

\* No direct call or jump is dropped in the whole chain of passes either: whatever
\* the trace resolves and re-enters the rebuilder for, each run of it ends with every
\* executable target that any of them has met decoded or in a function.
THEOREM TargetsStayAccounted == HybridSpec => []TargetsAccounted
<1>1. HybridInit => TargetsInv
    BY DEF HybridInit, Init, TargetsInv
<1>2. HybridInductive /\ PlacesInv /\ TargetsInv => TargetsAccounted
    BY TargetsEnd DEF HybridInductive, PlacesInv
<1>3. PlacesInv => SitesVisited
    BY DEF PlacesInv
<1> QED BY <1>1, <1>2, <1>3, ChainTargets, ChainPlaces, PlacesStart, HybridStart, HybridStep, PTL
        DEF HybridSpec

-----------------------------------------------------------------------------
(* The blocks, under the whole chain. *)

\* A pass that keeps where the blocks of the functions start and end.
LEMMA ExtentsKeepSlots ==
    ASSUME TypeOK, TypeOK', FunctionsOnly, Len(functions') = Len(functions),
           \A i \in 1..Len(functions) :
              /\ Len(functions'[i].blocks) = Len(functions[i].blocks)
              /\ \A m \in 1..Len(functions[i].blocks) :
                    /\ functions'[i].blocks[m].start = functions[i].blocks[m].start
                    /\ functions'[i].blocks[m].end = functions[i].blocks[m].end
    PROVE  SameSlots
<1>1. /\ functions \in Seq(FunctionUnit) /\ cur \in FunctionUnit
      /\ functions' \in Seq(FunctionUnit) /\ cur' \in FunctionUnit /\ cur' = cur
      /\ Len(functions) \in Nat
    BY LenProperties DEF TypeOK, FunctionsOnly
<1> DEFINE n == Len(functions)
<1>2. \A i, m : <<i, m>> \in Slots <=> \/ i \in 1..n /\ m \in 1..Len(functions[i].blocks)
                                       \/ i = n + 1 /\ m \in 1..Len(cur.blocks)
    BY <1>1, SlotList DEF Slots
<1>3. \A i, m : <<i, m>> \in Slots' <=> \/ i \in 1..n /\ m \in 1..Len(functions'[i].blocks)
                                        \/ i = n + 1 /\ m \in 1..Len(cur.blocks)
    <2>1. \A i, m : <<i, m>> \in Slots' <=>
              \/ i \in 1..Len(functions') /\ m \in 1..Len(functions'[i].blocks)
              \/ i = Len(functions') + 1 /\ m \in 1..Len(cur'.blocks)
        BY <1>1, SlotList DEF Slots
    <2> QED BY <1>1, <2>1
<1>4. \A i, m : <<i, m>> \in Slots' <=> <<i, m>> \in Slots
    BY <1>2, <1>3
<1>5. \A k \in Slots \cup Slots' : k = <<k[1], k[2]>>
    BY <1>1, SlotList DEF Slots
<1>6. Slots' = Slots
    <2>1. ASSUME NEW k \in Slots PROVE k \in Slots'
        <3>1. PICK i, m : k = <<i, m>>
            BY <1>5
        <3> QED BY <1>4, <3>1
    <2>2. ASSUME NEW k \in Slots' PROVE k \in Slots
        <3>1. PICK i, m : k = <<i, m>>
            BY <1>5
        <3> QED BY <1>4, <3>1
    <2> QED BY <2>1, <2>2
<1>7. ASSUME NEW k \in Slots PROVE Stays(k)
    <2>1. PICK i, m : k = <<i, m>>
        BY <1>5
    <2>2. CASE i \in 1..n /\ m \in 1..Len(functions[i].blocks)
        <3>1. Slot(k) = functions[i].blocks[m] /\ Slot(k)' = functions'[i].blocks[m]
            BY <1>1, <2>1, <2>2, SlotList DEF Slot
        <3> QED BY <2>2, <3>1 DEF Stays
    <2>3. CASE i = n + 1
        <3>1. Slot(k) = cur.blocks[m] /\ Slot(k)' = cur.blocks[m]
            BY <1>1, <2>1, <2>3, SlotList DEF Slot
        <3> QED BY <3>1 DEF Stays
    <2> QED BY <1>2, <2>1, <2>2, <2>3
<1> QED BY <1>6, <1>7 DEF SameSlots

LEMMA RemoveSuccessorKeeps ==
    ASSUME NEW b \in Block(Nat), NEW a
    PROVE  /\ RemoveSuccessor(b, a).start = b.start /\ RemoveSuccessor(b, a).end = b.end
           /\ ToSet(RemoveSuccessor(b, a).succs) \subseteq {b.succs[1], b.succs[2]}
<1> DEFINE s == IF b.succs[1] # a THEN <<b.succs[1]>>
                ELSE IF b.succs[2] # a THEN <<b.succs[2]>> ELSE <<>>
<1>1. RemoveSuccessor(b, a) = [b EXCEPT !.succs = s]
    BY DEF RemoveSuccessor
<1>2. ToSet(s) \subseteq {b.succs[1], b.succs[2]}
    BY DEF ToSet
<1> HIDE DEF s
<1> QED BY <1>1, <1>2 DEF Block

\* Removing an edge changes no block but for its successors, which become fewer.
LEMMA RemoveDeadEdgeBlocks ==
    ASSUME TypeOK, RemoveDeadEdge
    PROVE  /\ Len(functions') = Len(functions)
           /\ \A i \in 1..Len(functions) :
              /\ Len(functions'[i].blocks) = Len(functions[i].blocks)
              /\ \A m \in 1..Len(functions[i].blocks) :
                    /\ functions'[i].blocks[m].start = functions[i].blocks[m].start
                    /\ functions'[i].blocks[m].end = functions[i].blocks[m].end
                    /\ ToSet(functions'[i].blocks[m].succs) \subseteq ToSet(functions[i].blocks[m].succs)
<1>1. PICK v \in verdicts :
        LET blocks == functions[v[1]].blocks
            b == BlockCovering(blocks, v[2])
        IN  functions' =
              IF b = 0 \/ Len(blocks[b].succs) < 2 THEN functions
              ELSE [functions EXCEPT ![v[1]].blocks[b] = RemoveSuccessor(@, Dead(@, v[3]))]
    BY DEF RemoveDeadEdge
<1>2. functions \in Seq(FunctionUnit)
    BY DEF TypeOK
<1> DEFINE f == functions[v[1]]
           b == BlockCovering(f.blocks, v[2])
<1>3. CASE b = 0 \/ Len(f.blocks[b].succs) < 2
    BY <1>1, <1>3
<1>4. CASE ~ (b = 0 \/ Len(f.blocks[b].succs) < 2)
    <2> DEFINE nb == RemoveSuccessor(f.blocks[b], Dead(f.blocks[b], v[3]))
               nbs == [f.blocks EXCEPT ![b] = nb]
               nf == [f EXCEPT !.blocks = nbs]
    <2>1. functions' = [functions EXCEPT ![v[1]] = nf]
        BY <1>1, <1>4
    <2>2. ASSUME v[1] \in 1..Len(functions)
          PROVE  /\ nf.blocks = nbs /\ Len(nbs) = Len(f.blocks)
                 /\ \A m \in 1..Len(f.blocks) :
                      /\ nbs[m].start = f.blocks[m].start /\ nbs[m].end = f.blocks[m].end
                      /\ ToSet(nbs[m].succs) \subseteq ToSet(f.blocks[m].succs)
        <3>1. f \in FunctionUnit /\ f.blocks \in Seq(Block(Nat))
            <4>1. f \in FunctionUnit
                BY <1>2, <2>2, ElementOfSeq
            <4> QED BY <4>1 DEF FunctionUnit
        <3>2. ASSUME b \in 1..Len(f.blocks)
              PROVE  /\ nb.start = f.blocks[b].start /\ nb.end = f.blocks[b].end
                     /\ ToSet(nb.succs) \subseteq ToSet(f.blocks[b].succs)
            <4> DEFINE c == f.blocks[b]
            <4>1. c \in Block(Nat)
                BY <3>1, <3>2, ElementOfSeq
            <4>2. c.succs \in Seq(Nat) /\ Len(c.succs) \in Nat
                <5>1. c.succs \in Seq(Nat)
                    <6> HIDE DEF c
                    <6> QED BY <4>1 DEF Block
                <5> QED BY <5>1, LenProperties
            <4>3. 1 \in 1..Len(c.succs) /\ 2 \in 1..Len(c.succs)
                BY <1>4, <4>2
            <4>4. c.succs[1] \in ToSet(c.succs) /\ c.succs[2] \in ToSet(c.succs)
                BY <4>2, <4>3, Elements
            <4> HIDE DEF c
            <4>5. nb = RemoveSuccessor(c, Dead(c, v[3]))
                BY DEF c
            <4> HIDE DEF nb
            <4>6. /\ nb.start = c.start /\ nb.end = c.end
                  /\ ToSet(nb.succs) \subseteq ToSet(c.succs)
                BY <4>1, <4>4, <4>5, RemoveSuccessorKeeps
            <4> QED BY <4>6 DEF c
        <3> HIDE DEF nb, f, b
        <3>3. /\ Len(nbs) = Len(f.blocks)
              /\ \A m \in 1..Len(f.blocks) : nbs[m] = IF m = b THEN nb ELSE f.blocks[m]
            BY <3>1
        <3>4. nf.blocks = nbs
            BY <3>1 DEF FunctionUnit
        <3> QED BY <3>2, <3>3, <3>4
    <2> HIDE DEF nf, nbs
    <2>3. /\ Len(functions') = Len(functions)
          /\ \A i \in 1..Len(functions) : functions'[i] = IF i = v[1] THEN nf ELSE functions[i]
        BY <1>2, <2>1
    <2> QED BY <2>2, <2>3
<1> QED BY <1>3, <1>4

\* A pass that only takes successors from the blocks keeps all that is true of them.
Thinned ==
    /\ FunctionsOnly /\ Len(functions') = Len(functions)
    /\ \A i \in 1..Len(functions) :
          /\ Len(functions'[i].blocks) = Len(functions[i].blocks)
          /\ \A m \in 1..Len(functions[i].blocks) :
                /\ functions'[i].blocks[m].start = functions[i].blocks[m].start
                /\ functions'[i].blocks[m].end = functions[i].blocks[m].end
                /\ ToSet(functions'[i].blocks[m].succs) \subseteq ToSet(functions[i].blocks[m].succs)

LEMMA ThinnedEntries ==
    ASSUME TypeOK, TypeOK', Thinned, NEW f \in ToSet(functions'), NEW b \in Closed(f)
    PROVE  \E g \in ToSet(functions) : \E c \in Closed(g) :
              /\ c.start = b.start /\ c.end = b.end
              /\ Entries(f.blocks) \subseteq Entries(g.blocks)
<1>1. functions \in Seq(FunctionUnit) /\ functions' \in Seq(FunctionUnit)
    BY DEF TypeOK
<1>2. PICK i \in 1..Len(functions') : f = functions'[i]
    BY <1>1, Elements
<1>3. i \in 1..Len(functions)
    BY <1>2 DEF Thinned
<1> DEFINE g == functions[i]
<1>4. g \in ToSet(functions)
    BY <1>1, <1>3, Elements
<1>5. f.blocks \in Seq(Block(Nat)) /\ g.blocks \in Seq(Block(Nat))
    <2>1. f \in FunctionUnit /\ g \in FunctionUnit
        BY <1>1, <1>2, <1>3, ElementOfSeq
    <2> HIDE DEF g
    <2> QED BY <2>1 DEF FunctionUnit
<1>6. Len(f.blocks) = Len(g.blocks)
      /\ \A m \in 1..Len(g.blocks) :
            /\ f.blocks[m].start = g.blocks[m].start
            /\ f.blocks[m].end = g.blocks[m].end
            /\ ToSet(f.blocks[m].succs) \subseteq ToSet(g.blocks[m].succs)
    BY <1>2, <1>3 DEF Thinned
<1> HIDE DEF g
<1>7. ASSUME NEW d \in ToSet(f.blocks)
      PROVE  \E c \in ToSet(g.blocks) : /\ c.start = d.start /\ c.end = d.end
                                        /\ ToSet(d.succs) \subseteq ToSet(c.succs)
    <2>1. PICK m \in 1..Len(f.blocks) : d = f.blocks[m]
        BY <1>5, Elements
    <2>2. g.blocks[m] \in ToSet(g.blocks)
        BY <1>5, <1>6, <2>1, Elements
    <2> QED BY <1>6, <2>1, <2>2
<1>8. Entries(f.blocks) \subseteq Entries(g.blocks)
    BY <1>7 DEF Entries
<1>9. PICK c \in ToSet(g.blocks) : c.start = b.start /\ c.end = b.end
    BY <1>7 DEF Closed
<1>10. c \in Closed(g)
    BY <1>9 DEF Closed
<1> QED BY <1>4, <1>8, <1>9, <1>10

LEMMA ThinnedBlocks == TypeOK /\ TypeOK' /\ BlocksInv /\ Thinned => BlocksInv'
<1> SUFFICES ASSUME TypeOK, TypeOK', BlocksInv, Thinned PROVE BlocksInv'
    OBVIOUS
<1>1. UNCHANGED <<image, visited, at, cur, pc, bb>>
    BY DEF Thinned, FunctionsOnly
<1>2. Slots' = Slots /\ \A k \in Slots : Slot(k)'.start = Slot(k).start /\ Slot(k)'.end = Slot(k).end
    BY ExtentsKeepSlots DEF Thinned, SameSlots, Stays
<1>3. Decoded' = Decoded /\ Overlapping' = Overlapping /\ \A a : IsBranch(a)' = IsBranch(a)
    BY <1>1 DEF Decoded, Overlapping, IsBranch
<1>4. OpenInv'
    BY <1>1, <1>3 DEF BlocksInv, OpenInv
<1>5. ExtentInv'
    BY <1>1, <1>2, <1>3 DEF BlocksInv, ExtentInv
<1>6. HeldInv'
    <2> DEFINE In(first, last, a) ==
                   IF last # 0 THEN first <= a /\ a < last ELSE first <= a /\ first .. a \subseteq Decoded'
    <2>1. \A a \in visited : \/ \E k \in Slots : In(Slot(k).start, Slot(k).end, a)
                             \/ bb # NoBlock /\ bb.start <= a /\ a < pc
        BY <1>3 DEF BlocksInv, HeldInv, Holds
    <2> HIDE DEF In
    <2>2. \A a \in visited' : \/ \E k \in Slots' : In(Slot(k)'.start, Slot(k)'.end, a)
                              \/ bb' # NoBlock /\ bb'.start <= a /\ a < pc'
        BY <1>1, <1>2, <2>1
    <2> QED BY <2>2 DEF HeldInv, Holds, In
<1>7. ApartInv'
    BY <1>1, <1>2, <1>3 DEF BlocksInv, ApartInv
<1>8. EntriesInv'
    <2> SUFFICES ASSUME ~ Overlapping', NEW f \in ToSet(functions'), NEW b \in Closed(f),
                        NEW a \in Entries(f.blocks), b.start < a, a < b.end
                 PROVE  FALSE
        BY DEF EntriesInv, Closed
    <2> QED BY <1>3, ThinnedEntries DEF BlocksInv, EntriesInv
<1> QED BY <1>4, <1>5, <1>6, <1>7, <1>8 DEF BlocksInv

LEMMA ChainBlocks ==
    HybridInductive /\ HybridInductive' /\ BlocksInv /\ [HybridNext]_allVars => BlocksInv'
<1> SUFFICES ASSUME HybridInductive, HybridInductive', BlocksInv, [HybridNext]_allVars
             PROVE  BlocksInv'
    OBVIOUS
<1>1. HybridTypeOK /\ TypeOK /\ TypeOK'
    BY DEF HybridInductive, HybridTypeOK
<1>2. CASE StaticStep \/ Reanalyze
    <2>1. [Next]_vars
        BY <1>2 DEF StaticStep, Reanalyze, IsNew, IsWithinMapping, Next
    <2> QED BY <1>1, <2>1, BlocksInvStep
<1>3. CASE Interpret \/ LoadTrace \/ SkipUnmarked \/ StartReanalysis \/ Finish \/ UNCHANGED allVars
    <2>1. UNCHANGED vars
        BY <1>3 DEF Interpret, LoadTrace, SkipUnmarked, StartReanalysis, Finish, allVars
    <2> QED BY <1>1, <2>1, BlocksInvStep
<1>4. CASE RemoveDeadEdge
    <2>1. Thinned
        BY <1>1, <1>4, RemoveDeadEdgeType, RemoveDeadEdgeBlocks DEF Thinned
    <2> QED BY <1>1, <2>1, ThinnedBlocks
<1>5. CASE ResolveFunction
    <2>1. FunctionsOnly /\ Len(functions') = Len(functions)
        BY <1>1, <1>5, ResolveFunctionSites DEF ResolveFunction, FunctionsOnly
    <2>2. \A i \in 1..Len(functions) : functions'[i].blocks = functions[i].blocks
        BY <1>1, <1>5, ResolveFunctionSites
    <2>3. Thinned
        BY <2>1, <2>2 DEF Thinned
    <2> QED BY <1>1, <2>3, ThinnedBlocks
<1> QED BY <1>2, <1>3, <1>4, <1>5 DEF HybridNext

LEMMA ChainBlocksHold == HybridSpec => [](HybridInductive /\ BlocksInv)
<1>1. HybridInit => BlocksInv
    BY BlocksInitially DEF HybridInit
<1> QED BY <1>1, ChainBlocks, HybridStart, HybridStep, PTL DEF HybridSpec

\* The blocks stay what the rebuilder has made them in the whole chain of passes, for
\* every image, trace and choice of verdicts: OpaquePredicatePass takes only successors
\* from them, HybridAnalysisPass changes none, and a function that a re-analysis adds
\* shares no address with those before.
THEOREM BlocksStayBasic == HybridSpec => [](BlocksAreBasic /\ CoveredOrOpen)
<1>1. HybridInductive => TypeOK
    BY DEF HybridInductive, HybridTypeOK
<1> QED BY <1>1, BlocksAreCut, BlocksCoverCode, ChainBlocksHold, PTL

-----------------------------------------------------------------------------
(* What the trace shows. *)

\* The listing of a block depends on what is decoded in the block only.
LEMMA SameInstructions ==
    ASSUME NEW b, image' = image,
           visited' \cap (b.start .. b.end - 1) = visited \cap (b.start .. b.end - 1),
           b.start \in Nat, b.end \in Nat, visited \subseteq Nat, visited' \subseteq Nat
    PROVE  Instructions(b)' = Instructions(b)
<1> DEFINE L(f, vis) ==
              [a \in b.start .. b.end - 1 |->
                  /\ a \in vis
                  /\ \/ a = b.start
                     \/ \E p \in b.start .. a - 1 : f[p] /\ p + image.code[p].len = a]
           listed(vis) == CHOOSE f : f = L(f, vis)
<1>1. \A a \in b.start .. b.end - 1 : a \in visited <=> a \in visited'
    OBVIOUS
<1>2. \A f : L(f, visited) = L(f, visited')
    BY <1>1
<1> HIDE DEF L
<1>3. listed(visited) = listed(visited')
    BY <1>2, Zenon
<1>4. Instructions(b) = {a \in visited : Covers(b, a) /\ listed(visited)[a]}
    BY DEF Instructions, L
<1>5. Instructions(b)' = {a \in visited' : Covers(b, a) /\ listed(visited')[a]}
    BY DEF Instructions, Covers, L
<1>6. \A a : (a \in visited /\ Covers(b, a)) <=> (a \in visited' /\ Covers(b, a))
    <2>1. \A a \in Nat : Covers(b, a) => a \in b.start .. b.end - 1
        BY DEF Covers
    <2> QED BY <1>1, <2>1
<1> HIDE DEF listed
<1> QED BY <1>3, <1>4, <1>5, <1>6

LEMMA SameIndirects ==
    ASSUME NEW f, image' = image,
           \A m \in DOMAIN f.blocks : Instructions(f.blocks[m])' = Instructions(f.blocks[m])
    PROVE  GetIndirectInstructions(f)' = GetIndirectInstructions(f)
<1>1. Reached(f.blocks, f.start) \subseteq DOMAIN f.blocks
    BY DEF Reached
<1> DEFINE R == Reached(f.blocks, f.start)
<1>2. Reached(f.blocks, f.start)' = R
    BY DEF Reached
<1> HIDE DEF R
<1>3. UNION {Instructions(f.blocks[i]) : i \in R} = UNION {Instructions(f.blocks[i])' : i \in R}
    BY <1>1 DEF R
<1> QED BY <1>2, <1>3 DEF GetIndirectInstructions, R

\* Decoding touches no block that has been added.
LEMMA AddedCodeIsOld ==
    ASSUME TypeOK, TypeOK', BlocksInv, [Next]_vars, ~ Overlapping', NEW k \in Slots
    PROVE  visited' \cap (Slot(k).start .. Slot(k).end - 1)
              = visited \cap (Slot(k).start .. Slot(k).end - 1)
<1>1. image' = image /\ (visited' = visited \/ Decodes)
    BY BlocksStep DEF BlocksInv, Extends, Closes, Drops, Cuts, Rests
<1>2. CASE visited' = visited
    BY <1>2
<1>3. CASE Decodes
    <2>1. pc \in Nat /\ visited' = visited \cup {pc} /\ pc \notin Decoded
        <3>1. /\ pc \in Nat /\ Next_pc \in Nat /\ pc < Next_pc
              /\ \A a \in pc .. Next_pc - 1 : a \notin Decoded
            BY <1>1, <1>3, Fresh
        <3>2. pc \in pc .. Next_pc - 1
            BY <3>1
        <3> QED BY <1>3, <3>1, <3>2 DEF Decodes
    <2>2. Slot(k).start .. Slot(k).end - 1 \subseteq Decoded
        <3>1. CASE Slot(k).end = 0
            <4>1. Slot(k).start \in Nat
                <5>1. Slot(k) \in Block(Nat)
                    BY SlotTypes
                <5> QED BY <5>1 DEF Block
            <4> QED BY <3>1, <4>1
        <3> QED BY <3>1 DEF BlocksInv, ExtentInv
    <2> QED BY <2>1, <2>2
<1> QED BY <1>1, <1>2, <1>3

\* Where the chain is: only the rebuilder's own passes leave it under way, nothing is
\* verified or resolved before the hybrid pass, and what is verified lies behind it.
StageInv ==
    /\ stage \in {"opaque", "hybrid", "finished"} => at = "done"
    /\ stage \in {"static", "opaque"} => verified = {} /\ resolved = {}
    /\ stage = "finished" => resolved = {}
    /\ \A i \in verified : i < fi

\* The targets of a verified function are its call sites, and what leads to code is
\* accounted for, or kept in mind by the rebuilder, or waits to be re-analysed.
ObservedInv ==
    ~ Overlapping =>
        \A i \in verified : \A a \in GetIndirectInstructions(functions[i]) : \A t \in Observed(a) :
            /\ <<a, t>> \in functions[i].callSites
            /\ <<a, 0>> \notin functions[i].callSites
            /\ IsCode(t) => Accounted(t) \/ Waiting(t) \/ t \in resolved

LEMMA StageStep == HybridTypeOK /\ StageInv /\ [HybridNext]_allVars => StageInv'
<1> SUFFICES ASSUME HybridTypeOK, StageInv, [HybridNext]_allVars PROVE StageInv'
    OBVIOUS
<1>1. Len(functions) \in Nat /\ fi \in Nat /\ verified \subseteq Nat
    BY LenProperties DEF HybridTypeOK, TypeOK
<1>2. CASE StaticStep
    BY <1>2 DEF StaticStep, passVars, StageInv
<1>3. CASE Interpret \/ RemoveDeadEdge
    BY <1>3 DEF Interpret, RemoveDeadEdge, vars, StageInv
<1>4. CASE LoadTrace \/ StartReanalysis \/ Finish
    BY <1>4 DEF LoadTrace, StartReanalysis, Finish, vars, StageInv
<1>5. CASE SkipUnmarked \/ ResolveFunction
    <2>1. at' = at /\ resolved \subseteq resolved' /\ fi' = fi + 1 /\ verified' \subseteq verified \cup {fi}
        BY <1>5 DEF SkipUnmarked, ResolveFunction, vars
    <2>2. stage = "hybrid" /\ stage' = "hybrid"
        BY <1>5 DEF SkipUnmarked, ResolveFunction
    <2>3. \A i \in verified' : i < fi'
        BY <1>1, <2>1 DEF StageInv
    <2> QED BY <2>1, <2>2, <2>3 DEF StageInv
<1>6. CASE Reanalyze
    BY <1>6 DEF Reanalyze, StageInv
<1>7. CASE UNCHANGED allVars
    BY <1>7 DEF allVars, vars, passVars, StageInv
<1> QED BY <1>2, <1>3, <1>4, <1>5, <1>6, <1>7 DEF HybridNext

\* A verified function lists the same indirect instructions while the rebuilder runs.
LEMMA VerifiedStays ==
    ASSUME TypeOK, TypeOK', BlocksInv, [Next]_vars, ~ Overlapping', NEW i \in 1..Len(functions)
    PROVE  /\ functions'[i] = functions[i]
           /\ GetIndirectInstructions(functions[i])' = GetIndirectInstructions(functions[i])
<1>1. /\ functions \in Seq(FunctionUnit) /\ cur \in FunctionUnit
      /\ image' = image /\ visited \subseteq Nat /\ visited' \subseteq Nat
    BY RebuilderAdds, MappedFinite DEF TypeOK
<1>2. functions'[i] = functions[i]
    BY <1>1, RebuilderAdds
<1>3. PICK f : f = functions[i]
    OBVIOUS
<1>4. f \in FunctionUnit /\ f.blocks \in Seq(Block(Nat))
    <2>1. f \in FunctionUnit
        BY <1>1, <1>3, ElementOfSeq
    <2> QED BY <2>1 DEF FunctionUnit
<1>5. ASSUME NEW m \in DOMAIN f.blocks
      PROVE  Instructions(f.blocks[m])' = Instructions(f.blocks[m])
    <2>1. m \in 1..Len(f.blocks)
        BY <1>4
    <2>2. <<i, m>> \in Slots /\ Slot(<<i, m>>) = f.blocks[m]
        BY <1>1, <1>3, <2>1, SlotList DEF Slots, Slot
    <2>3. PICK b : b = f.blocks[m]
        OBVIOUS
    <2>4. b \in Block(Nat)
        BY <1>4, <2>1, <2>3, ElementOfSeq
    <2>5. b.start \in Nat /\ b.end \in Nat
        BY <2>4 DEF Block
    <2>6. visited' \cap (b.start .. b.end - 1) = visited \cap (b.start .. b.end - 1)
        BY <2>2, <2>3, AddedCodeIsOld
    <2>7. Instructions(b)' = Instructions(b)
        BY <1>1, <2>5, <2>6, SameInstructions
    <2> QED BY <2>3, <2>7
<1>6. GetIndirectInstructions(f)' = GetIndirectInstructions(f)
    BY <1>1, <1>5, SameIndirects
<1>7. GetIndirectInstructions(functions[i])' = GetIndirectInstructions(f)'
    BY <1>2, <1>3
<1> QED BY <1>2, <1>3, <1>6, <1>7

\* A step of the rebuilder, or the re-entry at a resolved target.
LEMMA RebuilderObserved ==
    ASSUME HybridInductive, HybridInductive', BlocksInv, PlacesInv, TargetsInv, ObservedInv,
           [Next]_vars, UNCHANGED <<verified, trace>>,
           \A t \in resolved : IsCode(t) => t \in resolved' \/ Accounted(t) \/ Waiting(t)'
    PROVE  ObservedInv'
<1>1. HybridTypeOK /\ TypeOK /\ TypeOK' /\ FlowInductive /\ SitesVisited
    BY DEF HybridInductive, HybridTypeOK, PlacesInv
<1> SUFFICES ASSUME ~ Overlapping', NEW i \in verified',
                    NEW a \in GetIndirectInstructions(functions[i])', NEW t \in Observed(a)'
             PROVE  /\ <<a, t>> \in functions'[i].callSites
                    /\ <<a, 0>> \notin functions'[i].callSites
                    /\ IsCode(t)' => Accounted(t)' \/ Waiting(t)' \/ t \in resolved'
    BY DEF ObservedInv
<1>2. ~ Overlapping
    BY RebuilderAdds DEF Overlapping
<1>3. i \in verified /\ i \in 1..Len(functions)
    BY <1>1 DEF HybridTypeOK
<1>4. functions'[i] = functions[i] /\ a \in GetIndirectInstructions(functions[i])
    BY <1>1, <1>3, VerifiedStays
<1>5. t \in Observed(a)
    BY DEF Observed, GetRecordsForPC
<1>6. /\ <<a, t>> \in functions[i].callSites
      /\ <<a, 0>> \notin functions[i].callSites
      /\ IsCode(t) => Accounted(t) \/ Waiting(t) \/ t \in resolved
    BY <1>2, <1>3, <1>4, <1>5 DEF ObservedInv
<1>7. IsCode(t)' = IsCode(t) /\ (Accounted(t) => Accounted(t)')
    BY <1>1, AccountedStays
<1>8. IsCode(t) /\ (Accounted(t) \/ Waiting(t)) => Accounted(t)' \/ Waiting(t)'
    BY <1>1, KeptInMind
<1> QED BY <1>4, <1>6, <1>7, <1>8

\* The hybrid pass looks at one more function.
LEMMA ResolveFunctionObserved ==
    ASSUME HybridInductive, HybridInductive', StageInv, ObservedInv, ResolveFunction
    PROVE  ObservedInv'
<1>1. HybridTypeOK /\ TypeOK /\ TypeOK'
    BY DEF HybridInductive, HybridTypeOK
<1> SUFFICES ASSUME ~ Overlapping', NEW i \in verified',
                    NEW a \in GetIndirectInstructions(functions[i])', NEW t \in Observed(a)'
             PROVE  /\ <<a, t>> \in functions'[i].callSites
                    /\ <<a, 0>> \notin functions'[i].callSites
                    /\ IsCode(t)' => Accounted(t)' \/ Waiting(t)' \/ t \in resolved'
    BY DEF ObservedInv
<1> DEFINE indirects == GetIndirectInstructions(functions[fi])
           sites == UNION {{<<e, s>> : s \in Observed(e)} : e \in indirects}
           nf == AddCallSites(functions[fi], sites)
<1>2. /\ functions' = [functions EXCEPT ![fi] = nf] /\ resolved' = resolved \cup {c[2] : c \in sites}
      /\ verified' = verified \cup {fi} /\ trace' = trace
      /\ UNCHANGED <<image, visited, functionWork, at, cur, work, pc>>
    BY DEF ResolveFunction
<1>3. ~ Overlapping
    BY <1>2 DEF Overlapping
<1>4. functions \in Seq(FunctionUnit) /\ fi \in 1..Len(functions) /\ functions[fi] \in FunctionUnit
    <2>1. functions \in Seq(FunctionUnit) /\ fi \in 1..Len(functions)
        BY <1>1, ResolveFunctionSites DEF TypeOK
    <2> QED BY <2>1, ElementOfSeq
<1>5. t \in Observed(a) /\ t # 0
    BY <1>2 DEF Observed, GetRecordsForPC
<1>6. \A s : Accounted(s)' = Accounted(s) /\ IsCode(s)' = IsCode(s) /\ Waiting(s)' = Waiting(s)
    <2>1. \A j \in 1..Len(functions) :
              functions'[j].start = functions[j].start /\ functions'[j].end = functions[j].end
        BY <1>1, ResolveFunctionSites
    <2>2. Len(functions') = Len(functions) /\ functions' \in Seq(FunctionUnit)
        BY <1>1, ResolveFunctionSites DEF TypeOK
    <2>3. \A s : InSomeFunction(s) <=> \E j \in 1..Len(functions) :
                                          functions[j].start <= s /\ s < functions[j].end
        BY <1>4, Elements DEF InSomeFunction
    <2>4. \A f : f \in ToSet(functions') <=> \E j \in 1..Len(functions') : f = functions'[j]
        BY <2>2, Elements
    <2>5. \A s : InSomeFunction(s)' <=> \E j \in 1..Len(functions') :
                                          functions'[j].start <= s /\ s < functions'[j].end
        BY <2>4 DEF InSomeFunction
    <2>6. \A s : InSomeFunction(s)' = InSomeFunction(s)
        BY <2>1, <2>2, <2>3, <2>5
    <2> QED BY <1>2, <2>6 DEF Accounted, Settled, Waiting, IsCode, IsWithinMapping, IsExecutableAddress
<1>7. CASE i = fi
    <2> HIDE DEF nf, sites, indirects
    <2>1. functions'[fi] = nf
        BY <1>2, <1>4
    <2>2. /\ nf.start = functions[fi].start /\ nf.blocks = functions[fi].blocks
          /\ nf.callSites = (functions[fi].callSites \ {<<c[1], 0>> : c \in sites}) \cup sites
        BY <1>4 DEF nf, AddCallSites, FunctionUnit
    <2>3. PICK f, g : f = functions[fi] /\ g = nf
        OBVIOUS
    <2>4. GetIndirectInstructions(g)' = GetIndirectInstructions(f)
        <3>1. f.start = g.start /\ f.blocks = g.blocks
            BY <2>2, <2>3
        <3>2. \A b : Instructions(b)' = Instructions(b)
            BY <1>2 DEF Instructions
        <3> QED BY <1>2, <3>1, <3>2 DEF GetIndirectInstructions
    <2>5. a \in indirects
        BY <1>7, <2>1, <2>3, <2>4 DEF indirects
    <2>6. <<a, t>> \in sites
        BY <1>5, <2>5 DEF sites
    <2>7. <<a, 0>> \notin sites
        BY DEF sites, Observed
    <2>8. <<a, t>>[1] = a /\ <<a, t>>[2] = t
        OBVIOUS
    <2>9. <<a, 0>> \in {<<c[1], 0>> : c \in sites} /\ t \in resolved'
        BY <1>2, <2>6, <2>8
    <2> QED BY <1>7, <2>1, <2>2, <2>6, <2>7, <2>9
<1>8. CASE i # fi
    <2>1. i \in verified /\ i \in 1..Len(functions) /\ functions'[i] = functions[i]
        BY <1>1, <1>2, <1>4, <1>8, ResolveFunctionSites DEF HybridTypeOK
    <2>2. PICK f : f = functions[i]
        OBVIOUS
    <2>3. GetIndirectInstructions(f)' = GetIndirectInstructions(f)
        <3>1. \A b : Instructions(b)' = Instructions(b)
            BY <1>2 DEF Instructions
        <3> QED BY <1>2, <3>1 DEF GetIndirectInstructions
    <2>4. a \in GetIndirectInstructions(functions[i])
        BY <2>1, <2>2, <2>3
    <2>5. resolved \subseteq resolved'
        BY <1>2
    <2> QED BY <1>3, <1>5, <1>6, <2>1, <2>4, <2>5 DEF ObservedInv
<1> QED BY <1>7, <1>8

LEMMA ChainObserved ==
    HybridInductive /\ HybridInductive' /\ BlocksInv /\ PlacesInv /\ TargetsInv
        /\ StageInv /\ ObservedInv /\ [HybridNext]_allVars => ObservedInv'
<1> SUFFICES ASSUME HybridInductive, HybridInductive', BlocksInv, PlacesInv, TargetsInv,
                    StageInv, ObservedInv, [HybridNext]_allVars
             PROVE  ObservedInv'
    OBVIOUS
<1>1. HybridTypeOK /\ TypeOK /\ SitesVisited
    BY DEF HybridInductive, HybridTypeOK, PlacesInv
<1>2. CASE StaticStep
    <2>1. [Next]_vars /\ UNCHANGED <<verified, trace, resolved>>
        BY <1>2 DEF StaticStep, Next, passVars
    <2> QED BY <2>1, RebuilderObserved
<1>3. CASE Reanalyze
    <2>1. [Next]_vars /\ UNCHANGED <<verified, trace>>
        BY <1>3 DEF Reanalyze, IsNew, IsWithinMapping, Next
    <2>2. PICK a : a = Min(resolved)
        OBVIOUS
    <2>3. resolved' = resolved \ {a} /\ (IsNew(a) => ReAnalyzeFrom(a))
        BY <1>3, <2>2 DEF Reanalyze
    <2>4. ASSUME NEW t \in resolved, IsCode(t)
          PROVE  t \in resolved' \/ Accounted(t) \/ Waiting(t)'
        <3>1. CASE t # a
            BY <2>3, <3>1
        <3>2. CASE t = a /\ IsNew(a)
            <4>1. functionWork' = <<a>>
                BY <2>3, <3>2 DEF ReAnalyzeFrom
            <4>2. a \in ToSet(functionWork')
                BY <4>1 DEF ToSet
            <4> QED BY <3>2, <4>2 DEF Waiting
        <3>3. CASE t = a /\ ~ IsNew(a)
            BY <1>1, <2>4, <3>3, KnownIsSome DEF IsNew, IsCode, Accounted, Settled
        <3> QED BY <3>1, <3>2, <3>3
    <2> QED BY <2>1, <2>4, RebuilderObserved
<1>4. CASE Interpret \/ LoadTrace \/ RemoveDeadEdge
    <2>1. verified = {} /\ verified' = {}
        BY <1>4 DEF Interpret, LoadTrace, RemoveDeadEdge, StageInv
    <2> QED BY <2>1 DEF ObservedInv
<1>5. CASE SkipUnmarked \/ StartReanalysis \/ Finish \/ UNCHANGED allVars
    <2>1. UNCHANGED vars /\ UNCHANGED <<verified, trace, resolved>>
        BY <1>5 DEF SkipUnmarked, StartReanalysis, Finish, allVars, passVars
    <2> QED BY <2>1, RebuilderObserved
<1> QED BY <1>2, <1>3, <1>4, <1>5, ResolveFunctionObserved DEF HybridNext

\* What the trace shows is not lost, for every image, trace and choice of verdicts and
\* unless decoded instructions overlap: once HybridAnalysisPass has verified a function
\* the blocks of its listing are not decoded anew, so that its indirect instructions
\* stay the ones it has looked up in the trace; each target it has resolved stays a
\* call site and, if it leads to code, is decoded or in a function when Run returns.
THEOREM ObservedIsAnalyzedHolds == HybridSpec => []ObservedIsAnalyzed
<1>1. HybridInit => StageInv /\ ObservedInv
    BY DEF HybridInit, StageInv, ObservedInv
<1>2. HybridInit => TargetsInv
    BY DEF HybridInit, Init, TargetsInv
<1>3. HybridInductive => HybridTypeOK
    BY DEF HybridInductive
<1>4. PlacesInv => SitesVisited
    BY DEF PlacesInv
<1>5. HybridInductive /\ PlacesInv /\ TargetsInv /\ StageInv /\ ObservedInv => ObservedIsAnalyzed
    <2> SUFFICES ASSUME HybridInductive, PlacesInv, TargetsInv, StageInv, ObservedInv,
                        stage = "finished", ~ Overlapping, NEW i \in verified,
                        NEW a \in GetIndirectInstructions(functions[i]), NEW t \in Observed(a)
                 PROVE  /\ <<a, t>> \in functions[i].callSites
                        /\ <<a, 0>> \notin functions[i].callSites
                        /\ IsCode(t) => Accounted(t)
        BY DEF ObservedIsAnalyzed, IsCode, Accounted
    <2>1. at = "done" /\ resolved = {}
        BY DEF StageInv
    <2>2. ~ Waiting(t)
        BY <2>1 DEF Waiting, TargetsInv, PlacesInv, SitesVisited, HybridInductive, FlowInductive,
           BetweenFunctions, ToSet
    <2> QED BY <2>1, <2>2 DEF ObservedInv
<1> QED BY <1>1, <1>2, <1>3, <1>4, <1>5, ChainObserved, StageStep, ChainBlocksHold, ChainTargets,
           ChainPlaces, PlacesStart, PTL DEF HybridSpec
=============================================================================
