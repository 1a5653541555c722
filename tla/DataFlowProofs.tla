---------------------------- MODULE DataFlowProofs ----------------------------
(***************************************************************************)
(* Proofs about DataFlow, for any registers that share bits in any way and *)
(* any values: as long as the pass follows, what it knows holds, and the   *)
(* targets it records are where the machine goes.                          *)
(***************************************************************************)
EXTENDS DataFlow, TLAPS

DataFlowInv == TypeOK /\ KnownHold

\* What an instruction leaves in the register file.
LEMMA ApplyIsTyped ==
    ASSUME TypeOK, NEW insn \in Insns
    PROVE  LET file == ApplyInstruction(known, insn)
           IN  /\ DOMAIN file \subseteq Registers /\ file \in [DOMAIN file -> Values]
               /\ \A r \in DOMAIN file :
                     \/ insn.op = "load" /\ r = insn.dst /\ file[r] = insn.value
                     \/ /\ ~ (insn.op = "load" /\ r = insn.dst)
                        /\ r \in DOMAIN known /\ r \notin ErasedBy(insn) /\ file[r] = known[r]
<1>. DEFINE kept == (DOMAIN known \ ErasedBy(insn)) \cup SetBy(insn)
            file == ApplyInstruction(known, insn)
<1>1. SetBy(insn) \subseteq Registers /\ \A r \in SetBy(insn) : insn.op = "load" /\ r = insn.dst /\ insn.value \in Values
  BY DEF SetBy, Insns, Loads, Writes, CondWrites, Transfers, Calls, IndirectCalls,
         Jumps, IndirectJumps, Branches
<1>2. DOMAIN file = kept /\ \A r \in kept : file[r] = IF r \in SetBy(insn) THEN insn.value ELSE known[r]
  BY DEF ApplyInstruction
<1>3. \A r \in kept : file[r] \in Values
  BY <1>1, <1>2 DEF TypeOK
<1>4. file = [r \in kept |-> file[r]]
  BY DEF ApplyInstruction
<1>5. \A r : insn.op = "load" /\ r = insn.dst => r \in SetBy(insn)
  BY DEF SetBy
<1>. QED BY <1>1, <1>2, <1>3, <1>4, <1>5 DEF TypeOK

LEMMA ResolveIsTyped ==
    ASSUME TypeOK, NEW insn \in Insns
    PROVE  TryResolve(known, insn) \subseteq Values
BY DEF TypeOK, TryResolve

\* The registers the machine may change, by kind of instruction.
LEMMA ExecuteChanges ==
    ASSUME TypeOK, NEW insn \in Insns, NEW f \in Execute(insn)
    PROVE  /\ f \in [Registers -> Values]
           /\ insn.op = "load" =>
                 /\ f[insn.dst] = insn.value
                 /\ \A r \in Registers \ Touched({insn.dst}) : f[r] = regs[r]
           /\ insn.op = "write" => \A r \in Registers \ Touched(insn.dsts) : f[r] = regs[r]
           /\ insn.op = "condwrite" => \A r \in Registers \ Touched({insn.dst}) : f[r] = regs[r]
           /\ insn.op = "call" => \A r \in Registers \ Volatile : f[r] = regs[r]
           /\ insn.op \in {"jmp", "branch"} => f = regs
<1>1. insn.op \in {"load", "write", "condwrite", "call", "jmp", "branch"}
  BY DEF Insns, Loads, Writes, CondWrites, Transfers, Calls, IndirectCalls,
         Jumps, IndirectJumps, Branches
<1>2. CASE insn.op = "load"
  BY <1>2 DEF Execute, Changed
<1>3. CASE insn.op = "write"
  BY <1>3 DEF Execute, Changed
<1>4. CASE insn.op = "condwrite"
  BY <1>4 DEF Execute, Changed
<1>5. CASE insn.op = "call"
  BY <1>5 DEF Execute, Changed
<1>6. CASE insn.op \in {"jmp", "branch"}
  BY <1>6 DEF Execute, TypeOK
<1>. QED BY <1>1, <1>2, <1>3, <1>4, <1>5, <1>6

\* An instruction that is followed leaves what is known true.
LEMMA FollowedHold ==
    ASSUME TypeOK, NEW insn \in Insns, NEW f \in Execute(insn), Follows(insn),
           \A r \in DOMAIN known : regs[r] = known[r]
    PROVE  \A r \in DOMAIN ApplyInstruction(known, insn) : f[r] = ApplyInstruction(known, insn)[r]
<1>. DEFINE file == ApplyInstruction(known, insn)
<1>. SUFFICES ASSUME NEW r \in DOMAIN file
              PROVE  f[r] = file[r]
  OBVIOUS
<1>1. r \in Registers
  BY ApplyIsTyped
<1>2. CASE insn.op = "load" /\ r = insn.dst /\ file[r] = insn.value
  BY <1>2, ExecuteChanges
<1>3. CASE /\ ~ (insn.op = "load" /\ r = insn.dst)
           /\ r \in DOMAIN known /\ r \notin ErasedBy(insn) /\ file[r] = known[r]
  <2>1. insn.op \in {"load", "write", "condwrite", "call", "jmp", "branch"}
    BY DEF Insns, Loads, Writes, CondWrites, Transfers, Calls, IndirectCalls,
           Jumps, IndirectJumps, Branches
  <2>2. f[r] = regs[r]
    <3>1. CASE insn.op = "load"
      <4>1. r \notin Touched({insn.dst})
        BY <1>3, <3>1 DEF Follows
      <4>. QED BY <1>1, <3>1, <4>1, ExecuteChanges
    <3>2. CASE insn.op = "write"
      <4>1. r \notin Touched(insn.dsts)
        BY <1>3, <3>2 DEF Follows, ErasedBy
      <4>. QED BY <1>1, <3>2, <4>1, ExecuteChanges
    <3>3. CASE insn.op = "condwrite"
      <4>1. r \notin Touched({insn.dst})
        BY <1>3, <3>3 DEF Follows
      <4>. QED BY <1>1, <3>3, <4>1, ExecuteChanges
    <3>4. CASE insn.op = "call"
      <4>1. r \notin Volatile
        BY <1>3, <3>4 DEF Follows
      <4>. QED BY <1>1, <3>4, <4>1, ExecuteChanges
    <3>5. CASE insn.op \in {"jmp", "branch"}
      BY <3>5, ExecuteChanges
    <3>. QED BY <2>1, <3>1, <3>2, <3>3, <3>4, <3>5
  <2>. QED BY <1>3, <2>2
<1>. QED BY <1>2, <1>3, ApplyIsTyped

-----------------------------------------------------------------------------
LEMMA InitKnown == Init => DataFlowInv
<1>. SUFFICES ASSUME Init PROVE DataFlowInv
  OBVIOUS
<1>1. DOMAIN known = {}
  BY DEF Init
<1>2. known \in [{} -> Values]
  BY <1>1 DEF Init
<1>. QED BY <1>1, <1>2 DEF Init, DataFlowInv, TypeOK, KnownHold

\* The round of the loop that all instructions have in common.
LEMMA AnalyzeIsTyped ==
    ASSUME TypeOK, NEW insn \in Insns, Analyze(insn)
    PROVE  /\ DOMAIN known' \subseteq Registers /\ known' \in [DOMAIN known' -> Values]
           /\ resolved' \subseteq Values
BY ApplyIsTyped, ResolveIsTyped DEF Analyze

\* The step of an instruction that the machine executes.
LEMMA ExecutedKeeps ==
    ASSUME DataFlowInv, NEW insn \in Insns, Analyze(insn), UNCHANGED away,
           IF away THEN UNCHANGED <<regs, exact>>
           ELSE regs' \in Execute(insn) /\ exact' = (exact /\ Follows(insn))
    PROVE  /\ regs' \in [Registers -> Values] /\ exact' \in BOOLEAN
           /\ KnownHold'
<1>. USE DEF DataFlowInv
<1>1. CASE away
  BY <1>1 DEF TypeOK, KnownHold
<1>2. CASE ~ away
  <2>1. regs' \in [Registers -> Values] /\ exact' \in BOOLEAN
    BY <1>2, ExecuteChanges DEF TypeOK
  <2>2. ASSUME exact' PROVE \A r \in DOMAIN known' : regs'[r] = known'[r]
    <3>1. exact /\ Follows(insn) /\ regs' \in Execute(insn)
      BY <1>2, <2>2
    <3>2. \A r \in DOMAIN known : regs[r] = known[r]
      BY <1>2, <3>1 DEF KnownHold
    <3>3. \A r \in DOMAIN ApplyInstruction(known, insn) : regs'[r] = ApplyInstruction(known, insn)[r]
      BY <3>1, <3>2, FollowedHold
    <3>. QED BY <3>3 DEF Analyze
  <2>. QED BY <2>1, <2>2 DEF KnownHold
<1>. QED BY <1>1, <1>2

\* A transfer leaves the register file and the registers alone.
LEMMA TransferKeeps ==
    ASSUME DataFlowInv, NEW insn \in Jumps \cup IndirectJumps \cup Branches,
           Analyze(insn), UNCHANGED <<regs, exact>>, away => away'
    PROVE  KnownHold'
<1>1. insn \in Insns /\ insn.op \notin {"load", "write"}
  BY DEF Insns, Transfers, Jumps, IndirectJumps, Branches
<1>2. \A r \in DOMAIN known' : r \in DOMAIN known /\ known'[r] = known[r]
  BY <1>1, ApplyIsTyped DEF Analyze, DataFlowInv
<1>. QED BY <1>2 DEF DataFlowInv, KnownHold

LEMMA StepKeepsKnown ==
    ASSUME DataFlowInv, [Next]_vars
    PROVE  DataFlowInv'
<1>. USE DEF DataFlowInv
<1>1. ASSUME NEW insn \in Insns, Instruction(insn)
      PROVE  DataFlowInv'
  BY <1>1, AnalyzeIsTyped, ExecutedKeeps DEF Instruction, TypeOK
<1>2. ASSUME NEW insn \in Insns, Call(insn)
      PROVE  DataFlowInv'
  <2>1. went' \subseteq Values
    BY <1>2 DEF Call, TypeOK, ThroughRegister, Calls, IndirectCalls
  <2>. QED BY <1>2, <2>1, AnalyzeIsTyped, ExecutedKeeps DEF Call, TypeOK
<1>3. ASSUME NEW insn \in Insns, Jump(insn)
      PROVE  DataFlowInv'
  <2>1. went' \subseteq Values
    BY <1>3 DEF Jump, TypeOK, ThroughRegister, Jumps, IndirectJumps, Branches
  <2>2. away' \in BOOLEAN /\ (away => away')
    BY <1>3 DEF Jump
  <2>3. KnownHold'
    BY <1>3, <2>2, TransferKeeps DEF Jump
  <2>. QED BY <1>3, <2>1, <2>2, <2>3, AnalyzeIsTyped DEF Jump, TypeOK
<1>4. CASE NextBlock
  BY <1>4 DEF NextBlock, TypeOK, KnownHold
<1>5. CASE Unwalked
  BY <1>5 DEF Unwalked, TypeOK, KnownHold
<1>6. CASE AnalyzeFunction
  <2>1. DOMAIN known' = {} /\ known' \in [{} -> Values]
    BY <1>6 DEF AnalyzeFunction
  <2>. QED BY <1>6, <2>1 DEF AnalyzeFunction, Enter, TypeOK, KnownHold
<1>7. CASE UNCHANGED vars
  BY <1>7 DEF vars, TypeOK, KnownHold
<1>. QED BY <1>1, <1>2, <1>3, <1>4, <1>5, <1>6, <1>7 DEF Next

\* The register file only has values of registers.
THEOREM TypeCorrect == Spec => []TypeOK
<1>1. Init => DataFlowInv
  BY InitKnown
<1>2. DataFlowInv /\ [Next]_vars => DataFlowInv'
  BY StepKeepsKnown
<1>3. DataFlowInv => TypeOK
  BY DEF DataFlowInv
<1>. QED BY <1>1, <1>2, <1>3, PTL DEF Spec

\* While the pass follows, every known value is what the register holds: the
\* register file of DataFlowAnalysisPass, for all programs and registers.
THEOREM KnownValuesHold == Spec => []KnownHold
<1>1. Init => DataFlowInv
  BY InitKnown
<1>2. DataFlowInv /\ [Next]_vars => DataFlowInv'
  BY StepKeepsKnown
<1>3. DataFlowInv => KnownHold
  BY DEF DataFlowInv
<1>. QED BY <1>1, <1>2, <1>3, PTL DEF Spec

\* And the target recorded for an indirect transfer is where it goes.
THEOREM ResolvedTargetsAreTaken == Spec => ResolvedIsTaken
<1>1. Init => DataFlowInv
  BY InitKnown
<1>2. DataFlowInv /\ [Next]_vars => DataFlowInv'
  BY StepKeepsKnown
<1>. DEFINE Taken == exact /\ went' # {} /\ resolved' # {} => resolved' = went'
<1>3. DataFlowInv /\ [Next]_vars => [Taken]_vars
  <2>. SUFFICES ASSUME DataFlowInv, Next, exact, went' # {}, resolved' # {}
                PROVE  resolved' = went'
    BY DEF vars
  <2>1. PICK insn \in Insns : /\ ThroughRegister(insn) /\ ~ away
                              /\ resolved' = TryResolve(known, insn)
                              /\ went' = {regs[insn.reg]}
    BY DEF Next, Instruction, Call, Jump, NextBlock, Unwalked, AnalyzeFunction, Analyze
  <2>. QED BY <2>1 DEF TryResolve, DataFlowInv, KnownHold
<1>. QED BY <1>1, <1>2, <1>3, PTL DEF Spec, ResolvedIsTaken
=============================================================================
