------------------------------- MODULE DataFlow -------------------------------
(***************************************************************************)
(* DataFlowAnalysisPass beside the machine that executes the function it   *)
(* walks.  The pass goes through the vector of blocks once and carries a   *)
(* register file of known values from instruction to instruction, across   *)
(* the ends of blocks and past calls; an indirect call or jump through a   *)
(* register with a known value gets that value as its target.  The machine *)
(* runs the same instructions until a branch takes it elsewhere.           *)
(*                                                                         *)
(* A register is a name as the decoder gives it: RAX, EAX and AL are three *)
(* keys of the register file that share bits, which Overlapping says.  Of  *)
(* an instruction the model has what it does to registers.                 *)
(***************************************************************************)
EXTENDS Integers, FiniteSets

CONSTANTS
    Registers,      \* the names of registers
    Overlapping,    \* the names that share bits with a name, itself included
    Volatile,       \* the names a called function may change
    Values          \* what a register may hold; 0 is one of them

ASSUME OverlappingAssumption ==
    /\ Overlapping \in [Registers -> SUBSET Registers]
    /\ \A r \in Registers : r \in Overlapping[r]
ASSUME VolatileAssumption == Volatile \subseteq Registers
ASSUME ValuesAssumption == 0 \in Values

-----------------------------------------------------------------------------
(* Instructions: a load is mov reg, imm; lea reg of an absolute address or   *)
(* one relative to the instruction; or xor reg, reg.  A write is any other   *)
(* instruction with its written registers, a conditional write one like      *)
(* cmov, whose operand the decoder marks as conditionally written.           *)
Loads == [op : {"load"}, dst : Registers, value : Values]
Writes == [op : {"write"}, dsts : SUBSET Registers]
CondWrites == [op : {"condwrite"}, dst : Registers]
Calls == [op : {"call"}]
IndirectCalls == [op : {"call"}, reg : Registers]
Jumps == [op : {"jmp"}]
IndirectJumps == [op : {"jmp"}, reg : Registers]
Branches == [op : {"branch"}]

Transfers == Calls \cup IndirectCalls \cup Jumps \cup IndirectJumps \cup Branches
Insns == Loads \cup Writes \cup CondWrites \cup Transfers
ThroughRegister(insn) == "reg" \in DOMAIN insn

VARIABLES
    known,      \* currentRegs: the registers with a known value
    resolved,   \* the target recorded by the last step, if any
    regs,       \* the machine: its registers,
    went,       \* where an indirect transfer of the last step went, if it ran,
    away,       \* whether it is elsewhere than the pass,
    exact       \* whether the pass has followed every instruction (see Follows)

vars == <<known, resolved, regs, went, away, exact>>

-----------------------------------------------------------------------------
(* The pass. *)

\* The registers ApplyInstruction sets, and to what.  A mov from memory never
\* gets to the branch for it: the first branch takes every mov.
SetBy(insn) == IF insn.op = "load" THEN {insn.dst} ELSE {}

\* Mutant: what other instructions write stays known.
ForgetsNothing(insn) == {}

\* The registers its last loop erases: those that are written, unless this
\* instruction set them.  A conditional write is not a write to it.
ErasedBy(insn) == IF insn.op = "write" THEN insn.dsts ELSE {}

ApplyInstruction(file, insn) ==
    [r \in (DOMAIN file \ ErasedBy(insn)) \cup SetBy(insn) |->
        IF r \in SetBy(insn) THEN insn.value ELSE file[r]]

\* Mutant: any register with a known value will do.
TryResolveAny(file, insn) ==
    IF ThroughRegister(insn) THEN {file[r] : r \in DOMAIN file} \ {0} ELSE {}

\* TryResolveIndirectCall, TryResolveIndirectJump: at most one target.
TryResolve(file, insn) ==
    IF ThroughRegister(insn) /\ insn.reg \in DOMAIN file /\ file[insn.reg] # 0
    THEN {file[insn.reg]}
    ELSE {}

-----------------------------------------------------------------------------
(* The machine: what the registers may hold after an instruction.  A write   *)
(* to a name changes those that share bits with it.                          *)

Touched(names) == UNION {Overlapping[r] : r \in names}
Changed(names) == {f \in [Registers -> Values] :
                      \A r \in Registers \ names : f[r] = regs[r]}

Execute(insn) ==
    CASE insn.op = "load"      -> {f \in Changed(Touched({insn.dst})) : f[insn.dst] = insn.value}
      [] insn.op = "write"     -> Changed(Touched(insn.dsts))
      [] insn.op = "condwrite" -> Changed(Touched({insn.dst}))
      [] insn.op = "call"      -> Changed(Volatile)
      [] OTHER                 -> {regs}

\* The instructions the register file follows: those that leave no register
\* it knows with another value.
Follows(insn) ==
    CASE insn.op = "load"      -> Touched({insn.dst}) \cap DOMAIN known \subseteq {insn.dst}
      [] insn.op = "write"     -> Touched(insn.dsts) \cap DOMAIN known \subseteq insn.dsts
      [] insn.op = "condwrite" -> Touched({insn.dst}) \cap DOMAIN known = {}
      [] insn.op = "call"      -> Volatile \cap DOMAIN known = {}
      [] OTHER                 -> TRUE

-----------------------------------------------------------------------------
\* The machine enters a function with any registers.
Enter ==
    /\ regs' \in [Registers -> Values]
    /\ away' = FALSE /\ exact' = TRUE

Init ==
    /\ known = <<>> /\ resolved = {} /\ went = {}
    /\ regs \in [Registers -> Values]
    /\ away = FALSE /\ exact = TRUE

\* One round of the loop of AnalyzeBasicBlock: first the target, then the
\* registers.
Analyze(insn) ==
    /\ resolved' = TryResolve(known, insn)
    /\ known' = ApplyInstruction(known, insn)

Instruction(insn) ==
    /\ insn \in Loads \cup Writes \cup CondWrites
    /\ Analyze(insn)
    /\ IF away THEN UNCHANGED <<regs, exact>>
       ELSE regs' \in Execute(insn) /\ exact' = (exact /\ Follows(insn))
    /\ went' = {}
    /\ UNCHANGED away

\* A call that returns goes on behind itself.
Call(insn) ==
    /\ insn \in Calls \cup IndirectCalls
    /\ Analyze(insn)
    /\ IF away THEN UNCHANGED <<regs, exact>>
       ELSE regs' \in Execute(insn) /\ exact' = (exact /\ Follows(insn))
    /\ went' = IF ~ away /\ ThroughRegister(insn) THEN {regs[insn.reg]} ELSE {}
    /\ UNCHANGED away

\* A jump, or a branch that may be taken.
Jump(insn) ==
    /\ insn \in Jumps \cup IndirectJumps \cup Branches
    /\ Analyze(insn)
    /\ away' \in IF away \/ insn.op = "jmp" THEN {TRUE} ELSE BOOLEAN
    /\ went' = IF ~ away /\ ThroughRegister(insn) THEN {regs[insn.reg]} ELSE {}
    /\ UNCHANGED <<regs, exact>>

\* The next block of the vector.  The machine falls into it, or leaves, or
\* comes back there past code the pass has gone through.
NextBlock ==
    /\ resolved' = {} /\ went' = {}
    /\ away' \in BOOLEAN
    /\ exact' = (exact /\ (away => away'))
    /\ UNCHANGED <<known, regs>>

\* A block that was left open, or one from the first address on that has no
\* instruction in the module: the machine runs it, the pass does not.
Unwalked ==
    /\ resolved' = {} /\ went' = {}
    /\ IF away THEN UNCHANGED <<regs, exact>>
       ELSE regs' \in [Registers -> Values] /\ exact' = FALSE
    /\ UNCHANGED <<known, away>>

\* The next function of the module begins with an empty register file.
AnalyzeFunction ==
    /\ known' = <<>> /\ resolved' = {} /\ went' = {}
    /\ Enter

Next ==
    \/ \E insn \in Insns : Instruction(insn) \/ Call(insn) \/ Jump(insn)
    \/ NextBlock
    \/ Unwalked
    \/ AnalyzeFunction

Spec == Init /\ [][Next]_vars
-----------------------------------------------------------------------------
(* Properties. *)

\* The type invariant.
TypeOK ==
    /\ DOMAIN known \subseteq Registers /\ known \in [DOMAIN known -> Values]
    /\ resolved \subseteq Values /\ went \subseteq Values
    /\ regs \in [Registers -> Values]
    /\ away \in BOOLEAN /\ exact \in BOOLEAN

\* As long as the machine has run the blocks in the order of the vector and
\* the pass has met no instruction it does not follow, every known value is
\* what the register holds, in every execution, in every function.
KnownHold == exact /\ ~ away => \A r \in DOMAIN known : regs[r] = known[r]

\* Then the target the pass records for an indirect call or jump is where the
\* machine goes: the call site is right, not only possible.
ResolvedIsTaken ==
    [][exact /\ went' # {} /\ resolved' # {} => resolved' = went']_vars
=============================================================================
