------------------------ MODULE AbstractInterpretation ------------------------
(***************************************************************************)
(* AbstractInterpretationPass on one function, beside the machine that     *)
(* executes it.  The pass walks the vector of blocks once and carries one  *)
(* domain, a map from registers to intervals, from each instruction to the *)
(* next; at a conditional branch it may record a verdict.  The machine     *)
(* runs the same instructions on values, until a branch or jump takes it   *)
(* away; it may come back at the start of a later block of the vector.     *)
(*                                                                         *)
(* Integers have Width bits, signed; the interval operations wrap, as the  *)
(* build does, and a shift by a count outside 0..Width-1 is undefined: any *)
(* value.  A register is a name as the decoder gives it, of some width:    *)
(* RBX and BL are two keys of the domain, with intervals of full width,    *)
(* and the low bits of one register of the machine; a write to BL may      *)
(* clear the other bits or not.  Names of other bits than the low ones, AH *)
(* for one, are left out, and so are Join, Xor and the empty interval,     *)
(* which nothing uses.                                                     *)
(***************************************************************************)
EXTENDS Integers

CONSTANTS
    Width,          \* bits of an integer
    Registers,      \* the registers an instruction may name
    Bits,           \* the width of each,
    Full,           \* and the register whose low bits it names
    ZeroKept,       \* RAX, RCX, RDX, EAX, ECX, EDX: see Invalidate
    Volatile,       \* registers a called function may change
    Immediates,     \* the immediate operands that occur
    MaxInsns        \* bound: instructions of the function

ASSUME WidthAssumption == Width \in Nat \ {0}
ASSUME RegistersAssumption == ZeroKept \subseteq Registers /\ Volatile \subseteq Registers
ASSUME NamesAssumption ==
    /\ Bits \in [Registers -> 1 .. Width] /\ Full \in [Registers -> Registers]
    /\ \A r \in Registers : Bits[Full[r]] = Width /\ Full[Full[r]] = Full[r]

\* The powers of two, by recursion.
TwoTo[n \in 0 .. Width] == IF n = 0 THEN 1 ELSE 2 * TwoTo[n - 1]

MinInt == -TwoTo[Width - 1]
MaxInt == TwoTo[Width - 1] - 1
Value == MinInt .. MaxInt
Wrap(v) == ((v - MinInt) % TwoTo[Width]) + MinInt

ASSUME ImmediatesAssumption == Immediates \subseteq Value
ASSUME MaxInsnsAssumption == MaxInsns \in Nat

-----------------------------------------------------------------------------
(* Interval. *)

Interval == [lo : Value, hi : Value]
Range(l, h) == [lo |-> l, hi |-> h]
Constant(v) == Range(v, v)
Top == Range(MinInt, MaxInt)
IsConstant(i) == i.lo = i.hi
MaxOf(a, b) == IF a >= b THEN a ELSE b

Add(i, j) == Range(Wrap(i.lo + j.lo), Wrap(i.hi + j.hi))

Sub(i, j) == Range(Wrap(i.lo - j.hi), Wrap(i.hi - j.lo))

\* The operation on values, bit by bit.
Bit(v, k) == ((v % TwoTo[Width]) \div TwoTo[k]) % 2
BitAnd(a, b) ==
    LET low[n \in 0..Width] ==
            IF n = 0 THEN 0 ELSE low[n-1] + TwoTo[n-1] * Bit(a, n-1) * Bit(b, n-1)
    IN  Wrap(low[Width])

And(i, j) ==
    IF IsConstant(i) /\ IsConstant(j) THEN Constant(BitAnd(i.lo, j.lo))
    ELSE Range(0, MaxOf(i.hi, j.hi))

\* What v << n and v >> n may evaluate to.
InRange(n) == 0 <= n /\ n < Width
ShiftedLeft(v, n) == IF InRange(n) THEN {Wrap(v * TwoTo[n])} ELSE Value
ShiftedRight(v, n) == IF InRange(n) THEN {v \div TwoTo[n]} ELSE Value

Shl(i, j) ==
    IF IsConstant(i) /\ IsConstant(j) THEN {Constant(v) : v \in ShiftedLeft(i.lo, j.lo)}
    ELSE {Range(0, v) : v \in ShiftedLeft(i.hi, j.hi)}
Shr(i, j) ==
    IF IsConstant(i) /\ IsConstant(j) THEN {Constant(v) : v \in ShiftedRight(i.lo, j.lo)}
    ELSE {Range(0, i.hi)}

-----------------------------------------------------------------------------
(* Instructions.  "other" stands for any instruction outside ApplyInstruction *)
(* that writes its register, "condwrite" for one that writes it under a       *)
(* condition, as cmovcc, bsf and cmpxchg do, "call" for one that names none.  *)
(* An instruction that writes two registers is two of them.  Two registers of *)
(* one instruction have the same width.                                       *)

Operand == [type : {"reg"}, reg : Registers] \cup [type : {"imm"}, imm : Immediates]
             \cup [type : {"mem"}]
Conditions == {"JZ", "JNZ", "JS", "JNS", "JO"}
Insns == {insn \in [op : {"MOV", "XOR", "ADD", "SUB", "AND", "SHL", "SHR", "TEST", "CMP"},
                      dst : Registers, src : Operand] :
              insn.src.type = "reg" => Bits[insn.src.reg] = Bits[insn.dst]}
      \cup [op : {"other", "condwrite"}, dst : Registers]
      \cup [op : {"call", "JMP"} \cup Conditions]

Tracked == {"MOV", "XOR", "ADD", "SUB", "AND", "SHL", "SHR"}
\* The operands with ACTION_WRITE, or hidden ones, and those the machine may
\* change: an operand that is written under a condition has another action.
Written(insn) == IF insn.op \in Tracked \cup {"other"} THEN {insn.dst} ELSE {}
Changed(insn) == IF insn.op = "condwrite" THEN {insn.dst} ELSE Written(insn)
IsReg(insn, r) == insn.src.type = "reg" /\ insn.src.reg = r

VARIABLES
    domain,     \* currentDomain
    prev,       \* prevInsn if it compares, otherwise {}
    verdict,    \* the verdict recorded by the last step: {}, {TRUE} or {FALSE}
    count,      \* instructions so far
    regs,       \* the machine: its registers,
    away,       \* whether it is elsewhere than the pass,
    taken,      \* whether the branch of the last step was taken,
    exact       \* whether the pass has followed every instruction (see Follows)

machine == <<regs, away, taken>>
intervalVars == <<domain, prev, verdict, count, machine, exact>>

-----------------------------------------------------------------------------
(* The pass. *)

GetRegisterInterval(d, r) == IF r \in DOMAIN d THEN d[r] ELSE Top
SetRegisterInterval(d, r, i) ==
    [x \in DOMAIN d \cup {r} |-> IF x = r THEN i ELSE d[x]]

\* The interval of a source operand of add, sub and and; shl and shr do not
\* look a register up.
Source(d, src) ==
    CASE src.type = "imm" -> Constant(src.imm)
      [] src.type = "reg" -> GetRegisterInterval(d, src.reg)
      [] OTHER            -> Top
Count(src) == IF src.type = "imm" THEN Constant(src.imm) ELSE Top

\* The intervals the first part of ApplyInstruction may set for dst.
Computed(d, insn) ==
    LET dst == GetRegisterInterval(d, insn.dst)
    IN  CASE insn.op = "MOV" /\ insn.src.type = "imm" -> {Constant(insn.src.imm)}
          [] insn.op = "XOR" /\ IsReg(insn, insn.dst) -> {Constant(0)}
          [] insn.op = "ADD" -> {Add(dst, Source(d, insn.src))}
          [] insn.op = "SUB" -> {Sub(dst, Source(d, insn.src))}
          [] insn.op = "AND" -> {And(dst, Source(d, insn.src))}
          [] insn.op = "SHL" -> Shl(dst, Count(insn.src))
          [] insn.op = "SHR" -> Shr(dst, Count(insn.src))
          [] OTHER -> {}

\* Mutant: what other instructions write stays.
KeepAll(d, insn) == d

\* Its second part: what other instructions write is erased, except a zero in
\* one of three registers, by either of two names.
Invalidate(d, insn) ==
    LET erased == {r \in Written(insn) \cap DOMAIN d :
                      /\ ~ (r \in ZeroKept /\ d[r] = Constant(0))
                      /\ insn.op \notin Tracked}
    IN  [x \in DOMAIN d \ erased |-> d[x]]

ApplyInstruction(d, insn) ==
    IF insn.op \in Tracked /\ Computed(d, insn) # {}
    THEN {Invalidate(SetRegisterInterval(d, insn.dst, i), insn) : i \in Computed(d, insn)}
    ELSE {Invalidate(d, insn)}

\* What EvaluateBranch looks for before a branch: test reg, reg or cmp reg, imm.
Compares(insn) ==
    \/ insn.op = "TEST" /\ IsReg(insn, insn.dst)
    \/ insn.op = "CMP" /\ insn.src.type = "imm"

Decided == {"JZ", "JNZ", "JS", "JNS"}

\* Whether a condition holds for a compared value.
Holds(cond, v) ==
    CASE cond = "JZ"  -> v = 0
      [] cond = "JNZ" -> v # 0
      [] cond = "JS"  -> v < 0
      [] cond = "JNS" -> v >= 0

\* Mutant: the lower bound stands for the interval.
EvaluateLow(cond, before, d) ==
    IF cond \in Decided /\ \A p \in before : p.dst \in DOMAIN d
    THEN {Holds(cond, d[p.dst].lo) : p \in before}
    ELSE {}

\* The verdict, if there is one: a set of at most one Boolean.
EvaluateBranch(cond, before, d) ==
    IF cond \in Decided /\ \A p \in before : IsConstant(GetRegisterInterval(d, p.dst))
    THEN {Holds(cond, GetRegisterInterval(d, p.dst).lo) : p \in before}
    ELSE {}

-----------------------------------------------------------------------------
(* The machine. *)

ValueOf(r) == -TwoTo[Bits[r] - 1] .. TwoTo[Bits[r] - 1] - 1
Truncated(r, v) == ((v + TwoTo[Bits[r] - 1]) % TwoTo[Bits[r]]) - TwoTo[Bits[r] - 1]
Read(r) == Truncated(r, regs[Full[r]])

OperandValues(src) ==
    CASE src.type = "imm" -> {src.imm}
      [] src.type = "reg" -> {Read(src.reg)}
      [] OTHER            -> Value

\* The values an instruction may leave in its register.  A count beyond the
\* width of the register may be masked or not.
Executed(insn) ==
    LET r == insn.dst
        a == Read(r)
        Bs == OperandValues(insn.src)
        Counted(v) == {v[b] : b \in Bs \cap 0 .. Bits[r] - 1}
                          \cup (IF Bs \subseteq 0 .. Bits[r] - 1 THEN {} ELSE ValueOf(r))
    IN  CASE insn.op = "MOV" -> {Truncated(r, b) : b \in Bs}
          [] insn.op = "ADD" -> {Truncated(r, a + b) : b \in Bs}
          [] insn.op = "SUB" -> {Truncated(r, a - b) : b \in Bs}
          [] insn.op = "AND" -> {Truncated(r, BitAnd(a, b)) : b \in Bs}
          [] insn.op = "XOR" -> IF IsReg(insn, r) THEN {0} ELSE ValueOf(r)
          [] insn.op = "SHL" -> Counted([b \in 0 .. Bits[r] - 1 |-> Truncated(r, a * TwoTo[b])])
          [] insn.op = "SHR" ->
                Counted([b \in 0 .. Bits[r] - 1 |-> Truncated(r, (a % TwoTo[Bits[r]]) \div TwoTo[b])])

\* The registers after an instruction.
WriteRegister(r, values) ==
    {[regs EXCEPT ![Full[r]] = v] : v \in {w \in Value : Truncated(r, w) \in values}}

Execute(insn) ==
    CASE insn.op \in Tracked -> WriteRegister(insn.dst, Executed(insn))
      [] insn.op \in {"other", "condwrite"} -> WriteRegister(insn.dst, ValueOf(insn.dst))
      [] insn.op = "call"    -> {[r \in DOMAIN regs |-> IF r \in Volatile THEN f[r] ELSE regs[r]] :
                                    f \in [Volatile -> Value]}
      [] OTHER               -> {regs}

\* Whether a branch may be taken: by the flags of the instruction before it.
\* Flags set by any other instruction, and the overflow flag, are free.
MayBranch(cond) ==
    IF cond \in Decided /\ prev # {}
    THEN {Holds(cond, Truncated(p.dst, Read(p.dst) - (IF p.op = "CMP" THEN p.src.imm ELSE 0))) : p \in prev}
    ELSE BOOLEAN

-----------------------------------------------------------------------------
(* The instructions that the domain follows: those after which every        *)
(* constant in it still is the value of its register.                       *)
ConstantIn(r) == r \in DOMAIN domain /\ IsConstant(domain[r])
SourceIsConstant(src) == src.type = "imm" \/ (src.type = "reg" /\ ConstantIn(src.reg))

FollowsNames(insn) ==
    /\ \A w \in Changed(insn) : \A r \in Registers \ {w} : Full[r] = Full[w] => ~ ConstantIn(r)
    /\ insn.op \in Tracked =>
          \A i \in Computed(domain, insn) : IsConstant(i) => i.lo \in ValueOf(insn.dst)

FollowsValue(insn) ==
    CASE insn.op = "MOV" -> insn.src.type = "imm" \/ ~ ConstantIn(insn.dst)
      [] insn.op = "XOR" -> IsReg(insn, insn.dst) \/ ~ ConstantIn(insn.dst)
      [] insn.op \in {"ADD", "SUB"} -> ConstantIn(insn.dst) \/ SourceIsConstant(insn.src)
      [] insn.op = "AND" -> ConstantIn(insn.dst) /\ SourceIsConstant(insn.src)
      [] insn.op \in {"SHL", "SHR"} ->
            /\ ConstantIn(insn.dst)
            /\ insn.src.type = "imm" /\ insn.src.imm \in 0 .. Bits[insn.dst] - 1
            /\ insn.op = "SHR" => domain[insn.dst].lo >= 0
      [] insn.op = "other" -> ~ (insn.dst \in ZeroKept /\ ConstantIn(insn.dst)
                                    /\ domain[insn.dst].lo = 0)
      [] insn.op = "condwrite" -> ~ ConstantIn(insn.dst)
      [] insn.op = "call" -> \A r \in Registers : Full[r] \in Volatile => ~ ConstantIn(r)
      [] OTHER -> TRUE

Follows(insn) == FollowsValue(insn) /\ FollowsNames(insn)

-----------------------------------------------------------------------------
IntervalInit ==
    /\ domain = <<>> /\ prev = {} /\ verdict = {} /\ count = 0
    /\ regs \in [{Full[r] : r \in Registers} -> Value]
    /\ away = FALSE /\ taken = FALSE /\ exact = TRUE

\* One round of the loop of AnalyzeBasicBlock.
Analyze(insn) ==
    /\ count < MaxInsns /\ count' = count + 1
    /\ verdict' = IF insn.op \in Conditions THEN EvaluateBranch(insn.op, prev, domain) ELSE {}
    /\ domain' \in ApplyInstruction(domain, insn)
    /\ prev' = {p \in {insn} : Compares(p)}

Instruction(insn) ==
    /\ insn.op \notin Conditions \cup {"JMP"}
    /\ Analyze(insn)
    /\ IF away THEN UNCHANGED <<regs, exact>>
       ELSE regs' \in Execute(insn) /\ exact' = (exact /\ Follows(insn))
    /\ taken' = FALSE
    /\ UNCHANGED away

\* The end of a block: a branch that is taken, and a jump, leave the pass.
Branch(insn) ==
    /\ insn.op \in Conditions
    /\ Analyze(insn)
    /\ IF away THEN taken' = FALSE ELSE taken' \in MayBranch(insn.op)
    /\ away' = (away \/ taken')
    /\ UNCHANGED <<regs, exact>>

Jump(insn) ==
    /\ insn.op = "JMP"
    /\ Analyze(insn)
    /\ away' = TRUE /\ taken' = FALSE
    /\ UNCHANGED <<regs, exact>>

\* The next block of the vector.  The machine falls into it, or into another
\* one, or stays away, or it is there that it comes back, past code the pass
\* has gone through.
NextBlock ==
    /\ prev' = {} /\ verdict' = {} /\ taken' = FALSE
    /\ away' \in BOOLEAN
    /\ exact' = (exact /\ (away => away'))
    /\ UNCHANGED <<domain, count, regs>>

IntervalNext ==
    \/ \E insn \in Insns : Instruction(insn) \/ Branch(insn) \/ Jump(insn)
    \/ NextBlock

IntervalSpec == IntervalInit /\ [][IntervalNext]_intervalVars
-----------------------------------------------------------------------------
(* Properties. *)

\* The type invariant.
IntervalTypeOK ==
    /\ DOMAIN domain \subseteq Registers
    /\ \A r \in DOMAIN domain : domain[r] \in Interval
    /\ prev = {} \/ \E p \in Insns : Compares(p) /\ prev = {p}
    /\ verdict \in {{}, {TRUE}, {FALSE}}
    /\ count \in 0..MaxInsns
    /\ regs \in [{Full[r] : r \in Registers} -> Value]
    /\ away \in BOOLEAN /\ taken \in BOOLEAN /\ exact \in BOOLEAN

\* The domain is sound where it follows: as long as the pass has met no
\* instruction it does not follow, and the machine has run the blocks in the
\* order of the vector, each constant of the domain is the value of its
\* register in every execution, whatever wraps on the way.  (With the type
\* invariant: bounds have the width of an integer.)
ConstantsHold ==
    /\ IntervalTypeOK
    /\ exact /\ ~ away =>
          \A r \in DOMAIN domain : IsConstant(domain[r]) => Read(r) = domain[r].lo

\* Then a verdict on a comparison with zero is what the branch does.
ComparesWithZero(p) == p.op = "TEST" \/ (p.op = "CMP" /\ p.src.imm = 0)
VerdictsHold ==
    [][exact /\ ~ away /\ verdict' # {} /\ (\A p \in prev : ComparesWithZero(p))
          => verdict' = {taken'}]_intervalVars
=============================================================================
