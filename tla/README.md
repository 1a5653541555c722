# ReWizard in TLA+

ReWizard takes a binary apart: it recovers functions and basic blocks by
recursive descent, builds control-flow graphs, abstractly interprets the code
to find branches with only one outcome, takes those branches out, compares the
result with an execution trace, and stores what it found, together with an
analyst's annotations, in SQLite. This directory holds TLA+ models of its core,
TLC configurations that check them on small instances, and theorems about them
that TLAPS proves for every instance. Paths below are relative to `src/`;
`L/` stands for `ReWizardLib/source/`, `H/` for `ReWizardLib/include/ReWizard/`.

To check a run: `tlc -config <cfg> <module>` (the table below has the pairs).
To check the proofs: `tlapm <module>Proofs.tla`.

## 1. Inventory

| Component | State | Operations | Hard behaviour | What makes it correct |
|---|---|---|---|---|
| Static control-flow recovery: `L/Analysis/Passes/StaticControlFlowRebuilder.cpp`, `L/Analysis/Units/Module.cpp`, `H/Analysis/Units/Function.h` | visited addresses, functions of the module, cross references; two nested work lists, the open block | `Run`, `ReAnalyzeFrom`, `AnalyzeFunction` and its handlers of calls, branches and trampolines, `LinearSweepFallback` | the order in which the work lists are served decides who decodes shared code; instructions overlap; two loops push to the queue they drain; the hybrid pass re-enters a finished analysis | no code and no target lost; blocks are basic blocks; call sites and references agree; it returns |
| Basic blocks: `L/Analysis/Units/Function.cpp`, `BasicBlock.cpp` | block vector of a function | lookup, `Split`, `NormalizeBasicBlocks`, `GetDisassembly` | a split changes the vector the scan iterates over; the listing looks up with the lookup that splits | a split keeps the code; no branch target inside a block |
| Control-flow graph, opaque predicates: `Function::BuildCFG`, `L/Analysis/Passes/OpaquePredicatePass.cpp` | graph, queue of blocks, successors | `BuildCFG`, the pass over the verdicts | edges go while the graph still has them; the pass meets its own result; both outcomes of a branch may be one address | the graph is that of the blocks; only dead edges go |
| Pass registry and manager: `L/Analysis/PassManager.cpp`, `PassProvider.cpp` | static registry; in-degrees and queue of the sort; order that runs | `AddPass`, `RunAll` (sort, then PreRun/Run/PostRun) | cycles, self-dependencies and names without a pass are not errors; a pass may fail in any call; the order of an `unordered_map` | dependencies first, each pass once, nothing left out but cycles |
| Analysis database: `L/Database/AnalysisDatabase.cpp` | tables, open transaction, connection | saves in their own transactions, single statements, the caller's transactions, `Open`, `Close`, queries | any statement may be refused, with or without the transaction; one save calls another; crash between statements | saves are all or nothing; no transaction left open; acknowledged annotations stay |
| Symbols and cross references: `L/Analysis/Units/SymbolManager.cpp`, `XrefManager.cpp` | annotations; a set and two multimaps of references | edits, queries, `SaveTo`, `LoadFrom` | three containers for one record; saves that go on after a refused row; loads that clear first | indexes agree; what was saved can be restored |
| Abstract interpretation: `L/Analysis/Passes/AbstractInterpretationPass.cpp` | interval per register, verdict per branch | transfer per instruction, `EvaluateBranch` | the domain goes from block to block in vector order; machine arithmetic without a check | a verdict holds of every execution |
| Hybrid analysis, traces: `L/Analysis/Passes/HybridAnalysisPass.cpp`, `L/Hybrid/SimpleTraceReader.cpp` | trace, cached reader | resolve indirect targets, disprove predicates, re-analyse | comes after the edges are gone; re-enters a finished analysis; reader kept across contexts | observed targets become call sites and code; nothing known is lost; it returns |
| Data flow: `L/Analysis/Passes/DataFlowAnalysisPass.cpp` | register file of known values | one walk over the blocks of each function | the file goes from block to block in vector order; a call erases nothing; registers that share bits are different keys | a known value holds; a resolved target is where the machine goes |
| Imports, symbol table: `ImportAnalysisPass.cpp`, `SymbolTable.cpp` | maps | copy from the parsed file | none | - |
| IR: `IRLiftingPass.cpp`, `ConstantFoldingPass.cpp`, `L/IR/*` | LLVM module, IR of each block | lift, optimise | the lifter that owns the IR of all contexts is replaced by each run; the optimiser deletes functions that blocks refer to | no freed IR is followed; only a context's own code is optimised |
| Emulator: `L/Hybrid/BochsExecutor.cpp` | process-wide core, executors | `Initialize`, `LoadBinary`, `Execute`, `Shutdown` | one core behind several executors; an initialisation that fails half way | an executor that says it is ready is |
| Loader, memory mapper: `L/FileLoader/*`, `L/Memory/*` | mapping, image | `Create`, `Load` (map, copy, relocate), `IsWithinMapping`, the destructor | the preferred base may be taken, and MAP_FIXED takes it all the same; a load fails half way; relocations of several widths under one bound | a mapping is of one loader and not leaked; the image is relocated once, for its place |
| Disassembler registry: `L/Disassembler/Disassembler.cpp` | maps of decoders | lookup, decode | maps read outside the mutex | - |
| Context, manager | own the loader, the module, the passes' results | `Create`, `Run`, destruction | destroyed while static passes keep what they made for it | see loader and IR |
| Results: `L/Analysis/AnalysisResult.cpp` | a document | export of functions, blocks, listing | the listing is taken after the blocks, and may split them | all of one graph |
| CLI, UI | print the above | - | the CLI reports success whatever `RunAll` returned (`ReWizardCLI/main.cpp:77`) | - |

How they interact. `AnalysisManager` owns one `AnalysisPassManager`, which
takes the passes from the static `PassProvider` and calls them one after another
on one `AnalysisContext`; everything runs on the caller's thread. The passes
communicate through the context only: the rebuilder fills the module that all
others read, abstract interpretation leaves verdicts in the functions, the
opaque predicate pass takes edges out of their blocks and has the graph built
again, the hybrid pass calls back into the rebuilder (`ReAnalyzeFrom`). The
cross-reference manager is written by the rebuilder, and it and the symbol
manager are stored and restored through the database. So the concurrency of
this program is that of its environment (SQLite's refusals, crashes, the order
of unordered containers, re-entry), and its difficulty is in work lists whose
entries go stale while they wait.

## 2. Modules

| Module | Models | Correspondence |
|---|---|---|
| `BasicBlocks` | block vector: lookup, `Split`, `NormalizeBasicBlocks` | `BlockAt`/`BlockCovering` are `GetBasicBlockForAddress` with and without `allowSplit`: the first block of the vector answers. `SplitsInOrder` is the scan; its head is the split the code does before it jumps back to the label `reset`. |
| `ControlFlow` | the rebuilder | `functionWork`, `work`, `visited`, `functions`, `xrefs`, `bb` have the code's names; `at` is the place in the code, `loop` the outer loop that runs (`StaticPathExplorer`, or the end of `LinearSweepFallback`). One action per way through the loop body: nine for the kinds of instruction, others for the ends of a path, the normalisation (one split per step), the sweep (one address per step) and `ReAnalyzeFrom`. |
| `HybridAnalysis` | the chain rebuilder, verdicts, `OpaquePredicatePass`, `HybridAnalysisPass` | extends `ControlFlow`: `stage` is the pass that runs, a step of the rebuilder is a step of the chain. One function of the hybrid pass, one resolved target of its last loop per step. `Interpret` stands for any verdicts `AbstractInterpretationPass` may leave. |
| `AbstractInterpretation` | `Interval`, `AbstractInterpretationPass` on one function | `domain`, `prev`, `verdict` are `currentDomain`, `prevInsn`, the result of `EvaluateBranch`; one instruction per step, in any split into blocks. Beside them runs the machine (`regs`), which a taken branch takes away from the pass and which may come back at any later block. |
| `DataFlow` | `DataFlowAnalysisPass` beside the machine | `known` is `currentRegs`, `resolved` the call site of the last step; one instruction, one change of block or function per step. `regs` is the machine, which a branch takes away from the pass and which may come back at any later block. |
| `CfgBuild` | `Function::BuildCFG`, `OpaquePredicatePass`, then the export and `Function::GetDisassembly` | one successor, one verdict, one block of the listing per step; `exported` is what the result has taken before the listing begins. |
| `FileLoader` | `FileLoader`, `MemoryMapper` for POSIX and Windows | the address space is `owner` and `memory`; `ptr` and `file` are `m_mappedPtr` and `m_target`. One call per step; between them the rest of the process takes, writes and returns memory, by what it believes to have (`held`). `contested` and `spoiled` record where somebody else had memory that was mapped, and where an image was written past its end. |
| `IRLifetime` | `IRLiftingPass`, `ConstantFoldingPass` over contexts and runs | `lifter` numbers the lifters, of which one lives at a time; `ir` says which one a block's `irBlock_` came from; `lifted` and `unfinished` are the functions in the module of the living one. One pass per step, in any order `Dependencies()` allow. |
| `PassPipeline` | `PassProvider`, `AnalysisPassManager` | one round of Kahn's algorithm, one call of a pass per step. |
| `DependencyOrder` | abstract: what a run of passes promises | no queue, no degrees: start whatever is ready, stop when nothing is. `PassPipeline` implements it (`Order == INSTANCE ...`). |
| `AnalysisDatabase` | every call that writes or ends a transaction, over SQLite | one statement per step (the rows of one save are one step, or a part of them and a refusal). `saved`/`inTx` are SQLite's transaction, `Committed` what is on disk. |
| `BochsExecutor` | executors over the one Bochs machine of the process | one operation per step. `core`, `ready`, `image` are `g_bochsCoreInitialized`, `initialized`, `diskImagePath`; `guest` is the machine; `failed` and `touched` record that an initialisation has failed, and that the machine was used before it was built. |
| `Session` | `SymbolManager`, `XrefManager`, `SaveTo`, `LoadFrom` | one statement of a save per step; memory and the two tables. |
| `MC...` | instances for TLC | sets of programs, graphs, functions. |
| `...Proofs` | theorems | each extends the module it is about; those of `ControlFlow` are in `HybridAnalysisProofs`, which extends both, and those of `BochsExecutor` and `IRLifetime`, what the contexts of a process share, in `SharedStateProofs`, and those of `FileLoader` and `AbstractInterpretation`, which compute with numbers that wrap, in `MachineWordProofs`. |

Composition. `ControlFlow` and `CfgBuild` (the splits of the listing) are built from `BasicBlocks`;
`HybridAnalysis` composes the rebuilder with the passes that rewrite and extend
its result, in the order that `PassPipeline` enforces; `PassPipeline` is checked
against `DependencyOrder`. `CfgBuild` looks at the graph that
`OpaquePredicatePass` rebuilds, `HybridAnalysis` at the edges and what comes
after.

Abstractions. An instruction is its kind, length and target: what decodes at an
address is part of the constant `Images`, so that all programs over a few kinds
can be tried. A block has no name, last instruction, IR or listing. What a pass
does is left out of the pipeline except that each call may fail. A function,
symbol or reference in the database is its address and one more field, and the
fields of an annotation are two of four. `CreateSchema` is the initial state.
Of the emulator the model has an instruction pointer, one place in memory and
the disk; what runs on it may change the first two at will. Of SQLite the model has what the code depends on: BEGIN fails inside a
transaction, COMMIT and ROLLBACK outside one, any statement may be refused
without an effect and may take the whole transaction with it, a refused COMMIT
may leave it open, and a closed connection or a crash rolls it back.

In `AbstractInterpretation` an instruction outside those the pass knows is
"other", which writes one register with any value, or "condwrite", which writes it
under a condition (`cmovcc`, `bsf`, the destination of `cmpxchg`): the decoder gives
its operand another action than WRITE, so that the pass keeps the interval
(`AbstractInterpretationPass.cpp:185`), while the machine may change the register; flags that the pass does not
look at are free; a shift by a count outside the width is undefined in the code
and gives any value. A register may have a second name for its low bits, as BL
is one of RBX: the domain has them as two keys, the machine as one register, and
a write to the narrow name may clear the rest (EBX) or not (BL). Names of other
bits, like AH, are left out.
In `HybridAnalysis` a trace record is the address and what
`ResolveIndirectTarget` makes of the registers and memory accesses recorded
there.

In `DataFlow` an instruction is what it does to registers: it loads one with a
value, writes some, writes one conditionally (the code erases registers that are
written, which a `cmov` does not count as), or transfers control. `Overlapping`
says which names share bits. The branch for a `mov` from memory
(`DataFlowAnalysisPass.cpp:125`) cannot be reached, because the one before it takes
every `mov`, and is left out. What the code finds under an address that has no
instruction, it skips: `Unwalked`, also for open blocks.

In `FileLoader` a unit of memory stands for 16 bits, the smallest word that a
relocation changes, and holds a number below `Base`; words of 16, 32 and 64 bits
have one, two and four of them, and four hold any address. Arithmetic wraps as
the widths do. Nothing is assumed of a file beyond its types: sections and words
may overlap, a header may be longer than the image (`FileLoader.cpp:108` copies it
without looking) and a word of 64 bits may reach past its end (`:188`). What is
written there changes the memory of whoever has it; where nobody does, it is in
the rest of the last page, which no other mapping shares, or the program ends.
What a system does with memory that it has replaced for the rest of the
process, the model has too: the pointer stays (`held`), and is written through
and unmapped later, whoever is there then. `IRLifetime` has no IR: a block's code can be lifted or not, and a
split may make it one that cannot.

The definitions marked `Mutant:` are not part of the models. Each is a plausible
mistake in the definition after it (a dropped check, a missing reset) that makes
one property fail; they show that the properties can tell.

## 3. Runs that pass

| Run (module, cfg) | Instance | Distinct states | What it shows |
|---|---|---|---|
| `MCControlFlow`, `MCControlFlowRecovery` | all programs of 4 addresses over plain, ret, undecodable and branches to any address, also outside; and all over calls, jumps, branches, indirect calls, with an export at 3, or through memory; and all over instructions of length 2 and branches, so that some overlap and others straddle a branch target; one `ReAnalyzeFrom` any address the hybrid pass may give it | 1111k | `FlowInductive`: what is not decoded yet waits or is next. `TargetsAccounted`, `XrefsMatchCallSites`, `SplitKeepsCode`, `TypeOK`. `BlocksAreBasic`: unless decoded instructions overlap, blocks are decoded code, with branches at the end and branch targets at the start only, and no two share an address. `CoveredOrOpen`: code that no block covers follows the start of an open one. |
| `MCHybridAnalysis`, `MCHybridAnalysis` | programs of indirect calls and jumps, branches and returns whose code only a trace leads to; programs with prologues for the sweep, calls and instructions of length 2, so that branches go into instructions and code runs off the mapping, in one section or two; any verdicts; traces of one or two records | 447k | `ObservedIsAnalyzed`: unless decoded instructions overlap, what the trace shows of a verified function is a call site and its code is analysed. `AnalysisGrows`: no step takes back decoded code, a reference, a function or its place, or a resolved call site, and none but those of `OpaquePredicatePass` changes its blocks. `CallsAreReferenced`, `FlowClosed`, `HybridTypeOK` over the whole chain, and `ChainReturns`: all its loops run dry. |
| `MCPassPipeline`, `MCPassPipelineGraphs` | every choice of dependencies (also on itself) of three passes, and of dependencies on the name `x`, which has no pass until `AddPass`; two runs on the shared registry | 280k | `PipelineInductive`, `LeavesOutOnlyCycles` (exactly the passes that lead into a cycle are left out, although `RunAll` says nothing), `ImplementsDependencyOrder`, `Returns`. |
| `MCCfgBuild`, `MCCfgBuild` | all functions of three blocks, with the entry first and the others in any order, that end by return, jump or branch to anywhere; open blocks and branches into a block among them; any verdicts; two runs of the pass; the export | 300k | `CfgInductive`, `GraphIsReachable`, `OnlyDeadEdgesGo` (a second run does not take the live edge), `ExportIsOfOneGraph` (the listing splits no block that was exported, and shows what the graph reaches), `Termination`. |
| `MCAnalysisDatabase`, `MCAnalysisDatabase` | two addresses, two texts, an analysis and its repetition with more results, four calls, a refusal or crash at any statement | 312k | `TransactionsClosed`, `SavesAreAtomic`, `AcknowledgedNotesDurable`. |
| `Session`, `Session` | two addresses, two texts, one type of reference, four edits, any number of saves | 667k | `IndexesAgree`, `SavedIsRestorable`. |
| `MCAbstractInterpretation`, `MCAbstractInterpretation` | every sequence of three instructions on RBX, its low half BL, and RAX, which the pass keeps at zero and calls may change; integers of two bits, so that BL has one; immediates -2, 0, 1; unconditional and conditional writes of any value | 366k | `ConstantsHold`: the constants of the domain are the values of the registers, also where bounds wrap, as long as the pass follows. `VerdictsHold`: then so are verdicts on a comparison with zero. |
| `BochsExecutor`, `BochsExecutor` | three executors, two disks, the reset vector and one other address; every operation in every order, another component that builds the machine or uses it, initialisations that fail between the interface and the machine | 5.5k | `BuiltOnce`, `GuestSurvivesInitialize`: the machine is built once and not reset under a ready executor. `TouchedOnlyAfterFailure`: nothing reaches it before, unless an initialisation has failed. `CoreInductive`: what the flags say of each other. |
| `MCDataFlow`, `MCDataFlow` | every sequence of instructions, blocks and functions of any length, on RAX, EAX, which calls change, and RBX; values 0 to 2 | 24k | `KnownHold`: as long as the pass follows and the machine runs the vector, known values are in the registers. `ResolvedIsTaken`: then a resolved target is where the machine goes. |
| `MCFileLoader`, `MCFileLoader` | two loaders, alike up to symmetry, and six images (one base for two of them, bases that overlap, base zero; words of all widths, words and sections that overlap, a word of four units across the end, headers longer than the image, a section that does not fit, size zero) in a space of 11 units of one bit; both platforms; one address that the rest of the process takes up to twice, writes and returns | 518k | `MappingsAreOwned`: a loader keeps each address that nobody else had when it was mapped. `NothingLeaks`: what belongs to a loader is in the mapping its destructor unmaps, also after a load that fails half way. `ImageIsRelocated`: there, unless another image was written past its end, the image is the file's, with each word moved once. |
| `IRLifetime`, `IRLifetime` | two contexts of two blocks that come and go, three runs of the lifting pass over all of them, passes that fail anywhere | 1364k | `FollowedIRIsLive`: IR of earlier runs dangles all over, but the optimiser does not follow it, except in the case of section 4. `OptimisedIsOwn`: it optimises its context's code only. |

The type invariants of `AnalysisDatabase`, `Session`, `AbstractInterpretation`,
`FileLoader` and `IRLifetime` are conjuncts of `SavesAreAtomic`, `IndexesAgree`,
`ConstantsHold`, `NothingLeaks` and `FollowedIRIsLive`; those of `PassPipeline` and
`DataFlow` are theorems, and `CfgInductive` and `CoreInductive` hold theirs.

`ConstantsHold` says where the pass is right, and `Follows` is the list of
instructions it needs. The pass does not follow, when the register it writes has
a constant: a `mov` from a register or from memory, an `xor` of two registers, a
call, a write that it takes for a zero it keeps, a conditional write, which it does
not take for one (`cmovcc`, `bsf`, the destination of `cmpxchg`). It does not follow an `and`,
`shl` or `shr` unless all operands are constant (`And` and `Shr` bound the result
by 0 from below, `Shl` by 0 and the shifted upper bound), nor the shift right of
a negative constant, which the processor shifts logically. Of a sum or difference
one side must be constant: then the bounds may wrap, but two different bounds
moved by one value never meet; the bounds of two intervals may. And of the names of a
register: it does not follow a write while another name of the register has a
constant, nor one whose result is a constant outside of what the name can hold
(the domain computes in full width).

In `KnownHold` it is the same: the list (`Follows` in `DataFlow`) leaves out a call
while a register that it may change is known, a conditional write of a known
register, and a write while another name of the register is known; and the code
of blocks the pass skips. `FollowsIR` leaves out one case in which the optimiser
does follow dangling IR: see section 4.

`BlocksAreBasic` and `ObservedIsAnalyzed` leave out images of which the rebuilder has
decoded overlapping instructions. There a split may tear one apart, and the
listing of the second piece decodes what nobody has visited; a re-analysis that
visits it later changes the listing of a function that was verified before.
`CoveredOrOpen` leaves out nothing.

`MappingsAreOwned` and `ImageIsRelocated` leave out single addresses: those of
`contested`, which another loader or the rest of the process had when they were
mapped, and `ImageIsRelocated` those of `spoiled`, into which an image was written
past its end. On Windows `contested` is empty, which `MappingsAreOwned` says too.
Of the rest they except nothing, whatever happens to the other mapping or to its
other addresses; but `ImageIsRelocated` says of a word that several relocations
touch only that the places beside it are right. `NothingLeaks` leaves out nothing.
`TouchedOnlyAfterFailure` says nothing of what follows an initialisation that has
failed half way, which section 4 describes; and the other component of
`BochsExecutor` makes an interface only where there is none, as the executor does,
and `tests/test_bochs_hybrid_e2e.cpp:88`; `tests/test_bochs_init.cpp:32` does not ask,
but CTest runs it in a process of its own (`gtest_discover_tests`).

Why the bounds are enough. `MappedSize = 4` gives a function of two blocks after
a branch, a third path that joins them, a target in the middle of each and a
target outside; overlap needs an instruction of two addresses and a branch between them; the sweep
needs a section, a gap and a section. A re-analysis needs one address that
static analysis does not reach and one that the first re-analysis decodes before
the second, so two records. Three passes give every cycle up to length 3, a
self-dependency and what hangs behind a cycle. Three blocks give a diamond
closed by a loop and every order in which a block is queued twice before it is
visited. Two addresses let a save overwrite one row and add another; four calls
let a failed save be followed by an annotation, a close and a reopening. Two
bits have a least integer without a negation, sums that wrap both ways and shift
counts on both sides of the width; three instructions are two writes that meet in
a third, or a write, a comparison and a branch. Three executors let one be initialised while a second
is ready and a third is not. Three lifters let a context meet IR of its own
earlier run and of another's. Two loaders collide, and 11 units hold two images
side by side, or one on the other, with one written into the other past its end; with one bit to a unit a carry crosses every
unit of a word. The memory of the process is inside three of the images at their bases and taken
twice, so that it returns what an image has replaced, takes it again and returns
it once more. `DataFlow` has no bound at all. The bounds are `MaxReanalyses`, `MaxRuns`, `MaxPasses`,
`MaxCalls`, `MaxEdits`, `MaxInsns`, `MaxLifters`, `MaxHeld`; none cuts a loop of the code short, each
limits how often the environment calls or how long its program is.
`MaxReanalyses` is 2 in the hybrid run, where no trace has more than two
targets.

Deadlock. `ControlFlow`, `HybridAnalysis` and `CfgBuild` stop when the analysis
has returned and the environment may call no more, so their runs do not check
for deadlock; in the others there is always a step.

Fairness. `PassPipeline` assumes weak fairness of `Step`, all that one call does
before it returns; `HybridAnalysis` of the chain of passes, from the first to
the return of the last; `CfgBuild` of its loops and those of the listing. The code justifies it: an
analysis is one thread that runs until it returns, and waits for nobody. No
fairness is assumed of the environment: no run, pass or build has to be asked
for. The other modules state no liveness.

## 4. A run that ends in a counterexample

It checks one sentence of a document that the code does not live up to; the
counterexample is the finding.

| Run | Sentence | What happens |
|---|---|---|
| `MCAnalysisDatabase_SaveModuleCompletes` | `docs/WORK_PLAN.md:322` "Implemented: [...] SaveModule" | `SaveSymbolTable` begins a transaction inside that of `SaveModule`, which therefore fails and keeps only the functions. |

The models show more of the kind, with no run of their own:

- `docs/WORK_PLAN.md:130` says the hybrid pass "Removes opaque predicate markers
  from functions proven non-opaque by trace." It skips functions that are not
  marked (`HybridAnalysisPass.cpp:51`), and only indirect calls and jumps mark
  one: the marker of a branch that goes both ways in the trace stays.
  `docs/WORK_PLAN.md:128` says it "Resolves indirect call/jump targets observed at
  runtime.": `GetIndirectInstructions` does not see those in a block that was left
  open, and functions of the sweep are never marked. `H/Analysis/Units/Function.h:159`
  says of a verdict "true = branch always taken, false = branch always not taken":
  `EvaluateBranch` accepts a comparison with any immediate and compares with 0
  (`AbstractInterpretationPass.cpp:247`). And of `mov rbx, 1; cmovz rbx, rcx; test
  rbx, rbx; jz` it says "never taken", because a conditional write leaves the
  constant in the domain (`AbstractInterpretationPass.cpp:185`).
- A trace reader, once made, serves every later context
  (`HybridAnalysisPass.cpp:34`), which is compared with the first one's trace.
- A block torn in two in the middle of an instruction by a split in a second run
  of one context cannot be lifted again and keeps the IR of the first run, which
  has been freed; if it comes first, `ConstantFoldingPass` follows it. `GlobalDCE`
  may delete lifted functions whose blocks go on saying `IsValid()`. A block that
  is given up half way leaves a function that does not verify, and the module is
  optimised all the same (`LLVMOptimizer.cpp:49`).
- On POSIX an image goes to its preferred base whatever is there: two targets
  with one base share it, the second over the first, and the first to go unmaps
  the second (`PosixMemoryMapper.cpp:16`); memory of the rest of the process is
  replaced as well, which then writes into the image and unmaps a part of it. The bound of a relocation is four bytes
  for all types (`FileLoader.cpp:188`), so that a word in the last two is skipped
  and one of eight may be written past the image, and the header is copied
  without a bound (`FileLoader.cpp:108`).
- `AnalysisResult::ToDot` says it looks for the block that "contains" a
  successor and takes `succAddr <= end` (`AnalysisResult.cpp:191`), which the block
  before it satisfies too and often wins; and it names the node it finds in
  decimal, where nodes are named in hexadecimal.
- A query that fails and one without rows look the same to `SaveModule`
  (`AnalysisDatabase.cpp:512`), which would then leave out all blocks and succeed.
- A path that runs into decoded code leaves a block with end 0, which lifting
  skips (`IRLiftingPass.cpp:59`), although `IRLiftingPass.hpp:12` counts on blocks
  that are "populated with instructions"; `CoveredOrOpen` says that this is the
  only code no block covers.
- After an `Initialize` that failed half way `SIM` exists, and the next call takes
  it for a core "already initialized by another component"
  (`BochsExecutor.cpp:131`): it resets a machine that was never built and reports
  success. The machine has the disk of the executor that built it, while
  `BootFromDisk` looks at that of its own (`BochsExecutor.cpp:342`). An executor
  initialised after another one has run finds the processor where that one left
  it, although `BochsExecutor.cpp:213` says it is left at the reset vector.
  `LoadBinary` and `SetRegister` work on an executor that is not initialised.
  `OnExecutionComplete` is never called, and `SetTraceProducer` does not switch
  tracing on.
- `GetFunctionForAddress` asks only the nearest function below (`Module.cpp:32`),
  so that a function may start inside one whose pieces surround another,
  although `StaticControlFlowRebuilder.cpp:92` says it skips such addresses; a
  call into code decoded before does not become a function
  (`tests/test_cfg.cpp:127`); the loop that ends the sweep takes targets that are
  not executable; a block keeps a predecessor that a later split has cut off.
- Both successors of a branch to the next instruction are one address, and
  `OpaquePredicatePass` removes both (`OpaquePredicatePass.cpp:65`;
  `OnlyDeadEdgesGo` allows for it). `BuildCFG` adds the edges of a block twice
  when two paths queue it before it is visited (the properties speak of the set
  of edges).
- Verdicts are wrong for other reasons than the comparand: see `Follows` above,
  and the order of the vector, which is not an order of execution.
- The hybrid pass adds call sites without cross references, so that
  `XrefsMatchCallSites` ends with it and `CallsAreReferenced` is what remains; a
  predicate it disproves has lost its edge before, and does not get it back; a
  branch that runs twice the same way counts as disproved.
- `basic_blocks` has no unique column (`AnalysisDatabase.cpp:60`), so that "ON
  CONFLICT DO NOTHING" never applies and blocks saved again are stored twice; an
  annotation saved inside a transaction that a refused COMMIT left open is lost
  (`AcknowledgedNotesDurable` excepts it); `SaveTo` deletes nothing, so that a
  removed annotation is back after a restore.

## 5. Theorems

All are proved by TLAPS with no step left out, from the named assumptions on the
constants only, which TLC evaluates in the runs above. They say that the constants
are of their type (numbers of calls, runs, edits and passes are naturals, images
and programs are records of the form the models use), and besides:
`NamesAssumption` and `AddressesAssumption`, that there are finitely many passes,
addresses and types of reference; `BlocksAssumption`, that the places of
blocks are natural numbers; `OverlappingAssumption`, that a register shares
bits with itself; `ProgramsAssumption`, that a module has one function per address
(the key of `Module::m_functions`); `TextsAssumption`, that an empty text is not among
those the analyst enters; `FunctionsAssumption`, that blocks come as
`NormalizeBasicBlocks` leaves them, with no successor inside one (`SplitAtSuccessors`); `MaxHeldAssumption`, that the process may take
memory once; `NobodyAssumption`, that the model values are different.
None of them bounds a size.

| Theorem | Statement | Argument |
|---|---|---|
| `HybridAnalysisProofs!TypeCorrect` | `Spec => []TypeOK` | one step per action; that only mapped addresses enter the work lists is what needs the guards `IsWithinMapping`. |
| `HybridAnalysisProofs!FlowInductiveHolds`, `RecursiveDescentIsClosed` | `Spec => []FlowInductive`, `Spec => []FlowClosed` | `FlowClosed` alone is not inductive: in the middle of a function code is undecoded. `FlowInductive` adds where it is: in `work`, or at `pc`. Every action that takes an address from there settles it or puts its successors there. When `AnalyzeFunction` leaves its loop `work` is empty, which gives `FlowClosed`. The image is arbitrary: any size, lengths, overlaps and targets. |
| `HybridAnalysisProofs!HybridTypeCorrect`, `ChainIsClosed` | `HybridSpec => []HybridTypeOK`, `HybridSpec => []FlowClosed` | the same invariant carried through the chain: steps of the rebuilder and re-entries are covered by the lemmas about `Spec`; `FlowInductive` looks at decoded code, the work list and `pc` only, which the other passes leave alone. |
| `HybridAnalysisProofs!XrefsMatch` | `Spec => []XrefsMatchCallSites` | `CallsInv` holds in every state, also within a function: the references of type "call" are the call sites at calls, of the module and of the function under analysis. An action adds one of each at the instruction it decodes, or neither. It needs `SitesVisited`: a call site is at a decoded address, so that one that is decoded anew has none. |
| `HybridAnalysisProofs!TargetsAreAccounted`, `TargetsStayAccounted` | `Spec => []TargetsAccounted`, `HybridSpec => []TargetsAccounted` | `TargetsInv` says where a target is kept in mind before it is accounted for: in one of the two work lists, at `pc`, or among the call sites of the open function, whose targets `FinishFunction` queues. |
| `HybridAnalysisProofs!SplitsKeepCode` | `Spec => SplitKeepsCode` | a split gives the code of one block to two, and the head of `SplitsInOrder` is a block of the vector. |
| `HybridAnalysisProofs!NothingIsTakenBack` | `HybridSpec => AnalysisGrows` | each action appends a function, or leaves the functions alone, and adds references; `RemoveDeadEdge` and `ResolveFunction` are the ones that rewrite: the first changes blocks only, the second replaces an unresolved call site by those the trace gives for its place, of which there is at least one and none is 0. |
| `HybridAnalysisProofs!CallsAreReferencedHolds` | `HybridSpec => []CallsAreReferenced` | the trace adds call sites without references, so that `CallsInv` is lost; `PlacesInv` speaks of places only: references and call sites are at decoded instructions, and each decoded call has one of both. |
| `HybridAnalysisProofs!CoveredOrOpenHolds`, `BlocksAreBasicHolds` | `Spec => []CoveredOrOpen`, `Spec => []BlocksAreBasic` | `BlocksInv`, over the blocks of the functions and of the one under analysis (`Slots`). `BlocksStep` sorts the actions into five by what they do to them: extend the open block, close it, add it as it is, split, rest. `OpenInv`: the open block is what has been decoded from its start to `pc`. `ExtentInv`: a closed block is decoded code. `HeldInv`: decoded code is in a block. `ApartInv`, unless instructions overlap: blocks share no address, not even the start of one that was added open, and only the last instruction of a block branches. A new instruction is apart from all blocks because its bytes are new (`Fresh`). `EntriesInv`: when `NormalizeBasicBlocks` has nothing left to split, no branch target is inside a block; its lookup asks the first block that holds the address, and by `ApartInv` there is only one. |
| `HybridAnalysisProofs!BlocksStayBasic` | `HybridSpec => [](BlocksAreBasic /\ CoveredOrOpen)` | the same invariant: the other passes take successors from blocks or leave them alone (`Thinned`), and fewer successors are fewer branch targets. |
| `HybridAnalysisProofs!ObservedIsAnalyzedHolds` | `HybridSpec => []ObservedIsAnalyzed` | `ObservedInv`: of a verified function each observed target is a call site, and if it leads to code it is accounted for, kept in mind by the rebuilder, or in `resolved`. It needs that the function lists the same indirect instructions ever after: a listing depends on what is decoded in its blocks (`SameInstructions`), and by `ExtentInv` new code is not in a block that has been added. `StageInv` and `TargetsInv` say that nothing waits when the chain has finished. |
| `PassPipelineProofs!PipelineCorrect` | `Spec => [](TypeOK /\ PipelineInductive)` | while it sorts, a degree counts the dependencies that are not placed, and the queue holds what is free and not placed, once; each placed pass comes after its dependencies; while it runs, `completed` is a prefix of the result. The steps of the sort rest on lemmas about sequences without repetition and on cardinalities. |
| `PassPipelineProofs!OnlyCyclesLeftOut` | `Spec => []LeavesOutOnlyCycles` | what is not placed has a dependency that is not placed, so it is in the greatest set with that property; and no such set has a member in a sequence where each comes after its dependencies (the member that comes first). |
| `PassPipelineProofs!RunAllRespectsDependencies` | `Spec => ImplementsDependencyOrder` | a step of the sort stutters, `PreRun` starts a pass that is ready, `PostRun` completes it, and a run that ends with nothing left has nothing ready. |
| `AnalysisDatabaseProofs!TransactionsClosedHolds` | `Spec => []TransactionsClosed` | `TransactionInv` says which places of a save have a transaction open. |
| `AnalysisDatabaseProofs!NotesAreDurable` | `Spec => []AcknowledgedNotesDurable` | `NotesInv` adds that no save touches the notes, so that rolling back to `saved` brings back the notes that were acknowledged. |
| `AnalysisDatabaseProofs!SavesAreAtomicHolds` | `Spec => []SavesAreAtomic` | `AtomicInv` says for each place of a save what its statements have written since its BEGIN, and that `saved`, which a rollback brings back, has nothing of it. |
| `SharedStateProofs!CoreInductiveHolds`, `NothingTouchedEarly`, `MachineIsBuiltOnce`, `GuestIsNotReset` | `Spec => []CoreInductive`, `Spec => []TouchedOnlyAfterFailure`, `Spec => BuiltOnce`, `Spec => GuestSurvivesInitialize` | a ready executor has a core, a core has an interface, and an interface has a machine unless an initialisation has failed. A machine has an interface, so nobody builds another; a ready executor has a core, so `Initialize` leaves the machine alone. |
| `SharedStateProofs!IRInvHolds`, `FollowedIRIsLiveHolds`, `OptimisedIsOwnHolds` | `IRSpec => []IRInv`, `IRSpec => []FollowedIRIsLive`, `IRSpec => []OptimisedIsOwn` | `IRInv` is about the time between the two passes of one `RunAll`: IR of the living lifter is in its module, which holds this context's code only, and a block with older IR is one whose code a split has torn, since lifting gives every other block with IR a new one. Contexts come and go only when none runs. |
| `CfgBuildProofs!CfgInductiveHolds`, `GraphIsThatOfTheBlocks` | `Spec => []CfgInductive`, `Spec => []GraphIsReachable` | the walk is between the blocks it has visited, which have all their edges, and those in the queue; when the queue is empty the visited set is closed, and everything in it is reachable, so it is the least closed set. The listing and the splits of its lookup come after; `CfgInductive` has the types of both. |
| `CfgBuildProofs!OnlyDeadEdgesGoHolds` | `Spec => []OnlyDeadEdgesGo` | a block has lost at most one edge, by a verdict about it, and then has fewer than two, so that no second verdict applies. `BlocksInv` adds that no successor is inside a block: the lookup of the listing, which may split, splits none. |
| `CfgBuildProofs!ExportIsOfOneGraphHolds` | `Spec => [](LieApart(code.blocks) => ExportIsOfOneGraph)` | if no block starts inside another or where another does, and open blocks lead nowhere, the lookup of the graph and that of the listing agree on all but open blocks (`LookupsAgree`). `ListingInv`: what is found is shown, each block is written once, and a successor of one that is written is found or still to look up. At the end what is written is closed under the edges of the graph, so it has all that is reachable. |
| `DataFlowProofs!KnownValuesHold`, `ResolvedTargetsAreTaken` | `Spec => []KnownHold`, `Spec => ResolvedIsTaken` | `KnownHold` is inductive with the types: an instruction that is followed changes no known register but those it sets, and while the machine is away nothing is claimed. The target of a step is a known value of the state before it. For any registers, however they overlap, and programs of any length. |
| `SessionProofs!IndexesAgreeHolds` | `Spec => []IndexesAgree` | `IndexInv`: both multimaps hold each reference of the set once, and nothing else. `LoadFrom` clears all three before it inserts. |
| `SessionProofs!SavedIsRestorableHolds` | `Spec => []SavedIsRestorable` | `SavedInv`: unless a statement was refused, what the loops of a `SaveTo` have passed is stored; and what a note may be since the last complete save is among what it was at that save or later, since edits go on between. |
| `MachineWordProofs!MappingsAreOwnedHolds`, `NothingLeaksHolds` | `Spec => []MappingsAreOwned`, `Spec => []NothingLeaks` | `SpaceInv`: mappings are in the address space, and what belongs to a loader is in its mapping (`Space`); an address that a loader has mapped and nobody else had, it owns, and the rest of the process does not believe to have it, so that neither another's destructor nor `ProcessFrees` takes it (`Apart`). On Windows what the process believes is right, and no mapping is contested. |
| `MachineWordProofs!ImageIsRelocatedHolds` | `Spec => []ImageIsRelocated` | what `Load` writes: by induction over the sections, the last one that has a place gives its content; by induction over the relocations, each word that no other one touches is moved once. A word is put together again from its units by the division of the sum by powers of `Base` (`Digits`), of a word across the end the units in the image (`PartOfSum`), and the upper half of `HIGH` is what a sum of 32 bits leaves there (`HighPart`). `LoadedInv` adds to `SpaceInv` that the clean addresses of an image, those not in `contested` or `spoiled`, stay as they were written: where `Load` writes in another mapping, also past the end, is no longer clean (`FillBesides`), and the rest of the process writes only where it believes to have memory (`OthersWrite`). |
| `MachineWordProofs!ConstantsHoldAlways`, `VerdictsHoldAlways` | `IntervalSpec => []ConstantsHold`, `IntervalSpec => VerdictsHold` | `ConstantsHold` is inductive with the types. `ComputedIsExecuted`, one step per operation: where the pass follows, the constant it computes is what the machine leaves in the register. It rests on `SignedTwice`, cutting a number to the width of an integer first does not change what a narrower register keeps of it; on `WrapNear`, an interval of more than one number does not become a constant by wrapping; and on the powers of two dividing each other (`TwoToDivides`). An instruction that is followed changes no other name that is constant. A verdict then is about the value that the branch compares. For any width of integers and registers, any immediates and functions of any length. |

## 6. Only model-checked

Liveness (`Termination`, `Returns`, `ChainReturns`) needs fairness and `ENABLED`,
which the prover does not do.

`ExportIsOfOneGraph` is proved of functions whose blocks lie apart (`LieApart`), as
all functions of `MCCfgBuild` satisfy. That no two overlap is what `BlocksAreBasic`
promises as long as no decoded instructions do; of other functions it need not hold: an open block
and one that overlaps it may answer to the same address, the one to the listing,
the other to the graph.

## 7. Plan

Done, in this order of importance: `ControlFlow` with `BasicBlocks`, since all
other passes work on what it recovers; `PassPipeline`; `AnalysisDatabase`;
`CfgBuild`; `Session`; `HybridAnalysis`; `AbstractInterpretation`; `BochsExecutor`;
`DataFlow`; `FileLoader`; `IRLifetime`; the listing; registers that share bits; the
theorems above.

To come:

1. The trace producer that executors share, once the program uses it.

## 8. Not modelled, and why

Decoding (Zydis), parsing (LIEF), the IR (LLVM, remill) and the emulation (Bochs)
are libraries; the models have what the code assumes of them. The disassembler
registry inserts into a static map and removes nothing; `Get` reads the map
without the mutex, although `docs/PROJECT.md:24` calls it thread-safe, but nothing
in the repository calls it from two threads. Imports and the symbol table are
copied once from the parsed file into maps that nothing changes. Rendering of
results, the CLI, the UI, the build and the scripts have no state to go wrong.
