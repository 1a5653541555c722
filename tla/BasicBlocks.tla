----------------------------- MODULE BasicBlocks -----------------------------
(***************************************************************************)
(* The block vector of a function and the operations on it: the lookup of  *)
(* the block at an address, BasicBlock::Split, and the two parts of        *)
(* Function::NormalizeBasicBlocks (the next split its scan performs, and   *)
(* the predecessors it records), and the successor OpaquePredicatePass     *)
(* takes from a block.  No state: ControlFlow, CfgBuild and HybridAnalysis *)
(* use these operators.                                                    *)
(*                                                                         *)
(* Order matters: a lookup returns the first block of the vector, and      *)
(* Split appends.  `end' is 0 until the block is closed, as in the         *)
(* constructor of BasicBlock.  The names of blocks, their last             *)
(* instruction, their indirect flags and their IR are left out, and so is  *)
(* the multiplicity of predecessors.                                       *)
(***************************************************************************)
EXTENDS SequencesExt

\* A function ends with no block in progress, or with one: NoBlock is the
\* null unique_ptr (the address 0 is never the start of a block).
NewBlock(a) == [start |-> a, end |-> 0, succs |-> <<>>, preds |-> {}]
NoBlock == NewBlock(0)

Block(Addr) == [start : Addr, end : Addr, succs : Seq(Addr), preds : SUBSET Addr]

\* Mutant: the last address of a block does not split it.
InsideButLast(b, a) == b.start < a /\ a < b.end - 1

\* Mutant: the end of a block counts as inside.
InsideOrEnd(b, a) == b.start < a /\ a <= b.end

Inside(b, a) == b.start < a /\ a < b.end

Covers(b, a) == b.start <= a /\ a < b.end

\* The addresses of the vector's blocks.
Covered(blocks) == UNION {b.start .. b.end - 1 : b \in ToSet(blocks)}

\* GetBasicBlockForAddress: the index of the first block that answers, or 0.
\* With allowSplit it stops at the first block that starts at the address or
\* holds it inside, and splits it in the second case (NeedsSplit).
BlockAt(blocks, a) ==
    SelectInSeq(blocks, LAMBDA b : b.start = a \/ Inside(b, a))
BlockCovering(blocks, a) ==
    SelectInSeq(blocks, LAMBDA b : Covers(b, a))
NeedsSplit(blocks, a) ==
    LET i == BlockAt(blocks, a) IN i # 0 /\ blocks[i].start # a

\* Mutant: the old block is shortened before the new one copies its end.
SplitAfterShortening(blocks, i, a) ==
    Append([blocks EXCEPT ![i].end = a, ![i].succs = <<a>>],
           [start |-> a, end |-> a, succs |-> blocks[i].succs, preds |-> {blocks[i].start}])

\* BasicBlock::Split of the i-th block at a, and the AddBasicBlock after it.
SplitBlock(blocks, i, a) ==
    Append([blocks EXCEPT ![i].end = a, ![i].succs = <<a>>],
           [start |-> a,
            end   |-> blocks[i].end,
            succs |-> blocks[i].succs,
            preds |-> {blocks[i].start}])

Entries(blocks) ==
    {b.start : b \in ToSet(blocks)} \cup UNION {ToSet(b.succs) : b \in ToSet(blocks)}

\* One round of the scan behind the label `reset' looks up, block after
\* block, the entries inside the block in ascending order and then its
\* successors.  The first lookup that splits restarts the scan.
Splits(blocks, i) ==
    SetToSortSeq({e \in Entries(blocks) : Inside(blocks[i], e) /\ NeedsSplit(blocks, e)}, <)
        \o SelectSeq(blocks[i].succs, LAMBDA s : NeedsSplit(blocks, s))

SplitsInOrder(blocks) == FlattenSeq([i \in 1..Len(blocks) |-> Splits(blocks, i)])

Normalized(blocks) == \A e \in Entries(blocks) : ~ NeedsSplit(blocks, e)
IsNextSplit(blocks, a) ==
    /\ ~ Normalized(blocks)
    /\ a = Head(SplitsInOrder(blocks))
    /\ NeedsSplit(blocks, a)

\* The round that splits nothing has recorded every block as a predecessor
\* of the block found at each of its successors.
WithPredecessors(blocks) ==
    [j \in 1..Len(blocks) |->
        [blocks[j] EXCEPT !.preds = @ \cup
            {blocks[i].start : i \in {k \in 1..Len(blocks) :
                \E s \in ToSet(blocks[k].succs) : BlockAt(blocks, s) = j}}]]

\* The successor that a branch with this outcome never follows: the first is
\* the target of the branch, the second the instruction after it.
Dead(b, alwaysTaken) == IF alwaysTaken THEN b.succs[2] ELSE b.succs[1]

\* Mutant: every successor but the given one goes.
KeepSuccessor(b, a) == [b EXCEPT !.succs = <<a>>]

\* RemoveSuccessor, of a block with two of them: every occurrence goes.
RemoveSuccessor(b, a) ==
    [b EXCEPT !.succs = IF @[1] # a THEN <<@[1]>> ELSE IF @[2] # a THEN <<@[2]>> ELSE <<>>]
=============================================================================
