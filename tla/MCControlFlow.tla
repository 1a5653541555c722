---------------------------- MODULE MCControlFlow ----------------------------
(***************************************************************************)
(* Images for TLC.  Each set holds every program over a few kinds of       *)
(* instruction at every address, so that each run is exhaustive for the    *)
(* question it asks.                                                       *)
(***************************************************************************)
EXTENDS ControlFlow

I(kind, len, target) == [kind |-> kind, len |-> len, target |-> target]
Plain(kinds) == {I(k, 1, 0) : k \in kinds}
Targeting(kinds, targets) == {I(k, 1, t) : k \in kinds, t \in targets}

WholeImage == <<<<1, MappedSize + 1>>>>

Programs(insns, sections, entrypoint, exports) ==
    {[code |-> c, sections |-> sections, entrypoint |-> entrypoint, exports |-> e] :
        c \in [Mapped -> insns], e \in exports}

\* Branches inside one function and out of the image, from one entry point.
BranchImages ==
    Programs(Plain({"op", "ret", "bad"}) \cup Targeting({"jcc"}, 2..MappedSize + 1)
                \cup Targeting({"jmp"}, Mapped \ {1}),
             WholeImage, 1, {{}})

\* Calls and jumps between functions, with an export in the middle.
CallImages ==
    Programs(Plain({"op", "ret", "icall", "bad"}) \cup Targeting({"call", "jmp", "jcc"}, {2, 4}),
             WholeImage, 1, {{}, {3}})

\* Calls and jumps through memory.
MemoryImages ==
    Programs(Plain({"op", "ijmp"}) \cup Targeting({"ripcall", "jcc"}, {4}), WholeImage, 1, {{}, {3}})

\* Instructions of two lengths, into some of which control is led.
LongImages ==
    Programs({I("op", 2, 0), I("ret", 1, 0), I("jcc", 1, 2), I("jcc", 2, 3), I("jmp", 1, 3)},
             WholeImage, 1, {{}, {3}})

RecoveryImages == BranchImages \cup CallImages \cup MemoryImages \cup LongImages
=============================================================================
