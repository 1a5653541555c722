--------------------------- MODULE MCHybridAnalysis ---------------------------
(***************************************************************************)
(* Images and traces for TLC: every small program of indirect calls and    *)
(* jumps, conditional branches and returns, some of whose code only a      *)
(* trace leads to, and code found by the sweep or in overlapping           *)
(* instructions.                                                           *)
(***************************************************************************)
EXTENDS HybridAnalysis

I(kind, len, target) == [kind |-> kind, len |-> len, target |-> target]
Programs(insns, sections) ==
    {[code |-> c, sections |-> sections, entrypoint |-> 1, exports |-> {}] :
        c \in [Mapped -> insns]}

HybridImages ==
    Programs({I("icall", 1, 0), I("ijmp", 1, 0), I("ret", 1, 0), I("jcc", 1, 4)},
             <<<<1, MappedSize + 1>>>>)

\* Two lengths, with data between two sections or after one.
SweepImages ==
    UNION {Programs({I("prologue", 2, 0), I("icall", 2, 0), I("jcc", 2, 4), I("ret", 1, 0), I("call", 1, 4)},
                    secs) : secs \in {<<<<1, 4>>>>, <<<<1, 3>>, <<4, 5>>>>}}

AllImages == HybridImages \cup SweepImages

\* One or two records, resolvable or not, into the image or out of it; and
\* one of a branch that goes both ways.
Records == {<<1, 3>>, <<1, 4>>, <<2, 3>>, <<2, MappedSize + 1>>, <<3, 0>>}
ShortTraces == {<<r>> : r \in Records} \cup {<<q, r>> : q, r \in Records}
BranchTraces == {<<<<1, 0>>, <<2, 0>>, <<1, 0>>, <<4, 0>>>>}
=============================================================================
