------------------------------ MODULE MCCfgBuild ------------------------------
(***************************************************************************)
(* Every function of Size blocks of one address each, in every order of    *)
(* the vector that keeps the entry first, whose blocks end by a return, a  *)
(* jump to anywhere, out of the function too, or a conditional branch, or  *)
(* are open; and any verdicts about the conditional branches.              *)
(***************************************************************************)
EXTENDS CfgBuild, TLC

CONSTANTS Size

Addresses == 1 .. Size

\* An open block is known by an exit to nowhere.
Open == <<0>>
Exits(a) ==
    {<<>>, Open} \cup {<<t>> : t \in 1 .. Size + 1} \cup {<<t, a + 1>> : t \in 1 .. Size}

BlockOf(a, succs) ==
    IF succs = Open THEN NewBlock(a)
    ELSE [start |-> a, end |-> a + 1, succs |-> succs, preds |-> {}]

Orders == {p \in Permutations(Addresses) : p[1] = 1}

Branches(exits) == {a \in Addresses : Len(exits[a]) = 2}

Verdict(S) == {{<<a, taken[a]>> : a \in D} : D \in SUBSET S, taken \in [S -> BOOLEAN]}

AllFunctions ==
    UNION {{[blocks |-> [k \in Addresses |-> BlockOf(p[k], exits[p[k]])], verdicts |-> vs] :
                p \in Orders, vs \in Verdict(Branches(exits))} :
              exits \in {e \in [Addresses -> UNION {Exits(a) : a \in Addresses}] :
                            \A a \in Addresses : e[a] \in Exits(a)}}
=============================================================================
