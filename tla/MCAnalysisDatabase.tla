---------------------------- MODULE MCAnalysisDatabase ----------------------------
(***************************************************************************)
(* Instances of AnalysisDatabase for TLC: an analysis of one address, then *)
(* of both after a second run found more, with a changed function size.    *)
(***************************************************************************)
EXTENDS AnalysisDatabase

FirstRun ==
    [functions |-> {<<1, 1>>}, blocks |-> {<<1, 1>>}, calls |-> {<<1, 2>>}, symbols |-> {2}]

SecondRun ==
    [functions |-> {<<1, 2>>, <<2, 1>>}, blocks |-> {<<1, 1>>, <<2, 2>>},
     calls |-> {<<1, 2>>}, symbols |-> {2}]

TwoRuns == {FirstRun, SecondRun}
OneRun == {FirstRun}
=============================================================================
