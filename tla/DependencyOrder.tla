---------------------------- MODULE DependencyOrder ----------------------------
(***************************************************************************)
(* What a run of the passes promises, whatever the algorithm that orders   *)
(* them: one pass at a time, each at most once and only after every pass   *)
(* it depends on; and a run that is complete has left out only passes that *)
(* cannot be run.  A name in deps[p] that is not registered does not       *)
(* count.  PassPipeline implements this specification.                     *)
(***************************************************************************)
CONSTANTS Names, Graphs

VARIABLES
    deps,       \* what each pass declares; chosen once
    available,  \* the registered passes
    done,       \* the passes of the current or the last run that have run
    active,     \* the pass that is running, if any
    status      \* of the current or the last run

vars == <<deps, available, done, active, status>>

Ready == {p \in available \ done : deps[p] \cap available \subseteq done}

Init ==
    /\ deps \in Graphs
    /\ available = {} /\ done = {} /\ active = {} /\ status = "failed"

Register ==
    /\ status # "running"
    /\ \E more \in SUBSET Names : available' = available \cup more
    /\ UNCHANGED <<deps, done, active, status>>

Begin ==
    /\ status # "running"
    /\ \E more \in SUBSET Names : available' = available \cup more
    /\ done' = {} /\ status' = "running"
    /\ UNCHANGED <<deps, active>>

Start(p) ==
    /\ status = "running" /\ active = {} /\ p \in Ready
    /\ active' = {p}
    /\ UNCHANGED <<deps, available, done, status>>

Complete ==
    /\ status = "running" /\ active # {}
    /\ done' = done \cup active /\ active' = {}
    /\ UNCHANGED <<deps, available, status>>

Abandon ==
    /\ status = "running"
    /\ status' = "failed" /\ active' = {}
    /\ UNCHANGED <<deps, available, done>>

Finish ==
    /\ status = "running" /\ active = {} /\ Ready = {}
    /\ status' = "complete"
    /\ UNCHANGED <<deps, available, done, active>>

Next ==
    \/ Register \/ Begin
    \/ \E p \in Names : Start(p)
    \/ Complete \/ Abandon \/ Finish

Spec == Init /\ [][Next]_vars
=============================================================================
