----------------------------- MODULE MCPassPipeline -----------------------------
(***************************************************************************)
(* Dependency graphs for TLC: every graph on three passes and one name     *)
(* that no pass has until it is added.                                     *)
(***************************************************************************)
EXTENDS PassPipeline

\* "x" declares nothing, so that the graphs are those on the other three.
AllGraphs ==
    {g \in [Names -> SUBSET Names] : g["x"] = {}}
=============================================================================
