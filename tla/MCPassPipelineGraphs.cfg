SPECIFICATION FairSpec
CONSTANTS
    Names = {"a", "b", "c", "x"}
    FactoryNames = {"a", "b", "c"}
    Graphs <- AllGraphs
    MaxRuns = 2
INVARIANTS
    PipelineInductive
    LeavesOutOnlyCycles
PROPERTIES
    ImplementsDependencyOrder
    Returns
