SPECIFICATION FairSpec
CONSTANTS
    Size = 3
    MaxPasses = 2
    Functions <- AllFunctions
INVARIANTS
    CfgInductive
    GraphIsReachable
    OnlyDeadEdgesGo
    ExportIsOfOneGraph
PROPERTY
    Termination
CHECK_DEADLOCK FALSE
