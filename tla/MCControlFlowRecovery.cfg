SPECIFICATION Spec
CONSTANTS
    MappedSize = 4
    Images <- RecoveryImages
    MaxReanalyses = 1
INVARIANTS
    TypeOK
    FlowInductive
    BlocksAreBasic
    CoveredOrOpen
    TargetsAccounted
    XrefsMatchCallSites
PROPERTIES
    SplitKeepsCode
CHECK_DEADLOCK FALSE
