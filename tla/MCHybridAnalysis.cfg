SPECIFICATION FairHybridSpec
CONSTANTS
    MappedSize = 4
    Images <- AllImages
    MaxReanalyses = 2
    Traces <- ShortTraces
INVARIANTS
    HybridTypeOK
    FlowClosed
    ObservedIsAnalyzed
    CallsAreReferenced
PROPERTIES
    AnalysisGrows
    ChainReturns
CHECK_DEADLOCK FALSE
