SPECIFICATION Spec
CONSTANTS
    SpaceSize = 11
    Base = 2
    Images <- MCImages
    Loaders = {l1, l2}
    Elsewhere <- MCElsewhere
    MaxHeld = 2
    Platforms <- MCPlatforms
    Process = Process
    Free = Free
    Null = Null
SYMMETRY MCSymmetry
INVARIANTS
    MappingsAreOwned
    NothingLeaks
    ImageIsRelocated
