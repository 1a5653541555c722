SPECIFICATION Spec
CONSTANTS
    Registers <- MCRegisters
    Overlapping <- MCOverlapping
    Volatile <- MCVolatile
    Values <- MCValues
INVARIANTS
    KnownHold
PROPERTIES
    ResolvedIsTaken
