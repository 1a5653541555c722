SPECIFICATION IntervalSpec
CONSTANTS
    Width = 2
    Registers <- MCRegisters
    Bits <- MCBits
    Full <- MCFull
    ZeroKept <- MCZeroKept
    Volatile <- MCZeroKept
    Immediates <- MCImmediates
    MaxInsns = 3
INVARIANTS
    ConstantsHold
PROPERTIES
    VerdictsHold
