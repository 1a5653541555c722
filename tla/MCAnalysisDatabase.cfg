SPECIFICATION Spec
CONSTANTS
    Addr = {1, 2}
    Notes = {n1, n2}
    Programs <- TwoRuns
    MaxCalls = 4
INVARIANTS
    TransactionsClosed
    SavesAreAtomic
    AcknowledgedNotesDurable
