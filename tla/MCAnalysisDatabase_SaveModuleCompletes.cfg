SPECIFICATION Spec
CONSTANTS
    Addr = {1, 2}
    Notes = {n1}
    Programs <- OneRun
    MaxCalls = 2
INVARIANT SaveModuleCompletes
