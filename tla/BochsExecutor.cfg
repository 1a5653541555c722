\* Three executors: one is initialised while a second is ready and a third is not.
\* Two disks: the one inserted may be another executor's.
CONSTANTS
    Executors = {e1, e2, e3}
    Disks = {d1, d2}
    Addresses = {reset, elsewhere}
    ResetVector = reset
    None = None
SPECIFICATION Spec
INVARIANTS
    CoreInductive
    TouchedOnlyAfterFailure
PROPERTIES
    BuiltOnce
    GuestSurvivesInitialize
