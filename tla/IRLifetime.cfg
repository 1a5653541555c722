SPECIFICATION IRSpec
CONSTANTS
    Contexts = {c1, c2}
    Blocks = {1, 2}
    MaxLifters = 3
    Null = Null
INVARIANTS
    FollowedIRIsLive
    OptimisedIsOwn
