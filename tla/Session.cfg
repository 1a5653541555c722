SPECIFICATION Spec
CONSTANTS
    Addr = {1, 2}
    Texts = {"old", "new"}
    Types = {"call"}
    MaxEdits = 4
INVARIANTS
    IndexesAgree
    SavedIsRestorable
