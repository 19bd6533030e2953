SPECIFICATION Spec
CONSTANTS
    NumBlocks = 2
    NumUnits = 1
    Identities = {A}
    Rolling = TRUE
    MaxCrashes = 1
    MaxRot = 0
INVARIANTS CompletedIsLoadable
