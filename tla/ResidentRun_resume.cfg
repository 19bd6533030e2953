SPECIFICATION Spec
CONSTANTS
    NumBlocks = 2
    NumUnits = 2
    Identities = {A, B}
    Rolling = TRUE
    MaxCrashes = 2
    MaxRot = 1
INVARIANTS TypeOK JournalNeverAhead AlwaysResumable BudgetExact
INVARIANTS AtMostTwoGenerations DiscoveryIsScan
PROPERTIES NeverRequantized CursorIsNextWork RunsLikeUninterrupted EventuallyCompletes
