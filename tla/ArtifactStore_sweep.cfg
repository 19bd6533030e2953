SPECIFICATION Spec
CONSTANTS
    p = p
    q = q
    layer = layer
    activations = activations
    shared = shared
    Procs = {p}
    Contents = {layer, activations}
    Files <- TwoFiles
    Refs <- References
    Makers <- OwnMakers
    Transient <- Generations
    Imported = {activations}
    MinAge = 4
    MaxFlight = 1
    MaxScan = 1
    MaxClock = 4
    MaxDeaths = 1
    MaxSweeps = 2
CHECK_DEADLOCK FALSE
INVARIANT EvidenceIsThere
INVARIANT HeldIsThere
INVARIANT SweepLeavesNoParts
