SPECIFICATION Spec
CONSTANTS
    p = p
    q = q
    layer = layer
    activations = activations
    shared = shared
    Procs = {p, q}
    Contents = {layer, activations, shared}
    Files <- TwoFiles
    Refs <- References
    Makers <- OwnMakers
    Transient <- Generations
    Imported = {shared}
    MinAge = 0
    MaxFlight = 0
    MaxScan = 0
    MaxClock = 0
    MaxDeaths = 2
    MaxSweeps = 0
INVARIANT VisibleIsWhole
