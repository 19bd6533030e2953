SPECIFICATION Spec
CONSTANTS
    p = p
    q = q
    r = r
    Procs = {p, q}
    MaxTurns = 1
    MaxDeaths = 0
CHECK_DEADLOCK FALSE
INVARIANT MutualExclusion
