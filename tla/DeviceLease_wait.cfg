SPECIFICATION LiveSpec
CONSTANTS
    p = p
    q = q
    r = r
    Procs = {p, q, r}
    MaxTurns = 2
    MaxDeaths = 1
CHECK_DEADLOCK FALSE
INVARIANT SerialExclusion
PROPERTY RefusedByTheLiving
PROPERTY WaitEnds
