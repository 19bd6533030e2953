SPECIFICATION Spec
CONSTANTS
    p = p
    q = q
    Nobody = Nobody
    here = here
    Procs = {p, q}
    Host <- OneHost
    MaxFaults = 2
    MaxStarts = 2
    MaxWork = 1
    MaxFailures = 2
SYMMETRY Programs
CHECK_DEADLOCK FALSE
INVARIANT SoleWriter
INVARIANT NoLeaseLeft
INVARIANT LinesAreWhole
INVARIANT ReportedStays
PROPERTY UsesTheLease
PROPERTY CompletesWhatItSays
