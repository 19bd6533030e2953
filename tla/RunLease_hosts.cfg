SPECIFICATION LeaseLiveSpec
CONSTANTS
    p = p
    q = q
    r = r
    s = s
    Nobody = Nobody
    here = here
    elsewhere = elsewhere
    Procs = {p, q, r, s}
    Host <- TwoHosts
    MaxFaults = 3
CHECK_DEADLOCK FALSE
INVARIANT SoleOwner
INVARIANT OwnRecord
PROPERTY StaleIsTaken
