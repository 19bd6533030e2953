SPECIFICATION LiveSpec
CONSTANTS
    p = p
    q = q
    r = r
    Nobody = Nobody
    Procs = {p, q, r}
    MaxCalls = 3
    MaxFaults = 1
CHECK_DEADLOCK FALSE
INVARIANT RegistrationsSurvive
PROPERTY CallsEnd
