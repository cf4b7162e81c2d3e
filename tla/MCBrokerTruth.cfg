\* Two threads refresh; one other balance, one fault, four seconds.
SPECIFICATION Spec
CONSTANTS
    Markets = {KR, US}
    Callers = {loop, ws}
    Procs = {"bot"}
    Home <- MCHome
    Users = {"bot"}
    TTL = 1
    CacheTTL = 1
    Slow = 1
    MaxTime = 4
    MaxRefreshes = 2
    MaxOthers = 1
    MaxFaults = 1
SYMMETRY MCSymmetry
INVARIANTS TypeOK FreshIsTrue CallIsNew
PROPERTY NewerKept
CHECK_DEADLOCK FALSE
