SPECIFICATION Spec
CONSTANTS
    None = None
    Threads <- TwoThreads
    Size = 2
    MaxSells = 2
    MaxCancels = 2
    CutsPartly = TRUE
    MaxFaults = 1
INVARIANTS
    TypeOK
    ClosedIsSold
    OneAttempt
    NoSecondAttempt
    LiveSaleIsWatched
CONSTRAINT Unhurried
CHECK_DEADLOCK FALSE
