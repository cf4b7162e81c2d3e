SPECIFICATION FairSpec
CONSTANTS
    None = None
    Threads <- OneThread
    Size = 2
    MaxSells = 3
    MaxCancels = 1
    CutsPartly = TRUE
    MaxFaults = 0
PROPERTY RemainderIsSold
CHECK_DEADLOCK FALSE
