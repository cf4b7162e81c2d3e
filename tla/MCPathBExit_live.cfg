SPECIFICATION FairSpec
CONSTANTS
    None = None
    Threads <- OneThread
    Size = 2
    MaxSells = 2
    MaxCancels = 1
    CutsPartly = FALSE
    MaxFaults = 0
PROPERTIES
    PositionIsSold
    SoldIsClosed
CHECK_DEADLOCK FALSE
