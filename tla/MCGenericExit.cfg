SPECIFICATION FairSpec
CONSTANTS
    None = None
    Threads <- OneThread
    Size = 2
    MaxSells = 2
    Partly = FALSE
    MaxCancels = 1
    MaxByHand = 1
    MaxFaults = 2
INVARIANTS
    TypeOK
    ClosedIsSold
    BookedIsSold
CHECK_DEADLOCK FALSE
PROPERTIES
    SoldIsClosed
