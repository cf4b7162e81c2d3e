SPECIFICATION Spec
CONSTANTS
    None = None
    Threads <- OneThread
    Size = 2
    MaxSells = 1
    Partly = TRUE
    MaxCancels = 0
    MaxByHand = 0
    MaxFaults = 0
INVARIANTS
    ClosedIsSold
CHECK_DEADLOCK FALSE
