SPECIFICATION FairSpec
CONSTANTS
    NoOrder = 0
    Orders <- OneOrder
    Placers <- BothThreads
    Size = 2
    MaxOthers = 1
    MaxMidnights = 1
    MaxCloses = 1
    MaxCrashes = 1
INVARIANTS
    TypeOK
    RowAddsUp
PROPERTIES
    ImplementsLedger
    EveryShareCounted
    DoubtEnds
CHECK_DEADLOCK FALSE
