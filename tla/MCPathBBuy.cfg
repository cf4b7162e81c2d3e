SPECIFICATION Spec
CONSTANTS
    r1 = r1
    r2 = r2
    o1 = o1
    o2 = o2
    x1 = x1
    NoRun = NoRun
    NoOrder = NoOrder
    Other = Other
    Runs <- TwoRuns
    Orders <- TwoOrders
    Others <- NoOthers
    Scanners <- TwoScanners
    Qty = 2
    MaxDays = 3
    MaxCrashes = 1
    MaxStrays = 1
    MaxKills = 0
CONSTRAINTS Modes Straight
SYMMETRY Symmetry
INVARIANTS
    TypeOK
    OneExposureInModes
    ConfirmedCancelIsDeadInModes
    EntryIsOwnInModes
    WatchedIfAlone
