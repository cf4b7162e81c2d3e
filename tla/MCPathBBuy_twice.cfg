SPECIFICATION Spec
CONSTANTS
    r1 = r1
    r2 = r2
    o1 = o1
    o2 = o2
    x1 = x1
    NoRun = NoRun
    NoOrder = NoOrder
    Other = Other
    Runs <- TwoRuns
    Orders <- TwoOrders
    Others <- NoOthers
    Scanners <- TwoScanners
    Qty = 2
    MaxDays = 1
    MaxCrashes = 0
    MaxStrays = 0
    MaxKills = 0
SYMMETRY Symmetry
INVARIANT PlanSentOnce
