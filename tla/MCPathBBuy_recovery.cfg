SPECIFICATION FairSpec
CONSTANTS
    r1 = r1
    r2 = r2
    o1 = o1
    o2 = o2
    x1 = x1
    NoRun = NoRun
    NoOrder = NoOrder
    Other = Other
    Runs <- OneRun
    Orders <- OneOrder
    Others <- OneOther
    Scanners <- OneScanner
    Qty = 2
    MaxDays = 1
    MaxCrashes = 1
    MaxStrays = 1
    MaxKills = 1
INVARIANT EntryHasShares
PROPERTY UnknownFillRecovered
