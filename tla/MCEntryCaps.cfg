\* Two scanners, three plans; the caps are one.
SPECIFICATION Spec
CONSTANTS
    Runs = {r1, r2, r3}
    Scanners = {loop, ws}
    NoRun = NoRun
    DailyCap = 1
    PositionCap = 2
    RiskOffCap = 1
    MaxRestarts = 1
SYMMETRY MCSymmetry
INVARIANTS TypeOK DailyEntriesHeld RiskOffHeld
