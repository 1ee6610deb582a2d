SPECIFICATION LakehouseSpec
CONSTANTS
    Trade = {1, 2, 3, 4}
    Minute = 2
    WindowsPerDay = 2
    Horizon = 4
    DagRun = {r1, r2}
    NoRun = NoRun
    MaxFaults = 0
PROPERTY NoMinuteLost
CHECK_DEADLOCK FALSE
