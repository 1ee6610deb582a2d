SPECIFICATION LakehouseSpec
CONSTANTS
    Trade = {1, 2, 3}
    Minute = 2
    WindowsPerDay = 1
    Horizon = 3
    DagRun = {r1, r2}
    NoRun = NoRun
    MaxFaults = 1
SYMMETRY Symmetry
INVARIANT LakehouseTypeOK
INVARIANT VwapIsComplete
INVARIANT StatsAreComplete
INVARIANT OnlyTestedIsExported
INVARIANT NoDuplicates
INVARIANT FilesFollowGold
PROPERTY GoldOnlyGrows
PROPERTY MarkFollowsWrite
PROPERTY ImplementsExportLog
CHECK_DEADLOCK FALSE
