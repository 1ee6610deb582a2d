SPECIFICATION ConsumerSpec
CONSTANTS
    Message = {m1, m2, p}
    Main = main
    NoTimer = NoTimer
    Timers = {t1, t2}
    BatchSize = 2
    MaxAdds = 3
    MaxDbFaults = 1
    Poison = {p}
    MaxQueue = 2
    Prefetch = 2
    MaxPublishes = 3
    MaxCrashes = 1
    MaxLinkLosses = 1
SYMMETRY Symmetry
INVARIANT ConsumerTypeOK
INVARIANT TransactionIsOneBatch
INVARIANT NothingLost
PROPERTY UnackedIsNeverLost
PROPERTY ImplementsMortalSink
CHECK_DEADLOCK FALSE
