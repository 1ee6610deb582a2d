SPECIFICATION Spec
CONSTANTS
    Message = {m1, m2, m3}
    Main = main
    NoTimer = NoTimer
    Timers = {t1, t2, t3}
    BatchSize = 2
    MaxAdds = 5
    MaxDbFaults = 2
SYMMETRY Symmetry
INVARIANT TypeOK
INVARIANT OneFlushAtATime
INVARIANT TransactionIsOneBatch
INVARIANT ArmedTimerIsKnown
INVARIANT OverloadIsReal
INVARIANT NothingLost
INVARIANT FullIsAttended
PROPERTY ImplementsOrderedSink
CHECK_DEADLOCK FALSE
