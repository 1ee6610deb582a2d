SPECIFICATION FairSpec
CONSTANTS
    Message = {m1}
    Main = main
    NoTimer = NoTimer
    Timers = {t1, t2}
    BatchSize = 2
    MaxAdds = 2
    MaxDbFaults = 0
PROPERTY TimeoutFlushes
CHECK_DEADLOCK FALSE
