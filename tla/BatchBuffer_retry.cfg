SPECIFICATION FairSpec
CONSTANTS
    Message = {m1}
    Main = main
    NoTimer = NoTimer
    Timers = {t1, t2}
    BatchSize = 1
    MaxAdds = 2
    MaxDbFaults = 1
PROPERTY RetrySucceeds
CHECK_DEADLOCK FALSE
