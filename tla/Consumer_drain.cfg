SPECIFICATION ConsumerSpec
CONSTANTS
    Message = {m1, m2}
    Main = main
    NoTimer = NoTimer
    Timers = {t1, t2}
    BatchSize = 2
    MaxAdds = 3
    MaxDbFaults = 0
    Poison = {}
    MaxQueue = 2
    Prefetch = 1
    MaxPublishes = 3
    MaxCrashes = 0
    MaxLinkLosses = 1
INVARIANT DrainedOnExit
CHECK_DEADLOCK FALSE
