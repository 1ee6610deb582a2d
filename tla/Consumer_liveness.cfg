SPECIFICATION FairConsumerSpec
CONSTANTS
    Message = {m1, p}
    Main = main
    NoTimer = NoTimer
    Timers = {t1, t2}
    BatchSize = 2
    MaxAdds = 2
    MaxDbFaults = 1
    Poison = {p}
    MaxQueue = 2
    Prefetch = 1
    MaxPublishes = 2
    MaxCrashes = 1
    MaxLinkLosses = 1
PROPERTY PoisonReachesDlq
PROPERTY FlushFollows
CHECK_DEADLOCK FALSE
