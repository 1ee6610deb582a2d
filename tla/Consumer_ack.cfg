SPECIFICATION ConsumerSpec
CONSTANTS
    Message = {m1}
    Main = main
    NoTimer = NoTimer
    Timers = {t1, t2}
    BatchSize = 2
    MaxAdds = 2
    MaxDbFaults = 0
    Poison = {}
    MaxQueue = 2
    Prefetch = 1
    MaxPublishes = 1
    MaxCrashes = 0
    MaxLinkLosses = 0
INVARIANT AckImpliesPersisted
CHECK_DEADLOCK FALSE
