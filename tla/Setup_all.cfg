SPECIFICATION SetupSpec
CONSTANTS
    Runner = {o1, o2}
    Operator = {o1, o2}
    MaxFiles = 2
    Shipped = 1
    Trade = {a, b}
    MaxQueue = 1
    Prefetch = 1
    MaxAttempts = 1
    RetryQueueMax = 1
    MaxAmqpFaults = 1
    ConnectRetries = 2
SYMMETRY Symmetry
INVARIANT SetupTypeOK
INVARIANT SchemaIsPrefix
INVARIANT SuccessMeansApplied
INVARIANT RoutedIsKept
INVARIANT BootSucceedsOnlyWhole
PROPERTY DeadLettersHaveTarget
CHECK_DEADLOCK FALSE
