SPECIFICATION FairProducerSpec
CONSTANTS
    Trade = {v1, v2, i, o}
    Invalid = {i}
    Odd = {o}
    Frames <- ShortFrames
    MaxAttempts = 3
    RetryQueueMax = 2
    MaxAmqpFaults = 3
    MaxReconnectAttempts = 10
    DrainTimeout = 30
    MaxDelay = 60
    MaxFrames = 2
    MaxSockets = 2
INVARIANT ProducerTypeOK
INVARIANT OutlastsOutage
INVARIANT ShutdownBound
PROPERTY LossIsKnown
PROPERTY SigtermEndsProducer
CHECK_DEADLOCK FALSE
