SPECIFICATION ProducerSpec
CONSTANTS
    Trade = {v1, v2}
    Invalid = {}
    Odd = {}
    Frames <- ShortFrames
    MaxAttempts = 3
    RetryQueueMax = 1
    MaxAmqpFaults = 1
    MaxReconnectAttempts = 10
    DrainTimeout = 30
    MaxDelay = 60
    MaxFrames = 2
    MaxSockets = 1
PROPERTY NoSilentLoss
CHECK_DEADLOCK FALSE
