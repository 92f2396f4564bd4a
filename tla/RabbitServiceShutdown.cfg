SPECIFICATION FairServiceSpec
CONSTANTS
    Letter = {}
    None = None
    LettersCap = 1
    MaxCacheChannelCount = 2
    MaxStarts = 1
    MaxStops = 2
    User = {u1, u2}
    Consumer = {k1}
    MaxRetryCount = 1
    CentralCap = 1
    OwnHandler = FALSE
PROPERTIES
    ShutdownReachesPool
    CollectorEnds
CHECK_DEADLOCK FALSE
