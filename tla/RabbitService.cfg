SPECIFICATION FairServiceSpec
CONSTANTS
    Letter = {l1, l2}
    None = None
    LettersCap = 1
    MaxCacheChannelCount = 1
    MaxStarts = 2
    MaxStops = 1
    User = {u1}
    Consumer = {}
    MaxRetryCount = 1
    CentralCap = 1
    OwnHandler = FALSE
INVARIANTS
    Safety
PROPERTIES
    StopEnds
    SettledUnlessShutdown
CHECK_DEADLOCK FALSE
