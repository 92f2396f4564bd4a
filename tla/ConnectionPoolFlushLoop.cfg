SPECIFICATION FairSpec
CONSTANTS
    MaxConnectionCount = 1
    MaxCacheChannelCount = 0
    Thread = {t1, t2}
    Main = t1
    None = None
    MaxFaults = 1
PROPERTIES
    GetConnectionReturns
