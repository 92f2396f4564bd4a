SPECIFICATION PoolsFairSpec
CONSTANTS
    MaxConnectionCount = 2
    MaxChannelCount = 1
    MaxAckChannelCount = 1
    Host = {1, 2, 3, 4, 5, 6}
    Thread = {t1, t2}
    None = None
    MaxFaults = 2
    MaxExtras = 1
INVARIANTS
    PoolsTypeOK
    PoolsConserved
PROPERTIES
    DeadOnlyBeforeFlag
    GetReturns
CHECK_DEADLOCK FALSE
