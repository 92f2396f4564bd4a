SPECIFICATION FairSpec
CONSTANTS
    MaxConnectionCount = 1
    MaxCacheChannelCount = 2
    Thread = {t1, t2}
    Main = t1
    None = None
    MaxFaults = 2
INVARIANTS
    ConnectionsConserved
    ChannelsConserved
    DialOnlyWhenClosed
    NoFlaggedConnectionInUse
    IInv
PROPERTIES
    RecoveryUnlessSpinning
