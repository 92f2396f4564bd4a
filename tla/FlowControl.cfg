SPECIFICATION FairSpec
CONSTANTS
    Thread = {t1, t2}
    None = None
    BlockersCap = 2
    MaxAlarms = 4
INVARIANTS
    Safety
PROPERTIES
    PauseEnds
