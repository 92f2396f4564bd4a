SPECIFICATION FairSpec
CONSTANTS
    Letter = {l1, l2, l3, p1}
    Plain = {p1}
    MaxCacheChannelCount = 1
    None = None
    ConfirmCap = 2
    MaxTimeouts = 3
    MaxNacks = 1
    MaxFaults = 1
INVARIANTS
    Safety
    OnlyEarlyLeaversLeaveAnswers
    FalseSuccessesBounded
PROPERTIES
    EveryCallReturns
CHECK_DEADLOCK FALSE
