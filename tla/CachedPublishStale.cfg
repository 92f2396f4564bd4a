SPECIFICATION Spec
CONSTANTS
    Letter = {l1, l2}
    Plain = {}
    MaxCacheChannelCount = 1
    None = None
    ConfirmCap = 2
    MaxTimeouts = 1
    MaxNacks = 1
    MaxFaults = 0
INVARIANTS
    NoFalseSuccess
CHECK_DEADLOCK FALSE
