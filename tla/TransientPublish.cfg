SPECIFICATION FairSpec
CONSTANTS
    Letter = {l1, l2}
INVARIANTS
    NoFalseSuccess
    IInv
PROPERTIES
    PromiseSpec
    EveryCallReports
CHECK_DEADLOCK FALSE
