SPECIFICATION FairSpec
CONSTANTS
    e1 = e1
    e2 = e2
    q1 = q1
    Exchange = {e1, e2}
    Queue = {q1}
    Exchanges <- MCExchanges
    Queues <- MCQueues
    QueueBindings <- MCQueueBindings
    ExchangeBindings <- MCExchangeBindings
    PassiveDeclare = {e2}
    NoWait = {q1, e2}
    Quorum = {q1}
    Args = {}
    Builder = {b1, b2}
    MaxFaults = 1
    MaxOthers = 1
INVARIANTS
    IInv
    BuiltSoFar
    OnlyDisturbedBuildsFail
PROPERTIES
    RebuildCompletes
