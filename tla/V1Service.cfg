SPECIFICATION FairSpec
CONSTANTS
    Letter = {l1}
    LetterBuffer = 1
    MaxOverBuffer = 0
    RetryCount = 1
    MaxStarts = 2
    MaxAutoStops = 2
    Msg = {m1}
    MessageBuffer = 1
    MaxEvents = 2
    MaxPhantoms = 2
    MaxConsumerStarts = 1
    ErrorBuffer = 1
    MaxErrors = 1
    MaxStopServices = 2
INVARIANTS
    Safety
    WhenStoppedNothingArrives
    ChannelAccountedFor
    PhantomsBounded
PROPERTIES
    ServiceEnds
CHECK_DEADLOCK FALSE
