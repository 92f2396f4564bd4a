SPECIFICATION FairSpec
CONSTANTS
    User = {u1}
    Loop = {g1, g2}
    Acting = {g2}
    Channel = {c1, c2}
    Msg = {m1}
    None = None
    MessagesCap = 1
    ErrorsCap = 1
    MaxStarts = 2
    MaxStops = 3
    MaxFaults = 1
INVARIANTS
    Safety
    NoDeliveryDropped
    StartedIffRunning
    NoStaleStop
PROPERTIES
    StopsEnd
    EveryMessageHandled
CHECK_DEADLOCK FALSE
