SPECIFICATION FairSpec
CONSTANTS
    Conn = {a}
    Conv = {v}
    NoConv = NoConv
    User = {u}
    Audience <- MCAudience
    BufferSize = 1
    RingMax = 1
    MaxEvents = 2
    MaxFrames = 2
    MaxFaults = 1
INVARIANTS
    RegistryAgrees
    MissingSeqsAreInFlight
    LiveFeedLosesASuffix
    HandoverIsWhole
PROPERTY DoomedConnectionsEnd
CHECK_DEADLOCK FALSE
