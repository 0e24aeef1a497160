SPECIFICATION FairSpec
CONSTANTS
    Conv = {c1}
    NoConv = NoConv
    Writer = {w1, w2}
    Instance = {i1, i2}
    BatchSize = 2
    DedupeMax = 1
    RingMax = 1
    MaxFaults = 1
INVARIANTS
    NoReadableRowSkipped
    DuplicatesOnlyAfterEviction
    AcceptedWindowIsWhole
PROPERTY RowsReachDispatchers
CHECK_DEADLOCK FALSE
