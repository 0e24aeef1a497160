SPECIFICATION FairSpec
CONSTANTS
    Instance = {i, j}
    Slot = {k, l}
    MaxId = 2
    MaxFaults = 1
INVARIANTS
    ShownWhileConnected
    PeersAgree
PROPERTY GhostsExpire
CHECK_DEADLOCK FALSE
