SPECIFICATION Spec
CONSTANTS
    u1 = u1
    u2 = u2
    u3 = u3
    User = {u1, u2, u3}
    Creator = u1
    Joined = {u2}
    Call = {k1, k2}
    Ops = {"mute", "pin", "unpin", "archive", "unarchive", "read", "role", "add", "remove"}
    MaxSeq = 2
    SenderOf <- BothSend
    Named = {1, 3}
    AnyoneCanAdd = FALSE
    MaxMembers = 3
INVARIANT LastLeaverTombstones
CHECK_DEADLOCK FALSE
