SPECIFICATION Spec
CONSTANTS
    Call = {c1, c2, c3}
    User = {s, a}
    Sender = s
    Admins = {a}
    Emoji = {e, f}
    MaxDistinct = 1
    Limit = 1
    Original = Original
    Nobody = Nobody
SYMMETRY AnyCall
INVARIANTS
    FeedGivesTheRows
    BodiesLostOnlyByOverlap
    LimitPassedOnlyByOverlap
    RowLosesOnlyWhatUpdatesMet
    PollsPassOnlyLateMessages
CHECK_DEADLOCK FALSE
