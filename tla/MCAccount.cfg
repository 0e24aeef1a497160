SPECIFICATION Spec
CONSTANTS
    Call = {c, d}
    Owner = Owner
    Ident = {x, y}
    First = x
    MaxFailures = 1
    None = None
SYMMETRY Symmetry
INVARIANT
    TokensActOnce
PROPERTIES
    LockoutPassedOnlyAtItsEnd
    PurgeTakesOnlyTheExpired
    DeletedChangeOnlyByOverlap
CHECK_DEADLOCK FALSE
