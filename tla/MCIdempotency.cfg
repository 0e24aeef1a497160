SPECIFICATION Spec
CONSTANTS
    Request = {r, s, t}
    User = {a, b}
    Key = {k}
    None = None
SYMMETRY Symmetry
INVARIANTS
    OneExecutionPerKey
    PairsDoubleOnlyByOverlap
CHECK_DEADLOCK FALSE
