SPECIFICATION Spec
CONSTANTS
    Device = {d1, d2}
    Known = {d1}
    Call = {k1, k2, k3}
    Ops = {"login", "refresh", "logout", "logout_session", "logout_others", "logout_all",
           "change_password", "reset_password", "delete", "restore"}
    None = None
SYMMETRY CallSymmetry
INVARIANTS
    TypeOK
    TokensSpentOnce
    EndedTokensAreDead
PROPERTY DeadTokensStayDead
CHECK_DEADLOCK FALSE
