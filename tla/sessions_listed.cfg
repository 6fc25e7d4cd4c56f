\* Both applications; no failure, revokeAll or touch.
SPECIFICATION Spec
CONSTANTS
    Workers = {w1, w2}
    Sids = {s1, s2, s3}
    Scopes = {"TENANT", "ADMIN"}
    Ops = {"login", "refresh", "logout", "revoke", "revokeOthers", "list"}
    Faults = {}
    None = None
SYMMETRY Symmetry
INVARIANTS IssuedSessionsWork LiveSessionsAreListed
CHECK_DEADLOCK FALSE
