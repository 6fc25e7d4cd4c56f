\* Sign-outs of everything, and writes of lastSeenAt, race with rotation,
\* with failures of what works for one session.
SPECIFICATION Spec
CONSTANTS
    Workers = {w1, w2}
    Sids = {s1, s2, s3}
    Scopes = {"TENANT"}
    Ops = {"login", "refresh", "revokeAll", "touch"}
    Faults = {"login", "refresh", "touch"}
    None = None
SYMMETRY Symmetry
INVARIANTS OneHeir
CHECK_DEADLOCK FALSE
