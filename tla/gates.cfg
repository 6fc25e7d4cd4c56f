SPECIFICATION GateSpec
CONSTANTS
    Callers = {c1, c2}
    MaxHourly = 3
    MaxAttempts = 3
    Absent = Absent
    Visitors = {v1, v2}
    Limit = 3
    WindowTicks = 3
    Sessions = {s1}
    Admins = {a1, a2}
    TokenLife = 3
    FlagLife = 3
    TicksPerSecond = 2
    Nothing = Nothing
    Readers = {r1, r2}
    Period = 2
    MaxLate = 1
    Configured = 2
    Grace = 1
    Jitter = 2
    NoTable = NoTable
INVARIANTS NoImmortalCounter LimitsNearlyHold WindowLimit OldTokensAreRefused FreshIsRecent
PROPERTIES AccessCatchesUp
