SPECIFICATION OfficeSpec
CONSTANTS
    Ana = Ana
    Bea = Bea
    Fine = Fine
    Identities <- AnaBeaFine
    StoredAs <- Rounded
    Requests = {i1, i2}
    Keys = {key1, key2}
    Files <- OneLineAndTwo
    Clerks = {c1}
    Nobody = Nobody
    Servers = {s1, s2}
    Logos = {l1, l2}
    MaxEdits = 1
    NoLogo = NoLogo
    NoConfig = NoConfig
    Callers = {q1, q2}
    Connections = {x1, x2}
    Orgs = {o1, o2}
    NoOrg = NoOrg
    Bypass = Bypass
    Free = Free
    Unset = Unset
INVARIANTS ImportedOnce LogoOnRecordExists OwnTenantOnly
PROPERTIES SettledConfigIsServed CallersEnd
CHECK_DEADLOCK FALSE
